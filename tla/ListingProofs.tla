---------------------------- MODULE ListingProofs ----------------------------
(***************************************************************************)
(* Proofs about the paged listing, for every bucket, page size and number  *)
(* of writes by other clients.                                             *)
(***************************************************************************)
EXTENDS Listing, FiniteSetTheorems, WellFoundedInduction, TLAPS

-----------------------------------------------------------------------------
(***************************************************************************)
(* Types                                                                   *)
(***************************************************************************)

Types == TypeOK /\ list_version \in Versions

LEMMA TypeInit == Init => Types
  BY ListingAssumption DEF Init, Types, TypeOK, NoEntries, Names, Commands, NULL

LEMMA AddToType ==
  ASSUME NEW l \in [Names -> 0..2], NEW S \in SUBSET Names
  PROVE  AddTo(l, S) \in [Names -> 0..2]
  BY DEF AddTo

LEMMA KeptType == \A P \in SUBSET Names : Kept(P) \in SUBSET P
  BY DEF Kept

LEMMA TypeStep == Types /\ [Next]_vars => Types'
<1> SUFFICES ASSUME Types, [Next]_vars PROVE Types'
  OBVIOUS
<1> USE DEF Types, TypeOK
<1>1. ASSUME NEW c \in Commands, NEW v \in Versions, ListCall(c, v)
      PROVE  Types'
  BY <1>1, ListingAssumption
     DEF ListCall, ListFree, NoEntries, NULL
<1>2. ASSUME NEW P \in SUBSET Names, PageArrives(P) PROVE Types'
  <2>1. container' \in [Names -> 0..2]
    BY <1>2, AddToType, KeptType DEF PageArrives
  <2> QED
    BY <1>2, <2>1 DEF PageArrives, Return, server, NULL
<1>3. CASE PageUnparsable
  BY <1>3 DEF PageUnparsable, Return, server
<1>4. ASSUME NEW r \in Failures, PageFails(r) PROVE Types'
  BY <1>4 DEF PageFails, Return, server
<1>5. ASSUME NEW n \in Names, PutObject(n) PROVE Types'
  BY <1>5, ListingAssumption DEF PutObject
<1>6. ASSUME NEW n \in Names, DeleteObject(n) PROVE Types'
  BY <1>6, ListingAssumption DEF DeleteObject
<1>7. CASE UNCHANGED vars
  BY <1>7 DEF vars
<1> QED
  BY <1>1, <1>2, <1>3, <1>4, <1>5, <1>6, <1>7 DEF Next, Answer, OtherClients

\* The variables keep their types: writes stay below their bound, the
\* continuation is a name or none, the result is one of the codes that
\* execute_request() returns for a list command.
THEOREM TypeCorrect == Spec => []TypeOK
<1>1. Types => TypeOK
  BY DEF Types
<1> QED
  BY <1>1, TypeInit, TypeStep, PTL DEF Spec

-----------------------------------------------------------------------------
(***************************************************************************)
(* The server's history                                                    *)
(***************************************************************************)

\* What the history variables say about the bucket while a call runs.
History == /\ always \subseteq bucket
           /\ pc = "request" => bucket \subseteq ever

\* The list holds only what the bucket had, whatever the continuations are.
TruthInv == Types /\ History /\ ListTruthful

LEMMA TruthInit == Init => TruthInv
  BY TypeInit DEF Init, TruthInv, History, ListTruthful, NoEntries

LEMMA HistoryStep == Types /\ History /\ [Next]_vars => History'
<1> SUFFICES ASSUME Types, History, [Next]_vars PROVE History'
  OBVIOUS
<1> USE DEF History
<1>1. ASSUME NEW c \in Commands, NEW v \in Versions, ListCall(c, v)
      PROVE  History'
  BY <1>1 DEF ListCall
<1>2. ASSUME NEW P \in SUBSET Names, PageArrives(P) PROVE History'
  BY <1>2 DEF PageArrives, Return, server
<1>3. CASE PageUnparsable
  BY <1>3 DEF PageUnparsable, Return, server
<1>4. ASSUME NEW r \in Failures, PageFails(r) PROVE History'
  BY <1>4 DEF PageFails, Return, server
<1>5. ASSUME NEW n \in Names, PutObject(n) PROVE History'
  BY <1>5 DEF PutObject
<1>6. ASSUME NEW n \in Names, DeleteObject(n) PROVE History'
  BY <1>6 DEF DeleteObject
<1>7. CASE UNCHANGED vars
  BY <1>7 DEF vars
<1> QED
  BY <1>1, <1>2, <1>3, <1>4, <1>5, <1>6, <1>7 DEF Next, Answer, OtherClients

\* What the reader of a page keeps is in the bucket and to be reported.
LEMMA KeptIsReported ==
  ASSUME Types, History, pc = "request",
         NEW P \in SUBSET Names, IsPage(P, continuation), NEW n \in Kept(P)
  PROVE  n \in ever \cap ReportedBy[cmd]
  BY DEF Types, TypeOK, History, IsPage, Remaining, Kept, ReportedBy

LEMMA TruthStep == TruthInv /\ [Next]_vars => TruthInv'
<1> SUFFICES ASSUME TruthInv, [Next]_vars PROVE ListTruthful'
  BY TypeStep, HistoryStep DEF TruthInv
<1> USE DEF TruthInv, ListTruthful
<1>1. ASSUME NEW c \in Commands, NEW v \in Versions, ListCall(c, v)
      PROVE  ListTruthful'
  BY <1>1 DEF ListCall, ListFree, NoEntries
<1>2. ASSUME NEW P \in SUBSET Names, PageArrives(P) PROVE ListTruthful'
  <2>1. /\ ever' = ever /\ cmd' = cmd
        /\ container' = AddTo(container, Kept(P))
        /\ pc = "request" /\ IsPage(P, continuation)
    BY <1>2 DEF PageArrives, Return, server
  <2>2. \A n \in Names : container'[n] > 0 => container[n] > 0 \/ n \in Kept(P)
    BY <2>1 DEF AddTo
  <2> QED
    BY <2>1, <2>2, KeptIsReported
<1>3. CASE PageUnparsable
  BY <1>3 DEF PageUnparsable, Return, server
<1>4. ASSUME NEW r \in Failures, PageFails(r) PROVE ListTruthful'
  BY <1>4 DEF PageFails, Return, server
<1>5. ASSUME NEW n \in Names, PutObject(n) PROVE ListTruthful'
  BY <1>5 DEF PutObject
<1>6. ASSUME NEW n \in Names, DeleteObject(n) PROVE ListTruthful'
  BY <1>6 DEF DeleteObject
<1>7. CASE UNCHANGED vars
  BY <1>7 DEF vars
<1> QED
  BY <1>1, <1>2, <1>3, <1>4, <1>5, <1>6, <1>7 DEF Next, Answer, OtherClients

\* Whatever list version, directories, unreadable pages or failures there
\* are: the list ms3_list() and ms3_list_dir() build holds nothing from an
\* earlier call and nothing the bucket did not have during this one.
THEOREM Truth == Spec => []ListTruthful
<1>1. TruthInv => ListTruthful
  BY DEF TruthInv
<1> QED
  BY <1>1, TruthInit, TruthStep, PTL DEF Spec

-----------------------------------------------------------------------------
(***************************************************************************)
(* The marker                                                              *)
(***************************************************************************)

\* A continuation is an entry of the page it came with, so it lies beyond the
\* marker or token that the page was asked for with.
LEMMA ContinuationIsBeyond ==
  ASSUME NEW P \in SUBSET Names, IsPage(P, continuation), NEW c \in 0..MaxName,
         ContinuationIs(P, Truncated(P, continuation), c), c # NULL
  PROVE  c > continuation
<1>1. c \in P
  BY DEF ContinuationIs, IsLast, Keys
<1> QED
  BY <1>1 DEF IsPage, Remaining

\* One step of the marker: a page that is followed by a request has moved it.
LEMMA MarkerStep ==
  ASSUME Next, pc = "request", pc' = "request", bucket' = bucket
  PROVE  continuation' > continuation
<1>1. PICK P \in SUBSET Names : PageArrives(P)
  BY DEF Next, Answer, OtherClients, ListCall, PageUnparsable, PageFails, Return,
         PutObject, DeleteObject
<1>2. PICK c \in 0..MaxName :
        /\ ContinuationIs(P, Truncated(P, continuation), c)
        /\ c # NULL
        /\ continuation' = c
  BY <1>1 DEF PageArrives, Return
<1>3. IsPage(P, continuation)
  BY <1>1 DEF PageArrives
<1> QED
  BY <1>2, <1>3, ContinuationIsBeyond

\* Whatever the bucket holds, whatever the sizes of the pages are and whatever
\* other clients write: with markers and with tokens, every further page is
\* asked for from beyond the page before it, so the recursion of
\* execute_request() goes through the names in order and never around.
THEOREM Advances == Spec => MarkerAdvances
<1>1. [Next]_vars => [pc = "request" /\ pc' = "request" /\ bucket' = bucket
                        => continuation' > continuation]_vars
  BY MarkerStep
<1> QED
  BY <1>1, PTL DEF Spec, MarkerAdvances

-----------------------------------------------------------------------------
(***************************************************************************)
(* Nothing missed, nothing twice                                           *)
(***************************************************************************)

\* While a call runs and nothing has spoiled it, the list covers the names up to
\* the continuation and nothing after it.
NothingAhead == exact /\ pc = "request" =>
                  \A n \in Names : container[n] > 0 => n <= continuation

NothingMissed ==
  exact /\ pc = "request" =>
    \A n \in always \cap ReportedBy[cmd] : n <= continuation => container[n] >= 1

\* The caller gets the container as it is, and keeps it until the next call.
SameList == pc = "idle" => list = container

ListInv == /\ TruthInv
           /\ NoDuplicates /\ NothingAhead /\ NothingMissed
           /\ SameList /\ ListCompleteIfExact

LEMMA ListInit == Init => ListInv
<1> SUFFICES ASSUME Init PROVE ListInv
  OBVIOUS
<1>1. Types
  BY TypeInit
<1> QED
  BY <1>1, TruthInit
     DEF Init, ListInv, NoDuplicates, NothingAhead, NothingMissed, SameList,
         ListCompleteIfExact, ListComplete, NoEntries

\* A truncated page has an entry.
LEMMA TruncatedNotEmpty ==
  ASSUME NEW P \in SUBSET Names, IsPage(P, continuation),
         Truncated(P, continuation)
  PROVE  P # {}
<1>1. Cardinality({}) = 0
  BY FS_EmptySet
<1> QED
  BY <1>1, ListingAssumption DEF IsPage, Truncated

LEMMA MinimalOf ==
  ASSUME NEW R, IsWellFoundedOn(R, Nat), NEW T, T \subseteq Nat, T # {}
  PROVE  \E m \in T : \A n \in T : ~ (<<n, m>> \in R)
  BY WFMin, ZenonT(60)

LEMMA Least ==
  ASSUME NEW S \in SUBSET Nat, S # {}
  PROVE  \E m \in S : \A n \in S : m <= n
<1>1. IsWellFoundedOn(OpToRel(<, Nat), Nat)
  BY NatLessThanWellFounded, Zenon
<1>2. \A x, y \in Nat : x < y => <<x, y>> \in OpToRel(<, Nat)
  BY DEF OpToRel
<1>3. PICK R : /\ IsWellFoundedOn(R, Nat)
               /\ \A x, y \in Nat : x < y => <<x, y>> \in R
  BY <1>1, <1>2, Zenon
<1>4. \E m \in S : \A n \in S : ~ (<<n, m>> \in R)
  <2>1. S \subseteq Nat
    OBVIOUS
  <2> QED
    BY <1>3, <2>1, MinimalOf
<1>5. PICK m \in S : \A n \in S : ~ (<<n, m>> \in R)
  BY <1>4
<1>6. \A n \in S : ~ (n < m)
  BY <1>3, <1>5, Zenon
<1> QED
  BY <1>6

\* A set of names that is not empty has a last one: its least upper bound.
LEMMA LastOf ==
  ASSUME NEW S \in SUBSET Names, S # {}
  PROVE  \E n \in S : IsLast(n, S)
<1> DEFINE Bounds == {n \in Nat : \A k \in S : k <= n}
<1>1. MaxName \in Bounds
  BY ListingAssumption DEF Names
<1>2. PICK m \in Bounds : \A n \in Bounds : m <= n
  BY <1>1, Least
<1>3. ASSUME m \notin S PROVE FALSE
  <2>1. \A k \in S : k \in Nat /\ 1 <= k /\ k <= m /\ k # m
    BY <1>3 DEF Names
  <2>2. m - 1 \in Bounds
    BY <2>1
  <2> QED
    BY <1>2, <2>2
<1> QED
  BY <1>3 DEF IsLast

\* The continuation of a page that does not spoil the call is its last entry,
\* or none if it was the last page.
LEMMA ContinuationIsLast ==
  ASSUME Types, NEW P \in SUBSET Names, IsPage(P, continuation),
         Truncated(P, continuation) => ContinuesAtItsEnd(P),
         NEW c \in 0..MaxName,
         ContinuationIs(P, Truncated(P, continuation), c)
  PROVE  IF Truncated(P, continuation) THEN IsLast(c, P) /\ c # NULL
                                       ELSE c = NULL
<1>1. ASSUME NEW k \in Keys(P), IsLast(k, P), IsLast(c, Keys(P))
      PROVE  IsLast(c, P)
  BY <1>1 DEF IsLast, Keys, Names
<1>2. CASE Truncated(P, continuation)
  <2>1. P # {}
    BY <1>2, TruncatedNotEmpty
  <2>2. list_version \in {1, 2}
    BY DEF Types, TypeOK
  <2>3. ASSUME list_version = 2 PROVE IsLast(c, P)
    BY <1>2, <2>3 DEF ContinuationIs
  <2>4. ASSUME list_version = 1 PROVE IsLast(c, P)
    <3>1. PICK k \in Keys(P) : IsLast(k, P)
      BY <1>2, <2>4 DEF ContinuesAtItsEnd
    <3>2. IsLast(c, Keys(P))
      BY <1>2, <2>4, <3>1 DEF ContinuationIs
    <3> QED
      BY <1>1, <3>1, <3>2
  <2>5. IsLast(c, P)
    BY <2>2, <2>3, <2>4
  <2> QED
    BY <1>2, <2>1, <2>5 DEF IsLast, Names, NULL
<1>3. CASE ~Truncated(P, continuation)
  BY <1>3 DEF ContinuationIs
<1> QED
  BY <1>2, <1>3

\* A page that does not spoil the call adds the names between the old
\* continuation and the new one, or all that are left.
LEMMA PageAdds ==
  ASSUME ListInv, exact', NEW P \in SUBSET Names, PageArrives(P)
  PROVE  /\ NoDuplicates' /\ NothingAhead' /\ NothingMissed'
         /\ SameList' /\ ListCompleteIfExact'
<1> USE DEF ListInv, TruthInv, ListCompleteIfExact
<1>1. /\ pc = "request" /\ IsPage(P, continuation)
      /\ container' = AddTo(container, Kept(P))
      /\ always' = always /\ cmd' = cmd
      /\ exact /\ (Truncated(P, continuation) => ContinuesAtItsEnd(P))
  BY DEF PageArrives, Return, server
<1>2. PICK c \in 0..MaxName :
        /\ ContinuationIs(P, Truncated(P, continuation), c)
        /\ \/ /\ c = NULL
              /\ Return("MS3_ERR_NONE")
           \/ /\ c # NULL
              /\ continuation' = c
              /\ UNCHANGED <<server, pc, cmd, list_version, list, res>>
  BY DEF PageArrives
<1>3. IF Truncated(P, continuation) THEN IsLast(c, P) /\ c # NULL ELSE c = NULL
  BY <1>1, <1>2, ContinuationIsLast
<1>4. \A n \in Names : n \in P => n > continuation
  BY <1>1 DEF IsPage, Remaining
<1>5. container \in [Names -> 0..2] /\ continuation \in 0..MaxName
  BY DEF Types, TypeOK
<1>6. \A n \in Kept(P) : n \in P /\ container[n] = 0
  BY <1>1, <1>4, <1>5 DEF NothingAhead, Kept, Names
<1>7. \A n \in Names : container'[n] = IF n \in Kept(P) THEN 1 ELSE container[n]
  BY <1>1, <1>6 DEF AddTo
<1>8. NoDuplicates'
  BY <1>1, <1>7 DEF NoDuplicates
<1>9. \A n \in always \cap ReportedBy[cmd] :
        n > continuation => n \in Remaining(continuation) /\ (n \in P => n \in Kept(P))
  BY DEF History, ReportedBy, Kept, Remaining, Types, TypeOK
<1>10. CASE Truncated(P, continuation)
  <2>1. /\ continuation' = c /\ pc' = "request" /\ c \in P
        /\ \A k \in P : k <= c
    BY <1>1, <1>2, <1>3, <1>10 DEF IsLast
  <2>2. c > continuation /\ c \in Names
    BY <2>1, <1>4
  <2>3. NothingAhead'
    BY <1>1, <1>5, <1>6, <1>7, <2>1, <2>2 DEF NothingAhead, Names
  <2>4. ASSUME NEW n \in always \cap ReportedBy[cmd], n <= c
        PROVE  container'[n] >= 1
    <3>1. n \in Names
      BY DEF Types, TypeOK
    <3>2. CASE n <= continuation
      BY <1>1, <1>7, <3>1, <3>2 DEF NothingMissed
    <3>3. CASE n > continuation
      <4>1. n \in Remaining(continuation)
        BY <1>9, <3>3
      <4>2. n \in P
        BY <1>1, <2>1, <2>4, <3>1, <4>1 DEF IsPage, Names
      <4> QED
        BY <1>7, <1>9, <3>1, <3>3, <4>2
    <3> QED
      BY <1>5, <3>1, <3>2, <3>3 DEF Names
  <2>5. NothingMissed'
    BY <1>1, <2>1, <2>4 DEF NothingMissed
  <2> QED
    BY <1>8, <2>1, <2>3, <2>5 DEF SameList, ListComplete
<1>11. CASE ~Truncated(P, continuation)
  <2>1. pc' = "idle" /\ list' = container'
    BY <1>2, <1>3, <1>11 DEF Return, NULL
  <2>2. ASSUME NEW n \in always \cap ReportedBy[cmd]
        PROVE  container'[n] >= 1
    <3>1. n \in Names
      BY DEF Types, TypeOK
    <3>2. CASE n <= continuation
      BY <1>1, <1>7, <3>1, <3>2 DEF NothingMissed
    <3>3. CASE n > continuation
      BY <1>7, <1>9, <1>11, <3>1, <3>3 DEF Truncated
    <3> QED
      BY <1>5, <3>1, <3>2, <3>3 DEF Names
  <2>3. ListComplete'
    BY <1>1, <2>1, <2>2 DEF ListComplete
  <2> QED
    BY <1>8, <2>1, <2>3 DEF NothingAhead, NothingMissed, SameList
<1> QED
  BY <1>10, <1>11

LEMMA ListStep == ListInv /\ [Next]_vars => ListInv'
<1> SUFFICES ASSUME ListInv, [Next]_vars
             PROVE  /\ NoDuplicates' /\ NothingAhead' /\ NothingMissed'
                    /\ SameList' /\ ListCompleteIfExact'
  BY TruthStep DEF ListInv
<1> USE DEF ListInv, NoDuplicates, NothingAhead, NothingMissed, SameList,
            ListComplete, ListCompleteIfExact
<1>1. ASSUME NEW c \in Commands, NEW v \in Versions, ListCall(c, v)
      PROVE  /\ NoDuplicates' /\ NothingAhead' /\ NothingMissed'
             /\ SameList' /\ ListCompleteIfExact'
  <2>1. /\ pc' = "request" /\ continuation' = 0 /\ container' = NoEntries
        /\ always' = bucket /\ cmd' = c
    BY <1>1 DEF ListCall, ListFree, NULL
  <2>2. \A n \in Names : container'[n] = 0 /\ ~(n <= 0)
    BY <2>1 DEF NoEntries, Names
  <2>3. bucket \subseteq Names
    BY DEF TruthInv, Types, TypeOK
  <2> QED
    BY <2>1, <2>2, <2>3
<1>2. ASSUME NEW P \in SUBSET Names, PageArrives(P)
      PROVE  /\ NoDuplicates' /\ NothingAhead' /\ NothingMissed'
             /\ SameList' /\ ListCompleteIfExact'
  <2>1. CASE exact'
    BY <1>2, <2>1, PageAdds
  <2>2. CASE ~exact'
    <3>1. pc' = "idle" => list' = container'
      BY <1>2 DEF PageArrives, Return
    <3> QED
      BY <2>2, <3>1
  <2>3. exact' \in BOOLEAN
    BY <1>2 DEF PageArrives
  <2> QED
    BY <2>1, <2>2, <2>3
<1>7. ASSUME PageUnparsable
      PROVE  /\ NoDuplicates' /\ NothingAhead' /\ NothingMissed'
             /\ SameList' /\ ListCompleteIfExact'
  BY <1>7 DEF PageUnparsable, Return
<1>3. ASSUME NEW r \in Failures, PageFails(r)
      PROVE  /\ NoDuplicates' /\ NothingAhead' /\ NothingMissed'
             /\ SameList' /\ ListCompleteIfExact'
  <2>1. r # "MS3_ERR_NONE"
    BY DEF Failures, ErrorStatus
  <2> QED
    BY <1>3, <2>1 DEF PageFails, Return, server
<1>4. ASSUME NEW n \in Names, PutObject(n)
      PROVE  /\ NoDuplicates' /\ NothingAhead' /\ NothingMissed'
             /\ SameList' /\ ListCompleteIfExact'
  BY <1>4 DEF PutObject
<1>5. ASSUME NEW n \in Names, DeleteObject(n)
      PROVE  /\ NoDuplicates' /\ NothingAhead' /\ NothingMissed'
             /\ SameList' /\ ListCompleteIfExact'
  BY <1>5 DEF DeleteObject
<1>6. CASE UNCHANGED vars
  BY <1>6 DEF vars
<1> QED
  BY <1>1, <1>2, <1>7, <1>3, <1>4, <1>5, <1>6
     DEF Next, Answer, OtherClients

\* Unless an answer has spoiled the call, a list call that returns success has
\* every entry that was in the bucket for the whole call, over any number of
\* pages of any size, with tokens and with markers.
THEOREM Complete == Spec => []ListCompleteIfExact
<1>1. ListInv => ListCompleteIfExact
  BY DEF ListInv
<1> QED
  BY <1>1, ListInit, ListStep, PTL DEF Spec

\* Tokens, and markers over a bucket of objects, spoil no call: every list
\* call then is complete, provided that its answers can be read.
THEOREM CompleteUnlessDirectories ==
  ASSUME ~Unparsable, 1 \in Versions => \A n \in Names : Kind[n] = "file"
  PROVE  Spec => []ListComplete
<1> DEFINE Unspoiled == Types /\ exact
<1>1. Init => Unspoiled
  BY TypeInit DEF Init
<1>2. Unspoiled /\ [Next]_vars => Unspoiled'
  <2> SUFFICES ASSUME Unspoiled, [Next]_vars PROVE exact'
    BY TypeStep
  <2>1. ASSUME NEW P \in SUBSET Names, PageArrives(P) PROVE exact'
    <3>1. ASSUME list_version = 1, Truncated(P, continuation)
          PROVE  \E k \in Keys(P) : IsLast(k, P)
      <4>1. IsPage(P, continuation)
        BY <2>1 DEF PageArrives
      <4>2. P # {} /\ Keys(P) = P
        BY <3>1, <4>1, TruncatedNotEmpty DEF Types, Keys
      <4> QED
        BY <4>2, LastOf
    <3> QED
      BY <2>1, <3>1 DEF PageArrives, ContinuesAtItsEnd
  <2> QED
    BY <2>1 DEF Next, Answer, OtherClients, ListCall, PageUnparsable, PageFails,
                PutObject, DeleteObject, vars
<1>3. ListInv /\ Unspoiled => ListComplete
  BY DEF ListInv, ListCompleteIfExact
<1> QED
  BY <1>1, <1>2, <1>3, ListInit, ListStep, PTL DEF Spec

\* Unless an answer has spoiled the call, no list ever holds an entry twice.
THEOREM NoneTwice == Spec => []NoDuplicates
<1>1. ListInv => NoDuplicates
  BY DEF ListInv
<1> QED
  BY <1>1, ListInit, ListStep, PTL DEF Spec

-----------------------------------------------------------------------------
(***************************************************************************)
(* The listing implements its promise                                      *)
(***************************************************************************)

LEMMA PromiseInit == Init => Promise!Init
  BY DEF Init, Promise!Init, NoEntries, Promise!NoEntries

LEMMA PromiseReturn ==
  ASSUME ListInv, ListInv', pc = "request", pc' = "idle", cmd' = cmd,
         exact' \in {exact, FALSE}, UNCHANGED <<bucket, always, ever>>
  PROVE  Promise!Return
<1>1. list' = container' /\ container' \in [Names -> 0..2]
  BY DEF ListInv, TruthInv, Types, TypeOK, SameList
<1>2. cmd # "none"
  BY DEF ListInv, TruthInv, Types, TypeOK, Commands
<1>3. exact' => \A n \in Names : list'[n] <= 1
  BY <1>1 DEF ListInv, NoDuplicates
<1>4. list' \in [Names -> 0..2]
  BY <1>1
<1>5. \A n \in Names : list'[n] > 0 => n \in ever /\ n \in ReportedBy[cmd]
  BY <1>1 DEF ListInv, TruthInv, ListTruthful
<1>6. exact' /\ res' = "MS3_ERR_NONE" =>
        \A n \in always \cap ReportedBy[cmd] : list'[n] >= 1
  BY DEF ListInv, ListCompleteIfExact, ListComplete
<1> QED
  BY <1>2, <1>3, <1>4, <1>5, <1>6
     DEF Promise!Return, Promise!Truthful, Promise!NoneTwice, Promise!Covers

LEMMA PromiseStep ==
  ASSUME ListInv, ListInv', [Next]_vars
  PROVE  [Promise!Next]_(Promise!vars)
<1>1. ASSUME NEW c \in Commands, NEW v \in Versions, ListCall(c, v)
      PROVE  Promise!Call(c)
  BY <1>1 DEF ListCall, Promise!Call, NoEntries, Promise!NoEntries
<1>2. ASSUME NEW P \in SUBSET Names, PageArrives(P)
      PROVE  Promise!Return \/ Promise!Spoil \/ UNCHANGED Promise!vars
  <2>1. exact' \in {exact, FALSE}
    BY <1>2 DEF PageArrives, ListInv, TruthInv, Types, TypeOK
  <2>2. CASE pc' = "idle"
    BY <1>2, <2>1, <2>2, PromiseReturn DEF PageArrives, Return, server
  <2>3. CASE pc' # "idle"
    <3>1. /\ pc = "request" /\ pc' = "request"
          /\ UNCHANGED <<server, cmd, list, res>>
      BY <1>2, <2>3 DEF PageArrives, Return
    <3>2. cmd # "none"
      BY DEF ListInv, TruthInv, Types, TypeOK, Commands
    <3> QED
      BY <2>1, <3>1, <3>2 DEF server, Promise!Spoil, Promise!vars
  <2> QED
    BY <2>2, <2>3
<1>3. ASSUME PageUnparsable PROVE Promise!Return
  BY <1>3, PromiseReturn DEF PageUnparsable, Return, server
<1>4. ASSUME NEW r \in Failures, PageFails(r) PROVE Promise!Return
  BY <1>4, PromiseReturn DEF PageFails, Return, server
<1>5. ASSUME NEW n \in Names, PutObject(n) PROVE Promise!Put(n)
  BY <1>5 DEF PutObject, Promise!Put
<1>6. ASSUME NEW n \in Names, DeleteObject(n) PROVE Promise!Delete(n)
  BY <1>6 DEF DeleteObject, Promise!Delete
<1>7. CASE UNCHANGED vars
  BY <1>7 DEF vars, Promise!vars
<1> QED
  BY <1>1, <1>2, <1>3, <1>4, <1>5, <1>6, <1>7
     DEF Next, Answer, OtherClients, Promise!Next

\* The paged, concurrent listing implements the one-step promise of module
\* ListingSpec: every step of the pages is a step of the promise or none, and
\* only unreadable answers and version 1 pages that do not end in a key take
\* the step that spoils the promise.
THEOREM Implements == Spec => KeepsPromise
<1>1. ListInv /\ ListInv' /\ [Next]_vars => [Promise!Next]_(Promise!vars)
  BY PromiseStep
<1> QED
  BY <1>1, ListInit, ListStep, PromiseInit, PTL
     DEF Spec, KeepsPromise, Promise!Spec
=============================================================================
