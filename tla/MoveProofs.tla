----------------------------- MODULE MoveProofs -----------------------------
(***************************************************************************)
(* What Move.tla promises holds for any number of clients, objects and     *)
(* calls.                                                                  *)
(***************************************************************************)
EXTENDS Move, TLAPS

\* What the history of a client's call says of the store and of the step
\* that the call has reached.
Copied(c) == copied[c] # NONE => src[c] # dst[c]

InPlace(c) ==
  copied[c] # NONE /\ ~raced[c] /\ Canonical(c) =>
    /\ store[dst[c]] = copied[c]
    /\ store[src[c]] = IF deleted[c] THEN NONE ELSE copied[c]

Steps(c) == /\ pc[c] = "COPY" => ~deleted[c]
            /\ pc[c] = "COPY" /\ answer[c] = 200 /\ ~late[c] => copied[c] # NONE
            /\ pc[c] = "DELETE" /\ ~late[c] => copied[c] # NONE
            /\ pc[c] = "DELETE" /\ answer[c] = 200 /\ ~late[c] => deleted[c]
            /\ deleted[c] /\ ~late[c] => copied[c] # NONE
            /\ /\ pc[c] = "idle" /\ moving[c] /\ ~late[c]
               /\ res[c] = "MS3_ERR_NONE"
               => copied[c] # NONE /\ deleted[c]

Inv == TypeOK /\ \A c \in Clients : Copied(c) /\ InPlace(c) /\ Steps(c)
-----------------------------------------------------------------------------
\* Every result is one of those that the documentation lists.
LEMMA ResultType ==
  ASSUME NEW status \in {200, 403, 404, 500}
  PROVE  /\ Result(status) \in Errors \cup {"MS3_ERR_NONE"}
         /\ Result(status) = "MS3_ERR_NONE" <=> status = 200
  BY DEF Result, Errors

\* A step of the store by Write keeps the types of what it changes.
LEMMA WriteTypes ==
  ASSUME TypeOK, NEW k \in Keys, NEW v \in Contents \cup {NONE}, NEW self,
         Write(k, v, self)
  PROVE  /\ store' \in [Keys -> Contents \cup {NONE}]
         /\ raced' \in [Clients -> BOOLEAN]
  BY DEF TypeOK, Write

LEMMA InitInv == Init => Inv
  BY MoveAssumption DEF Init, Inv, TypeOK, Copied, InPlace, Steps

LEMMA NextTypes == TypeOK /\ [Next]_vars => TypeOK'
  <1> SUFFICES ASSUME TypeOK, [Next]_vars PROVE TypeOK'
    OBVIOUS
  <1>1. CASE UNCHANGED vars
    BY <1>1 DEF TypeOK, vars, call
  <1>2. ASSUME NEW c \in Clients, Client(c) PROVE TypeOK'
    <2>1. ASSUME NEW m \in BOOLEAN, NEW s \in Keys, NEW d \in Keys,
                 Call(c, m, s, d)
          PROVE  TypeOK'
      BY <2>1, MoveAssumption DEF TypeOK, Call
    <2>2. CASE Answered(c)
      <3>1. CASE GoesOn(c)
        BY <2>2, <3>1 DEF TypeOK, Answered, call
      <3>2. CASE ~GoesOn(c)
        <4>1. Result(answer[c]) \in Errors \cup {"MS3_ERR_NONE"}
          BY <2>2, ResultType DEF Answered, TypeOK
        <4> QED
          BY <2>2, <3>2, <4>1 DEF TypeOK, Answered, Return, call
      <3> QED
        BY <3>1, <3>2
    <2>3. CASE GivesUp(c)
      BY <2>3 DEF TypeOK, GivesUp, Return, call, Errors, Request
    <2>4. CASE NotSent(c)
      BY <2>4 DEF TypeOK, NotSent, Return, call, Errors
    <2> QED
      BY <1>2, <2>1, <2>2, <2>3, <2>4 DEF Client
  <1>3. ASSUME NEW c \in Clients, Server(c) PROVE TypeOK'
    <2>1. CASE ExecutesCopy(c)
      <3>1. store[src[c]] \in Contents /\ dst[c] \in Keys
        BY <2>1 DEF ExecutesCopy, TypeOK
      <3> QED
        BY <2>1, <3>1, WriteTypes DEF TypeOK, ExecutesCopy, call
    <2>2. CASE ExecutesDelete(c)
      <3>1. Deleted(c) \in Keys
        BY MoveAssumption DEF Deleted, TypeOK
      <3> QED
        BY <2>2, <3>1, WriteTypes DEF TypeOK, ExecutesDelete, call
    <2>3. CASE Refuses(c)
      BY <2>3 DEF TypeOK, Refuses, Answers, call
    <2>4. CASE FailsLate(c)
      BY <2>4 DEF TypeOK, FailsLate, Answers, call
    <2> QED
      BY <1>3, <2>1, <2>2, <2>3, <2>4 DEF Server
  <1>4. ASSUME NEW q \in delayed, ExecutesDelayed(q) PROVE TypeOK'
    <2>1. q.src \in Keys /\ q.dst \in Keys /\ Path[q.src] \in Keys
      BY MoveAssumption DEF TypeOK
    <2>2. store[q.src] \in Contents \cup {NONE}
      BY <2>1 DEF TypeOK
    <2>3. /\ store' \in [Keys -> Contents \cup {NONE}]
          /\ raced' \in [Clients -> BOOLEAN]
      BY <1>4, <2>1, <2>2, WriteTypes DEF ExecutesDelayed
    <2> QED
      BY <1>4, <2>3 DEF TypeOK, ExecutesDelayed, call
  <1>5. ASSUME NEW k \in Keys, NEW v \in Contents, OtherPut(k, v) PROVE TypeOK'
    BY <1>5, WriteTypes, MoveAssumption DEF TypeOK, OtherPut, call
  <1> QED
    BY <1>1, <1>2, <1>3, <1>4, <1>5 DEF Next
-----------------------------------------------------------------------------
\* A write by anybody else is noticed by every call that it could concern.
LEMMA OthersWrite ==
  ASSUME TypeOK, NEW c \in Clients, Copied(c), InPlace(c),
         NEW k \in Keys, NEW v \in Contents \cup {NONE}, NEW self, self # c,
         Write(k, v, self),
         copied'[c] = copied[c], deleted'[c] = deleted[c],
         src'[c] = src[c], dst'[c] = dst[c]
  PROVE  Copied(c)' /\ InPlace(c)'
  <1>1. Copied(c)'
    BY DEF Copied
  <1>2. SUFFICES ASSUME copied[c] # NONE, ~raced'[c]
                 PROVE  InPlace(c)'
    BY <1>1 DEF InPlace
  <1>3. ~raced[c] /\ k # src[c] /\ k # dst[c]
    BY <1>2 DEF Write, TypeOK
  <1>4. store'[src[c]] = store[src[c]] /\ store'[dst[c]] = store[dst[c]]
    BY <1>3 DEF Write, TypeOK
  <1> QED
    BY <1>2, <1>3, <1>4 DEF InPlace, Canonical

\* A step that leaves everything of a call and the store alone.
LEMMA NotConcerned ==
  ASSUME NEW c \in Clients, Steps(c),
         pc'[c] = pc[c], moving'[c] = moving[c], answer'[c] = answer[c],
         copied'[c] = copied[c], deleted'[c] = deleted[c],
         late'[c] = late[c], res'[c] = res[c]
  PROVE  Steps(c)'
  BY DEF Steps

LEMMA SameStore ==
  ASSUME NEW c \in Clients, Copied(c), InPlace(c),
         store' = store, raced'[c] = raced[c],
         copied'[c] = copied[c], deleted'[c] = deleted[c],
         src'[c] = src[c], dst'[c] = dst[c]
  PROVE  Copied(c)' /\ InPlace(c)'
  BY DEF Copied, InPlace, Canonical

LEMMA ClientInv ==
  ASSUME Inv, NEW c \in Clients, Client(c), NEW x \in Clients
  PROVE  (Copied(x) /\ InPlace(x) /\ Steps(x))'
  <1> USE DEF Inv
  <1>1. ASSUME NEW m \in BOOLEAN, NEW s \in Keys, NEW d \in Keys,
               Call(c, m, s, d)
        PROVE  (Copied(x) /\ InPlace(x) /\ Steps(x))'
    <2>1. CASE x = c
      BY <1>1, <2>1 DEF TypeOK, Call, Copied, InPlace, Steps
    <2>2. CASE x # c
      <3>1. /\ store' = store /\ raced'[x] = raced[x]
            /\ copied'[x] = copied[x] /\ deleted'[x] = deleted[x]
            /\ src'[x] = src[x] /\ dst'[x] = dst[x]
            /\ pc'[x] = pc[x] /\ moving'[x] = moving[x]
            /\ answer'[x] = answer[x] /\ late'[x] = late[x]
            /\ res'[x] = res[x]
        BY <1>1, <2>2 DEF TypeOK, Call
      <3> QED
        BY <3>1, NotConcerned, SameStore
    <2> QED
      BY <2>1, <2>2
  <1>2. CASE Answered(c)
    <2>1. Copied(x)' /\ InPlace(x)'
      BY <1>2, SameStore DEF Answered, Return, call
    <2>2. CASE x # c
      BY <1>2, <2>1, <2>2, NotConcerned DEF TypeOK, Answered, Return, call
    <2>3. CASE x = c /\ GoesOn(c)
      BY <1>2, <2>1, <2>3 DEF TypeOK, Answered, GoesOn, call, Steps
    <2>4. CASE x = c /\ ~GoesOn(c)
      <3>1. Result(answer[c]) = "MS3_ERR_NONE" <=> answer[c] = 200
        BY <1>2, ResultType DEF TypeOK, Answered
      <3> QED
        BY <1>2, <2>1, <2>4, <3>1
        DEF TypeOK, Answered, Return, GoesOn, call, Steps
    <2> QED
      BY <2>2, <2>3, <2>4
  <1>3. CASE GivesUp(c) \/ NotSent(c)
    <2>1. Copied(x)' /\ InPlace(x)'
      BY <1>3, SameStore DEF GivesUp, NotSent, Return, call
    <2>2. CASE x # c
      BY <1>3, <2>1, <2>2, NotConcerned
      DEF TypeOK, GivesUp, NotSent, Return, call
    <2>3. CASE x = c
      BY <1>3, <2>1, <2>3 DEF TypeOK, GivesUp, NotSent, Return, call, Steps
    <2> QED
      BY <2>2, <2>3
  <1> QED
    BY <1>1, <1>2, <1>3 DEF Client

LEMMA ServerInv ==
  ASSUME Inv, NEW c \in Clients, Server(c), NEW x \in Clients
  PROVE  (Copied(x) /\ InPlace(x) /\ Steps(x))'
  <1> USE DEF Inv
  <1>1. CASE ExecutesCopy(c)
    <2>1. store[src[c]] \in Contents /\ dst[c] \in Keys /\ src[c] \in Keys
      BY <1>1 DEF TypeOK, ExecutesCopy
    <2>2. CASE x = c
      BY <1>1, <2>1, <2>2, MoveAssumption
      DEF TypeOK, ExecutesCopy, Canonical, Write, call, Copied, InPlace, Steps
    <2>3. CASE x # c
      <3>1. Copied(x)' /\ InPlace(x)'
        BY <1>1, <2>1, <2>3, OthersWrite DEF TypeOK, ExecutesCopy, call
      <3> QED
        BY <1>1, <2>3, <3>1, NotConcerned DEF TypeOK, ExecutesCopy, call
    <2> QED
      BY <2>2, <2>3
  <1>2. CASE ExecutesDelete(c)
    <2>1. Deleted(c) \in Keys
      BY MoveAssumption DEF TypeOK, Deleted
    <2>2. CASE x = c
      BY <1>2, <2>1, <2>2
      DEF TypeOK, ExecutesDelete, Deleted, Canonical, Write, call, Copied,
          InPlace, Steps
    <2>3. CASE x # c
      <3>1. /\ copied'[x] = copied[x] /\ deleted'[x] = deleted[x]
            /\ src'[x] = src[x] /\ dst'[x] = dst[x]
            /\ pc'[x] = pc[x] /\ moving'[x] = moving[x]
            /\ answer'[x] = answer[x] /\ late'[x] = late[x]
            /\ res'[x] = res[x]
        BY <1>2, <2>3 DEF TypeOK, ExecutesDelete, call
      <3>2. Copied(x)' /\ InPlace(x)'
        BY <1>2, <2>1, <2>3, <3>1, OthersWrite DEF ExecutesDelete
      <3>3. Steps(x)'
        BY <3>1, NotConcerned
      <3> QED
        BY <3>2, <3>3
    <2> QED
      BY <2>2, <2>3
  <1>3. CASE Refuses(c) \/ FailsLate(c)
    <2>1. Copied(x)' /\ InPlace(x)'
      BY <1>3, SameStore DEF Refuses, FailsLate, Answers, call
    <2>2. CASE x # c
      BY <1>3, <2>1, <2>2, NotConcerned
      DEF TypeOK, Refuses, FailsLate, Answers, call
    <2>3. CASE x = c
      BY <1>3, <2>1, <2>3 DEF TypeOK, Refuses, FailsLate, Answers, call, Steps
    <2> QED
      BY <2>2, <2>3
  <1> QED
    BY <1>1, <1>2, <1>3 DEF Server

\* Writes by no client of the model leave every call's step where it is.
LEMMA NobodyInv ==
  ASSUME Inv, NEW x \in Clients,
         NEW k \in Keys, NEW v \in Contents \cup {NONE}, Write(k, v, NONE),
         UNCHANGED <<pc, call, answer, copied, late, deleted, res>>
  PROVE  (Copied(x) /\ InPlace(x) /\ Steps(x))'
  <1>1. x # NONE
    BY MoveAssumption
  <1>2. Copied(x)' /\ InPlace(x)'
    BY <1>1, OthersWrite DEF Inv, call
  <1>3. Steps(x)'
    BY NotConcerned DEF Inv, call
  <1> QED
    BY <1>2, <1>3

LEMMA NextInv == Inv /\ [Next]_vars => Inv'
  <1> SUFFICES ASSUME Inv, [Next]_vars PROVE Inv'
    OBVIOUS
  <1>1. TypeOK'
    BY NextTypes DEF Inv
  <1>2. ASSUME NEW x \in Clients PROVE (Copied(x) /\ InPlace(x) /\ Steps(x))'
    <2>1. CASE UNCHANGED vars
      BY <2>1 DEF Inv, vars, call, Copied, InPlace, Canonical, Steps
    <2>2. ASSUME NEW q \in delayed, ExecutesDelayed(q)
          PROVE  (Copied(x) /\ InPlace(x) /\ Steps(x))'
      <3>1. /\ q.src \in Keys /\ q.dst \in Keys /\ Path[q.src] \in Keys
            /\ store[q.src] \in Contents \cup {NONE}
        BY MoveAssumption DEF Inv, TypeOK
      <3>2. CASE Write(q.dst, store[q.src], NONE)
        BY <2>2, <3>1, <3>2, NobodyInv DEF ExecutesDelayed
      <3>3. CASE Write(Path[q.src], NONE, NONE)
        BY <2>2, <3>1, <3>3, NobodyInv DEF ExecutesDelayed
      <3> QED
        BY <2>2, <3>2, <3>3 DEF ExecutesDelayed
    <2>3. ASSUME NEW k \in Keys, NEW v \in Contents, OtherPut(k, v)
          PROVE  (Copied(x) /\ InPlace(x) /\ Steps(x))'
      BY <2>3, NobodyInv DEF OtherPut
    <2> QED
      BY <2>1, <2>2, <2>3, ClientInv, ServerInv DEF Next
  <1> QED
    BY <1>1, <1>2 DEF Inv

LEMMA Invariant == Spec => []Inv
  BY InitInv, NextInv, PTL DEF Spec
-----------------------------------------------------------------------------
\* The variables of a move and of the shared store keep their types.
THEOREM TypeCorrect == Spec => []TypeOK
  <1>1. Inv => TypeOK
    BY DEF Inv
  <1> QED
    BY <1>1, Invariant, PTL

\* What the COPY of a move or copy put at its destination stays there unless
\* another request writes to one of the two objects: ms3_move()'s own DELETE
\* never takes it away.
THEOREM NeverLosesItsCopy == Spec => []CopyStays
  <1>1. Inv => CopyStays
    BY DEF Inv, InPlace, CopyStays
  <1> QED
    BY <1>1, Invariant, PTL

\* If ms3_move() returns success the object is at its destination and no
\* longer at its source, in the absence of other writers and of failures that
\* have the status of a success.
THEOREM SuccessIsAMove == Spec => []SuccessMeansMoved
  <1>1. Inv => SuccessMeansMoved
    BY DEF Inv, InPlace, Steps, SuccessMeansMoved
  <1> QED
    BY <1>1, Invariant, PTL

\* ms3_move() deletes the source only when a copy of it exists.
THEOREM DeletesWithCopy == Spec => DeleteLeavesCopy
  <1> DEFINE Leaves(c) ==
        /\ deleted'[c] /\ ~deleted[c]
        /\ ~raced[c] /\ ~late[c] /\ Canonical(c)
        => \E k \in Keys \ {src[c]} : store'[k] = store[src[c]]
  <1>1. Inv /\ [Next]_vars => [\A c \in Clients : Leaves(c)]_vars
    <2> SUFFICES ASSUME Inv, Next, NEW c \in Clients,
                        deleted'[c], ~deleted[c], ~raced[c], ~late[c],
                        Canonical(c)
                 PROVE  \E k \in Keys \ {src[c]} : store'[k] = store[src[c]]
      OBVIOUS
    <2>1. ExecutesDelete(c)
      <3>1. ASSUME NEW x \in Clients, Client(x) PROVE FALSE
        BY <3>1 DEF Inv, TypeOK, Client, Call, Answered, Return, GivesUp, NotSent
      <3>2. ASSUME NEW x \in Clients, Server(x) PROVE x = c /\ ExecutesDelete(x)
        BY <3>2
        DEF Inv, TypeOK, Server, ExecutesCopy, ExecutesDelete, Refuses,
            FailsLate, Answers
      <3>3. ASSUME NEW q \in delayed, ExecutesDelayed(q) PROVE FALSE
        BY <3>3 DEF ExecutesDelayed
      <3>4. ASSUME NEW k \in Keys, NEW v \in Contents, OtherPut(k, v)
            PROVE  FALSE
        BY <3>4 DEF OtherPut
      <3> QED
        BY <3>1, <3>2, <3>3, <3>4 DEF Next
    <2>2. /\ copied[c] # NONE /\ src[c] # dst[c] /\ dst[c] \in Keys
          /\ store[dst[c]] = store[src[c]]
      BY <2>1 DEF Inv, TypeOK, Copied, InPlace, Steps, ExecutesDelete
    <2>3. store'[dst[c]] = store[dst[c]]
      BY <2>1, <2>2 DEF Inv, TypeOK, ExecutesDelete, Deleted, Canonical, Write
    <2> QED
      BY <2>2, <2>3
  <1> QED
    BY <1>1, Invariant, PTL DEF Spec, DeleteLeavesCopy

\* The exact condition of the finding that a DELETE may follow a COPY that
\* failed: as long as no failure has a status that passes for success, ms3_move()
\* deletes only what it copied, whatever is lost, delayed or written by others.
THEOREM DeletesOnlyCopied ==
  Spec /\ [](\A c \in Clients : ~late[c]) => []DeleteOnlyCopied
  <1>1. Inv /\ (\A c \in Clients : ~late[c]) => DeleteOnlyCopied
    BY DEF Inv, Steps, DeleteOnlyCopied
  <1> QED
    BY <1>1, Invariant, PTL

\* The exact condition of the finding that another object may be deleted: if no
\* key has an empty part, so that generate_path() keeps every key as it is, what
\* ms3_move() deletes is its source.
THEOREM DeletesOwnSource ==
  ASSUME \A k \in Keys : Path[k] = k
  PROVE  Spec => []DeletesItsSource
  <1>1. Inv => DeletesItsSource
    BY DEF Inv, TypeOK, InPlace, Canonical, DeletesItsSource
  <1> QED
    BY <1>1, Invariant, PTL
=============================================================================
