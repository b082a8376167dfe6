---------------------------- MODULE SigningProofs ----------------------------
(***************************************************************************)
(* The role of a handle, for any roles, names in ARNs and sets of          *)
(* credentials, with any requests in between: the credentials that are     *)
(* held belong to the role that was asked for last, and the three buffers  *)
(* implement RoleSession, whatever the answers have of them.  And the      *)
(* requests themselves, for texts of any length: URI, query, headers and   *)
(* what is hashed and signed of them.                                      *)
(***************************************************************************)
EXTENDS Signing, SequenceTheorems, TLAPS

\* While the buffers are those of ms3_init_assume_role(), the ARN is the
\* role's own or none, and every field was issued for the role.
OwnRole ==
  source = "init" =>
    /\ iam_role \in Roles
    /\ iam_role_arn \in {"empty", iam_role}
    /\ \A f \in Fields : credentials[f] \in Sets => issued[credentials[f]] = iam_role

\* What makes it inductive: a set that is held has been issued, so that a new
\* set is not one of those; a handle that was prepared in neither way has no
\* role to ask for.
HeldIsIssued ==
  \A f \in Fields : credentials[f] \in Sets => issued[credentials[f]] # "NULL"

RoleKnown == /\ source = "none" => iam_role = "NULL" /\ pc = "idle"
             /\ pc \in {"lookup", "assume"} =>
                  iam_role \in Roles /\ iam_role_arn # "NULL"

RoleInv == RoleTypeOK /\ OwnRole /\ HeldIsIssued /\ RoleKnown
-----------------------------------------------------------------------------
\* The requests in between change nothing of the role.
LEMMA RoleStepsOnly == Spec => RoleSpec
<1>1. Init => RoleInit
  BY DEF Init
<1>2. [Next]_vars => [RoleNext]_roleVars
  BY DEF Next, RoleStep, Build, Ends, vars, roleVars, roleState
<1>. QED BY <1>1, <1>2, PTL DEF Spec, RoleSpec

LEMMA RoleInitInv == RoleInit => RoleInv
BY RoleAssumption
   DEF RoleInit, RoleInv, RoleTypeOK, OwnRole, HeldIsIssued, RoleKnown, All,
       Fields, Codes

\* A step that changes neither the role nor its buffers.
LEMMA OtherRoleSteps ==
  ASSUME RoleInv, pc' \in {"idle", "lookup", "assume", "undefined"}, res' \in Codes,
         UNCHANGED roleState,
         source = "none" => pc' = "idle",
         pc' \in {"lookup", "assume"} => iam_role \in Roles /\ iam_role_arn # "NULL"
  PROVE  RoleInv'
BY DEF RoleInv, RoleTypeOK, OwnRole, HeldIsIssued, RoleKnown, roleState

LEMMA Ec2SetCredKeepsInv ==
  ASSUME RoleInv, NEW r \in Roles, NEW s \in Sets, Ec2SetCred(r, s)
  PROVE  RoleInv'
<1>. USE RoleAssumption DEF Ec2SetCred, Issue, Return, All
<1>1. RoleTypeOK'
  BY DEF RoleInv, RoleTypeOK, Codes
<1>2. OwnRole' /\ RoleKnown'
  BY DEF OwnRole, RoleKnown
<1>3. HeldIsIssued'
  BY DEF RoleInv, RoleTypeOK, HeldIsIssued
<1>. QED BY <1>1, <1>2, <1>3 DEF RoleInv

LEMMA InitAssumeRoleKeepsInv ==
  ASSUME RoleInv, NEW r \in Roles, InitAssumeRole(r)
  PROVE  RoleInv'
<1>. USE RoleAssumption DEF InitAssumeRole, All
<1>1. RoleTypeOK'
  BY DEF RoleInv, RoleTypeOK
<1>2. OwnRole' /\ RoleKnown' /\ HeldIsIssued'
  BY DEF OwnRole, RoleKnown, HeldIsIssued
<1>. QED BY <1>1, <1>2 DEF RoleInv

LEMMA AssumeRoleKeepsInv ==
  ASSUME RoleInv, AssumeRole
  PROVE  RoleInv'
<1>1. pc' \in {"lookup", "assume", "undefined"} /\ UNCHANGED roleState
  BY DEF AssumeRole
<1>2. source # "none" /\ iam_role \in Roles
  BY DEF AssumeRole, RoleInv, RoleTypeOK, RoleKnown
<1>3. pc' \in {"lookup", "assume"} => iam_role_arn # "NULL"
  BY DEF AssumeRole
<1>4. res' \in Codes
  BY DEF AssumeRole, RoleInv, RoleTypeOK
<1>. QED BY <1>1, <1>2, <1>3, <1>4, OtherRoleSteps

LEMMA LookupEndsKeepsInv ==
  ASSUME RoleInv, LookupEnds
  PROVE  RoleInv'
<1>1. iam_role \in Roles /\ iam_role_arn' # "NULL" /\ source # "none"
  BY RoleAssumption DEF LookupEnds, RoleInv, RoleKnown
<1>2. RoleTypeOK'
  BY <1>1 DEF LookupEnds, RoleInv, RoleTypeOK
<1>3. OwnRole' /\ RoleKnown' /\ HeldIsIssued'
  BY <1>1 DEF LookupEnds, RoleInv, OwnRole, RoleKnown, HeldIsIssued
<1>. QED BY <1>2, <1>3 DEF RoleInv

\* What is copied is the new set, nothing, or what was there.
LEMMA CopiedFields ==
  ASSUME NEW s \in Sets, NEW what \in Answer, NEW f \in Fields
  PROVE  Copied(s, what)[f] \in {s, "empty", credentials[f]}
BY DEF Copied

LEMMA AssumedKeepsInv ==
  ASSUME RoleInv, NEW s \in Sets, NEW what \in Answer, Assumed(s, what)
  PROVE  RoleInv'
<1>1. \A f \in Fields : credentials'[f] \in {s, "empty", credentials[f]}
  BY CopiedFields DEF Assumed
<1>2. /\ issued \in [Sets -> Roles \cup {"NULL"}]
      /\ issued[s] = "NULL" /\ iam_role_arn \in Roles
      /\ issued' = [issued EXCEPT ![s] = iam_role_arn]
  BY DEF Assumed, Issue, RoleInv, RoleTypeOK
<1>3. \A t \in Sets : t # s => issued'[t] = issued[t]
  BY <1>2
<1>4. issued'[s] = iam_role_arn
  BY <1>2
<1>5. "empty" \notin Sets /\ "empty" \notin Roles /\ "NULL" \notin Roles
  BY RoleAssumption
<1>6. RoleTypeOK'
  <2>1. credentials' \in [Fields -> Sets \cup {"NULL", "empty"}]
    <3>1. credentials' = Copied(s, what)
      BY DEF Assumed
    <3>2. credentials \in [Fields -> Sets \cup {"NULL", "empty"}]
      BY DEF RoleInv, RoleTypeOK
    <3>. QED BY <3>1, <3>2 DEF Copied
  <2>2. res' \in Codes /\ pc' = "idle"
    BY DEF Assumed, Return, CopyResult, Codes
  <2>. QED BY <1>2, <2>1, <2>2 DEF Assumed, RoleInv, RoleTypeOK
<1>7. HeldIsIssued'
  <2>. SUFFICES ASSUME NEW f \in Fields, credentials'[f] \in Sets
                PROVE  issued'[credentials'[f]] # "NULL"
    BY DEF HeldIsIssued
  <2>1. CASE credentials'[f] = s
    BY <2>1, <1>4, <1>2, <1>5
  <2>2. CASE credentials'[f] # s
    <3>1. credentials'[f] = credentials[f]
      BY <2>2, <1>1, <1>5
    <3>2. issued[credentials[f]] # "NULL"
      BY <3>1 DEF RoleInv, HeldIsIssued
    <3>. QED BY <3>1, <3>2, <2>2, <1>3
  <2>. QED BY <2>1, <2>2
<1>8. OwnRole'
  <2>. SUFFICES ASSUME source = "init"
                PROVE  /\ iam_role \in Roles
                       /\ iam_role_arn \in {"empty", iam_role}
                       /\ \A f \in Fields : credentials'[f] \in Sets =>
                            issued'[credentials'[f]] = iam_role
    BY DEF OwnRole, Assumed
  <2>1. iam_role \in Roles /\ iam_role_arn = iam_role
    BY <1>2, <1>5 DEF RoleInv, OwnRole
  <2>2. ASSUME NEW f \in Fields, credentials'[f] \in Sets
        PROVE  issued'[credentials'[f]] = iam_role
    <3>1. CASE credentials'[f] = s
      BY <3>1, <1>4, <2>1
    <3>2. CASE credentials'[f] # s
      <4>1. credentials'[f] = credentials[f]
        BY <3>2, <1>1, <1>5, <2>2
      <4>2. issued[credentials[f]] = iam_role
        BY <4>1, <2>2 DEF RoleInv, OwnRole
      <4>. QED BY <4>1, <4>2, <3>2, <2>2, <1>3
    <3>. QED BY <3>1, <3>2
  <2>. QED BY <2>1, <2>2
<1>9. RoleKnown'
  BY DEF Assumed, Return, RoleInv, RoleKnown
<1>. QED BY <1>6, <1>7, <1>8, <1>9 DEF RoleInv

LEMMA RoleNextInv == RoleInv /\ [RoleNext]_roleVars => RoleInv'
<1>. SUFFICES ASSUME RoleInv, [RoleNext]_roleVars PROVE RoleInv'
  OBVIOUS
<1>1. ASSUME NEW r \in Roles, InitAssumeRole(r) PROVE RoleInv'
  BY <1>1, InitAssumeRoleKeepsInv
<1>2. ASSUME NEW r \in Roles, NEW s \in Sets, Ec2SetCred(r, s) PROVE RoleInv'
  BY <1>2, Ec2SetCredKeepsInv
<1>3. CASE AssumeRole
  BY <1>3, AssumeRoleKeepsInv
<1>4. CASE LookupEnds
  BY <1>4, LookupEndsKeepsInv
<1>5. ASSUME NEW s \in Sets, NEW what \in Answer, Assumed(s, what)
      PROVE  RoleInv'
  BY <1>5, AssumedKeepsInv
<1>6. CASE \/ Refuse \/ AssumeChangesNothing
           \/ \E r \in Codes : LookupFails(r) \/ AssumeFails(r)
  <2>1. /\ pc' = "idle" /\ res' \in Codes
        /\ UNCHANGED roleState
    BY <1>6 DEF Refuse, AssumeChangesNothing, LookupFails, AssumeFails, Return, Codes
  <2>. QED BY <2>1, OtherRoleSteps
<1>7. CASE AnswerUndefined
  <2>1. pc' = "undefined" /\ res' \in Codes /\ source # "none" /\ UNCHANGED roleState
    BY <1>7 DEF AnswerUndefined, RoleInv, RoleTypeOK, RoleKnown
  <2>. QED BY <2>1, OtherRoleSteps
<1>8. CASE UNCHANGED roleVars
  BY <1>8 DEF roleVars, roleState, RoleInv, RoleTypeOK, OwnRole, HeldIsIssued, RoleKnown
<1>. QED BY <1>1, <1>2, <1>3, <1>4, <1>5, <1>6, <1>7, <1>8
         DEF RoleNext, RoleCalls, Answers

LEMMA RoleInvariance == Spec => []RoleInv
BY RoleStepsOnly, RoleInitInv, RoleNextInv, PTL DEF RoleSpec
-----------------------------------------------------------------------------
\* The role and its credentials stay within their types.
THEOREM RoleTypeCorrect == Spec => []RoleTypeOK
BY RoleInvariance, PTL DEF RoleInv

\* Every field that a handle prepared by ms3_init_assume_role() holds was issued
\* for the role it was given last, also after answers with less than a whole set.
THEOREM HeldForOwnRole == Spec => []HeldForItsRole
<1>1. RoleInv => HeldForItsRole
  BY DEF RoleInv, OwnRole, HeldForItsRole
<1>. QED BY <1>1, RoleInvariance, PTL
-----------------------------------------------------------------------------
\* Three buffers with the same content are that content.
LEMMA HeldOfAll ==
  ASSUME NEW v \in Sets \cup {"NULL", "empty"}, credentials = All(v)
  PROVE  Held = v
<1>1. credentials["AccessKeyId"] = v
  BY DEF All, Fields
<1>. QED BY <1>1 DEF Held

LEMMA HeldInHeld == RoleTypeOK => Held \in Session!Held
BY DEF RoleTypeOK, Held, Session!Held, Fields

\* The buffers implement RoleSession, whichever fields an answer has, lacks or has
\* too long: after a success over a whole answer they hold that set.
THEOREM ImplementsSession == Spec => KeepsSession
<1>1. RoleInit => Session!Init
  <2>. SUFFICES ASSUME RoleInit PROVE Session!Init
    OBVIOUS
  <2>1. Held = "NULL"
    BY HeldOfAll DEF RoleInit
  <2>. QED BY <2>1 DEF RoleInit, Session!Init
<1>2. RoleInv /\ RoleInv' /\ [RoleNext]_roleVars
        => [Session!Next]_<<Held, whole, res>>
  <2>. SUFFICES ASSUME RoleInv, RoleInv', [RoleNext]_roleVars
                PROVE  [Session!Next]_<<Held, whole, res>>
    OBVIOUS
  <2>1. ASSUME NEW r \in Roles, InitAssumeRole(r)
        PROVE  Session!Prepare
    <3>1. (Held = "empty")'
      BY <2>1, HeldOfAll DEF InitAssumeRole, All, Held, Fields
    <3>. QED BY <2>1, <3>1 DEF InitAssumeRole, Session!Prepare
  <2>2. ASSUME NEW r \in Roles, NEW s \in Sets, Ec2SetCred(r, s)
        PROVE  Session!Obtain(s)
    <3>1. (Held = s)'
      BY <2>2 DEF Ec2SetCred, All, Held, Fields
    <3>. QED BY <2>2, <3>1 DEF Ec2SetCred, Return, Session!Obtain
  <2>3. ASSUME NEW s \in Sets, NEW what \in Answer, Assumed(s, what)
        PROVE  Session!Obtain(s) \/ Session!Spoil
    <3>1. CASE \A f \in Fields : what[f] = "copied"
      <4>1. credentials' = All(s)
        BY <2>3, <3>1 DEF Assumed, Copied, All
      <4>2. (Held = s)'
        BY <4>1 DEF All, Held, Fields
      <4>3. whole' = TRUE
        BY <2>3, <3>1 DEF Assumed
      <4>4. res' = "MS3_ERR_NONE"
        BY <2>3, <3>1 DEF Assumed, Return, CopyResult, TooLong
      <4>. QED BY <4>2, <4>3, <4>4 DEF Session!Obtain
    <3>2. CASE ~ \A f \in Fields : what[f] = "copied"
      <4>1. Held' \in Session!Held
        BY HeldInHeld DEF RoleInv, RoleTypeOK, Held, Session!Held, Fields
      <4>2. whole' \in BOOLEAN
        BY DEF RoleInv, RoleTypeOK
      <4>3. res' = "MS3_ERR_AUTH_ROLE" \/ (res' = "MS3_ERR_NONE" /\ whole' = FALSE)
        <5>1. what \in [Fields -> Outcomes]
          BY DEF Answer
        <5>. QED BY <2>3, <3>2, <5>1 DEF Assumed, Return, CopyResult, TooLong, Outcomes
      <4>. QED BY <4>1, <4>2, <4>3 DEF Session!Spoil
    <3>. QED BY <3>1, <3>2
  <2>4. ASSUME UNCHANGED <<credentials, whole>>, res' \in Codes
        PROVE  Session!Keep(res')
    BY <2>4 DEF Held, Session!Keep
  <2>5. res' \in Codes
    BY DEF RoleInv, RoleTypeOK
  <2>6. CASE \/ AssumeRole \/ Refuse \/ LookupEnds \/ AssumeChangesNothing
             \/ AnswerUndefined
             \/ \E r \in Codes : LookupFails(r) \/ AssumeFails(r)
             \/ UNCHANGED roleVars
    <3>1. UNCHANGED <<credentials, whole>>
      BY <2>6 DEF AssumeRole, Refuse, LookupEnds, AssumeChangesNothing,
                  AnswerUndefined, LookupFails, AssumeFails, roleVars, roleState
    <3>. QED BY <3>1, <2>4, <2>5 DEF Session!Next
  <2>. QED BY <2>1, <2>2, <2>3, <2>6
           DEF RoleNext, RoleCalls, Answers, Session!Next
<1>3. Spec => [][RoleNext]_roleVars
  BY RoleStepsOnly, PTL DEF RoleSpec
<1>. QED BY <1>1, <1>2, <1>3, RoleStepsOnly, RoleInvariance, PTL
         DEF KeepsSession, Session!Spec, RoleSpec
-----------------------------------------------------------------------------
(***************************************************************************)
(* The requests that are built                                             *)
(***************************************************************************)

\* A request is one that can be asked for in the state it was built in, which
\* stays as it is until the request has ended, and its URI passed the test.
SentInv == Built => sent \in Asked /\ UriFits(sent)

Lists == {"LIST", "LIST_RECURSIVE"}

\* Requests of smaller sets are within the requests of larger ones.
LEMMA SmallerSets ==
  ASSUME NEW C1, NEW C2, C1 \subseteq C2, NEW V1, NEW V2, V1 \subseteq V2,
         NEW P, NEW B1, NEW B2, B1 \subseteq B2, NEW F1, NEW F2, F1 \subseteq F2,
         NEW L1, NEW L2, L1 \subseteq L2, NEW H1, NEW H2, H1 \subseteq H2,
         NEW S1, NEW S2, S1 \subseteq S2, NEW G1, NEW G2, G1 \subseteq G2,
         NEW T1, NEW T2, T1 \subseteq T2
  PROVE  [cmd : C1, list_version : V1, protocol_version : P, continuation : B1,
          filter : F1, value : L1, path : H1, source : S1, signer : G1, token : T1]
           \subseteq
         [cmd : C2, list_version : V2, protocol_version : P, continuation : B2,
          filter : F2, value : L2, path : H2, source : S2, signer : G2, token : T2]
BY SMTT(30)

\* What a request may be is within its type; only a list has a version, only a
\* copy has a source, and the requests for a role are the user's.
LEMMA AskedIs ==
  ASSUME RoleTypeOK, NEW q \in Asked
  PROVE  /\ q \in Requests
         /\ q.list_version # 0 <=> q.cmd \in Lists
         /\ q.source # 0 => q.cmd = "COPY"
         /\ q.cmd \in RoleCommands => q.signer = "user"
<1>1. HeldTokens \subseteq Tokens \cup {0} /\ {Signer} \subseteq {"user", "role"}
  BY DEF HeldTokens, Signer
<1>2. {"LIST", "LIST_RECURSIVE", "GET", "HEAD", "PUT", "DELETE", "COPY",
       "LIST_ROLE", "ASSUME_ROLE"} = Commands
  BY DEF Commands, MethodOf
<1>3. {FALSE} \subseteq BOOLEAN
  BY Zenon
<1>4. /\ {0} \subseteq 0..2 /\ {0} \subseteq Values \cup {0}
      /\ Values \subseteq Values \cup {0} /\ Paths \subseteq Paths \cup {1}
      /\ {1} \subseteq Paths \cup {1} /\ {0} \subseteq Sources \cup {0}
      /\ {0} \subseteq Tokens \cup {0} /\ {"user"} \subseteq {"user", "role"}
  OBVIOUS
<1>5. CASE q \in ListRequests
  <2>1. {"LIST", "LIST_RECURSIVE"} \subseteq Commands /\ 1..2 \subseteq 0..2
    BY <1>2
  <2>2. ListRequests \subseteq Requests
    BY <1>1, <2>1, SmallerSets DEF ListRequests, Requests
  <2>3. q.cmd \in Lists /\ q.list_version \in 1..2 /\ q.source = 0
    BY <1>5 DEF ListRequests, Lists
  <2>. QED BY <1>5, <2>2, <2>3 DEF Lists, RoleCommands
<1>6. CASE q \in ObjectRequests
  <2>. DEFINE On(cmds, from) ==
         [cmd : cmds, list_version : {0}, protocol_version : Protocols,
          continuation : {FALSE}, filter : {FALSE}, value : {0}, path : Paths,
          source : from, signer : {Signer}, token : HeldTokens]
  <2>1. ASSUME NEW cmds \in SUBSET Commands, NEW from \in SUBSET (Sources \cup {0})
        PROVE  On(cmds, from) \subseteq Requests
    BY <1>1, <1>3, <1>4, SmallerSets DEF Requests
  <2>2. {"GET", "HEAD", "PUT", "DELETE"} \in SUBSET Commands /\ {"COPY"} \in SUBSET Commands
    BY <1>2
  <2>3. ObjectRequests \subseteq Requests
    BY <2>1, <2>2 DEF ObjectRequests
  <2>4. /\ q.cmd \in {"GET", "HEAD", "PUT", "DELETE", "COPY"} /\ q.list_version = 0
        /\ q.source = 0 \/ q.cmd = "COPY"
    BY <1>6 DEF ObjectRequests
  <2>. QED BY <1>6, <2>3, <2>4 DEF Lists, RoleCommands
<1>7. ASSUME NEW c \in RoleCommands, q \in RoleRequests(c)
      PROVE  /\ q \in Requests /\ q.cmd = c /\ q.list_version = 0
             /\ q.source = 0 /\ q.signer = "user"
  <2>1. {c} \subseteq Commands
    BY <1>2 DEF RoleCommands
  <2>2. ({FALSE} \cup {c = "LIST_ROLE"}) \subseteq BOOLEAN
    BY Zenon
  <2>3. RoleRequests(c) \subseteq Requests
    BY <1>3, <1>4, <2>1, <2>2, SmallerSets DEF RoleRequests, Requests
  <2>. QED BY <1>7, <2>3 DEF RoleRequests
<1>. QED BY <1>5, <1>6, <1>7 DEF Asked, RoleCommands, Lists

LEMMA InitSent == Init => SentInv
BY DEF Init, SentInv, Built

LEMMA NextSent == SentInv /\ [Next]_vars => SentInv'
<1>. SUFFICES ASSUME SentInv, [Next]_vars PROVE SentInv'
  OBVIOUS
<1>1. CASE RoleStep \/ Ends
  BY <1>1 DEF RoleStep, Ends, SentInv, Built
<1>2. CASE Build
  <2>1. UNCHANGED roleVars
    BY <1>2 DEF Build
  <2>2. Asked' = Asked
    BY <2>1 DEF roleVars, roleState, Asked, ListRequests, ObjectRequests, RoleRequests,
                Signer, HeldTokens
  <2>3. sent' \in Asked' /\ UriFits(sent')
    BY <1>2, <2>2 DEF Build
  <2>. QED BY <2>3 DEF SentInv
<1>3. CASE UNCHANGED vars
  <2>1. Asked' = Asked /\ sent' = sent
    BY <1>3 DEF vars, roleVars, roleState, Asked, ListRequests, ObjectRequests, RoleRequests,
                Signer, HeldTokens
  <2>. QED BY <2>1 DEF SentInv, Built
<1>. QED BY <1>1, <1>2, <1>3 DEF Next

LEMMA SentInvariance == Spec => [](RoleTypeOK /\ SentInv)
BY RoleTypeCorrect, InitSent, NextSent, PTL DEF Spec

\* The role and the latest request stay within their types.
THEOREM TypeCorrect == Spec => []TypeOK
<1>1. RoleTypeOK /\ SentInv => TypeOK
  BY AskedIs DEF SentInv, Built, TypeOK
<1>. QED BY <1>1, SentInvariance, PTL
-----------------------------------------------------------------------------
(***************************************************************************)
(* The query                                                               *)
(***************************************************************************)

Parameters == {"Action", "Marker", "RoleArn", "RoleSessionName", "Version",
               "continuation-token", "delimiter", "list-type", "marker", "prefix"}

\* The place of a parameter in the order.
Place(t) == CHOOSE k \in 1..Len(ParameterOrder) : ParameterOrder[k] = t

LEMMA Places ==
  /\ Place("Action") = 1 /\ Place("Marker") = 2 /\ Place("RoleArn") = 3
  /\ Place("RoleSessionName") = 4 /\ Place("Version") = 5
  /\ Place("continuation-token") = 6 /\ Place("delimiter") = 7
  /\ Place("list-type") = 8 /\ Place("marker") = 9 /\ Place("prefix") = 10
<1>1. Len(ParameterOrder) = 10
  BY DEF ParameterOrder
<1>2. ASSUME NEW n \in 1..10 PROVE Place(ParameterOrder[n]) = n
  <2>1. ASSUME NEW k \in 1..10, ParameterOrder[k] = ParameterOrder[n] PROVE k = n
    BY <2>1 DEF ParameterOrder
  <2>. QED BY <1>1, <2>1 DEF Place
<1>. QED BY <1>2 DEF ParameterOrder

\* The parameters of s are in order, and between two places.
Between(s, low, high) ==
  /\ s \in Seq(Parameters)
  /\ Len(s) <= high - low + 1
  /\ \A i \in 1..Len(s) : low <= Place(s[i]) /\ Place(s[i]) <= high
  /\ \A i, j \in 1..Len(s) : i < j => Place(s[i]) < Place(s[j])

LEMMA PlaceType == \A t \in Parameters : Place(t) \in Nat
BY Places DEF Parameters

LEMMA BetweenIsInOrder ==
  ASSUME NEW s, NEW low, NEW high, Between(s, low, high)
  PROVE  InOrder(s, ParameterOrder)
BY DEF Between, InOrder, Place

\* A part that may be left out.
LEMMA OptionalBetween ==
  ASSUME NEW condition \in BOOLEAN, NEW t \in Parameters, NEW k \in Nat,
         Place(t) = k
  PROVE  Between(Optional(condition, t), k, k)
<1>1. CASE condition
  <2>1. <<t>> \in Seq(Parameters) /\ Len(<<t>>) = 1 /\ <<t>>[1] = t
    OBVIOUS
  <2>. QED BY <1>1, <2>1 DEF Optional, Between
<1>2. CASE ~condition
  <2>1. <<>> \in Seq(Parameters) /\ Len(<<>>) = 0
    OBVIOUS
  <2>. QED BY <1>2, <2>1 DEF Optional, Between
<1>. QED BY <1>1, <1>2

\* Two parts, one behind the other in the order.
LEMMA ConcatBetween ==
  ASSUME NEW s, NEW t, NEW a \in Nat, NEW b \in Nat, NEW c \in Nat, NEW d \in Nat,
         Between(s, a, b), Between(t, c, d), a <= b, b < c, c <= d
  PROVE  Between(s \o t, a, d)
<1>1. /\ s \in Seq(Parameters) /\ t \in Seq(Parameters)
      /\ Len(s) \in Nat /\ Len(t) \in Nat
      /\ Len(s) <= b - a + 1 /\ Len(t) <= d - c + 1
  BY DEF Between
<1>2. /\ s \o t \in Seq(Parameters)
      /\ Len(s \o t) = Len(s) + Len(t)
      /\ \A i \in 1..Len(s) + Len(t) :
           (s \o t)[i] = IF i <= Len(s) THEN s[i] ELSE t[i - Len(s)]
  BY <1>1, ConcatProperties
<1>3. ASSUME NEW i \in 1..Len(s)
      PROVE  Place(s[i]) \in Nat /\ a <= Place(s[i]) /\ Place(s[i]) <= b
  <2>1. s[i] \in Parameters
    BY <1>1, ElementOfSeq
  <2>. QED BY <2>1, PlaceType DEF Between
<1>4. ASSUME NEW i \in 1..Len(t)
      PROVE  Place(t[i]) \in Nat /\ c <= Place(t[i]) /\ Place(t[i]) <= d
  <2>1. t[i] \in Parameters
    BY <1>1, ElementOfSeq
  <2>. QED BY <2>1, PlaceType DEF Between
<1>. DEFINE st == s \o t
            m == Len(s)
            n == Len(t)
<1>5. ASSUME NEW i \in 1..(m + n)
      PROVE  \/ i \in 1..m /\ st[i] = s[i]
             \/ i > m /\ i - m \in 1..n /\ st[i] = t[i - m]
  <2>1. st[i] = IF i <= m THEN s[i] ELSE t[i - m]
    BY <1>2
  <2>2. m \in Nat /\ n \in Nat
    BY <1>1
  <2>. HIDE DEF st, m, n
  <2>3. i \in 1..m \/ (i > m /\ i - m \in 1..n)
    BY <2>2
  <2>4. i > m => ~(i <= m)
    BY <2>2
  <2>. QED BY <2>1, <2>3, <2>4
<1>6. Len(st) = m + n
  BY <1>2
<1>7. st \in Seq(Parameters)
  BY <1>2
<1>8. ASSUME NEW i \in 1..m, NEW j \in 1..m, i < j
      PROVE  Place(s[i]) < Place(s[j])
  BY <1>8 DEF Between
<1>9. ASSUME NEW i \in 1..n, NEW j \in 1..n, i < j
      PROVE  Place(t[i]) < Place(t[j])
  BY <1>9 DEF Between
<1>10. m \in Nat /\ n \in Nat /\ m <= b - a + 1 /\ n <= d - c + 1
  BY <1>1
<1>. HIDE DEF st, m, n
<1>11. ASSUME NEW i \in 1..(m + n)
       PROVE  a <= Place(st[i]) /\ Place(st[i]) <= d
  <2>1. CASE i \in 1..m /\ st[i] = s[i]
    BY <1>3, <2>1 DEF m
  <2>2. CASE i - m \in 1..n /\ st[i] = t[i - m]
    BY <1>4, <2>2 DEF n
  <2>. QED BY <1>5, <2>1, <2>2
<1>12. ASSUME NEW i \in 1..(m + n), NEW j \in 1..(m + n), i < j
       PROVE  Place(st[i]) < Place(st[j])
  <2>1. CASE /\ i \in 1..m /\ st[i] = s[i]
             /\ j \in 1..m /\ st[j] = s[j]
    BY <1>8, <1>12, <2>1
  <2>2. CASE /\ i \in 1..m /\ st[i] = s[i]
             /\ j - m \in 1..n /\ st[j] = t[j - m]
    <3>1. Place(st[i]) \in Nat /\ Place(st[i]) <= b
      BY <1>3, <2>2 DEF m
    <3>2. Place(st[j]) \in Nat /\ Place(st[j]) >= c
      BY <1>4, <2>2 DEF n
    <3>. QED BY <3>1, <3>2
  <2>3. CASE /\ i - m \in 1..n /\ st[i] = t[i - m]
             /\ j - m \in 1..n /\ st[j] = t[j - m]
    <3>1. i - m < j - m
      BY <1>10, <1>12
    <3>. QED BY <1>9, <2>3, <3>1
  <2>4. ~(i > m /\ j \in 1..m)
    BY <1>10, <1>12
  <2>. QED BY <1>5, <2>1, <2>2, <2>3, <2>4
<1>13. Len(st) <= d - a + 1
  BY <1>6, <1>10
<1>. QED BY <1>6, <1>7, <1>11, <1>12, <1>13 DEF Between, st

LEMMA WiderBetween ==
  ASSUME NEW s, NEW a \in Nat, NEW b \in Nat, NEW c \in Nat, NEW d \in Nat,
         Between(s, b, c), a <= b, c <= d
  PROVE  Between(s, a, d)
<1>1. ASSUME NEW i \in 1..Len(s) PROVE a <= Place(s[i]) /\ Place(s[i]) <= d
  <2>1. s[i] \in Parameters
    BY ElementOfSeq DEF Between
  <2>2. Place(s[i]) \in Nat /\ b <= Place(s[i]) /\ Place(s[i]) <= c
    BY <2>1, PlaceType DEF Between
  <2>. QED BY <2>2
<1>2. Len(s) \in Nat /\ Len(s) <= d - a + 1
  BY DEF Between
<1>. QED BY <1>1, <1>2 DEF Between

\* The query of a list: five parts at most, in order unless a token follows the
\* delimiter.
LEMMA ListQueryIs ==
  ASSUME NEW q \in Requests
  PROVE  /\ ListQuery(q) \in Seq(Parameters) /\ Len(ListQuery(q)) <= 5
         /\ ~(q.cmd = "LIST" /\ q.list_version = 2 /\ q.continuation)
              => Between(ListQuery(q), 6, 10)
<1>. DEFINE delimiter == Optional(q.cmd = "LIST", "delimiter")
            token == Optional(q.list_version = 2 /\ q.continuation, "continuation-token")
            type == Optional(q.list_version = 2, "list-type")
            marker == Optional(q.list_version = 1 /\ q.continuation, "marker")
            prefix == Optional(q.filter, "prefix")
<1>1. q.continuation \in BOOLEAN /\ q.filter \in BOOLEAN
  BY DEF Requests
<1>2. /\ (q.cmd = "LIST") \in BOOLEAN /\ (q.list_version = 2) \in BOOLEAN
      /\ (q.list_version = 2 /\ q.continuation) \in BOOLEAN
      /\ (q.list_version = 1 /\ q.continuation) \in BOOLEAN
  OBVIOUS
<1>3. /\ Between(delimiter, 7, 7) /\ Between(token, 6, 6) /\ Between(type, 8, 8)
      /\ Between(marker, 9, 9) /\ Between(prefix, 10, 10)
  BY <1>1, <1>2, OptionalBetween, Places DEF Parameters
<1>4. ListQuery(q) = delimiter \o token \o type \o marker \o prefix
  BY DEF ListQuery
<1>5. (q.cmd = "LIST" /\ q.list_version = 2 /\ q.continuation)
        \/ delimiter = <<>> \/ token = <<>>
  BY DEF Optional
<1>. HIDE DEF delimiter, token, type, marker, prefix
<1>6. /\ ListQuery(q) \in Seq(Parameters) /\ Len(ListQuery(q)) <= 5
  <2>1. ASSUME NEW s \in Seq(Parameters), NEW t \in Seq(Parameters)
        PROVE  s \o t \in Seq(Parameters) /\ Len(s \o t) = Len(s) + Len(t)
    BY ConcatProperties
  <2>2. /\ delimiter \in Seq(Parameters) /\ token \in Seq(Parameters)
        /\ type \in Seq(Parameters) /\ marker \in Seq(Parameters)
        /\ prefix \in Seq(Parameters)
    BY <1>3 DEF Between
  <2>3. /\ ListQuery(q) \in Seq(Parameters)
        /\ Len(ListQuery(q)) =
             Len(delimiter) + Len(token) + Len(type) + Len(marker) + Len(prefix)
    BY <1>4, <2>1, <2>2
  <2>4. /\ Len(delimiter) <= 1 /\ Len(token) <= 1 /\ Len(type) <= 1
        /\ Len(marker) <= 1 /\ Len(prefix) <= 1
    BY <1>3 DEF Between
  <2>5. /\ Len(delimiter) \in Nat /\ Len(token) \in Nat /\ Len(type) \in Nat
        /\ Len(marker) \in Nat /\ Len(prefix) \in Nat
    BY <2>2
  <2>. QED BY <2>3, <2>4, <2>5
<1>7. ASSUME delimiter = <<>> \/ token = <<>>
      PROVE  Between(ListQuery(q), 6, 10)
  <2>1. delimiter \o token = token \/ delimiter \o token = delimiter
    BY <1>3, <1>7, ConcatEmptySeq DEF Between
  <2>2. Between(delimiter \o token, 6, 7)
    <3>1. Between(token, 6, 7)
      BY <1>3, WiderBetween
    <3>2. Between(delimiter, 6, 7)
      BY <1>3, WiderBetween
    <3>. QED BY <2>1, <3>1, <3>2
  <2>3. Between(delimiter \o token \o type, 6, 8)
    BY <1>3, <2>2, ConcatBetween
  <2>4. Between(delimiter \o token \o type \o marker, 6, 9)
    BY <1>3, <2>3, ConcatBetween
  <2>. QED BY <1>3, <1>4, <2>4, ConcatBetween
<1>. QED BY <1>5, <1>6, <1>7

\* The query of a request for a role is always in order.
LEMMA RoleQueryIs ==
  ASSUME NEW q \in Requests
  PROVE  Between(RoleQuery(q), 1, 5)
<1>. DEFINE marker == Optional(q.continuation, "Marker")
            arn == IF q.cmd = "ASSUME_ROLE" THEN <<"RoleArn", "RoleSessionName">>
                   ELSE <<>>
<1>1. q.continuation \in BOOLEAN
  BY DEF Requests
<1>2. Between(<<"Action">>, 1, 1) /\ Between(<<"Version">>, 5, 5)
  <2>1. /\ Between(Optional(TRUE, "Action"), 1, 1)
        /\ Between(Optional(TRUE, "Version"), 5, 5)
    BY OptionalBetween, Places DEF Parameters
  <2>. QED BY <2>1 DEF Optional
<1>3. Between(marker, 2, 2)
  BY <1>1, OptionalBetween, Places DEF Parameters
<1>4. Between(arn, 3, 4)
  <2>1. "RoleArn" \in Parameters /\ "RoleSessionName" \in Parameters
    BY DEF Parameters
  <2>2. <<"RoleArn", "RoleSessionName">> \in Seq(Parameters) /\ <<>> \in Seq(Parameters)
    BY <2>1
  <2>. QED BY <2>2, Places DEF Between
<1>5. RoleQuery(q) = <<"Action">> \o marker \o arn \o <<"Version">>
  BY DEF RoleQuery
<1>. HIDE DEF marker, arn
<1>6. Between(<<"Action">> \o marker, 1, 2)
  BY <1>2, <1>3, ConcatBetween
<1>7. Between(<<"Action">> \o marker \o arn, 1, 4)
  BY <1>4, <1>6, ConcatBetween
<1>. QED BY <1>2, <1>5, <1>7, ConcatBetween

\* Every query has five parts at most, so that Joined measures all of it.
LEMMA QueryIs ==
  ASSUME NEW q \in Requests
  PROVE  Query(q) \in Seq(Parameters) /\ Len(Query(q)) <= 5
<1>1. RoleQuery(q) \in Seq(Parameters) /\ Len(RoleQuery(q)) <= 5
  BY RoleQueryIs DEF Between
<1>. QED BY <1>1, ListQueryIs DEF Query

LEMMA LengthTypes ==
  ASSUME NEW q \in Requests
  PROVE  /\ q.value \in Nat /\ q.path \in Nat /\ q.source \in Nat /\ q.token \in Nat
         /\ Domain \in Nat /\ Bucket \in Nat
<1>1. /\ \A v \in Values \cup {0} : v \in Nat
      /\ \A v \in Paths \cup {1} : v \in Nat
      /\ \A v \in Sources \cup {0} : v \in Nat
      /\ \A v \in Tokens \cup {0} : v \in Nat
  BY SigningAssumption
<1>2. /\ q.value \in Values \cup {0} /\ q.path \in Paths \cup {1}
      /\ q.source \in Sources \cup {0} /\ q.token \in Tokens \cup {0}
  BY DEF Requests
<1>. QED BY <1>1, <1>2, SigningAssumption

LEMMA ParameterLengthType ==
  ASSUME NEW q \in Requests, NEW p \in Parameters
  PROVE  ParameterLength(q, p) \in Nat
<1>1. q.value \in Nat
  BY LengthTypes
<1>. QED BY <1>1 DEF ParameterLength, Parameters

LEMMA QueryLengthType ==
  ASSUME NEW q \in Requests
  PROVE  /\ QueryLength(q) \in Nat
         /\ Query(q) = <<>> => QueryLength(q) = 0
<1>. DEFINE Of(i) == IF i <= Len(Query(q)) THEN ParameterLength(q, Query(q)[i]) ELSE 0
            Separators == IF Query(q) = <<>> THEN 0 ELSE Len(Query(q)) - 1
<1>1. Query(q) \in Seq(Parameters) /\ Len(Query(q)) \in Nat
  BY QueryIs
<1>2. ASSUME NEW i \in 1..5 PROVE Of(i) \in Nat
  <2>1. i <= Len(Query(q)) => Query(q)[i] \in Parameters
    BY <1>1, ElementOfSeq
  <2>. QED BY <2>1, ParameterLengthType
<1>3. Separators \in Nat
  <2>1. Query(q) # <<>> => Len(Query(q)) # 0
    BY <1>1, EmptySeq
  <2>. QED BY <1>1, <2>1
<1>4. QueryLength(q) = Of(1) + Of(2) + Of(3) + Of(4) + Of(5) + Separators
  BY DEF QueryLength, Joined
<1>5. /\ Of(1) \in Nat /\ Of(2) \in Nat /\ Of(3) \in Nat
      /\ Of(4) \in Nat /\ Of(5) \in Nat
  BY <1>2
<1>6. ASSUME Query(q) = <<>>
      PROVE  /\ Of(1) = 0 /\ Of(2) = 0 /\ Of(3) = 0 /\ Of(4) = 0 /\ Of(5) = 0
             /\ Separators = 0
  <2>1. Len(Query(q)) = 0
    BY <1>6
  <2>. QED BY <1>6, <2>1
<1>. HIDE DEF Of, Separators
<1>7. QueryLength(q) \in Nat
  BY <1>3, <1>4, <1>5
<1>8. Query(q) = <<>> => QueryLength(q) = 0
  BY <1>4, <1>6
<1>. QED BY <1>7, <1>8

\* The query is sent in the order that a verifier recomputes it in, but for the
\* later pages of ms3_list_dir() with list version 2, whatever else is in it.
THEOREM QueryIsInOrder == Spec => []QueryInOrder
<1>1. RoleTypeOK /\ SentInv => QueryInOrder
  <2>. SUFFICES ASSUME RoleTypeOK, sent \in Asked,
                       ~(sent.cmd = "LIST" /\ sent.list_version = 2 /\ sent.continuation)
                PROVE  InOrder(Query(sent), ParameterOrder)
    BY DEF SentInv, QueryInOrder
  <2>1. sent \in Requests
    BY AskedIs
  <2>2. \/ Between(Query(sent), 1, 5) \/ Between(Query(sent), 6, 10)
        \/ Query(sent) = <<>>
    BY <2>1, ListQueryIs, RoleQueryIs DEF Query
  <2>3. Query(sent) = <<>> => InOrder(Query(sent), ParameterOrder)
    BY DEF InOrder
  <2>. QED BY <2>2, <2>3, BetweenIsInOrder
<1>. QED BY <1>1, SentInvariance, PTL

\* A URI that passes the test of build_request_uri() or of
\* build_assume_role_request_uri() is not cut off by the buffer, for names,
\* paths and queries of any lengths.
THEOREM UriIsWhole == Spec => []UriWhole
<1>1. RoleTypeOK /\ SentInv => UriWhole
  <2>. SUFFICES ASSUME RoleTypeOK, sent \in Asked, UriFits(sent)
                PROVE  UriLength(sent) < UriSize(sent)
    BY DEF SentInv, UriWhole
  <2>1. sent \in Requests
    BY AskedIs
  <2>2. QueryLength(sent) \in Nat
    BY <2>1, QueryLengthType
  <2>3. sent.path \in Nat /\ Domain \in Nat /\ Bucket \in Nat
    BY <2>1, LengthTypes
  <2>. QED BY <2>2, <2>3 DEF UriFits, UriLength, UriSize, MAX_URI_LENGTH
<1>. QED BY <1>1, SentInvariance, PTL
-----------------------------------------------------------------------------
(***************************************************************************)
(* The headers                                                             *)
(***************************************************************************)

LEMMA ConcatOfTwo ==
  ASSUME NEW S, NEW a \in S, NEW b \in S, NEW c \in S
  PROVE  <<a, b>> \o <<c>> = <<a, b, c>>
<1>1. <<a, b>> \in Seq(S) /\ <<c>> \in Seq(S) /\ <<a, b, c>> \in Seq(S)
  OBVIOUS
<1>2. <<a, b>> \o <<c>> \in Seq(S)
  BY <1>1, ConcatProperties
<1>3. Len(<<a, b>> \o <<c>>) = 3 /\ Len(<<a, b, c>>) = 3
  BY <1>1
<1>4. \A i \in 1..3 : (<<a, b>> \o <<c>>)[i] = <<a, b, c>>[i]
  BY <1>1, ConcatProperties
<1>. QED BY <1>1, <1>2, <1>3, <1>4, SeqEqual

LEMMA ConcatOfThree ==
  ASSUME NEW S, NEW a \in S, NEW b \in S, NEW c \in S, NEW d \in S
  PROVE  <<a, b, c>> \o <<d>> = <<a, b, c, d>>
<1>1. <<a, b, c>> \in Seq(S) /\ <<d>> \in Seq(S) /\ <<a, b, c, d>> \in Seq(S)
  OBVIOUS
<1>2. <<a, b, c>> \o <<d>> \in Seq(S)
  BY <1>1, ConcatProperties
<1>3. Len(<<a, b, c>> \o <<d>>) = 4 /\ Len(<<a, b, c, d>>) = 4
  BY <1>1
<1>4. \A i \in 1..4 : (<<a, b, c>> \o <<d>>)[i] = <<a, b, c, d>>[i]
  BY <1>1, ConcatProperties
<1>. QED BY <1>1, <1>2, <1>3, <1>4, SeqEqual

LEMMA ConcatOfFour ==
  ASSUME NEW S, NEW a \in S, NEW b \in S, NEW c \in S, NEW d \in S, NEW e \in S
  PROVE  <<a, b, c, d>> \o <<e>> = <<a, b, c, d, e>>
<1>1. /\ <<a, b, c, d>> \in Seq(S) /\ <<e>> \in Seq(S)
      /\ <<a, b, c, d, e>> \in Seq(S)
  OBVIOUS
<1>2. <<a, b, c, d>> \o <<e>> \in Seq(S)
  BY <1>1, ConcatProperties
<1>3. Len(<<a, b, c, d>> \o <<e>>) = 5 /\ Len(<<a, b, c, d, e>>) = 5
  BY <1>1
<1>4. \A i \in 1..5 : (<<a, b, c, d>> \o <<e>>)[i] = <<a, b, c, d, e>>[i]
  BY <1>1, ConcatProperties
<1>. QED BY <1>1, <1>2, <1>3, <1>4, SeqEqual

HeaderNames == {"host", "x-amz-content-sha256", "x-amz-copy-source", "x-amz-date",
                "x-amz-security-token"}

\* What is sent is what is hashed, for every command, source and signer.
LEMMA HeadersAreHashed == \A q : Headers(q) = HashedNames(q)
<1>. TAKE q
<1>1. CASE q.cmd \in RoleCommands
  BY <1>1 DEF Headers, HashedNames, RoleHeaders, RoleHashedNames
<1>2. CASE q.cmd \notin RoleCommands
  <2>. DEFINE first == <<"host", "x-amz-content-sha256">>
  <2>1. /\ "host" \in HeaderNames /\ "x-amz-content-sha256" \in HeaderNames
        /\ "x-amz-copy-source" \in HeaderNames /\ "x-amz-date" \in HeaderNames
        /\ "x-amz-security-token" \in HeaderNames
    BY DEF HeaderNames
  <2>2. Headers(q) = first \o Optional(HasSource(q), "x-amz-copy-source")
                       \o <<"x-amz-date">>
                       \o Optional(HasToken(q), "x-amz-security-token")
    BY <1>2 DEF Headers
  <2>3. first \o <<>> = first
    <3>1. first \in Seq(HeaderNames)
      BY <2>1
    <3>. QED BY <3>1, ConcatEmptySeq
  <2>4. first \o <<"x-amz-date">> = <<"host", "x-amz-content-sha256", "x-amz-date">>
    BY <2>1, ConcatOfTwo
  <2>5. first \o <<"x-amz-copy-source">> \o <<"x-amz-date">> =
          <<"host", "x-amz-content-sha256", "x-amz-copy-source", "x-amz-date">>
    <3>1. first \o <<"x-amz-copy-source">> =
            <<"host", "x-amz-content-sha256", "x-amz-copy-source">>
      BY <2>1, ConcatOfTwo
    <3>2. <<"host", "x-amz-content-sha256", "x-amz-copy-source">> \o <<"x-amz-date">> =
            <<"host", "x-amz-content-sha256", "x-amz-copy-source", "x-amz-date">>
      BY <2>1, ConcatOfThree
    <3>. QED BY <3>1, <3>2
  <2>6. CASE HasSource(q) /\ HasToken(q)
    <3>1. <<"host", "x-amz-content-sha256", "x-amz-copy-source", "x-amz-date">>
            \o <<"x-amz-security-token">> =
          <<"host", "x-amz-content-sha256", "x-amz-copy-source", "x-amz-date",
            "x-amz-security-token">>
      BY <2>1, ConcatOfFour
    <3>. QED BY <1>2, <2>2, <2>5, <2>6, <3>1 DEF Optional, HashedNames
  <2>7. CASE HasSource(q) /\ ~HasToken(q)
    <3>1. <<"host", "x-amz-content-sha256", "x-amz-copy-source", "x-amz-date">>
            \in Seq(HeaderNames)
      BY <2>1
    <3>. QED BY <1>2, <2>2, <2>5, <2>7, <3>1, ConcatEmptySeq DEF Optional, HashedNames
  <2>8. CASE ~HasSource(q) /\ HasToken(q)
    <3>1. <<"host", "x-amz-content-sha256", "x-amz-date">>
            \o <<"x-amz-security-token">> =
          <<"host", "x-amz-content-sha256", "x-amz-date", "x-amz-security-token">>
      BY <2>1, ConcatOfThree
    <3>. QED BY <1>2, <2>2, <2>3, <2>4, <2>8, <3>1 DEF Optional, HashedNames
  <2>9. CASE ~HasSource(q) /\ ~HasToken(q)
    <3>1. <<"host", "x-amz-content-sha256", "x-amz-date">> \in Seq(HeaderNames)
      BY <2>1
    <3>. QED BY <1>2, <2>2, <2>3, <2>4, <2>9, <3>1, ConcatEmptySeq
             DEF Optional, HashedNames
  <2>. QED BY <2>6, <2>7, <2>8, <2>9
<1>. QED BY <1>1, <1>2

\* The place of a header in the order.
HeaderPlace(t) == CHOOSE k \in 1..Len(HeaderOrder) : HeaderOrder[k] = t

LEMMA HeaderPlaces ==
  /\ HeaderPlace("host") = 1 /\ HeaderPlace("x-amz-content-sha256") = 2
  /\ HeaderPlace("x-amz-copy-source") = 3 /\ HeaderPlace("x-amz-date") = 4
  /\ HeaderPlace("x-amz-security-token") = 5
<1>1. Len(HeaderOrder) = 5
  BY DEF HeaderOrder
<1>2. ASSUME NEW n \in 1..5 PROVE HeaderPlace(HeaderOrder[n]) = n
  <2>1. ASSUME NEW k \in 1..5, HeaderOrder[k] = HeaderOrder[n] PROVE k = n
    BY <2>1 DEF HeaderOrder
  <2>. QED BY <1>1, <2>1 DEF HeaderPlace
<1>. QED BY <1>2 DEF HeaderOrder

LEMMA HashedInOrder == \A q : InOrder(HashedNames(q), HeaderOrder)
<1>. TAKE q
<1>1. ASSUME NEW s, \A i, j \in 1..Len(s) : i < j => HeaderPlace(s[i]) < HeaderPlace(s[j])
      PROVE  InOrder(s, HeaderOrder)
  BY <1>1 DEF InOrder, HeaderPlace
<1>2. ASSUME NEW s \in {<<"host", "x-amz-content-sha256", "x-amz-copy-source",
                          "x-amz-date", "x-amz-security-token">>,
                        <<"host", "x-amz-content-sha256", "x-amz-copy-source",
                          "x-amz-date">>,
                        <<"host", "x-amz-content-sha256", "x-amz-date",
                          "x-amz-security-token">>,
                        <<"host", "x-amz-content-sha256", "x-amz-date">>}
      PROVE  \A i, j \in 1..Len(s) : i < j => HeaderPlace(s[i]) < HeaderPlace(s[j])
  <2>1. CASE s = <<"host", "x-amz-content-sha256", "x-amz-copy-source",
                   "x-amz-date", "x-amz-security-token">>
    <3>1. Len(s) = 5 /\ \A i \in 1..5 : HeaderPlace(s[i]) = i
      BY <2>1, HeaderPlaces
    <3>. QED BY <3>1
  <2>2. CASE s = <<"host", "x-amz-content-sha256", "x-amz-copy-source", "x-amz-date">>
    <3>1. Len(s) = 4 /\ \A i \in 1..4 : HeaderPlace(s[i]) = i
      BY <2>2, HeaderPlaces
    <3>. QED BY <3>1
  <2>3. CASE s = <<"host", "x-amz-content-sha256", "x-amz-date",
                   "x-amz-security-token">>
    <3>1. Len(s) = 4 /\ \A i \in 1..4 : HeaderPlace(s[i]) = IF i <= 2 THEN i ELSE i + 1
      BY <2>3, HeaderPlaces
    <3>. QED BY <3>1
  <2>4. CASE s = <<"host", "x-amz-content-sha256", "x-amz-date">>
    <3>1. Len(s) = 3 /\ \A i \in 1..3 : HeaderPlace(s[i]) = IF i <= 2 THEN i ELSE i + 1
      BY <2>4, HeaderPlaces
    <3>. QED BY <3>1
  <2>. QED BY <2>1, <2>2, <2>3, <2>4
<1>. QED BY <1>1, <1>2 DEF HashedNames, RoleHashedNames

\* For every command, source and signer the headers that are sent are the ones
\* that are hashed, in alphabetical order, and the ones that the Authorization
\* header names, but for the source of a copy signed with a role.
THEOREM SignsWhatIsSent == Spec => []SignsWhatItSends
<1>1. RoleTypeOK /\ SentInv => SignsWhatItSends
  <2>. SUFFICES ASSUME RoleTypeOK, sent \in Asked PROVE SignsWhatItSends
    BY DEF SentInv, SignsWhatItSends
  <2>1. HashedNames(sent) = Headers(sent) /\ InOrder(Headers(sent), HeaderOrder)
    BY HeadersAreHashed, HashedInOrder
  <2>2. ~(HasSource(sent) /\ HasToken(sent)) => SignedHeaders(sent) = HashedNames(sent)
    BY DEF SignedHeaders, HashedNames, RoleSignedHeaders, RoleHashedNames
  <2>. QED BY <2>1, <2>2 DEF SignsWhatItSends
<1>. QED BY <1>1, SentInvariance, PTL
-----------------------------------------------------------------------------
(***************************************************************************)
(* The canonical request                                                   *)
(***************************************************************************)

LEMMA NameLengths ==
  /\ NameLength("host") = 4 /\ NameLength("x-amz-content-sha256") = 20
  /\ NameLength("x-amz-copy-source") = 17 /\ NameLength("x-amz-date") = 10
  /\ NameLength("x-amz-security-token") = 20
BY DEF NameLength

LEMMA ValueLengths ==
  ASSUME NEW q
  PROVE  /\ ValueLength(q, "x-amz-content-sha256") = 64
         /\ ValueLength(q, "x-amz-copy-source") = q.source + 2
         /\ ValueLength(q, "x-amz-date") = 16
         /\ ValueLength(q, "x-amz-security-token") = q.token
BY DEF ValueLength

LEMMA HostLength ==
  ASSUME NEW q
  PROVE  ValueLength(q, "host") = IF q.cmd \in RoleCommands \/ q.protocol_version = 1
                                  THEN Domain ELSE Bucket + 1 + Domain
BY DEF ValueLength

\* What a list of headers takes, and what their names take, one form at a time.
LEMMA PlainHeaders ==
  ASSUME NEW q \in Requests,
         HashedNames(q) = <<"host", "x-amz-content-sha256", "x-amz-date">>
  PROVE  /\ NamesLength(q) = 38
         /\ HeadersLength(q) = 120 + ValueLength(q, "host")
<1>1. ValueLength(q, "host") \in Nat
  BY HostLength, LengthTypes
<1>2. Headers(q) = <<"host", "x-amz-content-sha256", "x-amz-date">>
  BY HeadersAreHashed
<1>3. NamesLength(q) = 38
  BY NameLengths DEF NamesLength, Joined
<1>4. HeadersLength(q) = 120 + ValueLength(q, "host")
  BY <1>1, <1>2, NameLengths, ValueLengths DEF HeadersLength, Joined
<1>. QED BY <1>3, <1>4

LEMMA TokenHeaders ==
  ASSUME NEW q \in Requests,
         HashedNames(q) = <<"host", "x-amz-content-sha256", "x-amz-date",
                            "x-amz-security-token">>
  PROVE  /\ NamesLength(q) = 59
         /\ HeadersLength(q) = 142 + ValueLength(q, "host") + q.token
<1>1. ValueLength(q, "host") \in Nat /\ q.token \in Nat
  BY HostLength, LengthTypes
<1>2. Headers(q) = <<"host", "x-amz-content-sha256", "x-amz-date",
                     "x-amz-security-token">>
  BY HeadersAreHashed
<1>3. NamesLength(q) = 59
  BY NameLengths DEF NamesLength, Joined
<1>4. HeadersLength(q) = 142 + ValueLength(q, "host") + q.token
  BY <1>1, <1>2, NameLengths, ValueLengths DEF HeadersLength, Joined
<1>. QED BY <1>3, <1>4

LEMMA SourceHeaders ==
  ASSUME NEW q \in Requests,
         HashedNames(q) = <<"host", "x-amz-content-sha256", "x-amz-copy-source",
                            "x-amz-date">>
  PROVE  /\ NamesLength(q) = 56
         /\ HeadersLength(q) = 141 + ValueLength(q, "host") + q.source
<1>1. ValueLength(q, "host") \in Nat /\ q.source \in Nat
  BY HostLength, LengthTypes
<1>2. Headers(q) = <<"host", "x-amz-content-sha256", "x-amz-copy-source",
                     "x-amz-date">>
  BY HeadersAreHashed
<1>3. NamesLength(q) = 56
  BY NameLengths DEF NamesLength, Joined
<1>4. HeadersLength(q) = 141 + ValueLength(q, "host") + q.source
  BY <1>1, <1>2, NameLengths, ValueLengths DEF HeadersLength, Joined
<1>. QED BY <1>3, <1>4

LEMMA SourceAndTokenHeaders ==
  ASSUME NEW q \in Requests,
         HashedNames(q) = <<"host", "x-amz-content-sha256", "x-amz-copy-source",
                            "x-amz-date", "x-amz-security-token">>
  PROVE  /\ NamesLength(q) = 77
         /\ HeadersLength(q) = 163 + ValueLength(q, "host") + q.source + q.token
<1>1. ValueLength(q, "host") \in Nat /\ q.source \in Nat /\ q.token \in Nat
  BY HostLength, LengthTypes
<1>2. Headers(q) = <<"host", "x-amz-content-sha256", "x-amz-copy-source",
                     "x-amz-date", "x-amz-security-token">>
  BY HeadersAreHashed
<1>3. NamesLength(q) = 77
  BY NameLengths DEF NamesLength, Joined
<1>4. HeadersLength(q) = 163 + ValueLength(q, "host") + q.source + q.token
  BY <1>1, <1>2, NameLengths, ValueLengths DEF HeadersLength, Joined
<1>. QED BY <1>3, <1>4

\* The names are counted right, and the headers take this much.
LEMMA HeadersTake ==
  ASSUME RoleTypeOK, NEW q \in Asked
  PROVE  /\ NamesCounted(q) = NamesLength(q)
         /\ NamesLength(q) <= 77
         /\ HeadersLength(q) \in Nat
         /\ HeadersLength(q) <= 163 + ValueLength(q, "host") + q.source + q.token
         /\ ~HasSource(q) => /\ NamesLength(q) <= 59
                             /\ HeadersLength(q) <= 142 + ValueLength(q, "host") + q.token
<1>1. /\ q \in Requests
      /\ q.cmd \in RoleCommands => ~HasSource(q) /\ ~HasToken(q)
  BY AskedIs DEF HasSource, HasToken, RoleCommands
<1>2. /\ ValueLength(q, "host") \in Nat /\ q.source \in Nat /\ q.token \in Nat
  BY <1>1, HostLength, LengthTypes
<1>3. CASE HasSource(q) /\ HasToken(q)
  <2>1. HashedNames(q) = <<"host", "x-amz-content-sha256", "x-amz-copy-source",
                           "x-amz-date", "x-amz-security-token">>
    BY <1>1, <1>3 DEF HashedNames
  <2>. QED BY <1>1, <1>2, <1>3, <2>1, SourceAndTokenHeaders DEF NamesCounted
<1>4. CASE HasSource(q) /\ ~HasToken(q)
  <2>1. HashedNames(q) = <<"host", "x-amz-content-sha256", "x-amz-copy-source",
                           "x-amz-date">>
    BY <1>1, <1>4 DEF HashedNames
  <2>. QED BY <1>1, <1>2, <1>4, <2>1, SourceHeaders DEF NamesCounted
<1>5. CASE ~HasSource(q) /\ HasToken(q)
  <2>1. HashedNames(q) = <<"host", "x-amz-content-sha256", "x-amz-date",
                           "x-amz-security-token">>
    BY <1>1, <1>5 DEF HashedNames
  <2>. QED BY <1>1, <1>2, <1>5, <2>1, TokenHeaders DEF NamesCounted
<1>6. CASE ~HasSource(q) /\ ~HasToken(q)
  <2>1. HashedNames(q) = <<"host", "x-amz-content-sha256", "x-amz-date">>
    BY <1>6 DEF HashedNames, RoleHashedNames
  <2>. QED BY <1>1, <1>2, <1>6, <2>1, PlainHeaders DEF NamesCounted
<1>. QED BY <1>3, <1>4, <1>5, <1>6

\* The method, the path, the host and the query together are bounded by the URI
\* that passed its test.
LEMMA UriBounds ==
  ASSUME RoleTypeOK, NEW q \in Asked, UriFits(q)
  PROVE  /\ MethodLength(q) \in 4..7
         /\ HasSource(q) => MethodLength(q) = 4
         /\ PathLength(q) + ValueLength(q, "host") + QueryLength(q) <= 1015
         /\ HasSource(q) =>
              PathLength(q) + ValueLength(q, "host") + QueryLength(q) <= 1014
<1>1. /\ q \in Requests
      /\ HasSource(q) => q.cmd = "COPY"
  BY AskedIs DEF HasSource
<1>2. /\ QueryLength(q) \in Nat /\ q.path \in Nat /\ Domain \in Nat /\ Bucket \in Nat
  BY <1>1, QueryLengthType, LengthTypes
<1>3. MethodLength(q) \in 4..7 /\ (HasSource(q) => MethodLength(q) = 4)
  <2>1. q.cmd \in Commands
    BY <1>1 DEF Requests
  <2>2. MethodOf[q.cmd] \in {"GET", "HEAD", "PUT", "DELETE"}
    BY <2>1 DEF Commands, MethodOf
  <2>3. q.cmd = "COPY" => MethodOf[q.cmd] = "PUT"
    BY DEF MethodOf
  <2>. QED BY <1>1, <2>2, <2>3 DEF MethodLength
<1>4. CASE q.cmd \in RoleCommands
  <2>1. ~HasSource(q)
    BY <1>1, <1>4 DEF RoleCommands
  <2>2. PathLength(q) = 2 /\ ValueLength(q, "host") = Domain
    BY <1>4, HostLength DEF PathLength
  <2>3. 10 + Domain + QueryLength(q) < 1024
    BY <1>2, <1>4 DEF UriFits, UriLength, MAX_URI_LENGTH
  <2>. QED BY <1>2, <1>3, <2>1, <2>2, <2>3
<1>5. CASE q.cmd \notin RoleCommands
  <2>1. 10 + Domain + Bucket + q.path + QueryLength(q) < 1023
    BY <1>5 DEF UriFits, MAX_URI_LENGTH
  <2>2. CASE q.protocol_version = 1
    <3>1. PathLength(q) = 2 + Bucket + q.path /\ ValueLength(q, "host") = Domain
      BY <1>5, <2>2, HostLength DEF PathLength
    <3>. QED BY <1>2, <1>3, <2>1, <3>1
  <2>3. CASE q.protocol_version # 1
    <3>1. PathLength(q) = 1 + q.path /\ ValueLength(q, "host") = Bucket + 1 + Domain
      BY <1>5, <2>3, HostLength DEF PathLength
    <3>. QED BY <1>2, <1>3, <2>1, <3>1
  <2>. QED BY <2>2, <2>3
<1>. QED BY <1>4, <1>5

\* The count kept by hand is always the length of the text, and the canonical
\* request fits, whatever the URI and the query are, when the source of a copy and
\* the token of the role have no more than 1748 bytes together.
THEOREM HashedIsWhole == Spec => []HashedWhole
<1>1. RoleTypeOK /\ SentInv => HashedWhole
  <2>. SUFFICES ASSUME RoleTypeOK, sent \in Asked, UriFits(sent) PROVE HashedWhole
    BY DEF SentInv, HashedWhole
  <2>1. sent \in Requests
    BY AskedIs
  <2>2. NamesCounted(sent) = NamesLength(sent)
    BY HeadersTake
  <2>. SUFFICES ASSUME sent.source + sent.token <= 1748
                PROVE  CanonicalLength(sent) < SigningData
    BY <2>2 DEF HashedWhole, SourceAndTokenThatFit
  <2>3. /\ sent.source \in Nat /\ sent.token \in Nat /\ QueryLength(sent) \in Nat
        /\ HeadersLength(sent) \in Nat
    BY <2>1, LengthTypes, QueryLengthType, HeadersTake
  <2>4. PathLength(sent) \in Nat /\ ValueLength(sent, "host") \in Nat
    BY <2>1, LengthTypes, HostLength DEF PathLength
  <2>5. /\ NamesCounted(sent) = NamesLength(sent)
        /\ NamesLength(sent) \in {38, 56, 59, 77}
    BY HeadersTake DEF NamesCounted
  <2>6. MethodLength(sent) \in 4..7
    BY UriBounds
  <2>7. CASE HasSource(sent)
    BY <2>3, <2>4, <2>5, <2>7, UriBounds, HeadersTake
       DEF CanonicalLength, SigningData
  <2>8. CASE ~HasSource(sent)
    BY <2>3, <2>4, <2>5, <2>6, <2>8, UriBounds, HeadersTake
       DEF CanonicalLength, SigningData
  <2>. QED BY <2>7, <2>8
<1>. QED BY <1>1, SentInvariance, PTL
=============================================================================
