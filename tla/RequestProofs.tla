---------------------------- MODULE RequestProofs ----------------------------
(***************************************************************************)
(* For any set of functions and options that an application uses and any   *)
(* number of pages: no request carries anything over from the one before   *)
(* it (the curl handle is configured as on a new handle, the method on the *)
(* wire is the one of the command, the timeouts are those that are set), a *)
(* call leaves nothing allocated but the outer pages of a failed list and  *)
(* the marker of a page of roles, and what it tells its caller (result,    *)
(* data, error message, content type) is about its own last request.       *)
(***************************************************************************)
EXTENDS Request, TLAPS

\* The inductive invariant: until the first request the curl handle has its
\* defaults, which is why that request need not reset it.
Inv == /\ cmd \in Commands
       /\ first_run => curl = Defaults
       /\ AsOnFreshHandle
-----------------------------------------------------------------------------
LEMMA FirstCommandIsCommand ==
  ASSUME NEW a \in Apis
  PROVE  FirstCommand[a] \in Commands
BY RequestAssumption DEF FirstCommand, ApiFunctions, Commands, RoleCommands

\* The reset leaves the defaults whether the handle was used before or not.
LEMMA ResetIsDefaults ==
  ASSUME first_run => curl = Defaults
  PROVE  Reset = Defaults
BY DEF Reset

\* What SetOptions() sets depends on the command and the settings alone.
LEMMA SameOptions ==
  ASSUME cmd' = cmd, settings' = settings
  PROVE  SetOptions(Defaults)' = SetOptions(Defaults)
BY DEF SetOptions, ForRole, Defaults, Sends, RoleCommands

\* Unwinding never enters a transfer and ends in a command of the API.
LEMMA UnwindLeavesTransfer ==
  ASSUME Inv, NEW r, Unwind(r)
  PROVE  pc' \in {"idle", "preparing"} /\ cmd' \in Commands
BY DEF Inv, Unwind, Commands, RoleCommands

\* A step that touches neither the handle nor the command, and enters no
\* transfer, preserves the invariant.
LEMMA OtherSteps ==
  ASSUME Inv, cmd' \in Commands, first_run' = first_run, curl' = curl,
         \/ pc' \in {"idle", "preparing"}
         \/ pc' = pc /\ cmd' = cmd /\ settings' = settings
  PROVE  Inv'
<1>1. CASE pc' \in {"idle", "preparing"}
  BY <1>1 DEF Inv, AsOnFreshHandle, Defaults
<1>2. CASE pc' = pc /\ cmd' = cmd /\ settings' = settings
  <2>1. SetOptions(Defaults)' = SetOptions(Defaults)
    BY <1>2, SameOptions
  <2>. QED BY <1>2, <2>1 DEF Inv, AsOnFreshHandle, Defaults
<1>. QED BY <1>1, <1>2

\* Perform configures the handle from its defaults.
LEMMA PerformKeepsInv ==
  ASSUME Inv, Perform
  PROVE  Inv'
<1>1. curl' = SetOptions(Defaults)
  BY ResetIsDefaults DEF Inv, Perform
<1>2. SetOptions(Defaults)' = SetOptions(Defaults)
  BY SameOptions DEF Perform, handle
<1>3. cmd' \in Commands /\ first_run' = FALSE
  BY DEF Inv, Perform
<1>. QED BY <1>1, <1>2, <1>3 DEF Inv, AsOnFreshHandle

LEMMA InitInv == Init => Inv
<1>. SUFFICES ASSUME Init PROVE Inv
  OBVIOUS
<1>1. cmd \in Commands
  BY FirstCommandIsCommand DEF Init
<1>. QED BY <1>1 DEF Init, Inv, AsOnFreshHandle

LEMMA NextInv == Inv /\ [Next]_vars => Inv'
<1>. SUFFICES ASSUME Inv, [Next]_vars PROVE Inv'
  OBVIOUS
<1>1. ASSUME NEW s \in Settings, SetOption(s) \/ UnsetOption(s) PROVE Inv'
  <2>1. /\ pc' = "idle" /\ cmd' = cmd
        /\ first_run' = first_run /\ curl' = curl
    BY <1>1 DEF SetOption, UnsetOption
  <2>. QED BY <2>1, OtherSteps DEF Inv
<1>2. ASSUME NEW a \in Apis, Call(a) PROVE Inv'
  <2>1. /\ pc' = "preparing" /\ cmd' = FirstCommand[a]
        /\ first_run' = first_run /\ curl' = curl
    BY <1>2 DEF Call, Start
  <2>. QED BY <2>1, FirstCommandIsCommand, OtherSteps
<1>3. CASE AssumeRole \/ InitAssumeRole
  <2>1. /\ pc' = "preparing" /\ cmd' \in {"ASSUME_ROLE", "LIST_ROLE"}
        /\ first_run' = first_run /\ curl' = curl
    BY <1>3 DEF AssumeRole, InitAssumeRole, Start
  <2>. QED BY <2>1, OtherSteps DEF Commands, RoleCommands
<1>4. ASSUME NEW r \in Refusals, Refuse(r) PROVE Inv'
  <2>1. /\ pc' = pc /\ cmd' = cmd /\ settings' = settings
        /\ first_run' = first_run /\ curl' = curl
    BY <1>4 DEF Refuse, handle
  <2>. QED BY <2>1, OtherSteps DEF Inv
<1>5. CASE UriTooLong
  <2>1. pc' \in {"idle", "preparing"} /\ cmd' \in Commands
    BY <1>5, UnwindLeavesTransfer DEF UriTooLong
  <2>2. first_run' = FALSE
    BY <1>5 DEF UriTooLong
  <2>. QED BY <2>1, <2>2 DEF Inv, AsOnFreshHandle
<1>6. CASE Perform
  BY <1>6, PerformKeepsInv
<1>7. ASSUME NEW s \in StatusCodes, HeadersArrive(s) PROVE Inv'
  <2>1. /\ pc' = pc /\ cmd' = cmd /\ settings' = settings
        /\ first_run' = first_run /\ curl' = curl
    BY <1>7 DEF HeadersArrive, handle
  <2>. QED BY <2>1, OtherSteps DEF Inv
<1>8. ASSUME NEW b \in {"object", "message", "junk"}, BodyArrives(b) PROVE Inv'
  <2>1. /\ pc' = pc /\ cmd' = cmd /\ settings' = settings
        /\ first_run' = first_run /\ curl' = curl
    BY <1>8 DEF BodyArrives, handle
  <2>. QED BY <2>1, OtherSteps DEF Inv
<1>9. CASE CurlFails
  <2>1. /\ pc' \in {"idle", "preparing"} /\ cmd' \in Commands
        /\ first_run' = first_run /\ curl' = curl
    BY <1>9, UnwindLeavesTransfer DEF CurlFails
  <2>. QED BY <2>1, OtherSteps
<1>10. CASE ResponseEnds
  <2>1. /\ pc' \in {"idle", "preparing"} /\ cmd' \in Commands
        /\ first_run' = first_run /\ curl' = curl
    BY <1>10, UnwindLeavesTransfer DEF ResponseEnds
  <2>. QED BY <2>1, OtherSteps
<1>11. CASE NextPage
  <2>1. /\ pc' = "preparing" /\ cmd' = cmd
        /\ first_run' = first_run /\ curl' = curl
    BY <1>11 DEF NextPage
  <2>. QED BY <2>1, OtherSteps DEF Inv
<1>12. CASE RolesEnd
  <2>1. first_run' = first_run /\ curl' = curl
    BY <1>12 DEF RolesEnd
  <2>2. UnwindPastMarker \/ \E r \in Results : Unwind(r)
    BY <1>12 DEF RolesEnd, Results
  <2>3. pc' \in {"idle", "preparing"} /\ cmd' \in Commands
    BY <2>2, UnwindLeavesTransfer DEF UnwindPastMarker, Commands, RoleCommands
  <2>. QED BY <2>1, <2>3, OtherSteps
<1>13. CASE RoleAssumed
  <2>1. first_run' = first_run /\ curl' = curl
    BY <1>13 DEF RoleAssumed
  <2>2. \E r : Unwind(r)
    BY <1>13 DEF RoleAssumed
  <2>3. pc' \in {"idle", "preparing"} /\ cmd' \in Commands
    BY <2>2, UnwindLeavesTransfer
  <2>. QED BY <2>1, <2>3, OtherSteps
<1>14. CASE UNCHANGED vars
  <2>1. /\ pc' = pc /\ cmd' = cmd /\ settings' = settings
        /\ first_run' = first_run /\ curl' = curl
    BY <1>14 DEF vars, handle
  <2>. QED BY <2>1, OtherSteps DEF Inv
<1>. QED BY <1>1, <1>2, <1>3, <1>4, <1>5, <1>6, <1>7, <1>8, <1>9, <1>10,
            <1>11, <1>12, <1>13, <1>14 DEF Next

LEMMA Invariance == Spec => []Inv
BY InitInv, NextInv, PTL DEF Spec
-----------------------------------------------------------------------------
\* Every transfer uses the options that the same call would have on a new
\* handle: curl_easy_reset() and first_run, on all paths of both request
\* functions.
THEOREM FreshOptions == Spec => []AsOnFreshHandle
BY Invariance, PTL DEF Inv

\* The method on the wire is the one of the command, whatever was called
\* before it.
THEOREM RightMethod == Spec => []WireMethod
<1>1. Inv => WireMethod
  <2>. SUFFICES ASSUME Inv, pc = "transferring"
                PROVE  WireMethod
    BY DEF WireMethod
  <2>1. curl = SetOptions(Defaults)
    BY DEF Inv, AsOnFreshHandle
  <2>2. /\ curl.CUSTOMREQUEST = IF cmd \in Sends THEN "PUT"
                                ELSE IF cmd = "DELETE" THEN "DELETE" ELSE "none"
        /\ curl.POSTFIELDS = IF cmd \in Sends THEN cmd ELSE "none"
        /\ curl.NOBODY <=> cmd = "HEAD"
    BY <2>1 DEF SetOptions, Defaults
  <2>. QED BY <2>2 DEF WireMethod, SentMethod, Paged, Sends
<1>. QED BY <1>1, Invariance, PTL

\* Every transfer with a bucket is bounded by the timeouts that are set, and by no
\* others.  (Those for a role are not: EveryTransferBounded is violated.)
THEOREM TimeoutsAreApplied == Spec => []TimeoutApplied
<1>1. Inv => TimeoutApplied
  <2>. SUFFICES ASSUME Inv, pc = "transferring", ~ForRole
                PROVE  TimeoutApplied
    BY DEF TimeoutApplied
  <2>1. curl = SetOptions(Defaults)
    BY DEF Inv, AsOnFreshHandle
  <2>2. /\ curl.TIMEOUT <=> "timeout_ms" \in settings
        /\ curl.CONNECTTIMEOUT <=> "connect_timeout_ms" \in settings
    BY <2>1 DEF SetOptions, Defaults
  <2>. QED BY <2>2 DEF TimeoutApplied
<1>. QED BY <1>1, Invariance, PTL
-----------------------------------------------------------------------------
(***************************************************************************)
(* What a call leaves allocated                                            *)
(***************************************************************************)

Pieces == {"mem", "headers", "cont"}

\* What the runs of execute_request() around the innermost one hold.
Around(d) == Pieces \X (1..(d - 1))

\* What a page of roles that was not followed left behind.
Unfollowed(c) == IF c = "ASSUME_ROLE" THEN {"cont"} \X (1..(MaxDepth - 1)) ELSE {}

\* While a call runs, everything allocated belongs to a frame that is still
\* there, but for the markers of roles; frames are nested for pages only.
HeapInv ==
  /\ cmd \in Commands
  /\ depth \in 0..MaxDepth
  /\ pc \in {"idle", "preparing", "transferring"}
  /\ pc # "idle" =>
       /\ depth >= 1
       /\ cmd \notin Paged => depth = 1
       /\ heap \subseteq Frame(depth) \cup Around(depth) \cup Unfollowed(cmd)
  /\ OnlyOuterPagesLeak

LEMMA FrameIs == \A d : Frame(d) = {<<"mem", d>>, <<"headers", d>>}
BY DEF Frame

\* All frames around the innermost one are released with success, and in the
\* requests of a role with an error as well.
LEMMA OuterIsAll ==
  ASSUME depth \in Nat, NEW r, r = "MS3_ERR_NONE" \/ cmd \in RoleCommands
  PROVE  Around(depth) \subseteq Outer(r)
BY DEF Outer, Around, Frame, Pieces

\* Unwinding leaves the markers, and the outer pages of a list that failed.
LEMMA UnwindKeepsHeapInv ==
  ASSUME HeapInv, pc # "idle", NEW r, Unwind(r), RequestAssumption
  PROVE  HeapInv'
<1>1. /\ depth \in 1..MaxDepth /\ MaxDepth \in Nat \ {0}
      /\ heap \subseteq Frame(depth) \cup Around(depth) \cup Unfollowed(cmd)
      /\ heap' = (heap \ Frame(depth)) \ Outer(r)
      /\ cmd \notin Paged => depth = 1
      /\ cmd \in Commands
  BY RequestAssumption DEF HeapInv, Unwind
<1>2. CASE r = "MS3_ERR_NONE" \/ cmd \in RoleCommands
  <2>1. heap' \subseteq Unfollowed(cmd)
    BY <1>1, <1>2, OuterIsAll
  <2>2. CASE pc' = "idle"
    <3>1. cmd' = cmd /\ depth' = depth /\ res' = r
      BY <2>2 DEF Unwind
    <3>2. cmd = "ASSUME_ROLE" \/ heap' = {}
      BY <2>1 DEF Unfollowed
    <3>3. heap' \subseteq {"cont"} \X (1..(MaxDepth - 1)) \/ heap' = {}
      BY <2>1 DEF Unfollowed
    <3>4. OnlyOuterPagesLeak'
      BY <3>1, <3>2, <3>3 DEF OnlyOuterPagesLeak
    <3>. QED BY <1>1, <2>2, <3>1, <3>4 DEF HeapInv
  <2>3. CASE pc' # "idle"
    <3>1. pc' = "preparing" /\ depth' = 1 /\ cmd' \in {"DELETE", "ASSUME_ROLE"}
      BY <2>3 DEF Unwind
    <3>2. Unfollowed(cmd) \subseteq Unfollowed(cmd')
      BY <2>3 DEF Unwind, Unfollowed
    <3>. QED BY <1>1, <2>1, <3>1, <3>2
             DEF HeapInv, OnlyOuterPagesLeak, Commands, RoleCommands, Paged
  <2>. QED BY <2>2, <2>3
<1>3. CASE r # "MS3_ERR_NONE" /\ cmd \notin RoleCommands
  <2>1. pc' = "idle" /\ cmd' = cmd /\ depth' = depth /\ res' = r
    BY <1>3 DEF Unwind
  <2>2. heap' \subseteq Around(depth)
    BY <1>1, <1>3 DEF Unfollowed, RoleCommands
  <2>3. OnlyOuterPagesLeak'
    <3>1. CASE cmd \in {"LIST", "LIST_RECURSIVE"}
      BY <1>3, <2>1, <2>2, <3>1 DEF OnlyOuterPagesLeak, Around, Pieces
    <3>2. CASE cmd \notin {"LIST", "LIST_RECURSIVE"}
      <4>1. depth = 1
        BY <1>1, <1>3, <3>2 DEF Paged, RoleCommands
      <4>2. heap' = {}
        BY <2>2, <4>1 DEF Around
      <4>. QED BY <4>2, <2>1, <3>2 DEF OnlyOuterPagesLeak
    <3>. QED BY <3>1, <3>2
  <2>. QED BY <1>1, <2>1, <2>3 DEF HeapInv
<1>. QED BY <1>2, <1>3

\* A step of a running call that stays in its frame.
LEMMA SameFrameKeepsHeapInv ==
  ASSUME HeapInv, pc # "idle", pc' \in {"preparing", "transferring"},
         cmd' = cmd, depth' = depth, heap' \subseteq heap \cup Frame(depth)
  PROVE  HeapInv'
<1>1. heap' \subseteq Frame(depth) \cup Around(depth) \cup Unfollowed(cmd)
  BY DEF HeapInv
<1>. QED BY <1>1 DEF HeapInv, OnlyOuterPagesLeak

\* A call begins with nothing allocated.
LEMMA StartMakesHeapInv ==
  ASSUME RequestAssumption, NEW a, NEW c \in Commands, Start(a, c)
  PROVE  HeapInv'
BY DEF Start, HeapInv, OnlyOuterPagesLeak, RequestAssumption

LEMMA InitHeapInv == Init => HeapInv
<1>. SUFFICES ASSUME Init PROVE HeapInv
  OBVIOUS
<1>1. cmd \in Commands
  BY FirstCommandIsCommand DEF Init
<1>. QED BY <1>1, RequestAssumption DEF Init, HeapInv, OnlyOuterPagesLeak

LEMMA NextHeapInv == HeapInv /\ [Next]_vars => HeapInv'
<1>. SUFFICES ASSUME HeapInv, [Next]_vars PROVE HeapInv'
  OBVIOUS
<1>1. ASSUME NEW s \in Settings, SetOption(s) \/ UnsetOption(s) PROVE HeapInv'
  BY <1>1 DEF SetOption, UnsetOption, HeapInv, OnlyOuterPagesLeak
<1>2. CASE \/ \E a \in Apis : Call(a)
           \/ AssumeRole \/ InitAssumeRole
  <2>1. \E a \in Apis \cup {"ms3_assume_role"}, c \in Commands : Start(a, c)
    BY <1>2, FirstCommandIsCommand
       DEF Call, AssumeRole, InitAssumeRole, Commands, RoleCommands
  <2>. QED BY <2>1, StartMakesHeapInv, RequestAssumption
<1>3. ASSUME NEW r \in Refusals, Refuse(r) PROVE HeapInv'
  BY <1>3 DEF Refuse, HeapInv, OnlyOuterPagesLeak
<1>4. CASE UriTooLong \/ CurlFails \/ ResponseEnds \/ RoleAssumed
  <2>1. pc # "idle" /\ \E r : Unwind(r)
    BY <1>4 DEF UriTooLong, CurlFails, ResponseEnds, RoleAssumed
  <2>. QED BY <2>1, UnwindKeepsHeapInv, RequestAssumption
<1>5. CASE Perform
  BY <1>5, SameFrameKeepsHeapInv DEF Perform, Frame
<1>6. ASSUME NEW s \in StatusCodes, HeadersArrive(s) PROVE HeapInv'
  BY <1>6, SameFrameKeepsHeapInv DEF HeadersArrive
<1>7. ASSUME NEW b \in {"object", "message", "junk"}, BodyArrives(b) PROVE HeapInv'
  BY <1>7, SameFrameKeepsHeapInv DEF BodyArrives, Frame
<1>8. CASE NextPage
  <2>1. /\ depth \in 1..(MaxDepth - 1) /\ cmd \in Paged
        /\ heap \subseteq Frame(depth) \cup Around(depth) \cup Unfollowed(cmd)
        /\ heap' = heap \cup {<<"cont", depth>>}
        /\ depth' = depth + 1 /\ pc' = "preparing" /\ cmd' = cmd
    BY <1>8, RequestAssumption DEF NextPage, HeapInv
  <2>2. Frame(depth) \cup {<<"cont", depth>>} \cup Around(depth) \subseteq Around(depth + 1)
    BY <2>1 DEF Frame, Around, Pieces
  <2>3. heap' \subseteq Frame(depth') \cup Around(depth') \cup Unfollowed(cmd')
    BY <2>1, <2>2
  <2>. QED BY <2>1, <2>3, RequestAssumption DEF HeapInv, OnlyOuterPagesLeak
<1>9. CASE RolesEnd
  <2>1. pc # "idle" /\ cmd = "LIST_ROLE"
    BY <1>9 DEF RolesEnd
  <2>2. CASE \E r : Unwind(r)
    BY <2>1, <2>2, UnwindKeepsHeapInv, RequestAssumption
  <2>3. CASE UnwindPastMarker
    <3>1. /\ depth \in 1..(MaxDepth - 1)
          /\ heap \subseteq Frame(depth) \cup Around(depth)
          /\ pc' = "preparing" /\ cmd' = "ASSUME_ROLE" /\ depth' = 1
      BY <2>1, <2>3, RequestAssumption DEF UnwindPastMarker, HeapInv, Unfollowed
    <3>2. Around(depth) \subseteq Outer("MS3_ERR_NONE")
      BY <3>1, OuterIsAll
    <3>3. heap' \subseteq {<<"cont", depth>>}
      BY <2>3, <3>1, <3>2 DEF UnwindPastMarker
    <3>4. heap' \subseteq Unfollowed(cmd')
      BY <3>1, <3>3 DEF Unfollowed
    <3>. QED BY <3>1, <3>4, RequestAssumption
             DEF HeapInv, OnlyOuterPagesLeak, Commands, RoleCommands, Paged
  <2>. QED BY <1>9, <2>2, <2>3 DEF RolesEnd
<1>10. CASE UNCHANGED vars
  BY <1>10 DEF vars, HeapInv, OnlyOuterPagesLeak
<1>. QED BY <1>1, <1>2, <1>3, <1>4, <1>5, <1>6, <1>7, <1>8, <1>9, <1>10 DEF Next

\* A call leaves nothing allocated but the outer pages of a list that failed
\* and the marker of a page of roles that was not followed.
THEOREM LeavesNothingElse == Spec => []OnlyOuterPagesLeak
<1>1. HeapInv => OnlyOuterPagesLeak
  BY DEF HeapInv
<1>. QED BY <1>1, InitHeapInv, NextHeapInv, PTL DEF Spec
-----------------------------------------------------------------------------
(***************************************************************************)
(* Types                                                                   *)
(***************************************************************************)

\* The results that unwinding may hand on.
Returned == Results \ Refusals

LEMMA StatusErrorType == StatusError \in Returned
BY DEF StatusError, Returned, Results, Refusals

\* The options that execute_request() sets are of their types.
LEMMA OptionsType ==
  ASSUME NEW o \in OptionValues
  PROVE  SetOptions(o) \in OptionValues
<1>1. /\ o.CUSTOMREQUEST \in {"none", "PUT", "DELETE"}
      /\ o.POSTFIELDS \in {"none", "PUT", "COPY"}
      /\ o.HEADERDATA \in {"none", "status", "ms3"}
      /\ o.NOBODY \in BOOLEAN /\ o.PORT \in BOOLEAN /\ o.SSL_VERIFY \in BOOLEAN
      /\ o.CONNECTTIMEOUT \in BOOLEAN /\ o.TIMEOUT \in BOOLEAN
  BY DEF OptionValues
<1>. QED BY <1>1 DEF SetOptions, OptionValues, Sends

LEMMA ResetType ==
  ASSUME curl \in OptionValues
  PROVE  Reset \in OptionValues
BY DEF Reset, Defaults, OptionValues

\* Unwinding from a running call keeps the types.
LEMMA UnwindType ==
  ASSUME TypeOK, NEW r \in Returned, Unwind(r), RequestAssumption
  PROVE  /\ pc' \in {"idle", "preparing"} /\ api' \in Apis /\ cmd' \in Commands
         /\ depth' \in 0..MaxDepth
         /\ heap' \subseteq {"mem", "headers", "cont"} \X (1..MaxDepth)
         /\ status' \in StatusCodes \cup {0}
         /\ answer' \in {"none", "object", "message", "junk"}
         /\ mem' \in {"none", "object", "message", "junk"}
         /\ res' \in Results
<1>1. heap' \subseteq {"mem", "headers", "cont"} \X (1..MaxDepth)
  BY DEF Unwind, TypeOK
<1>2. depth' \in 0..MaxDepth
  BY RequestAssumption DEF Unwind, TypeOK
<1>. QED BY <1>1, <1>2
         DEF Unwind, TypeOK, transfer, Returned, Commands, RoleCommands

\* What a call starts with is of the types.
LEMMA StartType ==
  ASSUME TypeOK, NEW a \in Apis, NEW c \in Commands, Start(a, c),
         settings' \subseteq AllSettings, role_arn' \in {"NULL", "empty", "known"},
         data' \in {"NULL", "object", "message", "junk"},
         UNCHANGED <<first_run, curl, res>>, RequestAssumption
  PROVE  TypeOK'
BY DEF TypeOK, Start, Older, RequestAssumption

LEMMA InitTypeOK == Init => TypeOK
<1>. SUFFICES ASSUME Init PROVE TypeOK
  OBVIOUS
<1>1. cmd \in Commands /\ curl \in OptionValues
  BY FirstCommandIsCommand DEF Init, Defaults, OptionValues
<1>. QED BY <1>1, RequestAssumption DEF Init, TypeOK, Results

LEMMA NextTypeOK == TypeOK /\ HeapInv /\ [Next]_vars => TypeOK'
<1>. SUFFICES ASSUME TypeOK, HeapInv, [Next]_vars PROVE TypeOK'
  OBVIOUS
<1>0. pc # "idle" => depth \in 1..MaxDepth
  BY RequestAssumption DEF TypeOK, HeapInv
<1>1. ASSUME NEW s \in Settings, SetOption(s) \/ UnsetOption(s) PROVE TypeOK'
  <2>1. settings' \subseteq AllSettings
    BY <1>1, RequestAssumption DEF SetOption, UnsetOption, TypeOK
  <2>2. UNCHANGED <<pc, api, cmd, depth, role_arn, first_run, curl, transfer,
                    heap, last_error, content_type_in, outputs, res>>
    BY <1>1 DEF SetOption, UnsetOption
  <2>. QED BY <2>1, <2>2 DEF TypeOK, transfer, outputs
<1>2. ASSUME NEW a \in Apis, Call(a) PROVE TypeOK'
  <2>1. data' \in {"NULL", "object", "message", "junk"}
    BY <1>2 DEF Call, TypeOK
  <2>2. FirstCommand[a] \in Commands
    BY FirstCommandIsCommand
  <2>3. /\ Start(a, FirstCommand[a])
        /\ UNCHANGED <<settings, role_arn, first_run, curl, res>>
    BY <1>2 DEF Call, handle
  <2>4. settings' \subseteq AllSettings /\ role_arn' \in {"NULL", "empty", "known"}
    BY <2>3 DEF TypeOK
  <2>. QED BY <2>1, <2>2, <2>3, <2>4, StartType, RequestAssumption
<1>3. CASE AssumeRole \/ InitAssumeRole
  <2>1. \E c \in Commands : Start("ms3_assume_role", c)
    BY <1>3 DEF AssumeRole, InitAssumeRole, Commands, RoleCommands
  <2>2. /\ "ms3_assume_role" \in Apis
        /\ UNCHANGED <<data, first_run, curl, res>>
        /\ settings' \subseteq settings \cup {"iam_role"}
        /\ role_arn' \in {role_arn, "empty"}
    BY <1>3 DEF AssumeRole, InitAssumeRole, handle
  <2>3. settings' \subseteq AllSettings /\ role_arn' \in {"NULL", "empty", "known"}
    BY <2>2 DEF TypeOK, AllSettings
  <2>4. data' \in {"NULL", "object", "message", "junk"}
    BY <2>2 DEF TypeOK
  <2>. QED BY <2>1, <2>2, <2>3, <2>4, StartType, RequestAssumption
<1>4. ASSUME NEW r \in Refusals, Refuse(r) PROVE TypeOK'
  BY <1>4 DEF Refuse, TypeOK, handle, transfer, outputs, Results
<1>5. CASE UriTooLong
  <2>1. "MS3_ERR_URI_TOO_LONG" \in Returned
    BY DEF Returned, Results, Refusals
  <2>2. curl' \in OptionValues
    BY <1>5, ResetType DEF UriTooLong, TypeOK
  <2>. QED BY <1>5, <2>1, <2>2, UnwindType, RequestAssumption
           DEF UriTooLong, TypeOK, handle, outputs
<1>6. CASE Perform
  <2>1. curl' \in OptionValues
    BY <1>6, ResetType, OptionsType DEF Perform, TypeOK
  <2>2. heap' \subseteq {"mem", "headers", "cont"} \X (1..MaxDepth)
    BY <1>6, <1>0 DEF Perform, TypeOK
  <2>. QED BY <1>6, <2>1, <2>2 DEF Perform, TypeOK, handle, outputs
<1>7. ASSUME NEW s \in StatusCodes, HeadersArrive(s) PROVE TypeOK'
  BY <1>7 DEF HeadersArrive, TypeOK, handle, outputs
<1>8. ASSUME NEW b \in {"object", "message", "junk"}, BodyArrives(b) PROVE TypeOK'
  <2>1. heap' \subseteq {"mem", "headers", "cont"} \X (1..MaxDepth)
    BY <1>8, <1>0 DEF BodyArrives, TypeOK
  <2>2. /\ mem' \in {"none", "object", "message", "junk"}
        /\ streamed' \subseteq {"object", "message", "junk"}
    BY <1>8 DEF BodyArrives, TypeOK
  <2>3. /\ answer' = b
        /\ UNCHANGED <<pc, api, cmd, depth, handle, first_run, curl, status,
                       last_error, content_type_in, data, res>>
    BY <1>8 DEF BodyArrives
  <2>. QED BY <2>1, <2>2, <2>3 DEF TypeOK, handle
<1>9. CASE CurlFails
  <2>1. "MS3_ERR_REQUEST_ERROR" \in Returned
    BY DEF Returned, Results, Refusals
  <2>. QED BY <1>9, <2>1, UnwindType, RequestAssumption
           DEF CurlFails, TypeOK, handle, outputs
<1>10. CASE ResponseEnds
  <2>1. /\ last_error' \in {"NULL", "this", "old"}
        /\ data' \in {"NULL", "object", "message", "junk"}
    BY <1>10 DEF ResponseEnds, ErrorMessage, TypeOK
  <2>. QED BY <1>10, <2>1, StatusErrorType, UnwindType, RequestAssumption
           DEF ResponseEnds, TypeOK, handle
<1>11. CASE NextPage
  <2>1. /\ heap' \subseteq {"mem", "headers", "cont"} \X (1..MaxDepth)
        /\ depth' \in 0..MaxDepth
    BY <1>11, <1>0, RequestAssumption DEF NextPage, TypeOK
  <2>. QED BY <1>11, <2>1 DEF NextPage, TypeOK, handle, transfer, outputs
<1>12. CASE RolesEnd
  <2>1. /\ last_error' \in {"NULL", "this", "old"}
        /\ role_arn' \in {"NULL", "empty", "known"}
        /\ UNCHANGED <<settings, first_run, curl, content_type_in, outputs>>
    BY <1>12 DEF RolesEnd, ErrorMessage, TypeOK
  <2>2. CASE \E r \in Returned : Unwind(r)
    BY <2>1, <2>2, UnwindType, RequestAssumption DEF TypeOK, outputs
  <2>3. CASE UnwindPastMarker
    <3>1. heap' \subseteq {"mem", "headers", "cont"} \X (1..MaxDepth)
      <4>1. pc # "idle" /\ depth \in 1..MaxDepth
        BY <1>12, <1>0 DEF RolesEnd
      <4>. QED BY <2>3, <4>1 DEF UnwindPastMarker, TypeOK
    <3>2. 1 \in 0..MaxDepth
      BY RequestAssumption
    <3>. QED BY <2>1, <2>3, <3>1, <3>2
             DEF UnwindPastMarker, TypeOK, outputs, Commands, RoleCommands
  <2>. QED BY <1>12, <2>2, <2>3 DEF RolesEnd, Returned, Results, Refusals
<1>13. CASE RoleAssumed
  <2>1. last_error' \in {"NULL", "this", "old"}
    BY <1>13 DEF RoleAssumed, ErrorMessage, TypeOK
  <2>2. \E r \in Returned : Unwind(r)
    BY <1>13, StatusErrorType DEF RoleAssumed, Returned, Results, Refusals
  <2>. QED BY <1>13, <2>1, <2>2, UnwindType, RequestAssumption
           DEF RoleAssumed, TypeOK, handle, outputs
<1>14. CASE UNCHANGED vars
  BY <1>14 DEF vars, TypeOK, handle, transfer, outputs
<1>. QED BY <1>1, <1>2, <1>3, <1>4, <1>5, <1>6, <1>7, <1>8, <1>9, <1>10,
            <1>11, <1>12, <1>13, <1>14 DEF Next

\* The handle, the curl handle, the answer, the heap and the result keep their
\* types over any calls; a result is always one of the codes that the
\* documentation gives for these functions.
THEOREM TypeCorrect == Spec => []TypeOK
BY InitTypeOK, InitHeapInv, NextTypeOK, NextHeapInv, PTL DEF Spec
-----------------------------------------------------------------------------
(***************************************************************************)
(* What a call tells its caller                                            *)
(***************************************************************************)

\* ms3_get() runs no other command.
GetIsGet == pc # "idle" /\ api = "ms3_get" => cmd = "GET"

\* *data was set to NULL when ms3_get() was entered and is set again only with
\* the result.
NoDataYet ==
  pc # "idle" /\ api = "ms3_get" /\ "read_cb" \notin settings => data = "NULL"

\* A request is prepared at the start of a command or after a page that was
\* answered with 200; so a URI that is too long hides no error of the server.
NoErrorYet == pc = "preparing" => status \in {0, 200}

\* body_callback() keeps the whole body, unless the application takes it.
BodyIsInMem ==
  pc = "transferring" => mem = IF curl.WRITEDATA = "mem" THEN answer ELSE "none"

\* The content type was cleared before the object was asked for.
TypeIsOfGet ==
  pc = "transferring" /\ cmd = "GET" => content_type_in \in {"this", "empty"}

Told == /\ ErrorIsNotData /\ LastErrorIsLatest
        /\ SuccessIsServers /\ ContentTypeOfLastGet

AnswerInv == /\ TypeOK
             /\ GetIsGet /\ NoDataYet /\ NoErrorYet /\ BodyIsInMem /\ TypeIsOfGet
             /\ Told

\* The statuses that are errors, which no option of the handle changes.
Failed(s, c) == s \in {403, 404, 500} \/ (s = 301 /\ c \notin RoleCommands)

LEMMA StatusErrorIs ==
  /\ StatusError # "MS3_ERR_NONE" <=> Failed(status, cmd)
  /\ StatusError' # "MS3_ERR_NONE" <=> Failed(status', cmd')
  /\ StatusError # "MS3_ERR_REQUEST_ERROR"
BY DEF StatusError, Failed

\* Unwinding returns to the caller with the last answer, or goes on to the
\* second command of the call.
LEMMA UnwindCases ==
  ASSUME NEW r, Unwind(r)
  PROVE  /\ api' = api
         /\ \/ /\ pc' = "idle" /\ res' = r /\ cmd' = cmd
               /\ UNCHANGED transfer
               /\ r = "MS3_ERR_NONE" => cmd # "LIST_ROLE"
            \/ /\ pc' = "preparing" /\ cmd # "GET" /\ status' = 0
BY DEF Unwind

\* A step between two calls that changes at most the options, or the result
\* to the one of a call that was refused.
LEMMA IdleStep ==
  ASSUME AnswerInv, TypeOK', pc = "idle",
         UNCHANGED <<pc, api, cmd, curl, transfer, last_error, content_type_in, data>>,
         res' = res \/ res' \in Refusals,
         "read_cb" \in settings => "read_cb" \in settings'
  PROVE  AnswerInv'
<1>1. ErrorIsNotData'
  BY DEF AnswerInv, Told, ErrorIsNotData, Refusals
<1>2. LastErrorIsLatest'
  BY StatusErrorIs DEF AnswerInv, Told, LastErrorIsLatest, transfer, Refusals
<1>3. SuccessIsServers' /\ ContentTypeOfLastGet'
  BY DEF AnswerInv, Told, SuccessIsServers, ContentTypeOfLastGet, transfer, Refusals
<1>. QED BY <1>1, <1>2, <1>3 DEF AnswerInv, Told, GetIsGet, NoDataYet, NoErrorYet,
                                BodyIsInMem, TypeIsOfGet

\* A call begins; nothing is told yet.
LEMMA StartStep ==
  ASSUME AnswerInv, TypeOK', NEW a, NEW c, Start(a, c),
         a = "ms3_get" =>
           c = "GET" /\ ("read_cb" \notin settings' => data' = "NULL")
  PROVE  AnswerInv'
<1>1. content_type_in' # "foreign"
  BY DEF Start, AnswerInv, Told, ContentTypeOfLastGet
<1>. QED BY <1>1 DEF Start, AnswerInv, Told, GetIsGet, NoDataYet, NoErrorYet,
                     BodyIsInMem, TypeIsOfGet, ErrorIsNotData, LastErrorIsLatest,
                     SuccessIsServers, ContentTypeOfLastGet

\* A request ends and the call unwinds with r.  What is left to show of it is
\* what it says about that result.
LEMMA UnwindStep ==
  ASSUME AnswerInv, TypeOK', pc # "idle", NEW r, Unwind(r),
         UNCHANGED <<settings, content_type_in>>,
         r # "MS3_ERR_NONE" \/ cmd # "GET" => data' = data,
         LastErrorIsLatest',
         r = "MS3_ERR_NONE" /\ pc' = "idle" =>
           status \in {200, 302} \/ (status = 301 /\ cmd \in RoleCommands),
         r = "MS3_ERR_NONE" /\ cmd = "GET" => pc = "transferring"
  PROVE  AnswerInv'
<1>1. CASE pc' = "idle"
  <2>1. /\ api' = api /\ cmd' = cmd /\ res' = r
        /\ status' = status
    BY <1>1, UnwindCases DEF transfer
  <2>2. ErrorIsNotData'
    BY <2>1 DEF ErrorIsNotData, AnswerInv, NoDataYet
  <2>3. SuccessIsServers'
    BY <2>1 DEF SuccessIsServers
  <2>4. ContentTypeOfLastGet'
    BY <2>1 DEF ContentTypeOfLastGet, AnswerInv, Told, GetIsGet, TypeIsOfGet
  <2>. QED BY <1>1, <2>2, <2>3, <2>4
           DEF AnswerInv, Told, GetIsGet, NoDataYet, NoErrorYet, BodyIsInMem,
               TypeIsOfGet
<1>2. CASE pc' # "idle"
  <2>1. pc' = "preparing" /\ api' = api /\ cmd # "GET" /\ status' = 0
    BY <1>2, UnwindCases
  <2>2. api # "ms3_get"
    BY <2>1 DEF AnswerInv, GetIsGet
  <2>. QED BY <2>1, <2>2
           DEF AnswerInv, Told, GetIsGet, NoDataYet, NoErrorYet, BodyIsInMem,
               TypeIsOfGet, ErrorIsNotData, SuccessIsServers, ContentTypeOfLastGet
<1>. QED BY <1>1, <1>2

\* An answer whose message was taken over by set_error_nocopy(), or that was
\* no error, leaves the last error as it has to be.
LEMMA ErrorMessageStep ==
  ASSUME AnswerInv, Inv, pc = "transferring", ErrorMessage,
         NEW r, r # "MS3_ERR_REQUEST_ERROR",
         Unwind(r) \/ pc' = "preparing", curl' = curl
  PROVE  LastErrorIsLatest'
<1>. SUFFICES ASSUME pc' = "idle" PROVE LastErrorIsLatest'
  BY DEF LastErrorIsLatest
<1>1. res' = r /\ cmd' = cmd /\ status' = status /\ answer' = answer
  BY UnwindCases DEF transfer
<1>2. StatusError' # "MS3_ERR_NONE" <=> StatusError # "MS3_ERR_NONE"
  BY <1>1, StatusErrorIs
<1>3. mem = "message" <=> answer = "message" /\ curl.WRITEDATA = "mem"
  BY DEF AnswerInv, BodyIsInMem
<1>. QED BY <1>1, <1>2, <1>3 DEF LastErrorIsLatest, ErrorMessage

LEMMA InitAnswerInv == Init => AnswerInv
<1>. SUFFICES ASSUME Init PROVE AnswerInv
  OBVIOUS
<1>1. TypeOK
  BY InitTypeOK
<1>2. StatusError = "MS3_ERR_NONE"
  BY DEF Init, StatusError
<1>. QED BY <1>1, <1>2
         DEF Init, AnswerInv, Told, GetIsGet, NoDataYet, NoErrorYet, BodyIsInMem,
             TypeIsOfGet, ErrorIsNotData, LastErrorIsLatest, SuccessIsServers,
             ContentTypeOfLastGet

LEMMA NextAnswerInv == AnswerInv /\ Inv /\ TypeOK' /\ [Next]_vars => AnswerInv'
<1>. SUFFICES ASSUME AnswerInv, Inv, TypeOK', [Next]_vars PROVE AnswerInv'
  OBVIOUS
<1>1. ASSUME NEW s \in Settings, SetOption(s) \/ UnsetOption(s) PROVE AnswerInv'
  BY <1>1, IdleStep DEF SetOption, UnsetOption, outputs
<1>2. ASSUME NEW a \in Apis, Call(a) PROVE AnswerInv'
  <2>1. a = "ms3_get" =>
          /\ FirstCommand[a] = "GET"
          /\ "read_cb" \notin settings' => data' = "NULL"
    BY <1>2 DEF Call, FirstCommand, handle
  <2>. QED BY <1>2, <2>1, StartStep DEF Call
<1>3. CASE AssumeRole \/ InitAssumeRole
  <2>1. \E c : Start("ms3_assume_role", c)
    BY <1>3 DEF AssumeRole, InitAssumeRole
  <2>. QED BY <2>1, StartStep
<1>4. ASSUME NEW r \in Refusals, Refuse(r) PROVE AnswerInv'
  BY <1>4, IdleStep DEF Refuse, handle, outputs
<1>5. CASE UriTooLong
  <2>1. LastErrorIsLatest'
    <3>. SUFFICES ASSUME pc' = "idle" PROVE LastErrorIsLatest'
      BY DEF LastErrorIsLatest
    <3>1. res' = "MS3_ERR_URI_TOO_LONG" /\ status' = status
      BY <1>5, UnwindCases DEF UriTooLong, transfer
    <3>2. StatusError' = "MS3_ERR_NONE"
      BY <1>5, <3>1, StatusErrorIs DEF UriTooLong, AnswerInv, NoErrorYet, Failed
    <3>. QED BY <3>1, <3>2 DEF LastErrorIsLatest
  <2>. QED BY <1>5, <2>1, UnwindStep DEF UriTooLong, handle, outputs
<1>6. CASE Perform
  <2>1. mem' = "none" /\ answer' = "none" /\ pc' = "transferring"
    BY <1>6 DEF Perform
  <2>2. content_type_in' # "foreign"
    BY <1>6 DEF Perform, AnswerInv, Told, ContentTypeOfLastGet
  <2>3. GetIsGet' /\ NoDataYet' /\ TypeIsOfGet'
    BY <1>6 DEF Perform, handle, outputs, AnswerInv, GetIsGet, NoDataYet, TypeIsOfGet
  <2>. QED BY <2>1, <2>2, <2>3
           DEF AnswerInv, Told, NoErrorYet, BodyIsInMem, ErrorIsNotData,
               LastErrorIsLatest, SuccessIsServers, ContentTypeOfLastGet
<1>7. ASSUME NEW s \in StatusCodes, HeadersArrive(s) PROVE AnswerInv'
  <2>1. curl.HEADERDATA = "ms3" => cmd = "GET"
    BY <1>7 DEF HeadersArrive, Inv, AsOnFreshHandle, SetOptions, Defaults
  <2>2. content_type_in' \in {content_type_in, "this"}
    BY <1>7, <2>1 DEF HeadersArrive
  <2>3. /\ pc = "transferring" /\ pc' = "transferring"
        /\ UNCHANGED <<api, cmd, settings, curl, answer, mem, data>>
    BY <1>7 DEF HeadersArrive, handle, outputs
  <2>4. content_type_in' # "foreign" /\ TypeIsOfGet'
    BY <2>2, <2>3 DEF AnswerInv, Told, ContentTypeOfLastGet, TypeIsOfGet
  <2>. QED BY <2>3, <2>4
           DEF AnswerInv, Told, GetIsGet, NoDataYet, NoErrorYet, BodyIsInMem,
               ErrorIsNotData, LastErrorIsLatest, SuccessIsServers,
               ContentTypeOfLastGet
<1>8. ASSUME NEW b \in {"object", "message", "junk"}, BodyArrives(b)
      PROVE  AnswerInv'
  <2>1. /\ pc = "transferring" /\ pc' = "transferring"
        /\ UNCHANGED <<api, cmd, settings, curl, content_type_in, data>>
    BY <1>8 DEF BodyArrives, handle
  <2>2. curl.WRITEDATA \in {"mem", "read_cb"}
    BY <2>1 DEF Inv, AsOnFreshHandle, SetOptions
  <2>3. BodyIsInMem'
    BY <1>8, <2>1, <2>2 DEF BodyArrives, AnswerInv, BodyIsInMem
  <2>. QED BY <2>1, <2>3
           DEF AnswerInv, Told, GetIsGet, NoDataYet, NoErrorYet, TypeIsOfGet,
               ErrorIsNotData, LastErrorIsLatest, SuccessIsServers,
               ContentTypeOfLastGet
<1>9. CASE CurlFails
  <2>1. LastErrorIsLatest'
    BY <1>9, UnwindCases DEF CurlFails, LastErrorIsLatest
  <2>. QED BY <1>9, <2>1, UnwindStep DEF CurlFails, handle, outputs
<1>10. CASE ResponseEnds
  <2>1. LastErrorIsLatest'
    BY <1>10, ErrorMessageStep, StatusErrorIs DEF ResponseEnds
  <2>2. StatusError = "MS3_ERR_NONE" => status \in {200, 302}
    BY <1>10, StatusErrorIs DEF ResponseEnds, Failed, AnswerInv, TypeOK, StatusCodes
  <2>. QED BY <1>10, <2>1, <2>2, UnwindStep DEF ResponseEnds, handle
<1>11. CASE NextPage
  <2>1. /\ pc' = "preparing" /\ status' = 200 /\ pc = "transferring"
        /\ UNCHANGED <<api, cmd, settings, content_type_in, data>>
    BY <1>11 DEF NextPage, handle, transfer, outputs
  <2>. QED BY <2>1
           DEF AnswerInv, Told, GetIsGet, NoDataYet, NoErrorYet, BodyIsInMem,
               TypeIsOfGet, ErrorIsNotData, LastErrorIsLatest, SuccessIsServers,
               ContentTypeOfLastGet
<1>12. CASE RolesEnd
  <2>1. /\ pc = "transferring" /\ cmd = "LIST_ROLE" /\ ErrorMessage
        /\ UNCHANGED <<settings, curl, content_type_in, data>>
    BY <1>12 DEF RolesEnd, outputs
  <2>2. ASSUME NEW r \in {"MS3_ERR_NONE", "MS3_ERR_NOT_FOUND",
                          "MS3_ERR_RESPONSE_PARSE"}, Unwind(r)
        PROVE  AnswerInv'
    <3>1. LastErrorIsLatest'
      BY <2>1, <2>2, ErrorMessageStep
    <3>2. r = "MS3_ERR_NONE" => pc' # "idle"
      BY <2>1, <2>2, UnwindCases
    <3>. QED BY <2>1, <2>2, <3>1, <3>2, UnwindStep
  <2>3. CASE UnwindPastMarker
    <3>1. pc' = "preparing" /\ api' = api /\ status' = 0
      BY <2>3 DEF UnwindPastMarker
    <3>2. api # "ms3_get"
      BY <2>1 DEF AnswerInv, GetIsGet
    <3>. QED BY <2>1, <3>1, <3>2
             DEF AnswerInv, Told, GetIsGet, NoDataYet, NoErrorYet, BodyIsInMem,
                 TypeIsOfGet, ErrorIsNotData, LastErrorIsLatest, SuccessIsServers,
                 ContentTypeOfLastGet
  <2>. QED BY <1>12, <2>2, <2>3 DEF RolesEnd
<1>13. CASE RoleAssumed
  <2>1. /\ pc = "transferring" /\ cmd = "ASSUME_ROLE" /\ ErrorMessage
        /\ status # 0
        /\ UNCHANGED <<settings, curl, content_type_in, data>>
    BY <1>13 DEF RoleAssumed, handle, outputs
  <2>2. PICK r : /\ Unwind(r) /\ r # "MS3_ERR_REQUEST_ERROR"
                 /\ r = "MS3_ERR_NONE" => StatusError = "MS3_ERR_NONE"
    BY <1>13, StatusErrorIs DEF RoleAssumed
  <2>3. LastErrorIsLatest'
    BY <2>1, <2>2, ErrorMessageStep
  <2>4. StatusError = "MS3_ERR_NONE" => status \in {200, 301, 302}
    BY <2>1, StatusErrorIs DEF Failed, AnswerInv, TypeOK, StatusCodes
  <2>. QED BY <2>1, <2>2, <2>3, <2>4, UnwindStep DEF RoleCommands
<1>14. CASE UNCHANGED vars
  <2>1. UNCHANGED <<pc, api, cmd, settings, curl, status, answer, mem, last_error,
                    content_type_in, data, res>>
    BY <1>14 DEF vars, handle, transfer, outputs
  <2>2. LastErrorIsLatest'
    BY <2>1, StatusErrorIs DEF AnswerInv, Told, LastErrorIsLatest
  <2>. QED BY <2>1, <2>2
           DEF AnswerInv, Told, GetIsGet, NoDataYet, NoErrorYet, BodyIsInMem,
               TypeIsOfGet, ErrorIsNotData, SuccessIsServers, ContentTypeOfLastGet
<1>. QED BY <1>1, <1>2, <1>3, <1>4, <1>5, <1>6, <1>7, <1>8, <1>9, <1>10,
            <1>11, <1>12, <1>13, <1>14 DEF Next

LEMMA AnswersInvariant == Spec => []AnswerInv
<1>1. TypeOK /\ HeapInv /\ Inv /\ AnswerInv /\ [Next]_vars
        => TypeOK' /\ HeapInv' /\ Inv' /\ AnswerInv'
  BY NextTypeOK, NextHeapInv, NextInv, NextAnswerInv
<1>. QED BY <1>1, InitTypeOK, InitHeapInv, InitInv, InitAnswerInv, PTL DEF Spec

\* A failed ms3_get() without a callback hands its caller no data, whatever
\* the server sent with the error and whatever was called on the handle before.
THEOREM FailedGetHasNoData == Spec => []ErrorIsNotData
BY AnswersInvariant, PTL DEF AnswerInv, Told

\* After a failure at the server or in curl, ms3_server_error() is about that
\* request, over any sequence of calls, pages and requests for a role.
THEOREM ErrorIsOfLastRequest == Spec => []LastErrorIsLatest
BY AnswersInvariant, PTL DEF AnswerInv, Told

\* No call returns MS3_ERR_NONE over an error status of its last request; what it
\* may return it over besides success is a redirect that curl did not follow, 301
\* for a role and any other for every command.
THEOREM SuccessIsAnswered == Spec => []SuccessIsServers
BY AnswersInvariant, PTL DEF AnswerInv, Told

\* The content type after a successful ms3_get() is the one of that answer,
\* and the headers of no other command are ever taken for it.
THEOREM ContentTypeIsOfLastGet == Spec => []ContentTypeOfLastGet
BY AnswersInvariant, PTL DEF AnswerInv, Told
-----------------------------------------------------------------------------
(***************************************************************************)
(* What a read callback is given                                           *)
(***************************************************************************)

\* What was streamed is the body of the latest request, which is a GET of a handle
\* with a callback, and then nothing of it is in mem.data.
StreamIsThisAnswer ==
  streamed # {} => /\ pc # "preparing"
                   /\ cmd = "GET" /\ "read_cb" \in settings
                   /\ answer # "none" /\ streamed = {answer} /\ mem = "none"

StreamInv == /\ settings \subseteq Settings \cup {"iam_role"}
             /\ StreamIsThisAnswer

\* A step that leaves the latest request as it is, or goes on to another one.
LEMMA SameStream ==
  ASSUME StreamInv, settings' = settings,
         \/ streamed' = {}
         \/ /\ streamed' = streamed
            /\ \/ cmd' = cmd /\ pc' # "preparing" /\ UNCHANGED <<answer, mem>>
               \/ cmd # "GET"
  PROVE  StreamInv'
BY DEF StreamInv, StreamIsThisAnswer

LEMMA InitStreamInv == Init => StreamInv
BY DEF Init, StreamInv, StreamIsThisAnswer

LEMMA NextStreamInv == StreamInv /\ Inv /\ AnswerInv /\ [Next]_vars => StreamInv'
<1>. SUFFICES ASSUME StreamInv, Inv, AnswerInv, [Next]_vars PROVE StreamInv'
  OBVIOUS
<1>1. ASSUME NEW s \in Settings, SetOption(s) \/ UnsetOption(s) PROVE StreamInv'
  <2>1. /\ UNCHANGED <<pc, cmd, streamed, answer, mem>>
        /\ settings' \subseteq settings \cup {s}
        /\ "read_cb" \in settings => "read_cb" \in settings'
    BY <1>1 DEF SetOption, UnsetOption, transfer, outputs
  <2>. QED BY <2>1 DEF StreamInv, StreamIsThisAnswer
<1>2. ASSUME NEW a \in Apis, Call(a) PROVE StreamInv'
  BY <1>2, SameStream DEF Call, Start, handle
<1>3. CASE AssumeRole \/ InitAssumeRole
  <2>1. streamed' = {} /\ settings' \subseteq settings \cup {"iam_role"}
    BY <1>3 DEF AssumeRole, InitAssumeRole, Start, handle
  <2>. QED BY <2>1 DEF StreamInv, StreamIsThisAnswer
<1>4. ASSUME NEW r \in Refusals, Refuse(r) PROVE StreamInv'
  BY <1>4, SameStream DEF Refuse, handle, transfer, outputs
<1>5. CASE UriTooLong \/ CurlFails \/ ResponseEnds
  <2>1. PICK r : Unwind(r)
    BY <1>5 DEF UriTooLong, CurlFails, ResponseEnds
  <2>2. settings' = settings /\ streamed' = streamed
    BY <1>5 DEF UriTooLong, CurlFails, ResponseEnds, handle, outputs
  <2>. QED BY <2>1, <2>2, UnwindCases, SameStream DEF transfer
<1>6. CASE Perform
  <2>1. streamed = {}
    BY <1>6 DEF Perform, StreamInv, StreamIsThisAnswer
  <2>. QED BY <1>6, <2>1, SameStream DEF Perform, handle, outputs
<1>7. ASSUME NEW s \in StatusCodes, HeadersArrive(s) PROVE StreamInv'
  BY <1>7, SameStream DEF HeadersArrive, handle, outputs
<1>8. ASSUME NEW b \in {"object", "message", "junk"}, BodyArrives(b)
      PROVE  StreamInv'
  <2>1. /\ pc = "transferring" /\ pc' = pc /\ answer = "none"
        /\ UNCHANGED <<cmd, settings>>
    BY <1>8 DEF BodyArrives, handle
  <2>2. curl.WRITEDATA = "read_cb" => cmd = "GET" /\ "read_cb" \in settings
    BY <2>1 DEF Inv, AsOnFreshHandle, SetOptions
  <2>3. streamed = {} /\ mem = "none"
    BY <2>1 DEF StreamInv, StreamIsThisAnswer, AnswerInv, BodyIsInMem
  <2>. QED BY <1>8, <2>1, <2>2, <2>3 DEF BodyArrives, StreamInv, StreamIsThisAnswer
<1>9. CASE NextPage
  BY <1>9, SameStream DEF NextPage, Paged, handle, outputs
<1>10. CASE RolesEnd \/ RoleAssumed
  <2>1. cmd # "GET" /\ settings' = settings /\ streamed' = streamed
    BY <1>10 DEF RolesEnd, RoleAssumed, handle, outputs
  <2>. QED BY <2>1, SameStream
<1>11. CASE UNCHANGED vars
  BY <1>11, SameStream DEF vars, handle, transfer, outputs, StreamInv,
                           StreamIsThisAnswer
<1>. QED BY <1>1, <1>2, <1>3, <1>4, <1>5, <1>6, <1>7, <1>8, <1>9, <1>10, <1>11
         DEF Next

LEMMA StreamInvariant == Spec => []StreamInv
BY InitStreamInv, NextStreamInv, Invariance, AnswersInvariant, PTL DEF Spec

\* A callback is given the body of one request only, the GET that it was set for:
\* no body of another command, of a role's request or of an earlier call.
THEOREM OneAnswerIsStreamed == Spec => []StreamIsThisAnswer
BY StreamInvariant, PTL DEF StreamInv
=============================================================================
