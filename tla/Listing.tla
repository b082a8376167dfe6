------------------------------- MODULE Listing -------------------------------
(***************************************************************************)
(* The paged listing of a bucket: ms3_list() / ms3_list_dir() call         *)
(* execute_request(), which asks the server for a page, hands the body to  *)
(* parse_list_response() and calls itself with the continuation that the   *)
(* page produced, while other clients write to the same bucket.            *)
(*                                                                         *)
(* A listed entry is a number; the order of numbers is the order of keys.  *)
(* Kind says what the server sends for it: "file", an object; "marker", an *)
(* object whose key ends in '/'; "prefix", a group of keys rolled up at    *)
(* the delimiter, which only MS3_CMD_LIST asks for.  A list, the one the   *)
(* client builds and the one its caller gets, tells how often each name is *)
(* in it: never, once (1) or more than once (2).                           *)
(*                                                                         *)
(* An operator named after another one, as Op_Change, is Op with a bug; it *)
(* is used only to see that the properties notice such a bug.              *)
(***************************************************************************)
EXTENDS Naturals, FiniteSets

CONSTANTS MaxName,     \* names are 1..MaxName
          Kind,        \* what the server sends for each name
          Versions,    \* list API versions the handle may be set to
          PageSizes,   \* sizes a truncated page may have
          MaxWrites,   \* bound on the writes of other clients
          Unparsable   \* can a 200 answer carry no readable XML?

Names == 1..MaxName
NULL == 0

ASSUME ListingAssumption ==
  /\ MaxName \in Nat
  /\ Kind \in [Names -> {"file", "marker", "prefix"}]
  /\ Versions \subseteq {1, 2}
  /\ PageSizes \subseteq Nat \ {0}
  /\ MaxWrites \in Nat
  /\ Unparsable \in BOOLEAN

Commands == {"MS3_CMD_LIST", "MS3_CMD_LIST_RECURSIVE"}
ErrorStatus == {"MS3_ERR_ENDPOINT", "MS3_ERR_NOT_FOUND", "MS3_ERR_AUTH",
                "MS3_ERR_SERVER", "MS3_ERR_AUTH_ROLE"}
Failures == ErrorStatus \cup {"MS3_ERR_URI_TOO_LONG", "MS3_ERR_REQUEST_ERROR"}

VARIABLES bucket,        \* names the server holds
          writes,        \* writes done by other clients, at most MaxWrites
          always, ever,  \* history: in the bucket throughout / at some time of the call
          exact,         \* history: every answer of the call was readable, and every
                         \* page but the last one ended where the next one begins
          pc,            \* "idle", or "request": a page is being asked for
          cmd,
          list_version,
          continuation,  \* argument of execute_request(): NULL, marker or token
          container,     \* ms3->list_container: copies of each name
          list,          \* the caller's *list
          res

vars == <<bucket, writes, always, ever, exact, pc, cmd, list_version,
          continuation, container, list, res>>
server == <<bucket, writes, always, ever>>

NoEntries == [n \in Names |-> 0]

Init == /\ bucket \in SUBSET Names
        /\ writes = 0
        /\ always = {} /\ ever = {} /\ exact = TRUE
        /\ pc = "idle"
        /\ cmd = "MS3_CMD_LIST" /\ list_version \in Versions
        /\ continuation = NULL
        /\ container = NoEntries /\ list = NoEntries
        /\ res = "MS3_ERR_NONE"
-----------------------------------------------------------------------------
(***************************************************************************)
(* The server.                                                             *)
(***************************************************************************)

\* The names a command lists: the delimiter rolls keys up into prefixes.
Listable(c) == {n \in Names : c = "MS3_CMD_LIST" \/ Kind[n] # "prefix"}

\* What is left to send after a marker or token.
Remaining(after) == {n \in bucket \cap Listable(cmd) : n > after}

\* The next page starts right after the marker, has no gaps, and is full or
\* the last one.
IsPage(P, after) ==
  /\ P \subseteq Remaining(after)
  /\ \A n \in P, k \in Remaining(after) \ P : n < k
  /\ P = Remaining(after) \/ Cardinality(P) \in PageSizes

Truncated(P, after) == P # Remaining(after)

PutObject(n) == /\ writes < MaxWrites
                /\ n \notin bucket
                /\ bucket' = bucket \cup {n}
                /\ ever' = ever \cup {n}
                /\ writes' = writes + 1
                /\ UNCHANGED <<always, exact, pc, cmd, list_version,
                               continuation, container, list, res>>

DeleteObject(n) == /\ writes < MaxWrites
                   /\ n \in bucket
                   /\ bucket' = bucket \ {n}
                   /\ always' = always \ {n}
                   /\ writes' = writes + 1
                   /\ UNCHANGED <<ever, exact, pc, cmd, list_version,
                                  continuation, container, list, res>>
-----------------------------------------------------------------------------
(***************************************************************************)
(* parse_list_response()                                                   *)
(***************************************************************************)

\* A Contents entry whose key ends in '/' is skipped.
Kept(P) == {n \in P : Kind[n] # "marker"}

\* Keys that can become last_key: Contents that were not skipped.
Keys(P) == {n \in P : Kind[n] = "file"}

IsLast(n, S) == n \in S /\ \A k \in S : k <= n

\* The server's token stands for the end of the page; so does the marker of
\* version 1 if the last entry of the page is one that can become last_key.
ContinuesAtItsEnd(P) == list_version = 1 => \E k \in Keys(P) : IsLast(k, P)

AddTo(l, S) == [n \in Names |-> IF n \notin S THEN l[n]
                                ELSE IF l[n] = 0 THEN 1 ELSE 2]

\* The marker's rule used for both versions.
ContinuationIs_MarkerOnly(P, truncated, c) ==
  IF truncated /\ Keys(P) # {} THEN IsLast(c, Keys(P)) ELSE c = NULL

\* A page without keys is followed by a request with the old marker.
ContinuationIs_Stale(P, truncated, c) ==
  IF truncated /\ Keys(P) # {} THEN IsLast(c, Keys(P))
  ELSE c = IF truncated THEN continuation ELSE NULL

\* *continuation for a page: the server's NextContinuationToken, and for
\* list version 1 last_key when IsTruncated is "true".  c = NULL: none.
ContinuationIs(P, truncated, c) ==
  CASE list_version = 2 /\ truncated -> IsLast(c, P)
    [] list_version = 1 /\ truncated /\ Keys(P) # {} -> IsLast(c, Keys(P))
    [] OTHER -> c = NULL
-----------------------------------------------------------------------------
(***************************************************************************)
(* ms3_list(), ms3_list_dir() and the list branches of execute_request()   *)
(***************************************************************************)

\* The list of the previous call is not released.
ListFree_Forgotten == UNCHANGED container

ListFree == container' = NoEntries

\* The call, up to the first curl_easy_perform().
ListCall(c, v) == /\ pc = "idle"
                  /\ pc' = "request"
                  /\ cmd' = c /\ list_version' = v
                  /\ continuation' = NULL
                  /\ ListFree
                  /\ list' = NoEntries
                  /\ always' = bucket /\ ever' = bucket /\ exact' = TRUE
                  /\ UNCHANGED <<bucket, writes, res>>

\* Every execute_request() in the recursion returns r, the innermost first;
\* then ms3_list() hands the container to its caller.
Return(r) == /\ pc' = "idle"
             /\ res' = r
             /\ list' = container'
             /\ UNCHANGED <<server, cmd, list_version, continuation>>

\* A page arrives with status 200 and is parsed.
PageArrives(P) ==
  /\ pc = "request"
  /\ IsPage(P, continuation)
  /\ container' = AddTo(container, Kept(P))
  /\ exact' = (exact /\ (Truncated(P, continuation) => ContinuesAtItsEnd(P)))
  /\ \E c \in 0..MaxName :
       /\ ContinuationIs(P, Truncated(P, continuation), c)
       /\ \/ /\ c = NULL
             /\ Return("MS3_ERR_NONE")
          \/ /\ c # NULL
             /\ continuation' = c
             /\ UNCHANGED <<server, pc, cmd, list_version, list, res>>

\* A 200 answer with an empty or unreadable body: parse_list_response()
\* leaves the list as it is and its return value is dropped.
PageUnparsable == /\ Unparsable
                  /\ pc = "request"
                  /\ UNCHANGED container
                  /\ exact' = FALSE
                  /\ Return("MS3_ERR_NONE")

\* The list case falls through to the default of the switch.
PageFails_NoBreak(r) == /\ pc = "request"
                        /\ UNCHANGED <<container, exact>>
                        /\ Return("MS3_ERR_IMPOSSIBLE")

\* A failed listing is started again, as often as it fails.
PageFails_Retries(r) == /\ pc = "request"
                        /\ ListFree
                        /\ continuation' = NULL
                        /\ UNCHANGED <<server, exact, pc, cmd, list_version,
                                       list, res>>

\* The URI of this page is too long, the transfer fails, or the server
\* answers with an error status, whose body holds no list elements.
PageFails(r) == /\ pc = "request"
                /\ UNCHANGED <<container, exact>>
                /\ Return(r)

Answer == \/ \E P \in SUBSET Names : PageArrives(P)
          \/ PageUnparsable
          \/ \E r \in Failures : PageFails(r)

OtherClients == \E n \in Names : PutObject(n) \/ DeleteObject(n)

Next == \/ \E c \in Commands, v \in Versions : ListCall(c, v)
        \/ Answer
        \/ OtherClients

Spec == Init /\ [][Next]_vars

\* A pending transfer ends: with an answer, or with an error of curl.
FairSpec == Spec /\ WF_vars(Answer)
-----------------------------------------------------------------------------
(***************************************************************************)
(* Properties                                                              *)
(***************************************************************************)

\* What a command is to report: objects, and for ms3_list_dir() the
\* directories; "markers" stand for directories and are left out.
ReportedBy == [c \in Commands |-> Kept(Listable(c))]

TypeOK == /\ bucket \subseteq Names
          /\ writes \in 0..MaxWrites
          /\ always \subseteq Names /\ ever \subseteq Names /\ exact \in BOOLEAN
          /\ pc \in {"idle", "request"}
          /\ cmd \in Commands /\ list_version \in {1, 2}
          /\ continuation \in 0..MaxName
          /\ container \in [Names -> 0..2] /\ list \in [Names -> 0..2]
          /\ res \in Failures \cup {"MS3_ERR_NONE"}

\* When a list call has returned success, every entry that was in the bucket
\* for the whole call is in the caller's list, however many pages it took
\* and whatever other clients wrote between two pages.
ListComplete ==
  pc = "idle" /\ res = "MS3_ERR_NONE" =>
    \A n \in always \cap ReportedBy[cmd] : list[n] >= 1

\* The same for the calls whose answers could all be read and whose pages all
\* ended where the next one began: each call of list version 2, and those of
\* version 1 in which no page but the last one ended with a prefix or marker.
ListCompleteIfExact == exact => ListComplete

\* In those calls the list under construction never holds an entry twice: the
\* marker or token of each request starts the next page after everything kept
\* so far.
NoDuplicates == exact => \A n \in Names : container[n] <= 1

\* Nothing from an earlier listing and nothing invented: whatever the list
\* holds, also after a failed call, was in the bucket during this call.
ListTruthful == \A n \in Names :
                  container[n] > 0 => n \in ever \cap ReportedBy[cmd]

\* Each further page is asked for with a marker or token beyond the last one,
\* also after a page of which nothing was kept, so that no page is asked for
\* twice and the recursion ends.  (The steps that leave the bucket as it is are
\* the client's own.)
MarkerAdvances ==
  [][pc = "request" /\ pc' = "request" /\ bucket' = bucket
       => continuation' > continuation]_vars

\* A call returns, with success or without, whatever the server answers.
ListReturns == pc = "request" ~> pc = "idle"

Promise == INSTANCE ListingSpec
             WITH Reported <- ReportedBy,
                  calling <- IF pc = "idle" THEN "none" ELSE cmd

\* The paged listing implements what ListingSpec promises.
KeepsPromise == Promise!Spec
=============================================================================
