-------------------------------- MODULE Move --------------------------------
(***************************************************************************)
(* ms3_move() and ms3_copy() on a store that several clients use: a move   *)
(* is a COPY request and, if that succeeded, a DELETE request.  The server *)
(* executes each request in one step; between the two other clients read   *)
(* and write the same objects, and a client may stop waiting for an answer *)
(* whether the request has been executed, never will be, or is going to be *)
(* when the client has long gone on to something else.                     *)
(*                                                                         *)
(* The object of a request is named by its path, which generate_path()     *)
(* puts together from the parts of the key between slashes; empty parts    *)
(* are dropped, so that "a//b", "/a/b" and "a/b/" give the path of "a/b".  *)
(* Only the source of a COPY is named by its key, in a header.             *)
(*                                                                         *)
(* An operator named after another one, as Op_Change, is Op with a bug; it *)
(* is used only to see that the properties notice such a bug.              *)
(***************************************************************************)
EXTENDS Naturals

CONSTANTS Clients,    \* handles, each used by one thread
          Keys,       \* objects: a bucket and a key
          Path,       \* for each key, the object that its path addresses
          Contents,   \* what an object can hold
          MaxCalls    \* bound on the calls of all clients

NONE == "none"        \* no such object

ASSUME MoveAssumption == /\ NONE \notin Contents \cup Clients
                         /\ MaxCalls \in Nat
                         /\ Path \in [Keys -> Keys]
                         /\ \A k \in Keys : Path[Path[k]] = Path[k]

Errors == {"MS3_ERR_URI_TOO_LONG", "MS3_ERR_REQUEST_ERROR", "MS3_ERR_AUTH",
           "MS3_ERR_NOT_FOUND", "MS3_ERR_SERVER"}

VARIABLES store,     \* the object of each key
          calls,     \* calls begun
          pc,        \* "idle", or the command of the request in progress
          moving,    \* is the call ms3_move()?
          src, dst,  \* the source, and the object that the COPY writes
          answer,    \* status of the answer, 0 until there is one; 200 stands for
                     \* each status below 400 but 301
          copied,    \* history: what the COPY of the latest call copied
          raced,     \* history: source or destination changed since that COPY
          late,      \* history: has a request of the call failed although the
                     \* status of its answer passes for success?
          deleted,   \* history: has the call's DELETE been executed?
          delayed,   \* requests given up by their client and still to execute
          res        \* what the latest call returned

vars == <<store, calls, pc, moving, src, dst, answer, copied, raced, late,
          deleted, delayed, res>>
call == <<moving, src, dst>>

Init == /\ store \in [Keys -> Contents \cup {NONE}]
        /\ calls = 0
        /\ pc = [c \in Clients |-> "idle"]
        /\ moving = [c \in Clients |-> FALSE]
        /\ src \in {[c \in Clients |-> k] : k \in Keys}
        /\ dst = src
        /\ answer = [c \in Clients |-> 0]
        /\ copied = [c \in Clients |-> NONE]
        /\ raced = [c \in Clients |-> FALSE]
        /\ late = [c \in Clients |-> FALSE]
        /\ deleted = [c \in Clients |-> FALSE]
        /\ delayed = {}
        /\ res = [c \in Clients |-> "MS3_ERR_NONE"]
-----------------------------------------------------------------------------
(***************************************************************************)
(* The client                                                              *)
(***************************************************************************)

\* ms3_copy() and ms3_move() send the same request first.
Call(c, m, s, d) ==
  /\ calls < MaxCalls
  /\ pc[c] = "idle"
  /\ calls' = calls + 1
  /\ pc' = [pc EXCEPT ![c] = "COPY"]
  /\ moving' = [moving EXCEPT ![c] = m]
  /\ src' = [src EXCEPT ![c] = s] /\ dst' = [dst EXCEPT ![c] = Path[d]]
  /\ answer' = [answer EXCEPT ![c] = 0]
  /\ copied' = [copied EXCEPT ![c] = NONE]
  /\ raced' = [raced EXCEPT ![c] = FALSE]
  /\ late' = [late EXCEPT ![c] = FALSE]
  /\ deleted' = [deleted EXCEPT ![c] = FALSE]
  /\ UNCHANGED <<store, delayed, res>>

Return(c, r) == /\ pc' = [pc EXCEPT ![c] = "idle"]
                /\ res' = [res EXCEPT ![c] = r]
                /\ UNCHANGED <<store, calls, call, answer, copied, raced, late,
                               deleted>>

\* res for the status of an answer.
Result(status) == CASE status = 200 -> "MS3_ERR_NONE"
                    [] status = 403 -> "MS3_ERR_AUTH"
                    [] status = 404 -> "MS3_ERR_NOT_FOUND"
                    [] OTHER -> "MS3_ERR_SERVER"

\* The test of ms3_copy()'s result is forgotten.
GoesOn_Always(c) == pc[c] = "COPY" /\ moving[c]

\* The test is inverted.
GoesOn_Inverted(c) == pc[c] = "COPY" /\ moving[c] /\ answer[c] # 200

\* ms3_move() goes on after a COPY whose status is a success; the body of
\* the answer is not looked at.
GoesOn(c) == pc[c] = "COPY" /\ moving[c] /\ answer[c] = 200

\* The answer of the server arrives.
Answered(c) ==
  /\ pc[c] # "idle" /\ answer[c] # 0
  /\ \/ /\ GoesOn(c)
        /\ pc' = [pc EXCEPT ![c] = "DELETE"]
        /\ answer' = [answer EXCEPT ![c] = 0]
        /\ UNCHANGED <<store, calls, call, copied, raced, late, deleted, delayed, res>>
     \/ /\ ~GoesOn(c)
        /\ Return(c, Result(answer[c]))
        /\ UNCHANGED delayed

Request(c) == [cmd |-> pc[c], src |-> src[c], dst |-> dst[c]]

\* No answer arrives: the request was lost, or its answer, or it took longer
\* than the timeout and is still on its way.
GivesUp(c) == /\ pc[c] # "idle"
              /\ Return(c, "MS3_ERR_REQUEST_ERROR")
              /\ \/ UNCHANGED delayed
                 \/ answer[c] = 0 /\ delayed' = delayed \cup {Request(c)}

\* Nothing is sent for a key that does not fit into a URI.
NotSent(c) == /\ pc[c] # "idle" /\ answer[c] = 0
              /\ Return(c, "MS3_ERR_URI_TOO_LONG")
              /\ UNCHANGED delayed
-----------------------------------------------------------------------------
(***************************************************************************)
(* The server                                                              *)
(***************************************************************************)

\* Key k gets contents v; calls whose COPY has been executed notice.
Write(k, v, self) ==
  /\ store' = [store EXCEPT ![k] = v]
  /\ raced' = [c \in Clients |-> raced[c] \/ (/\ c # self
                                             /\ copied[c] # NONE
                                             /\ k \in {src[c], dst[c]})]

\* A copy of an object onto itself is refused.
ExecutesCopy(c) ==
  /\ pc[c] = "COPY" /\ answer[c] = 0
  /\ store[src[c]] # NONE /\ src[c] # dst[c]
  /\ Write(dst[c], store[src[c]], c)
  /\ copied' = [copied EXCEPT ![c] = store[src[c]]]
  /\ answer' = [answer EXCEPT ![c] = 200]
  /\ UNCHANGED <<calls, pc, call, late, deleted, delayed, res>>

\* The destination is deleted instead of the source.
Deleted_Destination(c) == dst[c]

\* The object that the path of the DELETE addresses.
Deleted(c) == Path[src[c]]

\* Deleting an object that does not exist succeeds.
ExecutesDelete(c) ==
  /\ pc[c] = "DELETE" /\ answer[c] = 0
  /\ Write(Deleted(c), NONE, c)
  /\ deleted' = [deleted EXCEPT ![c] = TRUE]
  /\ answer' = [answer EXCEPT ![c] = 200]
  /\ UNCHANGED <<calls, pc, call, copied, late, delayed, res>>

Answers(c, status) ==
  /\ answer' = [answer EXCEPT ![c] = status]
  /\ UNCHANGED <<store, calls, pc, call, copied, raced, deleted, delayed, res>>

\* The server refuses a request, or does not find the source.
Refuses(c) ==
  /\ pc[c] # "idle" /\ answer[c] = 0
  /\ UNCHANGED late
  /\ \/ \E status \in {403, 500} : Answers(c, status)
     \/ pc[c] = "COPY" /\ store[src[c]] = NONE /\ Answers(c, 404)

\* A request is not executed, yet its status passes for success: a COPY that
\* fails after the status was sent has its error in the body, and a server may
\* send the client elsewhere with a redirect that it does not follow.
FailsLate(c) == /\ pc[c] # "idle" /\ answer[c] = 0
                /\ pc[c] = "COPY" => store[src[c]] # NONE /\ src[c] # dst[c]
                /\ late' = [late EXCEPT ![c] = TRUE]
                /\ Answers(c, 200)

\* A request is executed after its client gave it up.
ExecutesDelayed(q) ==
  /\ delayed' = delayed \ {q}
  /\ \/ /\ q.cmd = "COPY"
        /\ store[q.src] # NONE /\ q.src # q.dst
        /\ Write(q.dst, store[q.src], NONE)
     \/ /\ q.cmd = "DELETE"
        /\ Write(Path[q.src], NONE, NONE)
  /\ UNCHANGED <<calls, pc, call, answer, copied, late, deleted, res>>

\* Another client puts an object.
OtherPut(k, v) == /\ calls < MaxCalls
                  /\ calls' = calls + 1
                  /\ store[k] # v
                  /\ Write(k, v, NONE)
                  /\ UNCHANGED <<pc, call, answer, copied, late, deleted, delayed, res>>

Client(c) == \/ \E m \in BOOLEAN, s, d \in Keys : Call(c, m, s, d)
             \/ Answered(c) \/ GivesUp(c) \/ NotSent(c)

Server(c) == ExecutesCopy(c) \/ ExecutesDelete(c) \/ Refuses(c) \/ FailsLate(c)

Next == \/ \E c \in Clients : Client(c) \/ Server(c)
        \/ \E q \in delayed : ExecutesDelayed(q)
        \/ \E k \in Keys, v \in Contents : OtherPut(k, v)

Spec == Init /\ [][Next]_vars
-----------------------------------------------------------------------------
(***************************************************************************)
(* Properties                                                              *)
(***************************************************************************)

TypeOK == /\ store \in [Keys -> Contents \cup {NONE}]
          /\ calls \in 0..MaxCalls
          /\ pc \in [Clients -> {"idle", "COPY", "DELETE"}]
          /\ moving \in [Clients -> BOOLEAN]
          /\ src \in [Clients -> Keys] /\ dst \in [Clients -> Keys]
          /\ answer \in [Clients -> {0, 200, 403, 404, 500}]
          /\ copied \in [Clients -> Contents \cup {NONE}]
          /\ raced \in [Clients -> BOOLEAN]
          /\ late \in [Clients -> BOOLEAN]
          /\ deleted \in [Clients -> BOOLEAN]
          /\ delayed \subseteq [cmd : {"COPY", "DELETE"}, src : Keys, dst : Keys]
          /\ res \in [Clients -> Errors \cup {"MS3_ERR_NONE"}]

\* The source of the call is the object that its path addresses.
Canonical(c) == Path[src[c]] = src[c]

\* However the calls of several clients interleave, whichever request or
\* answer is lost and however the call ends: what a COPY put at its
\* destination stays there, unless someone else wrote there or to the source,
\* or a request did that was given up before.
CopyStays ==
  \A c \in Clients :
    copied[c] # NONE /\ ~raced[c] /\ Canonical(c) => store[dst[c]] = copied[c]

\* A DELETE takes away an object only if a copy of it stays, or else the
\* object or its copy was changed by another request since the COPY, or the
\* server gave the failure of the COPY the status of a success.
DeleteLeavesCopy ==
  [][\A c \in Clients :
       /\ deleted'[c] /\ ~deleted[c]
       /\ ~raced[c] /\ ~late[c] /\ Canonical(c)
       => \E k \in Keys \ {src[c]} : store'[k] = store[src[c]]]_vars

\* A move that returned success has done both steps: its destination got
\* what the source had, and the source is gone, unless others wrote to one of
\* them meanwhile or the server gave a failure the status of a success.
SuccessMeansMoved ==
  \A c \in Clients :
    /\ pc[c] = "idle" /\ moving[c] /\ res[c] = "MS3_ERR_NONE"
    /\ ~raced[c] /\ ~late[c] /\ Canonical(c)
    => copied[c] # NONE /\ store[dst[c]] = copied[c] /\ store[src[c]] = NONE

\* The documentation of ms3_move(): the DELETE is performed if the COPY was
\* successful.
DeleteOnlyCopied == \A c \in Clients : deleted[c] => copied[c] # NONE

\* The documentation of ms3_move(): what is deleted is the source object.
DeletesItsSource ==
  \A c \in Clients :
    deleted[c] /\ copied[c] # NONE /\ ~raced[c] => store[src[c]] = NONE
=============================================================================
