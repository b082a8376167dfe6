----------------------------- MODULE ListingSpec -----------------------------
(***************************************************************************)
(* What ms3_list() and ms3_list_dir() promise their caller while other     *)
(* clients keep writing to the bucket: a call that returns MS3_ERR_NONE    *)
(* reports, once each, every entry that stayed in the bucket for the whole *)
(* call, and nothing that was not in the bucket at some time of the call.  *)
(* A call that fails may report a part of that, never more.  An answer     *)
(* that the client cannot go on from may spoil a call; of a spoiled call   *)
(* the caller knows only that what is listed was in the bucket.  Pages,    *)
(* markers and tokens do not appear here; module Listing has them, says    *)
(* which answers spoil a call, and is shown to implement this              *)
(* specification.                                                          *)
(***************************************************************************)
EXTENDS Naturals

CONSTANTS Names,      \* the entries a bucket can list
          Commands,   \* the two list commands
          Reported    \* Reported[c]: the names that command c is to report

VARIABLES bucket,     \* the names the server holds now
          calling,    \* the command in progress, or "none"
          always,     \* names in the bucket ever since the latest call began
          ever,       \* names in the bucket at some time since then
          exact,      \* no answer has spoiled the latest call
          list,       \* the caller's *list: how often it holds each name
          res         \* what the latest finished call returned

vars == <<bucket, calling, always, ever, exact, list, res>>

NoEntries == [n \in Names |-> 0]

Init == /\ bucket \in SUBSET Names
        /\ calling = "none"
        /\ always = {} /\ ever = {} /\ exact = TRUE
        /\ list = NoEntries
        /\ res = "MS3_ERR_NONE"

\* Another client adds or removes an object.
Put(n) == /\ bucket' = bucket \cup {n}
          /\ ever' = ever \cup {n}
          /\ UNCHANGED <<calling, always, exact, list, res>>

Delete(n) == /\ bucket' = bucket \ {n}
             /\ always' = always \ {n}
             /\ UNCHANGED <<calling, ever, exact, list, res>>

\* A call begins by releasing the list that earlier calls returned.
Call(c) == /\ calling = "none"
           /\ calling' = c
           /\ always' = bucket /\ ever' = bucket /\ exact' = TRUE
           /\ list' = NoEntries
           /\ UNCHANGED <<bucket, res>>

\* An answer comes that the client cannot go on from.
Spoil == /\ calling # "none"
         /\ exact' = FALSE
         /\ UNCHANGED <<bucket, calling, always, ever, list, res>>

\* Every name in the list was in the bucket, 2 standing for more than once.
Truthful(l) == /\ l \in [Names -> 0..2]
               /\ \A n \in Names :
                     l[n] > 0 => n \in ever /\ n \in Reported[calling]

NoneTwice(l) == \A n \in Names : l[n] <= 1

Covers(l) == \A n \in always \cap Reported[calling] : l[n] >= 1

Return == /\ calling # "none"
          /\ calling' = "none"
          /\ exact' \in {exact, FALSE}
          /\ Truthful(list')
          /\ exact' => NoneTwice(list')
          /\ exact' /\ res' = "MS3_ERR_NONE" => Covers(list')
          /\ UNCHANGED <<bucket, always, ever>>

Next == \/ \E n \in Names : Put(n) \/ Delete(n)
        \/ \E c \in Commands : Call(c)
        \/ Spoil
        \/ Return

Spec == Init /\ [][Next]_vars
=============================================================================
