----------------------------- MODULE RoleSession -----------------------------
(***************************************************************************)
(* What an application may count on when a handle takes on a role: what    *)
(* the handle holds is one set of credentials, and renewing it is all or   *)
(* nothing.  There are two exceptions: after MS3_ERR_AUTH_ROLE what is     *)
(* held may be unusable, and so it may, without an error, when the server  *)
(* gave less than a whole set.  Module RoleCredentials has the three       *)
(* buffers, the requests and their answers.                                *)
(***************************************************************************)
CONSTANTS Sets,   \* the sets of credentials that a server can issue
          Codes   \* the results of the calls

VARIABLES held,   \* "NULL", "empty", one of Sets, or "mixed"
          whole,  \* whether the latest set that was given was a whole one
          res     \* the result of the latest call

Held == Sets \cup {"NULL", "empty", "mixed"}

Init == held = "NULL" /\ whole = TRUE /\ res = "MS3_ERR_NONE"

\* A new set replaces what was held.
Obtain(s) == held' = s /\ whole' = TRUE /\ res' = "MS3_ERR_NONE"

\* The handle is made ready for a role, which it does not have yet.
Prepare == held' = "empty" /\ UNCHANGED <<whole, res>>

\* A call changes nothing, whatever it returns.
Keep(r) == UNCHANGED <<held, whole>> /\ res' = r

\* A call that says so, or one that got less than a whole set, may leave anything
\* behind.
Spoil == /\ held' \in Held
         /\ whole' \in BOOLEAN
         /\ \/ res' = "MS3_ERR_AUTH_ROLE"
            \/ res' = "MS3_ERR_NONE" /\ whole' = FALSE

Next == \/ \E s \in Sets : Obtain(s)
        \/ Prepare
        \/ \E r \in Codes : Keep(r)
        \/ Spoil

Spec == Init /\ [][Next]_<<held, whole, res>>
=============================================================================
