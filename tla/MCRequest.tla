----------------------------- MODULE MCRequest ------------------------------
(***************************************************************************)
(* Instances of Request for TLC: the calls and the options of a program.   *)
(***************************************************************************)
EXTENDS Request

GetAndDelete == {"ms3_get", "ms3_delete"}
OnlyRole == {"ms3_assume_role"}

TimeoutsAndCallback == {"timeout_ms", "connect_timeout_ms", "read_cb"}
Callback == {"read_cb"}
Timeouts == {"timeout_ms", "connect_timeout_ms"}
=============================================================================
