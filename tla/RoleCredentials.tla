--------------------------- MODULE RoleCredentials ---------------------------
(***************************************************************************)
(* The role of a handle: ms3_init_assume_role(), ms3_assume_role() and     *)
(* ms3_ec2_set_cred(), the lookup of the role's ARN and the three buffers  *)
(* into which parse_assume_role_response() copies the credentials, those   *)
(* that the answer has.                                                    *)
(*                                                                         *)
(* A buffer holds "empty" or the field of one of the sets that a server    *)
(* issued; a role's ARN is named by the role.                              *)
(*                                                                         *)
(* An operator named after another one, as Op_Change, is Op with a bug; it *)
(* is used only to see that the properties notice such a bug.              *)
(***************************************************************************)
EXTENDS Naturals

CONSTANTS Roles,     \* names of roles
          OccursIn,  \* <<r, a>>: the ARN of role a contains the name r
          Sets       \* sets of credentials, each issued at most once

ASSUME RoleAssumption ==
  /\ OccursIn \subseteq Roles \X Roles
  /\ \A r \in Roles : <<r, r>> \in OccursIn
  /\ Roles \cap {"NULL", "empty"} = {}
  /\ Sets \cap {"NULL", "empty", "mixed"} = {}

Fields == {"AccessKeyId", "SecretAccessKey", "SessionToken"}

VARIABLES pc,            \* "idle", "lookup", "assume", or "undefined"
          iam_role,      \* a role, or "NULL"
          iam_role_arn,  \* "NULL", "empty", or the role whose ARN it is
          credentials,   \* role_key, role_secret and role_session_token
          source,        \* who made those buffers: "none", "init", "ec2"
          issued,        \* the role each set was issued for, "NULL" before
          whole,         \* history: the latest set came with all of its fields
          res

roleState == <<iam_role, iam_role_arn, credentials, source, issued, whole>>
roleVars == <<pc, roleState, res>>

All(v) == [f \in Fields |-> v]

RoleInit == /\ pc = "idle"
            /\ iam_role = "NULL" /\ iam_role_arn = "NULL"
            /\ credentials = All("NULL") /\ source = "none"
            /\ issued = [s \in Sets |-> "NULL"]
            /\ whole = TRUE
            /\ res = "MS3_ERR_NONE"

Issue(s, r) == /\ issued[s] = "NULL"
               /\ issued' = [issued EXCEPT ![s] = r]

Return(r) == pc' = "idle" /\ res' = r
-----------------------------------------------------------------------------
(***************************************************************************)
(* The calls                                                               *)
(***************************************************************************)

\* The application has the credentials from the metadata of its machine.
Ec2SetCred(r, s) == /\ pc = "idle"
                    /\ Issue(s, r)
                    /\ iam_role' = r
                    /\ credentials' = All(s) /\ source' = "ec2"
                    /\ whole' = TRUE
                    /\ Return("MS3_ERR_NONE")
                    /\ UNCHANGED iam_role_arn

\* The ARN of an earlier role is kept.
InitAssumeRole_KeepsArn(r) ==
  /\ pc = "idle"
  /\ iam_role' = r
  /\ iam_role_arn' = IF iam_role_arn = "NULL" THEN "empty" ELSE iam_role_arn
  /\ credentials' = All("empty") /\ source' = "init"
  /\ pc' = IF iam_role_arn' = "empty" THEN "lookup" ELSE "assume"
  /\ UNCHANGED <<issued, whole, res>>

\* ms3_init_assume_role(), which ends in ms3_assume_role(): an empty ARN
\* contains no role.
InitAssumeRole(r) == /\ pc = "idle"
                     /\ iam_role' = r /\ iam_role_arn' = "empty"
                     /\ credentials' = All("empty") /\ source' = "init"
                     /\ pc' = "lookup"
                     /\ UNCHANGED <<issued, whole, res>>

\* strstr() of the role in the ARN.
NamesRole == <<iam_role, iam_role_arn>> \in OccursIn

AssumeRole == /\ pc = "idle"
              /\ iam_role # "NULL"
              /\ pc' = IF iam_role_arn = "NULL" THEN "undefined"
                       ELSE IF NamesRole THEN "assume" ELSE "lookup"
              /\ UNCHANGED <<roleState, res>>

\* A parameter or the role is missing.
Refuse == /\ pc = "idle"
          /\ Return("MS3_ERR_PARAMETER")
          /\ UNCHANGED roleState
-----------------------------------------------------------------------------
(***************************************************************************)
(* The answers to LIST_ROLE and ASSUME_ROLE                                *)
(***************************************************************************)

TransferErrors == {"MS3_ERR_URI_TOO_LONG", "MS3_ERR_REQUEST_ERROR",
                   "MS3_ERR_NOT_FOUND", "MS3_ERR_RESPONSE_PARSE"}
StatusErrors == {"MS3_ERR_AUTH", "MS3_ERR_NOT_FOUND", "MS3_ERR_SERVER"}
Codes == TransferErrors \cup StatusErrors
           \cup {"MS3_ERR_NONE", "MS3_ERR_PARAMETER", "MS3_ERR_AUTH_ROLE"}

\* parse_role_list_response() finds the role, on whichever page, or is given
\* an empty body and returns success all the same.
LookupEnds == /\ pc = "lookup"
              /\ iam_role_arn' \in {iam_role, iam_role_arn}
              /\ pc' = "assume"
              /\ UNCHANGED <<iam_role, credentials, source, issued, whole, res>>

LookupFails(r) == /\ pc = "lookup"
                  /\ r \in TransferErrors
                  /\ Return(r)
                  /\ UNCHANGED roleState

AssumeFails(r) == /\ pc = "assume"
                  /\ r \in TransferErrors \cup StatusErrors
                  /\ Return(r)
                  /\ UNCHANGED roleState

\* An empty body, or one without Credentials, is a success as well.
AssumeChangesNothing ==
  /\ pc = "assume"
  /\ Return("MS3_ERR_NONE")
  /\ UNCHANGED roleState

\* What an answer makes of a buffer: the field is copied; it is there without a
\* content, and the buffer cleared; it is too long, the buffer cleared and the rest
\* of the answer not looked at; it is missing, or was not looked at.
Outcomes == {"copied", "empty", "long", "missing"}

Answer == {what \in [Fields -> Outcomes] :
             \A f, g \in Fields : what[f] = "long" /\ what[g] = "long" => f = g}

\* The buffers after an answer with the set s, and what the caller is told: only a
\* field that is too long is an error.
Copied(s, what) == [f \in Fields |-> CASE what[f] = "copied" -> s
                                       [] what[f] = "missing" -> credentials[f]
                                       [] OTHER -> "empty"]

TooLong(what) == \E f \in Fields : what[f] = "long"

\* A field that does not fit is skipped without an error.
CopyResult_Skips(what) == "MS3_ERR_NONE"

\* The result is not one that the calls of a role have.
CopyResult_Impossible(what) ==
  IF TooLong(what) THEN "MS3_ERR_IMPOSSIBLE" ELSE "MS3_ERR_NONE"

CopyResult(what) == IF TooLong(what) THEN "MS3_ERR_AUTH_ROLE" ELSE "MS3_ERR_NONE"

\* parse_assume_role_response() on a set issued for the role of the ARN.
Assumed(s, what) ==
  /\ pc = "assume"
  /\ iam_role_arn \in Roles
  /\ Issue(s, iam_role_arn)
  /\ credentials' = Copied(s, what)
  /\ whole' = (\A f \in Fields : what[f] \in {"copied", "long"})
  /\ Return(CopyResult(what))
  /\ UNCHANGED <<iam_role, iam_role_arn, source>>

\* What the parsers of the answers do not look at: an ARN that is longer than its
\* 2048 bytes, a member of the roles without an Arn, an element that lacks the child
\* they go on to; and the buffers of ms3_ec2_set_cred(), which are as long as its
\* arguments were, for a field that is longer.
AnswerUndefined ==
  /\ pc \in {"lookup", "assume"}
  /\ pc' = "undefined"
  /\ UNCHANGED <<roleState, res>>

RoleCalls == \/ \E r \in Roles : InitAssumeRole(r) \/ \E s \in Sets : Ec2SetCred(r, s)
             \/ AssumeRole \/ Refuse

Answers == \/ LookupEnds
           \/ \E r \in Codes : LookupFails(r) \/ AssumeFails(r)
           \/ AssumeChangesNothing
           \/ \E s \in Sets, what \in Answer : Assumed(s, what)
           \/ AnswerUndefined

RoleNext == RoleCalls \/ Answers

RoleSpec == RoleInit /\ [][RoleNext]_roleVars
-----------------------------------------------------------------------------
(***************************************************************************)
(* Properties                                                              *)
(***************************************************************************)

RoleTypeOK == /\ pc \in {"idle", "lookup", "assume", "undefined"}
              /\ iam_role \in Roles \cup {"NULL"}
              /\ iam_role_arn \in Roles \cup {"NULL", "empty"}
              /\ credentials \in [Fields -> Sets \cup {"NULL", "empty"}]
              /\ source \in {"none", "init", "ec2"}
              /\ issued \in [Sets -> Roles \cup {"NULL"}]
              /\ whole \in BOOLEAN
              /\ res \in Codes

\* The set that the three buffers make up together, as a request uses them.
Held == IF \E v \in Sets \cup {"NULL", "empty"} : credentials = All(v)
        THEN credentials["AccessKeyId"] ELSE "mixed"

Session == INSTANCE RoleSession WITH held <- Held

\* Renewing the credentials of a role is all or nothing, unless the caller is told
\* MS3_ERR_AUTH_ROLE -- or the answer lacks one of the three, which passes for
\* success and leaves a set that is mixed with an older one or with nothing.
KeepsSession == Session!Spec

\* Every field that a handle holds was issued for the role it was given last, never
\* for one it had before, however incomplete the answers were; only
\* ms3_ec2_set_cred(), which keeps the ARN of an earlier role, can lead
\* ms3_assume_role() to another role.
HeldForItsRole ==
  source = "init" =>
    \A f \in Fields : credentials[f] \in Sets => issued[credentials[f]] = iam_role
=============================================================================
