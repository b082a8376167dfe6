------------------------------- MODULE Signing -------------------------------
(***************************************************************************)
(* The text of a request and what is signed of it: the URI, its query, the *)
(* headers, the canonical request that is hashed and the Authorization     *)
(* header, for execute_request() with the credentials of the user or of a  *)
(* role, and for the two requests that obtain a role.                      *)
(*                                                                         *)
(* Of a text, its parts and their order are modelled, and its length: the  *)
(* buffers are the program's own, and the numbers below are its numbers.   *)
(* A query parameter or header is a string that names it.                  *)
(*                                                                         *)
(* An operator named after another one, as Op_Change, is Op with a bug; it *)
(* is used only to see that the properties notice such a bug.              *)
(***************************************************************************)
EXTENDS RoleCredentials, Sequences

CONSTANTS Domain, Bucket,  \* lengths of the names of the server and the bucket
          Paths,           \* lengths of an encoded object path, with its '/'
          Values,          \* lengths of an encoded continuation, filter or ARN
          Sources,         \* lengths of an encoded source bucket and key
          Tokens,          \* lengths of a role's session token
          Protocols        \* protocol versions the handle may be set to

ASSUME SigningAssumption ==
  /\ Domain \in Nat /\ Bucket \in Nat
  /\ Values \subseteq Nat
  /\ Paths \subseteq Nat \ {0}
  /\ Sources \subseteq Nat /\ Tokens \subseteq Nat
  /\ Protocols \subseteq {1, 2}

VARIABLE sent  \* the latest request built, or NoRequest

vars == <<roleVars, sent>>

MethodOf == [LIST |-> "GET", LIST_RECURSIVE |-> "GET", GET |-> "GET",
             HEAD |-> "HEAD", PUT |-> "PUT", COPY |-> "PUT",
             DELETE |-> "DELETE", LIST_ROLE |-> "GET", ASSUME_ROLE |-> "GET"]

Commands == DOMAIN MethodOf
RoleCommands == {"LIST_ROLE", "ASSUME_ROLE"}

\* What a request is built from.  list_version is 0 for what is no list, value
\* and source are 0 for what has none; "role" signs with the role's credentials.
Requests == [cmd : Commands, list_version : 0..2, protocol_version : Protocols,
             continuation : BOOLEAN, filter : BOOLEAN,
             value : Values \cup {0}, path : Paths \cup {1},
             source : Sources \cup {0}, signer : {"user", "role"},
             token : Tokens \cup {0}]

NoRequest == [cmd |-> "none"]

HasSource(q) == q.source # 0
HasToken(q) == q.signer = "role"
Optional(condition, part) == IF condition THEN <<part>> ELSE <<>>
-----------------------------------------------------------------------------
(***************************************************************************)
(* The query                                                               *)
(***************************************************************************)

\* generate_query() with the filter put first.
ListQuery_PrefixFirst(q) ==
  Optional(q.filter, "prefix")
    \o Optional(q.cmd = "LIST", "delimiter")
    \o Optional(q.list_version = 2, "list-type")
    \o Optional(q.list_version = 1 /\ q.continuation, "marker")

\* generate_query().
ListQuery(q) ==
  Optional(q.cmd = "LIST", "delimiter")
    \o Optional(q.list_version = 2 /\ q.continuation, "continuation-token")
    \o Optional(q.list_version = 2, "list-type")
    \o Optional(q.list_version = 1 /\ q.continuation, "marker")
    \o Optional(q.filter, "prefix")

\* generate_assume_role_query(); no duration is ever set.
RoleQuery(q) ==
  <<"Action">> \o Optional(q.continuation, "Marker")
    \o (IF q.cmd = "ASSUME_ROLE" THEN <<"RoleArn", "RoleSessionName">> ELSE <<>>)
    \o <<"Version">>

Query(q) == IF q.cmd \in RoleCommands THEN RoleQuery(q)
            ELSE IF q.list_version # 0 THEN ListQuery(q) ELSE <<>>

\* The length of each parameter with its value.
ParameterLength(q, p) ==
  CASE p = "delimiter" -> 13  [] p = "continuation-token" -> 19 + q.value
    [] p = "list-type" -> 11  [] p = "marker" -> 7 + q.value
    [] p = "prefix" -> 7 + q.value
    [] p = "Action" -> IF q.cmd = "LIST_ROLE" THEN 16 ELSE 17
    [] p = "Marker" -> 7 + q.value
    [] p = "RoleArn" -> 8 + q.value
    [] p = "RoleSessionName" -> 26  [] p = "Version" -> 18

\* The sum of len over the texts of s, of which there are at most five, with
\* one byte between two of them.
Joined(s, len(_)) ==
  LET of(i) == IF i <= Len(s) THEN len(s[i]) ELSE 0
  IN  of(1) + of(2) + of(3) + of(4) + of(5) + (IF s = <<>> THEN 0 ELSE Len(s) - 1)

QueryLength(q) == LET len(p) == ParameterLength(q, p) IN Joined(Query(q), len)

\* A list has a query, an empty one at times.
HasQuery(q) == q.list_version # 0 \/ q.cmd \in RoleCommands
-----------------------------------------------------------------------------
(***************************************************************************)
(* The URI                                                                 *)
(***************************************************************************)

MAX_URI_LENGTH == 1024

\* "https" (the longer one), "://", '/' or '.', and '?'.
UriLength(q) ==
  IF q.cmd \in RoleCommands
  THEN 5 + 3 + Domain + 2 + QueryLength(q)
  ELSE 5 + 3 + Domain + 1 + Bucket + q.path
         + (IF HasQuery(q) THEN 1 + QueryLength(q) ELSE 0)

\* The '?' is not allowed for in path_parts.
UriFits_NoQuestion(q) ==
  IF q.cmd \in RoleCommands THEN UriLength(q) < MAX_URI_LENGTH
  ELSE 9 + Domain + Bucket + q.path + QueryLength(q) < MAX_URI_LENGTH - 1

\* The test in build_request_uri(), whose path_parts is 10 in every case, and
\* in build_assume_role_request_uri(), which asks snprintf().
UriFits(q) ==
  IF q.cmd \in RoleCommands THEN UriLength(q) < MAX_URI_LENGTH
  ELSE 10 + Domain + Bucket + q.path + QueryLength(q) < MAX_URI_LENGTH - 1

\* The size that snprintf() is given for the URI.
UriSize(q) == IF q.cmd \in RoleCommands THEN MAX_URI_LENGTH ELSE MAX_URI_LENGTH - 1
-----------------------------------------------------------------------------
(***************************************************************************)
(* The headers, the canonical request and the Authorization header         *)
(***************************************************************************)

\* The token is put before the date.
Headers_TokenEarly(q) ==
  <<"host", "x-amz-content-sha256">>
    \o Optional(HasSource(q), "x-amz-copy-source")
    \o Optional(HasToken(q), "x-amz-security-token") \o <<"x-amz-date">>

\* What build_assume_role_request_headers() sends, hashes and names.
RoleHeaders == <<"host", "x-amz-content-sha256", "x-amz-date">>
RoleHashedNames == <<"host", "x-amz-content-sha256", "x-amz-date">>
RoleSignedHeaders == <<"host", "x-amz-content-sha256", "x-amz-date">>

\* The list of headers when the canonical request is built.
Headers(q) ==
  IF q.cmd \in RoleCommands THEN RoleHeaders
  ELSE <<"host", "x-amz-content-sha256">>
         \o Optional(HasSource(q), "x-amz-copy-source")
         \o <<"x-amz-date">> \o Optional(HasToken(q), "x-amz-security-token")

\* The names that generate_request_hash() puts into the canonical request.
HashedNames(q) ==
  IF q.cmd \in RoleCommands THEN RoleHashedNames
  ELSE IF HasSource(q) /\ HasToken(q)
  THEN <<"host", "x-amz-content-sha256", "x-amz-copy-source", "x-amz-date",
         "x-amz-security-token">>
  ELSE IF HasSource(q)
  THEN <<"host", "x-amz-content-sha256", "x-amz-copy-source", "x-amz-date">>
  ELSE IF HasToken(q)
  THEN <<"host", "x-amz-content-sha256", "x-amz-date", "x-amz-security-token">>
  ELSE <<"host", "x-amz-content-sha256", "x-amz-date">>

\* The names in the Authorization header.
SignedHeaders(q) ==
  IF q.cmd \in RoleCommands THEN RoleSignedHeaders
  ELSE IF HasSource(q) /\ HasToken(q)
  THEN <<"host", "x-amz-content-sha256", "x-amz-copy-source", "x-amz-date",
         "x-amz-security-token", "x-amz-copy-source">>
  ELSE IF HasSource(q)
  THEN <<"host", "x-amz-content-sha256", "x-amz-copy-source", "x-amz-date">>
  ELSE IF HasToken(q)
  THEN <<"host", "x-amz-content-sha256", "x-amz-date", "x-amz-security-token">>
  ELSE <<"host", "x-amz-content-sha256", "x-amz-date">>

NameLength(h) == CASE h = "host" -> 4 [] h = "x-amz-content-sha256" -> 20
                   [] h = "x-amz-copy-source" -> 17 [] h = "x-amz-date" -> 10
                   [] h = "x-amz-security-token" -> 20

ValueLength(q, h) ==
  CASE h = "host" -> IF q.cmd \in RoleCommands \/ q.protocol_version = 1
                     THEN Domain ELSE Bucket + 1 + Domain
    [] h = "x-amz-content-sha256" -> 64
    [] h = "x-amz-copy-source" -> q.source + 2
    [] h = "x-amz-date" -> 16
    [] h = "x-amz-security-token" -> q.token

\* The parts of the canonical request, the line ends included, ...
MethodLength(q) ==
  CASE MethodOf[q.cmd] = "GET" -> 4 [] MethodOf[q.cmd] = "HEAD" -> 5
    [] MethodOf[q.cmd] = "PUT" -> 4 [] MethodOf[q.cmd] = "DELETE" -> 7

PathLength(q) ==
  CASE q.cmd \in RoleCommands -> 2
    [] q.cmd \notin RoleCommands /\ q.protocol_version = 1 -> 2 + Bucket + q.path
    [] OTHER -> 1 + q.path

HeadersLength(q) ==
  LET line(h) == NameLength(h) + 1 + ValueLength(q, h)
  IN  Joined(Headers(q), line) + 1

NamesLength(q) == Joined(HashedNames(q), NameLength) + 2

CanonicalLength(q) == MethodLength(q) + PathLength(q) + QueryLength(q) + 1
                        + HeadersLength(q) + NamesLength(q) + 64

\* ... and what the code adds to pos for the names of the headers, one short
\* where there is a source; ...
NamesCounted_Short(q) ==
  CASE HasSource(q) /\ HasToken(q) -> 77 [] HasSource(q) /\ ~HasToken(q) -> 55
    [] ~HasSource(q) /\ HasToken(q) -> 59 [] OTHER -> 38

\* ... and what it really adds.
NamesCounted(q) ==
  CASE HasSource(q) /\ HasToken(q) -> 77 [] HasSource(q) /\ ~HasToken(q) -> 56
    [] ~HasSource(q) /\ HasToken(q) -> 59 [] OTHER -> 38

SigningData == 3072
-----------------------------------------------------------------------------
Init == RoleInit /\ sent = NoRequest

\* Who signs the requests for objects, and the token that goes with them:
\* that of a role is empty before it was obtained.
Signer == IF iam_role = "NULL" THEN "user" ELSE "role"
HeldTokens == IF Signer = "user" \/ credentials["SessionToken"] = "empty"
              THEN {0} ELSE Tokens

ListRequests ==
  [cmd : {"LIST", "LIST_RECURSIVE"}, list_version : 1..2,
   protocol_version : Protocols, continuation : BOOLEAN, filter : BOOLEAN,
   value : Values, path : {1}, source : {0}, signer : {Signer}, token : HeldTokens]

ObjectRequests ==
  LET on(cmds, from) ==
        [cmd : cmds, list_version : {0}, protocol_version : Protocols,
         continuation : {FALSE}, filter : {FALSE}, value : {0}, path : Paths,
         source : from, signer : {Signer}, token : HeldTokens]
  IN  on({"GET", "HEAD", "PUT", "DELETE"}, {0}) \cup on({"COPY"}, Sources)

\* The requests for a role are signed by the user.
RoleRequests(c) ==
  [cmd : {c}, list_version : {0}, protocol_version : Protocols,
   continuation : {FALSE} \cup {c = "LIST_ROLE"}, filter : {FALSE},
   value : Values, path : {1}, source : {0}, signer : {"user"}, token : {0}]

\* The requests that can be made in this state.
Asked == CASE pc = "idle" -> ListRequests \cup ObjectRequests
           [] pc = "lookup" -> RoleRequests("LIST_ROLE")
           [] pc = "assume" -> RoleRequests("ASSUME_ROLE")
           [] OTHER -> {}

\* The URI, the query and the headers of a request.
Build == /\ sent = NoRequest
         /\ \E q \in Asked : UriFits(q) /\ sent' = q
         /\ UNCHANGED roleVars

\* The request has been answered, or the next call is made.
Ends == /\ sent # NoRequest
        /\ sent.cmd \notin RoleCommands
        /\ sent' = NoRequest
        /\ UNCHANGED roleVars

RoleStep == /\ RoleNext
            /\ pc = "idle" => sent = NoRequest
            /\ pc \in {"lookup", "assume"} =>
                 sent # NoRequest \/ res' = "MS3_ERR_URI_TOO_LONG"
            /\ sent' = NoRequest

Next == RoleStep \/ Build \/ Ends

Spec == Init /\ [][Next]_vars
-----------------------------------------------------------------------------
(***************************************************************************)
(* Properties                                                              *)
(***************************************************************************)

TypeOK == RoleTypeOK /\ sent \in Requests \cup {NoRequest}

Built == sent # NoRequest

\* The texts of s come in the order that order gives them, each once.
InOrder(s, order) ==
  LET place(t) == CHOOSE k \in 1..Len(order) : order[k] = t
  IN  \A i, j \in 1..Len(s) : i < j => place(s[i]) < place(s[j])

\* The headers in alphabetical order, as what verifies a signature has them.
HeaderOrder == <<"host", "x-amz-content-sha256", "x-amz-copy-source",
                 "x-amz-date", "x-amz-security-token">>

ParameterOrder == <<"Action", "Marker", "RoleArn", "RoleSessionName", "Version",
                    "continuation-token", "delimiter", "list-type", "marker",
                    "prefix">>

\* Three places of the code agree, for every command and signer: the headers
\* that are sent, the names that are hashed with them and the names in the
\* Authorization header, all in alphabetical order.  One disagrees: with the
\* credentials of a role, ms3_copy() and ms3_move() name the source twice.
SignsWhatItSends ==
  Built => /\ HashedNames(sent) = Headers(sent)
           /\ InOrder(Headers(sent), HeaderOrder)
           /\ \/ SignedHeaders(sent) = Headers(sent)
              \/ HasSource(sent) /\ HasToken(sent)

\* The query is sent, and hashed, in the order that a verifier recomputes it
\* in, but for the later pages of ms3_list_dir() with list version 2.
QueryInOrder ==
  Built => \/ InOrder(Query(sent), ParameterOrder)
           \/ sent.cmd = "LIST" /\ sent.list_version = 2 /\ sent.continuation

\* A URI that passes the test is not cut off by the buffer, up to its last
\* byte, whatever it is made of.
UriWhole == Built => UriLength(sent) < UriSize(sent)

\* The canonical request is hashed to its end: pos, which is counted by hand,
\* stays at the end of the text, and the text fits into signing_data, unless the
\* source of a copy and the token of the role have more bytes than this together.
\* Nothing in the code bounds them so.
SourceAndTokenThatFit == 1748

HashedWhole ==
  Built => /\ NamesCounted(sent) = NamesLength(sent)
           /\ sent.source + sent.token <= SourceAndTokenThatFit
                => CanonicalLength(sent) < SigningData
=============================================================================
