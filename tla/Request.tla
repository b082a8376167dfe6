------------------------------- MODULE Request -------------------------------
(***************************************************************************)
(* One handle (ms3_st) and the calls made on it, one after another.  Every *)
(* call becomes one or more runs of execute_request() or                   *)
(* execute_assume_role_request(), which share one curl handle, the last    *)
(* error message, the content type and the heap.                           *)
(*                                                                         *)
(* What a variable remembers of a call is "this" while that call is the    *)
(* latest one that could have set it, and "old" afterwards.                *)
(*                                                                         *)
(* An operator named after another one, as Op_Change, is Op with a bug; it *)
(* is used only to see that the properties notice such a bug.              *)
(***************************************************************************)
EXTENDS Naturals

CONSTANTS Apis,       \* the functions of the API that the application calls
          Settings,   \* the options that the application sets
          MaxDepth    \* bound on the pages of a list or of the roles

ApiFunctions == {"ms3_list", "ms3_list_dir", "ms3_put", "ms3_get", "ms3_copy",
                 "ms3_move", "ms3_delete", "ms3_status", "ms3_assume_role"}

AllSettings == {"port", "disable_verification", "connect_timeout_ms",
                "timeout_ms", "read_cb", "iam_role"}

ASSUME RequestAssumption == /\ Apis \subseteq ApiFunctions
                            /\ Settings \subseteq AllSettings
                            /\ MaxDepth \in Nat \ {0}

FirstCommand ==
  [ms3_list |-> "LIST_RECURSIVE", ms3_list_dir |-> "LIST", ms3_put |-> "PUT",
   ms3_get |-> "GET", ms3_copy |-> "COPY", ms3_move |-> "COPY",
   ms3_delete |-> "DELETE", ms3_status |-> "HEAD",
   ms3_assume_role |-> "LIST_ROLE"]

RoleCommands == {"LIST_ROLE", "ASSUME_ROLE"}
Paged == {"LIST", "LIST_RECURSIVE", "LIST_ROLE"}
Commands == {"LIST", "LIST_RECURSIVE", "PUT", "GET", "COPY", "DELETE", "HEAD"}
              \cup RoleCommands

\* HTTP status codes: 200 is any of 2xx, 302 any other redirect that curl does not
\* follow (it has no Location), 500 any other code from 400 on.
StatusCodes == {200, 301, 302, 403, 404, 500}

VARIABLES pc,              \* "idle", "preparing", "transferring"
          api, cmd,        \* the call, and the command it is executing
          depth,           \* the running execute_request() and those around it
          settings,        \* options of the handle that are not at their default
          role_arn,        \* ms3->iam_role_arn: "NULL", "empty", "known"
          first_run,
          curl,            \* the options of the curl handle
          status,          \* HTTP status of the answer, 0 before there is one
          answer,          \* the body the server sent: "none", "object",
                           \* "message" (a parsable error), "junk"
          mem,             \* what of it is in mem.data
          heap,            \* allocations of execute_request() for the latest
                           \* call, by depth
          last_error,      \* "NULL", "this", "old"
          content_type_in, \* "unset", "empty", "this", "old", "foreign"
          data,            \* *data of the caller of ms3_get()
          streamed,        \* what was passed to read_cb in this call
          res

vars == <<pc, api, cmd, depth, settings, role_arn, first_run, curl, status,
          answer, mem, heap, last_error, content_type_in, data, streamed, res>>

handle == <<settings, role_arn>>
transfer == <<status, answer, mem>>
outputs == <<data, streamed>>
-----------------------------------------------------------------------------
(***************************************************************************)
(* The options of a curl handle                                            *)
(***************************************************************************)

Defaults == [CUSTOMREQUEST |-> "none", NOBODY |-> FALSE, POSTFIELDS |-> "none",
             HEADERDATA |-> "none", HTTPHEADER |-> "none",
             WRITEDATA |-> "none", PORT |-> FALSE, SSL_VERIFY |-> TRUE,
             CONNECTTIMEOUT |-> FALSE, TIMEOUT |-> FALSE]

Sends == {"PUT", "COPY"}
ForRole == cmd \in RoleCommands

\* The handle o after the switch on cmd and the calls of curl_easy_setopt()
\* that follow it.  HEADERDATA and WRITEDATA stand for HEADERFUNCTION and
\* WRITEFUNCTION too; HTTPHEADER tells whose credentials signed the headers.
\* execute_assume_role_request() sets neither the port nor the timeouts.
SetOptions(o) ==
  [CUSTOMREQUEST |-> IF cmd \in Sends THEN "PUT"
                     ELSE IF cmd = "DELETE" THEN "DELETE" ELSE o.CUSTOMREQUEST,
   POSTFIELDS |-> IF cmd \in Sends THEN cmd ELSE o.POSTFIELDS,
   NOBODY |-> o.NOBODY \/ cmd = "HEAD",
   HEADERDATA |-> IF cmd = "HEAD" THEN "status"
                  ELSE IF cmd = "GET" THEN "ms3" ELSE o.HEADERDATA,
   HTTPHEADER |-> IF ~ForRole /\ "iam_role" \in settings THEN "role" ELSE "user",
   WRITEDATA |-> IF cmd = "GET" /\ "read_cb" \in settings THEN "read_cb" ELSE "mem",
   SSL_VERIFY |-> o.SSL_VERIFY /\ "disable_verification" \notin settings,
   PORT |-> o.PORT \/ (~ForRole /\ "port" \in settings),
   CONNECTTIMEOUT |-> o.CONNECTTIMEOUT
                        \/ (~ForRole /\ "connect_timeout_ms" \in settings),
   TIMEOUT |-> o.TIMEOUT \/ (~ForRole /\ "timeout_ms" \in settings)]

\* What curl puts on the wire.
SentMethod ==
  IF curl.CUSTOMREQUEST # "none" THEN curl.CUSTOMREQUEST
  ELSE IF curl.NOBODY THEN "HEAD"
  ELSE IF curl.POSTFIELDS # "none" THEN "POST" ELSE "GET"
-----------------------------------------------------------------------------
Init == /\ pc = "idle"
        /\ api \in Apis /\ cmd = FirstCommand[api]
        /\ depth = 0
        /\ settings = {} /\ role_arn = "NULL"
        /\ first_run = TRUE /\ curl = Defaults
        /\ status = 0 /\ answer = "none" /\ mem = "none"
        /\ heap = {}
        /\ last_error = "NULL" /\ content_type_in = "unset"
        /\ data = "NULL" /\ streamed = {}
        /\ res = "MS3_ERR_NONE"

\* ms3_set_option() and ms3_ec2_set_cred().
SetOption(s) == /\ pc = "idle"
                /\ settings' = settings \cup {s}
                /\ UNCHANGED <<pc, api, cmd, depth, role_arn, first_run, curl,
                               transfer, heap, last_error, content_type_in,
                               outputs, res>>

\* A callback and a role can be replaced, not removed.
UnsetOption(s) == /\ pc = "idle"
                  /\ s \notin {"read_cb", "iam_role"}
                  /\ settings' = settings \ {s}
                  /\ UNCHANGED <<pc, api, cmd, depth, role_arn, first_run, curl,
                                 transfer, heap, last_error, content_type_in,
                                 outputs, res>>

Older(v) == IF v = "this" THEN "old" ELSE v

\* What starting the command c of a call means for what is remembered.
Start(a, c) ==
  /\ pc' = "preparing"
  /\ api' = a /\ cmd' = c /\ depth' = 1
  /\ status' = 0 /\ answer' = "none" /\ mem' = "none"
  /\ heap' = {} /\ streamed' = {}
  /\ last_error' = Older(last_error)
  /\ content_type_in' = IF c # "GET" THEN content_type_in
                        ELSE IF content_type_in = "unset" THEN "unset" ELSE "old"

\* ms3_get() without a callback sets *data whatever happens.
Call(a) == /\ pc = "idle"
           /\ a # "ms3_assume_role"
           /\ Start(a, FirstCommand[a])
           /\ data' = IF a = "ms3_get" /\ "read_cb" \notin settings
                      THEN "NULL" ELSE data
           /\ UNCHANGED <<handle, first_run, curl, res>>

\* ms3_assume_role(), once ms3_init_assume_role() has made its buffers; the
\* ARN is looked up unless it is known.
AssumeRole == /\ pc = "idle"
              /\ "ms3_assume_role" \in Apis
              /\ role_arn # "NULL"
              /\ Start("ms3_assume_role",
                       IF role_arn = "known" THEN "ASSUME_ROLE" ELSE "LIST_ROLE")
              /\ UNCHANGED <<handle, first_run, curl, data, res>>

\* ms3_init_assume_role(): the handle uses the role from here on.
InitAssumeRole == /\ pc = "idle"
                  /\ "ms3_assume_role" \in Apis
                  /\ role_arn = "NULL"
                  /\ settings' = settings \cup {"iam_role"}
                  /\ role_arn' = "empty"
                  /\ Start("ms3_assume_role", "LIST_ROLE")
                  /\ UNCHANGED <<first_run, curl, data, res>>

\* A missing argument, an empty or too large object: nothing is sent.
Refuse(r) == /\ pc = "idle"
             /\ r = "MS3_ERR_PARAMETER" \/ "ms3_put" \in Apis
             /\ res' = r /\ heap' = {}
             /\ UNCHANGED <<pc, api, cmd, depth, handle, first_run, curl,
                            transfer, last_error, content_type_in, outputs>>
-----------------------------------------------------------------------------
(***************************************************************************)
(* execute_request() and execute_assume_role_request()                     *)
(***************************************************************************)

\* The header list is not released.
Frame_NoHeaders(d) == {<<"mem", d>>}

\* What one run allocates for itself.
Frame(d) == {<<"mem", d>>, <<"headers", d>>}

\* What the frames around it release when execute_request() returns r.
\* execute_assume_role_request() releases its own in both cases.
Outer(r) == IF r = "MS3_ERR_NONE" \/ cmd \in RoleCommands
            THEN UNION {Frame(d) \cup {<<"cont", d>>} : d \in 1..(depth - 1)}
            ELSE {}

\* All frames return r; a call of two steps goes on if the first succeeded.
Unwind(r) ==
  /\ heap' = (heap \ Frame(depth)) \ Outer(r)
  /\ \/ /\ r = "MS3_ERR_NONE"
        /\ \/ api = "ms3_move" /\ cmd = "COPY" /\ cmd' = "DELETE"
           \/ cmd = "LIST_ROLE" /\ cmd' = "ASSUME_ROLE"
        /\ pc' = "preparing" /\ depth' = 1
        /\ status' = 0 /\ answer' = "none" /\ mem' = "none"
        /\ UNCHANGED <<api, res>>
     \/ /\ \/ r # "MS3_ERR_NONE"
           \/ ~(api = "ms3_move" /\ cmd = "COPY") /\ cmd # "LIST_ROLE"
        /\ pc' = "idle"
        /\ res' = r
        /\ UNCHANGED <<api, cmd, depth, transfer>>

\* The handle is taken as the last request left it.
Reset_Never == curl

\* The test of first_run is inverted.
Reset_FirstOnly == IF first_run THEN Defaults ELSE curl

\* curl_easy_reset(), but for the first request.
Reset == IF first_run THEN curl ELSE Defaults

\* The URI does not fit: nothing but the reset has happened.
UriTooLong == /\ pc = "preparing"
              /\ first_run' = FALSE
              /\ curl' = Reset
              /\ Unwind("MS3_ERR_URI_TOO_LONG")
              /\ UNCHANGED <<handle, last_error, content_type_in, outputs>>

\* The options are set and curl_easy_perform() is entered.
Perform == /\ pc = "preparing"
           /\ first_run' = FALSE
           /\ curl' = SetOptions(Reset)
           /\ heap' = heap \cup {<<"headers", depth>>}
           /\ content_type_in' = IF cmd = "GET" THEN "empty" ELSE content_type_in
           /\ pc' = "transferring"
           /\ status' = 0 /\ answer' = "none" /\ mem' = "none"
           /\ UNCHANGED <<api, cmd, depth, handle, last_error, outputs, res>>

\* The header callback: the headers of the answer, with a Content-Type or not.
HeadersArrive(s) ==
  /\ pc = "transferring"
  /\ status = 0
  /\ status' = s
  /\ \/ UNCHANGED content_type_in
     \/ /\ curl.HEADERDATA = "ms3"
        /\ content_type_in' = IF cmd = "GET" THEN "this" ELSE "foreign"
  /\ UNCHANGED <<pc, api, cmd, depth, handle, first_run, curl, answer, mem,
                 heap, last_error, outputs, res>>

\* body_callback() or the application's callback gets the body.
BodyArrives(b) ==
  /\ pc = "transferring"
  /\ status # 0 /\ answer = "none"
  /\ ~curl.NOBODY
  /\ b = "object" => status = 200
  /\ answer' = b
  /\ \/ /\ curl.WRITEDATA = "read_cb"
        /\ streamed' = streamed \cup {b}
        /\ UNCHANGED <<mem, heap>>
     \/ /\ curl.WRITEDATA # "read_cb"
        /\ mem' = b
        /\ heap' = heap \cup {<<"mem", depth>>}
        /\ UNCHANGED streamed
  /\ UNCHANGED <<pc, api, cmd, depth, handle, first_run, curl, status,
                 last_error, content_type_in, data, res>>

\* No connection, a timeout, a body that ends early, a callback that refuses.
CurlFails == /\ pc = "transferring"
             /\ last_error' = "this"
             /\ Unwind("MS3_ERR_REQUEST_ERROR")
             /\ UNCHANGED <<handle, first_run, curl, content_type_in, outputs>>

\* Only the codes from 400 on are errors.
StatusError_No301 ==
  CASE status = 403 -> "MS3_ERR_AUTH"
    [] status = 404 -> "MS3_ERR_NOT_FOUND"
    [] status = 500 -> "MS3_ERR_SERVER"
    [] OTHER -> "MS3_ERR_NONE"

\* The code for 301 is not one of those documented for it.
StatusError_Unknown ==
  CASE status = 301 -> "MS3_ERR_MAX"
    [] status = 403 -> "MS3_ERR_AUTH"
    [] status = 404 -> "MS3_ERR_NOT_FOUND"
    [] status = 500 -> "MS3_ERR_SERVER"
    [] OTHER -> "MS3_ERR_NONE"

\* res for a status.
StatusError ==
  CASE status = 301 /\ cmd \notin RoleCommands -> "MS3_ERR_ENDPOINT"
    [] status = 403 -> "MS3_ERR_AUTH"
    [] status = 404 -> "MS3_ERR_NOT_FOUND"
    [] status = 500 ->
         IF "iam_role" \in settings /\ cmd \notin RoleCommands
         THEN "MS3_ERR_AUTH_ROLE" ELSE "MS3_ERR_SERVER"
    [] OTHER -> "MS3_ERR_NONE"

\* The message is remembered only if there is one.
ErrorMessage_KeptIfNone ==
  last_error' = IF StatusError # "MS3_ERR_NONE" /\ mem = "message" THEN "this"
                ELSE last_error

\* set_error_nocopy() with what parse_error_message() found in mem.
ErrorMessage ==
  last_error' = IF StatusError = "MS3_ERR_NONE" THEN last_error
                ELSE IF mem = "message" THEN "this" ELSE "NULL"

\* mem.data goes to the caller of ms3_get() whether it is an object or not.
ResponseEnds_AnyBody ==
  /\ pc = "transferring" /\ status # 0
  /\ cmd \notin RoleCommands
  /\ ErrorMessage
  /\ Unwind(StatusError)
  /\ data' = IF cmd = "GET" /\ mem # "none" THEN mem ELSE data
  /\ UNCHANGED <<handle, first_run, curl, content_type_in, streamed>>

\* The answer has been received, and it is the last of the command.
ResponseEnds ==
  /\ pc = "transferring" /\ status # 0
  /\ cmd \notin RoleCommands
  /\ ErrorMessage
  /\ Unwind(StatusError)
  /\ data' = IF cmd = "GET" /\ StatusError = "MS3_ERR_NONE" /\ mem # "none"
             THEN mem ELSE data
  /\ UNCHANGED <<handle, first_run, curl, content_type_in, streamed>>

\* A page with a continuation: execute_request() calls itself.
NextPage == /\ pc = "transferring" /\ status = 200
            /\ cmd \in Paged /\ mem = "object"
            /\ depth < MaxDepth
            /\ depth' = depth + 1
            /\ heap' = heap \cup {<<"cont", depth>>}
            /\ pc' = "preparing"
            /\ UNCHANGED <<api, cmd, handle, first_run, curl, transfer,
                           last_error, content_type_in, outputs, res>>

\* The role is on a page that also named a Marker, before the roles.
UnwindPastMarker ==
  /\ depth < MaxDepth
  /\ heap' = ((heap \ Frame(depth)) \ Outer("MS3_ERR_NONE")) \cup {<<"cont", depth>>}
  /\ cmd' = "ASSUME_ROLE"
  /\ pc' = "preparing" /\ depth' = 1
  /\ status' = 0 /\ answer' = "none" /\ mem' = "none"
  /\ UNCHANGED <<api, res>>

\* parse_role_list_response() decides, whatever the status was.
RolesEnd ==
  /\ pc = "transferring" /\ status # 0
  /\ cmd = "LIST_ROLE"
  /\ ErrorMessage
  /\ \/ /\ mem = "none"
        /\ Unwind("MS3_ERR_NONE")
        /\ UNCHANGED role_arn
     \/ /\ mem = "object"
        /\ role_arn' = "known"
        /\ \/ Unwind("MS3_ERR_NONE")
           \/ UnwindPastMarker
     \/ /\ mem \in {"object", "message"}
        /\ Unwind("MS3_ERR_NOT_FOUND")
        /\ UNCHANGED role_arn
     \/ /\ mem = "junk"
        /\ Unwind("MS3_ERR_RESPONSE_PARSE")
        /\ UNCHANGED role_arn
  /\ UNCHANGED <<settings, first_run, curl, content_type_in, outputs>>

\* parse_assume_role_response(): a field of the credentials may be too long.
RoleAssumed ==
  /\ pc = "transferring" /\ status # 0
  /\ cmd = "ASSUME_ROLE"
  /\ ErrorMessage
  /\ \/ /\ StatusError # "MS3_ERR_NONE"
        /\ Unwind(StatusError)
     \/ /\ StatusError = "MS3_ERR_NONE"
        /\ mem # "junk"
        /\ Unwind("MS3_ERR_NONE")
     \/ /\ StatusError = "MS3_ERR_NONE"
        /\ mem = "object"
        /\ Unwind("MS3_ERR_AUTH_ROLE")
     \/ /\ StatusError = "MS3_ERR_NONE"
        /\ mem = "junk"
        /\ Unwind("MS3_ERR_RESPONSE_PARSE")
  /\ UNCHANGED <<handle, first_run, curl, content_type_in, outputs>>

Refusals == {"MS3_ERR_PARAMETER", "MS3_ERR_NO_DATA", "MS3_ERR_TOO_BIG"}

Next == \/ \E s \in Settings : SetOption(s) \/ UnsetOption(s)
        \/ \E a \in Apis : Call(a)
        \/ AssumeRole \/ InitAssumeRole
        \/ \E r \in Refusals : Refuse(r)
        \/ UriTooLong \/ Perform
        \/ \E s \in StatusCodes : HeadersArrive(s)
        \/ \E b \in {"object", "message", "junk"} : BodyArrives(b)
        \/ CurlFails
        \/ ResponseEnds \/ NextPage \/ RolesEnd \/ RoleAssumed

Spec == Init /\ [][Next]_vars
-----------------------------------------------------------------------------
(***************************************************************************)
(* Properties                                                              *)
(***************************************************************************)

Results == {"MS3_ERR_NONE", "MS3_ERR_URI_TOO_LONG", "MS3_ERR_REQUEST_ERROR",
            "MS3_ERR_RESPONSE_PARSE", "MS3_ERR_ENDPOINT", "MS3_ERR_AUTH",
            "MS3_ERR_NOT_FOUND", "MS3_ERR_SERVER", "MS3_ERR_AUTH_ROLE"}
             \cup Refusals

OptionValues ==
  [CUSTOMREQUEST : {"none", "PUT", "DELETE"}, NOBODY : BOOLEAN,
   POSTFIELDS : {"none", "PUT", "COPY"},
   HEADERDATA : {"none", "status", "ms3"},
   HTTPHEADER : {"none", "user", "role"},
   WRITEDATA : {"none", "read_cb", "mem"}, PORT : BOOLEAN,
   SSL_VERIFY : BOOLEAN, CONNECTTIMEOUT : BOOLEAN, TIMEOUT : BOOLEAN]

TypeOK == /\ pc \in {"idle", "preparing", "transferring"}
          /\ api \in Apis /\ cmd \in Commands
          /\ depth \in 0..MaxDepth
          /\ settings \subseteq AllSettings
          /\ role_arn \in {"NULL", "empty", "known"}
          /\ first_run \in BOOLEAN
          /\ curl \in OptionValues
          /\ status \in StatusCodes \cup {0}
          /\ answer \in {"none", "object", "message", "junk"}
          /\ mem \in {"none", "object", "message", "junk"}
          /\ heap \subseteq {"mem", "headers", "cont"} \X (1..MaxDepth)
          /\ last_error \in {"NULL", "this", "old"}
          /\ content_type_in \in {"unset", "empty", "this", "old", "foreign"}
          /\ data \in {"NULL", "object", "message", "junk"}
          /\ streamed \subseteq {"object", "message", "junk"}
          /\ res \in Results

\* No request carries anything over from the one before it: curl_easy_reset()
\* and first_run leave every request the options that the same call would
\* have on a new handle, also after early returns and role requests.
AsOnFreshHandle == pc = "transferring" => curl = SetOptions(Defaults)

\* The method on the wire is the one of the command, whatever was called
\* before: no DELETE, PUT or HEAD is left over in CUSTOMREQUEST or NOBODY.
WireMethod ==
  pc = "transferring" =>
    /\ cmd \in Sends => SentMethod = "PUT"
    /\ cmd = "DELETE" => SentMethod = "DELETE"
    /\ cmd = "HEAD" => SentMethod = "HEAD"
    /\ cmd \in Paged \cup {"GET", "ASSUME_ROLE"} => SentMethod = "GET"

\* A failed ms3_get() gives its caller no data; the XML of an error is never
\* handed over as if it were the object.
ErrorIsNotData ==
  pc = "idle" /\ api = "ms3_get" /\ res \notin Refusals
    => (res # "MS3_ERR_NONE" /\ "read_cb" \notin settings => data = "NULL")

\* The same for the application's read callback.
ErrorIsNotStreamed == status # 200 => streamed \subseteq {"object"}

\* After a request that failed at the server or in curl, ms3_server_error()
\* is about that request: curl's text, the server's message, or NULL if the
\* server sent none or a read callback took it; never the message of an
\* earlier failure, a role's requests included.
LastErrorIsLatest ==
  /\ pc = "idle" /\ res \notin Refusals
  /\ StatusError # "MS3_ERR_NONE" \/ res = "MS3_ERR_REQUEST_ERROR"
  => last_error = IF \/ res = "MS3_ERR_REQUEST_ERROR"
                     \/ (answer = "message" /\ curl.WRITEDATA = "mem")
                  THEN "this" ELSE "NULL"

\* A call returns success only if the server did not answer its last request with
\* an error.  That is less than success: a redirect that curl does not follow
\* passes for it, 301 in the requests of a role, any other in every command.
SuccessIsServers ==
  pc = "idle" /\ res = "MS3_ERR_NONE" /\ status # 0
    => \/ status \in {200, 302}
       \/ (status = 301 /\ cmd \in RoleCommands)

\* When a call has returned, every body, header list and continuation of
\* every page was released, but for two cases: the outer pages of a list
\* whose later page failed, and the marker of a page of roles that was not
\* followed.
OnlyOuterPagesLeak ==
  pc = "idle" =>
    heap \subseteq CASE cmd \in {"LIST", "LIST_RECURSIVE"} /\ res # "MS3_ERR_NONE" ->
                       {"mem", "headers", "cont"} \X (1..(depth - 1))
                   [] cmd = "ASSUME_ROLE" -> {"cont"} \X (1..(MaxDepth - 1))
                   [] OTHER -> {}

\* ms3_get_content_type() after a successful ms3_get() is of that response,
\* and no other command's headers are ever taken for it.
ContentTypeOfLastGet ==
  /\ content_type_in # "foreign"
  /\ pc = "idle" /\ api = "ms3_get" /\ res = "MS3_ERR_NONE" /\ status # 0
       => content_type_in \in {"this", "empty"}

\* MS3_OPT_TIMEOUT and MS3_OPT_CONNECT_TIMEOUT bound every transfer with the
\* buckets as they are set at its time, and one that was set back to 0 bounds none,
\* whatever was asked on the handle before.
TimeoutApplied ==
  pc = "transferring" /\ ~ForRole =>
    /\ curl.TIMEOUT <=> "timeout_ms" \in settings
    /\ curl.CONNECTTIMEOUT <=> "connect_timeout_ms" \in settings

\* They bound every transfer of the handle, those for a role included.
EveryTransferBounded ==
  pc = "transferring" =>
    /\ "timeout_ms" \in settings => curl.TIMEOUT
    /\ "connect_timeout_ms" \in settings => curl.CONNECTTIMEOUT
=============================================================================
