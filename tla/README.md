# libmarias3 in TLA+

TLA+ models of libmarias3, the C client library for S3 that MariaDB uses:
what the library does on a handle, between two requests and between two pages,
with the properties that must hold and proofs of the most important ones.

The library is used by one thread per handle (`ms3_st`). A handle shares nothing
with other handles but the process-wide debug flag and OpenSSL's locks; what it
does share is the store on the server, with every other client of the bucket. The
hard parts are therefore sequences of calls and of partial failures on one handle,
and what other clients do between two requests of one call.

## The system

| Component (code) | State | Operations | Hard behaviour | What makes it correct |
|---|---|---|---|---|
| Paged listing (`request.c:972-996`, `response.c:131-326`, `marias3.c:391-426`) | `list_container`, the `continuation` of each recursion, `list_version` | `ms3_list`, `ms3_list_dir`, one `execute_request()` per page | other clients write between pages; two ways to continue (marker, token); a page that fails or cannot be parsed | complete, no duplicates, nothing invented, it returns; where it is not complete, it is known why |
| Memory of a list (`response.c:86-129`, `258-314`, `marias3.c:306-328`) | blocks of 1024 elements, `pool_list`, `pool_free`, `start`, `next` | `get_next_list_ptr`, linking, `list_free`, `ms3_deinit` | block and page boundaries, several lists on one handle, no memory | one chain in order, no element twice, all released |
| Response buffer (`request.c:699-736`, `assume_role.c:83-120`) | `memory_buffer_st` | `body_callback`, hand-over to the caller of `ms3_get` | piece sizes around the chunk size, empty pieces, the terminator, no memory | never overrun, the body unchanged |
| Requests (`request.c:738-1047`, `assume_role.c:506-698`) | the curl handle's options, `first_run`, `last_error`, `content_type_in`, heap | one per command, two per `ms3_move` and `ms3_assume_role` | options left over from the request before, early returns, errors in nested requests, order of callbacks and status | as on a new handle; results, messages and data are those of this call; nothing leaks |
| Move and copy (`marias3.c:485-535`) | source and destination at the server | `ms3_copy`, `ms3_move` | other clients between COPY and DELETE, lost answers, requests that are executed after their timeout, keys that share a path | no object is deleted that was not copied |
| Options (`marias3.c:564-719`) | fields of `ms3_st` | `ms3_set_option`, `ms3_set_content_type` | set between any two calls, toggles | the next request uses them |
| Role credentials (`marias3.c:241-304`, `721-744`, `response.c:328-512`) | `iam_role`, `iam_role_arn`, `role_key`, `role_secret`, `role_session_token` | `ms3_init_assume_role`, `ms3_assume_role`, `ms3_ec2_set_cred` | replaced field by field in the order of the answer, from answers that lack some; set up partly by either of two calls | a whole set replaces a whole set; what is held is of the present role |
| URI, query, signature (`request.c:58-646`, `assume_role.c:122-504`) | `path_buffer`, `query_buffer`, `uri_buffer`, `signing_data` | built per request | lengths at the limit of the buffers, positions counted by hand, four combinations of headers in three places | what is signed is what is sent, and neither is cut off |
| XML parser (`xml.c`) and error message (`response.c:25-84`) | a cursor over the body, the frames of the recursion | `xml_parse_document`, accessors, `parse_error_message` | bodies cut off anywhere, damaged or laid out differently; a failure unwinds every frame | reads stay within the body, it ends, the tree and the message are the server's |
| SHA-256, HMAC (`sha256*.c`) | hash state, block buffer | `sha256_vector`, `hmac_sha256_vector` | padding at 56 and 64 bytes | not modelled |
| Library (`marias3.c:24-156`) | allocator functions, `mutex_buf` | `ms3_library_init`, `_init_malloc`, `_deinit` | OpenSSL's lock callbacks, allocators that differ | not modelled |
| Debug, error texts (`debug.c`, `error.c`) | one flag, a table | | flag is shared by threads | - |

`marias3.c` is the API: each function checks its arguments and calls
`execute_request()` or `execute_assume_role_request()`. These configure the one
curl handle of the `ms3_st`, run `curl_easy_perform()`, which calls the header
and body callbacks, turn the status into a result and hand the body to a parser
of `response.c`, which uses `xml.c`. Lists and roles recurse for further pages.

## Modules

| Module | What it is |
|---|---|
| `ListingSpec` | what a list call promises its caller, without pages |
| `Listing` | the paged listing, the bucket and its other writers; implements `ListingSpec` |
| `ListPool` | blocks, elements, keys and links of the list |
| `ResponseBuffer` | the buffer of `body_callback()` |
| `XmlParser` | `xml_parse_document()`: cursor, frames, tree, allocations |
| `Response` | composes the two: an answer from its first byte to `ms3_server_error()` |
| `Request` | calls on one handle, one after another: options, callbacks, results, heap |
| `RoleSession` | what an application may count on when a handle takes on a role |
| `RoleCredentials` | the role, its ARN and the three credential buffers; implements `RoleSession` |
| `Signing` | extends it by the requests in between: order and length of what is sent and signed |
| `Move` | copies and moves of several clients on one store |
| `ListingProofs`, `ListPoolProofs`, `ResponseBufferProofs`, `XmlParserProofs`, `ResponseProofs`, `RequestProofs`, `SigningProofs`, `MoveProofs` | theorems about the module they are named after (`SigningProofs`: about `Signing` and the `RoleCredentials` in it) |
| `MCListing`, `MCListPool`, `MCResponse`, `MCRequest`, `MCSigning`, `MCMove` | constants for TLC |

`Listing` uses `ListingSpec` and `RoleCredentials` uses `RoleSession` by `INSTANCE`;
`Response` extends `ResponseBuffer` and `XmlParser`, `Signing` extends
`RoleCredentials`. The others look at the same functions from different sides and
abstract from what the others model: `Listing` takes a list to be a count per name and
a page to arrive whole; `ListPool` shows that the elements in memory are that list;
`ResponseBuffer` that the body arrives whole; `Response` that it is also read and
reported rightly; `Request` that the transfer was configured as its command asks and
what every frame of the recursion gives back of what it owns.

An operator called `Op_Change` is `Op` with a bug somebody might write; no
action uses it. Putting it in the place of `Op` makes the property that guards
against this bug fail.

### Listing

`continuation` is the argument of the running `execute_request()`, `container`
is `ms3->list_container`, `list` the caller's pointer. The recursion is a loop:
an outer frame does nothing after the inner one but return. `ListCall` is the
call up to the first transfer, `PageArrives(P)` a 200 answer with the entries P
through the whole of `parse_list_response()`, `PageFails` every error,
`PageUnparsable` a 200 answer that is no XML, whose parse error
`execute_request()` drops. Names are numbers because all that matters of a key
is its order; `Kind` tells objects, keys that end in '/' and common prefixes
apart. The server's part (`IsPage`: the entries after the marker or token, without
gaps; `PutObject`, `DeleteObject`) is external.

The history `exact` says whether the call got only answers that it could go on from: all
readable, and in version 1 no page but the last one ending with a directory or a marker of
one, behind which `last_key` does not point. It is defined by what the server sent, not by
what the code made of it. `ListCompleteIfExact`, `NoDuplicates` and `ListingSpec` promise
completeness and single entries to these calls only (`Spoil` is the step of `ListingSpec` for
the others); `ListComplete`, without the condition, is the property that fails in
`list_v1_incomplete`. `ListTruthful`, `MarkerAdvances` and `ListReturns` have no condition.

### ListPool

A pointer is a block and an index, a key is an allocation. `GetNextListPtr` is
`NewBlock` (`malloc()`) or `SameBlock` (`next++`); `AddEntry` includes the
linking and the key. `lastptr` starts each page at the end of the page before.
`order` and `added` are histories of what was handed out and what the server sent.
`Elements` is the walk of `list_free()` from `start` along the links.

### ResponseBuffer

`data` is a function from the offsets that were written to the number of the byte
of the body; `size` is what `realloc()` was last asked for, so that a write
beyond it is a state and not just undefined. curl may deliver a piece of no bytes. As the
first one of a body it finds `alloced` at 1 and no block, so that nothing is allocated and
the terminator goes through the null pointer: the state "crashed", which `InBounds`
describes exactly and admits nowhere else.

### XmlParser and Response

A text is a sequence of characters; a name or content is a span of it, as in the
code, where `xml_string` is a pointer and a length. The recursion of
`xml_parse_node()` is the path `at` of the node being parsed; its open frames are the
prefixes of that path, and `heap` says which frame or node owns what. `TagOpen`,
`Content`, `Child` and `TagClose` are the steps of one frame, `Make` its
`node_creation`, and `Refuse` its `exit_failure` together with that of every frame
around it. `Peek`, `Consume`, `SkipWhitespace` and the rest are the cursor functions
with their boundary cases: `xml_parser_consume()` stops at the last character,
`xml_parser_peek()` skips whitespace and answers 0 at the end, and `AfterMeta` may
leave the cursor behind the text.

`Describes(d, e)` says without any cursor what it means that the tree d stands in the
text, its nodes ending at e: each node begins right behind its elder brother or the tag of
its parent, is closed by its own name behind the last of its children or behind its
content, and nothing but whitespace is left between. `TreeIsInText` is that of the tree
the parser has made, with the ends that follow from its spans (`EndOf`). Where a tag ends is
the parser's notion (`Stop`): at the first place with only whitespace before the next `>`.
XML's is the `>` itself. The two agree in a text without whitespace before a `>` (`Tight`),
and for such texts `TreeIsInText` says that every tag and element ends with a `>` of the
text. What follows the root is not looked at, by the parser or by the property.

`Response` gives the parser the bytes in the block of `body_callback()`. `Refused` is
the call of `parse_error_message()`, `Reports` what it returns and `set_error_nocopy()`;
`Around`, `Found` and `ErrorText` are its search for the element. A root without
children makes it go through a null pointer (`response.c:51`), a state of its own
(`Crash`). That every error is reported (`ErrorIsReported`) therefore fails in
`response_crash`; that it is for every other root, however damaged the text, is
`ReportedUnlessChildless`.

### RoleCredentials, RoleSession and Signing

A buffer holds "empty", or a field of one of the sets that a server issued.
`InitAssumeRole`, `AssumeRole` and `Ec2SetCred` are the calls; `LookupEnds`,
`LookupFails`, `Assumed`, `AssumeFails` the ends of the two requests. `Assumed` takes
for each field what the answer did to its buffer (`Outcomes`): copied, cleared because the
element is empty, cleared because it is too long, or kept because the element is missing
or comes behind one that is too long. Only the third is an error to
`parse_assume_role_response()`; the history `whole` says whether the answer had all three
fields. What the code leaves undefined ends the behaviour in `pc = "undefined"`: after
`ms3_ec2_set_cred()` `strstr()` on a null ARN and a copy into a shorter buffer, on any handle
an ARN of 2048 bytes or more, or none, in the list of roles (`AnswerUndefined`).

`Signing` builds a request for the command and role of the state. A query and a list
of headers are sequences of names; of every text the length is known, with the numbers
of the code, so that the tests of `build_request_uri()` and the positions that
`generate_request_hash()` counts can be compared with what is written.

### Request

`pc` is "idle", "preparing" (before `curl_easy_perform()`) or "transferring".
`Start` begins a command; `Unwind(r)` is the return through all frames, to the
second command of `ms3_move()` or `ms3_assume_role()` or to the application.
`heap` holds what `execute_request()` owns by the depth of its frame.
`SetOptions` is the switch on the command and all `curl_easy_setopt()` calls;
`Reset` the test of `first_run`. `last_error`, `content_type_in` and the bodies
are "this" or "old": of the latest call that could set them, or of an earlier one.
The server may answer with any status and any body that goes with it; the
connection may fail at any time. 302 stands for the redirects that curl does not follow,
having no `Location`, but for 301, which the code tests.

### Move

`GivesUp` ends a call with an error in any state of its request: it was lost, its
answer was, or it is still on its way and joins `delayed`, to be executed at any later
time. The server executes a request in one step and refuses to copy an object onto
itself, as S3 does. `FailsLate` is an answer whose status passes for success although
nothing was done: a COPY that fails after status 200, or a redirect that is not followed.
The histories `copied`, `raced` and `deleted` say what the COPY of a
call took, whether another request changed source or destination since, and whether
its DELETE was executed. `Path` is what `generate_path()` makes of a key: it drops empty
parts, so that two keys may have one path. Only the source of a COPY is named by the
key itself, in a header.

## Runs

| Run | Bounds | Shows |
|---|---|---|
| `list` | 5 names of all kinds, both versions, pages of 1 or 2, 2 writes, unreadable answers | implements `ListingSpec`: complete and no duplicates but for the named answers; nothing invented, no page asked for twice, and the call returns |
| `pool` | blocks of 2, 3 blocks, 6 entries | chain, fresh elements, all released |
| `response` | 6 written documents of up to 35 characters, 4 damaged texts and 3 with whitespace before a `>`, a `/` behind the name or text behind the root; pieces of 0, 1 and 3, chunks of 1 and 4, every way to be cut off | no overrun but the empty first piece's, exact body, exact tree and message, a text that is nothing but its tree, nothing but attributes leaked, an end |
| `request` | all calls, role requests included, 2 pages; two timeouts, read callback and a role set or not | options as on a new handle; method, data, error, content type, heap, timeouts |
| `signing` | 2 roles, one name a part of the other; 2 sets, each answer with any fields copied, empty, missing or too long; lengths at which URI and `signing_data` are just full, and more; tokens up to the longest accepted | whole sets replace whole sets, all of the present role; signed is what is sent, in order, and whole as far as `signing_data` reaches |
| `move` | 2 clients, 3 objects, 2 contents, 3 calls or writes, delayed requests | success means moved; a copy stays; no object deleted that was not copied |
| `list_v1_incomplete`, `request_read_cb`, `request_role_timeout`, `response_crash`, `move_late`, `move_other_object` | few names or calls | see Findings |

The bounds are chosen so that the cases meet: three or more pages with a write
before, between and after them; a block that is full at the end of a page, in its
middle and at its start; pieces below, at and above the chunk size and bodies that
fill the buffer exactly; two commands of every pair on the same handle with a
failure at each point; two moves over the same object in either direction with a
third writer; documents in both layouts (S3's and IAM's) whose first byte, last byte and
every byte between may be the last that arrives; paths of 989 to 991 bytes and values of
958, 959, 982 and 983, around the lengths at which the last request fits; a source of 800
bytes beside a token of 948, the longest for which the canonical request fits, and one of
2047, the longest that is accepted, for which it does not. Constants
that bound the state space only: `MaxName`, `MaxWrites`,
`MaxBody`, `MaxEntries` and `Blocks`, `MaxDepth` (pages), `MaxCalls`. Deadlock is
checked except in `pool` (a handle ends with `ms3_deinit()` or a crash), in the runs of
`Move` (after the last call that the bound allows), in `response` and `response_crash` (the
null pointers) and in `signing` (an undefined step).

Fairness is used twice. `FairSpec` of `Listing` has weak fairness of `Answer`: while
a page is asked for the code sits in `curl_easy_perform()`, which returns with an
answer or with an error; after it the code runs without waiting. `ResponseSpec` has
weak fairness of `Handles`: once curl has returned, the parser and
`parse_error_message()` are straight computation. Nothing is assumed of other clients,
of the network or of the application.

## Findings

Runs that fail, each for what the code does against what the project says of it;
`PROJECT.json` quotes the lines.

- `list_v1_incomplete`: with list version 1 a truncated page of directories only
  ends `ms3_list_dir()` with success (`response.c:319` needs a key of `Contents`).
- `request_read_cb`: with a read callback the error document is streamed as if it
  were the object (`request.c:891`).
- `request_role_timeout`: the requests for a role run without the timeouts of the handle
  (`assume_role.c:580-591`), which the documentation of the options does not say.
  `TimeoutApplied` is what holds for all others.
- `response_crash`: an error document whose root has no child ends the process
  (`response.c:49-51`), although the release notes count junk as fixed.
- `move_late`: a COPY that fails after status 200, or is answered by a redirect, is followed
  by the DELETE of the source (`request.c:998`). `MoveProofs.DeletesOnlyCopied`: without such
  an answer nothing is deleted that was not copied.
- `move_other_object`: `ms3_move()` of a key with an empty part, as "a//b", copies that
  object and deletes the object "a/b" (`request.c:161` and `474-477`).
  `MoveProofs.DeletesOwnSource`: with keys that `generate_path()` leaves as they are, what
  is deleted is the source.

What the models contain and no run states as a property:

- A version 1 marker may lie before directories of the same page, which are then
  listed twice (`response.c:275`), the second way in which `exact` becomes false.
- A 200 answer that is no XML ends a listing with success and what it has so far:
  `request.c:978` drops the parser's MS3_ERR_RESPONSE_PARSE, which `docs/api/errors.rst:15`
  has for such answers. `PageUnparsable` is that step; `ListCompleteIfExact` excepts it.
- A first piece without bytes, which curl's contract allows, makes `body_callback()` write
  its terminator through a null pointer (`request.c:707`, `731`): the exception in `InBounds`.
- A redirect that curl does not follow (300, 302, 303, 307 or 308 without `Location`) is a
  success in every command; `ms3_get()` hands out its body as the object. In the requests of
  a role 301 is one, too (`request.c:919-970`, `assume_role.c:603-641`): `SuccessIsServers`
  says that nothing else is.
- With a read callback the server's error message is lost (`request.c:933`).
- A block that cannot be allocated is dereferenced (`response.c:97`, `261`); a buffer
  that cannot grow is reported as `MS3_ERR_REQUEST_ERROR` (`request.c:719`). Nothing
  returns `MS3_ERR_OOM`.
- A failing later page of a list leaks the buffers of the outer frames (`request.c:986`),
  and a role that is found on a page that named a `Marker` before it leaks the marker
  (`assume_role.c:650`). `OnlyOuterPagesLeak` says that nothing else does.
- A lookup of the role that the server refuses with 403 is reported as not found,
  because the parser's result overwrites that of the status (`assume_role.c:648`).
- With the credentials of a role the Authorization header of a COPY names
  `x-amz-copy-source` twice (`request.c:567-572`), and later pages of `ms3_list_dir()`
  with list version 2 sign `delimiter` before `continuation-token` (`request.c:186-268`):
  the exceptions in `SignsWhatItSends` and `QueryInOrder`.
- `ms3_ec2_set_cred()` and then `ms3_assume_role()`: a search in a null string
  (`marias3.c:730`), or, with the ARN of an earlier role, credentials copied into buffers as
  long as the ones before (`marias3.c:299-301`): "undefined", and the exception in
  `HeldForItsRole`.
- The ARN in the server's list of roles is written without a bound (`response.c:401`) into
  2048 bytes (`marias3.c:271`), and a role without an `Arn` as a null string: "undefined" on
  every handle.
- An answer of STS that lacks a field keeps the old one, an empty one clears it, and both
  return MS3_ERR_NONE (`response.c:453-511`): after a success the handle may hold parts of two
  sets, and sign with them. `KeepsSession` allows it for such answers only, and
  `HeldForItsRole` says that the parts at least are all of the present role.
- A token is accepted up to 2047 bytes (`response.c:493`) and a source key has any length,
  while the canonical request has 3072 bytes: from 1749 bytes of both together on it is cut
  off, `pos` passes the end and `sizeof(signing_data) - pos` wraps (`request.c:364`). The run
  `signing` comes to such requests; `HashedWhole` says that shorter ones are whole.
- `ms3_init_assume_role()` names the role and empties the buffers before the role is
  assumed; if that fails requests are signed with empty credentials (`marias3.c:249`). So
  are those after an answer without `Credentials`, which is a success
  (`response.c:428-432`).
- An error document whose root has no child makes `parse_error_message()` use a null
  pointer (`response.c:51`); the text of an empty `<Message>` is never written
  (`response.c:71-75`); names are compared as far as the element's own name goes
  (`xml.c:967`).
- A frame of `xml_parse_node()` that fails does not release its attributes
  (`xml.c:801-824`), the exception in `NothingElseLeaks`.
- Three layouts that XML allows are misread, and `ReadsAsWritten` leaves them out: in `<a >x</a>`
  the blank is consumed and not the `>`, so that the content is ">x" (`xml.c:522-549`); for the
  same reason `</a >` is refused inside another element; and `<a/>` keeps the name "a/",
  although the comment at `xml.c:730` has the `/` dropped. The texts `Loose` of the run
  `response` have all three. Text behind the root is accepted and ignored.

And outside the models: `content_type_in` is neither initialised by `ms3_init()`
nor reset by a GET whose URI is too long (`functions.rst:416`); a
`BUFFER_CHUNK_SIZE` of 1 is accepted though the documentation asks for more than 1; the
texts of `MS3_ERR_URI_TOO_LONG` and `MS3_ERR_RESPONSE_PARSE` are exchanged in `error.c`;
`mutex_buf` comes from `malloc()` and goes to `ms3_cfree()` (`marias3.c:131`, `152`); a role's
secret is accepted up to 1023 bytes and its first 128 sign (`request.c:526`); `path_buffer` is
overrun in `generate_path()` before the length of the URI is tested (`request.c:166`).

## Proofs

All theorems are of the specification as a whole and hold for every value of the
constants; the assumptions on the constants are the named `ASSUME`s of the
modules, which TLC evaluates in every run.

- `Listing`: `TypeCorrect`, `Truth`, `Complete`, `NoneTwice` and `Implements` without further
  assumption. The properties are not inductive. The invariant adds, while a
  page is asked for and nothing has spoiled the call, that the list holds exactly entries up
  to `continuation`, each once, and every entry up to it that stayed in the bucket; a page
  adds entries beyond it and moves it behind them. `Implements` maps a page that is not the
  last to a stutter or to `Spoil`, and the last one to `Return` of `ListingSpec`.
  `CompleteUnlessDirectories` shows when nothing spoils a call: with tokens, or markers over a
  bucket of objects, as long as the answers are readable, `ListComplete` holds. It needs that
  a page has a last entry, by the least upper bound of its names.
- `ResponseBuffer`: `NoOverrun`, `WholeBody`, `BufferTypes`. The invariant: `length
  < alloced`, the block has `alloced` bytes or is NULL with nothing received, and the
  bytes below `length` are the body so far, unless an empty first piece has ended the process. `Grows` tests `>=` and not `>`, which is
  what keeps the room for the terminator.
- `ListPool`: `Fresh`, `Chain`, `PoolTypes`, `Released`. The invariant relates `pool_free`
  to the index of `next`, says that elements behind `next` and of free blocks were not
  handed out, and that `lastptr` is the last one. For `Released` it adds that the keys
  allocated are those of the entries; that `list_free()` comes to them is
  `WalkVisitsEntries`: the walk, which `Elements` defines as the least set that `start` and
  the links lead to, is the entries, by the least entry that it would miss.
- `XmlParser`: `TypeCorrect`, `TagsAdvance`, `OnlyAttributesLeak`, `ChildrenAreNumbered`,
  `TextIsItsTree`, `EveryTreeIsRead`, `WrittenIsRead`; `Response`: `ParserReadsTheBody`,
  `ImplementsBuffer`, `AnswerArrivesWhole`, `AnswerTypeCorrect`, `AnswerLeaksAttributes`,
  `AnswerTagsAdvance`, `AnswerIsItsTree`, `AnswerTreeIsRead`, `AnswerIsReadAsWritten`,
  `MessageIsTheServers`, all for any set of texts. The invariant of
  the parser (`IInv`) adds which paths and spans can occur in which step; lemmas bound every
  cursor function. A tag consumes at least its `<`, which is why `Advances` holds although
  `xml_parser_consume()` may stay where it is at the end: there no `>` is found and the
  frame fails; `RankDecreases` turns this into a bound of two steps for every character.
  `Owned` says who will release what: everything belongs to a node that is made or to an
  open frame, a frame owns no node, and the root is made last, so that the root's
  `exit_failure` comes to all nodes that were made. `Numbered` says that the children of a
  node are numbered without gaps and that each open frame is the next of its parent, which
  is what lets `parse_error_message()` count children and then take them by number; with
  it, `AnswerTypeCorrect` shows that a message of the server is a piece of a body.
  The invariant of `Response` joins that of the buffer to that of the parser by
  `text = SubSeq(sent, 1, received)`, and the terminator of `body_callback()` is what the cursor may
  stand on when it stands behind the text. `AnswerArrivesWhole` takes what is proved of the
  buffer alone over to the composition, through `ImplementsBuffer`.
- What the parser reads, in both directions. *Soundness* (`TextIsItsTree`): whatever text
  is accepted, `Describes` holds of its tree. `Lineage` says how frames and nodes are
  related: a path is an open frame or a node, never both; whatever is known hangs on a
  known parent and, but for the first child, behind a finished brother. `InPlace` says that
  there are ends e for which every node made so far is an element in its place, every open
  tag stands in its place, and the cursor is where the next piece is looked for. Ends are
  existential there since a step adds the end of one node; that they are those of `EndOf`
  follows at the end, because the equation of `EndOf` has one solution: of the nodes on
  which two would differ, take one with the fewest descendants, and its last child has
  fewer. *Completeness* (`EveryTreeIsRead`): whatever tree the text describes, the text is
  not refused and the result is that tree. For a given tree d, `Agrees(d)` says that what
  has been read is a part of d and that the next step will read what d has there; `Follows`
  is this for all d. No step of a text with a tree can come to `Refuse`, and at the end no
  node of d is missing: of those that are, take one closest to the root; its parent was
  read, with all its children. Together: a text is accepted exactly if a tree stands in it,
  and that tree is unique.
- `ReadsAsWritten` and `MessageExact` compare with what the documents are meant to say,
  which `Written` and `Messages` give as constants. The theorems about them therefore assume
  that the documents say it, in terms of the text alone and not of the parser:
  `WrittenDescribe` (the tree a document was written from stands in it) and
  `ServerWritesXml` (an error document has a tree whose first message, in the root or in a
  first child that is the error, is the one `Messages` has; no beginning of a written
  document has a tree). The documents of the run `response` are of this kind: each comes to
  its end with that tree, no beginning of one is accepted, and by `EveryTreeIsRead` what is
  not accepted has no tree.
- `Request`: `FreshOptions`, `RightMethod`, `TimeoutsAreApplied`, `LeavesNothingElse`,
  `TypeCorrect`, `FailedGetHasNoData`, `ErrorIsOfLastRequest`, `SuccessIsAnswered`,
  `ContentTypeIsOfLastGet`, `OneAnswerIsStreamed`. The invariant adds that the handle has
  its defaults until `first_run` is cleared, by either request function; for the heap, that what is allocated
  belongs to a frame that is still there or is the marker of a page of roles; for what a
  caller is told (`AnswerInv`), that data stays NULL until the result is known, that the
  buffer has the whole body unless the application takes it, that the content type was
  cleared before the object is asked for, and that no request is prepared over an error of
  the one before; for what a read callback is given (`StreamInv`), that it
  is the body of the latest request and that this is a GET.
- `RoleCredentials`, within `Signing`: `RoleTypeCorrect`, `HeldForOwnRole`,
  `ImplementsSession`. The invariant: while the buffers are those of
  `ms3_init_assume_role()`, the ARN is the role's own or empty and every field was issued
  for the role; a set that is held has been issued, so that a new one is not mixed up with
  it. `ImplementsSession` maps an answer with three fields that fit to `Obtain` and every
  other one to `Spoil`, which shows in the result or in `whole`.
- `Signing`, the requests in between: `TypeCorrect`, `QueryIsInOrder`, `UriIsWhole`,
  `SignsWhatIsSent` and `HashedIsWhole`, for all lengths of paths, names, sources and tokens.
  `HashedIsWhole` shows that the position is counted rightly at every length and that the
  request fits up to 1748 bytes of source and token together, which is the exact limit: with
  1749 TLC finds a request that does not. They rest on what one request is
  (`SentInv`), not on its history; the work is in lemmas about queries and lists of headers
  that are put together from at most five parts, each in order and each between its
  neighbours, and about the lengths of these parts.
- `Move`: `TypeCorrect`, `NeverLosesItsCopy`, `SuccessIsAMove`, `DeletesWithCopy`, and the
  exact conditions of two findings, `DeletesOnlyCopied` and `DeletesOwnSource`. The
  invariant says for every client what its histories imply: a COPY that nobody
  disturbed is at its destination, its source is as it was until the DELETE is executed,
  and a step "DELETE" comes only after a COPY that succeeded. A write by another client, or
  by a request given up before, either concerns neither object or sets `raced`.

- `Listing` again: `Advances`, for markers and tokens alike: every further page begins
  beyond the page before. It and `RankDecreases` are the part of `ListReturns` and
  `ReportedUnlessChildless` that needs no fairness.

Only model-checked: `ListReturns` and `ReportedUnlessChildless` (liveness under fairness is beyond
the prover); the parts of them that need no fairness are `Advances`. No module declares a
RECURSIVE operator. `EndOf` is a recursive function; what is used of it is its equation, and
that the equation has one solution is proved by the least counterexample. What a walk
reaches is a least set (`Elements`), and a sum over the parts of a query is written out,
since there are at most five (`Joined`).

## Not modelled

- Characters of URIs, queries, headers and dates: `Signing` has their order and length.
  Percent encoding, the HMAC chain and the digest are functions of data.
- `sha256.c` and its companions: third-party code that keeps nothing between calls.
- Library initialisation and OpenSSL's locks: called before and after all threads; the
  lock callbacks forward to pthread mutexes and exist for OpenSSL before 1.1 only.
- The debug flag and the error texts: no effect on what the library does.
- Of `xml.c`: the strings of the attributes, which nobody reads, and the functions the
  library does not call (`xml_open_document()`, `xml_easy_child()`, `xml_easy_name()`).
- What list and role parsers do with entries that lack a `Key` or a `RoleName`
  (`response.c:269`, `398`), which S3 and IAM always send.
- How long an application may use what a handle lends it (`ms3_server_error()`, a list).
- Sizes are unbounded integers but where `Signing` has the buffers' own: no body or list
  comes near the range of `size_t`.
- Windows, the build and the tests.

## Plan

Done: 1 `ListingSpec`, `Listing`; 2 `ResponseBuffer`; 3 `ListPool`; 4 `Request`; 5 `Move`;
6 `RoleCredentials`, `RoleSession`; 7 `Signing`; 8 `XmlParser`, `Response`; the proofs above.

All safety and action properties of the passing runs are theorems; liveness is model-checked.

9. `Lifetimes`: what a handle lends out (the list, the error message, the content type)
    and until when.
10. The parsers of lists and roles on trees with missing parts, in `Response`.
