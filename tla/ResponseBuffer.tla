--------------------------- MODULE ResponseBuffer ---------------------------
(***************************************************************************)
(* The buffer that collects the body of a response: execute_request() and  *)
(* execute_assume_role_request() point curl at body_callback(), which is   *)
(* called with one piece of the body after another and grows the buffer by *)
(* MS3_OPT_BUFFER_CHUNK_SIZE bytes or by a multiple of it.  ms3_get()      *)
(* hands the buffer to its caller.                                         *)
(*                                                                         *)
(* The bytes of a body are numbered from 1; NUL stands for the terminator. *)
(* Sizes are unbounded: no body comes near the range of size_t.            *)
(*                                                                         *)
(* An operator named after another one, as Op_Change, is Op with a bug; it *)
(* is used only to see that the properties notice such a bug.              *)
(***************************************************************************)
EXTENDS Integers

CONSTANTS Chunks,     \* values MS3_OPT_BUFFER_CHUNK_SIZE is set to
          Pieces,     \* sizes of the pieces that curl delivers, 0 among them
          MaxBody     \* bound on the length of a body

NUL == 0

ASSUME BufferAssumption ==
  /\ Chunks \subseteq Nat \ {0}
  /\ Pieces \subseteq Nat
  /\ MaxBody \in Nat

Failures == {"MS3_ERR_REQUEST_ERROR", "MS3_ERR_ENDPOINT", "MS3_ERR_NOT_FOUND",
             "MS3_ERR_AUTH", "MS3_ERR_SERVER", "MS3_ERR_AUTH_ROLE"}

VARIABLES pc,                  \* "idle"; "receiving": inside curl_easy_perform();
                               \* "crashed": the process has come to an end there
          buffer_chunk_size,   \* mem.buffer_chunk_size
          size,                \* size of the block mem.data, 0 when it is NULL
          data,                \* the bytes of the block written so far
          length, alloced,     \* mem.length, mem.alloced
          received,            \* history: bytes of the body delivered by curl
          body,                \* *data and *length of the caller of ms3_get()
          res

vars == <<pc, buffer_chunk_size, size, data, length, alloced, received,
          body, res>>

NoBytes == [i \in {} |-> NUL]
Nothing == [size |-> 0, data |-> NoBytes, length |-> 0]

Init == /\ pc = "idle"
        /\ buffer_chunk_size \in Chunks
        /\ size = 0 /\ data = NoBytes
        /\ length = 0 /\ alloced = 1
        /\ received = 0
        /\ body = Nothing
        /\ res = "MS3_ERR_NONE"

\* A request begins with an empty buffer; alloced counts the terminator.
Begin(chunk) == /\ pc = "idle"
                /\ pc' = "receiving"
                /\ buffer_chunk_size' = chunk
                /\ size' = 0 /\ data' = NoBytes
                /\ length' = 0 /\ alloced' = 1
                /\ received' = 0
                /\ body' = Nothing
                /\ UNCHANGED res
-----------------------------------------------------------------------------
(***************************************************************************)
(* body_callback()                                                         *)
(***************************************************************************)

\* The terminator is forgotten.
Grows_NoTerminator(n) == n + length > alloced

Grows(n) == n + length >= alloced

\* ceil((double) a / (double) b)
Ceil(a, b) == (a + b - 1) \div b

AdditionalSize(n) ==
  IF n >= buffer_chunk_size
  THEN (Ceil(n, buffer_chunk_size) + 1) * buffer_chunk_size
  ELSE buffer_chunk_size

\* The piece is copied to the start of the buffer.
Appended_AtStart(n) ==
  [i \in DOMAIN data \cup 0..(length + n) |->
     IF i < n THEN received + i + 1
     ELSE IF i = length + n \/ i \notin DOMAIN data THEN NUL ELSE data[i]]

\* memcpy() of n bytes behind the buffer's content, then the terminator.
Appended(n) ==
  [i \in DOMAIN data \cup 0..(length + n) |->
     IF i < length THEN data[i]
     ELSE IF i < length + n THEN received + (i - length) + 1 ELSE NUL]

\* curl may deliver a piece without bytes.  The first piece of a body then comes
\* to no block: alloced counts a byte that is not there, nothing is allocated, and
\* the terminator is written through the null pointer.
Deliver(n) == /\ pc = "receiving"
              /\ received + n <= MaxBody
              /\ IF Grows(n)
                 THEN /\ alloced' = alloced + AdditionalSize(n)
                      /\ size' = alloced + AdditionalSize(n)
                 ELSE UNCHANGED <<alloced, size>>
              /\ pc' = IF size' = 0 THEN "crashed" ELSE pc
              /\ data' = Appended(n)
              /\ length' = length + n
              /\ received' = received + n
              /\ UNCHANGED <<buffer_chunk_size, body, res>>
-----------------------------------------------------------------------------
(***************************************************************************)
(* The end of the transfer                                                 *)
(***************************************************************************)

\* The buffer is released and the caller gets nothing.
Fail(r) == /\ pc' = "idle"
           /\ size' = 0 /\ data' = NoBytes
           /\ res' = r
           /\ body' = Nothing
           /\ UNCHANGED <<buffer_chunk_size, length, alloced, received>>

\* realloc() fails: body_callback() returns 0 and curl gives up.
Deny(n) == /\ pc = "receiving"
           /\ received + n <= MaxBody
           /\ Grows(n)
           /\ Fail("MS3_ERR_REQUEST_ERROR")

TransferFails(r) == /\ pc = "receiving"
                    /\ Fail(r)

\* buf->data = mem.data; buf->length = mem.length: the caller owns the block.
TransferEnds == /\ pc = "receiving"
                /\ pc' = "idle"
                /\ res' = "MS3_ERR_NONE"
                /\ body' = [size |-> size, data |-> data, length |-> length]
                /\ size' = 0 /\ data' = NoBytes
                /\ UNCHANGED <<buffer_chunk_size, length, alloced, received>>

Next == \/ \E chunk \in Chunks : Begin(chunk)
        \/ \E n \in Pieces : Deliver(n) \/ Deny(n)
        \/ \E r \in Failures : TransferFails(r)
        \/ TransferEnds

Spec == Init /\ [][Next]_vars
-----------------------------------------------------------------------------
(***************************************************************************)
(* Properties                                                              *)
(***************************************************************************)

TypeOK == /\ pc \in {"idle", "receiving", "crashed"}
          /\ buffer_chunk_size \in Chunks
          /\ size \in Nat /\ length \in Nat /\ alloced \in Nat \ {0}
          /\ DOMAIN data \subseteq Nat
          /\ \A i \in DOMAIN data : data[i] \in Nat
          /\ received \in 0..MaxBody
          /\ DOMAIN body = {"size", "data", "length"}
          /\ res \in Failures \cup {"MS3_ERR_NONE"}

\* Every byte that body_callback() writes, the terminator included, lies in
\* the block that realloc() returned, for any sequence of piece sizes -- but for
\* one: the terminator of an empty first piece, which is written where no block
\* is and ends the process.
InBounds == IF pc = "crashed" THEN received = 0 /\ size = 0 /\ DOMAIN data = {0}
                              ELSE DOMAIN data \subseteq 0..(size - 1)

\* The caller of a successful ms3_get() gets every byte of the body, in the
\* order the server sent them, and a terminator after the last one.
BodyExact ==
  pc = "idle" /\ res = "MS3_ERR_NONE" =>
    /\ body.length = received
    /\ \A i \in 0..(received - 1) : i \in DOMAIN body.data /\ body.data[i] = i + 1
    /\ received > 0 => received \in DOMAIN body.data /\ body.data[received] = NUL
=============================================================================
