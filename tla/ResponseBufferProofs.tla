------------------------ MODULE ResponseBufferProofs ------------------------
(***************************************************************************)
(* Proofs about the response buffer, for every chunk size, every sequence  *)
(* of piece sizes and every body length.                                   *)
(***************************************************************************)
EXTENDS ResponseBuffer, TLAPS

LEMMA CeilTimes ==
  ASSUME NEW a \in Nat, NEW b \in Nat \ {0}
  PROVE  Ceil(a, b) \in Nat /\ Ceil(a, b) * b >= a
<1> DEFINE q == (a + b - 1) \div b
           r == (a + b - 1) % b
<1>1. a + b - 1 \in Nat
  OBVIOUS
<1>2. q \in Nat /\ r \in 0..(b - 1) /\ a + b - 1 = b * q + r
  BY <1>1, Z3
<1>3. b * q = q * b
  BY <1>2
<1> QED
  BY <1>2, <1>3 DEF Ceil

\* Growing once always makes room for the piece.
LEMMA AdditionalSizeSuffices ==
  ASSUME NEW n \in Nat, buffer_chunk_size \in Nat \ {0}
  PROVE  AdditionalSize(n) \in Nat /\ AdditionalSize(n) >= n
<1> DEFINE c == Ceil(n, buffer_chunk_size)
<1>1. CASE n >= buffer_chunk_size
  <2>1. c \in Nat /\ c * buffer_chunk_size >= n
    BY CeilTimes
  <2>2. (c + 1) * buffer_chunk_size = c * buffer_chunk_size + buffer_chunk_size
    BY <2>1
  <2>3. AdditionalSize(n) = (c + 1) * buffer_chunk_size
    BY <1>1 DEF AdditionalSize
  <2> QED
    BY <2>1, <2>2, <2>3
<1>2. CASE ~(n >= buffer_chunk_size)
  BY <1>2 DEF AdditionalSize
<1> QED
  BY <1>1, <1>2

-----------------------------------------------------------------------------
(***************************************************************************)
(* The inductive invariant                                                 *)
(***************************************************************************)

\* No block yet: alloced counts the byte that is not there.
NoBlock == size = 0 /\ alloced = 1 /\ length = 0 /\ DOMAIN data = {}

\* The block holds the body received so far and its terminator.
Block == /\ size = alloced
         /\ length < alloced
         /\ DOMAIN data = 0..length
         /\ \A i \in 0..(length - 1) : data[i] = i + 1
         /\ data[length] = NUL

Collected == /\ pc = "receiving" => length = received /\ (NoBlock \/ Block)
             /\ pc = "idle" => size = 0 /\ DOMAIN data = {}
             /\ pc = "crashed" => received = 0 /\ size = 0 /\ DOMAIN data = {0}

BufferInv == TypeOK /\ Collected /\ BodyExact

LEMMA BufferInit == Init => BufferInv
<1> SUFFICES ASSUME Init PROVE BufferInv
  OBVIOUS
<1>1. /\ DOMAIN data = {} /\ DOMAIN body = {"size", "data", "length"}
      /\ body.length = 0
  BY DEF Init, NoBytes, Nothing
<1>3. 0 \in 0..MaxBody
  BY BufferAssumption
<1>4. TypeOK
  BY <1>1, <1>3 DEF Init, TypeOK
<1>5. Collected /\ BodyExact
  BY <1>1 DEF Init, Collected, BodyExact
<1> QED
  BY <1>4, <1>5 DEF BufferInv

LEMMA BufferInBounds == BufferInv => InBounds
  BY DEF BufferInv, TypeOK, Collected, NoBlock, Block, InBounds

\* An empty piece to no block ends the process.
LEMMA EmptyFirstPiece ==
  ASSUME BufferInv, NEW n \in Pieces, Deliver(n), size = 0, ~Grows(n)
  PROVE  BufferInv'
<1>1. /\ n \in Nat /\ pc = "receiving" /\ length = received
      /\ NoBlock \/ Block
  BY BufferAssumption DEF Deliver, BufferInv, Collected
<1>2. NoBlock /\ n = 0 /\ received = 0
  BY <1>1 DEF BufferInv, TypeOK, NoBlock, Block, Grows
<1>3. /\ pc' = "crashed" /\ size' = 0 /\ length' = 0 /\ alloced' = 1
      /\ received' = 0
  BY <1>2 DEF Deliver, NoBlock
<1>4. data' = [i \in {0} |-> NUL]
  <2>1. DOMAIN data \cup 0..(length + n) = {0}
    BY <1>2 DEF NoBlock
  <2>2. \A i \in {0} : ~(i < length) /\ ~(i < length + n)
    BY <1>2 DEF NoBlock
  <2> QED
    BY <2>1, <2>2 DEF Deliver, Appended
<1> QED
  BY <1>2, <1>3, <1>4 DEF Deliver, BufferInv, TypeOK, Collected, BodyExact, NUL

\* After any other piece there is a block, and it holds the longer body.
LEMMA DeliverStep ==
  ASSUME BufferInv, NEW n \in Pieces, Deliver(n)
  PROVE  BufferInv'
<1> SUFFICES ASSUME size # 0 \/ Grows(n) PROVE BufferInv'
  BY EmptyFirstPiece
<1> USE DEF BufferInv, TypeOK, Collected
<1>1. /\ n \in Nat /\ buffer_chunk_size \in Nat \ {0}
      /\ pc = "receiving" /\ length = received
      /\ length' = length + n /\ received' = received + n
      /\ received' \in 0..MaxBody
  BY BufferAssumption DEF Deliver
<1>2. AdditionalSize(n) \in Nat /\ AdditionalSize(n) >= n
  BY <1>1, AdditionalSizeSuffices
<1>3. length < alloced
  BY <1>1 DEF NoBlock, Block
<1>4. /\ alloced' \in Nat \ {0} /\ size' = alloced'
      /\ length' < alloced'
  <2>1. CASE Grows(n)
    BY <1>1, <1>2, <1>3, <2>1 DEF Deliver
  <2>2. CASE ~Grows(n)
    <3>1. Block
      BY <1>1, <2>2 DEF NoBlock
    <3> QED
      BY <1>1, <2>2, <3>1 DEF Deliver, Grows, Block
  <2> QED
    BY <2>1, <2>2
<1>0. pc' = "receiving"
  BY <1>1, <1>4 DEF Deliver
<1>5. DOMAIN data \subseteq 0..length /\ (length > 0 => DOMAIN data = 0..length)
  BY <1>1 DEF NoBlock, Block
<1>6. data' = [i \in 0..length' |->
                 IF i < length THEN data[i]
                 ELSE IF i < length' THEN received + (i - length) + 1 ELSE NUL]
  BY <1>1, <1>5 DEF Deliver, Appended
<1>7. \A i \in 0..(length' - 1) : data'[i] = i + 1
  <2> SUFFICES ASSUME NEW i \in 0..(length' - 1) PROVE data'[i] = i + 1
    OBVIOUS
  <2>1. i \in 0..length'
    BY <1>1
  <2>2. CASE i < length
    <3>1. data[i] = i + 1
      BY <1>1, <2>2 DEF NoBlock, Block
    <3> QED
      BY <1>6, <2>1, <2>2, <3>1
  <2>3. CASE ~(i < length)
    <3>1. i \in Nat /\ length \in Nat /\ received = length /\ i < length'
      BY <1>1
    <3> HIDE DEF BufferInv, TypeOK, Collected
    <3>2. data'[i] = received + (i - length) + 1
      BY <1>6, <2>1, <2>3, <3>1
    <3> QED
      BY <3>1, <3>2
  <2> QED
    BY <2>2, <2>3
<1>8. data'[length'] = NUL
  BY <1>1, <1>6
<1>9. Block'
  BY <1>1, <1>4, <1>6, <1>7, <1>8 DEF Block
<1>10. Collected'
  BY <1>0, <1>1, <1>9
<1>11. \A i \in DOMAIN data' : data'[i] \in Nat
  <2> SUFFICES ASSUME NEW i \in 0..length' PROVE data'[i] \in Nat
    BY <1>9 DEF Block
  <2>1. CASE i = length'
    BY <1>8, <2>1 DEF NUL
  <2>2. CASE i # length'
    <3>1. i \in 0..(length' - 1)
      BY <1>1, <2>2
    <3> QED
      BY <1>7, <3>1
  <2> QED
    BY <2>1, <2>2
<1>12. TypeOK'
  BY <1>0, <1>1, <1>4, <1>9, <1>11 DEF Deliver, Block
<1> QED
  BY <1>0, <1>1, <1>10, <1>12 DEF BodyExact

LEMMA FailStep ==
  ASSUME BufferInv, NEW r \in Failures, Fail(r)
  PROVE  BufferInv'
<1>1. r # "MS3_ERR_NONE"
  BY DEF Failures
<1> QED
  BY <1>1 DEF Fail, BufferInv, TypeOK, Collected, BodyExact, NoBytes, Nothing

LEMMA BufferStep == BufferInv /\ [Next]_vars => BufferInv'
<1> SUFFICES ASSUME BufferInv, [Next]_vars PROVE BufferInv'
  OBVIOUS
<1>1. ASSUME NEW chunk \in Chunks, Begin(chunk) PROVE BufferInv'
  <2>1. DOMAIN data' = {} /\ DOMAIN body' = {"size", "data", "length"}
    BY <1>1 DEF Begin, NoBytes, Nothing
  <2>2. TypeOK'
    <3>1. \A i \in DOMAIN data' : data'[i] \in Nat
      BY <2>1
    <3>2. DOMAIN data' \subseteq Nat
      BY <2>1
    <3>3. 0 \in 0..MaxBody
      BY BufferAssumption
    <3>4. res' \in Failures \cup {"MS3_ERR_NONE"}
      BY <1>1 DEF Begin, BufferInv, TypeOK
    <3> QED
      BY <1>1, <2>1, <3>1, <3>2, <3>3, <3>4 DEF Begin, TypeOK
  <2>3. Collected' /\ BodyExact'
    BY <1>1, <2>1 DEF Begin, Collected, BodyExact, NoBlock
  <2> QED
    BY <2>2, <2>3 DEF BufferInv
<1>2. ASSUME NEW n \in Pieces, Deliver(n) PROVE BufferInv'
  BY <1>2, DeliverStep
<1>3. ASSUME NEW n \in Pieces, Deny(n) PROVE BufferInv'
  BY <1>3, FailStep DEF Deny, Failures
<1>4. ASSUME NEW r \in Failures, TransferFails(r) PROVE BufferInv'
  BY <1>4, FailStep DEF TransferFails
<1>5. CASE TransferEnds
  <2>1. /\ pc = "receiving" /\ length = received /\ (NoBlock \/ Block)
        /\ received \in Nat
    BY <1>5 DEF TransferEnds, BufferInv, TypeOK, Collected
  <2>2. BodyExact'
    BY <1>5, <2>1 DEF TransferEnds, BodyExact, NoBlock, Block
  <2> QED
    BY <1>5, <2>2 DEF TransferEnds, BufferInv, TypeOK, Collected, NoBytes
<1>6. CASE UNCHANGED vars
  BY <1>6 DEF vars, BufferInv, TypeOK, Collected, BodyExact, NoBlock, Block
<1> QED
  BY <1>1, <1>2, <1>3, <1>4, <1>5, <1>6 DEF Next

\* body_callback() writes only to the block it has, for every chunk size and
\* every way curl cuts the body into pieces, empty ones included: but for the
\* terminator of an empty first piece, with which the process ends.
THEOREM NoOverrun == Spec => []InBounds
  BY BufferInit, BufferStep, BufferInBounds, PTL DEF Spec

\* A successful ms3_get() returns the body the server sent, byte for byte.
THEOREM WholeBody == Spec => []BodyExact
<1>1. BufferInv => BodyExact
  BY DEF BufferInv
<1> QED
  BY <1>1, BufferInit, BufferStep, PTL DEF Spec

\* The variables keep their types.
THEOREM BufferTypes == Spec => []TypeOK
<1>1. BufferInv => TypeOK
  BY DEF BufferInv
<1> QED
  BY <1>1, BufferInit, BufferStep, PTL DEF Spec
=============================================================================
