--------------------------- MODULE ResponseProofs ---------------------------
(***************************************************************************)
(* The buffer and the parser together: what the parser reads is what the   *)
(* server sent, and it reads nothing else; it comes to its end, leaves     *)
(* nothing but attributes, the tree it gives is the one the bytes          *)
(* describe, and the message of a refused call is the one that tree says.  *)
(***************************************************************************)
EXTENDS Response, ResponseBufferProofs, XmlParserProofs

\* While the parser runs the transfer is over and its text is in the block.
Busy == parser # "idle" => /\ pc = "receiving" /\ size # 0
                           /\ text = SubSeq(sent, 1, received)

ResponseInv == /\ BufferInv /\ IInv /\ Busy
               /\ sent \in Seq(STRING)
               /\ received <= Len(sent)

LEMMA BodyIsSent ==
  ASSUME BufferInv, pc = "receiving", size # 0,
         sent \in Seq(STRING), received <= Len(sent)
  PROVE  Body = SubSeq(sent, 1, received) /\ Body \in Seq(STRING)
<1>1. length = received /\ received \in Nat
  BY DEF BufferInv, Collected, TypeOK, NoBlock, Block
<1>2. \A i \in 0..(length - 1) : i \in DOMAIN data /\ data[i] = i + 1
  BY <1>1 DEF BufferInv, Collected, NoBlock, Block
<1>3. \A i \in 1..received : Body[i] = sent[i]
  <2>1. ASSUME NEW i \in 1..received PROVE Body[i] = sent[i]
    <3>1. i - 1 \in DOMAIN data /\ data[i - 1] = i
      BY <1>1, <1>2
    <3>2. i \in 1..Len(sent)
      BY <1>1
    <3> QED
      BY <1>1, <3>1, <3>2 DEF Body
  <2> QED
    BY <2>1
<1>4. DOMAIN Body = 1..received
  BY <1>1 DEF Body
<1>5. SubSeq(sent, 1, received) \in Seq(STRING) /\ Len(SubSeq(sent, 1, received)) = received
  BY <1>1
<1>6. \A i \in 1..received : SubSeq(sent, 1, received)[i] = sent[i]
  BY <1>1
<1>7. Body = SubSeq(sent, 1, received)
  <2>1. Body = [i \in 1..received |-> Body[i]]
    BY <1>1 DEF Body
  <2>2. SubSeq(sent, 1, received) = [i \in 1..received |-> SubSeq(sent, 1, received)[i]]
    BY <1>1, <1>5
  <2> QED
    BY <1>3, <1>6, <2>1, <2>2
<1> QED
  BY <1>5, <1>7

LEMMA ResponseInitInv ==
  ASSUME Texts \subseteq Seq(STRING), ResponseInit
  PROVE  ResponseInv
<1>1. BufferInv /\ IInv
  BY BufferInit, InitIInv DEF ResponseInit
<1>2. parser = "idle" /\ sent \in Seq(STRING) /\ received = 0
  BY DEF ResponseInit, Init, XmlInit
<1> QED
  BY <1>1, <1>2 DEF ResponseInv, Busy

\* A step of the buffer alone, while the parser is not at work.
LEMMA BufferAlone ==
  ASSUME Texts \subseteq Seq(STRING), ResponseInv, parser = "idle",
         Next, UNCHANGED xmlVars,
         sent' \in Seq(STRING), received' <= Len(sent')
  PROVE  ResponseInv'
<1>1. BufferInv'
  BY BufferStep DEF ResponseInv
<1>2. IInv'
  BY NextIInv DEF ResponseInv
<1>3. parser' = "idle"
  BY DEF xmlVars
<1> QED
  BY <1>1, <1>2, <1>3 DEF ResponseInv, Busy

LEMMA FailsInNext ==
  ASSUME NEW r \in Failures, TransferFails(r)
  PROVE  Next
BY DEF Next

LEMMA ResponseStep ==
  ASSUME Texts \subseteq Seq(STRING), ResponseInv, [ResponseNext]_responseVars
  PROVE  ResponseInv'
<1> USE DEF ResponseInv
<1>0. received \in Nat /\ Len(sent) \in Nat /\ Pieces \subseteq Nat
  BY BufferAssumption DEF BufferInv, TypeOK
<1>1. ASSUME NEW chunk \in Chunks, NEW t \in Texts, Ask(chunk, t)
      PROVE  ResponseInv'
  <2>1. Next /\ UNCHANGED xmlVars /\ sent' = t /\ received' = 0 /\ pc = "idle"
    BY <1>1 DEF Ask, Begin, Next
  <2>2. parser = "idle"
    BY <2>1 DEF Busy
  <2>3. sent' \in Seq(STRING) /\ received' <= Len(sent')
    BY <2>1
  <2> QED
    BY <2>1, <2>2, <2>3, BufferAlone
<1>2. ASSUME NEW n \in Pieces, Arrives(n) PROVE ResponseInv'
  <2>1. /\ Next /\ UNCHANGED xmlVars /\ sent' = sent /\ parser = "idle"
        /\ received' = received + n /\ received + n <= Len(sent)
    BY <1>2 DEF Arrives, Deliver, Next, Receiving
  <2> QED
    BY <2>1, BufferAlone
<1>3. CASE Breaks
  <2>1. Next /\ UNCHANGED xmlVars /\ sent' = sent /\ parser = "idle"
    BY <1>3 DEF Breaks, Next, Failures, Receiving
  <2>2. received' = received
    BY <1>3 DEF Breaks, Deny, TransferFails, Fail
  <2> QED
    BY <2>1, <2>2, BufferAlone
<1>4. CASE Succeeds
  <2>1. /\ Next /\ UNCHANGED xmlVars /\ sent' = sent /\ parser = "idle"
        /\ received' = received
    BY <1>4 DEF Succeeds, Next, TransferEnds, Receiving
  <2> QED
    BY <2>1, BufferAlone
<1>5. CASE Refused
  <2>1. parser = "idle" /\ pc = "receiving" /\ sent' = sent
    BY <1>5 DEF Refused, Receiving
  <2>2. ASSUME NEW r \in StatusFailures, TransferFails(r), UNCHANGED xmlVars
        PROVE  ResponseInv'
    <3>1. Next /\ received' = received
      BY <2>2 DEF Next, StatusFailures, TransferFails, Fail
    <3> QED
      BY <2>1, <2>2, <3>1, BufferAlone
  <2>3. ASSUME size # 0, Call(Body), UNCHANGED vars PROVE ResponseInv'
    <3>1. Body = SubSeq(sent, 1, received) /\ Body \in Seq(STRING)
      BY <2>1, <2>3, BodyIsSent
    <3>2. IInv'
      BY <2>3, <3>1, CallIInv
    <3>3. BufferInv'
      BY <2>3, BufferStep
    <3>4. text' = SubSeq(sent, 1, received)
      BY <2>3, <3>1 DEF Call
    <3>5. pc' = pc /\ size' = size /\ received' = received
      BY <2>3 DEF vars
    <3> QED
      BY <2>1, <2>3, <3>2, <3>3, <3>4, <3>5 DEF Busy
  <2> QED
    BY <1>5, <2>2, <2>3 DEF Refused
<1>6. CASE Parses
  <2>1. Parse /\ UNCHANGED vars /\ sent' = sent
    BY <1>6 DEF Parses
  <2>2. IInv'
    BY <2>1, NextIInv DEF XmlNext
  <2>3. BufferInv'
    BY <2>1, BufferStep
  <2>4. text' = text /\ parser # "idle"
    BY <2>1, ParseKeeps
  <2>5. pc' = pc /\ size' = size /\ received' = received
    BY <2>1 DEF vars
  <2> QED
    BY <2>1, <2>2, <2>3, <2>4, <2>5 DEF Busy
<1>7. ASSUME NEW r \in StatusFailures, Reports(r) PROVE ResponseInv'
  <2>1. Free /\ Fail(r) /\ sent' = sent /\ parser # "idle"
    BY <1>7 DEF Reports
  <2>2. IInv' /\ parser' = "idle"
    BY <2>1, FreeIInv DEF Free
  <2>3. BufferInv'
    BY <2>1, FailStep DEF StatusFailures
  <2>4. received' = received
    BY <2>1 DEF Fail
  <2> QED
    BY <2>1, <2>2, <2>3, <2>4 DEF Busy
<1>8. CASE Crash
  <2>1. UNCHANGED vars /\ UNCHANGED xmlVars /\ sent' = sent
    BY <1>8 DEF Crash
  <2>2. BufferInv' /\ IInv'
    BY <2>1, BufferStep, NextIInv
  <2> QED
    BY <2>1, <2>2 DEF Busy, vars, xmlVars
<1>9. CASE UNCHANGED responseVars
  <2>1. UNCHANGED vars /\ UNCHANGED xmlVars /\ sent' = sent
    BY <1>9 DEF responseVars
  <2>2. BufferInv' /\ IInv'
    BY <2>1, BufferStep, NextIInv
  <2> QED
    BY <2>1, <2>2 DEF Busy, vars, xmlVars
<1> QED
  BY <1>1, <1>2, <1>3, <1>4, <1>5, <1>6, <1>7, <1>8, <1>9 DEF ResponseNext, Handles

\* For all bodies, pieces and chunk sizes: the XML parser works on exactly the
\* bytes the server sent, and its cursor never leaves what body_callback() wrote.
THEOREM ParserReadsTheBody ==
  ASSUME Texts \subseteq Seq(STRING)
  PROVE  ResponseSpec => []ParsesTheBody
<1>1. ResponseInit => ResponseInv
  BY ResponseInitInv
<1>2. ResponseInv /\ [ResponseNext]_responseVars => ResponseInv'
  BY ResponseStep
<1>3. ResponseInv => ParsesTheBody
  <2> SUFFICES ASSUME ResponseInv, parser # "idle" PROVE ParsesTheBody
    BY DEF ParsesTheBody
  <2>1. text = SubSeq(sent, 1, received) /\ pc = "receiving" /\ size # 0
    BY DEF ResponseInv, Busy
  <2>2. received \in Nat /\ received <= Len(sent) /\ sent \in Seq(STRING)
    BY DEF ResponseInv, BufferInv, TypeOK
  <2>3. Len(text) = received
    BY <2>1, <2>2
  <2>4. DOMAIN data = 0..received
    BY <2>1 DEF ResponseInv, BufferInv, Collected, NoBlock, Block
  <2>5. position \in 0..received
    BY <2>3 DEF ResponseInv, IInv, XmlTypeOK, Length
  <2> QED
    BY <2>1, <2>4, <2>5 DEF ParsesTheBody
<1> QED
  BY <1>1, <1>2, <1>3, PTL DEF ResponseSpec

\* A step of the whole is a step of the buffer or leaves it alone.
LEMMA BufferSteps ==
  ASSUME ResponseInv, [ResponseNext]_responseVars
  PROVE  [Next]_vars
<1>1. ASSUME NEW chunk \in Chunks, NEW t \in Texts, Ask(chunk, t) PROVE Next
  BY <1>1 DEF Ask, Next
<1>2. ASSUME NEW n \in Pieces, Arrives(n) PROVE Next
  BY <1>2 DEF Arrives, Next
<1>3. CASE Breaks
  BY <1>3 DEF Breaks, Next, Failures
<1>4. CASE Succeeds
  BY <1>4 DEF Succeeds, Next
<1>5. CASE Refused
  BY <1>5 DEF Refused, Next, StatusFailures
<1>6. CASE Parses \/ Crash
  BY <1>6 DEF Parses, Crash
<1>7. ASSUME NEW r \in StatusFailures, Reports(r) PROVE Next
  <2>1. pc = "receiving" /\ Fail(r)
    BY <1>7 DEF Reports, ResponseInv, Busy
  <2> QED
    BY <2>1 DEF Next, TransferFails, StatusFailures
<1>8. CASE UNCHANGED responseVars
  BY <1>8 DEF responseVars
<1> QED
  BY <1>1, <1>2, <1>3, <1>4, <1>5, <1>6, <1>7, <1>8 DEF ResponseNext, Handles

\* The whole way of an answer implements the buffer alone, so that what is
\* proved of the buffer (no overrun, the body unchanged) holds here too.
THEOREM ImplementsBuffer ==
  ASSUME Texts \subseteq Seq(STRING)
  PROVE  ResponseSpec => Spec
<1>1. ResponseInit => ResponseInv /\ Init
  BY ResponseInitInv DEF ResponseInit
<1>2. ResponseInv /\ [ResponseNext]_responseVars => ResponseInv'
  BY ResponseStep
<1>3. ResponseInv /\ [ResponseNext]_responseVars => [Next]_vars
  BY BufferSteps
<1> QED
  BY <1>1, <1>2, <1>3, PTL DEF ResponseSpec, Spec

\* Also where the parser reads the body in the block: body_callback() stays within
\* what is allocated, but for the terminator of an empty first piece, and a success
\* hands out the body as it was sent.
THEOREM AnswerArrivesWhole ==
  ASSUME Texts \subseteq Seq(STRING)
  PROVE  ResponseSpec => []InBounds /\ []BodyExact
BY ImplementsBuffer, NoOverrun, WholeBody, PTL
-----------------------------------------------------------------------------
(***************************************************************************)
(* The message of the handle, and what is left allocated                   *)
(***************************************************************************)

MessageTexts == {NoMessage, CurlText, Unwritten, Crashed} \cup Quoted

AnswerInv == /\ ResponseInv /\ Owned /\ Numbered /\ Lineage /\ InPlace /\ Follows
             /\ sent \in Texts
             /\ last_error \in MessageTexts

LEMMA SpanQuoted ==
  ASSUME sent \in Texts, sent \in Seq(STRING), NEW r \in Nat, r <= Len(sent),
         text = SubSeq(sent, 1, r), NEW s \in Spans
  PROVE  Span(s) \in Quoted
<1> DEFINE m == s.start + 1
           n == s.start + s.length
<1>1. Len(sent) \in Nat /\ Len(text) = r
  OBVIOUS
<1>2. s.start \in Nat /\ s.length \in Nat /\ s.start + s.length <= r
  BY <1>1 DEF Spans, Length
<1>3. /\ m \in 1..(Len(sent) + 1) /\ n \in 0..Len(sent) /\ n <= r
      /\ m \in Int /\ n \in Int
  BY <1>1, <1>2
<1>4. Span(s) = SubSeq(text, m, n)
  BY DEF Span
<1> HIDE DEF m, n
<1>5. SubSeq(text, m, n) = SubSeq(sent, m, n)
  <2>1. CASE m > n
    <3>1. SubSeq(text, m, n) = <<>>
      BY <1>3, <2>1, SubSeqEmpty
    <3>2. SubSeq(sent, m, n) = <<>>
      BY <1>3, <2>1, SubSeqEmpty
    <3> QED
      BY <3>1, <3>2
  <2>2. CASE m <= n
    <3>1. /\ 1 \in 1..Len(sent) /\ r \in 1..Len(sent)
          /\ m \in 1..(r - 1 + 1) /\ n \in 1..(r - 1 + 1)
          /\ 1 + m - 1 = m /\ 1 + n - 1 = n
      BY <1>1, <1>3, <2>2
    <3>2. SubSeq(SubSeq(sent, 1, r), m, n) = SubSeq(sent, 1 + m - 1, 1 + n - 1)
      <4> DEFINE S == STRING
      <4>1. sent \in Seq(S)
        OBVIOUS
      <4>2. SubSeq(sent, 1, r) \in Seq(S)
        BY <1>1, <3>1
      <4> HIDE DEF S
      <4> QED
        BY <3>1, <4>1, SubSeqOfSubSeq
    <3> QED
      BY <3>1, <3>2
  <2> QED
    BY <1>3, <2>1, <2>2
<1> QED
  BY <1>3, <1>4, <1>5 DEF Quoted

\* What parse_error_message() looks up is in the tree: the arrays of children have
\* no gaps, so that counting them is enough.
LEMMA ErrorTextType ==
  ASSUME AnswerInv, parser # "idle"
  PROVE  ErrorText \in MessageTexts
<1>1. CASE parser = "refused" \/ Found = {}
  BY <1>1 DEF ErrorText, MessageTexts
<1>2. CASE Found # {} /\ parser # "refused"
  <2>1. Around \in Seq(Nat)
    <3>1. <<1>> \in Seq(Nat) /\ <<>> \in Seq(Nat)
      OBVIOUS
    <3> QED
      BY <3>1 DEF Around
  <2>2. First \in Found /\ First \in 1..Cardinality(Children(Around))
    <3>1. Found \in SUBSET Nat
      BY DEF Found
    <3>2. First \in Found
      BY <1>2, <3>1, LeastExists DEF First
    <3> QED
      BY <3>2 DEF Found
  <2>3. Children(Around) = ChildrenIn(DOMAIN nodes, Around)
    BY DEF Children, ChildrenIn
  <2>4. Append(Around, First) \in Children(Around)
    <3>1. Children(Around) = {Append(Around, i) : i \in 1..Cardinality(Children(Around))}
      BY <2>1, <2>3 DEF AnswerInv, Numbered, Dense
    <3> QED
      BY <2>2, <3>1
  <2>5. Append(Around, First) \in DOMAIN nodes
    BY <2>4 DEF Children
  <2>6. nodes[Append(Around, First)].content \in Spans
    BY <2>5 DEF AnswerInv, ResponseInv, IInv, XmlTypeOK
  <2>7. Span(nodes[Append(Around, First)].content) \in Quoted
    <3>1. /\ sent \in Texts /\ sent \in Seq(STRING) /\ received \in Nat
          /\ received <= Len(sent) /\ text = SubSeq(sent, 1, received)
      BY DEF AnswerInv, ResponseInv, Busy, BufferInv, TypeOK
    <3> QED
      BY <2>6, <3>1, SpanQuoted
  <2>8. TextOf(Append(Around, First)) \in MessageTexts
    BY <2>7 DEF TextOf, MessageTexts
  <2> QED
    BY <1>2, <2>8 DEF ErrorText
<1> QED
  BY <1>1, <1>2

\* What a step does to the parser.
LEMMA ParserSteps ==
  ASSUME [ResponseNext]_responseVars
  PROVE  UNCHANGED xmlVars \/ (\E t : Call(t)) \/ Parse \/ Free
<1>1. CASE ResponseNext
  BY <1>1 DEF ResponseNext, Handles, Ask, Arrives, Breaks, Succeeds, Refused, Parses,
              Crash, Reports
<1>2. CASE UNCHANGED responseVars
  BY <1>2 DEF responseVars
<1> QED
  BY <1>1, <1>2

\* What a step does to the body and to the message.
LEMMA MessageSteps ==
  ASSUME AnswerInv, [ResponseNext]_responseVars
  PROVE  sent' \in Texts /\ last_error' \in MessageTexts
<1> USE DEF AnswerInv
<1>1. ASSUME NEW chunk \in Chunks, NEW t \in Texts, Ask(chunk, t)
      PROVE  sent' = t /\ last_error' = last_error
  BY <1>1 DEF Ask
<1>2. CASE (\E n \in Pieces : Arrives(n)) \/ Succeeds \/ Parses
  BY <1>2 DEF Arrives, Succeeds, Parses
<1>3. CASE Breaks
  BY <1>3 DEF Breaks, MessageTexts
<1>4. CASE Refused
  BY <1>4 DEF Refused, MessageTexts
<1>5. ASSUME NEW r \in StatusFailures, Reports(r)
      PROVE  sent' = sent /\ last_error' = ErrorText /\ parser # "idle"
  BY <1>5 DEF Reports
<1>6. parser # "idle" => ErrorText \in MessageTexts
  BY ErrorTextType
<1>7. CASE Crash
  BY <1>7 DEF Crash, MessageTexts
<1>8. CASE UNCHANGED responseVars
  BY <1>8 DEF responseVars
<1> QED
  BY <1>1, <1>2, <1>3, <1>4, <1>5, <1>6, <1>7, <1>8 DEF ResponseNext, Handles

LEMMA InitAnswerInv ==
  ASSUME Texts \subseteq Seq(STRING), ResponseInit
  PROVE  AnswerInv
<1>1. Owned /\ Lineage
  BY DEF ResponseInit, XmlInit, Owned, Lineage
<1> QED
  BY <1>1, ResponseInitInv, InitNumbered, InitPlaced, InitFollows
     DEF ResponseInit, AnswerInv, MessageTexts

LEMMA NextAnswerInv ==
  ASSUME Texts \subseteq Seq(STRING), AnswerInv, [ResponseNext]_responseVars
  PROVE  AnswerInv'
<1>1. ResponseInv' /\ IInv
  BY ResponseStep DEF AnswerInv, ResponseInv
<1>2. Owned' /\ Numbered'
  <2>1. CASE UNCHANGED xmlVars
    <3>1. Owned'
      BY <1>1, <2>1, NextOwned DEF AnswerInv
    <3>2. Numbered'
      BY <2>1 DEF AnswerInv, Numbered, xmlVars
    <3> QED
      BY <3>1, <3>2
  <2>2. ASSUME NEW t, Call(t) PROVE Owned' /\ Numbered'
    BY <1>1, <2>2, CallOwned, CallNumbered DEF AnswerInv
  <2>3. CASE Parse
    BY <1>1, <2>3, ParseOwned, ParseNumbered DEF AnswerInv
  <2>4. CASE Free
    BY <1>1, <2>4, FreeOwned, FreeNumbered DEF AnswerInv
  <2> QED
    BY <2>1, <2>2, <2>3, <2>4, ParserSteps
<1>3. Lineage' /\ InPlace' /\ Follows'
  <2>1. CASE UNCHANGED xmlVars \/ Parse \/ Free
    <3>1. [XmlNext]_xmlVars
      BY <2>1 DEF XmlNext
    <3> QED
      BY <1>1, <3>1, NextLineage, NextInPlace, NextFollows DEF AnswerInv
  <2>2. ASSUME NEW t, Call(t) PROVE Lineage' /\ InPlace' /\ Follows'
    BY <1>1, <2>2, CallLineage, CallPlaced, CallFollows
  <2> QED
    BY <2>1, <2>2, ParserSteps
<1>4. sent' \in Texts /\ last_error' \in MessageTexts
  BY MessageSteps
<1> QED
  BY <1>1, <1>2, <1>3, <1>4 DEF AnswerInv

\* For all bodies, pieces and chunk sizes: buffer, parser and message keep their
\* types; in particular every element parse_error_message() takes a text from is
\* in the tree, and the message of the handle stands in a body a server sent.
THEOREM AnswerTypeCorrect ==
  ASSUME Texts \subseteq Seq(STRING)
  PROVE  ResponseSpec => []ResponseTypeOK
<1>1. ResponseInit => AnswerInv
  BY InitAnswerInv
<1>2. AnswerInv /\ [ResponseNext]_responseVars => AnswerInv'
  BY NextAnswerInv
<1>3. AnswerInv => ResponseTypeOK
  BY DEF AnswerInv, ResponseInv, BufferInv, IInv, ResponseTypeOK,
         MessageTexts
<1> QED
  BY <1>1, <1>2, <1>3, PTL DEF ResponseSpec

\* For all bodies, also those that are cut off: an answer leaves nothing of the
\* parser allocated but the attributes of nodes that were not finished.
THEOREM AnswerLeaksAttributes ==
  ASSUME Texts \subseteq Seq(STRING)
  PROVE  ResponseSpec => []NothingElseLeaks
<1>1. ResponseInit => AnswerInv
  BY InitAnswerInv
<1>2. AnswerInv /\ [ResponseNext]_responseVars => AnswerInv'
  BY NextAnswerInv
<1>3. AnswerInv => NothingElseLeaks
  BY OwnedLeaks DEF AnswerInv, ResponseInv
<1> QED
  BY <1>1, <1>2, <1>3, PTL DEF ResponseSpec

\* For all bodies, pieces and chunk sizes: what parse_error_message() looks through
\* is a tree the bytes that arrived describe up to the end of its root, in the
\* sense of TextIsItsTree: tag by tag when no whitespace stands before a `>'.
THEOREM AnswerIsItsTree ==
  ASSUME Texts \subseteq Seq(STRING)
  PROVE  ResponseSpec => []TreeIsInText
<1>1. ResponseInit => AnswerInv
  BY InitAnswerInv
<1>2. AnswerInv /\ [ResponseNext]_responseVars => AnswerInv'
  BY NextAnswerInv
<1>3. AnswerInv => TreeIsInText
  BY PlacedReads DEF AnswerInv, ResponseInv
<1> QED
  BY <1>1, <1>2, <1>3, PTL DEF ResponseSpec

\* For all bodies, pieces and chunk sizes: when the bytes that arrived describe a
\* tree, parse_error_message() gets that tree.
THEOREM AnswerTreeIsRead ==
  ASSUME Texts \subseteq Seq(STRING)
  PROVE  ResponseSpec => []DescribedIsRead
<1>1. ResponseInit => AnswerInv
  BY InitAnswerInv
<1>2. AnswerInv /\ [ResponseNext]_responseVars => AnswerInv'
  BY NextAnswerInv
<1>3. AnswerInv => DescribedIsRead
  BY FollowsReads DEF AnswerInv, ResponseInv
<1> QED
  BY <1>1, <1>2, <1>3, PTL DEF ResponseSpec

\* For all bodies, also those that are cut off: the parser comes to its end after
\* at most two steps for every byte that arrived.
THEOREM AnswerTagsAdvance ==
  ASSUME Texts \subseteq Seq(STRING)
  PROVE  ResponseSpec => Advances
<1>1. ResponseInit => ResponseInv
  BY ResponseInitInv
<1>2. ResponseInv /\ [ResponseNext]_responseVars => ResponseInv'
  BY ResponseStep
<1>3. ASSUME ResponseInv, [ResponseNext]_responseVars
      PROVE  [/\ (parser \in {"open", "close"} /\ parser' # "refused") => (position' > position)
              /\ (parser \notin {"idle", "done", "refused"}) => (Rank' < Rank)]_xmlVars
  <2>1. IInv
    BY <1>3 DEF ResponseInv
  <2>2. CASE UNCHANGED xmlVars
    BY <2>2
  <2>3. CASE Parse
    BY <2>1, <2>3, ParseAdvances
  <2>4. CASE \E t : Call(t)
    BY <2>4 DEF Call
  <2>5. CASE Free
    BY <2>5 DEF Free
  <2> QED
    BY <1>3, <2>2, <2>3, <2>4, <2>5, ParserSteps
<1> QED
  BY <1>1, <1>2, <1>3, PTL DEF ResponseSpec, Advances
-----------------------------------------------------------------------------
(***************************************************************************)
(* The message is the one of the document                                  *)
(***************************************************************************)

\* xml_node_name_cmp() takes the node at p of the tree d for the name.
Calls(d, p, name) == LET n == Span(d[p].name)
                     IN Len(n) <= Len(name) /\ n = SubSeq(name, 1, Len(n))

\* The tree d says m: it is the content of the first message in the root, or in the
\* first element when that is the error.
Says(d, m) ==
  \E a \in {<<>>, <<1>>}, k \in Nat \ {0} :
    /\ a = <<1>> <=> Calls(d, <<1>>, Error)
    /\ Append(a, k) \in DOMAIN d /\ Calls(d, Append(a, k), Message)
    /\ \A j \in 1..(k - 1) : ~Calls(d, Append(a, j), Message)
    /\ d[Append(a, k)].content # NoSpan /\ m = Span(d[Append(a, k)].content)

\* The documents of the server: an error document has a tree that says its message,
\* and a document that was cut off has none.
ServerWritesXml ==
  /\ text \in DOMAIN Messages => \E d, e : Describes(d, e) /\ Says(d, Messages[text])
  /\ (\E t \in DOMAIN Written : \E n \in 0..(Len(t) - 1) : text = SubSeq(t, 1, n)) =>
       ~ \E d, e : Describes(d, e)

MessageInv == /\ AnswerInv
              /\ parser = "idle" => text = <<>>
              /\ MessageExact

\* parse_error_message() returns what the tree says.
LEMMA SaidIsFound ==
  ASSUME AnswerInv, parser = "done", NEW m, Says(nodes, m)
  PROVE  ErrorText = m
<1>1. PICK a \in {<<>>, <<1>>}, k \in Nat \ {0} :
        /\ a = <<1>> <=> Calls(nodes, <<1>>, Error)
        /\ Append(a, k) \in DOMAIN nodes /\ Calls(nodes, Append(a, k), Message)
        /\ \A j \in 1..(k - 1) : ~Calls(nodes, Append(a, j), Message)
        /\ nodes[Append(a, k)].content # NoSpan
        /\ m = Span(nodes[Append(a, k)].content)
  BY DEF Says
<1>2. \A p, name : Named(p, name) <=> Calls(nodes, p, name)
  BY DEF Named, Calls
<1>3. Around = a
  BY <1>1, <1>2 DEF Around
<1>4. a \in Seq(Nat)
  <2>1. <<1>> \in Seq(Nat) /\ <<>> \in Seq(Nat)
    OBVIOUS
  <2> QED
    BY <1>1, <2>1
<1>5. PICK n : n = Cardinality(Children(a))
  OBVIOUS
<1>6. Children(a) = ChildrenIn(DOMAIN nodes, a)
  BY DEF Children, ChildrenIn
<1>7. Children(a) = {Append(a, i) : i \in 1..n}
  BY <1>4, <1>5, <1>6 DEF AnswerInv, Numbered, Dense
<1>8. Append(a, k) \in Children(a)
  BY <1>1, <1>4, ParentOfChild DEF Children
<1>9. k \in 1..n
  <2>1. PICK i \in 1..n : Append(a, k) = Append(a, i)
    BY <1>7, <1>8
  <2>2. i \in Nat
    OBVIOUS
  <2>3. k = i
    BY <1>1, <1>4, <2>1, <2>2, AppendInjective
  <2> QED
    BY <2>3
<1>10. Found = {i \in 1..n : Calls(nodes, Append(a, i), Message)}
  BY <1>2, <1>3, <1>5 DEF Found
<1>11. k \in Found /\ \A j \in Found : k <= j
  <2>1. \A j \in Found : j \in Nat \ {0} /\ j \notin 1..(k - 1)
    BY <1>1, <1>10
  <2> QED
    BY <1>1, <1>9, <1>10, <2>1
<1>12. First = k
  <2>1. \A i \in Found : (\A j \in Found : i <= j) => i = k
    BY <1>11, <1>10
  <2> QED
    BY <1>11, <2>1 DEF First
<1> QED
  BY <1>1, <1>3, <1>11, <1>12 DEF ErrorText, TextOf

\* The message that Reports sets: received and sent stay as they are.
LEMMA ReportsSaid ==
  ASSUME AnswerInv, ServerWritesXml, parser \in {"done", "refused"},
         NEW t, t = SubSeq(sent, 1, received)
  PROVE  /\ t \in DOMAIN Messages => ErrorText = Messages[t]
         /\ received < Len(sent) /\ sent \in DOMAIN Written => ErrorText = NoMessage
<1>1. text = t
  BY DEF AnswerInv, ResponseInv, Busy
<1>2. t \in DOMAIN Messages => ErrorText = Messages[t]
  <2> SUFFICES ASSUME t \in DOMAIN Messages PROVE ErrorText = Messages[t]
    OBVIOUS
  <2>1. PICK d, e : Describes(d, e) /\ Says(d, Messages[t])
    BY <1>1 DEF ServerWritesXml
  <2>2. DescribedIsRead
    BY FollowsReads DEF AnswerInv, ResponseInv
  <2>3. parser = "done" /\ nodes = d
    BY <2>1, <2>2 DEF DescribedIsRead
  <2> QED
    BY <2>1, <2>3, SaidIsFound
<1>3. received < Len(sent) /\ sent \in DOMAIN Written => ErrorText = NoMessage
  <2> SUFFICES ASSUME received < Len(sent), sent \in DOMAIN Written
               PROVE  ErrorText = NoMessage
    OBVIOUS
  <2>1. received \in 0..(Len(sent) - 1)
    BY DEF AnswerInv, ResponseInv, BufferInv, TypeOK
  <2>2. ~ \E d, e : Describes(d, e)
    BY <1>1, <2>1 DEF ServerWritesXml
  <2>3. TreeIsInText
    BY PlacedReads DEF AnswerInv, ResponseInv
  <2>4. parser = "refused"
    BY <2>2, <2>3 DEF TreeIsInText
  <2> QED
    BY <2>4 DEF ErrorText
<1> QED
  BY <1>2, <1>3

LEMMA NextMessageInv ==
  ASSUME Texts \subseteq Seq(STRING), MessageInv, ServerWritesXml,
         [ResponseNext]_responseVars
  PROVE  MessageInv'
<1>1. AnswerInv /\ AnswerInv'
  BY NextAnswerInv DEF MessageInv
<1>2. (parser = "idle" => text = <<>>)'
  BY ParserSteps DEF Call, Parse, Start, TagOpen, Content, Child, TagClose, Free,
                     Refuse, Make, xmlVars, MessageInv
<1>3. parser # "idle" => pc = "receiving"
  BY <1>1 DEF AnswerInv, ResponseInv, Busy
<1>4. MessageExact'
  <2>1. ASSUME UNCHANGED <<pc, res, sent, received, last_error>> PROVE MessageExact'
    BY <2>1 DEF MessageExact, MessageInv
  <2>2. ASSUME pc' = "receiving" PROVE MessageExact'
    BY <2>2 DEF MessageExact
  <2>3. ASSUME res' \notin StatusFailures PROVE MessageExact'
    BY <2>3 DEF MessageExact
  <2>4. ASSUME NEW chunk \in Chunks, NEW t \in Texts, Ask(chunk, t) PROVE MessageExact'
    BY <2>2, <2>4 DEF Ask, Begin
  <2>5. ASSUME NEW n \in Pieces, Arrives(n) PROVE MessageExact'
    <3>1. pc' # "idle"
      BY <2>5 DEF Arrives, Deliver
    <3> QED
      BY <3>1 DEF MessageExact
  <2>6. CASE Breaks
    BY <2>3, <2>6 DEF Breaks, Deny, TransferFails, Fail, StatusFailures
  <2>7. CASE Succeeds
    BY <2>3, <2>7 DEF Succeeds, TransferEnds, StatusFailures, Failures
  <2>8. CASE Refused
    <3>1. CASE UNCHANGED <<vars, last_error>>
      BY <2>1, <2>8, <3>1 DEF Refused, vars
    <3>2. ASSUME size = 0 \/ length = 0, NEW r \in StatusFailures, TransferFails(r),
                 last_error' = NoMessage
          PROVE  MessageExact'
      <4>1. received = 0 /\ parser = "idle" /\ text = <<>>
        BY <1>1, <2>8, <3>2 DEF Refused, Receiving, MessageInv, AnswerInv, ResponseInv,
                                BufferInv, Collected, NoBlock, Block, TypeOK
      <4>2. received' = 0 /\ sent' = sent
        BY <2>8, <3>2, <4>1 DEF Refused, TransferFails, Fail
      <4>3. SubSeq(sent, 1, 0) = <<>>
        OBVIOUS
      <4>4. <<>> \notin DOMAIN Messages
        BY <4>1, EmptyText DEF ServerWritesXml
      <4> QED
        BY <3>2, <4>2, <4>3, <4>4 DEF MessageExact
    <3> QED
      BY <2>8, <3>1, <3>2 DEF Refused
  <2>9. CASE Parses
    BY <2>1, <2>9 DEF Parses, vars
  <2>10. CASE Crash
    BY <1>3, <2>2, <2>10 DEF Crash, Childless, vars
  <2>11. ASSUME NEW r \in StatusFailures, Reports(r) PROVE MessageExact'
    <3>1. /\ parser \in {"done", "refused"} /\ last_error' = ErrorText
          /\ received' = received /\ sent' = sent
      BY <2>11 DEF Reports, Fail
    <3> QED
      BY <1>1, <3>1, ReportsSaid DEF MessageExact
  <2>12. CASE UNCHANGED responseVars
    BY <2>1, <2>12 DEF responseVars, vars
  <2> QED
    BY <2>4, <2>5, <2>6, <2>7, <2>8, <2>9, <2>10, <2>11, <2>12 DEF ResponseNext, Handles
<1> QED
  BY <1>1, <1>2, <1>4 DEF MessageInv

\* For all bodies, pieces and chunk sizes: the message of a refused call is the one
\* the server's document says, and none is taken from a document that was cut off,
\* provided that the server writes XML: that its error documents are trees with a
\* message, and that no beginning of a document is a document.
THEOREM MessageIsTheServers ==
  ASSUME Texts \subseteq Seq(STRING)
  PROVE  ResponseSpec /\ []ServerWritesXml => []MessageExact
<1>1. ResponseInit => MessageInv
  BY InitAnswerInv DEF ResponseInit, Init, XmlInit, MessageInv, MessageExact,
                       StatusFailures, Failures
<1>2. MessageInv /\ ServerWritesXml /\ [ResponseNext]_responseVars => MessageInv'
  BY NextMessageInv
<1>3. MessageInv => MessageExact
  BY DEF MessageInv
<1> QED
  BY <1>1, <1>2, <1>3, PTL DEF ResponseSpec

\* Also in the body of an answer: a document that was written from a tree gives it.
THEOREM AnswerIsReadAsWritten ==
  ASSUME Texts \subseteq Seq(STRING)
  PROVE  ResponseSpec /\ []WrittenDescribe => []ReadsAsWritten
<1>1. ResponseSpec => []DescribedIsRead
  BY AnswerTreeIsRead
<1>2. DescribedIsRead /\ WrittenDescribe => ReadsAsWritten
  BY DescribedAsWritten
<1> QED
  BY <1>1, <1>2, PTL
=============================================================================
