--------------------------- MODULE XmlParserProofs ---------------------------
(***************************************************************************)
(* What holds of the XML parser for every text: the cursor stays on the    *)
(* text or its terminator, all names and contents are spans of the text,   *)
(* the parser comes to its end, all that it allocates has an owner that    *)
(* releases it but for the attributes, the arrays of children have no      *)
(* gaps, the tree of a text that is accepted is the one the text           *)
(* describes, and a text that describes a tree is accepted.                *)
(***************************************************************************)
EXTENDS XmlParser, FiniteSetTheorems, SequenceTheorems, WellFoundedInduction, TLAPS

\* A set of natural numbers that is not empty has a least element.
LEMMA LeastExists ==
  ASSUME NEW S \in SUBSET Nat, S # {}
  PROVE  \E n \in S : \A m \in S : n <= m
<1>1. \E n \in S : \A m \in S : ~ (<<m, n>> \in OpToRel(<, Nat))
  BY NatLessThanWellFounded, WFMin
<1>2. \A m, n \in Nat : m < n => <<m, n>> \in OpToRel(<, Nat)
  BY DEF OpToRel
<1>3. PICK n \in S : \A m \in S : ~ (<<m, n>> \in OpToRel(<, Nat))
  BY <1>1
<1>4. \A m \in S : ~ (m < n)
  BY <1>2, <1>3
<1> QED
  BY <1>4

\* A loop over an interval stops at the first place that holds, if one does.
LEMMA FirstExists ==
  ASSUME NEW a \in Nat, NEW b \in Nat, NEW S \in SUBSET (a..b), S # {}
  PROVE  \E q \in S : \A r \in a..(q - 1) : r \notin S
<1>1. PICK n \in S : \A m \in S : n <= m
  BY LeastExists
<1> QED
  BY <1>1

TextOK == text \in Seq(STRING)

\* xml_parser_peek() looks from its cursor on, up to the terminator.
LEMMA MarkBounds ==
  ASSUME TextOK, NEW p \in 0..Length
  PROVE  /\ Mark(p) \in p..Length /\ CharAt(Mark(p)) \notin Space
         /\ \A r \in p..(Mark(p) - 1) : CharAt(r) \in Space
<1> DEFINE S == {q \in p..Length : CharAt(q) \notin Space}
<1>1. Length \in Nat /\ p \in Nat /\ p <= Length
  BY DEF TextOK, Length
<1>2. CharAt(Length) = "NUL"
  BY <1>1 DEF CharAt, Terminator
<1>3. "NUL" \notin Space
  BY DEF Space
<1>4. Length \in S /\ S \in SUBSET (p..Length)
  BY <1>1, <1>2, <1>3
<1> HIDE DEF S
<1>5. PICK q \in S : \A r \in p..(q - 1) : r \notin S
  BY <1>1, <1>4, FirstExists
<1> USE DEF S
<1>6. \A r \in p..(q - 1) : r \in p..Length
  BY <1>1, <1>4, <1>5
<1>7. /\ q \in p..Length /\ CharAt(q) \notin Space
      /\ \A r \in p..(q - 1) : CharAt(r) \in Space
  BY <1>5, <1>6
<1> QED
  BY <1>7 DEF Mark

LEMMA StopBounds ==
  ASSUME TextOK, NEW p \in 0..Length, NEW c
  PROVE  /\ Stop(p, c) \in p..Length
         /\ Stop(p, c) # Length => Peek(Stop(p, c)) = c
         /\ \A r \in p..(Stop(p, c) - 1) : Peek(r) # c
<1> DEFINE S == {q \in p..Length : q = Length \/ Peek(q) = c}
<1>1. Length \in Nat /\ p \in Nat /\ p <= Length
  BY DEF TextOK, Length
<1>2. Length \in S /\ S \in SUBSET (p..Length)
  BY <1>1
<1> HIDE DEF S
<1>3. PICK q \in S : \A r \in p..(q - 1) : r \notin S
  BY <1>1, <1>2, FirstExists
<1> USE DEF S
<1>4. \A r \in p..(q - 1) : r \in p..Length
  BY <1>1, <1>2, <1>3
<1>5. /\ q \in p..Length
      /\ q = Length \/ Peek(q) = c
      /\ \A r \in p..(q - 1) : Peek(r) # c
  BY <1>3, <1>4
<1> QED
  BY <1>5 DEF Stop

\* What is not the terminator lies before the end.
LEMMA PeekBounds ==
  ASSUME TextOK, NEW p \in 0..Length, Peek(p) # "NUL"
  PROVE  Mark(p) \in p..(Length - 1)
<1>1. Length \in Nat
  BY DEF TextOK, Length
<1>2. Mark(p) \in p..Length
  BY MarkBounds
<1> QED
  BY <1>1, <1>2 DEF Peek, CharAt, Terminator

LEMMA SkipBounds ==
  ASSUME TextOK, NEW p \in 0..Length
  PROVE  SkipWhitespace(p) \in p..Length
<1>1. Length \in Nat
  BY DEF TextOK, Length
<1> QED
  BY <1>1, MarkBounds DEF SkipWhitespace

\* With anything in the text the cursor is put back at least to its last
\* character, if it was not put further.
LEMMA ConsumeBounds ==
  ASSUME TextOK, Length # 0, NEW p \in 0..Length, NEW n \in Nat
  PROVE  /\ Consume(p, n) \in 0..(Length - 1)
         /\ Consume(p, n) = p + n \/ Consume(p, n) = Length - 1
<1>1. Length \in Nat \ {0}
  BY DEF TextOK, Length
<1> QED
  BY <1>1 DEF Consume

LEMMA MetaBounds ==
  ASSUME TextOK, NEW p \in 0..Length
  PROVE  AfterMeta(p) \in p..Length
<1>1. Length \in Nat
  BY DEF TextOK, Length
<1>2. CASE ~ HasMeta(p)
  BY <1>1, <1>2 DEF AfterMeta
<1>3. CASE HasMeta(p)
  <2>1. MetaEnds(p) \in SUBSET Nat /\ MetaEnds(p) # {}
    BY <1>1, <1>3 DEF MetaEnds, HasMeta
  <2>2. MetaEnd(p) \in MetaEnds(p)
    BY <2>1, LeastExists DEF MetaEnd
  <2>3. MetaEnd(p) \in p..(Length - 1) /\ CharAt(MetaEnd(p) + 1) = ">"
    BY <2>2 DEF MetaEnds
  <2>4. MetaEnd(p) + 1 < Length
    BY <1>1, <2>3 DEF CharAt, Terminator
  <2> QED
    BY <1>1, <1>3, <2>3, <2>4 DEF AfterMeta
<1> QED
  BY <1>2, <1>3

\* The name is not longer than the tag.
LEMMA NameBounds ==
  ASSUME TextOK, NEW tag \in Spans
  PROVE  NameOf(tag) \in Spans
<1>1. Length \in Nat /\ tag.start \in Nat /\ tag.length \in Nat
        /\ tag.start + tag.length <= Length
  BY DEF TextOK, Length, Spans
<1> DEFINE Blank(i) == Span(tag)[i] = " "
           first == CHOOSE i \in 1..tag.length : /\ ~ Blank(i)
                                                 /\ \A j \in 1..(i - 1) : Blank(j)
           last  == CHOOSE i \in first..tag.length :
                      /\ i = tag.length \/ Blank(i + 1)
                      /\ \A j \in first..(i - 1) : ~ Blank(j + 1)
<1>2. CASE \A i \in 1..tag.length : Blank(i)
  BY <1>2 DEF NameOf
<1>3. CASE ~ \A i \in 1..tag.length : Blank(i)
  <2> DEFINE F == {i \in 1..tag.length : ~ Blank(i)}
             L == {i \in first..tag.length : i = tag.length \/ Blank(i + 1)}
  <2> HIDE DEF Blank
  <2>1. first \in 1..tag.length
    <3>1. F \in SUBSET (1..tag.length) /\ F # {}
      BY <1>3
    <3> HIDE DEF F
    <3>2. PICK i \in F : \A j \in 1..(i - 1) : j \notin F
      BY <1>1, <3>1, FirstExists
    <3> USE DEF F
    <3>3. \A j \in 1..(i - 1) : j \in 1..tag.length
      BY <1>1, <3>1, <3>2
    <3>4. i \in 1..tag.length /\ ~ Blank(i) /\ \A j \in 1..(i - 1) : Blank(j)
      BY <3>2, <3>3
    <3> QED
      BY <3>4
  <2> HIDE DEF first
  <2>2. last \in first..tag.length
    <3>1. /\ L \in SUBSET (first..tag.length) /\ tag.length \in L /\ L # {}
          /\ first \in Nat
      BY <1>1, <2>1
    <3> HIDE DEF L
    <3>2. PICK i \in L : \A j \in first..(i - 1) : j \notin L
      BY <1>1, <2>1, <3>1, FirstExists
    <3> USE DEF L
    <3>3. \A j \in first..(i - 1) : j \in first..tag.length
      BY <1>1, <2>1, <3>1, <3>2
    <3>4. /\ i \in first..tag.length
          /\ i = tag.length \/ Blank(i + 1)
          /\ \A j \in first..(i - 1) : ~ Blank(j + 1)
      BY <3>2, <3>3
    <3> QED
      BY <3>4
  <2> HIDE DEF last
  <2>3. [tag EXCEPT !.length = last - first + 1] \in Spans
    BY <1>1, <2>1, <2>2 DEF Spans
  <2>4. NameOf(tag) = [tag EXCEPT !.length = last - first + 1]
    BY <1>3 DEF NameOf, Blank, first, last
  <2> QED
    BY <2>3, <2>4
<1> QED
  BY <1>2, <1>3
-----------------------------------------------------------------------------
\* XmlTypeOK is not inductive: tag_open is looked up for the frame that closes and
\* for the frames around it.
Frames ==
  /\ parser \in {"open", "content", "children", "close"} =>
       \A n \in 0..(Len(at) - 1) : SubSeq(at, 1, n) \in DOMAIN open
  /\ parser \in {"content", "children", "close"} => at \in DOMAIN open

IInv == /\ XmlTypeOK
        /\ Frames
        /\ parser \notin {"idle", "refused"} => Length # 0
        /\ parser = "idle" => open = Empty /\ content = NoSpan /\ nodes = Empty

USE DEF TextOK

LEMMA InitIInv == XmlInit => IInv
<1> SUFFICES ASSUME XmlInit PROVE IInv
  OBVIOUS
<1>1. Length = 0
  BY DEF XmlInit, Length
<1>2. DOMAIN Empty = {} /\ IsFiniteSet(DOMAIN Empty)
  BY FS_EmptySet DEF Empty
<1>3. NoSpan \in Spans
  BY <1>1 DEF NoSpan, Spans
<1>4. open \in [DOMAIN open -> Spans]
      /\ nodes \in [DOMAIN nodes -> [name : Spans, content : Spans]]
  BY <1>2 DEF XmlInit, Empty
<1>5. XmlTypeOK
  BY <1>1, <1>2, <1>3, <1>4 DEF XmlInit, XmlTypeOK
<1> QED
  BY <1>5 DEF XmlInit, IInv, Frames

\* The spans of a text do not change while it is parsed.
LEMMA SameText == text' = text => Length' = Length /\ Spans' = Spans
BY DEF Length, Spans

LEMMA NoSpanType == TextOK => NoSpan \in Spans
BY DEF NoSpan, Spans, Length

LEMMA RestrictedType ==
  ASSUME NEW S, NEW f, f \in [DOMAIN f -> S], NEW D
  PROVE  Restricted(f, D) \in [DOMAIN f \cap D -> S]
BY DEF Restricted

LEMMA WithType ==
  ASSUME NEW S, NEW f, f \in [DOMAIN f -> S], NEW x, NEW v \in S
  PROVE  With(f, x, v) \in [DOMAIN f \cup {x} -> S]
BY DEF With

\* Sequences that agree up to n have the same beginning of length n.
LEMMA SamePrefix ==
  ASSUME NEW S, NEW p \in Seq(S), NEW q \in Seq(S), NEW n \in Nat,
         n <= Len(p), n <= Len(q), \A k \in 1..n : q[k] = p[k]
  PROVE  SubSeq(q, 1, n) = SubSeq(p, 1, n)
<1>1. ASSUME NEW k \in 1..n PROVE p[k] \in S /\ q[k] \in S
  <2>1. Len(p) \in Nat /\ Len(q) \in Nat
    OBVIOUS
  <2>2. k \in 1..Len(p) /\ k \in 1..Len(q)
    BY <2>1
  <2> QED
    BY <2>2, ElementOfSeq
<1>2. 1 \in Int /\ n \in Int /\ n - 1 + 1 = n
  OBVIOUS
<1>3. /\ SubSeq(p, 1, n) \in Seq(S)
      /\ Len(SubSeq(p, 1, n)) = IF 1 <= n THEN n - 1 + 1 ELSE 0
      /\ \A i \in 1..(n - 1 + 1) : SubSeq(p, 1, n)[i] = p[1 + i - 1]
  BY <1>1, <1>2, SubSeqProperties
<1>4. /\ SubSeq(q, 1, n) \in Seq(S)
      /\ Len(SubSeq(q, 1, n)) = IF 1 <= n THEN n - 1 + 1 ELSE 0
      /\ \A i \in 1..(n - 1 + 1) : SubSeq(q, 1, n)[i] = q[1 + i - 1]
  BY <1>1, <1>2, SubSeqProperties
<1>5. Len(SubSeq(p, 1, n)) = n /\ Len(SubSeq(q, 1, n)) = n
  BY <1>3, <1>4
<1>6. ASSUME NEW i \in 1..n PROVE SubSeq(p, 1, n)[i] = SubSeq(q, 1, n)[i]
  <2>1. i \in 1..(n - 1 + 1) /\ 1 + i - 1 = i
    BY <1>2
  <2>2. SubSeq(p, 1, n)[i] = p[i] /\ SubSeq(q, 1, n)[i] = q[i]
    BY <1>3, <1>4, <2>1
  <2> QED
    BY <2>2
<1> QED
  BY <1>3, <1>4, <1>5, <1>6, SeqEqual

LEMMA ParentType ==
  ASSUME NEW p \in Seq(Nat), p # <<>>
  PROVE  /\ Parent(p) \in Seq(Nat)
         /\ Len(Parent(p)) = Len(p) - 1
         /\ Len(p) \in Nat \ {0}
         /\ \A n \in 0..(Len(p) - 1) : SubSeq(Parent(p), 1, n) = SubSeq(p, 1, n)
<1>1. Len(p) \in Nat /\ Len(p) # 0
  OBVIOUS
<1>2. Len(p) - 1 \in Nat /\ Len(p) - 1 <= Len(p)
  BY <1>1
<1>3. /\ Parent(p) \in Seq(Nat) /\ Len(Parent(p)) = Len(p) - 1
      /\ \A i \in 1..(Len(p) - 1) : Parent(p)[i] = p[i]
  <2>1. \A i \in 1..(Len(p) - 1) : p[i] \in Nat
    BY <1>1
  <2> DEFINE m == Len(p) - 1
  <2>2. /\ SubSeq(p, 1, m) \in Seq(Nat)
        /\ Len(SubSeq(p, 1, m)) = IF 1 <= m THEN m - 1 + 1 ELSE 0
        /\ \A i \in 1..(m - 1 + 1) : SubSeq(p, 1, m)[i] = p[1 + i - 1]
    <3> HIDE DEF m
    <3>1. m \in Int /\ \A i \in 1..m : p[i] \in Nat
      BY <1>2, <2>1 DEF m
    <3> QED
      BY <3>1, SubSeqProperties
  <2>3. Parent(p) = SubSeq(p, 1, m)
    BY DEF Parent
  <2>4. m \in Nat /\ m = Len(p) - 1
    BY <1>2
  <2> HIDE DEF m
  <2>5. Len(Parent(p)) = m /\ Parent(p) \in Seq(Nat)
    BY <2>2, <2>3, <2>4
  <2>6. \A i \in 1..m : Parent(p)[i] = p[i]
    <3>1. ASSUME NEW i \in 1..m PROVE i \in 1..(m - 1 + 1) /\ 1 + i - 1 = i
      BY <2>4
    <3> QED
      BY <2>2, <2>3, <3>1
  <2> QED
    BY <2>4, <2>5, <2>6
<1>4. ASSUME NEW n \in 0..(Len(p) - 1)
      PROVE  SubSeq(Parent(p), 1, n) = SubSeq(p, 1, n)
  <2>1. n \in Nat /\ n <= Len(p) /\ n <= Len(Parent(p))
    BY <1>1, <1>3
  <2>2. \A i \in 1..n : Parent(p)[i] = p[i]
    BY <1>1, <1>3
  <2> QED
    BY <1>3, <2>1, <2>2, SamePrefix
<1> QED
  BY <1>1, <1>3, <1>4
-----------------------------------------------------------------------------
LEMMA RefuseIInv ==
  ASSUME IInv, Refuse, position' \in 0..Length
  PROVE  IInv'
<1>1. /\ text' = text /\ parser' = "refused" /\ at' = <<>> /\ heap' \subseteq heap
      /\ open' = Empty /\ nodes' = Empty /\ content' = NoSpan
  BY DEF Refuse
<1>2. Length' = Length /\ Spans' = Spans
  BY <1>1, SameText
<1>3. DOMAIN Empty = {} /\ IsFiniteSet({})
  BY FS_EmptySet DEF Empty
<1>4. open' \in [DOMAIN open' -> Spans']
      /\ nodes' \in [DOMAIN nodes' -> [name : Spans', content : Spans']]
  BY <1>1, <1>3 DEF Empty
<1>5. NoSpan \in Spans'
  BY <1>2, NoSpanType DEF IInv, XmlTypeOK
<1>6. XmlTypeOK'
  BY <1>1, <1>2, <1>3, <1>4, <1>5 DEF IInv, XmlTypeOK
<1> QED
  BY <1>1, <1>6 DEF IInv, Frames

LEMMA MakeIInv ==
  ASSUME IInv, parser \in {"open", "close"}, NEW name \in Spans, Make(name),
         position' \in 0..Length, heap' \subseteq Kinds \X Seq(Nat)
  PROVE  IInv'
<1>1. text' = text /\ content' = NoSpan
  BY DEF Make
<1>2. Length' = Length /\ Spans' = Spans
  BY <1>1, SameText
<1> DEFINE node == [name |-> name, content |-> content]
           Node == [name : Spans, content : Spans]
<1>3. /\ nodes' \in [DOMAIN nodes \cup {at} -> Node]
      /\ IsFiniteSet(DOMAIN nodes \cup {at})
  <2>1. node \in Node
    BY DEF IInv, XmlTypeOK
  <2>2. nodes \in [DOMAIN nodes -> Node] /\ IsFiniteSet(DOMAIN nodes)
    BY DEF IInv, XmlTypeOK
  <2>3. nodes' = With(nodes, at, node)
    BY DEF Make
  <2> HIDE DEF node, Node
  <2> QED
    BY <2>1, <2>2, <2>3, WithType, FS_AddElement
<1>4. /\ nodes' \in [DOMAIN nodes' -> Node]
      /\ DOMAIN nodes' = DOMAIN nodes \cup {at}
  BY <1>3
<1>5. open' \in [DOMAIN open \ {at} -> Spans]
  <2>1. open \in [DOMAIN open -> Spans]
    BY DEF IInv, XmlTypeOK
  <2>2. open' = Restricted(open, DOMAIN open \ {at})
    BY DEF Make
  <2>3. DOMAIN open \cap (DOMAIN open \ {at}) = DOMAIN open \ {at}
    OBVIOUS
  <2>4. Restricted(open, DOMAIN open \ {at})
          \in [DOMAIN open \cap (DOMAIN open \ {at}) -> Spans]
    BY <2>1, RestrictedType
  <2> QED
    BY <2>2, <2>3, <2>4
<1>6. open' \in [DOMAIN open' -> Spans] /\ DOMAIN open' = DOMAIN open \ {at}
  BY <1>5
<1>7. NoSpan \in Spans
  BY NoSpanType DEF IInv, XmlTypeOK
<1>8. at \in Seq(Nat)
  BY DEF IInv, XmlTypeOK
<1>9. ASSUME at' \in Seq(Nat), parser' \in {"done", "children"} PROVE XmlTypeOK'
  BY <1>1, <1>2, <1>3, <1>4, <1>6, <1>7, <1>8, <1>9 DEF IInv, XmlTypeOK
<1>10. CASE at = <<>> /\ parser' = "done" /\ at' = at
  BY <1>1, <1>2, <1>8, <1>9, <1>10 DEF IInv, Frames
<1>11. CASE at # <<>> /\ parser' = "children" /\ at' = Parent(at)
  <2>1. /\ at' \in Seq(Nat)
        /\ Len(at') = Len(at) - 1
        /\ Len(at) \in Nat \ {0}
        /\ \A n \in 0..(Len(at) - 1) : SubSeq(at', 1, n) = SubSeq(at, 1, n)
    BY <1>8, <1>11, ParentType
  <2>2. \A n \in 0..(Len(at) - 1) : SubSeq(at, 1, n) \in DOMAIN open
    BY DEF IInv, Frames
  <2>3. \A n \in 0..(Len(at) - 1) : Len(SubSeq(at, 1, n)) = n
    BY <1>8, <2>1
  <2>4. \A n \in 0..(Len(at) - 1) : SubSeq(at, 1, n) \in DOMAIN open'
    <3>1. \A n \in 0..(Len(at) - 1) : SubSeq(at, 1, n) # at
      BY <2>1, <2>3
    <3> QED
      BY <1>6, <2>2, <3>1
  <2>5. at' \in DOMAIN open'
    <3>1. at' = SubSeq(at, 1, Len(at) - 1) /\ Len(at) - 1 \in 0..(Len(at) - 1)
      BY <1>11, <2>1 DEF Parent
    <3> QED
      BY <2>4, <3>1
  <2>6. \A n \in 0..(Len(at') - 1) : SubSeq(at', 1, n) \in DOMAIN open'
    <3>1. ASSUME NEW n \in 0..(Len(at') - 1) PROVE n \in 0..(Len(at) - 1)
      BY <2>1
    <3> QED
      BY <2>1, <2>4, <3>1
  <2>7. Length' # 0
    BY <1>2 DEF IInv
  <2> QED
    BY <1>9, <1>11, <2>1, <2>5, <2>6, <2>7 DEF IInv, Frames
<1> QED
  BY <1>10, <1>11 DEF Make
-----------------------------------------------------------------------------
LEMMA HeapType ==
  ASSUME NEW H \in SUBSET (Kinds \X Seq(Nat)), NEW k \in Kinds, NEW p \in Seq(Nat)
  PROVE  H \cup {<<k, p>>} \subseteq Kinds \X Seq(Nat)
OBVIOUS

LEMMA CallIInv ==
  ASSUME IInv, NEW t \in Seq(STRING), Call(t)
  PROVE  IInv'
<1>1. /\ text' = t /\ position' = 0 /\ heap' = {} /\ parser = "idle"
      /\ parser' = IF t = <<>> THEN "refused" ELSE "start"
      /\ at' = at /\ open' = open /\ content' = content /\ nodes' = nodes
  BY DEF Call
<1>2. open = Empty /\ content = NoSpan /\ nodes = Empty
  BY <1>1 DEF IInv
<1>3. Length' \in Nat /\ (t # <<>> => Length' # 0)
  BY <1>1 DEF Length
<1>4. DOMAIN Empty = {} /\ IsFiniteSet({})
  BY FS_EmptySet DEF Empty
<1>5. open' \in [DOMAIN open' -> Spans']
      /\ nodes' \in [DOMAIN nodes' -> [name : Spans', content : Spans']]
  BY <1>1, <1>2, <1>4 DEF Empty
<1>6. NoSpan \in Spans'
  BY <1>3 DEF NoSpan, Spans
<1>7. XmlTypeOK'
  BY <1>1, <1>2, <1>3, <1>4, <1>5, <1>6 DEF IInv, XmlTypeOK
<1> QED
  BY <1>1, <1>2, <1>3, <1>7 DEF IInv, Frames

LEMMA FreeIInv ==
  ASSUME IInv, Free
  PROVE  IInv'
<1>1. /\ text' = <<>> /\ position' = 0 /\ heap' \subseteq heap /\ parser' = "idle"
      /\ at' = <<>> /\ open' = Empty /\ content' = NoSpan /\ nodes' = Empty
  BY DEF Free
<1>2. Length' = 0
  BY <1>1 DEF Length
<1>3. DOMAIN Empty = {} /\ IsFiniteSet({})
  BY FS_EmptySet DEF Empty
<1>4. open' \in [DOMAIN open' -> Spans']
      /\ nodes' \in [DOMAIN nodes' -> [name : Spans', content : Spans']]
  BY <1>1, <1>3 DEF Empty
<1>5. NoSpan \in Spans'
  BY <1>2 DEF NoSpan, Spans
<1>6. XmlTypeOK'
  BY <1>1, <1>2, <1>3, <1>4, <1>5 DEF IInv, XmlTypeOK
<1> QED
  BY <1>1, <1>6 DEF IInv, Frames

LEMMA StartIInv ==
  ASSUME IInv, Start
  PROVE  IInv'
<1>1. /\ text' = text /\ position' = AfterMeta(position) /\ parser' = "open"
      /\ at' = <<>> /\ content' = NoSpan /\ open' = open /\ nodes' = nodes
      /\ heap' = heap \cup {<<"children", <<>>>>}
      /\ parser = "start"
  BY DEF Start, Enter
<1>2. Length' = Length /\ Spans' = Spans /\ NoSpan \in Spans
  BY <1>1, SameText, NoSpanType DEF IInv, XmlTypeOK
<1>3. AfterMeta(position) \in 0..Length
  BY MetaBounds DEF IInv, XmlTypeOK, Length
<1>4. heap' \subseteq Kinds \X Seq(Nat)
  <2>1. "children" \in Kinds /\ <<>> \in Seq(Nat)
    BY DEF Kinds
  <2>2. heap \in SUBSET (Kinds \X Seq(Nat))
    BY DEF IInv, XmlTypeOK
  <2> QED
    BY <1>1, <2>1, <2>2, HeapType
<1>5. XmlTypeOK'
  BY <1>1, <1>2, <1>3, <1>4 DEF IInv, XmlTypeOK
<1> QED
  BY <1>1, <1>2, <1>5 DEF IInv, Frames

\* What an action can use of the invariant.
LEMMA Parsing ==
  ASSUME IInv, parser \notin {"idle", "refused"}
  PROVE  /\ TextOK /\ Length \in Nat \ {0}
         /\ position \in 0..Length
         /\ SkipWhitespace(position) \in position..Length
         /\ Length - 1 \in 0..Length
<1>1. TextOK /\ position \in 0..Length /\ Length # 0
  BY DEF IInv, XmlTypeOK
<1>2. Length \in Nat
  BY <1>1 DEF Length
<1>3. SkipWhitespace(position) \in position..Length
  BY <1>1, SkipBounds
<1> QED
  BY <1>1, <1>2, <1>3

\* A tag that is found is a span, and the cursor comes to stand behind its start.
LEMMA TagBounds ==
  ASSUME TextOK, Length # 0, NEW q \in 0..Length, HasTagEnd(q)
  PROVE  /\ TagSpan(q) \in Spans
         /\ AfterTag(q) \in 0..Length
         /\ AfterTag(q) > q \/ AfterTag(q) = Length - 1
         /\ Stop(q, ">") \in q..(Length - 1)
         /\ Peek(Stop(q, ">")) = ">"
<1>1. Length \in Nat \ {0} /\ q \in Nat
  BY DEF Length
<1>2. Stop(q, ">") \in q..Length /\ Stop(q, ">") < Length
  BY StopBounds DEF HasTagEnd
<1>3. Peek(Stop(q, ">")) = ">"
  BY <1>1, <1>2, StopBounds
<1>4. /\ AfterTag(q) \in 0..(Length - 1)
      /\ AfterTag(q) = Stop(q, ">") + 1 \/ AfterTag(q) = Length - 1
  <2>1. Stop(q, ">") \in 0..Length /\ 1 \in Nat
    BY <1>1, <1>2
  <2> QED
    BY <2>1, ConsumeBounds DEF AfterTag
<1>5. TagSpan(q) \in Spans
  BY <1>1, <1>2 DEF TagSpan, Spans
<1> QED
  BY <1>1, <1>2, <1>3, <1>4, <1>5

LEMMA ContentIInv ==
  ASSUME IInv, Content
  PROVE  IInv'
<1> DEFINE p == SkipWhitespace(position)
           q == Stop(p, "<")
<1>1. parser = "content" /\ text' = text
  BY DEF Content, Refuse
<1>2. Length' = Length /\ Spans' = Spans
  BY <1>1, SameText
<1>3. TextOK /\ Length \in Nat \ {0} /\ p \in 0..Length
  BY <1>1, Parsing
<1>4. q \in p..Length
  BY <1>3, StopBounds
<1>5. CASE q = Length
  <2>1. Refuse /\ position' = Length - 1
    BY <1>3, <1>5 DEF Content
  <2> QED
    BY <2>1, <1>3, RefuseIInv
<1>6. CASE q < Length
  <2>1. /\ position' = q /\ content' = [start |-> p, length |-> q - p]
        /\ heap' = heap \cup {<<"content", at>>}
        /\ parser' = "close"
        /\ at' = at /\ open' = open /\ nodes' = nodes
    BY <1>3, <1>6 DEF Content
  <2>2. content' \in Spans
    BY <2>1, <1>3, <1>4 DEF Spans
  <2>3. heap' \subseteq Kinds \X Seq(Nat)
    BY <2>1 DEF IInv, XmlTypeOK, Kinds
  <2>4. position' \in 0..Length
    BY <2>1, <1>3, <1>4
  <2>5. XmlTypeOK'
    BY <1>1, <1>2, <2>1, <2>2, <2>3, <2>4 DEF IInv, XmlTypeOK
  <2> QED
    BY <1>1, <1>2, <1>3, <2>1, <2>5 DEF IInv, Frames
<1> QED
  BY <1>3, <1>4, <1>5, <1>6

LEMMA ChildIInv ==
  ASSUME IInv, Child
  PROVE  IInv'
<1>1. /\ parser = "children" /\ text' = text /\ position' = position
      /\ open' = open /\ nodes' = nodes
  BY DEF Child
<1>2. Length' = Length /\ Spans' = Spans /\ NoSpan \in Spans /\ Length # 0
  BY <1>1, SameText, NoSpanType DEF IInv, XmlTypeOK
<1>3. CASE parser' = "close" /\ at' = at /\ heap' = heap /\ content' = content
  BY <1>1, <1>2, <1>3 DEF IInv, XmlTypeOK, Frames
<1>4. CASE parser' = "open" /\ Enter(NextChild(at))
  <2> DEFINE i == Cardinality(Children(at)) + 1
  <2>1. i \in Nat
    <3>1. Children(at) \subseteq DOMAIN nodes /\ IsFiniteSet(DOMAIN nodes)
      BY DEF IInv, XmlTypeOK, Children
    <3> QED
      BY <3>1, FS_Subset, FS_CardinalityType
  <2>2. /\ at' = Append(at, i) /\ content' = NoSpan
        /\ heap' = heap \cup {<<"children", at'>>}
    BY <1>4 DEF Enter, NextChild
  <2> HIDE DEF i
  <2>3. at \in Seq(Nat)
    BY DEF IInv, XmlTypeOK
  <2>4. at' \in Seq(Nat) /\ Len(at') = Len(at) + 1 /\ Len(at) \in Nat
    BY <2>1, <2>2, <2>3
  <2>5. heap' \subseteq Kinds \X Seq(Nat)
    <3>1. "children" \in Kinds
      BY DEF Kinds
    <3>2. heap \in SUBSET (Kinds \X Seq(Nat))
      BY DEF IInv, XmlTypeOK
    <3> QED
      BY <2>2, <2>4, <3>1, <3>2, HeapType
  <2>6. XmlTypeOK'
    BY <1>1, <1>2, <1>4, <2>2, <2>4, <2>5 DEF IInv, XmlTypeOK
  <2>7. ASSUME NEW n \in 0..(Len(at') - 1)
        PROVE  SubSeq(at', 1, n) \in DOMAIN open
    <3>1. n \in 0..Len(at)
      BY <2>4
    <3>2. SubSeq(at', 1, n) = SubSeq(at, 1, n)
      <4>1. n \in Nat /\ n <= Len(at) /\ n <= Len(at')
        BY <2>4, <3>1
      <4>2. \A k \in 1..Len(at) : at'[k] = at[k]
        BY <2>1, <2>2, <2>3, AppendProperties
      <4>3. \A k \in 1..n : k \in 1..Len(at)
        BY <2>4, <4>1
      <4> QED
        BY <2>3, <2>4, <4>1, <4>2, <4>3, SamePrefix
    <3>3. CASE n = Len(at)
      <4>1. SubSeq(at, 1, n) = at
        BY <2>3, <3>3
      <4> QED
        BY <1>1, <3>2, <4>1 DEF IInv, Frames
    <3>4. CASE n # Len(at)
      <4>1. n \in 0..(Len(at) - 1)
        BY <2>4, <3>1, <3>4
      <4> QED
        BY <1>1, <3>2, <4>1 DEF IInv, Frames
    <3> QED
      BY <3>3, <3>4
  <2> QED
    BY <1>1, <1>2, <1>4, <2>6, <2>7 DEF IInv, Frames
<1> QED
  BY <1>3, <1>4 DEF Child

LEMMA TagOpenIInv ==
  ASSUME IInv, TagOpen
  PROVE  /\ IInv'
         /\ parser' # "refused" => position' > position
<1> DEFINE p == SkipWhitespace(position)
           q == Consume(p, 1)
           tag == TagSpan(q)
           made == {<<"name", at>>, <<"attributes", at>>}
<1>1. parser = "open" /\ at \in Seq(Nat) /\ heap \in SUBSET (Kinds \X Seq(Nat))
  BY DEF TagOpen, IInv, XmlTypeOK
<1>2. /\ TextOK /\ Length \in Nat \ {0} /\ position \in 0..Length
      /\ p \in position..Length /\ p \in 0..Length
  BY <1>1, Parsing
<1>3. q \in 0..(Length - 1) /\ (q = p + 1 \/ q = Length - 1)
  BY <1>2, ConsumeBounds
<1>4. CASE Refuse /\ position' \in {p, Length - 1}
  <2>1. position' \in 0..Length
    BY <1>2, <1>4
  <2>2. parser' = "refused"
    BY <1>4 DEF Refuse
  <2> QED
    BY <1>4, <2>1, <2>2, RefuseIInv
<1>5. CASE Peek(p) = "<" /\ HasTagEnd(q) /\ position' = AfterTag(q)
  <2>1. /\ tag \in Spans
        /\ AfterTag(q) \in 0..Length
        /\ AfterTag(q) > q \/ AfterTag(q) = Length - 1
        /\ Stop(q, ">") \in q..(Length - 1)
        /\ Peek(Stop(q, ">")) = ">"
    BY <1>2, <1>3, <1>5, TagBounds
  <2>2. NameOf(tag) \in Spans
    BY <1>2, <2>1, NameBounds
  <2>3. position' > position
    <3>1. Mark(p) \in p..(Length - 1)
      BY <1>2, <1>5, PeekBounds
    <3>2. p <= Length - 1
      BY <1>2, <3>1
    <3>3. CASE p = Length - 1
      <4>1. q = p /\ Stop(q, ">") = p
        BY <1>2, <1>3, <2>1, <3>3
      <4> QED
        BY <1>5, <2>1, <4>1
    <3>4. CASE p < Length - 1
      BY <1>2, <1>3, <1>5, <2>1, <3>4
    <3> QED
      BY <1>2, <3>2, <3>3, <3>4
  <2>4. /\ heap \cup made \subseteq Kinds \X Seq(Nat)
        /\ heap \cup made \cup {<<"node", at>>} \subseteq Kinds \X Seq(Nat)
    <3>1. {"name", "attributes", "node"} \subseteq Kinds
      BY DEF Kinds
    <3> QED
      BY <1>1, <3>1
  <2>5. CASE /\ SelfClosing(tag)
             /\ heap' = heap \cup made \cup {<<"node", at>>}
             /\ Make(NameOf(tag))
    BY <1>1, <1>5, <2>1, <2>2, <2>3, <2>4, <2>5, MakeIInv
  <2>6. CASE /\ heap' = heap \cup made
             /\ open' = With(open, at, NameOf(tag))
             /\ parser' \in {"children", "content"}
             /\ UNCHANGED <<text, at, content, nodes>>
    <3>1. Length' = Length /\ Spans' = Spans
      BY <2>6, SameText
    <3>2. open' \in [DOMAIN open \cup {at} -> Spans]
      BY <2>2, <2>6, WithType DEF IInv, XmlTypeOK
    <3>3. XmlTypeOK'
      BY <1>1, <1>5, <2>1, <2>4, <2>6, <3>1, <3>2 DEF IInv, XmlTypeOK
    <3>4. Frames'
      BY <1>1, <2>6, <3>2 DEF IInv, Frames
    <3> QED
      BY <1>2, <2>3, <2>6, <3>1, <3>3, <3>4 DEF IInv
  <2> QED
    <3>1. \/ /\ SelfClosing(tag)
             /\ heap' = heap \cup made \cup {<<"node", at>>}
             /\ Make(NameOf(tag))
          \/ /\ heap' = heap \cup made
             /\ open' = With(open, at, NameOf(tag))
             /\ parser' = IF Peek(AfterTag(q)) = "<" THEN "children" ELSE "content"
             /\ UNCHANGED <<text, at, content, nodes>>
          \/ Refuse /\ position' \in {p, Length - 1}
      BY DEF TagOpen
    <3> QED
      BY <1>4, <2>5, <2>6, <3>1
<1> QED
  BY <1>4, <1>5 DEF TagOpen

LEMMA TagCloseIInv ==
  ASSUME IInv, TagClose
  PROVE  /\ IInv'
         /\ parser' # "refused" => position' > position
<1> DEFINE p == SkipWhitespace(position)
           q == Consume(p, 2)
<1>1. parser = "close" /\ at \in Seq(Nat) /\ heap \in SUBSET (Kinds \X Seq(Nat))
  BY DEF TagClose, IInv, XmlTypeOK
<1>2. /\ TextOK /\ Length \in Nat \ {0} /\ position \in 0..Length
      /\ p \in position..Length /\ p \in 0..Length
  BY <1>1, Parsing
<1>3. q \in 0..(Length - 1) /\ (q = p + 2 \/ q = Length - 1)
  BY <1>2, ConsumeBounds
<1>4. CASE Refuse /\ position' \in {p, Length - 1}
  <2>1. position' \in 0..Length
    BY <1>2, <1>4
  <2>2. parser' = "refused"
    BY <1>4 DEF Refuse
  <2> QED
    BY <1>4, <2>1, <2>2, RefuseIInv
<1>5. CASE Peek(p) = "<" /\ PeekNext(p) = "/" /\ HasTagEnd(q) /\ position' = AfterTag(q)
  <2>1. /\ AfterTag(q) \in 0..Length
        /\ AfterTag(q) > q \/ AfterTag(q) = Length - 1
    BY <1>2, <1>3, <1>5, TagBounds
  <2>2. CASE Refuse
    BY <2>1, <1>5, <2>2, RefuseIInv DEF Refuse
  <2>3. position' > position
    <3>1. Mark(p) \in p..(Length - 1)
      BY <1>2, <1>5, PeekBounds
    <3>2. Mark(Mark(p) + 1) \in (Mark(p) + 1)..(Length - 1)
      <4>1. Mark(p) + 1 \in 0..Length /\ Mark(p) # Length
        BY <1>2, <3>1
      <4>2. Peek(Mark(p) + 1) # "NUL"
        BY <1>5, <4>1 DEF PeekNext
      <4> QED
        BY <1>2, <4>1, <4>2, PeekBounds
    <3>3. p < Length - 1
      BY <1>2, <3>1, <3>2
    <3> QED
      BY <1>2, <1>3, <1>5, <2>1, <3>3
  <2>4. CASE heap' = heap \cup {<<"node", at>>} /\ Make(open[at])
    <3>1. open[at] \in Spans
      BY <1>1 DEF IInv, XmlTypeOK, Frames
    <3>2. heap' \subseteq Kinds \X Seq(Nat)
      <4>1. "node" \in Kinds
        BY DEF Kinds
      <4> QED
        BY <1>1, <2>4, <4>1, HeapType
    <3> QED
      BY <1>1, <1>5, <2>1, <2>3, <2>4, <3>1, <3>2, MakeIInv
  <2> QED
    <3>1. \/ Refuse
          \/ heap' = heap \cup {<<"node", at>>} /\ Make(open[at])
      BY DEF TagClose
    <3> QED
      BY <2>2, <2>4, <3>1
<1> QED
  BY <1>4, <1>5 DEF TagClose
-----------------------------------------------------------------------------
LEMMA NextIInv ==
  ASSUME Texts \subseteq Seq(STRING), IInv, [XmlNext]_xmlVars
  PROVE  IInv'
<1>1. CASE UNCHANGED xmlVars
  <2>1. Length' = Length /\ Spans' = Spans
    BY <1>1, SameText DEF xmlVars
  <2> QED
    BY <1>1, <2>1 DEF xmlVars, IInv, XmlTypeOK, Frames
<1>2. ASSUME NEW t \in Texts, Call(t) PROVE IInv'
  BY <1>2, CallIInv
<1>3. CASE Start
  BY <1>3, StartIInv
<1>4. CASE TagOpen
  BY <1>4, TagOpenIInv
<1>5. CASE Content
  BY <1>5, ContentIInv
<1>6. CASE Child
  BY <1>6, ChildIInv
<1>7. CASE TagClose
  BY <1>7, TagCloseIInv
<1>8. CASE Free
  BY <1>8, FreeIInv
<1> QED
  BY <1>1, <1>2, <1>3, <1>4, <1>5, <1>6, <1>7, <1>8 DEF XmlNext, Parse

\* Whatever the text: the cursor stands on it or on its terminator, names and
\* contents are spans of it (xml.c reads and lends out nothing beyond the body).
THEOREM TypeCorrect ==
  ASSUME Texts \subseteq Seq(STRING)
  PROVE  XmlSpec => []XmlTypeOK
<1>1. IInv /\ [XmlNext]_xmlVars => IInv'
  BY NextIInv
<1>2. IInv => XmlTypeOK
  BY DEF IInv
<1> QED
  BY InitIInv, <1>1, <1>2, PTL DEF XmlSpec

LEMMA ParseKeeps == Parse => text' = text /\ parser # "idle" /\ parser' # "idle"
BY DEF Parse, Start, TagOpen, Content, Child, TagClose, Make, Refuse

\* A step either ends the parsing or moves the cursor on, and one that only keeps
\* the cursor where it is comes before a tag.
LEMMA RankDecreases ==
  ASSUME IInv, Parse
  PROVE  Rank' < Rank
<1>1. parser \in {"start", "open", "content", "children", "close"} /\ text' = text
  BY ParseKeeps DEF Parse, Start, TagOpen, Content, Child, TagClose
<1>2. /\ TextOK /\ Length \in Nat \ {0} /\ position \in 0..Length /\ Length' = Length
      /\ SkipWhitespace(position) \in position..Length
  BY <1>1, Parsing DEF Length
<1>3. CASE parser' \in {"done", "refused"}
  BY <1>1, <1>2, <1>3 DEF Rank
<1>4. CASE Start
  <2>1. parser = "start" /\ parser' = "open" /\ position' = AfterMeta(position)
    BY <1>4 DEF Start
  <2>2. AfterMeta(position) \in position..Length
    BY <1>2, MetaBounds
  <2> QED
    BY <1>2, <2>1, <2>2 DEF Rank
<1>5. CASE parser \in {"open", "close"} /\ parser' \notin {"done", "refused"}
  <2>1. IInv' /\ (parser' # "refused" => position' > position)
    BY <1>5, TagOpenIInv, TagCloseIInv DEF Parse, Start, Content, Child
  <2>2. position' \in 0..Length /\ position' > position
    BY <1>2, <1>5, <2>1 DEF IInv, XmlTypeOK
  <2>3. Rank = 2 * (Length - position) + 1
    BY <1>5 DEF Rank
  <2>4. Rank' = 2 * (Length - position') + 1 \/ Rank' = 2 * (Length - position') + 2
    BY <1>2, <1>5 DEF Rank
  <2> QED
    BY <1>2, <2>2, <2>3, <2>4
<1>6. CASE Content /\ parser' # "refused"
  <2>1. /\ parser = "content" /\ parser' = "close"
        /\ position' = Stop(SkipWhitespace(position), "<")
    BY <1>6 DEF Content, Refuse
  <2>2. Stop(SkipWhitespace(position), "<") \in SkipWhitespace(position)..Length
    BY <1>2, StopBounds
  <2>3. position' \in position..Length
    BY <1>2, <2>1, <2>2
  <2> QED
    BY <1>2, <2>1, <2>3 DEF Rank
<1>7. CASE Child
  <2>1. parser = "children" /\ parser' \in {"open", "close"} /\ position' = position
    BY <1>7 DEF Child
  <2> QED
    BY <1>2, <2>1 DEF Rank
<1> QED
  BY <1>1, <1>3, <1>4, <1>5, <1>6, <1>7 DEF Parse, TagOpen, TagClose

\* What a step of xml_parse_node() does for the end, of any other nothing is asked.
LEMMA ParseAdvances ==
  ASSUME IInv, Parse
  PROVE  /\ (parser \in {"open", "close"} /\ parser' # "refused") => (position' > position)
         /\ (parser \notin {"idle", "done", "refused"}) => (Rank' < Rank)
<1>1. parser \in {"open", "close"} /\ parser' # "refused" => position' > position
  BY TagOpenIInv, TagCloseIInv DEF Parse, Start, Content, Child
<1> QED
  BY <1>1, RankDecreases

\* Whatever the text: every tag that is read moves the cursor on, so that the
\* loop over the children in xml_parse_node() cannot stay where it is, and there
\* are at most two steps for every character.
THEOREM TagsAdvance ==
  ASSUME Texts \subseteq Seq(STRING)
  PROVE  XmlSpec => Advances
<1>1. IInv /\ [XmlNext]_xmlVars => IInv'
  BY NextIInv
<1>2. ASSUME IInv, [XmlNext]_xmlVars
      PROVE  [/\ (parser \in {"open", "close"} /\ parser' # "refused") => (position' > position)
              /\ (parser \notin {"idle", "done", "refused"}) => (Rank' < Rank)]_xmlVars
  <2>1. CASE Parse
    BY <1>2, <2>1, ParseAdvances
  <2>2. CASE \E t \in Texts : Call(t)
    BY <2>2 DEF Call
  <2>3. CASE Free
    BY <2>3 DEF Free
  <2> QED
    BY <1>2, <2>1, <2>2, <2>3 DEF XmlNext
<1> QED
  BY InitIInv, <1>1, <1>2, PTL DEF XmlSpec, Advances
-----------------------------------------------------------------------------
\* What is allocated, and who will release it: while nodes are parsed everything
\* belongs to a node that was made or to an open frame, and a frame owns no node.
\* That the root is made last is what lets a failing root release all the others.
Owned ==
  /\ parser \in {"idle", "refused"} => \A o \in heap : o[1] = "attributes"
  /\ parser = "start" => heap = {} /\ nodes = Empty
  /\ parser \in {"open", "content", "children", "close"} =>
       /\ <<>> \notin DOMAIN nodes
       /\ \A o \in heap : \/ o[2] \in DOMAIN nodes
                          \/ o[2] \in Prefixes(at) /\ o[1] # "node"
       /\ \A p \in DOMAIN nodes : Prefixes(p) \subseteq DOMAIN nodes \cup Prefixes(at)
  /\ parser = "done" =>
       /\ \A o \in heap : o[2] \in DOMAIN nodes
       /\ \A p \in DOMAIN nodes : Prefixes(p) \subseteq DOMAIN nodes

\* The frames that are open are the root, the frame itself and those between.
LEMMA FramesOpen ==
  ASSUME NEW p \in Seq(Nat)
  PROVE  p \in Prefixes(p) /\ <<>> \in Prefixes(p)
<1>1. Len(p) \in Nat
  OBVIOUS
<1>2. SubSeq(p, 1, Len(p)) = p /\ SubSeq(p, 1, 0) = <<>>
  OBVIOUS
<1>3. SubSeq(p, 1, Len(p)) \in Prefixes(p) /\ SubSeq(p, 1, 0) \in Prefixes(p)
  BY <1>1 DEF Prefixes
<1> QED
  BY <1>2, <1>3

\* A frame is entered inside those that are open.
LEMMA FramesEntered ==
  ASSUME NEW p \in Seq(Nat), NEW i \in Nat
  PROVE  Prefixes(p) \subseteq Prefixes(Append(p, i))
<1> SUFFICES ASSUME NEW n \in 0..Len(p)
             PROVE  SubSeq(p, 1, n) \in Prefixes(Append(p, i))
  BY DEF Prefixes
<1> DEFINE q == Append(p, i)
<1>1. /\ q \in Seq(Nat) /\ Len(q) = Len(p) + 1 /\ Len(p) \in Nat
      /\ \A k \in 1..Len(p) : q[k] = p[k]
  BY AppendProperties
<1> HIDE DEF q
<1>2. SubSeq(q, 1, n) = SubSeq(p, 1, n)
  <2>1. n \in Nat /\ n <= Len(p) /\ n <= Len(q) /\ \A k \in 1..n : k \in 1..Len(p)
    BY <1>1
  <2> QED
    BY <1>1, <2>1, SamePrefix
<1>3. n \in 0..Len(q)
  BY <1>1
<1> QED
  BY <1>2, <1>3 DEF Prefixes, q

\* A frame that is left was the only one that is not around it.
LEMMA FramesLeft ==
  ASSUME NEW p \in Seq(Nat), p # <<>>
  PROVE  Prefixes(p) \subseteq Prefixes(Parent(p)) \cup {p}
<1> SUFFICES ASSUME NEW n \in 0..Len(p), SubSeq(p, 1, n) # p
             PROVE  SubSeq(p, 1, n) \in Prefixes(Parent(p))
  BY DEF Prefixes
<1>1. /\ Len(Parent(p)) = Len(p) - 1 /\ Len(p) \in Nat \ {0}
      /\ \A k \in 0..(Len(p) - 1) : SubSeq(Parent(p), 1, k) = SubSeq(p, 1, k)
  BY ParentType
<1>2. n # Len(p)
  OBVIOUS
<1>3. n \in 0..(Len(p) - 1)
  BY <1>1, <1>2
<1>4. n \in 0..Len(Parent(p)) /\ SubSeq(Parent(p), 1, n) = SubSeq(p, 1, n)
  BY <1>1, <1>3
<1> QED
  BY <1>4 DEF Prefixes

\* Everything but the root lies below the root.
LEMMA BelowRoot ==
  ASSUME DOMAIN nodes \subseteq Seq(Nat), <<>> \notin DOMAIN nodes
  PROVE  DOMAIN nodes \subseteq Below(<<>>)
<1> SUFFICES ASSUME NEW q \in DOMAIN nodes
             PROVE  Len(q) > Len(<<>>) /\ SubSeq(q, 1, Len(<<>>)) = <<>>
  BY DEF Below
<1>1. q \in Seq(Nat) /\ q # <<>> /\ Len(<<>>) = 0
  OBVIOUS
<1>2. Len(q) > 0 /\ SubSeq(q, 1, 0) = <<>>
  BY <1>1
<1> QED
  BY <1>1, <1>2

LEMMA ObjectParts ==
  ASSUME NEW o \in Kinds \X Seq(Nat)
  PROVE  /\ o \in Parts(o[2])
         /\ o[1] \in {"name", "content", "children"} => o \in Parts(o[2]) \ {<<"node", o[2]>>, <<"attributes", o[2]>>}
         /\ o = <<o[1], o[2]>>
BY DEF Kinds, Parts

LEMMA RefuseOwned ==
  ASSUME IInv, Owned, parser \in {"open", "content", "close"}, Refuse
  PROVE  Owned'
<1>1. /\ parser' = "refused"
      /\ heap' = heap \ UNION {Released(p) : p \in Prefixes(at)}
  BY DEF Refuse
<1>2. at \in Seq(Nat) /\ DOMAIN nodes \subseteq Seq(Nat) /\ heap \subseteq Kinds \X Seq(Nat)
  BY DEF IInv, XmlTypeOK
<1>3. ASSUME NEW o \in heap, o[1] # "attributes"
      PROVE  \E p \in Prefixes(at) : o \in Released(p)
  <2>1. o \in Kinds \X Seq(Nat) /\ o = <<o[1], o[2]>> /\ o \in Parts(o[2])
    BY <1>2, ObjectParts
  <2>2. CASE o[2] \in DOMAIN nodes
    <3>1. o[2] \in Below(<<>>)
      BY <1>2, <2>2, BelowRoot DEF Owned
    <3>2. o \in Released(<<>>)
      BY <2>1, <3>1 DEF Released
    <3> QED
      BY <1>2, <3>2, FramesOpen
  <2>3. CASE o[2] \in Prefixes(at) /\ o[1] # "node"
    <3>1. o[1] \in {"name", "content", "children"}
      BY <1>3, <2>1, <2>3 DEF Kinds
    <3>2. o \in Released(o[2])
      BY <2>1, <3>1 DEF Released
    <3> QED
      BY <2>3, <3>2
  <2> QED
    BY <2>2, <2>3 DEF Owned
<1>4. \A o \in heap' : o[1] = "attributes"
  BY <1>1, <1>3
<1> QED
  BY <1>1, <1>4 DEF Owned

\* The parts of the frame become those of its node.
LEMMA MakeOwned ==
  ASSUME IInv, Owned, parser \in {"open", "close"}, NEW name, Make(name),
         NEW new, heap' = heap \cup new, \A o \in new : o[2] = at
  PROVE  Owned'
<1>1. at \in Seq(Nat) /\ <<>> \notin DOMAIN nodes
  BY DEF IInv, XmlTypeOK, Owned
<1>2. DOMAIN nodes' = DOMAIN nodes \cup {at}
  BY DEF Make, With
<1>3. \A o \in heap' : o[2] \in DOMAIN nodes' \/ (o[2] \in Prefixes(at) /\ o[1] # "node")
  BY <1>2 DEF Owned
<1>4. \A p \in DOMAIN nodes' : Prefixes(p) \subseteq DOMAIN nodes' \cup Prefixes(at)
  BY <1>2 DEF Owned
<1>5. CASE at = <<>> /\ parser' = "done"
  <2>1. Prefixes(at) = {<<>>}
    <3>1. Len(<<>>) = 0 /\ SubSeq(<<>>, 1, 0) = <<>> /\ 0..0 = {0}
      OBVIOUS
    <3> QED
      BY <1>5, <3>1 DEF Prefixes
  <2> QED
    BY <1>2, <1>3, <1>4, <1>5, <2>1 DEF Owned
<1>6. CASE at # <<>> /\ parser' = "children" /\ at' = Parent(at)
  <2>1. Prefixes(at) \subseteq Prefixes(at') \cup {at}
    BY <1>1, <1>6, FramesLeft
  <2>2. <<>> \notin DOMAIN nodes'
    BY <1>1, <1>2, <1>6
  <2>3. \A o \in heap' : o[2] \in DOMAIN nodes' \/ (o[2] \in Prefixes(at') /\ o[1] # "node")
    BY <1>2, <1>3, <2>1
  <2>4. \A p \in DOMAIN nodes' : Prefixes(p) \subseteq DOMAIN nodes' \cup Prefixes(at')
    BY <1>2, <1>4, <2>1
  <2> QED
    BY <1>6, <2>2, <2>3, <2>4 DEF Owned
<1> QED
  BY <1>5, <1>6 DEF Make

LEMMA ParseOwned ==
  ASSUME IInv, Owned, Parse
  PROVE  Owned'
<1>1. at \in Seq(Nat) /\ at \in Prefixes(at) /\ <<>> \in Prefixes(<<>>)
  <2>1. at \in Seq(Nat) /\ <<>> \in Seq(Nat)
    BY DEF IInv, XmlTypeOK
  <2> QED
    BY <2>1, FramesOpen
<1>2. CASE Start
  <2>1. /\ parser = "start" /\ parser' = "open" /\ at' = <<>> /\ nodes' = nodes
        /\ heap' = heap \cup {<<"children", <<>>>>}
    BY <1>2 DEF Start, Enter
  <2>2. DOMAIN nodes = {} /\ heap = {}
    BY <2>1 DEF Owned, Empty
  <2> QED
    BY <1>1, <2>1, <2>2 DEF Owned
<1>3. CASE TagOpen
  <2> DEFINE made == {<<"name", at>>, <<"attributes", at>>}
  <2>1. parser = "open"
    BY <1>3 DEF TagOpen
  <2>2. PICK name :
          \/ Refuse
          \/ heap' = heap \cup made \cup {<<"node", at>>} /\ Make(name)
          \/ /\ heap' = heap \cup made /\ parser' \in {"children", "content"}
             /\ UNCHANGED <<at, nodes>>
    BY <1>3 DEF TagOpen
  <2>3. CASE Refuse
    BY <2>1, <2>3, RefuseOwned
  <2>4. CASE heap' = heap \cup made \cup {<<"node", at>>} /\ Make(name)
    <3> DEFINE new == made \cup {<<"node", at>>}
    <3>1. heap' = heap \cup new /\ \A o \in new : o[2] = at
      BY <2>4
    <3> HIDE DEF new
    <3> QED
      BY <2>1, <2>4, <3>1, MakeOwned
  <2>5. CASE /\ heap' = heap \cup made /\ parser' \in {"children", "content"}
             /\ UNCHANGED <<at, nodes>>
    BY <1>1, <2>1, <2>5 DEF Owned
  <2> QED
    BY <2>2, <2>3, <2>4, <2>5
<1>4. CASE Content
  <2>1. parser = "content"
    BY <1>4 DEF Content
  <2>2. \/ Refuse
        \/ /\ heap' = heap \cup {<<"content", at>>} /\ parser' = "close"
           /\ UNCHANGED <<at, nodes>>
    BY <1>4 DEF Content
  <2>3. CASE Refuse
    BY <2>1, <2>3, RefuseOwned
  <2>4. CASE /\ heap' = heap \cup {<<"content", at>>} /\ parser' = "close"
             /\ UNCHANGED <<at, nodes>>
    BY <1>1, <2>1, <2>4 DEF Owned
  <2> QED
    BY <2>2, <2>3, <2>4
<1>5. CASE Child
  <2>1. parser = "children" /\ nodes' = nodes
    BY <1>5 DEF Child
  <2>2. CASE parser' = "close" /\ UNCHANGED <<at, heap>>
    BY <2>1, <2>2 DEF Owned
  <2>3. CASE parser' = "open" /\ Enter(NextChild(at))
    <3> DEFINE i == Cardinality(Children(at)) + 1
    <3>1. i \in Nat
      <4>1. Children(at) \subseteq DOMAIN nodes /\ IsFiniteSet(DOMAIN nodes)
        BY DEF IInv, XmlTypeOK, Children
      <4> QED
        BY <4>1, FS_Subset, FS_CardinalityType
    <3>2. at' = Append(at, i) /\ heap' = heap \cup {<<"children", at'>>}
      BY <2>3 DEF Enter, NextChild
    <3> HIDE DEF i
    <3>3. at' \in Seq(Nat)
      BY <1>1, <3>1, <3>2
    <3>4. Prefixes(at) \subseteq Prefixes(at') /\ at' \in Prefixes(at')
      BY <1>1, <3>1, <3>2, <3>3, FramesEntered, FramesOpen
    <3>5. /\ <<>> \notin DOMAIN nodes
          /\ \A o \in heap : \/ o[2] \in DOMAIN nodes
                             \/ o[2] \in Prefixes(at) /\ o[1] # "node"
          /\ \A p \in DOMAIN nodes : Prefixes(p) \subseteq DOMAIN nodes \cup Prefixes(at)
      BY <2>1 DEF Owned
    <3>6. \A o \in heap' : \/ o[2] \in DOMAIN nodes
                           \/ o[2] \in Prefixes(at') /\ o[1] # "node"
      <4>1. ASSUME NEW o \in heap
            PROVE  o[2] \in DOMAIN nodes \/ (o[2] \in Prefixes(at') /\ o[1] # "node")
        BY <3>4, <3>5
      <4>2. <<"children", at'>>[2] = at' /\ <<"children", at'>>[1] # "node"
        OBVIOUS
      <4> QED
        BY <3>2, <3>4, <4>1, <4>2
    <3>7. \A p \in DOMAIN nodes : Prefixes(p) \subseteq DOMAIN nodes \cup Prefixes(at')
      BY <3>4, <3>5
    <3> QED
      BY <2>1, <2>3, <3>5, <3>6, <3>7 DEF Owned
  <2> QED
    BY <1>5, <2>2, <2>3 DEF Child
<1>6. CASE TagClose
  <2>1. parser = "close"
    BY <1>6 DEF TagClose
  <2>2. Refuse \/ (heap' = heap \cup {<<"node", at>>} /\ Make(open[at]))
    BY <1>6 DEF TagClose
  <2>3. CASE Refuse
    BY <2>1, <2>3, RefuseOwned
  <2>4. CASE heap' = heap \cup {<<"node", at>>} /\ Make(open[at])
    <3> DEFINE new == {<<"node", at>>}
    <3>1. heap' = heap \cup new /\ \A o \in new : o[2] = at
      BY <2>4
    <3> HIDE DEF new
    <3> QED
      BY <2>1, <2>4, <3>1, MakeOwned
  <2> QED
    BY <2>2, <2>3, <2>4
<1> QED
  BY <1>2, <1>3, <1>4, <1>5, <1>6 DEF Parse

LEMMA CallOwned ==
  ASSUME IInv, Owned, NEW t, Call(t)
  PROVE  Owned'
<1>1. nodes = Empty
  BY DEF Call, IInv
<1> QED
  BY <1>1 DEF Call, Owned

LEMMA FreeOwned ==
  ASSUME IInv, Owned, Free
  PROVE  Owned'
<1>1. /\ parser \in {"done", "refused"} /\ parser' = "idle"
      /\ heap' = heap \ UNION {Parts(p) : p \in DOMAIN nodes}
  BY DEF Free
<1>2. \A o \in heap : o \in Parts(o[2])
  BY ObjectParts DEF IInv, XmlTypeOK
<1>3. \A o \in heap' : o[1] = "attributes"
  BY <1>1, <1>2 DEF Owned
<1> QED
  BY <1>1, <1>3 DEF Owned

LEMMA OwnedLeaks ==
  ASSUME IInv, Owned
  PROVE  NothingElseLeaks
<1>1. \A o \in heap : o \in Parts(o[2])
  BY ObjectParts DEF IInv, XmlTypeOK
<1> QED
  BY <1>1 DEF Owned, NothingElseLeaks

LEMMA NextOwned ==
  ASSUME IInv, Owned, [XmlNext]_xmlVars
  PROVE  Owned'
<1>1. CASE UNCHANGED xmlVars
  <2>1. parser' = parser /\ heap' = heap /\ nodes' = nodes /\ at' = at
    BY <1>1 DEF xmlVars
  <2> QED
    BY <2>1 DEF Owned
<1>2. ASSUME NEW t \in Texts, Call(t) PROVE Owned'
  BY <1>2, CallOwned
<1>3. CASE Parse
  BY <1>3, ParseOwned
<1>4. CASE Free
  BY <1>4, FreeOwned
<1> QED
  BY <1>1, <1>2, <1>3, <1>4 DEF XmlNext

\* Whatever the text: when xml_parse_document() refuses it, only attributes stay
\* allocated; when it accepts it, all that is allocated belongs to nodes that
\* xml_document_free() comes to from the root.
THEOREM OnlyAttributesLeak ==
  ASSUME Texts \subseteq Seq(STRING)
  PROVE  XmlSpec => []NothingElseLeaks
<1>1. XmlInit => IInv /\ Owned
  BY InitIInv DEF XmlInit, Owned
<1>2. IInv /\ Owned /\ [XmlNext]_xmlVars => IInv' /\ Owned'
  BY NextIInv, NextOwned
<1> QED
  BY <1>1, <1>2, OwnedLeaks, PTL DEF XmlSpec
-----------------------------------------------------------------------------
\* The array of children of every node has no gaps.
Dense(D) == \A p \in Seq(Nat) :
              ChildrenIn(D, p) = {Append(p, i) : i \in 1..Cardinality(ChildrenIn(D, p))}

\* Every frame on the path a stands behind the children that are made.
Latest(D, a) == \A k \in 1..Len(a) :
                  a[k] = Cardinality(ChildrenIn(D, SubSeq(a, 1, k - 1))) + 1

\* What xml_node_children() counts is what xml_node_child() finds.
Numbered == /\ Dense(DOMAIN nodes)
            /\ parser \in {"open", "content", "children", "close"} => Latest(DOMAIN nodes, at)

LEMMA ChildrenCount ==
  ASSUME NEW D, IsFiniteSet(D), NEW p
  PROVE  IsFiniteSet(ChildrenIn(D, p)) /\ Cardinality(ChildrenIn(D, p)) \in Nat
<1>1. ChildrenIn(D, p) \in SUBSET D
  BY DEF ChildrenIn
<1> QED
  BY <1>1, FS_Subset, FS_CardinalityType

LEMMA DenseEmpty == Dense({})
<1>1. \A p : ChildrenIn({}, p) = {}
  BY DEF ChildrenIn
<1>2. Cardinality({}) = 0 /\ 1..0 = {}
  BY FS_EmptySet
<1> QED
  BY <1>1, <1>2 DEF Dense

\* The root is nobody's child.
LEMMA DenseRoot ==
  ASSUME NEW D, Dense(D)
  PROVE  Dense(D \cup {<<>>})
<1>1. \A p : ChildrenIn(D \cup {<<>>}, p) = ChildrenIn(D, p)
  BY DEF ChildrenIn
<1> QED
  BY <1>1 DEF Dense

LEMMA LastOfPath ==
  ASSUME NEW a \in Seq(Nat), a # <<>>
  PROVE  a = Append(Parent(a), a[Len(a)]) /\ a[Len(a)] \in Nat
<1>1. /\ Parent(a) \in Seq(Nat) /\ Len(Parent(a)) = Len(a) - 1 /\ Len(a) \in Nat \ {0}
  BY ParentType
<1>2. a[Len(a)] \in Nat
  BY <1>1
<1>3. \A i \in 1..(Len(a) - 1) : Parent(a)[i] = a[i]
  BY <1>1 DEF Parent
<1> DEFINE b == Append(Parent(a), a[Len(a)])
<1>4. b \in Seq(Nat) /\ Len(b) = Len(a)
  BY <1>1, <1>2
<1>5. \A i \in 1..Len(a) : b[i] = a[i]
  BY <1>1, <1>2, <1>3
<1> HIDE DEF b
<1>6. b = a
  BY <1>4, <1>5, SeqEqual
<1> QED
  BY <1>2, <1>6 DEF b

\* A node that is made becomes the latest child of the one around it; those
\* around that one gain none.
LEMMA DenseChild ==
  ASSUME NEW D \in SUBSET Seq(Nat), IsFiniteSet(D), Dense(D),
         NEW a \in Seq(Nat), a # <<>>, Latest(D, a)
  PROVE  Dense(D \cup {a}) /\ Latest(D \cup {a}, Parent(a))
<1> DEFINE q == Parent(a)
           E == D \cup {a}
           n == Cardinality(ChildrenIn(D, q))
<1>1. /\ q \in Seq(Nat) /\ Len(q) = Len(a) - 1 /\ Len(a) \in Nat \ {0}
      /\ \A k \in 0..(Len(a) - 1) : SubSeq(q, 1, k) = SubSeq(a, 1, k)
  BY ParentType
<1>2. n \in Nat /\ IsFiniteSet(ChildrenIn(D, q))
  BY ChildrenCount
<1>3. a = Append(q, n + 1)
  <2>1. q = SubSeq(a, 1, Len(a) - 1) /\ Len(a) \in 1..Len(a)
    BY <1>1 DEF Parent
  <2>2. a[Len(a)] = n + 1
    BY <2>1 DEF Latest
  <2> QED
    BY <2>2, LastOfPath
<1>4. \A p : p # q => ChildrenIn(E, p) = ChildrenIn(D, p)
  BY DEF ChildrenIn
<1>5. ChildrenIn(E, q) = ChildrenIn(D, q) \cup {a}
  BY DEF ChildrenIn
<1> HIDE DEF q, n
<1>6. ChildrenIn(D, q) = {Append(q, i) : i \in 1..n}
  BY <1>1 DEF Dense, n
<1>7. a \notin ChildrenIn(D, q)
  <2>1. ASSUME NEW i \in 1..n PROVE Append(q, i) # Append(q, n + 1)
    BY <1>1, <1>2, AppendInjective
  <2> QED
    BY <1>3, <1>6, <2>1
<1>8. Cardinality(ChildrenIn(E, q)) = n + 1
  BY <1>2, <1>5, <1>7, FS_AddElement DEF n
<1>9. ChildrenIn(E, q) = {Append(q, i) : i \in 1..(n + 1)}
  <2>1. 1..(n + 1) = 1..n \cup {n + 1}
    BY <1>2
  <2> QED
    BY <1>3, <1>5, <1>6, <2>1
<1> HIDE DEF E
<1>10. Dense(E)
  <2> SUFFICES ASSUME NEW p \in Seq(Nat)
               PROVE  ChildrenIn(E, p) = {Append(p, i) : i \in 1..Cardinality(ChildrenIn(E, p))}
    BY DEF Dense
  <2>1. CASE p = q
    BY <1>8, <1>9, <2>1
  <2>2. CASE p # q
    BY <1>4, <2>2 DEF Dense
  <2> QED
    BY <2>1, <2>2
<1>11. Latest(E, q)
  <2> SUFFICES ASSUME NEW k \in 1..Len(q)
               PROVE  q[k] = Cardinality(ChildrenIn(E, SubSeq(q, 1, k - 1))) + 1
    BY DEF Latest
  <2>1. k \in 1..Len(a) /\ k - 1 \in 0..(Len(a) - 1) /\ k - 1 \in 0..Len(q)
    BY <1>1
  <2>2. q[k] = a[k]
    BY <1>1, <1>2, <1>3
  <2>3. SubSeq(q, 1, k - 1) = SubSeq(a, 1, k - 1)
    BY <1>1, <2>1
  <2>4. SubSeq(q, 1, k - 1) # q
    <3>1. \A m \in 0..Len(q) : Len(SubSeq(q, 1, m)) = m
      BY <1>1
    <3>2. Len(SubSeq(q, 1, k - 1)) = k - 1
      BY <2>1, <3>1
    <3>3. k - 1 # Len(q)
      BY <1>1, <2>1
    <3> QED
      BY <3>2, <3>3
  <2>5. a[k] = Cardinality(ChildrenIn(D, SubSeq(a, 1, k - 1))) + 1
    BY <2>1 DEF Latest
  <2> QED
    BY <1>4, <2>2, <2>3, <2>4, <2>5
<1> QED
  BY <1>10, <1>11 DEF E, q

LEMMA LatestRoot == \A D : Latest(D, <<>>)
<1>1. Len(<<>>) = 0 /\ 1..0 = {}
  OBVIOUS
<1> QED
  BY <1>1 DEF Latest

\* The frame of the next child.
LEMMA LatestChild ==
  ASSUME NEW D, IsFiniteSet(D), NEW a \in Seq(Nat), Latest(D, a)
  PROVE  Latest(D, Append(a, Cardinality(ChildrenIn(D, a)) + 1))
<1> DEFINE i == Cardinality(ChildrenIn(D, a)) + 1
           b == Append(a, i)
<1>1. i \in Nat
  BY ChildrenCount
<1>2. i = Cardinality(ChildrenIn(D, a)) + 1
  OBVIOUS
<1> HIDE DEF i
<1>3. /\ b \in Seq(Nat) /\ Len(b) = Len(a) + 1 /\ Len(a) \in Nat
      /\ \A k \in 1..Len(a) : b[k] = a[k]
      /\ b[Len(a) + 1] = i
  BY <1>1, AppendProperties
<1> HIDE DEF b
<1>4. \A k \in 0..Len(a) : SubSeq(b, 1, k) = SubSeq(a, 1, k)
  <2> SUFFICES ASSUME NEW k \in 0..Len(a) PROVE SubSeq(b, 1, k) = SubSeq(a, 1, k)
    OBVIOUS
  <2>1. k \in Nat /\ k <= Len(a) /\ k <= Len(b) /\ \A j \in 1..k : j \in 1..Len(a)
    BY <1>3
  <2> QED
    BY <1>3, <2>1, SamePrefix
<1>5. SubSeq(a, 1, Len(a)) = a
  BY <1>3
<1>6. ASSUME NEW k \in 1..Len(b)
      PROVE  b[k] = Cardinality(ChildrenIn(D, SubSeq(b, 1, k - 1))) + 1
  <2>1. k - 1 \in 0..Len(a) /\ SubSeq(b, 1, k - 1) = SubSeq(a, 1, k - 1)
    BY <1>3, <1>4
  <2>2. CASE k = Len(a) + 1
    <3>1. k - 1 = Len(a)
      BY <1>3, <2>2
    <3>2. SubSeq(b, 1, k - 1) = a
      BY <1>5, <2>1, <3>1
    <3> QED
      BY <1>2, <1>3, <2>2, <3>2
  <2>3. CASE k # Len(a) + 1
    <3>1. k \in 1..Len(a) /\ b[k] = a[k]
      BY <1>3, <2>3
    <3> QED
      BY <2>1, <3>1 DEF Latest
  <2> QED
    BY <2>2, <2>3
<1> QED
  BY <1>6 DEF Latest, b, i

LEMMA InitNumbered == XmlInit => Numbered
<1>1. DOMAIN Empty = {}
  BY DEF Empty
<1> QED
  BY <1>1, DenseEmpty DEF XmlInit, Numbered

LEMMA MakeNumbered ==
  ASSUME IInv, Numbered, parser \in {"open", "close"}, NEW name, Make(name)
  PROVE  Numbered'
<1>1. at \in Seq(Nat) /\ DOMAIN nodes \in SUBSET Seq(Nat) /\ IsFiniteSet(DOMAIN nodes)
  BY DEF IInv, XmlTypeOK
<1>2. DOMAIN nodes' = DOMAIN nodes \cup {at}
  BY DEF Make, With
<1>3. Dense(DOMAIN nodes) /\ Latest(DOMAIN nodes, at)
  BY DEF Numbered
<1>4. CASE at = <<>> /\ parser' = "done"
  <2>1. Dense(DOMAIN nodes')
    BY <1>2, <1>3, <1>4, DenseRoot
  <2> QED
    BY <1>4, <2>1 DEF Numbered
<1>5. CASE at # <<>> /\ at' = Parent(at)
  <2>1. Dense(DOMAIN nodes') /\ Latest(DOMAIN nodes', at')
    BY <1>1, <1>2, <1>3, <1>5, DenseChild
  <2> QED
    BY <2>1 DEF Numbered
<1> QED
  BY <1>4, <1>5 DEF Make

LEMMA RefuseNumbered == Refuse => Numbered'
<1>1. DOMAIN Empty = {}
  BY DEF Empty
<1> QED
  BY <1>1, DenseEmpty DEF Refuse, Numbered

LEMMA ParseNumbered ==
  ASSUME IInv, Numbered, Parse
  PROVE  Numbered'
<1>1. CASE Start
  <2>1. nodes' = nodes /\ at' = <<>>
    BY <1>1 DEF Start, Enter
  <2>2. Dense(DOMAIN nodes')
    BY <2>1 DEF Numbered
  <2>3. Latest(DOMAIN nodes', at')
    BY <2>1, LatestRoot
  <2> QED
    BY <2>2, <2>3 DEF Numbered
<1>2. CASE TagOpen
  <2>1. \/ Refuse
        \/ parser = "open" /\ \E name : Make(name)
        \/ parser = "open" /\ UNCHANGED <<at, nodes>>
    BY <1>2 DEF TagOpen
  <2> QED
    BY <2>1, RefuseNumbered, MakeNumbered DEF Numbered
<1>3. CASE Content
  BY <1>3, RefuseNumbered DEF Content, Numbered
<1>4. CASE Child
  <2>1. parser = "children" /\ nodes' = nodes
    BY <1>4 DEF Child
  <2>2. CASE at' = at
    BY <2>1, <2>2 DEF Numbered
  <2>3. CASE at' = NextChild(at)
    <3>1. at \in Seq(Nat) /\ IsFiniteSet(DOMAIN nodes) /\ Latest(DOMAIN nodes, at)
      BY <2>1 DEF IInv, XmlTypeOK, Numbered
    <3>2. at' = Append(at, Cardinality(ChildrenIn(DOMAIN nodes, at)) + 1)
      BY <2>3 DEF NextChild, Children, ChildrenIn
    <3>3. Latest(DOMAIN nodes, at')
      BY <3>1, <3>2, LatestChild
    <3> QED
      BY <2>1, <3>3 DEF Numbered
  <2> QED
    BY <1>4, <2>2, <2>3 DEF Child, Enter
<1>5. CASE TagClose
  <2>1. Refuse \/ (parser = "close" /\ Make(open[at]))
    BY <1>5 DEF TagClose
  <2> QED
    BY <2>1, RefuseNumbered, MakeNumbered
<1> QED
  BY <1>1, <1>2, <1>3, <1>4, <1>5 DEF Parse

LEMMA CallNumbered ==
  ASSUME Numbered, NEW t, Call(t)
  PROVE  Numbered'
BY DEF Call, Numbered

LEMMA FreeNumbered == Free => Numbered'
<1>1. DOMAIN Empty = {}
  BY DEF Empty
<1> QED
  BY <1>1, DenseEmpty DEF Free, Numbered

LEMMA NextNumbered ==
  ASSUME IInv, Numbered, [XmlNext]_xmlVars
  PROVE  Numbered'
<1>1. CASE UNCHANGED xmlVars
  BY <1>1 DEF xmlVars, Numbered
<1>2. ASSUME NEW t \in Texts, Call(t) PROVE Numbered'
  BY <1>2, CallNumbered
<1>3. CASE Parse
  BY <1>3, ParseNumbered
<1>4. CASE Free
  BY <1>4, FreeNumbered
<1> QED
  BY <1>1, <1>2, <1>3, <1>4 DEF XmlNext

\* Whatever the text: xml_node_child() finds a node for every number below what
\* xml_node_children() counts, in every tree and at every time.
THEOREM ChildrenAreNumbered ==
  ASSUME Texts \subseteq Seq(STRING)
  PROVE  XmlSpec => []Numbered
BY InitIInv, NextIInv, InitNumbered, NextNumbered, PTL DEF XmlSpec
-----------------------------------------------------------------------------
(***************************************************************************)
(* The text and its tree                                                   *)
(***************************************************************************)

\* Where peek finds no whitespace it looks at the cursor itself.
LEMMA MarkHere ==
  ASSUME TextOK, NEW p \in 0..Length, CharAt(p) \notin Space
  PROVE  Mark(p) = p
<1>1. Length \in Nat /\ Mark(p) \in p..Length
  BY MarkBounds DEF Length
<1>2. \A r \in p..(Mark(p) - 1) : CharAt(r) \in Space
  BY MarkBounds
<1>3. Mark(p) # p => p \in p..(Mark(p) - 1)
  BY <1>1
<1> QED
  BY <1>2, <1>3

\* A tag stands where the cursor is after xml_skip_whitespace().
LEMMA SkipFinds ==
  ASSUME TextOK, NEW p \in 0..Length, Peek(SkipWhitespace(p)) = "<"
  PROVE  /\ SkipWhitespace(p) = Mark(p) /\ CharAt(Mark(p)) = "<"
         /\ Mark(p) \in p..(Length - 1)
         /\ Mark(Mark(p)) = Mark(p)
<1>1. Length \in Nat /\ Mark(p) \in p..Length /\ CharAt(Mark(p)) \notin Space
  BY MarkBounds DEF Length
<1>2. Mark(Mark(p)) = Mark(p)
  <2>1. Mark(p) \in 0..Length
    BY <1>1
  <2> QED
    BY <1>1, <2>1, MarkHere
<1>3. CASE p < Length /\ Mark(p) = Length
  <2>1. SkipWhitespace(p) = Length - 1 /\ Length - 1 \in 0..Length
        /\ Length - 1 \in p..(Mark(p) - 1)
    BY <1>1, <1>3 DEF SkipWhitespace
  <2>2. CharAt(Length - 1) \in Space
    BY <2>1, MarkBounds
  <2>3. Mark(Length - 1) \in (Length - 1)..Length /\ CharAt(Mark(Length - 1)) \notin Space
    BY <2>1, MarkBounds
  <2>4. Mark(Length - 1) = Length
    <3>1. Mark(Length - 1) # Length - 1
      BY <2>2, <2>3
    <3> QED
      BY <1>1, <2>3, <3>1
  <2>5. CharAt(Length) = "NUL"
    BY <1>1 DEF CharAt, Terminator
  <2> QED
    BY <2>1, <2>4, <2>5 DEF Peek
<1>4. CASE ~(p < Length /\ Mark(p) = Length)
  <2>1. SkipWhitespace(p) = Mark(p)
    BY <1>4 DEF SkipWhitespace
  <2>2. CharAt(Mark(p)) = "<"
    BY <1>2, <2>1 DEF Peek
  <2>3. Mark(p) # Length
    BY <1>1, <2>2 DEF CharAt, Terminator
  <2> QED
    BY <1>1, <1>2, <2>1, <2>2, <2>3
<1> QED
  BY <1>3, <1>4

LEMMA NameStart ==
  ASSUME NEW q \in Nat
  PROVE  NameOf(TagSpan(q)).start = q
<1> DEFINE tag == TagSpan(q)
<1>1. tag.start = q /\ tag = [start |-> q, length |-> Stop(q, ">") - q]
  BY DEF TagSpan
<1> HIDE DEF tag
<1>2. \A n : [tag EXCEPT !.length = n].start = q
  BY <1>1
<1>3. NameOf(tag) = tag \/ \E n : NameOf(tag) = [tag EXCEPT !.length = n]
  BY DEF NameOf
<1> QED
  BY <1>1, <1>2, <1>3 DEF tag

\* A tag is read where it stands, not where the cursor was put back to.
LEMMA TagFound ==
  ASSUME TextOK, Length # 0, NEW p \in 0..Length, CharAt(p) = "<",
         HasTagEnd(Consume(p, 1))
  PROVE  /\ Consume(p, 1) = p + 1
         /\ TagAt(p, NameOf(TagSpan(p + 1)))
         /\ NameOf(TagSpan(p + 1)).start = p + 1
         /\ TagEnd(NameOf(TagSpan(p + 1))) = Stop(p + 1, ">")
         /\ Stop(p + 1, ">") \in 0..(Length - 1)
         /\ Peek(Stop(p + 1, ">")) = ">"
<1> DEFINE q == Consume(p, 1)
<1>1. Length \in Nat \ {0} /\ p < Length
  BY DEF Length, CharAt, Terminator
<1>2. q \in 0..(Length - 1)
  BY <1>1, ConsumeBounds
<1>3. Stop(q, ">") \in q..(Length - 1) /\ Peek(Stop(q, ">")) = ">"
  BY <1>1, <1>2, TagBounds
<1>4. q = p + 1
  <2> SUFFICES ASSUME q # p + 1 PROVE FALSE
    OBVIOUS
  <2>1. p = Length - 1 /\ q = p
    BY <1>1 DEF Consume
  <2>2. Stop(q, ">") = p
    BY <1>1, <1>3, <2>1
  <2>3. Mark(p) = p
    BY MarkHere DEF Space
  <2> QED
    BY <1>3, <2>2, <2>3 DEF Peek
<1> HIDE DEF q
<1>5. NameOf(TagSpan(p + 1)).start = p + 1
  BY <1>1, NameStart
<1> QED
  BY <1>1, <1>2, <1>3, <1>4, <1>5 DEF TagAt, TagEnd, q

LEMMA CloseFound ==
  ASSUME TextOK, Length # 0, NEW p \in 0..Length, CharAt(p) = "<", PeekNext(p) = "/",
         HasTagEnd(Consume(p, 2)), NEW n, SameName(n, TagSpan(Consume(p, 2)))
  PROVE  /\ Consume(p, 2) = p + 2
         /\ ClosedAt(p, n, Stop(p + 2, ">"))
         /\ Stop(p + 2, ">") \in 0..(Length - 1)
         /\ Peek(Stop(p + 2, ">")) = ">"
<1> DEFINE q == Consume(p, 2)
<1>1. Length \in Nat \ {0} /\ p < Length
  BY DEF Length, CharAt, Terminator
<1>2. q \in 0..(Length - 1)
  BY <1>1, ConsumeBounds
<1>3. Stop(q, ">") \in q..(Length - 1) /\ Peek(Stop(q, ">")) = ">"
  BY <1>1, <1>2, TagBounds
<1>4. Mark(p) = p
  BY MarkHere DEF Space
<1>5. Peek(p + 1) = "/"
  BY <1>1, <1>4 DEF PeekNext
<1>6. q = p + 2
  <2> SUFFICES ASSUME q # p + 2 PROVE FALSE
    OBVIOUS
  <2>1. q = Length - 1 /\ Stop(q, ">") = Length - 1 /\ p + 1 \in 0..Length /\ p + 2 >= Length
    BY <1>1, <1>3 DEF Consume
  <2>2. Mark(p + 1) \in (p + 1)..(Length - 1)
    BY <1>5, <2>1, PeekBounds
  <2>3. p + 1 = Length - 1
    BY <1>1, <2>1, <2>2
  <2> QED
    BY <1>3, <1>5, <2>1, <2>3
<1> HIDE DEF q
<1> QED
  BY <1>1, <1>2, <1>3, <1>4, <1>6 DEF ClosedAt, q

Known == DOMAIN nodes \cup DOMAIN open

\* The node around p is known, and its elder brother is made, if it has one.
Attached(p) ==
  p # <<>> => /\ Parent(p) \in Known
              /\ p[Len(p)] = 1 \/ Append(Parent(p), p[Len(p)] - 1) \in DOMAIN nodes

\* A frame is open or its node is made, never both, and the frame that looks for its
\* tag is new.
Lineage ==
  /\ parser = "start" => position = 0 /\ open = Empty /\ nodes = Empty
  /\ parser \in {"open", "content", "children", "close"} =>
       /\ DOMAIN open \subseteq Prefixes(at)
       /\ DOMAIN open \cap DOMAIN nodes = {}
       /\ parser = "open" => at \notin Known
       /\ parser \in {"open", "content"} => Children(at) = {}
       /\ parser # "close" => content = NoSpan
       /\ \A p \in Known \cup {at} : Attached(p)
  /\ parser = "done" => <<>> \in DOMAIN nodes /\ \A p \in Known : Attached(p)

LEMMA AttachedStays ==
  ASSUME DOMAIN nodes \subseteq DOMAIN nodes', Known \subseteq Known',
         NEW p, Attached(p)
  PROVE  Attached(p)'
BY DEF Attached

\* The frame of the next child is new, and nothing is below it.
LEMMA NextIsNew ==
  ASSUME IInv, Owned, Numbered, Lineage, parser = "children"
  PROVE  /\ NextChild(at) \in Seq(Nat) /\ Parent(NextChild(at)) = at
         /\ NextChild(at)[Len(NextChild(at))] = Cardinality(Children(at)) + 1
         /\ NextChild(at) \notin DOMAIN nodes
         /\ NextChild(at) \notin Prefixes(at)
         /\ Prefixes(at) \subseteq Prefixes(NextChild(at))
         /\ Children(NextChild(at)) = {}
         /\ Cardinality(Children(at)) = 0
              \/ Append(at, Cardinality(Children(at))) \in Children(at)
         /\ (Cardinality(Children(at)) = 0) <=> (Children(at) = {})
<1> DEFINE k == Cardinality(Children(at))
           b == NextChild(at)
<1>1. at \in Seq(Nat) /\ DOMAIN nodes \subseteq Seq(Nat) /\ IsFiniteSet(DOMAIN nodes)
  BY DEF IInv, XmlTypeOK
<1>2. Children(at) = ChildrenIn(DOMAIN nodes, at)
  BY DEF Children, ChildrenIn
<1>3. k \in Nat /\ IsFiniteSet(Children(at))
  BY <1>1, <1>2, ChildrenCount
<1>4. Children(at) = {Append(at, i) : i \in 1..k}
  BY <1>1, <1>2 DEF Numbered, Dense
<1>5. b = Append(at, k + 1)
  BY DEF NextChild
<1>6. (k = 0) <=> (Children(at) = {})
  BY <1>3, FS_EmptySet
<1>7. k = 0 \/ Append(at, k) \in Children(at)
  <2>1. k # 0 => k \in 1..k
    BY <1>3
  <2> QED
    BY <1>4, <2>1
<1> HIDE DEF k, b
<1>8. /\ b \in Seq(Nat) /\ Len(b) = Len(at) + 1 /\ Len(at) \in Nat
      /\ \A j \in 1..Len(at) : b[j] = at[j]
      /\ b[Len(at) + 1] = k + 1
  BY <1>1, <1>3, <1>5, AppendProperties
<1>9. Prefixes(at) \subseteq Prefixes(b)
  BY <1>1, <1>3, <1>5, FramesEntered
<1>10. b # <<>> /\ Parent(b) = at
  <2>1. b # <<>> /\ Parent(b) \in Seq(Nat) /\ Len(Parent(b)) = Len(at)
    BY <1>8, ParentType
  <2>2. SubSeq(b, 1, Len(at)) = SubSeq(at, 1, Len(at))
    <3>1. Len(at) <= Len(at) /\ Len(at) <= Len(b)
      BY <1>8
    <3> QED
      BY <1>1, <1>8, <3>1, SamePrefix
  <2>3. SubSeq(at, 1, Len(at)) = at /\ Len(b) - 1 = Len(at)
    BY <1>1, <1>8
  <2> QED
    BY <2>1, <2>2, <2>3 DEF Parent
<1>11. b \notin DOMAIN nodes
  <2> SUFFICES ASSUME b \in DOMAIN nodes PROVE FALSE
    OBVIOUS
  <2>1. b \in Children(at)
    BY <1>10 DEF Children
  <2>2. PICK i \in 1..k : b = Append(at, i)
    BY <1>4, <2>1
  <2>3. i \in Nat /\ i # k + 1 /\ k + 1 \in Nat
    BY <1>3
  <2> QED
    BY <1>1, <1>5, <2>2, <2>3, AppendInjective
<1>12. b \notin Prefixes(at)
  <2> SUFFICES ASSUME NEW n \in 0..Len(at), b = SubSeq(at, 1, n) PROVE FALSE
    BY DEF Prefixes
  <2>1. Len(SubSeq(at, 1, n)) = n
    BY <1>1
  <2> QED
    BY <1>8, <2>1
<1>13. Children(b) = {}
  <2> SUFFICES ASSUME NEW q \in DOMAIN nodes, q # <<>>, Parent(q) = b PROVE FALSE
    BY DEF Children
  <2>1. q \in Seq(Nat) /\ Len(q) \in Nat \ {0}
    BY <1>1, ParentType
  <2>2. Len(q) - 1 \in 0..Len(q)
    BY <2>1
  <2>3. b \in Prefixes(q)
    BY <2>2 DEF Prefixes, Parent
  <2>4. b \in DOMAIN nodes \cup Prefixes(at)
    BY <2>3 DEF Owned
  <2> QED
    BY <1>11, <1>12, <2>4
<1>14. b[Len(b)] = k + 1
  BY <1>8
<1> QED
  BY <1>6, <1>7, <1>8, <1>9, <1>10, <1>11, <1>12, <1>13, <1>14 DEF k, b

LEMMA RefuseLineage == Refuse => Lineage'
BY DEF Refuse, Lineage

LEMMA MakeLineage ==
  ASSUME IInv, Lineage, parser \in {"open", "close"}, NEW name, Make(name)
  PROVE  Lineage'
<1>1. at \in Seq(Nat)
  BY DEF IInv, XmlTypeOK
<1>2. DOMAIN nodes' = DOMAIN nodes \cup {at}
  BY DEF Make, With
<1>3. DOMAIN open' = DOMAIN open \ {at}
  BY DEF Make, Restricted
<1>4. Known' = Known \cup {at}
  BY <1>2, <1>3 DEF Known
<1>5. \A p \in Known \cup {at} : Attached(p)'
  <2>1. \A p \in Known \cup {at} : Attached(p)
    BY DEF Lineage
  <2> QED
    BY <1>2, <1>4, <2>1, AttachedStays
<1>6. CASE at = <<>> /\ parser' = "done"
  BY <1>2, <1>4, <1>5, <1>6 DEF Lineage
<1>7. CASE at # <<>> /\ parser' = "children" /\ at' = Parent(at)
  <2>1. DOMAIN open' \subseteq Prefixes(at')
    <3>1. Prefixes(at) \subseteq Prefixes(at') \cup {at}
      BY <1>1, <1>7, FramesLeft
    <3> QED
      BY <1>3, <3>1 DEF Lineage
  <2>2. at' \in Known
    BY <1>7 DEF Lineage, Attached
  <2>3. DOMAIN open' \cap DOMAIN nodes' = {}
    BY <1>2, <1>3 DEF Lineage
  <2>4. content' = NoSpan
    BY DEF Make
  <2> QED
    BY <1>4, <1>5, <1>7, <2>1, <2>2, <2>3, <2>4 DEF Lineage
<1> QED
  BY <1>6, <1>7 DEF Make

LEMMA ParseLineage ==
  ASSUME IInv, Owned, Numbered, Lineage, Parse
  PROVE  Lineage'
<1>1. at \in Seq(Nat) /\ at \in Prefixes(at)
  BY FramesOpen DEF IInv, XmlTypeOK
<1>2. CASE Start
  <2>1. /\ parser' = "open" /\ at' = <<>> /\ content' = NoSpan
        /\ open' = Empty /\ nodes' = Empty
    BY <1>2 DEF Start, Enter, Lineage
  <2>2. Known' = {} /\ DOMAIN nodes' = {} /\ DOMAIN open' = {} /\ Children(at)' = {}
    BY <2>1 DEF Known, Empty, Children
  <2>3. Attached(at)'
    BY <2>1 DEF Attached
  <2> QED
    BY <2>1, <2>2, <2>3 DEF Lineage
<1>3. CASE TagOpen
  <2>1. parser = "open"
    BY <1>3 DEF TagOpen
  <2>2. PICK name :
          \/ Refuse
          \/ Make(name)
          \/ /\ open' = With(open, at, name) /\ parser' \in {"children", "content"}
             /\ UNCHANGED <<at, content, nodes>>
    BY <1>3 DEF TagOpen
  <2>3. CASE Refuse
    BY <2>3, RefuseLineage
  <2>4. CASE Make(name)
    BY <2>1, <2>4, MakeLineage
  <2>5. CASE /\ open' = With(open, at, name) /\ parser' \in {"children", "content"}
             /\ UNCHANGED <<at, content, nodes>>
    <3>1. DOMAIN open' = DOMAIN open \cup {at}
      BY <2>5 DEF With
    <3>2. Known' = Known \cup {at}
      BY <2>5, <3>1 DEF Known
    <3>3. \A p \in Known \cup {at} : Attached(p)'
      <4>1. \A p \in Known \cup {at} : Attached(p)
        BY <2>1 DEF Lineage
      <4> QED
        BY <2>5, <3>2, <4>1, AttachedStays
    <3>4. Children(at)' = Children(at)
      BY <2>5 DEF Children
    <3>5. DOMAIN open' \cap DOMAIN nodes' = {} /\ DOMAIN open' \subseteq Prefixes(at)
      BY <1>1, <2>1, <2>5, <3>1 DEF Lineage, Known
    <3> QED
      BY <2>1, <2>5, <3>2, <3>3, <3>4, <3>5 DEF Lineage
  <2> QED
    BY <2>2, <2>3, <2>4, <2>5
<1>4. CASE Content
  <2>1. CASE Refuse
    BY <2>1, RefuseLineage
  <2>2. CASE /\ parser = "content" /\ parser' = "close" /\ UNCHANGED <<at, open, nodes>>
    <3>1. Known' = Known /\ \A p : Attached(p)' <=> Attached(p)
      BY <2>2 DEF Known, Attached
    <3> QED
      BY <2>2, <3>1 DEF Lineage
  <2> QED
    BY <1>4, <2>1, <2>2 DEF Content
<1>5. CASE Child
  <2>1. parser = "children" /\ UNCHANGED <<open, nodes>>
    BY <1>5 DEF Child
  <2>2. Known' = Known /\ \A p : Attached(p)' <=> Attached(p)
    BY <2>1 DEF Known, Attached
  <2>3. CASE parser' = "close" /\ at' = at
    BY <2>1, <2>2, <2>3 DEF Lineage
  <2>4. CASE parser' = "open" /\ Enter(NextChild(at))
    <3>1. at' = NextChild(at) /\ content' = NoSpan
      BY <2>4 DEF Enter
    <3>2. /\ Parent(at') = at /\ at' \notin DOMAIN nodes /\ at' \notin Prefixes(at)
          /\ at' \in Seq(Nat) /\ at'[Len(at')] = Cardinality(Children(at)) + 1
          /\ Prefixes(at) \subseteq Prefixes(at')
      BY <2>1, <3>1, NextIsNew
    <3>3. Children(at)' = {}
      <4>1. Children(NextChild(at)) = {}
        BY <2>1, NextIsNew
      <4> QED
        BY <2>1, <3>1, <4>1 DEF Children
    <3>4. at \in Known
      BY <2>1 DEF IInv, Frames, Known
    <3>5. Attached(at')
      <4>1. /\ Cardinality(Children(at)) = 0
                 \/ Append(at, Cardinality(Children(at))) \in DOMAIN nodes
            /\ Cardinality(Children(at)) \in Nat
        <5>1. Children(at) = ChildrenIn(DOMAIN nodes, at) /\ IsFiniteSet(DOMAIN nodes)
          BY DEF Children, ChildrenIn, IInv, XmlTypeOK
        <5>2. Cardinality(Children(at)) \in Nat
          BY <5>1, ChildrenCount
        <5> QED
          BY <2>1, <5>2, NextIsNew DEF Children
      <4> QED
        BY <3>2, <3>4, <4>1 DEF Attached
    <3>6. \A p \in Known' \cup {at'} : Attached(p)'
      BY <2>1, <2>2, <3>5 DEF Lineage
    <3>7. at' \notin Known' /\ DOMAIN open' \subseteq Prefixes(at')
      BY <2>1, <3>2 DEF Lineage, Known
    <3>8. DOMAIN open' \cap DOMAIN nodes' = {}
      BY <2>1 DEF Lineage
    <3> QED
      BY <2>4, <3>1, <3>3, <3>6, <3>7, <3>8 DEF Lineage
  <2> QED
    BY <1>5, <2>3, <2>4 DEF Child
<1>6. CASE TagClose
  <2>1. Refuse \/ (parser = "close" /\ Make(open[at]))
    BY <1>6 DEF TagClose
  <2> QED
    BY <2>1, RefuseLineage, MakeLineage
<1> QED
  BY <1>2, <1>3, <1>4, <1>5, <1>6 DEF Parse

LEMMA CallLineage ==
  ASSUME IInv, NEW t, Call(t)
  PROVE  Lineage'
BY DEF Call, IInv, Lineage

LEMMA NextLineage ==
  ASSUME IInv, Owned, Numbered, Lineage, [XmlNext]_xmlVars
  PROVE  Lineage'
<1>1. CASE UNCHANGED xmlVars
  BY <1>1 DEF xmlVars, Lineage, Known, Attached, Children
<1>2. ASSUME NEW t \in Texts, Call(t) PROVE Lineage'
  BY <1>2, CallLineage
<1>3. CASE Parse
  BY <1>3, ParseLineage
<1>4. CASE Free
  BY <1>4 DEF Free, Lineage
<1> QED
  BY <1>1, <1>2, <1>3, <1>4 DEF XmlNext

\* The tag of a node that is made, or of a frame that is open.
NameAt(p) == IF p \in DOMAIN nodes THEN nodes[p].name ELSE open[p]

\* Where the tag of the node or frame at p stands, if the nodes end at e.
Place(e, p) == Mark(Begins(e, p, NameAt(Parent(p))))

\* The cursor is at g, or on the last character if g is behind it.
Stands(g) == position = IF g < Length THEN g ELSE Length - 1

\* Where the cursor is, if the nodes end at e.
Cursor(e) ==
  /\ parser = "open" =>
       IF at = <<>> THEN position = AfterMeta(0)
       ELSE Stands(Begins(e, at, NameAt(Parent(at)))) /\ PeekNext(position) # "/"
  /\ parser = "content" => Peek(position) # "<"
  /\ parser \in {"content", "children"} \/ (parser = "close" /\ content = NoSpan) =>
       Stands(Behind(Children(at), e, at, NameAt(at)))
  /\ parser = "close" /\ content # NoSpan =>
       /\ Children(at) = {} /\ content.length > 0
       /\ content.start = Mark(TagEnd(NameAt(at)) + 1)
       /\ \A g \in content.start..(content.start + content.length - 1) : Peek(g) # "<"
       /\ position = content.start + content.length

\* The text up to the cursor is the one the nodes and the frames describe, and the
\* nodes end at e.
Placed(e) ==
  /\ e \in [DOMAIN nodes -> Nat]
  /\ \A p \in DOMAIN nodes : e[p] < Length /\ Peek(e[p]) = ">" /\ IsElement(Children(p), e, p, nodes[p])
  /\ \A p \in Known : /\ TagAt(Place(e, p), NameAt(p))
                      /\ p # <<>> => PeekNext(Place(e, p)) # "/"
  /\ \A p \in DOMAIN open : ~SelfClosing(TagSpan(open[p].start))
  /\ Cursor(e)

\* What the text says does not change while it is parsed.
LEMMA SameReading ==
  ASSUME text' = text
  PROVE  /\ Length' = Length /\ AfterMeta(0)' = AfterMeta(0)
         /\ \A g : Mark(g)' = Mark(g) /\ Peek(g)' = Peek(g) /\ PeekNext(g)' = PeekNext(g)
         /\ \A g : SelfClosing(TagSpan(g))' <=> SelfClosing(TagSpan(g))
         /\ \A n : TagEnd(n)' = TagEnd(n)
         /\ \A g, n : TagAt(g, n)' <=> TagAt(g, n)
         /\ \A g, n, x : ClosedAt(g, n, x)' <=> ClosedAt(g, n, x)
<1>1. Length' = Length
  BY DEF Length
<1>2. \A g : CharAt(g)' = CharAt(g)
  BY DEF CharAt, Length
<1>3. \A g : Mark(g)' = Mark(g)
  BY DEF Mark, CharAt, Length
<1>4. \A g : Peek(g)' = Peek(g)
  BY DEF Peek, Mark, CharAt, Length
<1>5. \A g : PeekNext(g)' = PeekNext(g)
  BY DEF PeekNext, Peek, Mark, CharAt, Length
<1>6. \A g, c : Stop(g, c)' = Stop(g, c)
  BY DEF Stop, Peek, Mark, CharAt, Length
<1>7. \A g : TagSpan(g)' = TagSpan(g)
  BY <1>6 DEF TagSpan
<1>8. \A s : NameOf(s)' = NameOf(s)
  BY DEF NameOf, Span
<1>9. \A g : SelfClosing(TagSpan(g))' <=> SelfClosing(TagSpan(g))
  BY <1>2, <1>7, <1>8 DEF SelfClosing
<1>10. \A n : TagEnd(n)' = TagEnd(n)
  BY <1>6 DEF TagEnd
<1>11. \A g, n : TagAt(g, n)' <=> TagAt(g, n)
  BY <1>1, <1>2, <1>7, <1>8, <1>10 DEF TagAt
<1>12. \A m, n : SameName(m, n)' <=> SameName(m, n)
  BY DEF SameName, Span
<1>13. \A g, n, x : ClosedAt(g, n, x)' <=> ClosedAt(g, n, x)
  BY <1>1, <1>2, <1>5, <1>6, <1>7, <1>12 DEF ClosedAt
<1>14. AfterMeta(0)' = AfterMeta(0)
  BY DEF AfterMeta, HasMeta, MetaEnd, MetaEnds, Peek, PeekNext, Mark, CharAt, Length
<1> QED
  BY <1>1, <1>3, <1>4, <1>5, <1>9, <1>10, <1>11, <1>13, <1>14

\* A step that leaves the tags and the ends alone leaves the places alone.
LEMMA PlaceStays ==
  ASSUME text' = text, NEW e, NEW f, NEW p, Attached(p),
         DOMAIN nodes \subseteq DOMAIN nodes',
         \A q \in DOMAIN nodes : f[q] = e[q],
         \A q \in Known : NameAt(q)' = NameAt(q)
  PROVE  Begins(f, p, NameAt(Parent(p)))' = Begins(e, p, NameAt(Parent(p)))
<1>1. CASE p = <<>>
  BY <1>1, SameReading DEF Begins
<1>2. CASE p # <<>>
  <2>1. NameAt(Parent(p))' = NameAt(Parent(p))
    BY <1>2 DEF Attached
  <2>2. TagEnd(NameAt(Parent(p)))' = TagEnd(NameAt(Parent(p)))
    BY <2>1, SameReading
  <2>3. p[Len(p)] # 1 => f[Append(Parent(p), p[Len(p)] - 1)] = e[Append(Parent(p), p[Len(p)] - 1)]
    BY <1>2 DEF Attached
  <2> QED
    BY <1>2, <2>2, <2>3 DEF Begins
<1> QED
  BY <1>1, <1>2

LEMMA ElementStays ==
  ASSUME text' = text, NEW e, NEW f, NEW p, NEW d, Children(p)' = Children(p),
         f[p] = e[p],
         Children(p) # {} => LET q == Append(p, Cardinality(Children(p))) IN f[q] = e[q],
         IsElement(Children(p), e, p, d)
  PROVE  IsElement(Children(p), f, p, d)'
<1>1. Behind(Children(p), f, p, d.name)' = Behind(Children(p), e, p, d.name)
  BY SameReading DEF Behind
<1> QED
  BY <1>1, SameReading DEF IsElement

LEMMA LastChild ==
  ASSUME IInv, Numbered, NEW p \in Seq(Nat)
  PROVE  /\ Cardinality(Children(p)) \in Nat
         /\ Children(p) = {Append(p, i) : i \in 1..Cardinality(Children(p))}
         /\ Children(p) # {} => Append(p, Cardinality(Children(p))) \in Children(p)
<1>1. Children(p) = ChildrenIn(DOMAIN nodes, p)
  BY DEF Children, ChildrenIn
<1>2. IsFiniteSet(DOMAIN nodes)
  BY DEF IInv, XmlTypeOK
<1>3. Cardinality(Children(p)) \in Nat
  BY <1>1, <1>2, ChildrenCount
<1>4. Children(p) = {Append(p, i) : i \in 1..Cardinality(Children(p))}
  BY <1>1 DEF Numbered, Dense
<1>5. Children(p) # {} => Append(p, Cardinality(Children(p))) \in Children(p)
  <2> DEFINE k == Cardinality(Children(p))
  <2>1. k \in Nat /\ Children(p) = {Append(p, i) : i \in 1..k}
    BY <1>3, <1>4
  <2> HIDE DEF k
  <2>2. Children(p) # {} => k \in 1..k
    BY <2>1
  <2> QED
    BY <2>1, <2>2 DEF k
<1> QED
  BY <1>3, <1>4, <1>5

LEMMA KnownType ==
  ASSUME IInv
  PROVE  /\ \A p \in Known : NameAt(p) \in Spans /\ p \in Seq(Nat)
         /\ TextOK /\ Length \in Nat
<1>1. /\ open \in [DOMAIN open -> Spans]
      /\ nodes \in [DOMAIN nodes -> [name : Spans, content : Spans]]
      /\ DOMAIN open \subseteq Seq(Nat) /\ DOMAIN nodes \subseteq Seq(Nat)
  BY DEF IInv, XmlTypeOK
<1>2. \A p \in Known : NameAt(p) \in Spans
  BY <1>1 DEF Known, NameAt
<1>3. TextOK
  BY DEF IInv, XmlTypeOK
<1>4. Length \in Nat
  BY <1>3 DEF Length
<1>5. \A p \in Known : p \in Seq(Nat)
  BY <1>1 DEF Known
<1> QED
  BY <1>2, <1>3, <1>4, <1>5

\* A tag that was read ends before the text does.
LEMMA TagEnds ==
  ASSUME TextOK, NEW g, NEW n \in Spans, TagAt(g, n)
  PROVE  /\ TagEnd(n) \in 0..(Length - 1) /\ Peek(TagEnd(n)) = ">"
         /\ TagEnd(n) + 1 \in 1..Length /\ (TagEnd(n) + 1) - 1 = TagEnd(n)
<1>1. Length \in Nat /\ n.start \in 0..Length /\ TagEnd(n) < Length
  BY DEF Length, Spans, TagAt
<1>2. TagEnd(n) \in n.start..Length /\ (TagEnd(n) # Length => Peek(TagEnd(n)) = ">")
  BY <1>1, StopBounds DEF TagEnd
<1> QED
  BY <1>1, <1>2

LEMMA EndBounds ==
  ASSUME TextOK, NEW e, Placed(e), NEW p \in DOMAIN nodes
  PROVE  /\ e[p] + 1 \in 1..Length /\ Peek((e[p] + 1) - 1) = ">"
<1>1. Length \in Nat /\ e[p] \in Nat /\ e[p] < Length /\ Peek(e[p]) = ">"
  BY DEF Length, Placed
<1>2. e[p] + 1 \in 1..Length /\ (e[p] + 1) - 1 = e[p]
  BY <1>1
<1> QED
  BY <1>1, <1>2

\* What the next tag is looked for behind: some `>'.
LEMMA BehindBounds ==
  ASSUME IInv, Numbered, NEW e, Placed(e), NEW p \in Known
  PROVE  /\ Behind(Children(p), e, p, NameAt(p)) \in 1..Length
         /\ Peek(Behind(Children(p), e, p, NameAt(p)) - 1) = ">"
<1>1. NameAt(p) \in Spans /\ TextOK /\ p \in Seq(Nat)
  BY KnownType
<1>2. CASE Children(p) = {}
  <2>1. TagAt(Place(e, p), NameAt(p))
    BY DEF Placed
  <2> QED
    BY <1>1, <1>2, <2>1, TagEnds DEF Behind
<1>3. CASE Children(p) # {}
  <2>1. Append(p, Cardinality(Children(p))) \in DOMAIN nodes
    BY <1>1, <1>3, LastChild DEF Children
  <2> QED
    BY <1>1, <1>3, <2>1, EndBounds DEF Behind
<1> QED
  BY <1>2, <1>3

LEMMA BeginsBounds ==
  ASSUME IInv, NEW e, Placed(e), NEW p, p # <<>>, Attached(p)
  PROVE  /\ Begins(e, p, NameAt(Parent(p))) \in 1..Length
         /\ Peek(Begins(e, p, NameAt(Parent(p))) - 1) = ">"
<1>1. Parent(p) \in Known /\ TextOK /\ NameAt(Parent(p)) \in Spans
  BY KnownType DEF Attached
<1>2. CASE p[Len(p)] = 1
  <2>1. TagAt(Place(e, Parent(p)), NameAt(Parent(p)))
    BY <1>1 DEF Placed
  <2> QED
    BY <1>1, <1>2, <2>1, TagEnds DEF Begins
<1>3. CASE p[Len(p)] # 1
  <2>1. Append(Parent(p), p[Len(p)] - 1) \in DOMAIN nodes
    BY <1>3 DEF Attached
  <2> QED
    BY <1>1, <1>3, <2>1, EndBounds DEF Begins
<1> QED
  BY <1>2, <1>3

\* Where something is found, the cursor was not put back.
LEMMA Reached ==
  ASSUME TextOK, NEW g \in 1..Length, Peek(g - 1) = ">", Stands(g),
         Peek(position) # ">"
  PROVE  position = g /\ g < Length
<1>1. Length \in Nat
  BY DEF Length
<1>2. g = Length => position = g - 1
  BY <1>1 DEF Stands
<1> QED
  BY <1>1, <1>2 DEF Stands

\* The cursor that stands behind a tag.
LEMMA StandsBehind ==
  ASSUME TextOK, NEW g \in 0..(Length - 1), position' = Consume(g, 1), text' = text
  PROVE  Stands(g + 1)'
<1>1. Length \in Nat /\ Length' = Length
  BY DEF Length
<1> QED
  BY <1>1 DEF Stands, Consume

\* The node that is made is the latest child of the one around it.
LEMMA MadeIsLatest ==
  ASSUME IInv, Numbered, parser \in {"open", "close"}, at # <<>>, at \notin DOMAIN nodes,
         DOMAIN nodes' = DOMAIN nodes \cup {at}, at' = Parent(at)
  PROVE  /\ Children(at)' # {}
         /\ Append(at', Cardinality(Children(at)')) = at
<1> DEFINE q == Parent(at)
           n == Cardinality(ChildrenIn(DOMAIN nodes, q))
<1>1. at \in Seq(Nat) /\ IsFiniteSet(DOMAIN nodes) /\ Latest(DOMAIN nodes, at)
  BY DEF IInv, XmlTypeOK, Numbered
<1>2. n \in Nat /\ IsFiniteSet(ChildrenIn(DOMAIN nodes, q))
  BY <1>1, ChildrenCount
<1>3. at = Append(q, at[Len(at)]) /\ Len(at) \in Nat \ {0}
  BY <1>1, LastOfPath, ParentType
<1>4. at[Len(at)] = n + 1
  <2>1. Len(at) \in 1..Len(at) /\ SubSeq(at, 1, Len(at) - 1) = q
    BY <1>3 DEF Parent
  <2> QED
    BY <1>1, <2>1 DEF Latest
<1>5. Children(at)' = ChildrenIn(DOMAIN nodes, q) \cup {at}
  BY DEF Children, ChildrenIn
<1>6. at \notin ChildrenIn(DOMAIN nodes, q)
  BY DEF ChildrenIn
<1> HIDE DEF n
<1>7. Cardinality(ChildrenIn(DOMAIN nodes, q) \cup {at}) = n + 1
  BY <1>2, <1>6, FS_AddElement DEF n
<1> QED
  BY <1>3, <1>4, <1>5, <1>7

LEMMA MakePlaced ==
  ASSUME IInv, Owned, Numbered, Lineage, parser \in {"open", "close"},
         NEW name, Make(name),
         parser = "open" \/ (at \in DOMAIN open /\ name = open[at]),
         NEW e, Placed(e), NEW end \in 0..(Length - 1), NEW f, f = With(e, at, end),
         Peek(end) = ">", position' = Consume(end, 1),
         TagAt(Place(e, at), name), at # <<>> => PeekNext(Place(e, at)) # "/",
         IsElement(Children(at), f, at, [name |-> name, content |-> content])
  PROVE  Placed(f)'
<1> DEFINE node == [name |-> name, content |-> content]
<1>1. at \in Seq(Nat) /\ TextOK /\ Length \in Nat
  BY KnownType DEF IInv, XmlTypeOK
<1>2. text' = text /\ nodes' = With(nodes, at, node) /\ content' = NoSpan
      /\ open' = Restricted(open, DOMAIN open \ {at})
  BY DEF Make
<1>3. at \notin DOMAIN nodes /\ DOMAIN open \cap DOMAIN nodes = {}
  BY DEF Lineage, Known
<1>4. /\ DOMAIN nodes' = DOMAIN nodes \cup {at} /\ nodes'[at] = node
      /\ \A p \in DOMAIN nodes : nodes'[p] = nodes[p]
  BY <1>2, <1>3 DEF With
<1>5. /\ DOMAIN open' = DOMAIN open \ {at}
      /\ \A p \in DOMAIN open' : open'[p] = open[p]
  BY <1>2 DEF Restricted
<1>6. e \in [DOMAIN nodes -> Nat]
  BY DEF Placed
<1>7. /\ f \in [DOMAIN nodes' -> Nat] /\ f[at] = end
      /\ \A p \in DOMAIN nodes : f[p] = e[p]
  <2>1. end \in Nat
    OBVIOUS
  <2> QED
    BY <1>3, <1>4, <1>6, <2>1 DEF With
<1>8. Known' = Known \cup {at}
  BY <1>4, <1>5 DEF Known
<1>9. \A q \in Known : NameAt(q)' = NameAt(q)
  <2>1. ASSUME NEW q \in Known PROVE NameAt(q)' = NameAt(q)
    <3>1. CASE q = at
      <4>1. NameAt(q) = open[at] /\ name = open[at]
        BY <1>3, <2>1, <3>1 DEF NameAt, Known, Lineage
      <4>2. NameAt(q)' = node.name
        BY <1>4, <3>1 DEF NameAt
      <4> QED
        BY <4>1, <4>2
    <3>2. CASE q # at
      BY <1>3, <1>4, <1>5, <2>1, <3>2 DEF NameAt, Known
    <3> QED
      BY <3>1, <3>2
  <2> QED
    BY <2>1
<1>11. \A p \in Known \cup {at} : Attached(p)
  BY DEF Lineage
<1>12. \A p \in Known \cup {at} :
         Begins(f, p, NameAt(Parent(p)))' = Begins(e, p, NameAt(Parent(p)))
  BY <1>2, <1>4, <1>7, <1>9, <1>11, PlaceStays
<1>13. \A p \in Known \cup {at} : Place(f, p)' = Place(e, p)
  BY <1>2, <1>12, SameReading DEF Place
<1>14. \A p \in Known' : TagAt(Place(f, p), NameAt(p))'
  <2>1. ASSUME NEW p \in Known' PROVE TagAt(Place(f, p), NameAt(p))'
    <3>1. CASE p \in Known
      <4>1. TagAt(Place(e, p), NameAt(p))
        BY <3>1 DEF Placed
      <4> QED
        BY <1>2, <1>9, <1>13, <3>1, <4>1, SameReading
    <3>2. CASE p = at
      <4>1. NameAt(p)' = name
        BY <1>4, <3>2 DEF NameAt
      <4> QED
        BY <1>2, <1>13, <3>2, <4>1, SameReading
    <3> QED
      BY <1>8, <2>1, <3>1, <3>2
  <2> QED
    BY <2>1
<1>20. \A p \in Known' : p # <<>> => PeekNext(Place(f, p))' # "/"
  <2>1. \A p \in Known \cup {at} : PeekNext(Place(f, p))' = PeekNext(Place(e, p))
    BY <1>2, <1>13, SameReading
  <2> QED
    BY <1>8, <2>1 DEF Placed
<1>15. \A p \in DOMAIN nodes \cup {at} : Children(p)' = Children(p)
  <2>1. CASE at = <<>>
    BY <1>4, <2>1 DEF Children
  <2>2. CASE at # <<>>
    <3>1. Len(Parent(at)) = Len(at) - 1 /\ Len(at) \in Nat \ {0}
      BY <1>1, <2>2, ParentType
    <3>2. Parent(at) \in DOMAIN open
      <4>1. Len(at) - 1 \in 0..(Len(at) - 1)
        BY <3>1
      <4> QED
        BY <4>1 DEF IInv, Frames, Parent
    <3>3. Parent(at) \notin DOMAIN nodes /\ Parent(at) # at
      BY <1>3, <3>1, <3>2
    <3> QED
      BY <1>4, <3>3 DEF Children
  <2> QED
    BY <2>1, <2>2
<1>16. \A p \in DOMAIN nodes' : /\ f[p] < Length /\ Peek(f[p]) = ">"
                                /\ IsElement(Children(p), f, p, nodes[p])'
  <2>1. ASSUME NEW p \in DOMAIN nodes, NEW d, d = nodes[p]
        PROVE  f[p] < Length /\ Peek(f[p]) = ">" /\ IsElement(Children(p), f, p, d)'
    <3>1. e[p] < Length /\ Peek(e[p]) = ">" /\ IsElement(Children(p), e, p, d)
      BY <2>1 DEF Placed
    <3>2. Children(p) # {} => Append(p, Cardinality(Children(p))) \in DOMAIN nodes
      BY LastChild DEF Children, IInv, XmlTypeOK
    <3>3. f[p] = e[p] /\ Children(p)' = Children(p)
      BY <1>7, <1>15
    <3>4. Children(p) # {} => LET q == Append(p, Cardinality(Children(p))) IN f[q] = e[q]
      BY <1>7, <3>2
    <3> QED
      BY <1>2, <3>1, <3>3, <3>4, ElementStays
  <2>2. ASSUME NEW p, p = at, NEW d, d = node
        PROVE  f[p] < Length /\ Peek(f[p]) = ">" /\ IsElement(Children(p), f, p, d)'
    <3>1. IsElement(Children(p), f, p, d) /\ Children(p)' = Children(p)
      BY <1>15, <2>2
    <3>2. f[p] < Length /\ Peek(f[p]) = ">"
      BY <1>1, <1>7, <2>2
    <3> QED
      BY <1>2, <3>1, <3>2, ElementStays
  <2>3. /\ \A p \in DOMAIN nodes : nodes'[p] = nodes[p]
        /\ \A p : p = at => nodes'[p] = node
    BY <1>4
  <2>4. ASSUME NEW p \in DOMAIN nodes'
        PROVE  f[p] < Length /\ Peek(f[p]) = ">" /\ IsElement(Children(p), f, p, nodes[p])'
    <3>1. CASE p \in DOMAIN nodes
      BY <2>1, <2>3, <3>1
    <3>2. CASE p = at
      BY <2>2, <2>3, <3>2
    <3> QED
      BY <1>4, <2>4, <3>1, <3>2
  <2> QED
    BY <2>4
<1>17. \A p \in DOMAIN open' : ~SelfClosing(TagSpan(open[p].start))'
  <2>1. \A p \in DOMAIN open' : ~SelfClosing(TagSpan(open[p].start))
    BY <1>5 DEF Placed
  <2> QED
    BY <1>2, <1>5, <2>1, SameReading
<1>18. Cursor(f)'
  <2>1. CASE at = <<>> /\ parser' = "done"
    BY <2>1 DEF Cursor
  <2>2. CASE at # <<>> /\ parser' = "children" /\ at' = Parent(at)
    <3>1. Children(at)' # {} /\ Append(at', Cardinality(Children(at)')) = at
      BY <1>3, <1>4, <2>2, MadeIsLatest
    <3>2. Behind(Children(at), f, at, NameAt(at))' = end + 1
      BY <1>7, <3>1 DEF Behind
    <3>3. Stands(end + 1)'
      BY <1>1, <1>2, StandsBehind
    <3>4. Stands(Behind(Children(at), f, at, NameAt(at)))'
      BY <3>2, <3>3 DEF Stands
    <3> QED
      BY <1>2, <2>2, <3>4 DEF Cursor
  <2> QED
    BY <2>1, <2>2 DEF Make
<1>19. Length' = Length /\ \A g : Peek(g)' = Peek(g)
  BY <1>2, SameReading
<1> QED
  BY <1>7, <1>14, <1>16, <1>17, <1>18, <1>19, <1>20 DEF Placed

InPlace == \E e : Placed(e)

\* Without nodes and frames there is nothing to place.
LEMMA NothingPlaced ==
  ASSUME nodes' = Empty, open' = Empty, parser' \in {"idle", "refused", "start"}
  PROVE  InPlace'
<1>1. PICK e : e = [x \in {} |-> 0]
  OBVIOUS
<1>2. DOMAIN nodes' = {} /\ DOMAIN open' = {} /\ Known' = {}
  BY DEF Empty, Known
<1>3. e \in [DOMAIN nodes' -> Nat]
  BY <1>1, <1>2
<1>4. Cursor(e)'
  BY DEF Cursor
<1>5. Placed(e)'
  BY <1>2, <1>3, <1>4 DEF Placed
<1> QED
  BY <1>5 DEF InPlace

LEMMA InitPlaced == XmlInit => InPlace
<1> SUFFICES ASSUME XmlInit PROVE InPlace
  OBVIOUS
<1>1. PICK e : e = [x \in {} |-> 0]
  OBVIOUS
<1>2. DOMAIN nodes = {} /\ DOMAIN open = {} /\ Known = {}
  BY DEF XmlInit, Empty, Known
<1>3. e \in [DOMAIN nodes -> Nat]
  BY <1>1, <1>2
<1>4. Placed(e)
  BY <1>2, <1>3 DEF Placed, Cursor, XmlInit
<1> QED
  BY <1>4 DEF InPlace

LEMMA StartPlaced ==
  ASSUME Lineage, NEW e, Placed(e), Start
  PROVE  Placed(e)'
<1>1. /\ position = 0 /\ text' = text /\ position' = AfterMeta(0) /\ parser' = "open"
      /\ at' = <<>> /\ nodes' = Empty /\ open' = Empty /\ nodes = Empty
  BY DEF Lineage, Start, Enter
<1>2. DOMAIN nodes' = {} /\ DOMAIN open' = {} /\ Known' = {} /\ DOMAIN nodes = {}
  BY <1>1 DEF Empty, Known
<1>3. e \in [DOMAIN nodes' -> Nat]
  BY <1>2 DEF Placed
<1>4. AfterMeta(0)' = AfterMeta(0)
  BY <1>1, SameReading
<1>5. Cursor(e)'
  BY <1>1, <1>4 DEF Cursor
<1> QED
  BY <1>2, <1>3, <1>5 DEF Placed

\* The tag of a frame is found where the text has it.
LEMMA OpensInPlace ==
  ASSUME IInv, Lineage, NEW e, Placed(e), parser = "open",
         Peek(SkipWhitespace(position)) = "<"
  PROVE  /\ SkipWhitespace(position) = Place(e, at)
         /\ CharAt(Place(e, at)) = "<" /\ Place(e, at) \in 0..(Length - 1)
<1>1. TextOK /\ position \in 0..Length /\ Length \in Nat
  BY Parsing
<1>2. /\ SkipWhitespace(position) = Mark(position) /\ CharAt(Mark(position)) = "<"
      /\ Mark(position) \in position..(Length - 1)
  BY <1>1, SkipFinds
<1>3. position = Begins(e, at, NameAt(Parent(at)))
  <2>1. CASE at = <<>>
    BY <2>1 DEF Placed, Cursor, Begins
  <2>2. CASE at # <<>>
    <3> DEFINE g == Begins(e, at, NameAt(Parent(at)))
    <3>1. Attached(at)
      BY DEF Lineage
    <3>2. g \in 1..Length /\ Peek(g - 1) = ">"
      BY <2>2, <3>1, BeginsBounds
    <3>3. Stands(g)
      BY <2>2 DEF Placed, Cursor
    <3>4. Peek(position) # ">"
      BY <1>2 DEF Peek
    <3> HIDE DEF g
    <3>5. position = g
      BY <1>1, <3>2, <3>3, <3>4, Reached
    <3> QED
      BY <3>5 DEF g
  <2> QED
    BY <2>1, <2>2
<1> QED
  BY <1>1, <1>2, <1>3 DEF Place

LEMMA TagOpenPlaced ==
  ASSUME IInv, Owned, Numbered, Lineage, NEW e, Placed(e), TagOpen
  PROVE  InPlace'
<1> DEFINE p == SkipWhitespace(position)
           q == Consume(p, 1)
           tag == TagSpan(q)
           name == NameOf(tag)
<1>1. parser = "open" /\ TextOK /\ Length \in Nat \ {0} /\ at \in Seq(Nat)
  BY Parsing DEF TagOpen, IInv, XmlTypeOK
<1>2. CASE Refuse
  BY <1>2, NothingPlaced DEF Refuse
<1>3. CASE Peek(p) = "<" /\ HasTagEnd(q) /\ ~Refuse
  <2>1. /\ p = Place(e, at) /\ CharAt(p) = "<" /\ p \in 0..(Length - 1)
    BY <1>1, <1>3, OpensInPlace
  <2>2. p \in 0..Length
    BY <1>1, <2>1
  <2>3. /\ q = p + 1 /\ TagAt(p, name) /\ name.start = q
        /\ TagEnd(name) = Stop(q, ">") /\ Stop(q, ">") \in 0..(Length - 1)
        /\ Peek(Stop(q, ">")) = ">"
    BY <1>1, <1>3, <2>1, <2>2, TagFound
  <2>4. position' = Consume(Stop(q, ">"), 1)
    BY <1>3 DEF TagOpen, AfterTag
  <2>8. at # <<>> => PeekNext(p) # "/"
    <3>1. at # <<>> => PeekNext(position) # "/"
      BY <1>1 DEF Placed, Cursor
    <3>2. position \in 0..Length /\ p = Mark(position) /\ Mark(p) = p
      BY <1>1, <1>3, SkipFinds, Parsing
    <3>3. PeekNext(p) = PeekNext(position)
      BY <3>2 DEF PeekNext, Peek
    <3> QED
      BY <3>1, <3>3
  <2>5. content = NoSpan /\ Children(at) = {} /\ at \notin Known
    BY <1>1 DEF Lineage
  <2>9. ~SelfClosing(tag) /\ parser' = "content" => Peek(position') # "<"
    <3>1. ~SelfClosing(tag) /\ ~Refuse =>
            parser' = IF Peek(AfterTag(q)) = "<" THEN "children" ELSE "content"
      BY <1>3 DEF TagOpen
    <3>2. position' = AfterTag(q)
      BY <1>3 DEF TagOpen
    <3> QED
      BY <1>3, <3>1, <3>2
  <2>6. CASE SelfClosing(tag) /\ Make(name)
    <3>1. PICK n : n = name
      OBVIOUS
    <3>2. PICK end : end = Stop(q, ">")
      OBVIOUS
    <3>3. PICK f : f = With(e, at, end)
      OBVIOUS
    <3>4. f[at] = end
      BY <3>3 DEF With
    <3>5. IsElement(Children(at), f, at, [name |-> n, content |-> content])
      BY <2>3, <2>5, <2>6, <3>1, <3>2, <3>4 DEF IsElement
    <3> HIDE DEF p, q, tag, name
    <3>6. Placed(f)'
      BY <1>1, <2>1, <2>3, <2>4, <2>6, <2>8, <3>1, <3>2, <3>3, <3>5, MakePlaced
    <3> QED
      BY <3>6 DEF InPlace
  <2>7. CASE /\ ~SelfClosing(tag) /\ open' = With(open, at, name)
             /\ parser' \in {"children", "content"}
             /\ UNCHANGED <<text, at, content, nodes>>
    <3>1. PICK n : n = name
      OBVIOUS
    <3>2. /\ DOMAIN open' = DOMAIN open \cup {at} /\ open'[at] = n
          /\ \A f \in DOMAIN open : open'[f] = open[f]
      BY <2>5, <2>7, <3>1 DEF With, Known
    <3>3. Known' = Known \cup {at} /\ nodes' = nodes /\ at' = at /\ text' = text
      BY <2>7, <3>2 DEF Known
    <3> HIDE DEF p, q, tag, name
    <3>4. \A f \in Known : NameAt(f)' = NameAt(f)
      BY <2>5, <3>2, <3>3 DEF NameAt, Known
    <3>5. NameAt(at)' = n
      BY <2>5, <3>2, <3>3 DEF NameAt, Known
    <3>6. \A f \in Known \cup {at} : Place(e, f)' = Place(e, f)
      <4>1. \A f \in Known \cup {at} : Attached(f)
        BY <1>1 DEF Lineage
      <4>2. \A f \in Known \cup {at} :
              Begins(e, f, NameAt(Parent(f)))' = Begins(e, f, NameAt(Parent(f)))
        BY <3>3, <3>4, <4>1, PlaceStays
      <4> QED
        BY <3>3, <4>2, SameReading DEF Place
    <3>7. \A f \in Known' : TagAt(Place(e, f), NameAt(f))'
      <4>1. ASSUME NEW f \in Known PROVE TagAt(Place(e, f), NameAt(f))'
        BY <3>3, <3>4, <3>6, SameReading DEF Placed
      <4>2. ASSUME NEW f, f = at PROVE TagAt(Place(e, f), NameAt(f))'
        BY <2>1, <2>3, <3>1, <3>3, <3>5, <3>6, <4>2, SameReading
      <4> QED
        BY <3>3, <4>1, <4>2
    <3>13. \A f \in Known' : f # <<>> => PeekNext(Place(e, f))' # "/"
      <4>1. \A f \in Known \cup {at} : PeekNext(Place(e, f))' = PeekNext(Place(e, f))
        BY <3>3, <3>6, SameReading
      <4> QED
        BY <2>1, <2>8, <3>3, <4>1 DEF Placed
    <3>8. \A f \in DOMAIN nodes : IsElement(Children(f), e, f, nodes[f])'
      <4>1. ASSUME NEW f \in DOMAIN nodes, NEW d, d = nodes[f] PROVE IsElement(Children(f), e, f, d)'
        <5>1. IsElement(Children(f), e, f, d)
          BY <4>1 DEF Placed
        <5>2. Children(f)' = Children(f)
          BY <3>3 DEF Children
        <5> QED
          BY <3>3, <5>1, <5>2, ElementStays
      <4> QED
        BY <3>3, <4>1
    <3>9. \A f \in DOMAIN open' : ~SelfClosing(TagSpan(open[f].start))'
      <4>1. \A f \in DOMAIN open' : ~SelfClosing(TagSpan(open'[f].start))
        BY <2>3, <2>7, <3>1, <3>2 DEF Placed, tag, name
      <4> QED
        BY <3>3, <4>1, SameReading
    <3>10. Cursor(e)'
      <4>1. Behind(Children(at), e, at, NameAt(at))' = TagEnd(n) + 1
        <5>1. Children(at)' = {}
          BY <2>5, <3>3 DEF Children
        <5> QED
          BY <3>3, <3>5, <5>1, SameReading DEF Behind
      <4>2. TagEnd(n) \in 0..(Length - 1) /\ position' = Consume(TagEnd(n), 1)
        BY <2>3, <2>4, <3>1
      <4>3. PICK x : x = TagEnd(n)
        OBVIOUS
      <4>4. Stands(x + 1)'
        BY <1>1, <3>3, <4>2, <4>3, StandsBehind
      <4>5. Stands(Behind(Children(at), e, at, NameAt(at)))'
        BY <4>1, <4>3, <4>4 DEF Stands
      <4>6. parser' = "content" => Peek(position)' # "<"
        <5>1. parser' = "content" => Peek(position') # "<"
          BY <2>7, <2>9
        <5>2. PICK z : z = position'
          OBVIOUS
        <5>3. Peek(z)' = Peek(z)
          BY <3>3, SameReading
        <5> QED
          BY <5>1, <5>2, <5>3
      <4> QED
        BY <2>7, <4>5, <4>6 DEF Cursor
    <3>11. /\ Length' = Length /\ \A g : Peek(g)' = Peek(g)
      BY <3>3, SameReading
    <3>12. Placed(e)'
      BY <3>3, <3>7, <3>8, <3>9, <3>10, <3>11, <3>13 DEF Placed
    <3> QED
      BY <3>12 DEF InPlace
  <2> QED
    BY <1>3, <2>6, <2>7 DEF TagOpen
<1> QED
  BY <1>2, <1>3 DEF TagOpen

\* A step that moves the cursor, or nothing, leaves the tree and the places alone.
LEMMA OnlyCursorMoves ==
  ASSUME text' = text, open' = open, nodes' = nodes, NEW e, Placed(e)
  PROVE  /\ Known' = Known
         /\ \A p : /\ Children(p)' = Children(p) /\ NameAt(p)' = NameAt(p)
                  /\ Behind(Children(p), e, p, NameAt(p))' = Behind(Children(p), e, p, NameAt(p))
                  /\ Begins(e, p, NameAt(Parent(p)))' = Begins(e, p, NameAt(Parent(p)))
         /\ Cursor(e)' => Placed(e)'
<1>1. Known' = Known /\ \A p : NameAt(p)' = NameAt(p)
  BY DEF Known, NameAt
<1>2. \A p : Children(p)' = Children(p)
  BY DEF Children
<1>3. \A p : Begins(e, p, NameAt(Parent(p)))' = Begins(e, p, NameAt(Parent(p)))
  BY <1>1, SameReading DEF Begins
<1>4. \A p : Behind(Children(p), e, p, NameAt(p))' = Behind(Children(p), e, p, NameAt(p))
  BY <1>1, <1>2, SameReading DEF Behind
<1>5. \A p \in Known : TagAt(Place(e, p), NameAt(p))'
  <2>1. \A p : Place(e, p)' = Place(e, p)
    BY <1>3, SameReading DEF Place
  <2> QED
    BY <1>1, <2>1, SameReading DEF Placed
<1>9. \A p \in Known : p # <<>> => PeekNext(Place(e, p))' # "/"
  <2>1. \A p : PeekNext(Place(e, p))' = PeekNext(Place(e, p))
    BY <1>3, SameReading DEF Place
  <2> QED
    BY <2>1 DEF Placed
<1>6. \A p \in DOMAIN nodes : IsElement(Children(p), e, p, nodes[p])'
  <2>1. ASSUME NEW p \in DOMAIN nodes, NEW d, d = nodes[p] PROVE IsElement(Children(p), e, p, d)'
    <3>1. IsElement(Children(p), e, p, d)
      BY <2>1 DEF Placed
    <3> QED
      BY <1>2, <3>1, ElementStays
  <2> QED
    BY <2>1
<1>7. Length' = Length /\ \A g : /\ Peek(g)' = Peek(g)
                                 /\ SelfClosing(TagSpan(g))' <=> SelfClosing(TagSpan(g))
  BY SameReading
<1>8. Cursor(e)' => Placed(e)'
  BY <1>1, <1>5, <1>6, <1>7, <1>9 DEF Placed
<1> QED
  BY <1>1, <1>2, <1>3, <1>4, <1>8

LEMMA ChildPlaced ==
  ASSUME IInv, Owned, Numbered, Lineage, NEW e, Placed(e), Child
  PROVE  Placed(e)'
<1>1. /\ parser = "children" /\ text' = text /\ position' = position
      /\ open' = open /\ nodes' = nodes
  BY DEF Child
<1>2. \A p : /\ Begins(e, p, NameAt(Parent(p)))' = Begins(e, p, NameAt(Parent(p)))
            /\ Behind(Children(p), e, p, NameAt(p))' = Behind(Children(p), e, p, NameAt(p))
  BY <1>1, OnlyCursorMoves
<1>3. Length' = Length
  BY <1>1, SameReading
<1>4. Stands(Behind(Children(at), e, at, NameAt(at))) /\ content = NoSpan
  BY <1>1 DEF Placed, Cursor, Lineage
<1>5. Cursor(e)'
  <2>1. CASE parser' = "close" /\ at' = at /\ content' = content
    <3>1. Behind(Children(at), e, at, NameAt(at))' = Behind(Children(at), e, at, NameAt(at))
      BY <1>2, <2>1
    <3>2. Stands(Behind(Children(at), e, at, NameAt(at)))'
      BY <1>1, <1>3, <1>4, <3>1 DEF Stands
    <3> QED
      BY <1>4, <2>1, <3>2 DEF Cursor
  <2>2. CASE parser' = "open" /\ at' = NextChild(at) /\ PeekNext(position) # "/"
    <3>1. PICK q : q = NextChild(at)
      OBVIOUS
    <3>2. /\ q \in Seq(Nat) /\ Parent(q) = at
          /\ q[Len(q)] = Cardinality(Children(at)) + 1
          /\ (Cardinality(Children(at)) = 0) <=> (Children(at) = {})
      BY <1>1, <3>1, NextIsNew
    <3>3. Cardinality(Children(at)) \in Nat
      BY LastChild DEF IInv, XmlTypeOK
    <3>4. q # <<>>
      BY <3>1 DEF NextChild
    <3>5. Begins(e, q, NameAt(Parent(q))) = Behind(Children(at), e, at, NameAt(at))
      <4>1. Begins(e, q, NameAt(at)) =
              IF q[Len(q)] = 1 THEN TagEnd(NameAt(at)) + 1
              ELSE e[Append(at, q[Len(q)] - 1)] + 1
        BY <3>2, <3>4 DEF Begins
      <4>2. (q[Len(q)] = 1) <=> (Children(at) = {})
        BY <3>2, <3>3
      <4>3. q[Len(q)] - 1 = Cardinality(Children(at))
        BY <3>2, <3>3
      <4> QED
        BY <3>2, <4>1, <4>2, <4>3 DEF Behind
    <3>6. Begins(e, at, NameAt(Parent(at)))' = Behind(Children(at), e, at, NameAt(at))
      BY <1>2, <2>2, <3>1, <3>5
    <3>7. Stands(Begins(e, at, NameAt(Parent(at))))'
      BY <1>1, <1>3, <1>4, <3>6 DEF Stands
    <3>8. PeekNext(position)' # "/"
      <4>1. PeekNext(position) # "/"
        BY <1>1, <2>2 DEF Child
      <4>2. PICK g : g = position
        OBVIOUS
      <4>3. PeekNext(g)' = PeekNext(g)
        BY <1>1, SameReading
      <4> QED
        BY <1>1, <4>1, <4>2, <4>3
    <3> QED
      BY <2>2, <3>1, <3>4, <3>7, <3>8 DEF Cursor
  <2> QED
    BY <2>1, <2>2 DEF Child, Enter
<1> QED
  BY <1>1, <1>5, OnlyCursorMoves

\* A content begins behind the whitespace, and only where the cursor is on the text.
LEMMA ContentFound ==
  ASSUME TextOK, NEW g \in 1..Length, Peek(g - 1) = ">", Stands(g),
         position \in 0..Length, Stop(SkipWhitespace(position), "<") < Length
  PROVE  /\ SkipWhitespace(position) = Mark(g)
         /\ Mark(g) \in g..Length
<1> DEFINE p == SkipWhitespace(position)
<1>1. Length \in Nat /\ g \in 0..Length
  BY DEF Length
<1>2. p \in position..Length /\ p \in 0..Length
  BY <1>1, SkipBounds
<1>3. Stop(p, "<") \in p..(Length - 1) /\ Peek(Stop(p, "<")) = "<"
  BY <1>1, <1>2, StopBounds
<1>4. Mark(position) \in position..Length /\ CharAt(Mark(position)) \notin Space
  BY MarkBounds
<1>5. p = Mark(position)
  <2> SUFFICES ASSUME p # Mark(position) PROVE FALSE
    OBVIOUS
  <2>1. p = Length - 1 /\ Mark(position) = Length /\ position < Length
    BY DEF SkipWhitespace
  <2>2. Stop(p, "<") = p /\ Peek(p) = "<"
    BY <1>1, <1>3, <2>1
  <2>3. Mark(position) < Length
    BY <1>1, <2>2, SkipFinds
  <2> QED
    BY <1>1, <2>1, <2>3
<1>6. position = g
  <2> SUFFICES ASSUME position # g PROVE FALSE
    OBVIOUS
  <2>1. position = g - 1 /\ g = Length /\ Peek(position) = ">"
    BY <1>1 DEF Stands
  <2>2. Mark(position) \in position..(Length - 1)
    BY <2>1, PeekBounds
  <2>3. p = position /\ Stop(p, "<") = p
    BY <1>1, <1>3, <1>5, <2>1, <2>2
  <2> QED
    BY <1>3, <2>1, <2>3
<1> QED
  BY <1>1, <1>4, <1>5, <1>6

LEMMA ContentPlaced ==
  ASSUME IInv, Numbered, Lineage, NEW e, Placed(e), Content
  PROVE  InPlace'
<1> DEFINE p == SkipWhitespace(position)
           q == Stop(p, "<")
<1>1. /\ parser = "content" /\ TextOK /\ Length \in Nat \ {0} /\ position \in 0..Length
      /\ p \in 0..Length
  BY Parsing DEF Content
<1>2. CASE Refuse
  BY <1>2, NothingPlaced DEF Refuse
<1>3. CASE q < Length /\ ~Refuse
  <2>1. /\ position' = q /\ content' = [start |-> p, length |-> q - p]
        /\ parser' = "close" /\ UNCHANGED <<text, at, open, nodes>>
    BY <1>3 DEF Content
  <2>2. at \in Known /\ Children(at) = {}
    BY <1>1 DEF IInv, Frames, Known, Lineage
  <2>3. PICK g : g = TagEnd(NameAt(at)) + 1
    OBVIOUS
  <2>4. g = Behind(Children(at), e, at, NameAt(at))
    BY <2>2, <2>3 DEF Behind
  <2>5. g \in 1..Length /\ Peek(g - 1) = ">"
    BY <2>2, <2>4, BehindBounds
  <2>6. Stands(g)
    BY <1>1, <2>4 DEF Placed, Cursor
  <2>7. p = Mark(g) /\ Mark(g) \in g..Length
    BY <1>1, <1>3, <2>5, <2>6, ContentFound
  <2>8. q \in p..Length /\ \A r \in p..(q - 1) : Peek(r) # "<"
    BY <1>1, StopBounds
  <2> HIDE DEF p, q
  <2>9. /\ content'.start + content'.length = q /\ content'.start = p /\ content' # NoSpan
        /\ content'.start \in Nat /\ content'.length \in Nat /\ content'.length > 0
    <3>1. q # p
      <4>1. Peek(position) # "<"
        BY <1>1 DEF Placed, Cursor
      <4>2. Peek(q) = "<"
        BY <1>1, <1>3, StopBounds DEF q
      <4>3. p = position \/ p = Mark(position) \/ p = Length - 1
        BY DEF p, SkipWhitespace
      <4>4. Peek(p) = "<" => p = Mark(position) /\ Mark(p) = p /\ CharAt(p) = "<"
        BY <1>1, SkipFinds DEF p
      <4> QED
        BY <4>1, <4>2, <4>4 DEF Peek
    <3> QED
      BY <1>1, <2>1, <2>5, <2>7, <2>8, <3>1 DEF NoSpan
  <2>10. \A f : Children(f)' = Children(f) /\ NameAt(f)' = NameAt(f)
    BY <2>1, OnlyCursorMoves
  <2>11. \A x : /\ Peek(x)' = Peek(x) /\ Mark(x)' = Mark(x) /\ TagEnd(x)' = TagEnd(x)
    BY <2>1, SameReading
  <2>12. Cursor(e)'
    <3>1. Children(at)' = {} /\ content'.length > 0
      BY <2>1, <2>2, <2>9, <2>10
    <3>2. NameAt(at)' = NameAt(at)
      BY <2>1, <2>10
    <3>3. (Mark(TagEnd(NameAt(at)) + 1))' = p
      BY <2>3, <2>7, <2>11, <3>2
    <3>4. \A x \in content'.start..(content'.start + content'.length - 1) : Peek(x)' # "<"
      <4>1. \A x \in p..(q - 1) : Peek(x)' # "<"
        BY <2>8, <2>11
      <4>2. content'.start..(content'.start + content'.length - 1) = p..(q - 1)
        BY <2>9
      <4> QED
        BY <4>1, <4>2
    <3>5. position' = content'.start + content'.length /\ content' # NoSpan
          /\ parser' = "close"
      BY <2>1, <2>9
    <3>6. (content.start = Mark(TagEnd(NameAt(at)) + 1))'
      BY <2>9, <3>3
    <3>7. (\A x \in content.start..(content.start + content.length - 1) : Peek(x) # "<")'
      BY <3>4
    <3> QED
      BY <3>1, <3>5, <3>6, <3>7 DEF Cursor
  <2>13. Placed(e)'
    BY <2>1, <2>12, OnlyCursorMoves
  <2> QED
    BY <2>13 DEF InPlace
<1> QED
  BY <1>1, <1>2, <1>3, StopBounds DEF Content

LEMMA TagClosePlaced ==
  ASSUME IInv, Owned, Numbered, Lineage, NEW e, Placed(e), TagClose
  PROVE  InPlace'
<1> DEFINE p == SkipWhitespace(position)
           q == Consume(p, 2)
<1>1. /\ parser = "close" /\ TextOK /\ Length \in Nat \ {0} /\ position \in 0..Length
      /\ at \in Seq(Nat) /\ at \in DOMAIN open /\ at \notin DOMAIN nodes
  BY Parsing DEF TagClose, IInv, XmlTypeOK, Frames, Lineage
<1>2. CASE Refuse
  BY <1>2, NothingPlaced DEF Refuse
<1>3. CASE ~Refuse
  <2>1. /\ Peek(p) = "<" /\ PeekNext(p) = "/" /\ HasTagEnd(q)
        /\ position' = AfterTag(q) /\ SameName(open[at], TagSpan(q)) /\ Make(open[at])
    BY <1>3 DEF TagClose
  <2>2. /\ p = Mark(position) /\ CharAt(p) = "<"
        /\ Mark(position) \in position..(Length - 1)
    BY <1>1, <2>1, SkipFinds
  <2>3. p \in 0..Length
    BY <1>1, <2>2
  <2>4. PICK n : n = open[at]
    OBVIOUS
  <2>5. /\ q = p + 2 /\ ClosedAt(p, n, Stop(q, ">"))
        /\ Stop(q, ">") \in 0..(Length - 1) /\ Peek(Stop(q, ">")) = ">"
    <3>1. SameName(n, TagSpan(q))
      BY <2>1, <2>4
    <3> QED
      BY <1>1, <2>1, <2>2, <2>3, <3>1, CloseFound
  <2>6. at \in Known /\ NameAt(at) = n
    BY <1>1, <2>4 DEF Known, NameAt
  <2>7. /\ TagAt(Place(e, at), n) /\ ~SelfClosing(TagSpan(n.start))
        /\ at # <<>> => PeekNext(Place(e, at)) # "/"
    BY <1>1, <2>4, <2>6 DEF Placed
  <2>8. PICK end : end = Stop(q, ">")
    OBVIOUS
  <2>9. PICK f : f = With(e, at, end)
    OBVIOUS
  <2>10. f[at] = end /\ \A x \in DOMAIN nodes : f[x] = e[x]
    BY <1>1, <2>9 DEF With, Placed
  <2>11. IsElement(Children(at), f, at, [name |-> n, content |-> content])
    <3>1. CASE content # NoSpan
      <4>1. /\ Children(at) = {} /\ content.length > 0
            /\ content.start = Mark(TagEnd(n) + 1)
            /\ \A g \in content.start..(content.start + content.length - 1) : Peek(g) # "<"
            /\ position = content.start + content.length
        BY <1>1, <2>6, <3>1 DEF Placed, Cursor
      <4>2. ClosedAt(Mark(content.start + content.length), n, f[at])
        BY <2>2, <2>5, <2>8, <2>10, <4>1
      <4> QED
        BY <2>7, <3>1, <4>1, <4>2 DEF IsElement
    <3>2. CASE content = NoSpan
      <4>1. PICK g : g = Behind(Children(at), e, at, n)
        OBVIOUS
      <4>2. Behind(Children(at), f, at, n) = g
        <5>1. Children(at) # {} => Append(at, Cardinality(Children(at))) \in DOMAIN nodes
          BY <1>1, LastChild DEF Children
        <5> QED
          BY <2>10, <4>1, <5>1 DEF Behind
      <4>3. position = g
        <5>1. g \in 1..Length /\ Peek(g - 1) = ">"
          BY <2>6, <4>1, BehindBounds
        <5>2. Stands(g)
          BY <1>1, <2>6, <3>2, <4>1 DEF Placed, Cursor
        <5>3. Peek(position) # ">"
          BY <2>2 DEF Peek
        <5> QED
          BY <1>1, <5>1, <5>2, <5>3, Reached
      <4>4. ClosedAt(Mark(Behind(Children(at), f, at, n)), n, f[at])
        BY <2>2, <2>5, <2>8, <2>10, <4>2, <4>3
      <4> QED
        BY <2>7, <3>2, <4>4 DEF IsElement
    <3> QED
      BY <3>1, <3>2
  <2>12. position' = Consume(end, 1)
    BY <2>1, <2>8 DEF AfterTag
  <2> HIDE DEF p, q
  <2>13. Placed(f)'
    BY <1>1, <2>1, <2>4, <2>5, <2>7, <2>8, <2>9, <2>11, <2>12, MakePlaced
  <2> QED
    BY <2>13 DEF InPlace
<1> QED
  BY <1>2, <1>3

LEMMA ParsePlaced ==
  ASSUME IInv, Owned, Numbered, Lineage, InPlace, Parse
  PROVE  InPlace'
<1>1. PICK e : Placed(e)
  BY DEF InPlace
<1>2. CASE Start
  <2>1. Placed(e)'
    BY <1>1, <1>2, StartPlaced
  <2> QED
    BY <2>1 DEF InPlace
<1>3. CASE TagOpen
  BY <1>1, <1>3, TagOpenPlaced
<1>4. CASE Content
  BY <1>1, <1>4, ContentPlaced
<1>5. CASE Child
  <2>1. Placed(e)'
    BY <1>1, <1>5, ChildPlaced
  <2> QED
    BY <2>1 DEF InPlace
<1>6. CASE TagClose
  BY <1>1, <1>6, TagClosePlaced
<1> QED
  BY <1>2, <1>3, <1>4, <1>5, <1>6 DEF Parse

LEMMA CallPlaced ==
  ASSUME IInv, NEW t, Call(t)
  PROVE  InPlace'
<1>1. nodes' = Empty /\ open' = Empty /\ parser' \in {"refused", "start"}
  BY DEF Call, IInv
<1> QED
  BY <1>1, NothingPlaced

LEMMA FreePlaced == Free => InPlace'
BY NothingPlaced DEF Free

LEMMA SamePlaced ==
  ASSUME InPlace, UNCHANGED xmlVars
  PROVE  InPlace'
<1>1. PICK e : Placed(e)
  BY DEF InPlace
<1>2. /\ text' = text /\ open' = open /\ nodes' = nodes /\ position' = position
      /\ parser' = parser /\ content' = content /\ at' = at
  BY DEF xmlVars
<1>3. /\ \A p : /\ Children(p)' = Children(p) /\ NameAt(p)' = NameAt(p)
               /\ Behind(Children(p), e, p, NameAt(p))' = Behind(Children(p), e, p, NameAt(p))
               /\ Begins(e, p, NameAt(Parent(p)))' = Begins(e, p, NameAt(Parent(p)))
      /\ Cursor(e)' => Placed(e)'
  BY <1>1, <1>2, OnlyCursorMoves
<1>4. /\ Length' = Length /\ AfterMeta(0)' = AfterMeta(0)
      /\ \A g : /\ Peek(g)' = Peek(g) /\ Mark(g)' = Mark(g) /\ TagEnd(g)' = TagEnd(g)
                /\ PeekNext(g)' = PeekNext(g)
  BY <1>2, SameReading
<1>5. Cursor(e)'
  BY <1>1, <1>2, <1>3, <1>4 DEF Placed, Cursor, Stands
<1> QED
  BY <1>3, <1>5 DEF InPlace

\* The ends of the nodes are determined by the tree: where two accounts of them
\* differ, they differ at a child already.
LEMMA EndsAreUnique ==
  ASSUME IInv, Numbered, NEW e, NEW f,
         \A p \in DOMAIN nodes :
           (Children(p) # {} =>
              LET q == Append(p, Cardinality(Children(p))) IN e[q] = f[q]) => e[p] = f[p]
  PROVE  \A p \in DOMAIN nodes : e[p] = f[p]
<1> SUFFICES ASSUME NEW x \in DOMAIN nodes, e[x] # f[x] PROVE FALSE
  OBVIOUS
<1> DEFINE Apart == {p \in DOMAIN nodes : e[p] # f[p]}
           Size(p) == Cardinality(Below(p))
           Sizes == {Size(p) : p \in Apart}
<1>1. DOMAIN nodes \subseteq Seq(Nat) /\ IsFiniteSet(DOMAIN nodes)
  BY DEF IInv, XmlTypeOK
<1>2. \A p : IsFiniteSet(Below(p)) /\ Size(p) \in Nat
  <2>1. ASSUME NEW p PROVE IsFiniteSet(Below(p)) /\ Cardinality(Below(p)) \in Nat
    <3>1. Below(p) \in SUBSET DOMAIN nodes
      BY DEF Below
    <3> QED
      BY <1>1, <3>1, FS_Subset, FS_CardinalityType
  <2> QED
    BY <2>1
<1> HIDE DEF Size
<1>3. Sizes \in SUBSET Nat /\ Sizes # {}
  BY <1>2
<1>4. PICK n \in Sizes : \A m \in Sizes : n <= m
  BY <1>3, LeastExists
<1>5. PICK p \in Apart : n = Size(p)
  BY <1>4
<1>6. PICK q : q = Append(p, Cardinality(Children(p)))
  OBVIOUS
<1>7. Children(p) # {} /\ e[q] # f[q]
  BY <1>5, <1>6
<1>8. p \in Seq(Nat) /\ Cardinality(Children(p)) \in Nat /\ q \in DOMAIN nodes
  BY <1>1, <1>5, <1>6, <1>7, LastChild DEF Children
<1>9. Size(q) \in Sizes
  BY <1>7, <1>8
<1>10. /\ Len(q) = Len(p) + 1 /\ Len(p) \in Nat /\ q \in Seq(Nat)
       /\ \A k \in 1..Len(p) : q[k] = p[k]
  BY <1>6, <1>8, AppendProperties
<1>11. q \in Below(p)
  <2>1. Len(p) <= Len(p) /\ Len(p) <= Len(q) /\ Len(q) > Len(p)
    BY <1>10
  <2>2. SubSeq(q, 1, Len(p)) = SubSeq(p, 1, Len(p)) /\ SubSeq(p, 1, Len(p)) = p
    BY <1>8, <1>10, <2>1, SamePrefix
  <2> QED
    BY <1>8, <2>1, <2>2 DEF Below
<1>12. q \notin Below(q)
  BY <1>10 DEF Below
<1>13. Below(q) \subseteq Below(p)
  <2> SUFFICES ASSUME NEW r \in DOMAIN nodes, Len(r) > Len(q), SubSeq(r, 1, Len(q)) = q
               PROVE  Len(r) > Len(p) /\ SubSeq(r, 1, Len(p)) = p
    BY DEF Below
  <2>1. r \in Seq(Nat) /\ Len(r) \in Nat /\ Len(r) > Len(p) /\ Len(p) <= Len(r)
        /\ Len(p) <= Len(p)
    BY <1>1, <1>10
  <2>2. \A k \in 1..Len(p) : r[k] = p[k]
    <3>1. ASSUME NEW k \in 1..Len(p) PROVE SubSeq(r, 1, Len(q))[k] = r[k]
      BY <1>10, <2>1
    <3> QED
      BY <1>10, <3>1
  <2>3. SubSeq(r, 1, Len(p)) = SubSeq(p, 1, Len(p)) /\ SubSeq(p, 1, Len(p)) = p
    BY <1>8, <1>10, <2>1, <2>2, SamePrefix
  <2> QED
    BY <2>1, <2>3
<1>14. Size(q) < Size(p)
  <2>1. /\ Cardinality(Below(q)) <= Cardinality(Below(p))
        /\ Cardinality(Below(q)) = Cardinality(Below(p)) => Below(q) = Below(p)
    BY <1>2, <1>13, FS_Subset
  <2>2. Below(q) # Below(p)
    BY <1>11, <1>12
  <2>3. Size(q) = Cardinality(Below(q)) /\ Size(p) = Cardinality(Below(p))
    BY DEF Size
  <2> QED
    BY <1>2, <2>1, <2>2, <2>3
<1> QED
  BY <1>2, <1>4, <1>5, <1>9, <1>14

\* The end of the node at p, if its children end at e.
EndIn(e, p) ==
  LET n == nodes[p].name
      c == nodes[p].content
  IN IF SelfClosing(TagSpan(n.start)) THEN TagEnd(n)
     ELSE Stop(Mark(IF c # NoSpan THEN c.start + c.length ELSE Behind(Children(p), e, p, n)) + 2, ">")

LEMMA EndOfIs ==
  ASSUME NEW e, e = [p \in DOMAIN nodes |-> EndIn(e, p)]
  PROVE  EndOf = [p \in DOMAIN nodes |-> EndIn(EndOf, p)]
BY DEF EndOf, EndIn, Behind

LEMMA EndOfElements ==
  ASSUME IInv, Numbered, NEW e, Placed(e)
  PROVE  \A p \in DOMAIN nodes : EndOf[p] = e[p]
<1>1. \A p \in DOMAIN nodes : e[p] = EndIn(e, p)
  BY DEF Placed, IsElement, ClosedAt, EndIn, NoSpan
<1>2. e = [p \in DOMAIN nodes |-> EndIn(e, p)]
  BY <1>1 DEF Placed
<1>3. EndOf = [p \in DOMAIN nodes |-> EndIn(EndOf, p)]
  BY <1>2, EndOfIs
<1>4. \A p \in DOMAIN nodes : EndOf[p] = EndIn(EndOf, p)
  BY <1>3
<1>5. PICK f : f = EndOf
  OBVIOUS
<1>6. \A p \in DOMAIN nodes :
        (Children(p) # {} =>
           LET q == Append(p, Cardinality(Children(p))) IN f[q] = e[q]) => f[p] = e[p]
  BY <1>1, <1>4, <1>5 DEF EndIn, Behind
<1>7. \A p \in DOMAIN nodes : f[p] = e[p]
  BY <1>6, EndsAreUnique
<1> QED
  BY <1>5, <1>7

\* In a tight text the parser sees a `>' only where one stands.
LEMMA TightHere ==
  ASSUME TextOK, Tight, NEW q \in 0..(Length - 1), Peek(q) = ">"
  PROVE  CharAt(q) = ">"
<1>1. Length \in Nat /\ q \in 0..Length
  BY DEF TextOK, Length
<1>2. CharAt(q) \notin Space
  BY DEF Tight
<1>3. Mark(q) = q
  <2>1. Mark(q) \in q..Length /\ \A r \in q..(Mark(q) - 1) : CharAt(r) \in Space
    BY <1>1, MarkBounds
  <2>2. ASSUME Mark(q) # q PROVE FALSE
    <3>1. q \in q..(Mark(q) - 1)
      BY <1>1, <2>1, <2>2
    <3> QED
      BY <1>2, <2>1, <3>1
  <2> QED
    BY <2>2
<1> QED
  BY <1>3 DEF Peek

LEMMA PlacedReads ==
  ASSUME IInv, Owned, Numbered, Lineage, InPlace
  PROVE  TreeIsInText
<1> SUFFICES ASSUME parser = "done"
             PROVE  /\ Describes(nodes, EndOf)
                    /\ Tight => \A p \in DOMAIN nodes :
                         CharAt(TagEnd(nodes[p].name)) = ">" /\ CharAt(EndOf[p]) = ">"
  BY DEF TreeIsInText
<1>1. PICK e : Placed(e)
  BY DEF InPlace
<1>2. \A q \in DOMAIN nodes : EndOf[q] = e[q]
  BY <1>1, EndOfElements
<1>3. /\ nodes \in [DOMAIN nodes -> [name : Spans, content : Spans]]
      /\ DOMAIN nodes \subseteq Seq(Nat) /\ IsFiniteSet(DOMAIN nodes)
      /\ <<>> \in DOMAIN nodes
  BY DEF IInv, XmlTypeOK, Lineage
<1>4. ASSUME NEW p \in DOMAIN nodes, NEW g, g = Mark(Begins(EndOf, p, nodes[Parent(p)].name))
      PROVE  /\ Prefixes(p) \subseteq DOMAIN nodes
             /\ TagAt(g, nodes[p].name)
             /\ p # <<>> => PeekNext(g) # "/"
             /\ IsElement(Children(p), EndOf, p, nodes[p])
  <2>1. p \in Seq(Nat) /\ Attached(p) /\ p \in Known
    BY <1>3 DEF Lineage, Known
  <2>2. Prefixes(p) \subseteq DOMAIN nodes
    BY DEF Owned
  <2>3. IsElement(Children(p), EndOf, p, nodes[p])
    <3>1. Children(p) # {} => Append(p, Cardinality(Children(p))) \in DOMAIN nodes
      BY <2>1, LastChild DEF Children
    <3>2. Behind(Children(p), EndOf, p, nodes[p].name) = Behind(Children(p), e, p, nodes[p].name)
      BY <1>2, <3>1 DEF Behind
    <3>3. IsElement(Children(p), e, p, nodes[p])
      BY <1>1 DEF Placed
    <3> QED
      BY <1>2, <3>2, <3>3 DEF IsElement
  <2>4. Begins(EndOf, p, nodes[Parent(p)].name) = Begins(e, p, NameAt(Parent(p)))
    <3>1. CASE p = <<>>
      BY <3>1 DEF Begins
    <3>2. CASE p # <<>>
      <4>1. Parent(p) \in DOMAIN nodes
        <5>1. Len(p) - 1 \in 0..Len(p)
          BY <2>1, <3>2, ParentType
        <5>2. Parent(p) \in Prefixes(p)
          BY <5>1 DEF Parent, Prefixes
        <5> QED
          BY <2>2, <5>2
      <4>2. NameAt(Parent(p)) = nodes[Parent(p)].name
        BY <4>1 DEF NameAt
      <4>3. p[Len(p)] # 1 => Append(Parent(p), p[Len(p)] - 1) \in DOMAIN nodes
        BY <2>1, <3>2 DEF Attached
      <4> QED
        BY <1>2, <3>2, <4>2, <4>3 DEF Begins
    <3> QED
      BY <3>1, <3>2
  <2>5. g = Place(e, p) /\ NameAt(p) = nodes[p].name
    BY <1>4, <2>4 DEF Place, NameAt
  <2>6. TagAt(Place(e, p), NameAt(p)) /\ (p # <<>> => PeekNext(Place(e, p)) # "/")
    BY <1>1, <2>1 DEF Placed
  <2> QED
    BY <2>2, <2>3, <2>5, <2>6
<1>5. \A p \in DOMAIN nodes : /\ ChildrenIn(DOMAIN nodes, p) = Children(p)
                             /\ Children(p) = {Append(p, i) : i \in 1..Cardinality(Children(p))}
  BY <1>3, LastChild DEF Children, ChildrenIn
<1>6. ASSUME Tight, NEW p \in DOMAIN nodes
      PROVE  CharAt(TagEnd(nodes[p].name)) = ">" /\ CharAt(EndOf[p]) = ">"
  <2>1. /\ p \in Known /\ NameAt(p) = nodes[p].name /\ NameAt(p) \in Spans
        /\ TextOK /\ Length \in Nat
    BY KnownType DEF Known, NameAt
  <2>2. TagAt(Place(e, p), NameAt(p))
    BY <1>1, <2>1 DEF Placed
  <2>3. TagEnd(NameAt(p)) \in 0..(Length - 1) /\ Peek(TagEnd(NameAt(p))) = ">"
    BY <2>1, <2>2, TagEnds
  <2>4. e[p] \in 0..(Length - 1) /\ Peek(e[p]) = ">"
    BY <1>1, <2>1 DEF Placed
  <2> QED
    BY <1>2, <1>6, <2>1, <2>3, <2>4, TightHere
<1> QED
  BY <1>3, <1>4, <1>5, <1>6 DEF Describes

LEMMA NextInPlace ==
  ASSUME IInv, Owned, Numbered, Lineage, InPlace, [XmlNext]_xmlVars
  PROVE  InPlace'
<1>1. CASE UNCHANGED xmlVars
  BY <1>1, SamePlaced
<1>2. ASSUME NEW t \in Texts, Call(t) PROVE InPlace'
  BY <1>2, CallPlaced
<1>3. CASE Parse
  BY <1>3, ParsePlaced
<1>4. CASE Free
  BY <1>4, FreePlaced
<1> QED
  BY <1>1, <1>2, <1>3, <1>4 DEF XmlNext

\* Whatever the text: a text that xml_parse_document() accepts describes its tree from
\* the first tag to the one that closes the root; no element between them is made
\* up, lost or put under another one.  The tags are those of the text when no
\* whitespace stands before a `>'; otherwise the rest of a tag may be taken for a
\* content.  What stands behind the root is not looked at.
THEOREM TextIsItsTree ==
  ASSUME Texts \subseteq Seq(STRING)
  PROVE  XmlSpec => []TreeIsInText
<1> DEFINE Inv == IInv /\ Owned /\ Numbered /\ Lineage /\ InPlace
<1>1. XmlInit => Inv
  <2>1. XmlInit => Owned /\ Lineage
    BY DEF XmlInit, Owned, Lineage
  <2> QED
    BY <2>1, InitIInv, InitNumbered, InitPlaced
<1>2. Inv /\ [XmlNext]_xmlVars => Inv'
  BY NextIInv, NextOwned, NextNumbered, NextLineage, NextInPlace
<1>3. Inv => TreeIsInText
  BY PlacedReads
<1> QED
  BY <1>1, <1>2, <1>3, PTL DEF XmlSpec
-----------------------------------------------------------------------------
(***************************************************************************)
(* Every tree is read                                                      *)
(***************************************************************************)

\* What has been read so far is a part of the tree d: nodes and open frames have
\* its tags, and a node is made when its children are.
Agrees(d) ==
  /\ parser # "refused"
  /\ \A p \in DOMAIN nodes : /\ p \in DOMAIN d /\ nodes[p] = d[p]
                             /\ ChildrenIn(DOMAIN d, p) \subseteq DOMAIN nodes
  /\ \A p \in DOMAIN open : p \in DOMAIN d /\ open[p] = d[p].name
  /\ parser \in {"open", "content", "children", "close"} => at \in DOMAIN d
  /\ parser = "content" => d[at].content # NoSpan
  /\ parser = "children" => d[at].content = NoSpan
  /\ parser = "close" => /\ content = d[at].content
                         /\ ChildrenIn(DOMAIN d, at) \subseteq DOMAIN nodes

LEMMA DescribedAlike ==
  ASSUME text' = text, NEW d, NEW e
  PROVE  Describes(d, e)' <=> Describes(d, e)
<1>1. Spans' = Spans
  BY SameText
<1>2. \A p, n : Begins(e, p, n)' = Begins(e, p, n)
  BY SameReading DEF Begins
<1>3. \A C, p, n : Behind(C, e, p, n)' = Behind(C, e, p, n)
  BY SameReading DEF Behind
<1>4. \A C, p, node : IsElement(C, e, p, node)' <=> IsElement(C, e, p, node)
  BY <1>3, SameReading DEF IsElement
<1>5. \A p, n : Mark(Begins(e, p, n))' = Mark(Begins(e, p, n))
  BY <1>2, SameReading
<1>6. \A p, n : PeekNext(Mark(Begins(e, p, n)))' = PeekNext(Mark(Begins(e, p, n)))
  BY <1>5, SameReading
<1>7. \A p, n, m : TagAt(Mark(Begins(e, p, n)), m)' <=> TagAt(Mark(Begins(e, p, n)), m)
  BY <1>5, SameReading
<1> QED
  BY <1>1, <1>4, <1>6, <1>7 DEF Describes

\* What the description says of one node.
LEMMA DescribedNode ==
  ASSUME TextOK, NEW d, NEW e, Describes(d, e), NEW p \in DOMAIN d
  PROVE  /\ p \in Seq(Nat) /\ Prefixes(p) \subseteq DOMAIN d
         /\ d[p].name \in Spans /\ d[p].content \in Spans
         /\ d[p] = [name |-> d[p].name, content |-> d[p].content]
         /\ TagAt(Mark(Begins(e, p, d[Parent(p)].name)), d[p].name)
         /\ p # <<>> => PeekNext(Mark(Begins(e, p, d[Parent(p)].name))) # "/"
         /\ IsElement(ChildrenIn(DOMAIN d, p), e, p, d[p])
         /\ ChildrenIn(DOMAIN d, p) =
              {Append(p, i) : i \in 1..Cardinality(ChildrenIn(DOMAIN d, p))}
         /\ Cardinality(ChildrenIn(DOMAIN d, p)) \in Nat
         /\ TagEnd(d[p].name) \in 0..(Length - 1) /\ Peek(TagEnd(d[p].name)) = ">"
<1>1. d[p] \in [name : Spans, content : Spans]
  BY DEF Describes
<1>2. Cardinality(ChildrenIn(DOMAIN d, p)) \in Nat
  BY ChildrenCount DEF Describes
<1>3. TagAt(Mark(Begins(e, p, d[Parent(p)].name)), d[p].name)
  BY DEF Describes
<1>4. TagEnd(d[p].name) \in 0..(Length - 1) /\ Peek(TagEnd(d[p].name)) = ">"
  BY <1>1, <1>3, TagEnds
<1> QED
  BY <1>1, <1>2, <1>3, <1>4 DEF Describes

LEMMA ParentOfChild ==
  ASSUME NEW p \in Seq(Nat), NEW i \in Nat
  PROVE  /\ Append(p, i) # <<>> /\ Parent(Append(p, i)) = p
         /\ Append(p, i)[Len(Append(p, i))] = i
<1> DEFINE b == Append(p, i)
<1>1. /\ b \in Seq(Nat) /\ Len(b) = Len(p) + 1 /\ Len(p) \in Nat
      /\ \A j \in 1..Len(p) : b[j] = p[j]
      /\ b[Len(p) + 1] = i
  BY AppendProperties
<1> HIDE DEF b
<1>2. b # <<>>
  BY <1>1
<1>3. Len(p) <= Len(p) /\ Len(p) <= Len(b) /\ Len(b) - 1 = Len(p)
  BY <1>1
<1>4. SubSeq(b, 1, Len(p)) = SubSeq(p, 1, Len(p)) /\ SubSeq(p, 1, Len(p)) = p
  BY <1>1, <1>3, SamePrefix
<1> QED
  BY <1>1, <1>2, <1>3, <1>4 DEF Parent, b

\* The next child is described behind those before it.
LEMMA DescribedChild ==
  ASSUME TextOK, NEW d, NEW e, Describes(d, e), NEW p \in DOMAIN d,
         NEW i \in Nat, Append(p, i + 1) \in DOMAIN d,
         NEW b, b = IF i = 0 THEN TagEnd(d[p].name) + 1 ELSE e[Append(p, i)] + 1
  PROVE  CharAt(Mark(b)) = "<" /\ PeekNext(Mark(b)) # "/"
<1> DEFINE q == Append(p, i + 1)
<1>1. p \in Seq(Nat) /\ i + 1 \in Nat /\ (i + 1) - 1 = i /\ (i + 1 = 1 <=> i = 0)
  BY DescribedNode
<1>2. q # <<>> /\ Parent(q) = p /\ q[Len(q)] = i + 1
  BY <1>1, ParentOfChild
<1> HIDE DEF q
<1>3. q \in DOMAIN d
  BY DEF q
<1>4. Begins(e, q, d[Parent(q)].name) = b
  BY <1>1, <1>2 DEF Begins
<1>5. /\ TagAt(Mark(Begins(e, q, d[Parent(q)].name)), d[q].name)
      /\ PeekNext(Mark(Begins(e, q, d[Parent(q)].name))) # "/"
  BY <1>2, <1>3, DescribedNode
<1> QED
  BY <1>4, <1>5 DEF TagAt

\* The ends that the parser came to are those of the description.
LEMMA DescribedEnds ==
  ASSUME IInv, Numbered, NEW a, Placed(a), NEW d, NEW e, Describes(d, e), Agrees(d)
  PROVE  \A p \in DOMAIN nodes : /\ a[p] = e[p]
                                 /\ ChildrenIn(DOMAIN d, p) = Children(p)
<1>1. \A p \in DOMAIN nodes : ChildrenIn(DOMAIN d, p) = Children(p)
  BY DEF Agrees, ChildrenIn, Children
<1>2. \A p \in DOMAIN nodes : a[p] = EndIn(a, p)
  BY DEF Placed, IsElement, ClosedAt, EndIn, NoSpan
<1>3. \A p \in DOMAIN nodes : e[p] = EndIn(e, p)
  <2>1. ASSUME NEW p \in DOMAIN nodes PROVE e[p] = EndIn(e, p)
    <3>1. p \in DOMAIN d /\ nodes[p] = d[p]
      BY DEF Agrees
    <3>2. IsElement(ChildrenIn(DOMAIN d, p), e, p, d[p])
      BY <3>1 DEF Describes
    <3>3. IsElement(Children(p), e, p, nodes[p])
      BY <1>1, <3>1, <3>2
    <3> QED
      BY <3>3 DEF IsElement, ClosedAt, EndIn, NoSpan
  <2> QED
    BY <2>1
<1>4. \A p \in DOMAIN nodes :
        (Children(p) # {} =>
           LET q == Append(p, Cardinality(Children(p))) IN a[q] = e[q]) => a[p] = e[p]
  BY <1>2, <1>3 DEF EndIn, Behind
<1>5. \A p \in DOMAIN nodes : a[p] = e[p]
  BY <1>4, EndsAreUnique
<1> QED
  BY <1>1, <1>5

\* What is described there is what the cursor looks at.
LEMMA FoundAgain ==
  ASSUME TextOK, NEW b \in 0..Length, position = b \/ Stands(b), CharAt(Mark(b)) = "<"
  PROVE  /\ position = b /\ SkipWhitespace(position) = Mark(b)
         /\ Mark(b) \in b..(Length - 1) /\ Mark(b) \in 0..(Length - 1)
         /\ Mark(Mark(b)) = Mark(b) /\ Peek(Mark(b)) = "<" /\ Peek(b) = "<"
         /\ PeekNext(position) = PeekNext(Mark(b))
<1>1. Length \in Nat /\ Mark(b) \in b..Length
  BY MarkBounds DEF Length
<1>2. Mark(b) # Length
  BY <1>1 DEF CharAt, Terminator
<1>3. position = b
  BY <1>1, <1>2 DEF Stands
<1>4. Mark(b) \in b..(Length - 1) /\ Mark(b) \in 0..(Length - 1) /\ Mark(b) \in 0..Length
  BY <1>1, <1>2
<1>5. SkipWhitespace(position) = Mark(b)
  BY <1>2, <1>3 DEF SkipWhitespace
<1>6. CharAt(Mark(b)) \notin Space
  BY DEF Space
<1>7. Mark(Mark(b)) = Mark(b)
  BY <1>4, <1>6, MarkHere
<1>8. PeekNext(position) = PeekNext(Mark(b))
  BY <1>3, <1>7 DEF PeekNext
<1> QED
  BY <1>3, <1>4, <1>5, <1>7, <1>8 DEF Peek

LEMMA TagRead ==
  ASSUME TextOK, NEW g \in 0..(Length - 1), NEW n \in Spans, TagAt(g, n)
  PROVE  /\ Consume(g, 1) = g + 1 /\ HasTagEnd(g + 1)
         /\ n.start = g + 1 /\ NameOf(TagSpan(g + 1)) = n
         /\ Stop(g + 1, ">") = TagEnd(n)
<1>1. Length \in Nat /\ g + 1 \in 0..Length /\ n.start = g + 1 /\ TagEnd(n) < Length
  BY DEF Length, TagAt
<1>2. Stop(g + 1, ">") = TagEnd(n) /\ Stop(g + 1, ">") \in (g + 1)..Length
  BY <1>1, StopBounds DEF TagEnd
<1>3. g + 1 < Length
  BY <1>1, <1>2
<1> QED
  BY <1>1, <1>2, <1>3 DEF TagAt, HasTagEnd, Consume

LEMMA CloseRead ==
  ASSUME TextOK, NEW g \in 0..(Length - 1), Mark(g) = g, NEW n, NEW x, ClosedAt(g, n, x)
  PROVE  /\ Consume(g, 2) = g + 2 /\ HasTagEnd(g + 2)
         /\ SameName(n, TagSpan(g + 2)) /\ PeekNext(g) = "/"
<1>1. Length \in Nat /\ g + 1 \in 0..Length /\ g # Length
  BY DEF Length
<1>2. /\ PeekNext(g) = "/" /\ x = Stop(g + 2, ">") /\ x < Length
      /\ SameName(n, TagSpan(g + 2))
  BY DEF ClosedAt
<1>3. Peek(g + 1) = "/"
  BY <1>1, <1>2 DEF PeekNext
<1>4. Mark(g + 1) \in (g + 1)..(Length - 1)
  BY <1>1, <1>3, PeekBounds
<1>5. g + 2 \in 0..Length
  BY <1>1, <1>4
<1>6. x \in (g + 2)..Length
  BY <1>2, <1>5, StopBounds
<1>7. g + 2 < Length
  BY <1>1, <1>2, <1>5, <1>6
<1> QED
  BY <1>1, <1>2, <1>7 DEF HasTagEnd, Consume

\* The frame that looks for its tag does so where the description has it.
LEMMA DescribedPlace ==
  ASSUME IInv, Numbered, Lineage, NEW a, Placed(a), NEW d, NEW e, Describes(d, e),
         Agrees(d), parser = "open"
  PROVE  LET g == Mark(Begins(e, at, d[Parent(at)].name))
         IN /\ SkipWhitespace(position) = g /\ g \in 0..(Length - 1)
            /\ TagAt(g, d[at].name) /\ Peek(g) = "<"
<1>1. at \in DOMAIN d /\ Attached(at) /\ TextOK /\ position \in 0..Length /\ Length \in Nat
  BY Parsing DEF Agrees, Lineage
<1>2. PICK b : b = Begins(a, at, NameAt(Parent(at)))
  OBVIOUS
<1>3. b = Begins(e, at, d[Parent(at)].name)
  <2>1. CASE at = <<>>
    BY <1>2, <2>1 DEF Begins
  <2>2. CASE at # <<>>
    <3>1. NameAt(Parent(at)) = d[Parent(at)].name
      BY <1>1, <2>2 DEF Attached, Known, NameAt, Agrees
    <3>2. at[Len(at)] # 1 => a[Append(Parent(at), at[Len(at)] - 1)]
                               = e[Append(Parent(at), at[Len(at)] - 1)]
      BY <1>1, <2>2, DescribedEnds DEF Attached
    <3> QED
      BY <1>2, <2>2, <3>1, <3>2 DEF Begins
  <2> QED
    BY <2>1, <2>2
<1>4. TagAt(Mark(b), d[at].name)
  BY <1>1, <1>3, DescribedNode
<1>5. b \in 0..Length /\ (position = b \/ Stands(b))
  <2>1. CASE at = <<>>
    <3>1. b = AfterMeta(0) /\ 0 \in 0..Length
      BY <1>1, <1>2, <2>1 DEF Begins
    <3>2. AfterMeta(0) \in 0..Length
      BY <1>1, <3>1, MetaBounds
    <3> QED
      BY <2>1, <3>1, <3>2 DEF Placed, Cursor
  <2>2. CASE at # <<>>
    <3>1. b \in 1..Length
      BY <1>1, <1>2, <2>2, BeginsBounds
    <3> QED
      BY <1>1, <1>2, <2>2, <3>1 DEF Placed, Cursor
  <2> QED
    BY <2>1, <2>2
<1>6. CharAt(Mark(b)) = "<"
  BY <1>4 DEF TagAt
<1>7. /\ SkipWhitespace(position) = Mark(b) /\ Mark(b) \in 0..(Length - 1)
      /\ Peek(Mark(b)) = "<"
  BY <1>1, <1>5, <1>6, FoundAgain
<1> QED
  BY <1>3, <1>4, <1>7

LEMMA MakeAgrees ==
  ASSUME IInv, Lineage, NEW d, NEW e, Describes(d, e), Agrees(d),
         parser \in {"open", "close"}, NEW name, Make(name),
         name = d[at].name, content = d[at].content,
         ChildrenIn(DOMAIN d, at) \subseteq DOMAIN nodes
  PROVE  Agrees(d)'
<1>1. at \in DOMAIN d /\ TextOK
  BY DEF Agrees, IInv, XmlTypeOK
<1>2. /\ nodes' = With(nodes, at, d[at])
      /\ open' = Restricted(open, DOMAIN open \ {at})
  BY <1>1, DescribedNode DEF Make
<1>3. DOMAIN nodes' = DOMAIN nodes \cup {at} /\ nodes'[at] = d[at]
  BY <1>2 DEF With
<1>4. \A p \in DOMAIN nodes' : /\ p \in DOMAIN d /\ nodes'[p] = d[p]
                               /\ ChildrenIn(DOMAIN d, p) \subseteq DOMAIN nodes'
  BY <1>1, <1>2, <1>3 DEF With, Agrees
<1>5. \A p \in DOMAIN open' : p \in DOMAIN d /\ open'[p] = d[p].name
  BY <1>2 DEF Restricted, Agrees
<1>6. CASE at = <<>> /\ parser' = "done"
  BY <1>4, <1>5, <1>6 DEF Agrees
<1>7. CASE at # <<>> /\ parser' = "children" /\ at' = Parent(at)
  <2>1. PICK q : q = Parent(at)
    OBVIOUS
  <2>2. q \in DOMAIN d
    <3>1. at \in Seq(Nat) /\ Prefixes(at) \subseteq DOMAIN d
      BY <1>1, DescribedNode
    <3>2. Len(at) - 1 \in 0..Len(at)
      BY <1>7, <3>1, ParentType
    <3> QED
      BY <2>1, <3>1, <3>2 DEF Parent, Prefixes
  <2>3. at \in ChildrenIn(DOMAIN d, q)
    BY <1>1, <1>7, <2>1 DEF ChildrenIn
  <2>4. IsElement(ChildrenIn(DOMAIN d, q), e, q, d[q])
    BY <1>1, <2>2, DescribedNode
  <2>5. d[q].content = NoSpan
    BY <2>3, <2>4 DEF IsElement
  <2> QED
    BY <1>4, <1>5, <1>7, <2>1, <2>2, <2>5 DEF Agrees
<1> QED
  BY <1>6, <1>7 DEF Make

\* What stands behind the tag of an element that is not empty.
LEMMA BehindTag ==
  ASSUME TextOK, NEW d, NEW e, Describes(d, e), NEW p \in DOMAIN d,
         ~SelfClosing(TagSpan(d[p].name.start)),
         NEW t, t = TagEnd(d[p].name)
  PROVE  /\ d[p].content # NoSpan => /\ ChildrenIn(DOMAIN d, p) = {}
                                     /\ Peek(Consume(t, 1)) # "<"
         /\ d[p].content = NoSpan => Peek(Consume(t, 1)) = "<"
<1> DEFINE c == d[p].content
           C == ChildrenIn(DOMAIN d, p)
<1>1. /\ Length \in Nat /\ t \in 0..(Length - 1) /\ Peek(t) = ">"
      /\ c \in Spans /\ IsElement(C, e, p, d[p])
      /\ C = {Append(p, i) : i \in 1..Cardinality(C)} /\ Cardinality(C) \in Nat
  BY DescribedNode DEF Length
<1>2. t + 1 \in 0..Length
  BY <1>1
<1>3. Mark(t + 1) \in (t + 1)..Length /\ CharAt(Mark(t + 1)) \notin Space
      /\ Mark(t + 1) \in 0..Length
  BY <1>1, <1>2, MarkBounds
<1>4. Mark(Mark(t + 1)) = Mark(t + 1)
  BY <1>3, MarkHere
<1>5. Consume(t, 1) = IF t + 1 < Length THEN t + 1 ELSE t
  BY <1>1 DEF Consume
<1>6. ASSUME c # NoSpan PROVE C = {} /\ Peek(Consume(t, 1)) # "<"
  <2>1. /\ c.length > 0 /\ C = {} /\ c.start = Mark(t + 1)
        /\ \A g \in c.start..(c.start + c.length - 1) : Peek(g) # "<"
    BY <1>1, <1>6 DEF IsElement
  <2>2. c.start \in Nat /\ c.length \in Nat
    BY <1>1 DEF Spans
  <2>3. c.start \in c.start..(c.start + c.length - 1)
    BY <2>1, <2>2
  <2>4. Peek(c.start) # "<"
    BY <2>1, <2>3
  <2>5. Peek(t + 1) # "<"
    BY <1>4, <2>1, <2>4 DEF Peek
  <2> QED
    BY <1>1, <1>5, <2>1, <2>5
<1>7. ASSUME c = NoSpan PROVE Peek(Consume(t, 1)) = "<"
  <2>1. CharAt(Mark(t + 1)) = "<"
    <3>1. CASE C = {}
      <4>1. ClosedAt(Mark(t + 1), d[p].name, e[p])
        BY <1>1, <1>7, <3>1 DEF IsElement, Behind, NoSpan
      <4> QED
        BY <4>1 DEF ClosedAt
    <3>2. CASE C # {}
      <4> HIDE DEF C
      <4>1. 1 \in 1..Cardinality(C)
        BY <1>1, <3>2
      <4>2. Append(p, 1) \in C
        BY <1>1, <4>1
      <4>3. Append(p, 0 + 1) \in DOMAIN d
        BY <4>2 DEF C, ChildrenIn
      <4> QED
        BY <4>3, DescribedChild
    <3> QED
      BY <3>1, <3>2
  <2>2. Mark(t + 1) # Length
    BY <1>1, <2>1 DEF CharAt, Terminator
  <2>3. Consume(t, 1) = t + 1
    BY <1>1, <1>3, <1>5, <2>2
  <2> QED
    BY <2>1, <2>3 DEF Peek
<1> QED
  BY <1>6, <1>7

LEMMA TagOpenAgrees ==
  ASSUME IInv, Numbered, Lineage, NEW a, Placed(a), NEW d, NEW e, Describes(d, e),
         Agrees(d), TagOpen
  PROVE  Agrees(d)'
<1> DEFINE p == SkipWhitespace(position)
           q == Consume(p, 1)
           tag == TagSpan(q)
           n == d[at].name
<1>1. /\ parser = "open" /\ TextOK /\ Length \in Nat \ {0} /\ at \in DOMAIN d
      /\ content = NoSpan
  BY Parsing DEF TagOpen, Agrees, Lineage
<1>2. p \in 0..(Length - 1) /\ TagAt(p, n) /\ Peek(p) = "<"
  BY <1>1, DescribedPlace
<1>3. /\ n \in Spans /\ IsElement(ChildrenIn(DOMAIN d, at), e, at, d[at])
  BY <1>1, DescribedNode
<1>4. /\ q = p + 1 /\ HasTagEnd(q) /\ n.start = q /\ NameOf(tag) = n
      /\ Stop(q, ">") = TagEnd(n)
  BY <1>1, <1>2, <1>3, TagRead
<1>5. CASE SelfClosing(tag) /\ Make(NameOf(tag))
  <2>1. d[at].content = NoSpan /\ ChildrenIn(DOMAIN d, at) = {}
    BY <1>3, <1>4, <1>5 DEF IsElement
  <2> HIDE DEF p, q, tag, n
  <2> QED
    BY <1>1, <1>4, <1>5, <2>1, MakeAgrees DEF n
<1>6. CASE /\ ~SelfClosing(tag)
           /\ open' = With(open, at, NameOf(tag))
           /\ parser' = IF Peek(AfterTag(q)) = "<" THEN "children" ELSE "content"
           /\ UNCHANGED <<text, at, content, nodes>>
  <2>1. /\ d[at].content # NoSpan => Peek(Consume(TagEnd(n), 1)) # "<"
        /\ d[at].content = NoSpan => Peek(Consume(TagEnd(n), 1)) = "<"
    BY <1>1, <1>4, <1>6, BehindTag
  <2>2. AfterTag(q) = Consume(TagEnd(n), 1)
    BY <1>4 DEF AfterTag
  <2>3. \A x \in DOMAIN open' : x \in DOMAIN d /\ open'[x] = d[x].name
    BY <1>1, <1>4, <1>6 DEF With, Agrees
  <2> HIDE DEF p, q, tag, n
  <2> QED
    BY <1>1, <1>6, <2>1, <2>2, <2>3 DEF Agrees
<1> QED
  BY <1>1, <1>2, <1>4, <1>5, <1>6 DEF TagOpen

LEMMA ContentAgrees ==
  ASSUME IInv, Numbered, Lineage, NEW a, Placed(a), NEW d, NEW e, Describes(d, e),
         Agrees(d), Content
  PROVE  Agrees(d)'
<1> DEFINE p == SkipWhitespace(position)
           q == Stop(p, "<")
           c == d[at].content
           n == d[at].name
           g == TagEnd(n) + 1
<1>1. /\ parser = "content" /\ TextOK /\ Length \in Nat \ {0} /\ at \in DOMAIN d
      /\ at \in DOMAIN open /\ open[at] = n /\ at \notin DOMAIN nodes /\ at \in Known
      /\ Children(at) = {} /\ c # NoSpan
  BY Parsing DEF Content, Agrees, Lineage, IInv, Frames, Known
<1>2. NameAt(at) = n /\ ~SelfClosing(TagSpan(n.start))
  BY <1>1 DEF NameAt, Placed
<1>3. IsElement(ChildrenIn(DOMAIN d, at), e, at, d[at]) /\ c \in Spans
  BY <1>1, DescribedNode
<1>4. /\ c.length > 0 /\ ChildrenIn(DOMAIN d, at) = {}
      /\ c.start = Mark(g)
      /\ \A x \in c.start..(c.start + c.length - 1) : Peek(x) # "<"
      /\ CharAt(Mark(c.start + c.length)) = "<"
  BY <1>1, <1>2, <1>3 DEF IsElement, ClosedAt
<1>5. /\ c.start \in Nat /\ c.length \in Nat /\ c.start + c.length \in 0..Length
      /\ c = [start |-> c.start, length |-> c.length]
  BY <1>3 DEF Spans
<1>6. g \in 1..Length /\ Stands(g)
  <2>1. g = Behind(Children(at), a, at, NameAt(at))
    BY <1>1, <1>2 DEF Behind
  <2>2. g \in 1..Length
    BY <1>1, <2>1, BehindBounds
  <2> QED
    BY <1>1, <2>1, <2>2 DEF Placed, Cursor
<1>7. Peek(c.start + c.length) = "<" /\ c.start + c.length # Length
  <2>1. Peek(c.start + c.length) = "<"
    BY <1>4 DEF Peek
  <2>2. Mark(c.start + c.length) \in (c.start + c.length)..(Length - 1)
    BY <1>1, <1>5, <2>1, PeekBounds
  <2> QED
    BY <1>1, <1>5, <2>1, <2>2
<1> HIDE DEF g
<1>8. c.start \in g..(Length - 1)
  <2>1. g \in 0..Length
    BY <1>6
  <2>2. Mark(g) \in g..Length
    BY <1>1, <2>1, MarkBounds
  <2> QED
    BY <1>1, <1>4, <1>5, <1>7, <2>2
<1>9. p = c.start
  <2>1. position = g
    BY <1>1, <1>6, <1>8 DEF Stands
  <2> QED
    BY <1>1, <1>4, <1>8, <2>1 DEF SkipWhitespace
<1>10. q = c.start + c.length
  <2>1. p \in 0..Length
    BY <1>1, <1>5, <1>9
  <2>2. /\ q \in p..Length /\ (q # Length => Peek(q) = "<")
        /\ \A x \in p..(q - 1) : Peek(x) # "<"
    BY <1>1, <2>1, StopBounds
  <2> HIDE DEF q, p, c
  <2>3. ~(q < c.start + c.length)
    <3> SUFFICES ASSUME q < c.start + c.length PROVE FALSE
      OBVIOUS
    <3>1. q \in c.start..(c.start + c.length - 1) /\ q # Length
      BY <1>1, <1>5, <1>9, <2>2
    <3> QED
      BY <1>4, <2>2, <3>1
  <2>4. ~(q > c.start + c.length)
    <3> SUFFICES ASSUME q > c.start + c.length PROVE FALSE
      OBVIOUS
    <3>1. c.start + c.length \in p..(q - 1)
      BY <1>1, <1>5, <1>9, <2>2
    <3> QED
      BY <1>7, <2>2, <3>1
  <2> QED
    BY <1>1, <1>5, <1>9, <2>2, <2>3, <2>4
<1>11. q < Length
  BY <1>1, <1>5, <1>7, <1>10
<1>12. /\ content' = [start |-> p, length |-> q - p] /\ parser' = "close"
       /\ UNCHANGED <<text, at, open, nodes>>
  BY <1>1, <1>11 DEF Content
<1> HIDE DEF p, q
<1>13. content' = c
  BY <1>5, <1>9, <1>10, <1>12
<1> QED
  BY <1>1, <1>4, <1>12, <1>13 DEF Agrees

\* The cursor of a frame whose children are read as far as they are made.
LEMMA BehindChildren ==
  ASSUME IInv, Numbered, Lineage, NEW a, Placed(a), NEW d, NEW e, Describes(d, e),
         Agrees(d), parser = "children" \/ (parser = "close" /\ content = NoSpan),
         NEW k, k = Cardinality(Children(at)),
         NEW b, b = IF k = 0 THEN TagEnd(d[at].name) + 1 ELSE e[Append(at, k)] + 1
  PROVE  /\ k \in Nat /\ Stands(b) /\ b \in 0..Length
         /\ (k = 0) <=> (Children(at) = {})
         /\ Children(at) = {Append(at, i) : i \in 1..k}
<1>1. /\ at \in DOMAIN d /\ at \in DOMAIN open /\ open[at] = d[at].name
      /\ at \notin DOMAIN nodes /\ at \in Known /\ at \in Seq(Nat)
  BY DEF Agrees, Lineage, IInv, Frames, Known, XmlTypeOK
<1>2. NameAt(at) = d[at].name
  BY <1>1 DEF NameAt
<1>3. /\ k \in Nat /\ Children(at) = {Append(at, i) : i \in 1..k}
      /\ Children(at) # {} => Append(at, k) \in Children(at)
  BY <1>1, LastChild
<1>4. (k = 0) <=> (Children(at) = {})
  <2>1. k = 0 => 1..k = {}
    OBVIOUS
  <2>2. k # 0 => k \in 1..k
    BY <1>3
  <2> QED
    BY <1>3, <2>1, <2>2
<1>5. Children(at) # {} => a[Append(at, k)] = e[Append(at, k)]
  BY <1>3, DescribedEnds DEF Children
<1>6. b = Behind(Children(at), a, at, NameAt(at))
  BY <1>2, <1>4, <1>5 DEF Behind
<1>7. b \in 1..Length
  BY <1>1, <1>6, BehindBounds
<1>8. Stands(b)
  BY <1>6 DEF Placed, Cursor
<1>9. b \in 0..Length
  BY <1>7
<1> QED
  BY <1>3, <1>4, <1>8, <1>9

LEMMA ChildAgrees ==
  ASSUME IInv, Owned, Numbered, Lineage, NEW a, Placed(a), NEW d, NEW e, Describes(d, e),
         Agrees(d), Child
  PROVE  Agrees(d)'
<1>1. /\ parser = "children" /\ TextOK /\ Length \in Nat \ {0} /\ at \in DOMAIN d
      /\ d[at].content = NoSpan /\ content = NoSpan /\ at \in Seq(Nat)
      /\ at \in DOMAIN open /\ open[at] = d[at].name
      /\ UNCHANGED <<open, nodes>>
  BY Parsing DEF Child, Agrees, Lineage, IInv, Frames, XmlTypeOK
<1>2. PICK k : k = Cardinality(Children(at))
  OBVIOUS
<1>3. PICK b : b = IF k = 0 THEN TagEnd(d[at].name) + 1 ELSE e[Append(at, k)] + 1
  OBVIOUS
<1>4. /\ k \in Nat /\ Stands(b) /\ b \in 0..Length
      /\ Children(at) = {Append(at, i) : i \in 1..k}
  BY <1>1, <1>2, <1>3, BehindChildren
<1> DEFINE C == ChildrenIn(DOMAIN d, at)
           m == Cardinality(C)
<1>5. C = {Append(at, i) : i \in 1..m} /\ m \in Nat
      /\ IsElement(C, e, at, d[at])
  BY <1>1, DescribedNode
<1>6. NextChild(at) = Append(at, k + 1)
  BY <1>2 DEF NextChild
<1> HIDE DEF m
<1>7. CASE Append(at, k + 1) \in DOMAIN d
  <2>1. CharAt(Mark(b)) = "<" /\ PeekNext(Mark(b)) # "/"
    BY <1>1, <1>3, <1>4, <1>7, DescribedChild
  <2>2. PeekNext(position) # "/"
    BY <1>1, <1>4, <2>1, FoundAgain
  <2>3. parser' = "open" /\ at' = Append(at, k + 1)
    BY <1>6, <2>2 DEF Child, Enter
  <2> QED
    BY <1>1, <1>7, <2>3 DEF Agrees
<1>8. CASE Append(at, k + 1) \notin DOMAIN d
  <2>1. C \subseteq Children(at)
    <3> SUFFICES ASSUME NEW i \in 1..m, Append(at, i) \notin Children(at) PROVE FALSE
      BY <1>5
    <3>1. i \notin 1..k /\ k + 1 \in 1..m
      BY <1>4, <1>5
    <3>2. Append(at, k + 1) \in C
      BY <1>5, <3>1
    <3> QED
      BY <1>8, <3>2 DEF C, ChildrenIn
  <2>2. Children(at) \subseteq C
    BY DEF Children, C, ChildrenIn, Agrees
  <2>3. C = Children(at)
    BY <2>1, <2>2
  <2>4. ClosedAt(Mark(b), d[at].name, e[at])
    <3>1. (k = 0) <=> (Children(at) = {})
      BY <1>1, <1>2, <1>3, BehindChildren
    <3>2. Behind(C, e, at, d[at].name) = b
      BY <1>2, <1>3, <2>3, <3>1 DEF Behind
    <3>3. ~SelfClosing(TagSpan(d[at].name.start))
      BY <1>1 DEF Placed
    <3> QED
      BY <1>1, <1>5, <3>2, <3>3 DEF IsElement, NoSpan
  <2>5. CharAt(Mark(b)) = "<" /\ PeekNext(Mark(b)) = "/"
    BY <2>4 DEF ClosedAt
  <2>6. PeekNext(position) = "/"
    BY <1>1, <1>4, <2>5, FoundAgain
  <2>7. parser' = "close" /\ at' = at /\ content' = content
    BY <2>6 DEF Child
  <2>8. C \subseteq DOMAIN nodes
    BY <2>1 DEF Children
  <2> QED
    BY <1>1, <2>7, <2>8 DEF Agrees
<1> QED
  BY <1>7, <1>8

LEMMA TagCloseAgrees ==
  ASSUME IInv, Numbered, Lineage, NEW a, Placed(a), NEW d, NEW e, Describes(d, e),
         Agrees(d), TagClose
  PROVE  Agrees(d)'
<1> DEFINE c == d[at].content
           C == ChildrenIn(DOMAIN d, at)
<1>1. /\ parser = "close" /\ TextOK /\ Length \in Nat \ {0} /\ at \in DOMAIN d
      /\ at \in DOMAIN open /\ open[at] = d[at].name
      /\ content = c /\ C \subseteq DOMAIN nodes
  BY Parsing DEF TagClose, Agrees, IInv, Frames
<1>2. /\ IsElement(C, e, at, d[at]) /\ c \in Spans
      /\ ~SelfClosing(TagSpan(d[at].name.start))
  BY <1>1, DescribedNode DEF Placed
<1>3. PICK b \in 0..Length : /\ position = b \/ Stands(b)
                             /\ ClosedAt(Mark(b), d[at].name, e[at])
  <2>1. CASE c # NoSpan
    <3>1. position = c.start + c.length
      BY <1>1, <2>1 DEF Placed, Cursor
    <3>2. ClosedAt(Mark(c.start + c.length), d[at].name, e[at])
      BY <1>2, <2>1 DEF IsElement
    <3>3. c.start + c.length \in 0..Length
      BY <1>2 DEF Spans
    <3> QED
      BY <3>1, <3>2, <3>3
  <2>2. CASE c = NoSpan
    <3>1. PICK k : k = Cardinality(Children(at))
      OBVIOUS
    <3>2. PICK b : b = IF k = 0 THEN TagEnd(d[at].name) + 1 ELSE e[Append(at, k)] + 1
      OBVIOUS
    <3>3. Stands(b) /\ b \in 0..Length /\ ((k = 0) <=> (Children(at) = {}))
      BY <1>1, <2>2, <3>1, <3>2, BehindChildren
    <3>4. C = Children(at)
      BY <1>1 DEF Children, ChildrenIn, Agrees
    <3>5. Behind(C, e, at, d[at].name) = b
      BY <3>1, <3>2, <3>3, <3>4 DEF Behind
    <3>6. ClosedAt(Mark(b), d[at].name, e[at])
      BY <1>2, <2>2, <3>5 DEF IsElement, NoSpan
    <3> QED
      BY <3>3, <3>6
  <2> QED
    BY <2>1, <2>2
<1>4. CharAt(Mark(b)) = "<"
  BY <1>3 DEF ClosedAt
<1>5. PICK g : g = Mark(b)
  OBVIOUS
<1>6. /\ SkipWhitespace(position) = g /\ g \in 0..(Length - 1) /\ Mark(g) = g
      /\ Peek(g) = "<"
  BY <1>1, <1>3, <1>4, <1>5, FoundAgain
<1>7. /\ Consume(g, 2) = g + 2 /\ HasTagEnd(g + 2) /\ PeekNext(g) = "/"
      /\ SameName(open[at], TagSpan(g + 2))
  BY <1>1, <1>3, <1>5, <1>6, CloseRead
<1>8. Make(open[at])
  BY <1>6, <1>7 DEF TagClose
<1> QED
  BY <1>1, <1>8, MakeAgrees

LEMMA ParseAgrees ==
  ASSUME IInv, Owned, Numbered, Lineage, InPlace, NEW d, NEW e, Describes(d, e),
         Agrees(d), Parse
  PROVE  Agrees(d)'
<1>1. PICK a : Placed(a)
  BY DEF InPlace
<1>2. CASE Start
  <2>1. /\ parser' = "open" /\ at' = <<>> /\ nodes' = Empty /\ open' = Empty
    BY <1>2 DEF Start, Enter, Lineage
  <2>2. DOMAIN Empty = {} /\ <<>> \in DOMAIN d
    BY DEF Empty, Describes
  <2> QED
    BY <2>1, <2>2 DEF Agrees
<1>3. CASE TagOpen
  BY <1>1, <1>3, TagOpenAgrees
<1>4. CASE Content
  BY <1>1, <1>4, ContentAgrees
<1>5. CASE Child
  BY <1>1, <1>5, ChildAgrees
<1>6. CASE TagClose
  BY <1>1, <1>6, TagCloseAgrees
<1> QED
  BY <1>2, <1>3, <1>4, <1>5, <1>6 DEF Parse

Follows == \A d, e : Describes(d, e) => Agrees(d)

\* A text without characters describes nothing: no tag stands in it.
LEMMA EmptyText ==
  ASSUME text = <<>>, NEW d, NEW e
  PROVE  ~Describes(d, e)
<1> SUFFICES ASSUME Describes(d, e) PROVE FALSE
  OBVIOUS
<1>1. Length = 0 /\ TextOK
  BY DEF Length, TextOK
<1>2. <<>> \in DOMAIN d
  BY DEF Describes
<1>3. TagEnd(d[<<>>].name) \in 0..(Length - 1)
  BY <1>1, <1>2, DescribedNode
<1> QED
  BY <1>1, <1>3

LEMMA EmptyTextNext ==
  ASSUME text' = <<>>, NEW d, NEW e, Describes(d, e)'
  PROVE  FALSE
<1>1. Length' = 0
  BY DEF Length
<1>2. CharAt(0)' = "NUL"
  BY <1>1 DEF CharAt, Terminator
<1>3. MetaEnds(0)' = {}
  BY <1>1 DEF MetaEnds
<1>4. AfterMeta(0)' = 0
  BY <1>3 DEF AfterMeta, HasMeta
<1>5. Mark(0)' = 0
  <2>0. "NUL" \notin Space
    BY DEF Space
  <2>1. 0 \in 0..Length' /\ CharAt(0)' \notin Space
    BY <1>1, <1>2, <2>0
  <2>2. \A q : q \in 0..Length' => q = 0
    BY <1>1
  <2> QED
    BY <2>1, <2>2, <1>1 DEF Mark
<1>6. <<>> \in DOMAIN d
  BY DEF Describes
<1>7. PICK n : n = d[<<>>].name
  OBVIOUS
<1>8. TagAt(Mark(AfterMeta(0)), n)'
  <2>1. TagAt(Mark(Begins(e, <<>>, d[Parent(<<>>)].name)), d[<<>>].name)'
    BY <1>6 DEF Describes
  <2> QED
    BY <2>1, <1>7 DEF Begins
<1>9. CharAt(0)' = "<"
  BY <1>4, <1>5, <1>8 DEF TagAt
<1> QED
  BY <1>2, <1>9

LEMMA InitFollows == XmlInit => Follows
BY EmptyText DEF XmlInit, Follows

LEMMA CallFollows ==
  ASSUME IInv, NEW t, Call(t)
  PROVE  Follows'
<1> SUFFICES ASSUME NEW d, NEW e, Describes(d, e)' PROVE Agrees(d)'
  BY DEF Follows
<1>1. t # <<>>
  <2> SUFFICES ASSUME text' = <<>> PROVE FALSE
    BY DEF Call
  <2> QED
    BY EmptyTextNext
<1>2. parser' = "start" /\ nodes' = Empty /\ open' = Empty
  BY <1>1 DEF Call, IInv
<1>3. DOMAIN Empty = {}
  BY DEF Empty
<1> QED
  BY <1>2, <1>3 DEF Agrees

LEMMA NextFollows ==
  ASSUME IInv, Owned, Numbered, Lineage, InPlace, Follows, [XmlNext]_xmlVars
  PROVE  Follows'
<1> SUFFICES ASSUME NEW d, NEW e, Describes(d, e)' PROVE Agrees(d)'
  BY DEF Follows
<1>1. CASE UNCHANGED xmlVars
  <2>1. Describes(d, e)
    BY <1>1, DescribedAlike DEF xmlVars
  <2>2. Agrees(d)
    BY <2>1 DEF Follows
  <2> QED
    BY <1>1, <2>2 DEF xmlVars, Agrees
<1>2. ASSUME NEW t \in Texts, Call(t) PROVE Agrees(d)'
  BY <1>2, CallFollows DEF Follows
<1>3. CASE Parse
  <2>1. Describes(d, e)
    BY <1>3, ParseKeeps, DescribedAlike
  <2>2. Agrees(d)
    BY <2>1 DEF Follows
  <2> QED
    BY <1>3, <2>1, <2>2, ParseAgrees
<1>4. CASE Free
  BY <1>4, EmptyTextNext DEF Free
<1> QED
  BY <1>1, <1>2, <1>3, <1>4 DEF XmlNext

\* Behind the last tag no node of the tree is missing: one that is closest to the
\* root has a parent that was read, with all its children.
LEMMA AllRead ==
  ASSUME IInv, Lineage, NEW d, NEW e, Describes(d, e), Agrees(d), parser = "done"
  PROVE  nodes = d
<1> DEFINE Missing == DOMAIN d \ DOMAIN nodes
<1>1. <<>> \in DOMAIN nodes /\ DOMAIN d \subseteq Seq(Nat)
  BY DEF Lineage, Describes
<1>2. Missing = {}
  <2> SUFFICES ASSUME Missing # {} PROVE FALSE
    OBVIOUS
  <2>1. {Len(p) : p \in Missing} \in SUBSET Nat /\ {Len(p) : p \in Missing} # {}
    <3>1. \A p \in Missing : Len(p) \in Nat
      BY <1>1
    <3> QED
      BY <3>1
  <2>2. PICK n \in {Len(p) : p \in Missing} : \A m \in {Len(p) : p \in Missing} : n <= m
    BY <2>1, LeastExists
  <2>3. PICK p \in Missing : n = Len(p)
    BY <2>2
  <2>4. PICK q : q = Parent(p)
    OBVIOUS
  <2>5. p \in Seq(Nat) /\ p # <<>> /\ Prefixes(p) \subseteq DOMAIN d
    BY <1>1, <2>3 DEF Describes
  <2>6. Len(p) \in Nat \ {0} /\ q \in Seq(Nat) /\ Len(q) = Len(p) - 1
    BY <2>4, <2>5, ParentType
  <2>7. Len(p) - 1 \in 0..Len(p)
    BY <2>6
  <2>8. q \in DOMAIN d
    BY <2>4, <2>5, <2>7 DEF Parent, Prefixes
  <2>9. q \in DOMAIN nodes
    <3> SUFFICES ASSUME q \in Missing PROVE FALSE
      BY <2>8
    <3> QED
      BY <2>2, <2>3, <2>6
  <2>10. p \in ChildrenIn(DOMAIN d, q)
    BY <2>3, <2>4, <2>5 DEF ChildrenIn
  <2> QED
    BY <2>3, <2>9, <2>10 DEF Agrees
<1>3. DOMAIN nodes = DOMAIN d
  BY <1>2 DEF Agrees
<1>4. /\ nodes = [p \in DOMAIN nodes |-> nodes[p]]
      /\ d = [p \in DOMAIN d |-> d[p]]
  BY DEF IInv, XmlTypeOK, Describes
<1> QED
  BY <1>3, <1>4 DEF Agrees

\* Whatever tree the text describes, the parser neither refuses the text nor makes
\* another tree of it.
DescribedIsRead ==
  \A d, e : Describes(d, e) => /\ parser # "refused"
                               /\ parser = "done" => nodes = d

LEMMA FollowsReads ==
  ASSUME IInv, Lineage, Follows
  PROVE  DescribedIsRead
BY AllRead DEF Follows, Agrees, DescribedIsRead

\* The converse of TextIsItsTree: xml_parse_document() accepts every text that
\* describes a tree in the sense of TextIsItsTree, however deep, and gives that tree,
\* node by node; so a text describes at most one.
THEOREM EveryTreeIsRead ==
  ASSUME Texts \subseteq Seq(STRING)
  PROVE  XmlSpec => []DescribedIsRead
<1> DEFINE Inv == IInv /\ Owned /\ Numbered /\ Lineage /\ InPlace /\ Follows
<1>1. XmlInit => Inv
  <2>1. XmlInit => Owned /\ Lineage
    BY DEF XmlInit, Owned, Lineage
  <2> QED
    BY <2>1, InitIInv, InitNumbered, InitPlaced, InitFollows
<1>2. Inv /\ [XmlNext]_xmlVars => Inv'
  BY NextIInv, NextFollows, NextInPlace, NextOwned, NextNumbered, NextLineage
<1>3. Inv => DescribedIsRead
  BY FollowsReads
<1> QED
  BY <1>1, <1>2, <1>3, PTL DEF XmlSpec

\* The documents are written in the sense of Describes: in the text of each stands
\* the tree that it was written from.
WrittenDescribe ==
  text \in DOMAIN Written =>
    \E d, e : /\ Describes(d, e)
              /\ Written[text] = [p \in DOMAIN d |-> [name    |-> Span(d[p].name),
                                                      content |-> Span(d[p].content)]]

LEMMA DescribedAsWritten ==
  ASSUME DescribedIsRead, WrittenDescribe
  PROVE  ReadsAsWritten
<1> SUFFICES ASSUME text \in DOMAIN Written
             PROVE  parser # "refused" /\ (parser = "done" => Tree = Written[text])
  BY DEF ReadsAsWritten
<1>1. PICK d, e : /\ Describes(d, e)
                  /\ Written[text] = [p \in DOMAIN d |-> [name    |-> Span(d[p].name),
                                                          content |-> Span(d[p].content)]]
  BY DEF WrittenDescribe
<1>2. parser # "refused" /\ (parser = "done" => nodes = d)
  BY <1>1 DEF DescribedIsRead
<1> QED
  BY <1>1, <1>2 DEF Tree

\* Every document that was written from a tree is accepted and gives that tree, as
\* the test of the parser expects of its documents: it is enough that the tree stands
\* in the text.
THEOREM WrittenIsRead ==
  ASSUME Texts \subseteq Seq(STRING)
  PROVE  XmlSpec /\ []WrittenDescribe => []ReadsAsWritten
<1>1. XmlSpec => []DescribedIsRead
  BY EveryTreeIsRead
<1>2. DescribedIsRead /\ WrittenDescribe => ReadsAsWritten
  BY DescribedAsWritten
<1> QED
  BY <1>1, <1>2, PTL
=============================================================================
