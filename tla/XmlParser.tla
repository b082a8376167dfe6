------------------------------ MODULE XmlParser ------------------------------
(***************************************************************************)
(* xml.c: the recursive descent parser that turns the body of a response   *)
(* into a tree.  It moves one cursor over the text; a tag name and a       *)
(* content are spans of the text, not copies.                              *)
(*                                                                         *)
(* The recursion of xml_parse_node() is kept as the path of the node that  *)
(* is being parsed: <<>> is the root and p \o <<i>> the i-th child of the  *)
(* node p.  The open frames are the prefixes of the path.                  *)
(*                                                                         *)
(* Positions count from 0, as in the code; behind the text stands the      *)
(* terminator of body_callback().                                          *)
(*                                                                         *)
(* An operator named after another one, as Op_Change, is Op with a bug; it *)
(* is used only to see that the properties notice such a bug.              *)
(***************************************************************************)
EXTENDS Naturals, Sequences, FiniteSets

CONSTANTS Texts,      \* the bodies, as sequences of characters
          Written     \* those that were written from a tree, and that tree

Space == {" ", "\n"}
Terminator == "NUL"
NoSpan == [start |-> 0, length |-> 0]

VARIABLES parser,    \* "idle"; what xml_parse_node() does next: "start",
                     \* "open", "content", "children", "close"; or "done",
                     \* "refused": what xml_parse_document() returned
          text,      \* parser->buffer
          position,  \* parser->position
          at,        \* the path of the node that is being parsed
          open,      \* tag_open of the frames, by path
          content,   \* content of the latest frame, NoSpan for a null pointer
          nodes,     \* the nodes made so far, by path
          heap       \* what is allocated: <<"children", path>> etc.

xmlVars == <<parser, text, position, at, open, content, nodes, heap>>

Length == Len(text)
CharAt(p) == IF p < Length THEN text[p + 1] ELSE Terminator
Span(s) == SubSeq(text, s.start + 1, s.start + s.length)
Restricted(f, S) == [x \in DOMAIN f \cap S |-> f[x]]
With(f, x, v) == [y \in DOMAIN f \cup {x} |-> IF y = x THEN v ELSE f[y]]
Empty == [x \in {} |-> NoSpan]
-----------------------------------------------------------------------------
(***************************************************************************)
(* The cursor                                                              *)
(***************************************************************************)

\* The first position from p on that holds no whitespace; the terminator at the
\* latest.
Mark(p) == CHOOSE q \in p..Length : /\ CharAt(q) \notin Space
                                    /\ \A r \in p..(q - 1) : CharAt(r) \in Space

\* xml_parser_peek(parser, CURRENT_CHARACTER) with the cursor at p.
Peek(p) == CharAt(Mark(p))

\* xml_parser_peek(parser, NEXT_CHARACTER)
PeekNext(p) == IF Mark(p) = Length THEN Terminator ELSE Peek(Mark(p) + 1)

\* The cursor that would leave the text is put back to its start.
Consume_Wraps(p, n) == IF p + n >= Length THEN 0 ELSE p + n

\* xml_parser_consume()
Consume(p, n) == IF p + n >= Length THEN Length - 1 ELSE p + n

\* xml_skip_whitespace() stops at the last character at the latest.
SkipWhitespace(p) == IF p < Length /\ Mark(p) = Length THEN Length - 1 ELSE Mark(p)

\* Where a loop that consumes until xml_parser_peek() returns c stops.
Stop(p, c) == CHOOSE q \in p..Length : /\ q = Length \/ Peek(q) = c
                                       /\ \A r \in p..(q - 1) : Peek(r) # c

\* The end of the text ends a tag, too.
HasTagEnd_OrEnd(p) == p < Length

\* xml_parse_tag_end(): the span up to `>' and the cursor behind it.
HasTagEnd(p) == Stop(p, ">") < Length
TagSpan(p) == [start |-> p, length |-> Stop(p, ">") - p]

\* The character behind the tag is consumed, too.
AfterTag_Two(p) == Consume(Stop(p, ">"), 2)

AfterTag(p) == Consume(Stop(p, ">"), 1)

\* xml_parse_skip_meta(): the first "?>" from p on.
MetaEnds(p) == {q \in p..(Length - 1) : CharAt(q) = "?" /\ CharAt(q + 1) = ">"}
MetaEnd(p) == CHOOSE q \in MetaEnds(p) : \A r \in MetaEnds(p) : q <= r
HasMeta(p) == Peek(p) = "<" /\ PeekNext(p) = "?" /\ MetaEnds(p) # {}

\* One character too many.
AfterMeta_Wide(p) == IF HasMeta(p) THEN MetaEnd(p) + 3 ELSE p

\* The cursor may come to stand behind the text.
AfterMeta(p) == IF HasMeta(p) THEN MetaEnd(p) + 2 ELSE p
-----------------------------------------------------------------------------
(***************************************************************************)
(* Names                                                                   *)
(***************************************************************************)

\* The name keeps the attributes.
NameOf_Whole(tag) == tag

\* tag_open after xml_find_attributes(): as long as its first token is.
NameOf(tag) ==
  LET first == CHOOSE i \in 1..tag.length : /\ Span(tag)[i] # " "
                                            /\ \A j \in 1..(i - 1) : Span(tag)[j] = " "
      last  == CHOOSE i \in first..tag.length :
                 /\ i = tag.length \/ Span(tag)[i + 1] = " "
                 /\ \A j \in first..(i - 1) : Span(tag)[j + 1] # " "
  IN IF \A i \in 1..tag.length : Span(tag)[i] = " " THEN tag
     ELSE [tag EXCEPT !.length = last - first + 1]

\* Whether a tag ends with `/'.  The slash is not dropped from the name.
SelfClosing(tag) == NameOf(tag).length > 0 /\ CharAt(tag.start + tag.length - 1) = "/"

\* xml_string_equals()
SameName(a, b) == Span(a) = Span(b)
-----------------------------------------------------------------------------
(***************************************************************************)
(* xml_parse_document() and xml_parse_node()                               *)
(***************************************************************************)

XmlInit == /\ parser = "idle"
           /\ text = <<>>
           /\ position = 0
           /\ at = <<>>
           /\ open = Empty /\ content = NoSpan /\ nodes = Empty
           /\ heap = {}

Parent(p) == SubSeq(p, 1, Len(p) - 1)
Prefixes(p) == {SubSeq(p, 1, n) : n \in 0..Len(p)}
Below(p) == {q \in DOMAIN nodes : Len(q) > Len(p) /\ SubSeq(q, 1, Len(p)) = p}
Children(p) == {q \in DOMAIN nodes : q # <<>> /\ Parent(q) = p}

\* What belongs to the node at p.
Parts(p) == {<<"node", p>>, <<"name", p>>, <<"content", p>>, <<"attributes", p>>,
             <<"children", p>>}

\* A new frame: the array of children is allocated first.
Enter(p) == /\ at' = p
            /\ heap' = heap \cup {<<"children", p>>}
            /\ content' = NoSpan

\* xml_parse_document(); a text without characters is refused at once.
Call(t) == /\ parser = "idle"
           /\ parser' = IF t = <<>> THEN "refused" ELSE "start"
           /\ text' = t /\ position' = 0
           /\ heap' = {}
           /\ UNCHANGED <<at, open, content, nodes>>

Start == /\ parser = "start"
         /\ position' = AfterMeta(position)
         /\ Enter(<<>>)
         /\ parser' = "open"
         /\ UNCHANGED <<text, open, nodes>>

\* The nodes of the children are forgotten.
Released_NoChildren(p) == {<<"name", p>>, <<"content", p>>, <<"children", p>>}

\* What a failing frame releases: all but the attributes.
Released(p) == {<<"name", p>>, <<"content", p>>, <<"children", p>>}
                 \cup UNION {Parts(q) : q \in Below(p)}

\* A child that cannot be parsed is skipped.
Refuse_ChildSkipped ==
  /\ parser' = IF at = <<>> THEN "refused" ELSE "children"
  /\ heap' = heap \ Released(at)
  /\ at' = IF at = <<>> THEN at ELSE Parent(at)
  /\ UNCHANGED <<text, open, content, nodes>>

\* exit_failure, in this frame and then in all around it.
Refuse == /\ parser' = "refused"
          /\ heap' = heap \ UNION {Released(p) : p \in Prefixes(at)}
          /\ open' = Empty /\ nodes' = Empty /\ content' = NoSpan
          /\ at' = <<>>
          /\ UNCHANGED text

\* node_creation: the node becomes the latest child of the one around it.
Make(name) ==
  /\ nodes' = With(nodes, at, [name |-> name, content |-> content])
  /\ open' = Restricted(open, DOMAIN open \ {at})
  /\ content' = NoSpan
  /\ UNCHANGED text
  /\ \/ at = <<>> /\ parser' = "done" /\ UNCHANGED at
     \/ at # <<>> /\ parser' = "children" /\ at' = Parent(at)

\* xml_parse_tag_open() and xml_find_attributes()
TagOpen ==
  LET p == SkipWhitespace(position)
      q == Consume(p, 1)
      tag == TagSpan(q)
      made == {<<"name", at>>, <<"attributes", at>>}
  IN /\ parser = "open"
     /\ \/ /\ Peek(p) # "<"
           /\ position' = p
           /\ Refuse
        \/ /\ Peek(p) = "<" /\ ~HasTagEnd(q)
           /\ position' = Length - 1
           /\ Refuse
        \/ /\ Peek(p) = "<" /\ HasTagEnd(q)
           /\ position' = AfterTag(q)
           /\ \/ /\ SelfClosing(tag)
                 /\ heap' = heap \cup made \cup {<<"node", at>>}
                 /\ Make(NameOf(tag))
              \/ /\ ~SelfClosing(tag)
                 /\ heap' = heap \cup made
                 /\ open' = With(open, at, NameOf(tag))
                 /\ parser' = IF Peek(AfterTag(q)) = "<" THEN "children" ELSE "content"
                 /\ UNCHANGED <<text, at, content, nodes>>

\* xml_parse_content(); the whitespace before `<' is not consumed.
Content ==
  LET p == SkipWhitespace(position)
      q == Stop(p, "<")
  IN /\ parser = "content"
     /\ \/ /\ q = Length
           /\ position' = Length - 1
           /\ Refuse
        \/ /\ q < Length
           /\ position' = q
           /\ content' = [start |-> p, length |-> q - p]
           /\ heap' = heap \cup {<<"content", at>>}
           /\ parser' = "close"
           /\ UNCHANGED <<text, at, open, nodes>>

\* The place behind the latest child.
NextChild(p) == Append(p, Cardinality(Children(p)) + 1)

\* The loop over the children: `</' ends it.
Child == /\ parser = "children"
         /\ UNCHANGED <<text, position, open, nodes>>
         /\ \/ /\ PeekNext(position) = "/"
               /\ parser' = "close"
               /\ UNCHANGED <<at, heap, content>>
            \/ /\ PeekNext(position) # "/"
               /\ parser' = "open"
               /\ Enter(NextChild(at))

\* xml_parse_tag_close(), and the names are compared.
TagClose ==
  LET p == SkipWhitespace(position)
      q == Consume(p, 2)
  IN /\ parser = "close"
     /\ \/ /\ Peek(p) # "<" \/ PeekNext(p) # "/"
           /\ position' = p
           /\ Refuse
        \/ /\ Peek(p) = "<" /\ PeekNext(p) = "/" /\ ~HasTagEnd(q)
           /\ position' = Length - 1
           /\ Refuse
        \/ /\ Peek(p) = "<" /\ PeekNext(p) = "/" /\ HasTagEnd(q)
           /\ position' = AfterTag(q)
           /\ \/ /\ ~SameName(open[at], TagSpan(q))
                 /\ Refuse
              \/ /\ SameName(open[at], TagSpan(q))
                 /\ heap' = heap \cup {<<"node", at>>}
                 /\ Make(open[at])

\* The caller is done: xml_document_free().
Free == /\ parser \in {"done", "refused"}
        /\ parser' = "idle"
        /\ heap' = heap \ UNION {Parts(p) : p \in DOMAIN nodes}
        /\ text' = <<>> /\ position' = 0
        /\ at' = <<>> /\ open' = Empty /\ content' = NoSpan /\ nodes' = Empty

Parse == Start \/ TagOpen \/ Content \/ Child \/ TagClose

XmlNext == (\E t \in Texts : Call(t)) \/ Parse \/ Free

XmlSpec == XmlInit /\ [][XmlNext]_xmlVars
-----------------------------------------------------------------------------
(***************************************************************************)
(* Properties                                                              *)
(***************************************************************************)

Spans == {s \in [start : Nat, length : Nat] : s.start + s.length <= Length}
Kinds == {"children", "name", "attributes", "content", "node"}

XmlTypeOK ==
  /\ parser \in {"idle", "start", "open", "content", "children", "close", "done", "refused"}
  /\ text \in Seq(STRING)
  /\ position \in 0..Length
  /\ at \in Seq(Nat)
  /\ content \in Spans
  /\ open \in [DOMAIN open -> Spans] /\ DOMAIN open \subseteq Seq(Nat)
  /\ nodes \in [DOMAIN nodes -> [name : Spans, content : Spans]]
  /\ DOMAIN nodes \subseteq Seq(Nat) /\ IsFiniteSet(DOMAIN nodes)
  /\ heap \subseteq Kinds \X Seq(Nat)

\* The tree as its reader sees it.
Tree == [p \in DOMAIN nodes |-> [name    |-> Span(nodes[p].name),
                                 content |-> Span(nodes[p].content)]]

\* A text that was written from a tree is accepted and gives that tree: every
\* element under its parent, in order, with its name and its content, with or
\* without whitespace between the elements and before a content, attributes, and
\* a blank before the `/' of an empty element.  (Whitespace before a `>' and a `/'
\* that follows the name are left out: the parser does not read them so.)
ReadsAsWritten ==
  /\ parser = "refused" => text \notin DOMAIN Written
  /\ parser = "done" => (text \in DOMAIN Written => Tree = Written[text])

\* The children of p in a tree with the nodes D.
ChildrenIn(D, p) == {q \in D : q # <<>> /\ Parent(q) = p}

\* Where the tag with the name n ends, as the parser knows it: at the first place
\* from which only whitespace stands before the next `>'.  It goes on behind that
\* place, so that it ends at the `>' itself in a tight text only.
TagEnd(n) == Stop(n.start, ">")

\* At g stands the tag with the name n.
TagAt(g, n) == /\ CharAt(g) = "<" /\ n.start = g + 1
               /\ TagEnd(n) < Length /\ n = NameOf(TagSpan(n.start))

\* At g stands the tag that closes n, and it ends at e.
ClosedAt(g, n, e) == /\ CharAt(g) = "<" /\ PeekNext(g) = "/"
                     /\ e = Stop(g + 2, ">") /\ e < Length
                     /\ SameName(n, TagSpan(g + 2))

\* Behind the tag n of the node at p and behind its children C, which end at e.
Behind(C, e, p, n) == IF C = {} THEN TagEnd(n) + 1
                      ELSE e[Append(p, Cardinality(C))] + 1

\* Where the node at p is looked for: behind its elder brother, or else behind the
\* tag n of its parent; the root is looked for behind the declaration.
Begins(e, p, n) ==
  IF p = <<>> THEN AfterMeta(0)
  ELSE IF p[Len(p)] = 1 THEN TagEnd(n) + 1
  ELSE e[Append(Parent(p), p[Len(p)] - 1)] + 1

\* An element as the parser knows it: empty, with a content, or with the elements C
\* inside.
IsElement(C, e, p, node) ==
  LET n == node.name
      c == node.content
      empty == SelfClosing(TagSpan(n.start))
  IN \/ empty /\ c = NoSpan /\ C = {} /\ e[p] = TagEnd(n)
     \/ /\ ~empty /\ c.length > 0 /\ C = {}
        /\ c.start = Mark(TagEnd(n) + 1)
        /\ \A g \in c.start..(c.start + c.length - 1) : Peek(g) # "<"
        /\ ClosedAt(Mark(c.start + c.length), n, e[p])
     \/ ~empty /\ c = NoSpan /\ ClosedAt(Mark(Behind(C, e, p, n)), n, e[p])

\* The tree d, whose nodes end at e, is the one that the text describes to the
\* parser: every node is an element that stands right behind the end of its elder
\* brother or of the tag of its parent, nothing but whitespace lies in between, and
\* each is closed by its own name behind the last of its children, which are
\* numbered without gaps.  What stands behind the root is not looked at.
Describes(d, e) ==
  /\ d \in [DOMAIN d -> [name : Spans, content : Spans]]
  /\ DOMAIN d \subseteq Seq(Nat) /\ IsFiniteSet(DOMAIN d) /\ <<>> \in DOMAIN d
  /\ \A p \in DOMAIN d :
       LET C == ChildrenIn(DOMAIN d, p)
           g == Mark(Begins(e, p, d[Parent(p)].name))
       IN /\ Prefixes(p) \subseteq DOMAIN d
          /\ C = {Append(p, i) : i \in 1..Cardinality(C)}
          /\ TagAt(g, d[p].name)
          /\ p # <<>> => PeekNext(g) # "/"
          /\ IsElement(C, e, p, d[p])

\* Where the nodes end: at the end of their only tag or of the one that closes them.
EndOf[p \in DOMAIN nodes] ==
  LET n == nodes[p].name
      c == nodes[p].content
  IN IF SelfClosing(TagSpan(n.start)) THEN TagEnd(n)
     ELSE Stop(Mark(IF c # NoSpan THEN c.start + c.length
                    ELSE IF Children(p) = {} THEN TagEnd(n) + 1
                    ELSE EndOf[Append(p, Cardinality(Children(p)))] + 1) + 2, ">")

\* No whitespace stands before a `>'.
Tight == \A g \in 0..(Length - 1) : CharAt(g) \in Space => Peek(g) # ">"

\* A text that is accepted describes its tree up to the end of the root; when it is
\* tight, every tag and every element of the tree ends with a `>' of the text.
TreeIsInText ==
  parser = "done" =>
    /\ Describes(nodes, EndOf)
    /\ Tight => \A p \in DOMAIN nodes : /\ CharAt(TagEnd(nodes[p].name)) = ">"
                                        /\ CharAt(EndOf[p]) = ">"

\* A text that is refused leaves nothing allocated but the attributes of the
\* nodes that were not finished; of one that is accepted all that is allocated
\* hangs on the tree, where xml_document_free() comes to it from the root.
NothingElseLeaks ==
  /\ parser = "refused" => \A o \in heap : o[1] = "attributes"
  /\ parser = "done" => /\ heap \subseteq UNION {Parts(p) : p \in DOMAIN nodes}
                        /\ \A p \in DOMAIN nodes : Prefixes(p) \subseteq DOMAIN nodes
  /\ parser = "idle" => \A o \in heap : o[1] = "attributes"

\* What is left to do: two steps for every character behind the cursor, at
\* most, and two more.
Rank == IF parser \in {"done", "refused"} THEN 0
        ELSE 2 * (Length - position) + IF parser \in {"open", "close"} THEN 1 ELSE 2

\* However damaged a text is, the parser comes to its end: the cursor moves on
\* with every tag that is read, and every step of xml_parse_node() leaves less to
\* do, also those between the tags and those that put the cursor back.
Advances ==
  [][/\ (parser \in {"open", "close"} /\ parser' # "refused") => (position' > position)
     /\ (parser \notin {"idle", "done", "refused"}) => (Rank' < Rank)]_xmlVars
=============================================================================
