----------------------------- MODULE MCResponse -----------------------------
(***************************************************************************)
(* Instances of Response for TLC: documents are put together with the tree *)
(* they stand for.  Names are shortened to one or two characters.          *)
(***************************************************************************)
EXTENDS Response, TLC

ErrorName   == <<"E">>
MessageName == <<"M", "s">>
Code        == <<"C">>

Tag(name, rest) == <<"<">> \o name \o rest \o <<">">>
End(name)       == <<"<", "/">> \o name \o <<">">>
Element(name, c) == <<>> :> [name |-> name, content |-> c]
Under(tree, i)   == [p \in {<<i>> \o q : q \in DOMAIN tree} |-> tree[Tail(p)]]

Leaf(name, c)    == [text |-> Tag(name, <<>>) \o c \o End(name),
                     tree |-> Element(name, c)]
Closed(name)     == [text |-> Tag(name, <<" ", "/">>), tree |-> Element(name, <<>>)]
One(name, a)     == [text |-> Tag(name, <<>>) \o a.text \o End(name),
                     tree |-> Element(name, <<>>) @@ Under(a.tree, 1)]
Two(name, attribute, gap, a, b) ==
  [text |-> Tag(name, attribute) \o gap \o a.text \o gap \o b.text \o gap \o End(name),
   tree |-> Element(name, <<>>) @@ Under(a.tree, 1) @@ Under(b.tree, 2)]
AfterMetaData(d) == [d EXCEPT !.text = <<"<", "?", "x", "?", ">">> \o @]

TheMessage == Leaf(MessageName, <<"n", " ", "o">>)
Attribute  == <<" ", "k", "=", "v">>

\* Documents whose message is that of TheMessage: S3's layout, IAM's layout.
ErrorDocs ==
  {AfterMetaData(Two(ErrorName, <<>>, <<"\n">>, Leaf(Code, <<"A">>), TheMessage)),
   Two(ErrorName, <<>>, <<>>, TheMessage, Closed(Code)),
   One(Code, Two(ErrorName, <<>>, <<>>, Closed(Code), TheMessage))}

\* Others: an empty message, a name that differs late, a root without children.
OtherDocs ==
  {Two(ErrorName, <<>>, <<>>, Closed(Code), Leaf(MessageName, <<>>)),
   Two(ErrorName, Attribute, <<>>, Leaf(<<"M", "t">>, <<"x">>), One(Code, Closed(Code))),
   Leaf(Code, <<"A">>)}

Docs        == ErrorDocs \cup OtherDocs
WrittenDocs == [t \in {d.text : d \in Docs} |-> (CHOOSE d \in Docs : d.text = t).tree]
MessageDocs == [t \in {d.text : d \in ErrorDocs} |-> <<"n", " ", "o">>]

\* No XML, a closing tag that does not match, meta data and nothing else.
Damaged == {<<"o", "k">>, <<"<">> \o Code \o <<">", "x">> \o End(ErrorName),
            <<" ", "<", "?", "x", "?", ">">>, <<"<", ">", " ">>}

\* Whitespace before the `>' of a tag, which becomes a content; before that of a
\* closing tag inside another element; a `/' right behind the name, and a text
\* behind the root.
Loose == {Tag(Code, <<" ">>) \o <<"x">> \o End(Code),
          Tag(ErrorName, <<>>) \o Tag(Code, <<>>) \o End(Code \o <<" ">>) \o End(ErrorName),
          Tag(Code, <<"/">>) \o <<"o", "k">>}

AllTexts == DOMAIN WrittenDocs \cup Damaged \cup Loose

ChunkSizes == {1, 4}
PieceSizes == {0, 1, 3}
=============================================================================
