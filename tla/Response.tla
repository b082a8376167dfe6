------------------------------ MODULE Response ------------------------------
(***************************************************************************)
(* The way of an answer through the library: curl delivers its body in     *)
(* pieces to body_callback(), the status decides, and the body of an error *)
(* goes through the XML parser and parse_error_message() to the message of *)
(* the handle.  It composes ResponseBuffer, whose block holds the bytes,   *)
(* and XmlParser, which reads them there.                                  *)
(*                                                                         *)
(* A connection may end anywhere in the body.  The body of a success is    *)
(* handed to the caller, as by ms3_get().                                  *)
(***************************************************************************)
EXTENDS ResponseBuffer, XmlParser

CONSTANTS Messages,   \* the error documents among the texts, and their message
          Error, Message   \* the names of the elements "Error" and "Message"

VARIABLES sent,       \* the body the server sends
          last_error  \* the text ms3_server_error() returns

responseVars == <<vars, xmlVars, sent, last_error>>

\* last_error is a null pointer; the text of curl; memory nobody wrote; or
\* the library went through a null pointer, which ends the process.
NoMessage == <<"NULL">>
CurlText  == <<"curl">>
Unwritten == <<"unwritten">>
Crashed   == <<"crashed">>

StatusFailures == Failures \ {"MS3_ERR_REQUEST_ERROR"}

ResponseInit == /\ Init
                /\ XmlInit
                /\ sent \in Texts
                /\ last_error = NoMessage

Receiving == pc = "receiving" /\ parser = "idle" /\ last_error # Crashed

Ask(chunk, t) == /\ Begin(chunk)
                 /\ sent' = t
                 /\ UNCHANGED <<xmlVars, last_error>>

Arrives(n) == /\ Receiving
              /\ received + n <= Len(sent)
              /\ Deliver(n)
              /\ UNCHANGED <<xmlVars, sent, last_error>>

\* The bytes that lie in the block, as far as its length says.
Body == [i \in 1..length |->
           IF i - 1 \in DOMAIN data /\ data[i - 1] \in 1..Len(sent)
           THEN sent[data[i - 1]] ELSE Terminator]

\* curl_easy_perform() returns an error.
Breaks == /\ Receiving
          /\ \/ \E n \in Pieces : received + n <= Len(sent) /\ Deny(n)
             \/ TransferFails("MS3_ERR_REQUEST_ERROR")
          /\ last_error' = CurlText
          /\ UNCHANGED <<xmlVars, sent>>

Succeeds == /\ Receiving
            /\ TransferEnds
            /\ UNCHANGED <<xmlVars, sent, last_error>>

\* The status is an error: parse_error_message() is called; it looks at the
\* pointer and the length first.
Refused == /\ Receiving
           /\ \/ /\ size = 0 \/ length = 0
                 /\ \E r \in StatusFailures : TransferFails(r)
                 /\ last_error' = NoMessage
                 /\ UNCHANGED xmlVars
              \/ /\ size # 0 /\ length # 0
                 /\ Call(Body)
                 /\ UNCHANGED <<vars, last_error>>
           /\ UNCHANGED sent

Parses == /\ Parse
          /\ UNCHANGED <<vars, sent, last_error>>
-----------------------------------------------------------------------------
(***************************************************************************)
(* parse_error_message()                                                   *)
(***************************************************************************)

\* xml_node_name_cmp() compares as much as the element's own name has.
Named(p, name) == LET n == Span(nodes[p].name)
                  IN Len(n) <= Len(name) /\ n = SubSeq(name, 1, Len(n))

\* The message is looked for in the root.
Around_Root == <<>>

\* In an answer of IAM or STS the first child is the error, otherwise the root.
Around == IF Named(<<1>>, Error) THEN <<1>> ELSE <<>>

\* The elements named "Message" there, by their places.
Found == {i \in 1..Cardinality(Children(Around)) :
            Named(Append(Around, i), Message)}
First == CHOOSE i \in Found : \A j \in Found : i <= j

\* The buffer for the text is not written when the element has no content.
TextOf(p) == IF nodes[p].content = NoSpan THEN Unwritten
             ELSE Span(nodes[p].content)

ErrorText == IF parser = "refused" \/ Found = {} THEN NoMessage
             ELSE TextOf(Append(Around, First))

Childless == parser = "done" /\ Children(<<>>) = {}

\* The document is freed, the message set and the buffer released.
Reports(r) == /\ parser \in {"done", "refused"}
              /\ ~Childless
              /\ last_error' = ErrorText
              /\ Free
              /\ Fail(r)
              /\ UNCHANGED sent

\* The first child of the root is compared before it is known to exist.
Crash == /\ Childless /\ last_error # Crashed
         /\ last_error' = Crashed
         /\ UNCHANGED <<vars, xmlVars, sent>>

Handles == Parses \/ Crash \/ \E r \in StatusFailures : Reports(r)

ResponseNext == \/ \E chunk \in Chunks, t \in Texts : Ask(chunk, t)
                \/ \E n \in Pieces : Arrives(n)
                \/ Breaks \/ Succeeds \/ Refused
                \/ Handles

\* Once curl has returned the library runs without waiting for anything.
ResponseSpec == ResponseInit /\ [][ResponseNext]_responseVars
                             /\ WF_responseVars(Handles)
-----------------------------------------------------------------------------
(***************************************************************************)
(* Properties                                                              *)
(***************************************************************************)

\* What stands together in a body.
Quoted == UNION {{SubSeq(t, m, n) : m \in 1..(Len(t) + 1), n \in 0..Len(t)} : t \in Texts}

\* The types of the buffer's part, the parser's part and the message, which is
\* one of those the library or curl makes up or stands in a body that a server sent.
ResponseTypeOK ==
  /\ TypeOK /\ XmlTypeOK
  /\ sent \in Texts
  /\ last_error \in {NoMessage, CurlText, Unwritten, Crashed} \cup Quoted

\* The parser works on the bytes the server sent, in their order, and while it
\* runs its cursor stands on a byte that body_callback() wrote, be it the
\* terminator: it looks at the byte under the cursor without asking how long
\* the body is.
ParsesTheBody == parser # "idle" => /\ text = SubSeq(sent, 1, received)
                                    /\ position \in DOMAIN data

\* The message of a refused call is the one of the server's document, both for
\* the layout of S3 and for that of IAM, whatever else the document holds and
\* in whatever pieces it came; and none is taken from a document that was cut
\* off.  (An empty element is left out: see Unwritten.)
MessageExact ==
  pc = "idle" /\ res \in StatusFailures =>
    LET t == SubSeq(sent, 1, received)
    IN /\ t \in DOMAIN Messages => last_error = Messages[t]
       /\ received < Len(sent) /\ sent \in DOMAIN Written => last_error = NoMessage

\* The answer of a failed call, however junk its body is, ends in a result for the
\* caller.
ErrorIsReported == parser # "idle" ~> parser = "idle"

\* An error document, however damaged or cut, does not keep the library busy
\* for ever: the call returns, but for a tree without children in its root.
ReportedUnlessChildless == parser # "idle" ~> (parser = "idle" \/ Childless)
=============================================================================
