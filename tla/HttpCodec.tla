------------------------------ MODULE HttpCodec ------------------------------
(***************************************************************************)
(* HTTPCodec of the HTTP server: the parser of requests, as operators.       *)
(*                                                                         *)
(* What a client sends is a sequence of symbols: CR, LF, or a text, which is *)
(* everything the parser does not look for the end of a line in.  A text is  *)
(* a record with a kind:                                                    *)
(*   "request"  a request line, with its version, its method and its path;   *)
(*   "header"   a header line, with its key and its value;                   *)
(*   "bytes"    anything else.                                               *)
(***************************************************************************)
EXTENDS Integers, Sequences, FiniteSetsExt

CR == [kind |-> "CR"]
LF == [kind |-> "LF"]
None == [kind |-> "none"]

NotANumber == -1        \* a content-length lexical_cast refuses

Symbols ==
    {CR, LF}
    \cup [kind : {"request"}, version : STRING, method : STRING, path : STRING]
    \cup [kind : {"header"}, key : STRING, value : Nat \cup {NotANumber}]
    \cup [kind : {"bytes"}]

-----------------------------------------------------------------------------
(* The state of a parser *)

InitialParser ==
    [status |-> "kInit", line |-> None, headers |-> << >>, length |-> 0, body |-> << >>]

\* The length of the text before the first CR LF of buf, or -1.
find(buf) ==
    LET ends == {i \in 1 .. Len(buf) - 1 : buf[i] = CR /\ buf[i + 1] = LF}
    IN  IF ends = {} THEN -1 ELSE Min(ends) - 1

AfterLineKeepingEnd(buf) == SubSeq(buf, find(buf) + 1, Len(buf))     \* mutant

\* buf without its first line.
AfterLine(buf) == SubSeq(buf, find(buf) + 3, Len(buf))

IsLine(buf, kind) == find(buf) = 1 /\ buf[1].kind = kind

Outcome(res, parser, buf) == [res |-> res, parser |-> parser, buf |-> buf]

StartParsing(parser, buf) ==
    IF buf = << >> THEN Outcome("kParseNeedMore", parser, buf)
    ELSE Outcome("kParseOK", [parser EXCEPT !.status = "kParsingRequestLine"], buf)

ReadRequestLine(parser, buf) ==
    CASE find(buf) = -1 -> Outcome("kParseNeedMore", parser, buf)
      [] IsLine(buf, "request") ->
            Outcome("kParseOK",
                    [parser EXCEPT !.status = "kParsingRequestHeader", !.line = buf[1]],
                    AfterLine(buf))
      [] OTHER -> Outcome("kParseError", parser, buf)

\* The blank line behind the headers.
EndHeaders(parser, buf) ==
    IF "content-length" \notin DOMAIN parser.headers
    THEN Outcome("kParseOK", [parser EXCEPT !.status = "kParsingDone"], AfterLine(buf))
    ELSE LET length == parser.headers["content-length"]
         IN  IF length = NotANumber THEN Outcome("kParseError", parser, buf)
             ELSE Outcome("kParseOK",
                          [parser EXCEPT !.status = "kParsingRequestBody", !.length = length],
                          AfterLine(buf))

\* The first value of a key is kept.
AddHeader(headers, key, value) ==
    [k \in DOMAIN headers \cup {key} |-> IF k \in DOMAIN headers THEN headers[k] ELSE value]

\* A header line.
ReadRequestHeader(parser, buf) ==
    CASE find(buf) = -1 -> Outcome("kParseNeedMore", parser, buf)
      [] find(buf) = 0 -> EndHeaders(parser, buf)
      [] IsLine(buf, "header") ->
            Outcome("kParseOK",
                    [parser EXCEPT !.headers = AddHeader(@, buf[1].key, buf[1].value)],
                    AfterLine(buf))
      [] OTHER -> Outcome("kParseError", parser, buf)

\* The assertion ends the process.
ReadRequestBody(parser, buf) ==
    CASE parser.length = 0 -> Outcome("abort", parser, buf)
      [] parser.length > Len(buf) -> Outcome("kParseNeedMore", parser, buf)
      [] OTHER ->
            Outcome("kParseOK",
                    [parser EXCEPT !.status = "kParsingDone",
                                   !.body = SubSeq(buf, 1, parser.length)],
                    SubSeq(buf, parser.length + 1, Len(buf)))

\* state->func
func(parser, buf) ==
    CASE parser.status = "kInit" -> StartParsing(parser, buf)
      [] parser.status = "kParsingRequestLine" -> ReadRequestLine(parser, buf)
      [] parser.status = "kParsingRequestHeader" -> ReadRequestHeader(parser, buf)
      [] parser.status = "kParsingRequestBody" -> ReadRequestBody(parser, buf)

-----------------------------------------------------------------------------
(* The grammar of a request, for the properties *)

\* The positions of the CRs that end a line of s.
LineEnds(s) == {i \in 1 .. Len(s) - 1 : s[i] = CR /\ s[i + 1] = LF}

\* The text of the line that ends at i.
Text(s, i) ==
    LET before == {e \in LineEnds(s) : e < i}
    IN  SubSeq(s, IF before = {} THEN 1 ELSE Max(before) + 2, i - 1)

\* The ends of the lines up to the first blank one, and that of the blank one.
HeadLines(s) == {i \in LineEnds(s) : \A j \in LineEnds(s) : j < i => Text(s, j) # << >>}
Blanks(s) == {i \in HeadLines(s) : Text(s, i) = << >>}

\* The value of the header key in s, the first one if there are more.
Values(s, key) ==
    {Text(s, i)[1].value : i \in
        {i \in HeadLines(s) \ Blanks(s) :
            /\ Text(s, i)[1].kind = "header" /\ Text(s, i)[1].key = key
            /\ \A j \in HeadLines(s) \ Blanks(s) :
                  j < i /\ Text(s, j)[1].kind = "header" => Text(s, j)[1].key # key}}

\* What is to become of a connection on which s has arrived.
Verdict(s) ==
    LET kindOf(i) == IF Len(Text(s, i)) = 1 THEN Text(s, i)[1].kind ELSE "bytes"
        wrong(i) == IF i = Min(LineEnds(s)) THEN kindOf(i) # "request"
                    ELSE Text(s, i) # << >> /\ kindOf(i) # "header"
    IN  IF \E i \in HeadLines(s) : wrong(i) THEN "error"
        ELSE IF Blanks(s) = {} THEN "more"
        ELSE IF NotANumber \in Values(s, "content-length") THEN "error"
        ELSE IF \E i \in Blanks(s), n \in Values(s, "content-length") :
                   i + 1 + n > Len(s)
        THEN "more" ELSE "done"

\* The length of the request at the start of s, when it is complete.
RequestLength(s) ==
    CHOOSE n \in 1 .. Len(s) :
        Verdict(SubSeq(s, 1, n)) = "done" /\ Verdict(SubSeq(s, 1, n - 1)) = "more"
=============================================================================
