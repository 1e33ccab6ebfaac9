------------------------------ MODULE AnswerText ------------------------------
(***************************************************************************)
(* The text of a model's answer and the tool calls in it                   *)
(* (src/internal/toolcall).  A text is a sequence of tokens, each standing *)
(* for the characters the scanners look for:                               *)
(*                                                                         *)
(*   "w"     a word                      "nl"    a line break              *)
(*   "fence" three backticks             "tilde" three tildes              *)
(*   "tc1"   <tool_                      "tc2"   calls>                    *)
(*   "/tc"   </tool_calls>               "json"  an object  {...}          *)
(*   "inv"   <invoke name="f">           "/inv"  </invoke>                 *)
(*   "par"   <parameter name="x">1</parameter>                             *)
(*   "cd"    <![CDATA[                   "]]"    ]]>                       *)
(*   "th"    <think>                     "/th"   </think>                  *)
(*   "cf"    CONTENT_FILTER              "cite"  [citation:1]              *)
(*                                                                         *)
(* The wrapper's opening tag is two tokens, so that a text can be cut in   *)
(* the middle of it.  The DSML spellings of the tags are aliases of these  *)
(* and the kinds of parameter values are abstracted: a call counts.        *)
(***************************************************************************)
EXTENDS Integers, Sequences, FiniteSets

Least(S) == CHOOSE x \in S : \A y \in S : x <= y
Greatest(S) == CHOOSE x \in S : \A y \in S : y <= x
From(s, i) == SubSeq(s, i, Len(s))
Without(s, i) == SubSeq(s, 1, i - 1) \o From(s, i + 1)

Between(s, places) == IF places = {} THEN <<>> ELSE SubSeq(s, Least(places), Greatest(places))
Trim(s) == Between(s, {i \in DOMAIN s : s[i] # "nl"})
Blank(s) == \A i \in DOMAIN s : s[i] = "nl"

-----------------------------------------------------------------------------
(* Tags.                                                                   *)

\* Inside a CDATA section, which an unclosed opening extends to the end.
ignored(s, i) == \E j \in 1..i : s[j] = "cd" /\ \A k \in j + 1..i - 1 : s[k] # "]]"

WrapperAt(s, i) == i < Len(s) /\ s[i] = "tc1" /\ s[i + 1] = "tc2"

scanToolMarkupTagAt(s, i) ==
    LET tag(n, name, closing) == {[at |-> i, end |-> i + n, name |-> name, closing |-> closing]}
    IN  CASE WrapperAt(s, i)  -> tag(1, "tool_calls", FALSE)
          [] s[i] = "/tc"     -> tag(0, "tool_calls", TRUE)
          [] s[i] = "inv"     -> tag(0, "invoke", FALSE)
          [] s[i] = "/inv"    -> tag(0, "invoke", TRUE)
          [] s[i] = "par"     -> tag(0, "parameter", FALSE)
          [] OTHER            -> {}

\* Every tag the search from the left finds, one after the other.
FindToolMarkupTags(s) == UNION {scanToolMarkupTagAt(s, i) : i \in {j \in DOMAIN s : ~ignored(s, j)}}

FirstOf(tags) == {t \in tags : \A u \in tags : t.at <= u.at}

\* Of the tags after an opening one, the first at which it is closed, if any.
Closing(later) ==
    LET depth(t) == 1 + Cardinality({u \in later : u.at < t.at /\ ~u.closing})
                      - Cardinality({u \in later : u.at <= t.at /\ u.closing})
    IN  FirstOf({t \in later : t.closing /\ depth(t) = 0})
FindMatchingToolMarkupClose(s, open) ==
    Closing({t \in FindToolMarkupTags(s) : t.at > open.end /\ t.name = open.name})

ContainsToolCallWrapperSyntax(s) == \E t \in FindToolMarkupTags(s) : t.name = "tool_calls"

-----------------------------------------------------------------------------
(* Parsing.                                                                *)

\* The outermost elements of a name, by their position, with their bodies.
Spans(s, name) == {p \in FindToolMarkupTags(s) \X FindToolMarkupTags(s) :
                     p[1].name = name /\ ~p[1].closing /\ p[2] \in FindMatchingToolMarkupClose(s, p[1])}
Outermost(spans) == {p \in spans : ~\E q \in spans : q[1].at < p[1].at /\ p[1].at < q[2].at}
findXMLElementBlocks(s, name) ==
    {[at |-> p[1].at, body |-> SubSeq(s, p[1].end + 1, p[2].at - 1)] : p \in Outermost(Spans(s, name))}

\* An invocation whose body is empty, an object, or has parameters.
parseSingleXMLToolCall(body) ==
    \/ Trim(body) \in {<<>>, <<"json">>}
    \/ \E i \in DOMAIN body : body[i] = "par" /\ ~ignored(body, i)

\* A missing opening wrapper is put before the first invocation.
Repaired(s, start) == SubSeq(s, 1, start - 1) \o <<"tc1", "tc2">> \o From(s, start)
repairMissingXMLToolCallsOpeningWrapper(s) ==
    IF /\ ~\E i \in DOMAIN s : WrapperAt(s, i)
       /\ \E i, j \in DOMAIN s : i < j /\ s[i] = "inv" /\ s[j] = "/tc"
    THEN Repaired(s, Least({i \in DOMAIN s : s[i] = "inv"})) ELSE s

CallsOfWrappers(wrappers) ==
    Cardinality(UNION {{<<w.at, b.at>> : b \in {c \in findXMLElementBlocks(w.body, "invoke") :
                                                  parseSingleXMLToolCall(c.body)}} : w \in wrappers})

\* How many calls a text holds.
OrRepaired(wrappers, s) ==
    IF wrappers # {} THEN wrappers
    ELSE findXMLElementBlocks(repairMissingXMLToolCallsOpeningWrapper(s), "tool_calls")
parseXMLToolCalls(s) == CallsOfWrappers(OrRepaired(findXMLElementBlocks(s, "tool_calls"), s))

\* An unclosed CDATA opening is dropped.
WithoutFirst(s, places) == IF places = {} THEN s ELSE Without(s, Least(places))
SanitizeLooseCDATA(s) ==
    WithoutFirst(s, {i \in DOMAIN s : s[i] = "cd" /\ \A k \in i + 1..Len(s) : s[k] # "]]"})

-----------------------------------------------------------------------------
(* Fenced blocks, line by line.                                            *)

FenceMarks == {"fence", "tilde"}
countLeadingFenceChars(line) ==
    Greatest({n \in 0..Len(line) : \A i \in 1..n : line[i] = line[1] /\ line[i] \in FenceMarks})

cdataStartsBeforeFence(line) ==
    \E i \in DOMAIN line : line[i] = "cd" /\ \A j \in 1..i : line[j] \notin FenceMarks
updateCDATAState(in, line) ==
    LET marks == {i \in DOMAIN line : line[i] \in {"cd", "]]"}}
    IN  IF marks = {} THEN in ELSE line[Greatest(marks)] = "cd"

isFenceClose(line, mark, length) ==
    LET n == countLeadingFenceChars(line)
    IN  n >= length /\ line[1] = mark /\ Blank(From(line, n + 1))

\* State of the walk: text kept, length kept before the open fence, the fence
\* (its kind and length, length 0 when there is none) and whether in CDATA.
FenceLine(line, at, n) ==
    CASE at.cdata \/ cdataStartsBeforeFence(line) ->
            [at EXCEPT !.kept = @ \o line, !.cdata = updateCDATAState(at.cdata, line)]
      [] ~at.cdata /\ ~cdataStartsBeforeFence(line) /\ at.length = 0 /\ n > 0 ->
            [at EXCEPT !.mark = line[1], !.length = n, !.before = Len(at.kept)]
      [] ~at.cdata /\ ~cdataStartsBeforeFence(line) /\ at.length = 0 /\ n = 0 ->
            [at EXCEPT !.kept = @ \o line]
      [] OTHER ->
            IF isFenceClose(line, at.mark, at.length) THEN [at EXCEPT !.length = 0] ELSE at
EndsALine(s, i) == s[i] = "nl" \/ i = Len(s)
LineTo(s, i) == SubSeq(s, Greatest({0} \union {j \in 1..i - 1 : s[j] = "nl"}) + 1, i)
AfterLine(line, at) == FenceLine(line, at, countLeadingFenceChars(line))
WalkLines(s, start) ==
    LET upTo[i \in 0..Len(s)] ==
            CASE i = 0 -> start
              [] i > 0 /\ EndsALine(s, i) -> AfterLine(LineTo(s, i), upTo[i - 1])
              [] OTHER -> upTo[i - 1]
    IN  upTo[Len(s)]

\* A fence that is left open hides all that follows it.
OutsideFence(at) == IF at.length > 0 THEN SubSeq(at.kept, 1, at.before) ELSE at.kept
stripFencedCodeBlocks(s) ==
    OutsideFence(WalkLines(s, [kept |-> <<>>, before |-> 0, mark |-> "fence", length |-> 0, cdata |-> FALSE]))

\* How many calls, and whether it looked like one.
OrSanitized(calls, s) == IF calls = 0 THEN parseXMLToolCalls(SanitizeLooseCDATA(s)) ELSE calls
CallsOutsideFences(s) == OrSanitized(parseXMLToolCalls(s), s)
Found(calls, looked) == [calls |-> calls, saw |-> calls > 0 \/ looked]
ParseStandaloneToolCallsDetailed(s) ==
    Found(CallsOutsideFences(Trim(stripFencedCodeBlocks(Trim(s)))), ContainsToolCallWrapperSyntax(s))
===============================================================================
