------------------------------- MODULE ToolSieve -------------------------------
(***************************************************************************)
(* The sieve that takes tool calls out of an answer while it is streamed   *)
(* (src/internal/toolstream).  Text comes in chunks cut anywhere; the      *)
(* sieve holds back what may become a call and lets the rest pass.         *)
(*                                                                         *)
(* Its state is a record                                                   *)
(*   pending   text not yet judged                                         *)
(*   capture   text since a call seemed to begin, while capturing          *)
(*   calls     calls found and not yet passed on (pendingToolCalls)        *)
(*   fences    the code fences that are open in the text passed so far     *)
(*   events    what this chunk lets out: texts, and counts of calls        *)
(***************************************************************************)
EXTENDS AnswerText

-----------------------------------------------------------------------------
(* Code fences of the text that was passed.                                *)

NoFences == [stack |-> <<>>, ticks |-> 0, tildes |-> 0, lineStart |-> TRUE]

Magnitude(n) == IF n < 0 THEN -n ELSE n
applyFenceMarker(stack, marker) ==
    LET top == stack[Len(stack)]
    IN  IF stack # <<>> /\ (top > 0) = (marker > 0) /\ Magnitude(marker) >= Magnitude(top)
        THEN SubSeq(stack, 1, Len(stack) - 1) ELSE Append(stack, marker)

flushPending(f) ==
    IF f.ticks = 0 /\ f.tildes = 0 THEN f
    ELSE [stack |-> IF f.lineStart THEN applyFenceMarker(f.stack, f.ticks - f.tildes) ELSE f.stack,
          ticks |-> 0, tildes |-> 0, lineStart |-> FALSE]

FenceStep(f, token) ==
    CASE token = "fence" -> LET g == IF f.tildes > 0 THEN flushPending(f) ELSE f IN [g EXCEPT !.ticks = @ + 1]
      [] token = "tilde" -> LET g == IF f.ticks > 0 THEN flushPending(f) ELSE f IN [g EXCEPT !.tildes = @ + 1]
      [] OTHER           -> [flushPending(f) EXCEPT !.lineStart = (token = "nl")]

simulateCodeFenceState(f, s) ==
    LET after[i \in 0..Len(s)] == IF i = 0 THEN f ELSE FenceStep(after[i - 1], s[i]) IN after[Len(s)]

insideCodeFenceWithState(st, s) == simulateCodeFenceState(st.fences, s).stack # <<>>

\* Text without a visible character is passed and not noted.
noteText(f, s) == IF Blank(s) THEN f ELSE simulateCodeFenceState(f, s)

EmitText(st, s) ==
    IF s = <<>> THEN st
    ELSE [st EXCEPT !.fences = noteText(@, s), !.events = Append(@, [text |-> s, calls |-> 0])]
EmitCalls(st, n) ==
    IF n = 0 THEN st ELSE [st EXCEPT !.events = Append(@, [text |-> <<>>, calls |-> n])]

-----------------------------------------------------------------------------
(* Judging a capture.  The result is [ready, prefix, calls, suffix].       *)

Judged(prefix, calls, suffix) == [ready |-> TRUE, prefix |-> prefix, calls |-> calls, suffix |-> suffix]
NotReady == [ready |-> FALSE, prefix |-> <<>>, calls |-> 0, suffix |-> <<>>]

\* A fence around nothing but the call goes with it.
WithoutEndLines(s)   == SubSeq(s, 1, Greatest({0} \union {i \in DOMAIN s : s[i] # "nl"}))
WithoutStartLines(s) == From(s, Least({i \in DOMAIN s : s[i] # "nl"} \union {Len(s) + 1}))
IsFenced(p, q) == /\ p # <<>> /\ p[Len(p)] = "fence" /\ q # <<>> /\ q[1] = "fence"
                  /\ Cardinality({i \in DOMAIN p : p[i] = "fence"}) % 2 = 1
trimWrappingJSONFence(prefix, calls, suffix) ==
    LET p == WithoutEndLines(prefix)
        q == WithoutStartLines(suffix)
    IN  IF IsFenced(p, q) THEN Judged(SubSeq(p, 1, Len(p) - 1), calls, From(q, 2)) ELSE Judged(prefix, calls, suffix)

\* A block of s, from one place to another, with what the parser makes of it.
BlockOf(s, at, end, parsed) == [at |-> at, before |-> SubSeq(s, 1, at - 1), text |-> SubSeq(s, at, end),
                                after |-> From(s, end + 1), parsed |-> parsed]
\* A block with calls becomes them; one that is none is dropped if it looked
\* like one, or else passes as text.
JudgeBlock(b) ==
    IF b.parsed.calls > 0 THEN trimWrappingJSONFence(b.before, b.parsed.calls, b.after)
    ELSE Judged(b.before \o (IF b.parsed.saw THEN <<>> ELSE b.text), 0, b.after)

OpenWrappers(s) == {t \in FindToolMarkupTags(s) : t.name = "tool_calls" /\ ~t.closing}
ClosedWrappers(s) ==
    {BlockOf(s, p[1].at, p[2].end, ParseStandaloneToolCallsDetailed(SubSeq(s, p[1].at, p[2].end))) :
        p \in Spans(s, "tool_calls")}
TheFirst(tags) == CHOOSE t \in tags : t \in FirstOf(tags)

\* The first wrapper that parses; else wait for one that is not closed; else
\* the first one.
JudgeWrappers(opens, closed) ==
    CASE \E b \in closed : b.parsed.calls > 0 -> JudgeBlock(TheFirst({b \in closed : b.parsed.calls > 0}))
      [] (\A b \in closed : b.parsed.calls = 0) /\ opens = {b.at : b \in closed} -> JudgeBlock(TheFirst(closed))
      [] OTHER -> NotReady

\* An invocation whose opening wrapper is missing, up to the closing one.
FirstNamed(s, name, closing, from) ==
    FirstOf({t \in FindToolMarkupTags(s) : t.name = name /\ t.closing = closing /\ t.at >= from})
BareInvokes(s) ==
    UNION {{BlockOf(s, i.at, c.end, ParseStandaloneToolCallsDetailed(<<"tc1", "tc2">> \o SubSeq(s, i.at, c.end))) :
               c \in FirstNamed(s, "tool_calls", TRUE, i.at + 1)} : i \in FirstNamed(s, "invoke", FALSE, 1)}
JudgeBareInvokes(blocks) == IF blocks = {} THEN NotReady ELSE JudgeBlock(TheFirst(blocks))

consumeXMLToolCapture(s) ==
    IF OpenWrappers(s) # {} THEN JudgeWrappers({t.at : t \in OpenWrappers(s)}, ClosedWrappers(s))
    ELSE JudgeBareInvokes(BareInvokes(s))

hasOpenXMLToolTag(s) == \E t \in OpenWrappers(s) : FindMatchingToolMarkupClose(s, t) = {}

shouldKeepBareInvokeCapture(s) ==
    \E i \in FirstNamed(s, "invoke", FALSE, 1) :
        /\ ~\E t \in FirstNamed(s, "tool_calls", FALSE, 1) : t.at <= i.at
        /\ \/ FirstNamed(s, "tool_calls", TRUE, i.at + 1) # {}
           \/ Blank(From(s, i.end + 1))
           \/ \E c \in FirstNamed(s, "invoke", TRUE, i.end + 1) : Blank(From(s, c.end + 1))
           \/ /\ FirstNamed(s, "invoke", TRUE, i.end + 1) = {}
              /\ Trim(From(s, i.end + 1))[1] \in {"par", "json"}

OrHeld(s, judged) ==
    IF judged.ready THEN judged
    ELSE IF hasOpenXMLToolTag(s) \/ shouldKeepBareInvokeCapture(s) THEN NotReady
    ELSE Judged(s, 0, <<>>)
consumeToolCapture(s) == IF s = <<>> THEN NotReady ELSE OrHeld(s, consumeXMLToolCapture(s))

-----------------------------------------------------------------------------
(* The sieve itself.                                                       *)

NewSieve == [pending |-> <<>>, capture |-> <<>>, capturing |-> FALSE, calls |-> 0,
             fences |-> NoFences, events |-> <<>>]

\* Where a call may begin, outside every fence; 0 when nowhere.
LeastOrZero(S) == IF S = {} THEN 0 ELSE Least(S)
findToolSegmentStart(st, s) ==
    LeastOrZero({i \in DOMAIN s : (WrapperAt(s, i) \/ s[i] = "inv")
                                  /\ ~insideCodeFenceWithState(st, SubSeq(s, 1, i - 1))})

\* As it should not be: nothing is held back.
splitNothingHeld(st, s) == Len(s)
\* How much may pass: all but the beginning of a tag at the very end.
splitSafeContentForToolDetection(st, s) ==
    IF s[Len(s)] = "tc1" /\ ~insideCodeFenceWithState(st, SubSeq(s, 1, Len(s) - 1)) THEN Len(s) - 1 ELSE Len(s)

\* A capture goes on, or is over with what it was judged to be.
Captured(st, s, judged) ==
    IF ~judged.ready THEN [st EXCEPT !.capture = s, !.pending = <<>>]
    ELSE [EmitText([st EXCEPT !.capture = <<>>, !.capturing = FALSE, !.pending = <<>>], judged.prefix)
             EXCEPT !.pending = judged.suffix, !.calls = IF judged.calls > 0 THEN judged.calls ELSE @]
\* A capture begins, or all that is safe passes.
Scanned(st, s, start, safe) ==
    IF start > 0 THEN [EmitText([st EXCEPT !.pending = <<>>], SubSeq(s, 1, start - 1))
                          EXCEPT !.capture = From(s, start), !.capturing = TRUE]
    ELSE IF safe = 0 THEN st ELSE EmitText([st EXCEPT !.pending = From(s, safe + 1)], SubSeq(s, 1, safe))
SiftStep(st) ==
    IF st.capturing THEN Captured(st, st.capture \o st.pending, consumeToolCapture(st.capture \o st.pending))
    ELSE IF st.pending = <<>> THEN st
    ELSE Scanned(st, st.pending, findToolSegmentStart(st, st.pending), splitSafeContentForToolDetection(st, st.pending))

\* Step by step until the text is used up, or waits.  Two steps let out at least
\* one token of it.
Steps(st) == 2 * (Len(st.capture) + Len(st.pending)) + 2
Stepped(st, next) == [sieve |-> next, waits |-> next = st]
Sift(st) ==
    LET upTo[n \in 0..Steps(st)] ==
            IF n = 0 THEN Stepped(st, SiftStep(st))
            ELSE LET at == upTo[n - 1] IN IF at.waits THEN at ELSE Stepped(at.sieve, SiftStep(at.sieve))
    IN  upTo[Steps(st)].sieve

PassCalls(st) == [EmitCalls(st, st.calls) EXCEPT !.calls = 0]

ProcessChunk(st, chunk) ==
    Sift(PassCalls([st EXCEPT !.events = <<>>, !.pending = @ \o chunk]))

\* What is still captured at the end is judged once more, and let out.
LetOut(st, j) == EmitText(EmitCalls(EmitText(st, j.prefix), j.calls), j.suffix)
OrSanitizedCapture(st, again) == IF again.ready /\ again.calls > 0 THEN LetOut(st, again) ELSE EmitText(st, st.capture)
FlushCapture(st, judged) ==
    IF judged.ready THEN LetOut(st, judged)
    ELSE IF SanitizeLooseCDATA(st.capture) = st.capture THEN EmitText(st, st.capture)
    ELSE OrSanitizedCapture(st, consumeXMLToolCapture(SanitizeLooseCDATA(st.capture)))

PendingOut(st) == [EmitText(st, st.pending) EXCEPT !.pending = <<>>, !.capture = <<>>, !.capturing = FALSE]
FlushSifted(st) == PendingOut(IF st.capturing THEN FlushCapture(st, consumeToolCapture(st.capture)) ELSE st)
Flush(st) == FlushSifted(PassCalls(ProcessChunk(st, <<>>)))
===============================================================================
