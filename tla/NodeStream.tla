------------------------------- MODULE NodeStream -------------------------------
(***************************************************************************)
(* The text of a chat stream on Vercel, where the answer is not streamed   *)
(* by the Go server but by a port of it to Node (src/internal/js): how the *)
(* port reads DeepSeek's lines (chat-stream/sse_parse_impl.js), takes tool *)
(* calls out of the text (helpers/stream-tool-sieve) and tells the client  *)
(* (chat-stream/vercel_stream_impl.js).  The leases and the continuation   *)
(* of an answer are VercelStream's.                                        *)
(*                                                                         *)
(* Beside it a twin: the Go chat stream (httpapi/openai/chat,              *)
(* chat_stream_runtime.go) that reads the same lines.  Where the port does *)
(* what the original does it is the original's definition.                 *)
(***************************************************************************)
EXTENDS AnswerOutput

CONSTANTS
    NodeAsks,       \* the requests: whether thinking, search, tools are on
    NodeAnswers,    \* what DeepSeek may say: sequences of frames
    NodePieces      \* bound: text is cut only among an attempt's first frames

ASSUME NodeAssumption ==
    /\ NodeAsks \subseteq [thinking : BOOLEAN, search : BOOLEAN, tools : BOOLEAN]
    /\ NodeAnswers \subseteq Seq(Frames) /\ NodePieces \in Nat

VARIABLES
    nodeAsk,      \* the request
    nodeStage,    \* "opening", "reading", "retrying", "over"
    nodeLeft,     \* frames that are still to come
    nodeRead,     \* frames of this attempt that were read
    nodeRetries,  \* retryAttempts
    node,         \* the stream of the port
    twin          \* the stream of the Go server

nodeVars == <<nodeAsk, nodeStage, nodeLeft, nodeRead, nodeRetries, node, twin>>

NodeRetryMax == 1    \* EMPTY_OUTPUT_RETRY_MAX_ATTEMPTS

-----------------------------------------------------------------------------
(* Reading a line.  The markers of references go at once, and what a       *)
(* leaked CONTENT_FILTER cuts off goes before thinking is told apart.      *)

stripReferenceMarkersText(text) == Picked(text, LAMBDA t : t # "ref")
Stated(frag) == stripReferenceMarkersText(frag.text) # <<>>
asContentParts(parts) == Collected(parts, LAMBDA p : appendContentPart(<<>>, stripReferenceMarkersText(p.text), p.type))

\* A fragment without a text is passed over, its type with it.
NodeDirectFragments(frame) == IF IsDirect(frame) THEN Picked(frame.items, Stated) ELSE <<>>
NodeNestedType(frame, type) == updateTypeFromNestedResponse(frame, LastNamed(NodeDirectFragments(frame), type))
NodePartType(path, thinkingEnabled, type) == resolvePartType(path, thinkingEnabled, type)

\* Patches of a list.
extractContentRecursive(items, default) ==
    [parts |-> asContentParts(ItemsParts(items, default)), finished |-> ItemsFinish(items)]

NodeLeakedFilter(parts) ==
    Collected(parts, LAMBDA p : appendContentPart(<<>>, stripLeakedContentFilterSuffix(p.text), p.type))
NodeSplitThinking(parts) == splitThinkingParts(parts)
finalizeThinkingParts(split, thinkingEnabled, next) ==
    [parts |-> IF thinkingEnabled THEN split.parts ELSE dropThinkingParts(split.parts), finished |-> FALSE,
     type |-> IF split.over \/ ~thinkingEnabled THEN "text" ELSE next]
NodeParts(parts, thinkingEnabled, next) ==
    finalizeThinkingParts(NodeSplitThinking(NodeLeakedFilter(parts)), thinkingEnabled, next)
NodeNoParts(finished, next) == [parts |-> <<>>, finished |-> finished, type |-> next]

\* The value of a chunk: a text, a list, or a whole response.
NodeText(frame, direct, partType, type, thinkingEnabled) ==
    IF frame.text = FINISHED /\ frame.path \in {"", "status"} THEN NodeNoParts(TRUE, type)
    ELSE NodeParts(direct \o asContentParts(<<Part(frame.text, partType)>>), thinkingEnabled, type)
NodeItems(items, direct, type, thinkingEnabled) ==
    IF items.finished THEN NodeNoParts(TRUE, type) ELSE NodeParts(direct \o items.parts, thinkingEnabled, type)
NodeResponse(frags, partType, type, thinkingEnabled) ==
    NodeParts(asContentParts(OfFragments(frags, partType)), thinkingEnabled, LastNamed(frags, type))
NodeValue(frame, direct, partType, type, thinkingEnabled) ==
    CASE frame.is = "text"  -> NodeText(frame, direct, partType, type, thinkingEnabled)
      [] frame.is = "items" -> NodeItems(extractContentRecursive(frame.items, partType), direct, type, thinkingEnabled)
      [] OTHER -> NodeResponse(Picked(frame.items, Stated), partType, type, thinkingEnabled)
NodeOfType(frame, type, thinkingEnabled) ==
    NodeValue(frame, asContentParts(OfFragments(NodeDirectFragments(frame), "text")),
              NodePartType(frame.path, thinkingEnabled, type), type, thinkingEnabled)

parseChunkForContent(frame, thinkingEnabled, current) ==
    CASE shouldSkipPath(frame.path) \/ (frame.is = "none" /\ ~isStatusPath(frame.path)) -> NodeNoParts(FALSE, current)
      [] isStatusPath(frame.path) -> NodeNoParts(frame.text = FINISHED, current)
      [] OTHER -> NodeOfType(frame, NodeNestedType(frame, current), thinkingEnabled)

-----------------------------------------------------------------------------
(* The calls in a text.  A text whose every wrapper stands in a code fence *)
(* has none; any other is searched with its fences in it.                  *)

NodeFencesStripped(s) == stripFencedCodeBlocks(s)
looksLikeToolCallSyntax(s) == ContainsToolCallWrapperSyntax(s)
shouldSkipToolCallParsingForCodeFenceExample(s) ==
    looksLikeToolCallSyntax(s) /\ ~looksLikeToolCallSyntax(NodeFencesStripped(s))
findXmlElementBlocks(s, name) == findXMLElementBlocks(s, name)
parseMarkupToolCalls(s) == CallsOfWrappers(findXmlElementBlocks(s, "tool_calls"))
sanitizeLooseCDATA(s) == SanitizeLooseCDATA(Trim(s))
NodeRecovered(calls, s) == IF calls = 0 THEN parseMarkupToolCalls(sanitizeLooseCDATA(s)) ELSE calls
parseStandaloneToolCalls(s) ==
    IF shouldSkipToolCallParsingForCodeFenceExample(Trim(s)) THEN 0
    ELSE NodeRecovered(parseMarkupToolCalls(Trim(s)), Trim(s))

-----------------------------------------------------------------------------
(* The sieve, with the state of ToolSieve.  The scanners for tags trim the *)
(* text and answer with places in the trimmed text, which are then used as *)
(* places in the text itself: each line break it begins with moves a cut   *)
(* one character to the left.  Here a token that stands for one character  *)
(* is moved as a whole, and a cut in the closing tag breaks it in two.     *)

NodeSieve == NewSieve

WithoutLead(s) == WithoutStartLines(s)
Lead(s) == Len(s) - Len(WithoutLead(s))

findToolMarkupTagOutsideIgnored(s) == FindToolMarkupTags(WithoutLead(s))
insideCodeFence(st, s) == simulateCodeFenceState(st.fences, s).stack # <<>>
findToolSegmentStart_js(st, s) ==
    LeastOrZero({i \in {t.at : t \in findToolMarkupTagOutsideIgnored(s)} : ~insideCodeFence(st, SubSeq(s, 1, i - 1))})

findPartialToolMarkupStart(s) == IF Trim(s) # <<>> /\ Trim(s)[Len(Trim(s))] = "tc1" THEN Len(Trim(s)) ELSE 0
\* As it should not be: nothing is held back.
splitAllSafe(st, s) == Len(s)
splitSafeContent(st, s) ==
    LET at == findPartialToolMarkupStart(s)
    IN  IF at > 0 /\ ~insideCodeFence(st, SubSeq(s, 1, at - 1)) THEN at - 1 ELSE Len(s)

\* The block from one place to another, with the calls in it; opening stands
\* before it when its own is missing.
WholeBlock(s, at, end, opening) ==
    BlockOf(s, at, end, [calls |-> parseStandaloneToolCalls(opening \o SubSeq(s, at, end)), saw |-> FALSE])
BrokenBlock(s, at, end) ==
    [at |-> at, before |-> SubSeq(s, 1, at - 1), text |-> SubSeq(s, at, end - 1) \o <<"/t">>,
     after |-> <<"c>">> \o From(s, end + 1), parsed |-> [calls |-> 0, saw |-> FALSE]]
NodeBlock(s, at, end, opening) == IF Lead(s) = 0 THEN WholeBlock(s, at, end, opening) ELSE BrokenBlock(s, at, end)

NodeWrappers(s) == {NodeBlock(s, p[1].at, p[2].end, <<>>) : p \in Spans(s, "tool_calls")}
NodeBareInvokes(s) ==
    UNION {{NodeBlock(s, i.at, c.end, <<"tc1", "tc2">>) : c \in FirstNamed(s, "tool_calls", TRUE, i.at + 1)} :
              i \in FirstNamed(s, "invoke", FALSE, 1)}
consumeXMLToolCapture_js(s) ==
    IF OpenWrappers(s) # {} THEN JudgeWrappers({t.at : t \in OpenWrappers(s)}, NodeWrappers(s))
    ELSE JudgeBareInvokes(NodeBareInvokes(s))
hasOpenXMLToolTag_js(s) == hasOpenXMLToolTag(s)

NodeOrHeld(s, judged) ==
    IF judged.ready THEN judged ELSE IF hasOpenXMLToolTag_js(s) THEN NotReady ELSE Judged(s, 0, <<>>)
consumeToolCapture_js(s) == IF s = <<>> THEN NotReady ELSE NodeOrHeld(s, consumeXMLToolCapture_js(s))

\* Calls are passed on as soon as they are found.
NodeSiftStep(st) ==
    CASE st.calls > 0 -> PassCalls(st)
      [] st.calls = 0 /\ st.capturing ->
            Captured(st, st.capture \o st.pending, consumeToolCapture_js(st.capture \o st.pending))
      [] st.calls = 0 /\ ~st.capturing /\ st.pending # <<>> ->
            Scanned(st, st.pending, findToolSegmentStart_js(st, st.pending), splitSafeContent(st, st.pending))
      [] OTHER -> st
\* One step more for each call that is passed on.
NodeSteps(st) == 2 * Steps(st)
NodeSift(st) ==
    LET upTo[n \in 0..NodeSteps(st)] ==
            IF n = 0 THEN Stepped(st, NodeSiftStep(st))
            ELSE LET at == upTo[n - 1] IN IF at.waits THEN at ELSE Stepped(at.sieve, NodeSiftStep(at.sieve))
    IN  upTo[NodeSteps(st)].sieve
processToolSieveChunk(st, chunk) == NodeSift([st EXCEPT !.events = <<>>, !.pending = @ \o chunk])

NodeOrRecovered(st, again) == IF again.ready /\ again.calls > 0 THEN LetOut(st, again) ELSE EmitText(st, st.capture)
NodeFlushCapture(st, judged) ==
    IF judged.ready THEN LetOut(st, judged)
    ELSE IF sanitizeLooseCDATA(st.capture) = st.capture THEN EmitText(st, st.capture)
    ELSE NodeOrRecovered(st, consumeXMLToolCapture_js(sanitizeLooseCDATA(st.capture)))
NodeFlushed(st) == PendingOut(IF st.capturing THEN NodeFlushCapture(st, consumeToolCapture_js(st.capture)) ELSE st)
flushToolSieve(st) == NodeFlushed(processToolSieveChunk(st, <<>>))

-----------------------------------------------------------------------------
(* What the client is told: the text, and "call" for each call.            *)

NewStream(thinkingEnabled) ==
    [sieve |-> NodeSieve, type |-> InitialType(thinkingEnabled), thinking |-> <<>>, text |-> <<>>, raw |-> <<>>,
     rawThinking |-> <<>>, detection |-> <<>>, told |-> <<>>, done |-> FALSE, ended |-> ""]

Calls(n) == [i \in 1..n |-> "call"]
TellCalls(r, n) == IF n = 0 THEN r ELSE [r EXCEPT !.told = @ \o Calls(n), !.done = TRUE]
TellText(r, text) == [r EXCEPT !.told = @ \o text]

trimContinuationOverlap(existing, incoming) == TrimContinuationOverlap(existing, incoming)

NodeOnEvent(r, e) == IF e.calls > 0 THEN TellCalls(r, e.calls) ELSE TellText(r, e.text)
NodeSifted(r, sieve) == Over(sieve.events, [r EXCEPT !.sieve = sieve], NodeOnEvent)
NodeThinking(r, new) == [r EXCEPT !.thinking = @ \o new]
NodeNewText(r, new, req) ==
    IF new = <<>> \/ (req.search /\ IsCitation(new)) THEN r
    ELSE IF req.tools THEN NodeSifted([r EXCEPT !.text = @ \o new], processToolSieveChunk(r.sieve, new))
    ELSE TellText([r EXCEPT !.text = @ \o new], new)
NodePart(r, p, req) ==
    IF p.type = "thinking" THEN NodeThinking(r, trimContinuationOverlap(r.thinking, p.text))
    ELSE NodeNewText(r, trimContinuationOverlap(r.text, p.text), req)
NodeLine(r, chunk, req) == Over(chunk.parts, [r EXCEPT !.type = chunk.type], LAMBDA s, p : NodePart(s, p, req))

\* As it should not be: any attempt without a call is tried again.
EndOfUncalled(r, calls, text, reason, deferEmpty) ==
    CASE calls > 0 \/ r.done -> [r EXCEPT !.ended = "tool_calls"]
      [] OTHER -> IF deferEmpty /\ reason # "content_filter" THEN r ELSE [r EXCEPT !.ended = reason]
\* The end of an attempt, or the reason why it has none yet.
EndOf(r, calls, text, reason, deferEmpty) ==
    CASE calls > 0 \/ r.done -> [r EXCEPT !.ended = "tool_calls"]
      [] calls = 0 /\ ~r.done /\ ~Blank(text) -> [r EXCEPT !.ended = reason]
      [] OTHER -> IF deferEmpty /\ reason # "content_filter" THEN r
                  ELSE [r EXCEPT !.ended = UpstreamEmptyOutputDetail(reason = "content_filter").code]
NodeDetected(r, detected, tools) ==
    IF detected > 0 /\ ~r.done THEN TellCalls(r, detected)
    ELSE IF tools THEN NodeSifted(r, flushToolSieve(r.sieve)) ELSE r
NodeFinish(r, reason, deferEmpty, req) ==
    EndOf(NodeDetected(r, parseStandaloneToolCalls(r.text), req.tools), parseStandaloneToolCalls(r.text), r.text,
          reason, deferEmpty)

-----------------------------------------------------------------------------
(* The Go stream.                                                          *)

GoShown(clean, req) == IF req.search /\ IsCitation(clean) THEN <<>> ELSE clean
GoOnEvent(r, e, req) ==
    IF e.calls > 0 THEN TellCalls(r, e.calls) ELSE TellText(r, GoShown(CleanVisibleOutput(e.text, TRUE), req))
GoSifted(r, sieve, req) == Over(sieve.events, [r EXCEPT !.sieve = sieve], LAMBDA s, e : GoOnEvent(s, e, req))
GoThinking(r, new, req) ==
    [r EXCEPT !.rawThinking = @ \o new,
              !.thinking = IF req.thinking THEN AddTo(@, CleanVisibleOutput(new, TRUE)) ELSE @]
GoDelta(r, raw, new, req) ==
    IF req.tools THEN GoSifted([r EXCEPT !.text = @ \o new], ProcessChunk(r.sieve, raw), req)
    ELSE TellText([r EXCEPT !.text = @ \o new], new)
GoClean(r, raw, clean, req) ==
    IF req.search /\ IsCitation(clean) THEN r ELSE GoDelta(r, raw, TrimContinuationOverlap(r.text, clean), req)
GoNewText(r, raw, req) ==
    IF raw = <<>> THEN r ELSE GoClean([r EXCEPT !.raw = @ \o raw], raw, CleanVisibleOutput(raw, TRUE), req)
GoPart(r, p, req) ==
    IF p.type = "thinking" THEN GoThinking(r, TrimContinuationOverlap(r.rawThinking, p.text), req)
    ELSE GoNewText(r, TrimContinuationOverlap(r.raw, p.text), req)
GoLine(r, line, req) ==
    Over(line.parts, [r EXCEPT !.type = line.type,
                               !.detection = Over(line.detection, @, LAMBDA t, p : AddTo(t, p.text))],
         LAMBDA s, p : GoPart(s, p, req))

GoDetected(r, detected, req) ==
    IF detected > 0 /\ ~r.done THEN TellCalls(r, detected)
    ELSE IF req.tools THEN GoSifted(r, Flush(r.sieve), req) ELSE r
GoConclude(r, detected, text, reason, deferEmpty, req) ==
    EndOf(GoDetected(r, detected, req), detected, text, reason, deferEmpty)
GoFinish(r, reason, deferEmpty, req) ==
    GoConclude(r, DetectAssistantToolCalls(r.raw, CleanVisibleOutput(r.text, TRUE), r.rawThinking, r.detection),
               CleanVisibleOutput(r.text, TRUE), reason, deferEmpty, req)

-----------------------------------------------------------------------------
(* Actions.                                                                *)

NodeInit ==
    /\ nodeAsk \in NodeAsks /\ nodeStage = "opening" /\ nodeLeft = <<>> /\ nodeRead = <<>> /\ nodeRetries = 0
    /\ node = NewStream(nodeAsk.thinking) /\ twin = NewStream(nodeAsk.thinking)

NodeOpens ==
    /\ nodeStage = "opening" /\ nodeStage' = "reading" /\ nodeLeft' \in NodeAnswers
    /\ UNCHANGED <<nodeAsk, nodeRead, nodeRetries, node, twin>>

\* Data lines that do not end the answer; others are passed over.
Ends(frame) == \/ frame.kind \in {"done", "error", "filter"}
               \/ frame.kind = "chunk" /\ parseChunkForContent(frame, nodeAsk.thinking, node.type).finished
NodeReadsFrame(frame) ==
    /\ ~Ends(frame)
    /\ node' = IF frame.kind = "junk" THEN node
               ELSE NodeLine(node, parseChunkForContent(frame, nodeAsk.thinking, node.type), nodeAsk)
    /\ twin' = IF frame.kind = "junk" THEN twin
               ELSE GoLine(twin, ParseDeepSeekContentLine(frame, nodeAsk.thinking, twin.type), nodeAsk)
    /\ nodeRead' = Append(nodeRead, frame)

\* The first n tokens of the next frame's text come in a line of their own.
Piece(n) == [Head(nodeLeft) EXCEPT !.text = SubSeq(@, 1, n)]
After(n) == IF n = Len(Head(nodeLeft).text) THEN Tail(nodeLeft)
            ELSE <<[Head(nodeLeft) EXCEPT !.text = From(@, n + 1)]>> \o Tail(nodeLeft)
NodeReads ==
    /\ nodeStage = "reading" /\ nodeLeft # <<>>
    /\ \E n \in 1..Len(Head(nodeLeft).text) \union {Len(Head(nodeLeft).text)} :
          /\ n = Len(Head(nodeLeft).text) \/ Len(nodeRead) < NodePieces
          /\ NodeReadsFrame(Piece(n)) /\ nodeLeft' = After(n)
    /\ UNCHANGED <<nodeAsk, nodeStage, nodeRetries>>

Defers == nodeRetries < NodeRetryMax
\* Why the answer ends, and whether an empty one may be tried again.
Finishes(reason, defers) ==
    /\ node' = NodeFinish(node, reason, defers, nodeAsk)
    /\ twin' = GoFinish(twin, reason, Defers /\ reason # "content_filter", nodeAsk)
    /\ nodeStage' = IF node'.ended = "" THEN "retrying" ELSE "over"
    /\ nodeLeft' = <<>> /\ UNCHANGED <<nodeAsk, nodeRead, nodeRetries>>

ReasonOf(frame) ==
    CASE frame.kind = "error" -> "content_filter"
      [] frame.kind = "filter" -> IF Blank(node.text) THEN "content_filter" ELSE "stop"
      [] OTHER -> "stop"
NodeEnds ==
    /\ nodeStage = "reading"
    /\ \/ nodeLeft = <<>> /\ Finishes("stop", Defers)
       \/ /\ nodeLeft # <<>> /\ Ends(Head(nodeLeft))
          /\ Finishes(ReasonOf(Head(nodeLeft)), Defers /\ Head(nodeLeft).kind \notin {"error", "filter"})

\* Reading fails: the port finishes with what it has, and does not try again.
NodeBreaks == nodeStage = "reading" /\ Finishes("stop", FALSE)

\* The type of the text goes on from one attempt to the next.
NodeRetries ==
    /\ nodeStage = "retrying" /\ nodeRetries' = nodeRetries + 1 /\ nodeRead' = <<>>
    /\ \/ nodeStage' = "reading" /\ nodeLeft' \in NodeAnswers
          /\ twin' = [twin EXCEPT !.type = InitialType(nodeAsk.thinking)] /\ UNCHANGED node
       \/ nodeStage' = "over" /\ nodeLeft' = <<>>
          /\ node' = NodeFinish(node, "stop", FALSE, nodeAsk) /\ UNCHANGED twin
    /\ UNCHANGED nodeAsk

NodeNext == NodeOpens \/ NodeReads \/ NodeEnds \/ NodeBreaks \/ NodeRetries

NodeSpec == NodeInit /\ [][NodeNext]_nodeVars
-----------------------------------------------------------------------------
\* The state of the two streams has its type: no thinking is kept that was not asked
\* for, an attempt that ended ended in one of the known ways, and one retry is all.
NodeTypeOK ==
    /\ nodeAsk \in NodeAsks /\ nodeRetries \in 0..NodeRetryMax
    /\ nodeStage \in {"opening", "reading", "retrying", "over"}
    /\ \A r \in {node, twin} :
          /\ r.ended \in {"", "stop", "tool_calls", "content_filter", "upstream_empty_output"}
          /\ r.type \in {"thinking", "text"} /\ (~nodeAsk.thinking => r.thinking = <<>>)
          /\ r.sieve.calls \in Nat

\* An answer is tried again only while the client of the port was shown nothing but
\* line breaks, neither text nor a call: what one attempt said is never repeated by
\* the next, and nothing that the sieve held back is lost between them.
RetriesInSilence ==
    nodeStage = "retrying" => Blank(node.told \o node.sieve.capture \o node.sieve.pending) /\ ~node.done

\* Where the port is known to read unlike the original: tool markup that is not
\* that of a call, calls in the thinking or without tools, and a piece of text
\* that begins with a line break.  When the last piece ends a call the Go server
\* tells the calls at the end, and never what the sieve held back behind them.
BeginsWithLineBreak == \E i \in DOMAIN nodeRead : \E s \in TextsOf(nodeRead[i]) : s # <<>> /\ s[1] = "nl"
OddMarkup(s) ==
    \/ \E p \in Spans(s, "tool_calls") : ParseStandaloneToolCallsDetailed(SubSeq(s, p[1].at, p[2].end)).calls = 0
    \/ \E t \in FindToolMarkupTags(s) : ~\E w \in OpenWrappers(s) : w.at <= t.at
Withheld == twin.sieve.calls > 0 /\ (twin.sieve.pending # <<>> \/ twin.sieve.capture # <<>>)
Comparable ==
    /\ ~Withheld /\ ~BeginsWithLineBreak /\ ~OddMarkup(twin.raw)
    /\ FindToolMarkupTags(twin.detection) = {} /\ (FindToolMarkupTags(twin.raw) # {} => nodeAsk.tools)

\* What is compared of what a client is told.
ToldCalls(r) == Len(SelectSeq(r.told, LAMBDA t : t = "call"))
\* The Go server takes whole wrappers out of the pieces of an example in a fence.
Markup == {"tc1", "tc2", "inv", "par", "json", "/inv", "/tc"}
Example(s) == \E i \in DOMAIN s : s[i] \in FenceMarks
ToldText(r) == SelectSeq(r.told, LAMBDA t : t # "call" /\ ~(Example(twin.raw) /\ t \in Markup))

\* However DeepSeek cuts its answer and wherever it ends, the client of the port
\* is told what the client of the Go server is: the same thinking, the same text,
\* as many calls, and the same end.  (A call found amid a piece of text is told
\* before the rest of it by one and after it by the other.)  The port gives up on
\* an empty answer that could not be read to its end.
NodeTellsTheSame ==
    (nodeStage \in {"retrying", "over"} /\ nodeRetries = 0 /\ Comparable) =>
        /\ ToldText(node) = ToldText(twin) /\ ToldCalls(node) = ToldCalls(twin) /\ node.thinking = twin.thinking
        /\ node.ended = twin.ended \/ (node.ended = "upstream_empty_output" /\ twin.ended = "")
===============================================================================
