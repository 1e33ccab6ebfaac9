---------------------------- MODULE ResponsesStream ----------------------------
(***************************************************************************)
(* The OpenAI Responses endpoint (src/internal/httpapi/openai/responses):  *)
(* one request, streamed or not, from the upstream's answer to the events  *)
(* or the body the client gets, with the one retry an empty answer is      *)
(* given, and the store from which a finished response can be fetched by   *)
(* its id for a while.                                                     *)
(*                                                                         *)
(* The upstream says one of Answers, and cuts its text anywhere.  The      *)
(* account's lease and proof-of-work are RequestLease's; here the calls    *)
(* to DeepSeek succeed or fail.                                            *)
(***************************************************************************)
EXTENDS AnswerOutput

CONSTANTS
    Requests,    \* the requests made: records, see below
    Answers,     \* what the upstream may say: sequences of frames
    Owners,      \* the callers a response can belong to
    StoreTTL,    \* how long a response is kept
    MaxClock,    \* bound on the clock
    MaxPieces    \* bound: text is cut only among an attempt's first frames

\* A request: its owner, whether it is streamed, shows thinking, searches, has
\* tools and must call one.
Request == [owner : Owners, stream : BOOLEAN, thinking : BOOLEAN, search : BOOLEAN,
            tools : BOOLEAN, required : BOOLEAN]
ASSUME ResponsesAssumption ==
    /\ Requests \subseteq Request /\ Answers \subseteq Seq(Frames)
    /\ StoreTTL \in Nat \ {0} /\ MaxClock \in Nat /\ MaxPieces \in Nat

VARIABLES
    request,     \* the request
    stage,       \* "opening", "reading", "judging", "retrying", "over"
    left,        \* frames of this attempt that are still to come
    read,        \* frames of this attempt that were read
    retries,     \* retries made (attempts)
    rt,          \* the runtime of a streamed response
    whole,       \* of a response that is not streamed: thinking of its attempts
    reply,       \* what the client was sent last: a status and an output
    store,       \* the stored responses: an object and its deadline, by owner
    got,         \* the last answer of GetResponseByID
    clock

responsesVars == <<request, stage, left, read, retries, rt, whole, reply, store, got, clock>>

MaxRetries == 1
NoReply == [status |-> 0, text |-> <<>>, calls |-> 0]
NoOne == "no one"

-----------------------------------------------------------------------------
(* The runtime of a streamed response.  sent is the list of its events.    *)

NewRuntime == [
    sieve |-> NewSieve, rawThinking |-> <<>>, thinking |-> <<>>, detection |-> <<>>,
    rawText |-> <<>>, text |-> <<>>, visible |-> <<>>, id |-> 0, type |-> "text",
    functions |-> <<>>,                  \* item and index of the calls sent
    callsDone |-> FALSE,                 \* toolCallsDoneEmitted
    message |-> 0, index |-> -1, added |-> FALSE, part |-> FALSE,
    nextOutput |-> 0, nextItem |-> 1, sent |-> <<>>, terminal |-> FALSE]

Event(ev, item, index, text) == [ev |-> ev, item |-> item, index |-> index, text |-> text, output |-> {}]
sendEvent(r, ev, item, index, text) == [r EXCEPT !.sent = Append(@, Event(ev, item, index, text))]

\* As it should not be: the place of the message is given away again.
ensureMessageItemSharing(r) ==
    LET named == IF r.message > 0 THEN r ELSE [r EXCEPT !.message = r.nextItem, !.nextItem = @ + 1]
    IN  IF r.index >= 0 THEN named ELSE [named EXCEPT !.index = r.nextOutput]
ensureMessageItem(r) ==
    LET named == IF r.message > 0 THEN r ELSE [r EXCEPT !.message = r.nextItem, !.nextItem = @ + 1]
    IN  IF r.index >= 0 THEN named ELSE [named EXCEPT !.index = r.nextOutput, !.nextOutput = @ + 1]

ensureMessageItemAdded(r) ==
    LET m == ensureMessageItem(r)
    IN  IF r.added THEN r ELSE [sendEvent(m, "item.added", m.message, m.index, <<>>) EXCEPT !.added = TRUE]

ensureMessageContentPartAdded(r) ==
    LET m == ensureMessageItemAdded(r)
    IN  IF r.part THEN r ELSE [sendEvent(m, "part.added", m.message, m.index, <<>>) EXCEPT !.part = TRUE]

emitTextDelta(r, content) ==
    LET m == ensureMessageContentPartAdded(r)
    IN  IF content = <<>> THEN r
        ELSE [sendEvent(m, "text.delta", m.message, m.index, content) EXCEPT !.visible = @ \o content]

\* The part is closed for good; the item stays marked as added.
ClosePart(r) ==
    IF ~r.part THEN r
    ELSE [sendEvent(sendEvent(r, "text.done", r.message, r.index, r.visible), "part.done", r.message, r.index, r.visible)
             EXCEPT !.part = FALSE]
closeMessageItem(r) ==
    IF r.added THEN sendEvent(ClosePart(r), "item.done", r.message, r.index, r.visible) ELSE r

ensureFunctionItemAdded(r) ==
    [sendEvent(r, "item.added", r.nextItem, r.nextOutput, <<>>) EXCEPT
        !.functions = Append(@, [item |-> r.nextItem, index |-> r.nextOutput]),
        !.nextItem = @ + 1, !.nextOutput = @ + 1]

\* n calls, of which those that were sent already are passed over.
CallDone(r, f) == [sendEvent(sendEvent(r, "args.done", f.item, f.index, <<>>), "item.done", f.item, f.index, <<>>)
                      EXCEPT !.callsDone = TRUE]
NextCall(r) == CallDone(ensureFunctionItemAdded(r), [item |-> r.nextItem, index |-> r.nextOutput])
emitFunctionCallDoneEvents(r, n) ==
    Over([i \in 1..n |-> i], r, LAMBDA s, i : IF i <= Len(r.functions) THEN s ELSE NextCall(s))

resetStreamToolCallState(r) == [r EXCEPT !.functions = <<>>]

Shown(clean, req) == IF req.search /\ IsCitation(clean) THEN <<>> ELSE clean
OnEvent(r, e, req) ==
    IF e.calls > 0 THEN resetStreamToolCallState(emitFunctionCallDoneEvents(r, e.calls))
    ELSE emitTextDelta(r, Shown(CleanVisibleOutput(e.text, TRUE), req))
processToolStreamEvents(r, events, req) == Over(events, r, LAMBDA s, e : OnEvent(s, e, req))

failResponse(r) == [sendEvent(r, "failed", 0, 0, <<>>) EXCEPT !.terminal = TRUE]

-----------------------------------------------------------------------------
(* A line of the answer (onParsed).                                        *)

ReasoningDelta(r, new) ==
    IF new = <<>> THEN r ELSE [sendEvent(r, "reasoning.delta", 0, 0, new) EXCEPT !.thinking = @ \o new]
RawThinking(r, raw, req) ==
    LET kept == [r EXCEPT !.rawThinking = @ \o raw]
    IN  IF req.thinking THEN ReasoningDelta(kept, TrimContinuationOverlap(r.thinking, CleanVisibleOutput(raw, TRUE)))
        ELSE kept
OnThinking(r, part, req) == RawThinking(r, TrimContinuationOverlap(r.rawThinking, part.text), req)

Sifted(r, sieve, req) == processToolStreamEvents([r EXCEPT !.sieve = sieve], sieve.events, req)
TextDelta(r, raw, new, req) ==
    LET noted == [r EXCEPT !.text = @ \o new]
    IN  IF req.tools THEN Sifted(noted, ProcessChunk(r.sieve, raw), req) ELSE emitTextDelta(noted, new)
CleanText(r, raw, clean, req) ==
    LET kept == [r EXCEPT !.rawText = @ \o raw]
    IN  IF req.search /\ IsCitation(clean) THEN kept
        ELSE TextDelta(kept, raw, TrimContinuationOverlap(r.text, clean), req)
RawText(r, raw, req) == IF raw = <<>> THEN r ELSE CleanText(r, raw, CleanVisibleOutput(raw, TRUE), req)
OnText(r, part, req) == RawText(r, TrimContinuationOverlap(r.rawText, part.text), req)

onParsed(r, line, req) ==
    LET seen == [r EXCEPT !.type = line.type, !.id = IF line.id > 0 THEN line.id ELSE @,
                          !.detection = Over(line.detection, @, LAMBDA t, p : AddTo(t, p.text))]
    IN  Over(line.parts, seen, LAMBDA s, p :
                IF p.type = "thinking" THEN OnThinking(s, p, req) ELSE OnText(s, p, req))

-----------------------------------------------------------------------------
(* The end of an attempt (finalize).                                       *)

\* The items of the finished response: the message that was streamed, or else
\* what there is of text; and the calls.  A call has the item it was streamed
\* as, unless its state was reset.
CallItem(r, i) ==
    LET old == Len(r.functions)
        f == IF i <= old THEN r.functions[i] ELSE [item |-> r.nextItem + i - old - 1, index |-> r.nextOutput + i - old - 1]
    IN  [kind |-> "call", item |-> f.item, index |-> f.index, text |-> <<>>]
MessageItem(r, text) == [kind |-> "message", item |-> r.message, index |-> r.index, text |-> text]
OutputOf(r, calls, messages) == {CallItem(r, i) : i \in 1..calls} \union messages
WithMessage(r, named, calls) ==
    OutputOf(named, calls, {MessageItem(named, IF r.added THEN r.visible ELSE r.text)})
buildCompletedResponseObject(r, calls) ==
    IF r.added \/ calls = 0 THEN WithMessage(r, ensureMessageItem(r), calls) ELSE OutputOf(r, calls, {})

Complete(r, calls) ==
    [r EXCEPT !.sent = Append(@, [Event("completed", 0, 0, IF r.visible = <<>> /\ calls = 0 THEN r.text ELSE r.visible)
                                    EXCEPT !.output = buildCompletedResponseObject(r, calls)]),
              !.terminal = TRUE]

\* An attempt without text and calls is left open when it may be retried.
Conclude(r, text, calls, req, deferEmptyOutput) ==
    CASE req.required /\ calls = 0 -> failResponse(r)
      [] ~req.required /\ calls = 0 /\ Blank(text) -> IF deferEmptyOutput THEN r ELSE failResponse(r)
      [] OTHER -> Complete([r EXCEPT !.text = text], calls)
CloseAll(r, text, calls, req, deferEmptyOutput) ==
    Conclude(closeMessageItem(IF r.callsDone THEN r ELSE emitFunctionCallDoneEvents(r, calls)),
             text, calls, req, deferEmptyOutput)
Flushed(r, text, req, deferEmptyOutput) ==
    CloseAll(r, text, DetectAssistantToolCalls(r.rawText, text, r.rawThinking, r.detection), req, deferEmptyOutput)
finalize(r, req, deferEmptyOutput) ==
    Flushed(IF req.tools THEN Sifted(r, Flush(r.sieve), req) ELSE r, CleanVisibleOutput(r.text, TRUE),
            req, deferEmptyOutput)

Final(s) == s[Len(s)]

\* What the terminal event tells the client.
ReplyOf(r) == [status |-> IF Final(r.sent).ev = "completed" THEN 200 ELSE 500, text |-> Final(r.sent).text,
               calls |-> Cardinality({i \in Final(r.sent).output : i.kind = "call"})]

-----------------------------------------------------------------------------
(* The store (response_store.go).                                          *)

\* As it should not be: the last moment of a response is cut off.
sweepLockedEarly(s) == {x \in s : clock < x.deadline}
sweepLocked(s) == {x \in s : clock <= x.deadline}
put(owner, object) == store' = {x \in sweepLocked(store) : x.owner # owner}
                               \union {[owner |-> owner, object |-> object, deadline |-> clock + StoreTTL]}

-----------------------------------------------------------------------------
(* Actions.                                                                *)

ResponsesInit ==
    /\ request \in Requests /\ stage = "opening"
    /\ left = <<>> /\ read = <<>> /\ retries = 0
    /\ rt = NewRuntime /\ whole = [thinking |-> <<>>, detection |-> <<>>]
    /\ reply = NoReply /\ store = {} /\ clock = 0
    /\ got = [owner |-> NoOne, object |-> NoReply]

Fail(status) == stage' = "over" /\ reply' = [NoReply EXCEPT !.status = status]

\* The session, the proof-of-work or the completion fails, or is refused.
OpenFails ==
    /\ stage = "opening" /\ Fail(500)
    /\ UNCHANGED <<request, left, read, retries, rt, whole, store, got, clock>>

Opens ==
    /\ stage = "opening" /\ stage' = "reading"
    /\ left' \in Answers
    /\ rt' = IF request.stream
             THEN [sendEvent(rt, "created", 0, 0, <<>>) EXCEPT !.type = InitialType(request.thinking)] ELSE rt
    /\ UNCHANGED <<request, read, retries, whole, reply, store, got, clock>>

\* The next frame, or the first n tokens of its text.
NextPiece(n) == IF n = Len(Head(left).text) THEN Head(left) ELSE [Head(left) EXCEPT !.text = SubSeq(@, 1, n)]
Rest(n) == IF n = Len(Head(left).text) THEN Tail(left)
           ELSE <<[Head(left) EXCEPT !.text = From(@, n + 1)]>> \o Tail(left)

\* The consume loop reads a line; one that ends the answer leads to finalize.
ReadsOn(line, n) ==
    /\ ~line.stop
    /\ rt' = IF line.parsed THEN onParsed(rt, line, request) ELSE rt
    /\ read' = Append(read, NextPiece(n)) /\ left' = Rest(n)
LineOf(frame) == ParseDeepSeekContentLine(frame, request.thinking, rt.type)
ReadLine ==
    /\ stage = "reading" /\ request.stream /\ left # <<>>
    /\ \E n \in 1..Len(Head(left).text) \union {Len(Head(left).text)} :
          /\ n = Len(Head(left).text) \/ Len(read) < MaxPieces
          /\ ReadsOn(LineOf(NextPiece(n)), n)
    /\ UNCHANGED <<request, stage, retries, whole, reply, store, got, clock>>

\* The attempt ends: with a line that says so, with the end of the upstream's
\* answer, or because nothing came for too long or the client is gone.
EndsWith(end) ==
    /\ rt' = end
    /\ IF end.terminal
       THEN stage' = "over" /\ reply' = ReplyOf(end) /\ put(request.owner, ReplyOf(end))
       ELSE stage' = "retrying" /\ UNCHANGED <<reply, store>>
EndOfAttempt(filtered) == EndsWith(finalize(rt, request, ~filtered /\ retries < MaxRetries))

EndsByLine(line) == line.stop /\ EndOfAttempt(line.filter \/ line.error)
ReadEnd ==
    /\ stage = "reading" /\ request.stream /\ left # <<>>
    /\ EndsByLine(LineOf(Head(left)))
    /\ read' = Append(read, Head(left)) /\ left' = <<>>
    /\ UNCHANGED <<request, retries, whole, got, clock>>

BreaksOff ==
    /\ stage = "reading" /\ request.stream /\ EndOfAttempt(FALSE)
    /\ left' = <<>>
    /\ UNCHANGED <<request, read, retries, whole, got, clock>>

\* The retry asks again in the same session.  Everything said so far is kept.
RetryOpens ==
    /\ stage = "retrying" /\ stage' = "reading"
    /\ retries' = retries + 1 /\ left' \in Answers /\ read' = <<>>
    /\ rt' = [rt EXCEPT !.type = InitialType(request.thinking)]
    /\ UNCHANGED <<request, whole, reply, store, got, clock>>

RetryFails ==
    /\ stage = "retrying" /\ retries' = retries + 1 /\ stage' = "over"
    /\ IF request.stream
       THEN rt' = failResponse(rt) /\ reply' = ReplyOf(rt') /\ put(request.owner, ReplyOf(rt'))
       ELSE reply' = [NoReply EXCEPT !.status = 500] /\ UNCHANGED <<rt, store>>
    /\ UNCHANGED <<request, left, read, whole, got, clock>>

-----------------------------------------------------------------------------
(* A response that is not streamed.                                        *)

\* What an attempt amounts to, the thinking of earlier ones (before) with its own.
WithCalls(text, rawText, filter, thinking, detection) ==
    [text |-> text, filter |-> filter, thinking |-> thinking, detection |-> detection,
     calls |-> DetectAssistantToolCalls(rawText, text, thinking, detection)]
Linked(text, links, req) == IF req.search THEN ReplaceCitationMarkersWithLinks(text, links) ELSE text
OfAttempt(all, req, before) ==
    WithCalls(Linked(CleanVisibleOutput(all.text, TRUE), all.links, req), all.text, all.filter,
              AddTo(before.thinking, all.thinking), AddTo(before.detection, all.detection))
Collect(frames, req, before) == OfAttempt(CollectStream(frames, req.thinking), req, before)

shouldRetryResponsesNonStream(c) == retries < MaxRetries /\ ~c.filter /\ c.calls = 0 /\ Blank(c.text)

finishResponsesNonStreamResult(c) ==
    CASE c.calls = 0 /\ c.text = <<>> ->
            reply' = [NoReply EXCEPT !.status = UpstreamEmptyOutputDetail(c.filter).status] /\ UNCHANGED store
      [] ~(c.calls = 0 /\ c.text = <<>>) /\ request.required /\ c.calls = 0 ->
            reply' = [NoReply EXCEPT !.status = 422] /\ UNCHANGED store
      [] OTHER ->
            LET object == [status |-> 200, text |-> IF c.calls > 0 THEN <<>> ELSE c.text, calls |-> c.calls]
            IN  reply' = object /\ put(request.owner, object)

EndsAttempt(c) ==
    /\ whole' = [thinking |-> c.thinking, detection |-> c.detection]
    /\ IF shouldRetryResponsesNonStream(c)
       THEN stage' = "retrying" /\ UNCHANGED <<reply, store>>
       ELSE stage' = "over" /\ finishResponsesNonStreamResult(c)
CollectAttempt ==
    /\ stage = "reading" /\ ~request.stream
    /\ EndsAttempt(Collect(left, request, whole))
    /\ read' = left /\ left' = <<>>
    /\ UNCHANGED <<request, retries, rt, got, clock>>

-----------------------------------------------------------------------------
\* Any caller asks for the response by its id.
GetResponseByID(owner) ==
    LET fresh == sweepLocked(store)
        mine  == {x \in fresh : x.owner = owner}
    IN  /\ stage = "over" /\ store' = fresh
        /\ got' = [owner |-> owner, object |-> IF mine = {} THEN NoReply ELSE (CHOOSE x \in mine : TRUE).object]
        /\ UNCHANGED <<request, stage, left, read, retries, rt, whole, reply, clock>>

Tick ==
    /\ stage = "over" /\ clock < MaxClock /\ clock' = clock + 1
    /\ got' = [owner |-> NoOne, object |-> NoReply]
    /\ UNCHANGED <<request, stage, left, read, retries, rt, whole, reply, store>>

ResponsesNext ==
    \/ OpenFails \/ Opens \/ ReadLine \/ ReadEnd \/ BreaksOff
    \/ RetryOpens \/ RetryFails \/ CollectAttempt
    \/ \E owner \in Owners : GetResponseByID(owner)
    \/ Tick

ResponsesSpec == ResponsesInit /\ [][ResponsesNext]_responsesVars
-----------------------------------------------------------------------------
\* The state of the request, its stream and the store has its type.
ResponsesTypeOK ==
    /\ request \in Requests /\ retries \in 0..MaxRetries /\ clock \in 0..MaxClock
    /\ stage \in {"opening", "reading", "retrying", "over"}
    /\ rt.message < rt.nextItem /\ rt.index < rt.nextOutput
    /\ rt.added => rt.message > 0 /\ rt.index >= 0
    /\ \A i \in DOMAIN rt.functions : rt.functions[i].item < rt.nextItem /\ rt.functions[i].index < rt.nextOutput
    /\ \A x \in store : x.owner \in Owners /\ x.deadline \in 1..MaxClock + StoreTTL

Answered == stage = "over" /\ request.stream /\ reply.status = 200

Sent(ev) == {i \in DOMAIN rt.sent : rt.sent[i].ev = ev}
SentOf(item, ev) == {i \in Sent(ev) : rt.sent[i].item = item}
Items == {rt.sent[i].item : i \in DOMAIN rt.sent} \ {0}
Streamed == Collected(rt.sent, LAMBDA e : IF e.ev = "text.delta" THEN e.text ELSE <<>>)

\* What the sieve is known to read unlike the parser of the whole text: a chunk
\* of nothing but line breaks, which it does not note; two wrapped calls that end
\* in one chunk; and a call without its opening after a wrapper that has one.
Misread ==
    LET ends(s) == Cardinality({j \in DOMAIN s : s[j] = "/tc"})
        wrappers == Cardinality({j \in DOMAIN rt.rawText : WrapperAt(rt.rawText, j)})
    IN  \/ \E i \in DOMAIN read : read[i].text # <<>> /\ (Blank(read[i].text) \/ ends(read[i].text) > 1)
        \/ wrappers > 0 /\ ends(rt.rawText) > wrappers
\* A wrapper block of which no line has the whole.  Without tools the text of
\* each line is cleaned by itself, and with tools that of a fence is passed on
\* line by line: the block reaches the client, markup and all.
CutWrapper ==
    /\ Spans(rt.rawText, "tool_calls") # {}
    /\ \A i \in DOMAIN read : \A text \in TextsOf(read[i]) : Spans(text, "tool_calls") = {}
    /\ ~request.tools \/ \E i \in DOMAIN rt.rawText : rt.rawText[i] = "fence"
\* The stream agrees with what the collector made of the same lines.
AgreesWith(all) ==
    /\ all.calls = reply.calls
    /\ all.calls = 0 /\ ~request.search =>
          all.text = IF CutWrapper THEN CleanVisibleOutput(reply.text, TRUE) ELSE reply.text
    /\ all.calls > 0 /\ request.tools /\ ~Misread => FindToolMarkupTags(Streamed) = {}

\* However the upstream cuts its text, the client that was streamed to is told
\* as many calls, and without calls the very same text, as one that was not.  A
\* wrapper block without calls that was cut over lines (CutWrapper) is the one
\* thing a stream shows and the other answer does not; the rest is the same then
\* too.  The text of a retried answer is that of both attempts, and that of a
\* search has links in one and loses citations in the other; both are left out.
\* The markup of the calls in an answer is never shown to a client that has
\* tools.  A client is sent each call that is counted at the end, and no other.
StreamedIsCollected ==
    /\ (Answered /\ retries = 0) => AgreesWith(Collect(read, request, [thinking |-> <<>>, detection |-> <<>>]))
    /\ (Answered /\ ~Misread) => Cardinality(Sent("args.done")) = reply.calls

\* A first attempt of line breaks, or of markup cut in pieces, has said something
\* and counts as empty: it closes its message, and is retried.
EmptyRetried ==
    retries > 0 /\ \E i \in Sent("text.done") :
        i + 3 \in DOMAIN rt.sent /\ rt.sent[i + 3].ev \notin {"completed", "failed"}

\* The events of a stream are those of one response: an item is added once,
\* before anything is said of it, and done once, after; no two items share a
\* place; there is one terminal event, the last; and that one agrees with what
\* was streamed: the message under its id and at its place with the text of the
\* deltas.
StreamEventsAgree ==
    /\ \A item \in Items :
          /\ \E i \in SentOf(item, "item.added") :
                /\ SentOf(item, "item.added") = {i}
                /\ \A j \in DOMAIN rt.sent : rt.sent[j].item = item => i <= j
          /\ stage = "over" => SentOf(item, "item.done") # {}
          /\ ~(EmptyRetried /\ item = rt.message) =>
                \A i \in SentOf(item, "item.done"), j \in DOMAIN rt.sent : rt.sent[j].item = item => j <= i
    /\ \A i, j \in Sent("item.added") : i # j => rt.sent[i].index # rt.sent[j].index
    /\ stage = "over" /\ rt.sent # <<>> => Sent("completed") \union Sent("failed") # {}
    /\ \A i \in Sent("completed") \union Sent("failed") : i = Len(rt.sent)
    /\ Answered => \A o \in {x \in Final(rt.sent).output : x.kind = "message" /\ rt.added} :
                      o = [kind |-> "message", item |-> rt.message, index |-> rt.index, text |-> Streamed]

\* Within its time the owner of a response is given what was sent; anybody
\* else, and anybody later, is given nothing.
StoredIsWhatWasSent ==
    LET opened == rt.sent # <<>> \/ reply.status = 200
        mine == got.owner = request.owner /\ clock <= StoreTTL
    IN  got.owner # NoOne => got.object = IF mine /\ opened THEN reply ELSE NoReply
===============================================================================
