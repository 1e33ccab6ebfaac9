------------------------------- MODULE ChatStream -------------------------------
(***************************************************************************)
(* A streamed chat completion on its way from DeepSeek to the client:      *)
(*                                                                         *)
(*   upstream -> auto-continue -> line pump -> consume loop -> client      *)
(*                                                                         *)
(* (deepseek/client client_continue.go, internal/sse stream.go,            *)
(* internal/stream engine.go, openai/chat chat_stream_runtime.go and       *)
(* empty_retry_runtime.go).  Each arrow is a channel or a pipe between     *)
(* goroutines.  An answer without visible text is asked for once more, and *)
(* the second attempt has goroutines of its own; those of the first may    *)
(* still be there.  The client can go away at any moment, which cancels    *)
(* the request's context, and so does the return of the handler.           *)
(*                                                                         *)
(* The request carries no tools and its proof-of-work is not modelled      *)
(* here.  DeepSeek is external: it says what it likes, breaks off, or says *)
(* nothing for ever.                                                       *)
(***************************************************************************)
EXTENDS Naturals, Sequences, SequencesExt

CONSTANTS
    MaxLines,     \* bound: lines DeepSeek sends in all, ends of rounds apart
    MaxRounds,    \* how often one attempt is continued, 8 in the code
    LineCap,      \* lines between auto-continue and the pump: pipe and lineCh
    OutCap,       \* results between the pump and the consume loop, 128
    MaxQuiet,     \* ticks without any content before giving up, 10
    IdleTicks     \* ticks after the last content before giving up, 18

ASSUME BoundsAssumption ==
    /\ MaxLines \in Nat /\ MaxRounds \in Nat
    /\ LineCap \in Nat \ {0} /\ OutCap \in Nat \ {0}
    /\ MaxQuiet \in Nat \ {0} /\ IdleTicks \in Nat \ {0}

VARIABLES
    ctx,       \* the request's context: "live", "gone" (the client left), "ended"
    source,    \* auto-continue: running, rounds, last status
    lines,     \* the lines on their way to the pump
    pump,      \* the pump: running, pending parts, results being sent, last
               \* results, ended by a read error
    out,       \* the results on their way to the consume loop
    closed,    \* the handler has closed the response body
    handler,   \* where the handler is, its attempt, and the consume loop's variables
    client,    \* what was sent: visible text, how it ended, and how often
    history,   \* status of the history entry
    cut,       \* why the consume loop ended without the end of the answer
    said,      \* the visible text DeepSeek sent, by attempt
    budget     \* lines DeepSeek may still send

channels == <<source, lines, pump, out, closed>>
vars == <<ctx, channels, handler, client, history, cut, said, budget>>

Attempts == 1..2
Signals == {"think", "incomplete", "finished", "filter", "error",
            "done", "eof", "broken"}
Spoken == Signals \ {"done", "eof", "broken"}
Line == [kind : Signals, n : {0}] \cup [kind : {"text"}, n : 1..MaxLines]
L(kind) == [kind |-> kind, n |-> 0]
Parts == {"text", "think"}

NoSource == [on |-> FALSE, rounds |-> 0, status |-> "none"]
NoPump == [on |-> FALSE, pending |-> <<>>, sending |-> <<>>, last |-> FALSE, err |-> FALSE]

TypeOK ==
    /\ ctx \in {"live", "gone", "ended"}
    /\ source \in [Attempts -> [on : BOOLEAN, rounds : 0..MaxRounds,
                                status : {"none", "incomplete", "finished"}]]
    /\ lines \in [Attempts -> Seq(Line)]
    /\ pump \in [Attempts -> [on : BOOLEAN, pending : Seq(Line), sending : Seq(Seq(Line)),
                              last : BOOLEAN, err : BOOLEAN]]
    /\ out \in [Attempts -> Seq(Seq(Line))]
    /\ \A i \in Attempts : Len(lines[i]) <= LineCap + 1 /\ Len(out[i]) <= OutCap
    /\ closed \in [Attempts -> BOOLEAN]
    /\ handler \in [pc : {"consume", "retry", "over"}, attempt : Attempts,
                    seen : BOOLEAN, quiet : 0..(MaxQuiet + IdleTicks)]
    /\ client \in [text : Seq(1..MaxLines), ending : {"none", "finish", "failed"}, endings : Nat]
    /\ history \in {"streaming", "success", "error", "stopped"}
    /\ cut \in {"no", "silent", "idle", "gone", "broken", "error"}
    /\ said \in [Attempts -> Seq(1..MaxLines)]
    /\ budget \in 0..MaxLines

-----------------------------------------------------------------------------
\* Auto-continue (pumpAutoContinue)

Room(i) == Len(lines[i]) < LineCap

\* What observe and setStatus keep of a line; "finished" is not taken back.
Observed(src, kind) ==
    [src EXCEPT !.status =
        IF kind \in {"finished", "filter"} THEN "finished"
        ELSE IF kind = "incomplete" /\ @ # "finished" THEN "incomplete" ELSE @]

\* DeepSeek sends a line, which is passed on.  An answer that is finished has
\* no more of them.
Speak(i) ==
    /\ source[i].on /\ ctx = "live" /\ ~closed[i] /\ Room(i)
    /\ source[i].status # "finished"
    /\ budget > 0 /\ budget' = budget - 1
    /\ \E line \in {L(k) : k \in Spoken} \cup {[kind |-> "text", n |-> MaxLines - budget + 1]} :
          /\ source' = [source EXCEPT ![i] = Observed(@, line.kind)]
          /\ lines' = [lines EXCEPT ![i] = Append(@, line)]
          /\ said' = IF line.kind = "text" THEN [said EXCEPT ![i] = Append(@, line.n)]
                     ELSE said
    /\ UNCHANGED <<ctx, pump, out, closed, handler, client, history, cut>>

\* The message id, which the first event of an answer carries, is known.
shouldContinue(src) == src.status = "incomplete" /\ src.rounds < MaxRounds

\* Mutant: the [DONE] of a round that is continued is passed on.
ContinuePassesDone(i) ==
    /\ source[i].on /\ ctx = "live"
    /\ shouldContinue(source[i]) /\ Room(i)
    /\ lines' = [lines EXCEPT ![i] = Append(@, L("done"))]
    /\ source' = [source EXCEPT ![i] = [NoSource EXCEPT !.on = TRUE, !.rounds = source[i].rounds + 1]]
    /\ UNCHANGED <<ctx, pump, out, closed, handler, client, history, cut, said, budget>>

\* The body ends, with [DONE] or not, and the answer is not complete: the next
\* round is spliced on, and the [DONE] is not passed on.
Continue(i) ==
    /\ source[i].on /\ ctx = "live"
    /\ shouldContinue(source[i])
    /\ source' = [source EXCEPT ![i] = [NoSource EXCEPT !.on = TRUE, !.rounds = source[i].rounds + 1]]
    /\ UNCHANGED <<ctx, lines, pump, out, closed, handler, client, history, cut, said, budget>>

\* The body ends, and with it the stream: the [DONE] it may have had comes last.
BodyEnds(i) ==
    /\ source[i].on /\ ctx = "live" /\ ~closed[i] /\ Room(i)
    /\ ~shouldContinue(source[i])
    /\ source' = [source EXCEPT ![i].on = FALSE]
    /\ \E hadDone \in {<<>>, <<L("done")>>} :
          lines' = [lines EXCEPT ![i] = @ \o hadDone \o <<L("eof")>>]
    /\ UNCHANGED <<ctx, pump, out, closed, handler, client, history, cut, said, budget>>

\* The body breaks off, or the next round cannot be opened.
BodyBreaks(i) ==
    /\ source[i].on /\ ctx = "live" /\ ~closed[i] /\ Room(i)
    /\ source' = [source EXCEPT ![i].on = FALSE]
    /\ lines' = [lines EXCEPT ![i] = Append(@, L("broken"))]
    /\ UNCHANGED <<ctx, pump, out, closed, handler, client, history, cut, said, budget>>

\* The context is cancelled, which aborts the read from DeepSeek.
SourceAborts(i) ==
    /\ source[i].on /\ ctx # "live"
    /\ source' = [source EXCEPT ![i].on = FALSE]
    /\ UNCHANGED <<ctx, lines, pump, out, closed, handler, client, history, cut, said, budget>>

\* The pipe is closed: the next write fails, and the scanner reads no more.
\* It takes a line from DeepSeek to notice.
PipeClosed(i) ==
    /\ closed[i] /\ source[i].on /\ ctx = "live"
    /\ source' = [source EXCEPT ![i].on = FALSE]
    /\ lines' = [lines EXCEPT ![i] = Append(@, L("broken"))]
    /\ UNCHANGED <<ctx, pump, out, closed, handler, client, history, cut, said, budget>>

-----------------------------------------------------------------------------
\* The pump (StartParsedLinePump)

Flushed(parts) == IF parts = <<>> THEN <<>> ELSE <<parts>>

Selecting(i) == ctx = "live" /\ pump[i].on /\ pump[i].sending = <<>> /\ ~pump[i].last

\* Mutant: a long line is sent at once, ahead of what is pending.
AcceptOvertaking(p, line) ==
    CASE line.kind \in Parts ->
            {[p EXCEPT !.pending = Append(@, line)],
             [p EXCEPT !.sending = Flushed(<<line>>)]}
      [] line.kind \in {"eof", "broken"} ->
            {[p EXCEPT !.pending = <<>>, !.sending = Flushed(p.pending), !.last = TRUE,
                       !.err = line.kind = "broken"]}
      [] OTHER ->
            {[p EXCEPT !.pending = <<>>, !.sending = Append(Flushed(p.pending), <<line>>)]}

\* A line with text is added to the pending parts, which are sent when they
\* are long enough; any other line is sent after what is pending.
Accept(p, line) ==
    CASE line.kind \in Parts ->
            {[p EXCEPT !.pending = Append(@, line)],
             [p EXCEPT !.pending = <<>>, !.sending = Flushed(Append(p.pending, line))]}
      [] line.kind \in {"eof", "broken"} ->
            {[p EXCEPT !.pending = <<>>, !.sending = Flushed(p.pending), !.last = TRUE,
                       !.err = line.kind = "broken"]}
      [] OTHER ->
            {[p EXCEPT !.pending = <<>>, !.sending = Append(Flushed(p.pending), <<line>>)]}

TakeLine(i) ==
    /\ Selecting(i) /\ lines[i] # <<>>
    /\ \E p \in Accept(pump[i], Head(lines[i])) : pump' = [pump EXCEPT ![i] = p]
    /\ lines' = [lines EXCEPT ![i] = Tail(@)]
    /\ UNCHANGED <<ctx, source, out, closed, handler, client, history, cut, said, budget>>

FlushTick(i) ==
    /\ Selecting(i) /\ pump[i].pending # <<>>
    /\ pump' = [pump EXCEPT ![i].pending = <<>>, ![i].sending = Flushed(pump[i].pending)]
    /\ UNCHANGED <<ctx, source, lines, out, closed, handler, client, history, cut, said, budget>>

\* Mutant: results pile up without a bound.
sendResultUnbounded(i) ==
    /\ ctx = "live" /\ pump[i].on /\ pump[i].sending # <<>>
    /\ out' = [out EXCEPT ![i] = Append(@, Head(pump[i].sending))]
    /\ pump' = [pump EXCEPT ![i].sending = Tail(@)]
    /\ UNCHANGED <<ctx, source, lines, closed, handler, client, history, cut, said, budget>>

\* The next result is sent, once there is room for it.
sendResult(i) ==
    /\ ctx = "live" /\ pump[i].on /\ pump[i].sending # <<>>
    /\ Len(out[i]) < OutCap
    /\ out' = [out EXCEPT ![i] = Append(@, Head(pump[i].sending))]
    /\ pump' = [pump EXCEPT ![i].sending = Tail(@)]
    /\ UNCHANGED <<ctx, source, lines, closed, handler, client, history, cut, said, budget>>

\* Mutant: a pump that waits for room does not look at the context.
PumpEndsAtEof(i) ==
    /\ pump[i].on
    /\ pump[i].last /\ pump[i].sending = <<>>
    /\ pump' = [pump EXCEPT ![i] = [NoPump EXCEPT !.err = pump[i].err]]
    /\ lines' = [lines EXCEPT ![i] = <<>>]
    /\ out' = [out EXCEPT ![i] = IF closed[i] THEN <<>> ELSE @]
    /\ UNCHANGED <<ctx, source, closed, handler, client, history, cut, said, budget>>

\* The pump ends, at the end of the lines or because the context is cancelled,
\* also while it waits for room.
PumpEnds(i) ==
    /\ pump[i].on
    /\ ctx # "live" \/ (pump[i].last /\ pump[i].sending = <<>>)
    /\ pump' = [pump EXCEPT ![i] = [NoPump EXCEPT !.err = pump[i].err]]
    /\ lines' = [lines EXCEPT ![i] = <<>>]
    /\ out' = [out EXCEPT ![i] = IF closed[i] THEN <<>> ELSE @]
    /\ UNCHANGED <<ctx, source, closed, handler, client, history, cut, said, budget>>

-----------------------------------------------------------------------------
\* Cancellation

\* From here on the consume loop reads nothing more, so what the channels hold
\* is dropped; the goroutines still have to notice, and to end.
Cancel(reason) ==
    /\ ctx' = reason
    /\ source' = [i \in Attempts |-> [NoSource EXCEPT !.on = source[i].on]]
    /\ pump' = [i \in Attempts |-> [NoPump EXCEPT !.on = pump[i].on]]
    /\ lines' = [i \in Attempts |-> <<>>]
    /\ out' = [i \in Attempts |-> <<>>]

ClientLeaves ==
    /\ ctx = "live"
    /\ Cancel("gone")
    /\ UNCHANGED <<closed, handler, client, history, cut, said, budget>>

-----------------------------------------------------------------------------
\* The end of an attempt (finalize, recordChatStreamHistory)

\* The handler returns, and the server cancels the context.
Return(ending, status) ==
    /\ handler' = [handler EXCEPT !.pc = "over"]
    /\ client' = [client EXCEPT !.ending = ending, !.endings = @ + 1]
    /\ history' = status
    /\ Cancel("ended")

\* Mutant: an empty attempt tells the client so, and is followed by another.
FinalizeTellsAll(reason, why) ==
    /\ closed' = [closed EXCEPT ![handler.attempt] = TRUE]
    /\ cut' = why
    /\ IF client.text # <<>> THEN Return("finish", "success")
       ELSE IF handler.attempt = 2 \/ reason = "filter" THEN Return("failed", "error")
       ELSE /\ handler' = [handler EXCEPT !.pc = "retry"]
            /\ client' = [client EXCEPT !.ending = "failed", !.endings = @ + 1]
            /\ UNCHANGED <<ctx, history, source, lines, pump, out>>
    /\ UNCHANGED <<said, budget>>

\* An attempt without visible text is followed by another, unless it was the
\* last or the content filter was the reason.
Finalize(reason, why) ==
    /\ closed' = [closed EXCEPT ![handler.attempt] = TRUE]
    /\ cut' = why
    /\ IF client.text # <<>> THEN Return("finish", "success")
       ELSE IF handler.attempt = 2 \/ reason = "filter" THEN Return("failed", "error")
       ELSE /\ handler' = [handler EXCEPT !.pc = "retry"]
            /\ history' = IF why = "gone" THEN "stopped" ELSE history
            /\ UNCHANGED <<ctx, client, source, lines, pump, out>>
    /\ UNCHANGED <<said, budget>>

-----------------------------------------------------------------------------
\* The consume loop (ConsumeSSE with the hooks of consumeChatStreamAttempt)

Consuming == handler.pc = "consume"

\* The context is looked at first, whatever has arrived: the history entry is
\* marked stopped, and the attempt is finalized all the same.
ContextDone == Consuming /\ ctx = "gone" /\ Finalize("stop", "gone")

\* One keep-alive interval passes.
Tick ==
    /\ Consuming /\ ctx = "live"
    /\ IF ~handler.seen /\ handler.quiet + 1 >= MaxQuiet THEN Finalize("stop", "silent")
       ELSE IF handler.seen /\ handler.quiet >= IdleTicks THEN Finalize("stop", "idle")
       ELSE /\ handler' = [handler EXCEPT !.quiet = @ + 1]
            /\ UNCHANGED <<ctx, channels, client, history, cut, said, budget>>

Arrived == out[handler.attempt]
Visible(line) == IF line.kind = "text" THEN <<line.n>> ELSE <<>>
TextOf(result) == FlattenSeq([j \in DOMAIN result |-> Visible(result[j])])

\* A result with text, reasoning or nothing of interest (onParsed).
Relay ==
    /\ Consuming /\ ctx = "live" /\ Arrived # <<>>
    /\ Head(Arrived)[1].kind \notin {"finished", "done", "filter", "error"}
    /\ out' = [out EXCEPT ![handler.attempt] = Tail(@)]
    /\ client' = [client EXCEPT !.text = @ \o TextOf(Head(Arrived))]
    /\ handler' = IF Head(Arrived)[1].kind \in Parts
                  THEN [handler EXCEPT !.seen = TRUE, !.quiet = 0] ELSE handler
    /\ UNCHANGED <<ctx, source, lines, pump, closed, history, cut, said, budget>>

\* A result that ends the answer.  An error counts as filtered content, and
\* filtered content as a plain end once there is text.
StopLine ==
    /\ Consuming /\ ctx = "live" /\ Arrived # <<>>
    /\ \/ /\ Head(Arrived)[1].kind \in {"finished", "done"}
          /\ Finalize("stop", "no")
       \/ /\ Head(Arrived)[1].kind = "filter"
          /\ Finalize(IF client.text = <<>> THEN "filter" ELSE "stop", "no")
       \/ /\ Head(Arrived)[1].kind = "error"
          /\ Finalize("filter", "error")

\* The pump's channel is drained and closed; the read error is not looked at.
Drained ==
    /\ Consuming /\ ctx = "live" /\ Arrived = <<>>
    /\ ~pump[handler.attempt].on
    /\ Finalize("stop", IF pump[handler.attempt].err THEN "broken" ELSE "no")

-----------------------------------------------------------------------------
\* The second attempt (handleStreamWithRetry)

RetryOpens ==
    /\ handler.pc = "retry" /\ ctx = "live"
    /\ handler' = [pc |-> "consume", attempt |-> 2, seen |-> FALSE, quiet |-> 0]
    /\ source' = [source EXCEPT ![2].on = TRUE]
    /\ pump' = [pump EXCEPT ![2].on = TRUE]
    /\ cut' = "no"
    /\ UNCHANGED <<ctx, lines, out, closed, client, history, said, budget>>

\* Mutant: the failed retry is not recorded.
RetryFailsUnrecorded ==
    /\ handler.pc = "retry"
    /\ Return("failed", history)
    /\ UNCHANGED <<closed, cut, said, budget>>

\* The call fails, as it must when the client is gone.
RetryFails ==
    /\ handler.pc = "retry"
    /\ Return("failed", "error")
    /\ UNCHANGED <<closed, cut, said, budget>>

-----------------------------------------------------------------------------

Init ==
    /\ ctx = "live"
    /\ source = [i \in Attempts |-> [NoSource EXCEPT !.on = i = 1]]
    /\ lines = [i \in Attempts |-> <<>>]
    /\ pump = [i \in Attempts |-> [NoPump EXCEPT !.on = i = 1]]
    /\ out = [i \in Attempts |-> <<>>]
    /\ closed = [i \in Attempts |-> FALSE]
    /\ handler = [pc |-> "consume", attempt |-> 1, seen |-> FALSE, quiet |-> 0]
    /\ client = [text |-> <<>>, ending |-> "none", endings |-> 0]
    /\ history = "streaming"
    /\ cut = "no"
    /\ said = [i \in Attempts |-> <<>>]
    /\ budget = MaxLines

Upstream(i) == Speak(i) \/ Continue(i) \/ BodyEnds(i) \/ BodyBreaks(i) \/ PipeClosed(i)
Plumbing(i) == SourceAborts(i) \/ TakeLine(i) \/ FlushTick(i)
                  \/ sendResult(i) \/ PumpEnds(i)
Consume == ContextDone \/ Relay \/ StopLine \/ Drained
Retry == RetryOpens \/ RetryFails

Running(i) == source[i].on \/ pump[i].on

Terminated ==
    /\ handler.pc = "over"
    /\ \A i \in Attempts : ~Running(i)
    /\ UNCHANGED vars

Next ==
    \/ \E i \in Attempts : Upstream(i) \/ Plumbing(i)
    \/ Consume \/ Tick \/ Retry \/ ClientLeaves
    \/ Terminated

Spec == Init /\ [][Next]_vars

\* The goroutines run, the ticker ticks, select takes a tick in the end, and
\* the call for a second attempt comes back.  DeepSeek owes nothing.
FairSpec ==
    /\ Spec
    /\ \A i \in Attempts : WF_vars(Plumbing(i))
    /\ WF_vars(Consume) /\ WF_vars(Tick) /\ WF_vars(Retry)

-----------------------------------------------------------------------------
\* Properties

\* The client's text is what one answer said, in order and without a gap or a
\* repetition: no text overtakes another in the pump, and nothing of an attempt
\* that was given up is mixed with the next.
TextIsOneAnswer == IsPrefix(client.text, said[handler.attempt])

\* When the client is told the answer is finished and nothing cut it short, it
\* has all of it: also what was still pending in the pump, and what came after
\* the [DONE] of a round that was continued.
FinishedIsComplete ==
    client.ending = "finish" /\ cut = "no" => client.text = said[handler.attempt]

\* The client gets exactly one ending, and gets it before the handler returns.
OneEnding == client.endings = (IF handler.pc = "over" THEN 1 ELSE 0)

\* The history entry is settled when the handler returns, and it says success
\* exactly when the client was told the answer is finished.
HistorySettled ==
    handler.pc = "over" =>
        /\ history # "streaming"
        /\ history = "success" <=> client.ending = "finish"

\* A request whose client went away while it was streamed is recorded as
\* stopped.
StoppedIsRecorded == handler.pc = "over" /\ cut = "gone" => history = "stopped"

\* Whatever DeepSeek and the client do or fail to do, the handler returns and
\* all the goroutines of both attempts end.
EverythingEnds == <>(handler.pc = "over" /\ \A i \in Attempts : ~Running(i))

===============================================================================
