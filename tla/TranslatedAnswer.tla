---------------------------- MODULE TranslatedAnswer ----------------------------
(***************************************************************************)
(* The Claude and Gemini endpoints (src/internal/httpapi/claude, gemini):  *)
(* a request is rewritten as an OpenAI request and given to the OpenAI     *)
(* handler, and what that writes is translated back: a stream line by line *)
(* while it is written, in whatever parts (src/internal/translatorcliproxy,*)
(* stream_writer.go), any other answer as a whole.                         *)
(*                                                                         *)
(* The translation of one line or body is an external library's; the       *)
(* OpenAI handler is here what it writes.                                  *)
(***************************************************************************)
EXTENDS Integers, Sequences, FiniteSets

CONSTANTS
    Inquiries,    \* the requests made: records, see below
    MaxUttered    \* bound: lines of a stream

\* thinking: what the caller says of it: nothing, on, off, or something that
\* only the rewritten request says in words the server knows ("foreign").
Inquiry == [format : {"claude", "gemini"}, stream : BOOLEAN, lease : {"no", "prepare", "release"},
         thinking : {"unset", "on", "off", "foreign"}]
ASSUME TranslatedAssumption == Inquiries \subseteq Inquiry /\ MaxUttered \in Nat

VARIABLES
    inquiry,    \* the request
    backend,    \* where the OpenAI handler is in its writing
    uttered,    \* what it said so far, in whole lines or a whole body
    writer,     \* OpenAIStreamTranslatorWriter: statusCode, headersSent, lineBuf, param
    received    \* what the client got: a status and a body

translatedVars == <<inquiry, backend, uttered, writer, received>>

-----------------------------------------------------------------------------
(* What is written, in tokens.                                             *)

Token(is, kind, usage) == [is |-> is, kind |-> kind, usage |-> usage]
DataPrefix == Token("data:", "", FALSE)
NewLine    == Token("nl", "", FALSE)
KeepAlive  == Token("comment", "", FALSE)
Done       == Token("payload", "done", FALSE)
ErrorBody  == Token("body", "error", FALSE)
LinePayloads   == {Token("payload", kind, usage) : kind \in {"thinking", "text"}, usage \in BOOLEAN}

-----------------------------------------------------------------------------
(* The rewritten request.                                                  *)

\* A Claude request that does not say gets thinking when it is not streamed, to
\* be taken out again.
applyClaudeThinkingPolicyToOpenAIRequest(c) ==
    CASE c.thinking = "on" -> {TRUE}
      [] c.thinking = "off" -> {FALSE}
      [] c.thinking = "unset" -> {~c.stream}
      [] OTHER -> BOOLEAN

\* A Gemini request says it by its budget; of one that does not, the library's
\* rewriting or the model decides.
applyGeminiThinkingPolicyToOpenAIRequest(c) ==
    CASE c.thinking = "on" -> {TRUE}
      [] c.thinking = "off" -> {FALSE}
      [] OTHER -> BOOLEAN

\* Whether the request the OpenAI handler gets enables thinking.
Enabled(c) ==
    IF c.format = "claude" THEN applyClaudeThinkingPolicyToOpenAIRequest(c)
    ELSE applyGeminiThinkingPolicyToOpenAIRequest(c)

ExposeThinking(c) == c.format = "gemini" \/ c.thinking = "on"

Translates(c) == c.lease = "no"
ThroughWriter(c) == c.stream /\ c.lease = "no"

-----------------------------------------------------------------------------
(* The writer of a stream.                                                 *)

\* What the library makes of a line: for Claude an opening before the first,
\* and what the line says with its usage; for Gemini nothing at the end.
Said(is, payload, usage) == [is |-> is, kind |-> payload.kind, usage |-> usage]
TranslateStream(format, line, param) ==
    CASE format = "claude" -> (IF param = 0 THEN <<Said("opening", Done, FALSE)>> ELSE <<>>)
                              \o <<Said("chunk", line[2], line[2].usage)>>
      [] format = "gemini" /\ line[2] = Done -> <<>>
      [] OTHER -> <<Said("chunk", line[2], FALSE)>>

\* A line that has a usage gives it to every chunk Gemini clients get for it.
injectStreamUsageMetadata(chunks, format, usage) ==
    IF format = "gemini" /\ usage THEN [i \in DOMAIN chunks |-> [chunks[i] EXCEPT !.usage = TRUE]] ELSE chunks

\* One line: blank ones and ones without data: say nothing.
OnLine(s, format, line) ==
    CASE line # <<>> /\ line[1] = KeepAlive ->
            [s EXCEPT !.out = @ \o <<KeepAlive>>]
      [] line # <<>> /\ line[1] = DataPrefix ->
            [s EXCEPT !.param = @ + 1,
                      !.out = @ \o injectStreamUsageMetadata(TranslateStream(format, line, s.param), format, line[2].usage)]
      [] OTHER -> s

LineEnds(b) == {i \in DOMAIN b : b[i] = NewLine}
LastEnd(b) == IF LineEnds(b) = {} THEN 0 ELSE CHOOSE i \in LineEnds(b) : \A j \in LineEnds(b) : j <= i
LineUpTo(b, end) ==
    LET start == LastEnd(SubSeq(b, 1, end - 1)) + 1 IN SubSeq(b, start, end - 1)

\* As it should not be: what is not a whole line is forgotten.
RestOfForgotten(b) == <<>>
RestOf(b) == SubSeq(b, LastEnd(b) + 1, Len(b))

\* Every line that is whole is read, in order.
Reads(b, format) ==
    LET upTo[n \in 0..Len(b)] ==
            CASE n = 0 -> [param |-> writer.param, out |-> <<>>]
              [] n > 0 /\ b[n] = NewLine -> OnLine(upTo[n - 1], format, LineUpTo(b, n))
              [] OTHER -> upTo[n - 1]
    IN  upTo[Len(b)]

WriteHeader(status) == IF writer.headersSent THEN writer.statusCode ELSE status
Forward(status, p) ==
    /\ writer' = [writer EXCEPT !.headersSent = TRUE, !.statusCode = status]
    /\ received' = [status |-> status, body |-> received.body \o p]
Translated(status, b, result) ==
    /\ writer' = [statusCode |-> status, headersSent |-> TRUE, lineBuf |-> RestOf(b), param |-> result.param]
    /\ received' = [status |-> status, body |-> received.body \o result.out]
\* A write with the status the handler announces with it.
Write(p, announced) ==
    IF WriteHeader(announced) # 200 THEN Forward(WriteHeader(announced), p)
    ELSE Translated(200, writer.lineBuf \o p, Reads(writer.lineBuf \o p, inquiry.format))

-----------------------------------------------------------------------------
(* Actions.                                                                *)

TranslatedInit ==
    /\ inquiry \in Inquiries
    /\ backend = [at |-> "asked", thinking |-> FALSE, line |-> NewLine]
    /\ uttered = <<>>
    /\ writer = [statusCode |-> 200, headersSent |-> FALSE, lineBuf |-> <<>>, param |-> 0]
    /\ received = [status |-> 0, body |-> <<>>]

Goes(from, to) == backend.at = from /\ backend' = [backend EXCEPT !.at = to]

\* The request cannot be read (proxyViaOpenAI).
RejectsBody ==
    /\ Goes("asked", "over")
    /\ received' = [status |-> 400, body |-> <<ErrorBody>>]
    /\ UNCHANGED <<inquiry, uttered, writer>>

\* The OpenAI handler gets the rewritten request; the release of a lease is
\* passed on as it is.
HandsOver ==
    /\ backend.at = "asked"
    /\ \E thinking \in Enabled(inquiry) :
          backend' = [backend EXCEPT !.at = "between", !.thinking = Translates(inquiry) /\ thinking]
    /\ UNCHANGED <<inquiry, uttered, writer, received>>

\* It refuses, before anything was written.
Refuses ==
    /\ Goes("between", "over") /\ uttered = <<>>
    /\ uttered' = <<ErrorBody>>
    /\ \E status \in {401, 429, 500} :
          IF ThroughWriter(inquiry) THEN Write(<<ErrorBody>>, status)
          ELSE received' = [status |-> status, body |-> <<ErrorBody>>] /\ UNCHANGED writer
    /\ UNCHANGED inquiry

\* A line of a stream is written in three parts (sendChunk).
WritesPrefix ==
    /\ ThroughWriter(inquiry) /\ Goes("between", "prefix") /\ Len(uttered) < MaxUttered
    /\ Write(<<DataPrefix>>, 200)
    /\ UNCHANGED <<inquiry, uttered>>
WritesPayload ==
    /\ backend.at = "prefix"
    /\ \E p \in LinePayloads :
          /\ p.kind = "thinking" => backend.thinking
          /\ Write(<<p>>, 200)
          /\ backend' = [backend EXCEPT !.at = "payload", !.line = p]
    /\ UNCHANGED <<inquiry, uttered>>
EndsLine ==
    /\ Goes("payload", "between")
    /\ Write(<<NewLine, NewLine>>, 200)
    /\ uttered' = Append(uttered, backend.line)
    /\ UNCHANGED inquiry

sendKeepAlive ==
    /\ ThroughWriter(inquiry) /\ backend.at = "between" /\ Len(uttered) < MaxUttered
    /\ Write(<<KeepAlive, NewLine, NewLine>>, 200)
    /\ uttered' = Append(uttered, KeepAlive)
    /\ UNCHANGED <<inquiry, backend>>
sendDone ==
    /\ ThroughWriter(inquiry) /\ Goes("between", "over")
    /\ Write(<<DataPrefix, Done, NewLine, NewLine>>, 200)
    /\ uttered' = Append(uttered, Done)
    /\ UNCHANGED inquiry

\* An answer that is not streamed.  What prepare and release answer is passed
\* on; anything else is translated, with its usage, and the thinking taken out.
\* An answer is a text or calls of tools ("text"), perhaps after some thinking; one
\* without is refused.
Whole(p) == [is |-> "whole", kind |-> p.kind, usage |-> p.usage]
Blocks == {<<Token("payload", "text", u)>> : u \in BOOLEAN}
          \union {<<Token("payload", "thinking", u), Token("payload", "text", u)>> : u \in BOOLEAN}
stripClaudeThinkingBlocks(blocks) ==
    LET upTo[n \in 0..Len(blocks)] ==
            CASE n = 0 -> <<>>
              [] n > 0 /\ blocks[n].kind = "thinking" -> upTo[n - 1]
              [] OTHER -> Append(upTo[n - 1], blocks[n])
    IN  upTo[Len(blocks)]
FromOpenAINonStream(blocks) == [i \in DOMAIN blocks |-> Whole(blocks[i])]
AnswersWhole ==
    /\ ~ThroughWriter(inquiry) /\ Goes("between", "over")
    /\ \E blocks \in Blocks :
          /\ blocks[1].kind = "thinking" => backend.thinking
          /\ uttered' = blocks
          /\ received' = [status |-> 200, body |->
                CASE ~Translates(inquiry) -> blocks
                  [] Translates(inquiry) /\ ExposeThinking(inquiry) -> FromOpenAINonStream(blocks)
                  [] OTHER -> stripClaudeThinkingBlocks(FromOpenAINonStream(blocks))]
    /\ UNCHANGED <<inquiry, writer>>

TranslatedNext ==
    \/ RejectsBody \/ HandsOver \/ Refuses
    \/ WritesPrefix \/ WritesPayload \/ EndsLine \/ sendKeepAlive \/ sendDone
    \/ AnswersWhole

TranslatedSpec == TranslatedInit /\ [][TranslatedNext]_translatedVars

-----------------------------------------------------------------------------
\* The state of the request and its writer has its type.
TranslatedTypeOK ==
    /\ inquiry \in Inquiries /\ Len(uttered) <= MaxUttered + 2
    /\ backend.at \in {"asked", "between", "prefix", "payload", "over"}
    /\ writer.statusCode \in {200, 401, 429, 500} /\ writer.param \in Nat
    /\ LineEnds(writer.lineBuf) = {}

\* What the client is to get for the i-th of the lines that were said.
FirstOfData(said, i) == \A j \in 1..(i - 1) : said[j] = KeepAlive
Meant(said, i, format) ==
    CASE said[i] = KeepAlive -> <<KeepAlive>>
      [] said[i] = Done /\ format = "gemini" -> <<>>
      [] said[i] # KeepAlive /\ format = "claude" /\ FirstOfData(said, i) ->
            <<Said("opening", Done, FALSE), Said("chunk", said[i], said[i].usage)>>
      [] OTHER -> <<Said("chunk", said[i], said[i].usage)>>
AllMeant(said, format) ==
    LET upTo[n \in 0..Len(said)] == IF n = 0 THEN <<>> ELSE upTo[n - 1] \o Meant(said, n, format)
    IN  upTo[Len(said)]

\* In whatever parts the OpenAI handler writes its lines, the client gets the
\* translation of each one as soon as it is whole, once and in order, with its
\* usage and the keep-alives at their places; a refusal arrives as it was said,
\* with its status; and a Claude client that did not ask for thinking is shown
\* none, streamed or not, though the answer may have it; the answer itself it is
\* always shown.
ToldInTheirWords ==
    /\ ThroughWriter(inquiry) /\ received.status = 200 => received.body = AllMeant(uttered, inquiry.format)
    /\ backend.at = "over" /\ uttered = <<ErrorBody>> =>
          received.body = uttered /\ received.status \in {401, 429, 500}
    /\ inquiry.format = "claude" /\ inquiry.thinking \in {"unset", "off"} =>
          \A i \in DOMAIN received.body : received.body[i].kind # "thinking"
    /\ ~ThroughWriter(inquiry) /\ received.status = 200 =>
          Cardinality({i \in DOMAIN received.body : received.body[i].kind = "text"}) = 1
===============================================================================
