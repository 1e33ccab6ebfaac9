-------------------------------- MODULE SseLine --------------------------------
(***************************************************************************)
(* How one line of DeepSeek's event stream is read (src/internal/sse):     *)
(* what text it carries, whether that text is thinking or answer, and      *)
(* whether the answer ends with it.  Pure operators over frames.           *)
(*                                                                         *)
(* A frame is a line as DeepSeek sends it:                                 *)
(*   kind   "junk" (no data line, or not JSON), "done" ([DONE]), "error",  *)
(*          "filter" (a content_filter code or status), or "chunk"         *)
(*   path   the field p, symbolic        op   the field o                  *)
(*   is     what the field v is: "none", "text", "items" (a list) or       *)
(*          "response" (an object with a list of fragments)                *)
(*   text   v when it is text            items   v when it is a list       *)
(*   id     a response message id, or 0  links   the search results in it  *)
(* An item is a patch with a path, an op and a value of its own, or a      *)
(* fragment with a type and a text.                                        *)
(***************************************************************************)
EXTENDS AnswerText

CONSTANT
    MinSnapshot    \* the least length of a resent snapshot, 32 characters

ASSUME MinSnapshotAssumption == MinSnapshot \in Nat \ {0}

\* What the words of a frame are is left open, and how many there are.
Text == Seq(STRING)
Fragments == [path : STRING, op : STRING, is : {"none", "text", "items"}, text : Text, type : STRING, items : {<<>>}]
Patches == [path : STRING, op : STRING, is : {"none", "text", "items"}, text : Text, type : STRING, items : Seq(Fragments)]
Frames == [kind : {"junk", "done", "error", "filter", "chunk"}, path : STRING, op : STRING,
           is : {"none", "text", "items", "response"}, text : Text, items : Seq(Patches), id : Nat,
           links : Seq([url : STRING, index : Int])]

Nothing == [kind |-> "chunk", path |-> "", op |-> "", is |-> "none", text |-> <<>>,
            items |-> <<>>, id |-> 0, links |-> <<>>]
NoItem == [path |-> "", op |-> "", is |-> "none", text |-> <<>>, type |-> "", items |-> <<>>]
Fragment(type, text) == [NoItem EXCEPT !.type = type, !.text = text]

\* f applied to the members of s from left to right, starting with r.
Over(s, r, f(_, _)) ==
    LET upTo[i \in 0..Len(s)] == IF i = 0 THEN r ELSE f(upTo[i - 1], s[i]) IN upTo[Len(s)]
Collected(s, f(_)) == Over(s, <<>>, LAMBDA all, x : all \o f(x))
Picked(s, test(_)) == Over(s, <<>>, LAMBDA all, x : IF test(x) THEN Append(all, x) ELSE all)

-----------------------------------------------------------------------------
(* Paths.                                                                  *)

FINISHED == <<"FINISHED">>
isStatusPath(path) == path \in {"response/status", "status"}
isFragmentStatusPath(path) == path = "response/fragments/-1/status"
shouldSkipPath(path) ==
    isFragmentStatusPath(path) \/ path \in {"response/search_status", "token_usage", "quasi_status"}
FragmentContentPath == "response/fragments/-1/content"

-----------------------------------------------------------------------------
(* Parts: pieces of text with their type, "thinking" or "text".            *)

Part(text, type) == [text |-> text, type |-> type]
appendContentPart(parts, content, kind) ==
    IF content = <<>> THEN parts ELSE Append(parts, Part(content, kind))

\* The type a fragment's own type name stands for.
Named(name, default) ==
    CASE name = "THINK" -> "thinking" [] name = "RESPONSE" -> "text" [] OTHER -> default
LastNamed(frags, type) == Over(frags, type, LAMBDA t, f : Named(f.type, t))
OfFragments(frags, default) ==
    Over(frags, <<>>, LAMBDA parts, f : appendContentPart(parts, f.text, Named(f.type, default)))

IsDirect(frame) == frame.path = "response/fragments" /\ frame.op = "APPEND" /\ frame.is = "items"
collectDirectFragments(frame) == IF IsDirect(frame) THEN OfFragments(frame.items, "text") ELSE <<>>

\* The type after the fragments a patch of the response appends.
updateTypeFromNestedResponse(frame, type) ==
    IF frame.path # "response" \/ frame.is # "items" THEN type
    ELSE Over(frame.items, type, LAMBDA t, item :
                IF item.path = "fragments" /\ item.op = "APPEND" /\ item.is = "items"
                THEN LastNamed(item.items, t) ELSE t)

resolvePartType(path, thinkingEnabled, type) ==
    CASE path = "response/thinking_content" -> IF thinkingEnabled /\ type = "text" THEN "text" ELSE "thinking"
      [] path = "response/content"          -> "text"
      [] path = FragmentContentPath         -> type
      [] path = "" /\ thinkingEnabled       -> type
      [] OTHER                              -> "text"

\* A list of patches.  One that says FINISHED ends the answer.
IsFinish(item) == item.is = "text" /\ isStatusPath(item.path) /\ item.text = FINISHED
ItemType(path, default) ==
    CASE path \in {"thinking_content", "response/thinking_content"} -> "thinking"
      [] path \in {"content", "response/content", "response", "fragments", FragmentContentPath} -> "text"
      [] OTHER -> default
ItemParts(item, default) ==
    CASE item.is = "none" \/ isStatusPath(item.path) \/ shouldSkipPath(item.path) -> <<>>
      [] item.is = "text" /\ ~isStatusPath(item.path) /\ ~shouldSkipPath(item.path) ->
            IF item.text \in {<<>>, FINISHED} THEN <<>> ELSE <<Part(item.text, ItemType(item.path, default))>>
      [] OTHER -> OfFragments(item.items, ItemType(item.path, default))
ItemsParts(items, default) == Collected(items, LAMBDA item : ItemParts(item, default))
ItemsFinish(items) == \E i \in DOMAIN items : IsFinish(items[i])

\* What the value of a chunk adds: its parts, the type after it, its end.
Value(parts, type, finished) == [parts |-> parts, type |-> type, finished |-> finished]
appendChunkValueContent(frame, partType, type) ==
    CASE frame.is = "text" ->
            Value(IF isStatusPath(frame.path) THEN <<>> ELSE appendContentPart(<<>>, frame.text, partType), type,
                  frame.text = FINISHED /\ frame.path \in {"", "status"})
      [] frame.is = "items" -> Value(ItemsParts(frame.items, partType), type, ItemsFinish(frame.items))
      [] frame.is = "response" -> Value(OfFragments(frame.items, partType), LastNamed(frame.items, type), FALSE)
      [] OTHER -> Value(<<>>, type, FALSE)

stripThinkTags(s) == Picked(s, LAMBDA t : t \notin {"th", "/th"})

\* Thinking that says </think> is answer from there on, and so is what follows.
Closes(p) == p.type = "thinking" /\ \E i \in DOMAIN p.text : p.text[i] = "/th"
SplitAt(text, at) == appendContentPart(appendContentPart(<<>>, SubSeq(text, 1, at - 1), "thinking"),
                                       stripThinkTags(From(text, at + 1)), "text")
SplitStep(r, p) ==
    CASE p.type = "thinking" /\ ~r.over /\ ~Closes(p) -> [r EXCEPT !.parts = Append(@, p)]
      [] p.type = "thinking" /\ ~r.over /\ Closes(p) ->
            [parts |-> r.parts \o SplitAt(p.text, Least({i \in DOMAIN p.text : p.text[i] = "/th"})), over |-> TRUE]
      [] OTHER -> [r EXCEPT !.parts = appendContentPart(@, stripThinkTags(p.text), "text")]
splitThinkingParts(parts) == Over(parts, [parts |-> <<>>, over |-> FALSE], SplitStep)

selectThinkingParts(parts) == Picked(parts, LAMBDA p : p.type = "thinking")
dropThinkingParts(parts) == Picked(parts, LAMBDA p : p.type # "thinking")

\* The parts of a chunk, those of them that are thinking (kept apart because
\* they are searched for calls even when thinking is off), and the next type.
Chunk(split, next, thinkingEnabled) ==
    [parts |-> IF thinkingEnabled THEN split.parts ELSE dropThinkingParts(split.parts),
     detection |-> selectThinkingParts(split.parts), finished |-> FALSE,
     type |-> IF split.over \/ ~thinkingEnabled THEN "text" ELSE next]
NoParts(finished, next) == [parts |-> <<>>, detection |-> <<>>, finished |-> finished, type |-> next]
OfValue(frame, value, thinkingEnabled) ==
    IF value.finished THEN NoParts(TRUE, value.type)
    ELSE Chunk(splitThinkingParts(collectDirectFragments(frame) \o value.parts), value.type, thinkingEnabled)
OfType(frame, type, thinkingEnabled) ==
    OfValue(frame, appendChunkValueContent(frame, resolvePartType(frame.path, thinkingEnabled, type), type),
            thinkingEnabled)
ParseSSEChunkForContentDetailed(frame, thinkingEnabled, current) ==
    CASE frame.is = "none" \/ shouldSkipPath(frame.path) -> NoParts(FALSE, current)
      [] ~shouldSkipPath(frame.path) /\ isStatusPath(frame.path) /\ frame.is = "text" ->
            NoParts(frame.text = FINISHED, current)
      [] OTHER -> OfType(frame, updateTypeFromNestedResponse(frame,
                            IF IsDirect(frame) THEN LastNamed(frame.items, current) ELSE current), thinkingEnabled)

\* A leaked CONTENT_FILTER marker cuts its part short.
stripLeakedContentFilterSuffix(s) ==
    SubSeq(s, 1, Least({i \in DOMAIN s : s[i] = "cf"} \union {Len(s) + 1}) - 1)
filterLeakedContentFilterParts(parts) ==
    Over(parts, <<>>, LAMBDA all, p : appendContentPart(all, stripLeakedContentFilterSuffix(p.text), p.type))

-----------------------------------------------------------------------------
(* Lines.                                                                  *)

Bare(current) == [parsed |-> TRUE, stop |-> TRUE, filter |-> FALSE, error |-> FALSE,
                  parts |-> <<>>, detection |-> <<>>, type |-> current, id |-> 0]
OfChunk(frame, chunk) ==
    [Bare(chunk.type) EXCEPT !.stop = chunk.finished, !.id = frame.id,
                             !.parts = filterLeakedContentFilterParts(chunk.parts),
                             !.detection = filterLeakedContentFilterParts(chunk.detection)]
ParseDeepSeekContentLine(frame, thinkingEnabled, current) ==
    CASE frame.kind = "junk"   -> [Bare(current) EXCEPT !.parsed = FALSE, !.stop = FALSE]
      [] frame.kind = "done"   -> Bare(current)
      [] frame.kind = "error"  -> [Bare(current) EXCEPT !.error = TRUE]
      [] frame.kind = "filter" -> [Bare(current) EXCEPT !.filter = TRUE]
      [] OTHER -> OfChunk(frame, ParseSSEChunkForContentDetailed(frame, thinkingEnabled, current))

IsPrefixOf(s, t) == Len(s) <= Len(t) /\ SubSeq(t, 1, Len(s)) = s

\* What a part adds to a text it may repeat from the beginning.
TrimContinuationOverlap(existing, incoming) ==
    CASE existing # <<>> /\ Len(incoming) >= MinSnapshot /\ IsPrefixOf(existing, incoming) ->
            From(incoming, Len(existing) + 1)
      [] existing # <<>> /\ Len(incoming) >= MinSnapshot /\ IsPrefixOf(incoming, existing) -> <<>>
      [] OTHER -> incoming
AddTo(existing, incoming) == existing \o TrimContinuationOverlap(existing, incoming)
InitialType(thinkingEnabled) == IF thinkingEnabled THEN "thinking" ELSE "text"

-----------------------------------------------------------------------------
(* The whole answer at once, for requests that are not streamed.           *)

\* An answer that has stopped is read on, for its links, up to [DONE].
AddParts(kind, parts, s) == Over(parts, s, LAMBDA t, p : IF p.type = kind THEN AddTo(t, p.text) ELSE t)
CollectLine(r, line) ==
    IF line.stop THEN [r EXCEPT !.stopped = TRUE, !.filter = line.filter]
    ELSE [r EXCEPT !.type = line.type, !.text = AddParts("text", line.parts, @),
                   !.thinking = AddParts("thinking", line.parts, @),
                   !.detection = AddParts("thinking", line.detection, @)]
Noted(r, frame) == [r EXCEPT !.links = @ \o frame.links, !.id = IF frame.id > 0 THEN frame.id ELSE @]
CollectFrame(r, frame, thinkingEnabled) ==
    CASE r.done            -> r
      [] ~r.done /\ frame.kind = "done" -> [r EXCEPT !.done = TRUE]
      [] ~r.done /\ frame.kind # "done" /\ r.stopped -> Noted(r, frame)
      [] ~r.done /\ frame.kind # "done" /\ ~r.stopped ->
            CollectLine(Noted(r, frame), ParseDeepSeekContentLine(frame, thinkingEnabled, r.type))

CollectStream(frames, thinkingEnabled) ==
    Over(frames, [text |-> <<>>, thinking |-> <<>>, detection |-> <<>>, filter |-> FALSE, links |-> <<>>,
                  id |-> 0, stopped |-> FALSE, done |-> FALSE, type |-> InitialType(thinkingEnabled)],
         LAMBDA r, frame : CollectFrame(r, frame, thinkingEnabled))

\* Every text that a frame brings, in whichever place.
TextsOf(frame) == {frame.text} \union {frame.items[i].text : i \in DOMAIN frame.items}
===============================================================================
