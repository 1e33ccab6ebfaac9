----------------------------- MODULE AnswerOutput -----------------------------
(***************************************************************************)
(* What the endpoints make of the text of an answer: what of it is shown   *)
(* (src/internal/httpapi/openai/shared, output_clean.go and                *)
(* leaked_output_sanitize.go), the calls in it (assistant_toolcalls.go),   *)
(* the links of its citations (src/internal/sse, citation_links.go), and   *)
(* what is said of an answer that is empty (upstream_empty.go).            *)
(***************************************************************************)
EXTENDS SseLine, ToolSieve

\* Thinking that is opened and not closed goes, with all that follows it.
Depths(s) ==
    LET depth[i \in 0..Len(s)] ==
            CASE i = 0 -> 0
              [] i > 0 /\ s[i] = "th"  -> depth[i - 1] + 1
              [] i > 0 /\ s[i] = "/th" -> IF depth[i - 1] = 0 THEN 0 ELSE depth[i - 1] - 1
              [] OTHER -> depth[i - 1]
    IN  depth
OrNothing(s) == IF Blank(s) THEN <<>> ELSE s
BeforeDangling(s, depth) ==
    IF depth[Len(s)] = 0 THEN s
    ELSE OrNothing(SubSeq(s, 1, Greatest({i \in DOMAIN s : s[i] = "th" /\ depth[i - 1] = 0}) - 1))
stripDanglingThinkSuffix(s) == BeforeDangling(s, Depths(s))

\* Whole wrapper blocks are taken out, calls in them or not.
WithoutSpans(s, spans) ==
    Collected([i \in DOMAIN s |-> i],
              LAMBDA i : IF \E p \in spans : p[1].at <= i /\ i <= p[2].end THEN <<>> ELSE <<s[i]>>)
stripLeakedToolCallWrapperBlocks(s) == WithoutSpans(s, Spans(s, "tool_calls"))

sanitizeLeakedOutput(s) ==
    stripLeakedToolCallWrapperBlocks(stripThinkTags(stripDanglingThinkSuffix(s)))

CleanVisibleOutput(s, stripReferenceMarkers) ==
    sanitizeLeakedOutput(IF stripReferenceMarkers THEN Picked(s, LAMBDA t : t # "ref") ELSE s)

\* The calls in the text; those in the thinking only when no text is shown.
OrOfThinking(calls, visible, thinking) ==
    IF calls = 0 /\ Blank(visible) THEN ParseStandaloneToolCallsDetailed(thinking).calls ELSE calls
DetectAssistantToolCalls(rawText, visible, exposedThinking, detectionThinking) ==
    OrOfThinking(ParseStandaloneToolCallsDetailed(rawText).calls, visible,
                 IF Blank(detectionThinking) THEN exposedThinking ELSE detectionThinking)

UpstreamEmptyOutputDetail(contentFilter) ==
    IF contentFilter THEN [status |-> 400, code |-> "content_filter"]
    ELSE [status |-> 429, code |-> "upstream_empty_output"]

-----------------------------------------------------------------------------
(* Citations.  A search result is [url, index], the index -1 when it has   *)
(* none; results are numbered from one or from zero.                       *)

IsCitation(s) == ~Blank(s) /\ Trim(s)[1] = "cite"

explicitRaw(links) ==
    LET indexes == {links[i].index : i \in DOMAIN links} \ {-1}
    IN  [n \in indexes |-> links[Least({i \in DOMAIN links : links[i].index = n})].url]

\* When an index is zero each result may stand for the next number; of two for
\* one number the result that appeared at that place wins.
Preferred(links, raw, n) == n \notin DOMAIN raw \/ (n - 1 \in DOMAIN raw /\ n \in DOMAIN links
                                                       /\ raw[n - 1] = links[n].url)
Normalized(links, raw) ==
    IF 0 \notin DOMAIN raw THEN raw
    ELSE [n \in (DOMAIN raw \ {0}) \union {m + 1 : m \in DOMAIN raw} |->
            IF Preferred(links, raw, n) THEN raw[n - 1] ELSE raw[n]]
buildNormalizedExplicit(links) == Normalized(links, explicitRaw(links))

\* Numbers without an explicit result take the result of that place.
OrByPlace(links, explicit) ==
    [n \in DOMAIN explicit \union DOMAIN links |-> IF n \in DOMAIN explicit THEN explicit[n] ELSE links[n].url]
buildLinks(links) == OrByPlace(links, buildNormalizedExplicit(links))

\* The marker "cite" is [citation:1].
ReplaceCitationMarkersWithLinks(s, links) ==
    IF 1 \in DOMAIN buildLinks(links)
    THEN [i \in DOMAIN s |-> IF s[i] = "cite" THEN buildLinks(links)[1] ELSE s[i]] ELSE s
===============================================================================
