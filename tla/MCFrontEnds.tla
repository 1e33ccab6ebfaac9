------------------------------ MODULE MCFrontEnds ------------------------------
(***************************************************************************)
(* Five front ends that share no state, one after the other in one run:    *)
(* the Responses endpoint, the leases of streams on Vercel, the text of    *)
(* such a stream, requests with files, and the Claude and Gemini endpoints. *)
(* A run works on one of them; the others rest in an initial state.        *)
(***************************************************************************)
EXTENDS ResponsesStream, VercelStream, NodeStream, FileUploads, TranslatedAnswer

VARIABLE front    \* the front end at work

frontVars == <<responsesVars, vercelVars, nodeVars, uploadVars, translatedVars, front>>

-----------------------------------------------------------------------------
(* The answers of DeepSeek.                                                *)

Patch(path, text) == [Nothing EXCEPT !.path = path, !.is = "text", !.text = text]
Appended(fragments) == [Nothing EXCEPT !.path = "response/fragments", !.op = "APPEND", !.is = "items",
                                       !.items = fragments]
Snapshot(fragments) == [Nothing EXCEPT !.is = "response", !.items = fragments, !.id = 1]
Ending == <<Patch("response/status", FINISHED), [Nothing EXCEPT !.kind = "done"]>>
Say(text) == <<Appended(<<Fragment("RESPONSE", <<>>)>>), Patch(FragmentContentPath, text)>> \o Ending
Called == <<"tc1", "tc2", "inv", "par", "/inv", "/tc">>
Results == <<[url |-> "u1", index |-> 1], [url |-> "u2", index |-> -1]>>

MCAnswers == {
    Say(<<"a", "b">> \o Called \o <<"c">>),                              \* a call amid text
    Say(<<"fence", "nl">> \o Called \o <<"nl", "fence", "a">>),          \* an example of one
    Say(<<"a", "inv", "json", "/inv", "/tc", "b">>),                    \* its opening missing
    Say(<<"a", "tc1", "tc2", "cd", "inv", "par", "/inv", "/tc">>),      \* a CDATA section left open
    Say(<<"tc1", "tc2", "b", "/tc", "a">>),                             \* a wrapper without calls
    Say(<<"a", "th", "b">>), Say(<<"a", "cf", "b">>), Say(<<"nl">>),
    Ending,
    [Say(<<"cite", "ref", "b">>) EXCEPT ![3].links = Results],
    \* thinking and answer, and then all of it once more
    <<Appended(<<Fragment("THINK", <<"a">>)>>), Patch(FragmentContentPath, <<"b", "/th", "c">>),
      Appended(<<Fragment("RESPONSE", <<"a">>)>>), Patch(FragmentContentPath, <<"b">>),
      Snapshot(<<Fragment("THINK", <<"a", "b">>), Fragment("RESPONSE", <<"c", "a", "b", "d">>)>>)>> \o Ending,
    <<Appended(<<Fragment("THINK", <<"a">> \o Called)>>)>> \o Ending,    \* a call in the thinking
    <<Patch("", <<"a">>), [Nothing EXCEPT !.kind = "filter"]>>,
    <<[Nothing EXCEPT !.kind = "junk"], [Nothing EXCEPT !.kind = "error"]>> }

Asking(stream, thinking, tools) == [owner |-> "o1", stream |-> stream, thinking |-> thinking,
                                    search |-> FALSE, tools |-> tools, required |-> FALSE]
MCRequests == {
    Asking(TRUE, TRUE, TRUE), Asking(TRUE, FALSE, FALSE), Asking(FALSE, TRUE, TRUE),
    [Asking(TRUE, FALSE, TRUE) EXCEPT !.required = TRUE], [Asking(FALSE, FALSE, TRUE) EXCEPT !.required = TRUE],
    [Asking(TRUE, FALSE, FALSE) EXCEPT !.search = TRUE], [Asking(FALSE, FALSE, FALSE) EXCEPT !.search = TRUE] }

-----------------------------------------------------------------------------
(* The stream of the port to Node.  An answer's first fragment has a text. *)

Starting(first, text) == <<Appended(<<Fragment("RESPONSE", first)>>), Patch(FragmentContentPath, text)>> \o Ending
ResponsePatch(item) == [Nothing EXCEPT !.path = "response", !.is = "items", !.items = <<item>>]
MCNodeAnswers == {
    Starting(<<"a">>, <<"b">> \o Called \o <<"nl", "c">>),
    Starting(<<"a", "nl">>, <<"fence", "nl">> \o Called \o <<"nl", "fence", "nl", "b">>),
    Starting(<<"a">>, <<"inv", "json", "/inv", "/tc", "b">>),
    Starting(<<"a">>, <<"tc1", "tc2", "cd", "inv", "par", "/inv", "/tc">>),
    Starting(<<"a">>, <<"tc1", "tc2", "b", "/tc", "a">>),
    Starting(<<"tc1">>, <<"tc2", "inv", "json", "/inv", "/tc", "c">> \o Called),    \* two calls
    Starting(<<"a">>, <<"th", "b", "/th", "cf", "c">>),
    Starting(<<"nl">>, Called), Starting(<<"nl">>, <<"nl">>), Starting(<<"cite">>, <<"ref", "b">>),
    Ending, <<Appended(<<Fragment("RESPONSE", <<"a">>)>>)>>,    \* the second says no end
    \* patches of the response, the last of which ends it
    <<ResponsePatch([NoItem EXCEPT !.path = "fragments", !.op = "APPEND", !.is = "items",
                                   !.items = <<Fragment("RESPONSE", <<"a">>)>>]),
      Patch(FragmentContentPath, <<"b">>),
      ResponsePatch([NoItem EXCEPT !.path = "status", !.is = "text", !.text = FINISHED])>>,
    <<Appended(<<Fragment("THINK", <<"a">>)>>), Patch(FragmentContentPath, <<"b", "/th", "c">>),
      Appended(<<Fragment("RESPONSE", <<"a">>)>>), Patch(FragmentContentPath, <<"b">>),
      Snapshot(<<Fragment("THINK", <<"a", "b">>), Fragment("RESPONSE", <<"c", "a", "b", "d">>)>>)>> \o Ending,
    <<Appended(<<Fragment("THINK", <<"a">> \o Called)>>)>> \o Ending,
    <<Patch("", <<"a">>), [Nothing EXCEPT !.kind = "filter"]>>,
    <<[Nothing EXCEPT !.kind = "junk"], [Nothing EXCEPT !.kind = "error"]>> }
AskFor(thinking, search, tools) == [thinking |-> thinking, search |-> search, tools |-> tools]
MCNodeAsks == {AskFor(TRUE, FALSE, TRUE), AskFor(FALSE, TRUE, TRUE), AskFor(TRUE, FALSE, FALSE),
               AskFor(FALSE, TRUE, FALSE)}

-----------------------------------------------------------------------------
(* Requests with files.                                                    *)

MCUserFiles == {-1, -2}
InlineBlock(id, image, data, named) == [fileID |-> id, image |-> image, data |-> data, named |-> named, file |-> <<>>]
Nested(id, data) == [InlineBlock(0, "", "", FALSE) EXCEPT
                        !.file = <<[fileID |-> id, image |-> "", data |-> data, named |-> TRUE]>>]
Chat(messages, attachments, managed, long, delete) ==
    [kind |-> "chat", managed |-> managed, messages |-> messages, attachments |-> attachments,
     refs |-> <<-1>>, long |-> long, delete |-> delete]
MCAsks == {
    Chat(<<InlineBlock(0, "c1", "", FALSE), InlineBlock(-2, "", "", FALSE)>>, <<Nested(0, "c2")>>, TRUE, TRUE, "single"),
    Chat(<<InlineBlock(0, "", "c1", TRUE), InlineBlock(0, "", "c1", FALSE)>>, <<InlineBlock(0, "c1", "c2", TRUE)>>, TRUE, FALSE, "all"),
    Chat(<<InlineBlock(0, "c1", "", FALSE), InlineBlock(0, "", "c2", TRUE), InlineBlock(0, "c1", "", FALSE)>>, <<>>, FALSE, TRUE, "none"),
    Chat(<<Nested(-1, "")>>, <<InlineBlock(0, "c2", "", FALSE), InlineBlock(0, "", "bad", TRUE)>>, TRUE, FALSE, "none"),
    \* blocks that name a file and hold others
    Chat(<<[Nested(0, "c1") EXCEPT !.fileID = -2]>>, <<[Nested(-1, "") EXCEPT !.fileID = -2, !.image = "c2"]>>, TRUE, TRUE, "none"),
    Chat(<<[Nested(0, "empty") EXCEPT !.fileID = -1]>>, <<>>, TRUE, FALSE, "none"),
    Chat(<<[Nested(-2, "c1") EXCEPT !.file[1].image = "c1"], InlineBlock(0, "c1", "", FALSE)>>, <<>>, FALSE, FALSE, "none"),
    Chat(<<InlineBlock(0, "", "empty", TRUE)>>, <<>>, TRUE, FALSE, "single"),
    [Chat(<<>>, <<>>, TRUE, FALSE, "none") EXCEPT !.kind = "upload"] }

-----------------------------------------------------------------------------
(* Claude and Gemini requests.                                             *)

MCInquiries ==
    {c \in [format : {"claude", "gemini"}, stream : BOOLEAN, lease : {"no"},
             thinking : {"unset", "on", "off", "foreign"}] : c.format = "gemini" => c.thinking # "foreign"}
    \union [format : {"claude", "gemini"}, stream : {TRUE}, lease : {"prepare", "release"}, thinking : {"on"}]

-----------------------------------------------------------------------------
FrontInit ==
    /\ front \in {"responses", "vercel", "node", "files", "translated"}
    /\ ResponsesInit /\ (front # "responses" => request = CHOOSE r \in Requests : TRUE)
    /\ VercelInit
    /\ NodeInit /\ (front # "node" => nodeAsk = CHOOSE a \in NodeAsks : TRUE)
    /\ FilesInit /\ (front # "files" => ask = (CHOOSE a \in Asks : ~a.managed))
    /\ TranslatedInit /\ (front # "translated" => inquiry = CHOOSE c \in Inquiries : TRUE)

FrontNext ==
    \/ front = "responses" /\ ResponsesNext /\ UNCHANGED <<front, vercelVars, nodeVars, uploadVars, translatedVars>>
    \/ front = "vercel" /\ VercelNext /\ UNCHANGED <<front, responsesVars, nodeVars, uploadVars, translatedVars>>
    \/ front = "node" /\ NodeNext /\ UNCHANGED <<front, responsesVars, vercelVars, uploadVars, translatedVars>>
    \/ front = "files" /\ FilesNext /\ UNCHANGED <<front, responsesVars, vercelVars, nodeVars, translatedVars>>
    \/ front = "translated" /\ TranslatedNext /\ UNCHANGED <<front, responsesVars, vercelVars, nodeVars, uploadVars>>

FrontSpec == FrontInit /\ [][FrontNext]_frontVars

\* The state of each front end has its type (their own type invariants).
FrontEndsTypeOK == ResponsesTypeOK /\ VercelTypeOK /\ NodeTypeOK /\ FilesTypeOK /\ TranslatedTypeOK
===============================================================================
