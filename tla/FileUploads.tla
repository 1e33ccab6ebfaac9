------------------------------ MODULE FileUploads ------------------------------
(***************************************************************************)
(* Files on their way to DeepSeek.  A chat request may hold files inline   *)
(* (src/internal/httpapi/openai/files): each is uploaded and its block     *)
(* replaced by a reference, a long conversation is uploaded as a file too  *)
(* (openai/history), and the completion is asked for with the references.  *)
(* An upload (src/internal/deepseek/client) is repeated when it fails,     *)
(* after a refresh of the token or a switch to another account, and its    *)
(* file is polled until DeepSeek has processed it.  At the end the session *)
(* may be deleted.                                                         *)
(*                                                                         *)
(* A file belongs to the account that uploaded it.  The pool and the loops *)
(* of the other calls are RequestLease's; here such a call succeeds or     *)
(* fails, and may move the request to other accounts on the way.           *)
(***************************************************************************)
EXTENDS Integers, Sequences, FiniteSets

CONSTANTS
    Asks,           \* the requests made, see Ask
    Contents,       \* what a file can hold
    UserFiles,      \* ids of files the clients uploaded before
    FileAccounts,   \* the accounts
    MaxAttempts,    \* attempts of an upload, 3
    MaxInline,      \* maxInlineFilesPerRequest, 50
    MaxPolls        \* fileReadyPollAttempts, 60

NoFile == 0
Empty == "empty"
Transcript == "transcript"     \* the file of the conversation
\* Payloads: none, one that cannot be decoded, and those that can.
Payloads == Contents \union {"", "bad", Empty}

\* A block of a request: its file_id, the data URL of the object under
\* "image_url", its data (under "file_data" or "base64"), if it is said to be a
\* file, and the object it may have under "file".
Leaf == [fileID : UserFiles \union {NoFile}, image : Payloads, data : Payloads, named : BOOLEAN]
Block == [fileID : UserFiles \union {NoFile}, image : Payloads, data : Payloads, named : BOOLEAN,
          file : {<<>>} \union {<<b>> : b \in Leaf}]
\* What a request for an upload of its own, or for a completion, consists of.
IsAsk(a) ==
    /\ a.kind \in {"upload", "chat"} /\ a.managed \in BOOLEAN
    /\ a.messages \in Seq(Block) /\ a.attachments \in Seq(Block) /\ a.refs \in Seq(UserFiles)
    /\ a.long \in BOOLEAN                        \* the current input is worth a file
    /\ a.delete \in {"none", "single", "all"}    \* AutoDeleteMode

ASSUME UploadsAssumption ==
    /\ MaxAttempts \in Nat \ {0} /\ MaxInline \in Nat /\ MaxPolls \in Nat \ {0}
    /\ UserFiles \subseteq Int /\ (\A id \in UserFiles : id < 0)    \* DeepSeek's own have numbers
    /\ Contents \cap {"", "bad", Empty, Transcript} = {}           \* these stand for other things
    /\ FileAccounts # {} /\ IsFiniteSet(FileAccounts)
    /\ \A a \in Asks : IsAsk(a)

VARIABLES
    ask,        \* the request
    at,         \* where it is: see FilesTypeOK
    walked,     \* objects of it that were walked
    fileOf,     \* the reference that replaces an object, or NoFile
    cache,      \* uploadedByID: content and file id
    count,      \* uploadCount
    call,       \* the upload under way
    account,    \* the account of the request, and those it was given so far
    tried,
    files,      \* DeepSeek's files: content and owner, by number
    refs,       \* RefFileIDs of the completion
    session,    \* the session's owner at DeepSeek, NoAccount when there is none
    asked,      \* what DeepSeek was asked for with
    status      \* the answer's status

uploadVars == <<ask, at, walked, fileOf, cache, count, call, account, tried, files, refs, session, asked, status>>

NoAccount == "no account"
NoCall == [purpose |-> "none", content |-> Empty, attempts |-> 0, refreshed |-> FALSE, id |-> NoFile, polls |-> 0]
Upload(purpose, content) == [NoCall EXCEPT !.purpose = purpose, !.content = content]

-----------------------------------------------------------------------------
(* The files of a request.                                                 *)

Decoded(content) == [found |-> TRUE, bad |-> content = "bad", content |-> content]
NotAFile == [found |-> FALSE, bad |-> FALSE, content |-> Empty]

DecodeLeaf(b) ==
    CASE b.fileID # NoFile -> NotAFile
      [] b.fileID = NoFile /\ b.image # "" -> Decoded(b.image)
      [] b.fileID = NoFile /\ b.image = "" /\ b.data # "" /\ b.named -> Decoded(b.data)
      [] OTHER -> NotAFile
\* An object under "file" is looked at instead of the block itself.
decodeOpenAIInlineFileBlock(b) ==
    IF b.fileID = NoFile /\ b.file # <<>> THEN DecodeLeaf(b.file[1]) ELSE DecodeLeaf(b)

\* The objects walk comes to in a block: the block, unless it is replaced the
\* object under "file", and what either has under "image_url".  For each the
\* file it holds, the file_id it has, and if references are collected from it,
\* which they are not from what is under "image_url".
ObjectsOf(b) ==
    LET whole == decodeOpenAIInlineFileBlock(b)
        inner == IF b.file = <<>> THEN [fileID |-> NoFile, image |-> "", data |-> "", named |-> FALSE] ELSE b.file[1]
        nested == IF whole.found THEN NotAFile ELSE DecodeLeaf(inner)
        Image(o, replaced) == [holds |-> IF replaced \/ o.image = "" THEN NotAFile ELSE Decoded(o.image),
                               names |-> NoFile, collected |-> FALSE]
    IN  << [holds |-> whole, names |-> b.fileID, collected |-> TRUE],
           [holds |-> nested, names |-> inner.fileID, collected |-> TRUE],
           Image(inner, whole.found \/ nested.found), Image(b, whole.found) >>
Objects(blocks) == [k \in 1..4 * Len(blocks) |-> ObjectsOf(blocks[(k + 3) \div 4])[((k - 1) % 4) + 1]]

\* The order in which files are uploaded; references have another one.
WalkOrder == Objects(ask.messages) \o Objects(ask.attachments)

RefOf(i) ==
    LET o == WalkOrder[i]
    IN  IF ~o.collected THEN NoFile ELSE IF fileOf[i] # NoFile THEN fileOf[i] ELSE o.names

\* ids without repetitions and without NoFile.
Distinct(ids) ==
    LET upTo[i \in 0..Len(ids)] ==
            CASE i = 0 -> <<>>
              [] i > 0 /\ (ids[i] = NoFile \/ \E j \in DOMAIN upTo[i - 1] : upTo[i - 1][j] = ids[i]) -> upTo[i - 1]
              [] OTHER -> Append(upTo[i - 1], ids[i])
    IN  upTo[Len(ids)]

CollectOpenAIRefFileIDs ==
    LET m == 4 * Len(ask.messages)
    IN  Distinct(ask.refs \o [i \in 1..4 * Len(ask.attachments) |-> RefOf(m + i)] \o [i \in 1..m |-> RefOf(i)])

\* ids without this one and without NoFile.
OtherThan(ids, id) ==
    LET upTo[i \in 0..Len(ids)] ==
            CASE i = 0 -> <<>>
              [] i > 0 /\ ids[i] \in {id, NoFile} -> upTo[i - 1]
              [] OTHER -> Append(upTo[i - 1], ids[i])
    IN  upTo[Len(ids)]

\* As it should not be: the file comes last.
appendUniqueRefFileID(existing, id) == OtherThan(existing, id) \o <<id>>
prependUniqueRefFileID(existing, id) == <<id>> \o OtherThan(existing, id)

-----------------------------------------------------------------------------
(* Init and endings.                                                       *)

FilesInit ==
    /\ ask \in Asks
    /\ at = IF ask.kind = "chat" THEN "walking" ELSE "pow"
    /\ call = IF ask.kind = "chat" THEN NoCall ELSE Upload("direct", CHOOSE c \in Contents : TRUE)
    /\ account \in IF ask.managed THEN FileAccounts ELSE {NoAccount}
    /\ walked = 0 /\ fileOf = [i \in 1..Len(WalkOrder) |-> NoFile] /\ cache = {} /\ count = 0
    /\ tried = {account} /\ files = <<>> /\ refs = <<>>
    /\ session = [owner |-> NoAccount, open |-> FALSE] /\ status = 0
    /\ asked = [account |-> NoAccount, refs |-> <<>>]

\* The handler answers and leaves; what was deferred comes next.
AnswersWith(code) == status' = code /\ at' = "leaving"

\* SwitchAccount moves a managed request to an account it was not given yet.
Switches ==
    /\ ask.managed
    /\ \E a \in FileAccounts \ tried : account' = a /\ tried' = tried \union {a}
\* The loop of a call may do so any number of times.
MayMove ==
    \/ UNCHANGED <<account, tried>>
    \/ /\ ask.managed
       /\ \E S \in SUBSET (FileAccounts \ tried) :
             \E a \in S : account' = a /\ tried' = tried \union S

-----------------------------------------------------------------------------
(* The objects, one after the other (walk, tryUploadBlock).                *)

Replace(i, id) == fileOf' = [fileOf EXCEPT ![i] = id] /\ count' = count + 1 /\ walked' = i

WalkObject ==
    /\ at = "walking" /\ walked < Len(WalkOrder)
    /\ LET i == walked + 1
           d == WalkOrder[i].holds
           known == {c \in cache : c.content = d.content}
       IN  CASE ~d.found -> walked' = i /\ UNCHANGED <<at, fileOf, count, call, status>>
             [] d.found /\ d.bad -> AnswersWith(400) /\ UNCHANGED <<walked, fileOf, count, call>>
             [] d.found /\ ~d.bad /\ count >= MaxInline -> AnswersWith(500) /\ UNCHANGED <<walked, fileOf, count, call>>
             [] d.found /\ ~d.bad /\ count < MaxInline /\ known # {} ->
                    Replace(i, (CHOOSE c \in known : TRUE).id) /\ UNCHANGED <<at, call, status>>
             [] OTHER ->
                    IF d.content = Empty THEN AnswersWith(500) /\ UNCHANGED <<walked, fileOf, count, call>>
                    ELSE at' = "pow" /\ call' = Upload("inline", d.content) /\ UNCHANGED <<walked, fileOf, count, status>>
    /\ UNCHANGED <<ask, cache, account, tried, files, refs, session, asked>>

\* All objects are done: the references are collected, and a long conversation
\* is put into a file of its own (ApplyCurrentInputFile).
WalkDone ==
    /\ at = "walking" /\ walked = Len(WalkOrder)
    /\ refs' = CollectOpenAIRefFileIDs
    /\ IF ask.long THEN at' = "pow" /\ call' = Upload("input", Transcript)
       ELSE at' = "session" /\ UNCHANGED call
    /\ UNCHANGED <<ask, walked, fileOf, cache, count, account, tried, files, session, asked, status>>

-----------------------------------------------------------------------------
(* An upload (UploadFile of the client).                                   *)

UploadDone(id) ==
    CASE call.purpose = "inline" ->
            /\ Replace(walked + 1, id) /\ cache' = cache \union {[content |-> call.content, id |-> id]}
            /\ at' = "walking" /\ UNCHANGED <<refs, status>>
      [] call.purpose = "input" ->
            /\ refs' = prependUniqueRefFileID(refs, id)
            /\ at' = "session" /\ UNCHANGED <<walked, fileOf, count, cache, status>>
      [] OTHER -> AnswersWith(200) /\ UNCHANGED <<walked, fileOf, count, cache, refs>>

UploadFailed == AnswersWith(500) /\ UNCHANGED <<walked, fileOf, count, cache, refs>>

\* Every failed attempt counts, whatever was done about it.
AttemptOf(limit, refreshed) ==
    /\ call' = [call EXCEPT !.attempts = @ + 1, !.refreshed = refreshed, !.id = NoFile, !.polls = 0]
    /\ IF call.attempts < limit
       THEN at' = "pow" /\ UNCHANGED <<walked, fileOf, count, cache, refs, status>> ELSE UploadFailed
\* As it should not be: one attempt too many.
NextAttemptOffByOne(refreshed) == AttemptOf(MaxAttempts, refreshed)
NextAttempt(refreshed) == AttemptOf(MaxAttempts - 1, refreshed)

\* Each attempt has a proof-of-work of its own.
UploadPow ==
    /\ at = "pow" /\ MayMove
    /\ \/ at' = "sending" /\ UNCHANGED <<walked, fileOf, count, cache, refs, status>>
       \/ UploadFailed
    /\ UNCHANGED <<ask, call, files, session, asked>>

Stored(ready) == Append(files, [content |-> call.content, owner |-> account, ready |-> ready])

\* The transport fails and the same request goes out once more, over the standard
\* one: what the first has left at DeepSeek is never known.
doUpload ==
    /\ at = "sending" /\ at' = "resending"
    /\ files' \in {files, Stored(FALSE)}
    /\ UNCHANGED <<ask, walked, fileOf, cache, count, call, account, tried, refs, session, asked, status>>

Sending == at \in {"sending", "resending"}

\* No answer, or one that cannot be read: DeepSeek may have the file or not.
UploadLost ==
    /\ Sending /\ files' \in {files, Stored(FALSE)} /\ NextAttempt(call.refreshed)
    /\ UNCHANGED <<ask, account, tried, session, asked>>

\* DeepSeek accepts the file; it may be ready at once, or have no id.
UploadAccepted ==
    /\ Sending /\ files' = Stored(FALSE)
    /\ \/ call' = [call EXCEPT !.id = Len(files) + 1] /\ at' = "polling"
          /\ UNCHANGED <<walked, fileOf, count, cache, refs, status>>
       \/ UploadFailed /\ UNCHANGED call
    /\ UNCHANGED <<ask, account, tried, session, asked>>
UploadReady ==
    /\ Sending /\ files' = Stored(TRUE)
    /\ UploadDone(Len(files) + 1)
    /\ UNCHANGED <<ask, call, account, tried, session, asked>>

\* DeepSeek refuses: the token is refreshed once for each account, or the
\* account is switched, or neither is possible and it is just tried again.
UploadRefused ==
    /\ Sending
    /\ \/ ask.managed /\ ~call.refreshed /\ NextAttempt(TRUE) /\ UNCHANGED <<account, tried>>
       \/ Switches /\ NextAttempt(FALSE)
       \/ NextAttempt(call.refreshed) /\ UNCHANGED <<account, tried>>
    /\ UNCHANGED <<ask, files, session, asked>>

\* One look at the file (waitForUploadedFile).  It is given up after MaxPolls,
\* or when the time for them is over.
PollReady ==
    /\ at = "polling"
    /\ files' = [files EXCEPT ![call.id].ready = TRUE] /\ UploadDone(call.id)
    /\ UNCHANGED <<ask, call, account, tried, session, asked>>
PollAgain ==
    /\ at = "polling" /\ call' = [call EXCEPT !.polls = @ + 1]
    /\ IF call'.polls < MaxPolls THEN UNCHANGED <<at, walked, fileOf, count, cache, refs, status>> ELSE UploadFailed
    /\ UNCHANGED <<ask, account, tried, files, session, asked>>
PollTimeout ==
    /\ at = "polling" /\ UploadFailed
    /\ UNCHANGED <<ask, call, account, tried, files, session, asked>>

-----------------------------------------------------------------------------
(* The completion and the end (Handler.ChatCompletions).                   *)

CreateSession ==
    /\ at = "session" /\ MayMove
    /\ \/ session' = [owner |-> account', open |-> TRUE] /\ at' = "asking" /\ UNCHANGED status
       \/ AnswersWith(401) /\ UNCHANGED session
    /\ UNCHANGED <<ask, walked, fileOf, cache, count, call, files, refs, asked>>

\* GetPow and CallCompletion.
CallCompletion ==
    /\ at = "asking" /\ MayMove
    /\ \/ asked' = [account |-> account', refs |-> refs] /\ AnswersWith(200)
       \/ AnswersWith(401) /\ UNCHANGED asked
    /\ UNCHANGED <<ask, walked, fileOf, cache, count, call, files, refs, session>>

\* The deferred deletion, with the account the request has by now; it may fail.
autoDeleteRemoteSession ==
    /\ at = "leaving" /\ at' = "over"
    /\ \/ UNCHANGED session
       \/ ask.delete = "single" /\ session.open /\ session' = [session EXCEPT !.open = session.owner # account]
       \/ ask.delete = "all" /\ session' = [session EXCEPT !.open = @ /\ session.owner # account]
    /\ UNCHANGED <<ask, walked, fileOf, cache, count, call, account, tried, files, refs, asked, status>>

FilesNext ==
    \/ WalkObject \/ WalkDone
    \/ UploadPow \/ doUpload \/ UploadLost \/ UploadAccepted \/ UploadReady \/ UploadRefused
    \/ PollReady \/ PollAgain \/ PollTimeout \/ CreateSession \/ CallCompletion \/ autoDeleteRemoteSession

FilesSpec == FilesInit /\ [][FilesNext]_uploadVars

-----------------------------------------------------------------------------
\* The state of a request for files has its type.
FilesTypeOK ==
    /\ ask \in Asks /\ at \in {"walking", "pow", "sending", "resending", "polling", "session", "asking", "leaving", "over"}
    /\ walked \in 0..4 * (Len(ask.messages) + Len(ask.attachments)) /\ count \in 0..MaxInline
    /\ \A i \in DOMAIN fileOf : fileOf[i] \in 0..Len(files)
    /\ \A c \in cache : c.content \in Contents /\ c.id \in 1..Len(files)
    /\ call.attempts \in 0..MaxAttempts /\ call.polls \in 0..MaxPolls
    /\ tried \subseteq FileAccounts \union {NoAccount} /\ account \in tried
    /\ at = "polling" => call.id \in 1..Len(files)

Of(id) == files[id]
\* DeepSeek is asked with references to the right files: every inline file of
\* the request, but an image beside a file_id, is there once, whatever was
\* repeated on the way, with its own content and processed; so is the
\* conversation, first; and nothing else but what the client named itself.
FilesAreReferredTo ==
    LET named == {WalkOrder[i].names : i \in DOMAIN WalkOrder} \union {ask.refs[i] : i \in DOMAIN ask.refs}
        given == {asked.refs[i] : i \in DOMAIN asked.refs}
        own == given \cap Nat
        inline == {WalkOrder[i].holds.content : i \in {j \in DOMAIN WalkOrder : WalkOrder[j].collected /\ WalkOrder[j].holds.found}}
    IN  (ask.kind = "chat" /\ at \in {"leaving", "over"} /\ status = 200) =>
            /\ \A i, j \in DOMAIN asked.refs : i # j => asked.refs[i] # asked.refs[j]
            /\ \A id \in own : Of(id).ready
            /\ {Of(id).content : id \in own} = inline \union (IF ask.long THEN {Transcript} ELSE {})
            /\ \A x, y \in own : x # y => Of(x).content # Of(y).content
            /\ ask.long => asked.refs[1] \in own /\ Of(asked.refs[1]).content = Transcript
            /\ given \cap UserFiles = named \cap UserFiles
            /\ tried = {account} => \A id \in own : Of(id).owner = asked.account
===============================================================================
