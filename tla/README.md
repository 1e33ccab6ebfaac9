# TLA+ verification of ds2api

ds2api puts OpenAI-, Claude- and Gemini-compatible APIs in front of DeepSeek's
web chat. It keeps a pool of DeepSeek accounts; each request borrows one, opens
a DeepSeek session, solves a proof of work, streams the answer back and returns
the account. This directory models the parts where several goroutines, files or
remote calls have to agree, and those where one text is read by several
programs that have to agree, checks them with TLC and proves some of the results
with TLAPS.

    tlc -workers 2 -config PoolAdmin.cfg MCAccountPool.tla      # one run
    tlapm AccountPoolProofs.tla                                 # one proof module

`PROJECT.json` lists the runs, the mutants that show each property can fail, the
source lines behind every definition, the hazards, the findings and the
theorems.

## 1. Inventory

Paths are under `src/`; `chat/` is `internal/httpapi/openai/chat/`.

| Component | State | Operations | What is hard | What makes it correct |
|---|---|---|---|---|
| Account pool, `internal/account` | rotation, slots in use, wait queue, limits | Acquire, AcquireWait, Release, Reset, ApplyRuntimeLimits | goroutines between critical sections, cancellation, resets under traffic | no slot lost or counted twice, limits, no lost wakeup, 429 only when full |
| Auth resolver, `internal/auth` | the request's account, token and tried accounts; times of refresh | Determine, RefreshToken, SwitchAccount, Release | partial failure at every step, retries | each slot back exactly once, token and account agree |
| DeepSeek client, `internal/deepseek/client` | loop counters | CreateSession, GetPow, CallCompletion, UploadFile, DeleteSession, auto-continue | retries that refresh and switch; splicing of rounds | loops end; one seamless answer; a file is there once |
| SSE pump and parser, `internal/sse` | pending text, fragment type | line pump, parser, collector, overlap trimming | two goroutines and three channels; text cut anywhere and sent again | order, completeness, termination; the cutting does not matter |
| Stream engine, `internal/stream` | content seen, ticks | ConsumeSSE | timeouts against late content, cancellation | one end, and always one |
| OpenAI chat, `chat/` | the stream runtime, the second attempt | ChatCompletions, streaming and not, empty-answer retry | ends and retries, history beside the stream | one ending, history agrees with it |
| Chat history, `internal/chathistory`, `chat/chat_history.go` | entries, revisions, dirty and deleted marks; index and detail files | Start, Update, Delete, Clear, SetLimit, load, save | crashes between files, failing writes, entries deleted under their session | what was saved is kept, what was removed stays removed, revisions grow |
| Vercel leases, `chat/vercel_stream.go` | leases with an expiry | prepare, pow, release, sweep | expiry against pow and release; the stream runs in another process | the slots taken are those of the leases |
| JavaScript runtime, `internal/js` | the streamed answer | fetches, retries, continues, emits, releases its lease | a dozen ways out; a second implementation of parser and sieve | lease released, one ending, the same text as the Go server |
| Configuration, `internal/config` | the configuration, its indexes, the file | load, Update, token updates, save | handlers of several steps, failing and torn saves, restarts | indexes, file and deployment agree with memory |
| Admin API, `internal/httpapi/admin` | the status of the deployment | changes the configuration and then resets the pool | stale snapshots, requests running meanwhile | what is saved can be loaded; pool and deployment follow |
| Responses API, `internal/httpapi/openai/responses` | output items, stored responses | streaming runtime, store | order of item events, retries, expiry | well-formed event sequence; what is stored is what was sent |
| Tool sieve and parser, `internal/toolstream`, `internal/toolcall` | captured text, open fences | ProcessChunk, Flush, parse and repair | tool calls cut anywhere | stream and whole text have the same calls, no markup leaks |
| Files, `internal/httpapi/openai/files`, `openai/history` | uploads and cache of a request | inline files, upload and poll, history file, session deletion | retries and switches between uploads | the references are complete, single and right |
| Claude, Gemini, `internal/translatorcliproxy` | a line buffer | hand-over to the OpenAI handler, translation back | lines written in parts, refusals, thinking policy | each line once and in order |
| Prompt building, formats | none | conversion | | |
| Captures, samples, web UI, server, version, login, test suite, proof of work | rings of captures | diagnostics, wiring, a hash search | | |

How they interact: a handler calls `Determine`, which calls the pool; the client
calls back into the resolver (`RefreshToken`, `SwitchAccount`), which calls the
pool again; the completion's body is a pipe fed by the auto-continue goroutine
and read by the pump, whose channel the engine consumes; the engine calls the
runtime, which runs the parser and the sieve, and the history session; the
deferred end of the handler gives the account back. The Claude and Gemini routes
call the OpenAI handler through a writer that translates. On Vercel the stream runs
in a JavaScript function that asks the Go function to lease an account, to solve
and to release. The admin API changes the configuration and then the pool; requests
store tokens in the configuration. The context of the request runs through all of it.

`PROJECT.json` lists the components with their status and the hazards at their
lines.

## 2. Modules

    AccountService    what the pool promises (abstract)
    PoolCore          the slot ledger: bodies of the pool's critical sections
      AccountPool     goroutines and administrators around it; implements AccountService
        AccountPoolProofs
      RequestLease    what requests do with an account: logins, retries, switches
        RequestLeaseProofs
      PoolCoreProofs  lemmas on the ledger and the rotation, used by both
    ConfigData        a configuration and the pure functions on it
      ConfigStore     memory, indexes, file, admin handlers, deployment
        ConfigStoreProofs
    ChatHistoryStore  history in memory and on disk, and its sessions
      ChatHistoryStoreProofs
    ChatStream        one streamed answer, from DeepSeek to the client
      ChatStreamProofs
    AnswerText        the text of an answer in tokens, and the calls in it
      SseLine         how a line of the stream is read
      ToolSieve       calls taken out of a text that comes in chunks
        AnswerOutput  cleaning, collecting, the policy of calls
          ResponsesStream   the Responses endpoint and its store
          NodeStream        the port to JavaScript beside the Go stream
    VercelStream      leases between the two functions on Vercel
    FileUploads       files on their way to DeepSeek
      FrontEndProofs    both, what AnswerOutput makes of a text, and NodeStream
    TranslatedAnswer  Claude and Gemini clients behind the OpenAI handler
      AnswerProofs      TranslatedAnswer, ResponsesStream, the five front ends

An `MC...` module gives the components a small instance; `MCFrontEnds` puts the
last five, which share no state, into one run.

**PoolCore.** `queue`, `inUse`, `maxInflightPerAccount` and `globalMaxInflight`
are the fields of `account.Pool`. `listed` is the list of accounts in the configuration,
in which a file may have an identifier twice; `Reset` takes it as it is, in any order
(`Orders`: those with a token come first). `stored` is its range, for which
`Store.FindAccount` succeeds. `Candidates` is the choice of `acquireLocked` and
`tryAcquire`, as the set of accounts they may return (at most one), so that a
grant and a refusal are complementary. A missing map key is 0.

**AccountPool.** Each request is at a program counter: `loop` (about to test its
context), `lock` (about to enter the critical section), `parked` (in the
`select`), `holding`, and its ends. `waiters` is the queue of channels that are
still open; a parked request that is not in it has been notified and has not
run yet. `select` with both cases ready chooses freely: `WakeUp` and `Abandon`
are both enabled. `Reset` has two steps, because it reads the configuration and
writes `maxInflightPerAccount` before it locks. `lease` is what the request
believes it holds; nothing in the pool records it. A handler whose `Store.Update` fails
to save has changed the memory and never comes to the pool (`UpdateUnsaved`); the
history variable `unseen` says that a list of accounts changed this way and no `Reset`
has read it since.

**RequestLease.** The handler's calls are numbered stages (`CreateSession`,
`GetPow`, `CallCompletion`, and for an empty answer `GetPow` and
`CallCompletion` again), each a retry loop. `auth` is the `RequestAuth`; `owns`
is what the code does not keep: the slot really taken and not yet given back.
The pool's operations are those of `PoolCore`; waiting for an account is one
step here, since AccountPool has its protocol. Tokens are represented by the
account they belong to. An early return of the handler (a bad body, a rejected
file) ends in the state in which a failed first loop ends.

**ChatHistoryStore.** `details`, `limit`, `revision`, `dirty` and `deleted` are
the store's fields, `files` and `index` the disk. An operation changes the memory
in one step (it holds the mutex) and then saves one file per step; any of them
can fail (`SaveFails`) or be the last before the process dies (`Crash`). Deleted
files are removed before files are written and the index comes last. Files of
equal kind are touched in any order (the code sorts them by identifier, and
identifiers are random); removing a missing file and rewriting an identical one
are no steps. The contents of an entry are its revision, its two times and
whether its status is final; its revision is the content's identity. `clock`
counts in steps of which two make a millisecond, because revisions are
nanoseconds and the order of entries is by milliseconds; it does not step back,
also not across a restart. `acked`, `gone` and `served` record what callers were told
or could read.

**ChatStream.** One record per stage: `source` (auto-continue), `lines` (pipe,
scanner and `lineCh`), `pump`, `out` (the channel of 128), `handler` (the consume
loop of `ConsumeSSE` with the hooks of `consumeChatStreamAttempt`), `client`, and
`history`. Both attempts have stages of their own, so that goroutines of the
first run beside the second. A text is its number, which makes order, loss and
repetition visible; a result is the sequence of lines the pump put together.
Whether pending text is long enough to be sent is free. `cut` is why the loop
ended when it was not the end of the answer. When the context ends the contents
of the channels, which nobody reads any more, are dropped in the same step; that
the goroutines end is a step of each.

**AccountService.** What the handlers are promised: a request asks, is served an
account with room, or is refused when service and line are full; it has neither
ledger nor rotation. `LeaseSpec` is the part about leases, `SafeSpec` adds both
limits and honest refusals, `ServiceSpec` the fairness. `Service` in AccountPool is the
refinement mapping (a request at `loop`, `lock` or `parked` is asking), so these
definitions model no code and are not in `map`.

**ConfigData, ConfigStore.** `cfg` and `index` are the store's, `file` the disk,
`backing` where the configuration comes from (a file, the environment with or
without write-back), `deployed` the environment of the Vercel project. `FirstOf` is
what a search through the accounts finds and `LastOf` what a map keeps, when a file
lists an identifier twice. What the environment holds is loaded without tokens
but with the hash of the deployment before it (`LoadedFromEnv`), since the export of the
stored configuration keeps that field (`store.go:290`). A method of
the store is one step under its lock; a save may fail or leave half of the
file (it is rewritten in place). Handlers that read a snapshot and change the
configuration later have their steps in `job`: replacing the
configuration, settings, testing an account (`testAccount`), deploying
(`syncVercel`). The others (keys, accounts, proxies, imports) are one step each; those
that change nothing the model has (the name of an account, the address of a proxy) save
all the same. `note` records what no variable of the code does: the configuration last
acknowledged, whether one was stored that the code does not validate, whether
deployments crossed or were forgotten.

**AnswerText, SseLine, ToolSieve, AnswerOutput.** Pure operators. A text is a
sequence of tokens, one for each thing the scanners look for (the table at the head
of AnswerText); the opening of the wrapper is two tokens so that it can be cut.
SseLine reads a frame (path, operation, value) as the parser reads a line: parts
with their type, what ends the answer, leaked markers, trimming of text that
is sent again. ToolSieve is the state machine of `toolstream`; its pending text,
capture, fences and events are the fields of `State`. AnswerOutput is the
non-stream collector, the cleaning of visible output and what counts as empty.
Loops over a text are recursive functions of the place in it (`Over`), so that
FrontEndProofs can say of which type their results are.

**ResponsesStream.** One request, streamed or not. `rt` has the fields of
`responsesStreamRuntime` with the list of events sent; `NextPiece` is any prefix of
the next text, so that every cutting into few pieces is explored; `stage` is where handler
and retry are. `store` is `responseStore` with its deadlines, asked for by anybody
at any time.

**NodeStream.** The JavaScript stream (`node`) and the Go stream (`twin`) read the
same pieces. Where the port does what the original does it is the original's
operator; its own parser of fragments, its sieve and its retry are written out.

**VercelStream.** The two functions and the three requests between them, each of
which may be lost or late (`post`, `solving`), with a clock for the leases. `js`
goes through preparing, fetching, reading and powing to its end, with the retry, the
continuation, an abort by the client and every throw. A lease holds the request's auth,
and each call to DeepSeek with it, the uploads, the session and the proof of work of a
prepare or a later proof of work, may switch accounts (`SwitchAccount`). `strayed` records
the streams whose auth gave its slot back and found no other account, or took one when its
lease was over.

**FileUploads.** A request's blocks are walked in the order of the code, object by
object (`ObjectsOf`): the block, which is replaced when it or what it has under `file`
holds a file; else also the object under `file`, and what is under `image_url`. A block
that names a file may hold others. References are collected from the block and the
object under `file`, both of which may name one. An upload
has attempts with refresh, switch and lost answers, each of which may go out twice
because a failing transport is replaced by the standard one (`doUpload`), then polls; then
the conversation as a file, the completion with its references and the deletion of the
session. `files` is what DeepSeek has: content, owner and readiness.

**TranslatedAnswer.** The OpenAI handler is what it writes (the three parts of
`sendChunk`, keep-alives, `[DONE]`, a body, a refusal); `writer` is
`OpenAIStreamTranslatorWriter`. The translation of one line is a library's and
external: a line is told as one chunk, for Claude after an opening. Whether the rewritten
request asks for thinking is the policy of either endpoint, two operators with the names
of the functions.

## 3. Runs and what they show

| Run | Asks | Result |
|---|---|---|
| PoolAdmin | three requests, any may be cancelled, one administrator changing accounts and limits, with saves that fail | 2.94 M states, holds |
| PoolTraffic | four requests, nobody cancels or resets; liveness and refinement | 15.7 k states, holds |
| PoolLostWakeup | the same with cancellation, one account | **violated** |
| LeaseRetries | two requests, two accounts, pinned or not, all failures; liveness | 856 k states, holds |
| LeaseDoubleRelease | three requests on one account: the per-account limit | **violated** |
| LeaseRetrySwitch | one request, two accounts: does the internal retry stay? | **violated** |
| HistoryCrash | two sessions, an administrator, failing writes, crashes | 2.26 M states, holds |
| HistoryLatch | does a passing failure leave the store usable? | **violated** |
| StreamAnswer | one answer, continued and retried, timeouts, client leaving; liveness | 445 k states, holds |
| StreamStopped | is a request whose client left recorded as stopped? | **violated** |
| ConfigAdmin | a handler of several steps beside those of one, failing saves, crashes | 483 k states, holds |
| FrontEnds | Responses, Vercel, the JavaScript port, files, Claude and Gemini, one at a time | 1.03 M states, holds |

What the violated runs show is in `PROJECT.json` under `findings`:

- *Lost wakeup.* `removeWaiterLocked` does not pass on a notification that was
  given to a waiter who leaves; the next waiter sleeps beside a free account.
- *Double release.* `SwitchAccount` releases the account and, when none other is
  free, leaves it in the request, whose end releases it again: another request's
  slot. PerAccountLimit then fails. What always holds is the other direction,
  NoSlotLeak: no slot is ever lost.
- *Retry on another account.* The proof of work for the retry of an empty answer
  goes through `GetPow`, which may switch accounts.
- *History gives up.* Detail files are removed before the index is written; when
  the process ends between the two, the next load meets an entry without its file
  and latches the error for the whole store.
- *Stopped is overwritten.* After `OnContextDone` has recorded `stopped`, the
  attempt is finalized and recorded as a success or an error.

Of the properties that hold, these are the ones to argue about:

- *NoSlotLeak* (both pool modules): the count never exceeds the real holders.
  It is an inequality because `Reset` forgets slots and the double release
  frees one too many. (That the count is exact without resets, LedgerExact, is
  proved.)
- *LoopsWindDown*: refreshes and switches are not counted as attempts, and yet no
  sequence of them, of failed logins and of retries takes a request nowhere.
- *ServesAsPromised*: the limits of the status page, where nobody resets the pool.
  It is AccountService with its fairness: both limits counted by the requests
  themselves, 429 only when holders and waiters together fill slots and queue, nobody
  forgotten. PerAccountLimit and RefusalMeansSaturation are parts of it (the latter
  proved for any number of administrators, resets and failed saves), and no run checks
  them again.
- *NoStrandedWaiter, EveryAskAnswered*: no lost wakeup without cancellations.
  The requests of that run exclude nothing and pin nothing: a woken request that
  cannot use what was released (it is pinned to another account) passes its
  wakeup to nobody, and NoStrandedWaiter does not hold with such requests.
- *RotationComplete*: while no reset is under way or owed the rotation is the list of
  configured accounts in some order, one that is listed twice twice. It needs one
  administrator at a time: two overlapping resets may install the older list last
  (`pool_core.go:37`).
- *SavedIsKept, RemovedStaysRemoved, UnmarkedIsWritten, RevisionsGrow*: the
  promises of the store through failed saves and restarts. RevisionsGrow speaks of
  every revision a reader may have seen, saved or not. UnmarkedIsWritten is
  why a save may write marked files only.
- *FinishedIsFinal*: also when the entry was deleted or evicted under its
  session, which then begins a new one and repeats its last update.
- *TextIsOneAnswer, FinishedIsComplete*: order and completeness through
  auto-continue, the pump's pending text and the retry.
- *OneEnding, HistorySettled, EverythingEnds*: exactly one ending, the history
  entry agrees with it, and every goroutine of both attempts ends.
- *IndexAgrees, AcknowledgedIsServed, StartsAgain, SyncedIsDeployed, MetadataKept*:
  indexes, disk and deployment agree with the configuration in memory; what
  is served is what was acknowledged, and a server would start with it.
- *StreamedIsCollected, NodeTellsTheSame*: three readers of one text agree.
  The first compares the deltas of the Responses endpoint, as they were sent, with the
  text of its non-stream answer, and the calls it sent with those it counted at the end;
  the second compares
  the JavaScript stream with the Go stream.
- *RetriesInSilence*: an answer is tried again only while the client of the port was shown
  nothing but line breaks; no attempt is told twice, and nothing held back is lost.
- *StreamEventsAgree, StoredIsWhatWasSent*: an item of a response is added once, before
  anything is said of it, and done once, after, at a place of its own; one terminal event
  comes last and has the message as the deltas told it. A stored response is
  given to its owner within its time, and to nobody else.
- *SlotsAreLeases*: no slot is taken that nobody will give back: each is that of a
  request being prepared, of a lease, or of an auth that strayed on its account; and while
  none strayed, nobody lost the slot of his lease. *EndsOnce*: every way out asks for the
  release and tells the client once. Both with lost and late requests between the two
  functions.
- *FilesAreReferredTo*: every inline file once, processed, with its own content; the
  conversation first.
- *ToldInTheirWords*: lines written in parts are translated once and in order; a
  refusal is passed with its status; thinking nobody asked for is not shown.

Every property of a passing run has a mutant: a plausible bug in one mapped
definition (the operator beside it in the module) under which TLC finds the
property violated.

### What properties exclude, and why

Some promises hold only outside a case in which the code was found to behave
otherwise. The case is a named condition of the property, so that the rest is
still checked. No document of the repository quotes them closely enough for a
finding unless said so.

- `note.unchecked` (StartsAgain): a configuration replaced or imported is not
  validated against its own references to proxies (`handler_config_write.go:21,169`), and
  settings are validated against a snapshot (`handler_settings_write.go:26`); the next
  start refuses what was saved (`validation.go:76,100`).
- `note.muddled` (SyncedIsDeployed): two deployments that cross, one that fails
  after it took effect (`handler_vercel.go:47`), a crash between its effect and the
  storing of its hash, or a restart from an environment variable that carries the hash of
  an older deployment.
- A save that failed or was cut off (AcknowledgedIsServed): the memory stays changed
  (`store.go:223`) and the file is rewritten in place
  (`store_env_writeback.go:39`). A replaced configuration may also blank
  passwords, filled in from an older snapshot (`handler_config_write.go:20,51`).
- `unseen` (RotationComplete, NoStrandedWaiter): when `Store.Update` cannot save, the
  memory is changed all the same (`store.go:233`) and the handler returns before
  `Pool.Reset` (`handler_accounts_crud.go:103,170`, `handler_config_write.go:70,221`,
  `handler_config_import.go:128`, `handler_proxies.go:192`). Until the next reset the rotation
  has accounts that `acquire` skips, or lacks some that are configured. An account that comes
  back into memory this way wakes no waiter. NoSlotLeak and RefusalMeansSaturation hold all
  the same; the latter counts the accounts that rotation and configuration both have
  (`Offered`).
- `Misread` (StreamedIsCollected): the sieve does not note a chunk of
  line breaks (`tool_sieve_state.go:49`), overwrites the calls of a first block by
  those of a second in the same chunk (`tool_sieve_core.go:46`), and alone
  executes a bare invoke behind a wrapper.
- `CutWrapper` (StreamedIsCollected): without tools the text of each line is cleaned by itself
  (`responses_stream_runtime_core.go:259`), and with tools that of a fence is passed on line
  by line. A wrapper block without calls of which no line has the whole is then shown to the
  streamed client, markup and all, and is taken out of the other answer; only in this case the
  markup is cleaned away before the two are compared. Markers that are one token here
  (citations, thinking tags) are never cut inside. The other way round, a fenced example that
  comes in one line is taken out of either answer (`leaked_output_sanitize.go:68` knows no
  fences), although `docs/toolcall-semantics.md:60` calls such examples plain text.
- `EmptyRetried` (StreamEventsAgree): a first attempt that counts as empty but said
  line breaks, or markup in pieces, has closed its message when the retry says more
  (`responses_stream_runtime_core.go:164`). Retried answers and the text of searches are
  left out of StreamedIsCollected: streams drop chunks that begin with a citation.
- `Comparable`, `Withheld` (NodeTellsTheSame), where the ports differ although
  `README.en.md:81` claims parity: a piece beginning with a line break before a call
  (the scanners trim and use the places in the untrimmed text, `state.js:171`,
  `parse_payload.js:468`); wrappers without a call or without an opening (no repair in
  the port); calls in thinking (only Go) or without tools (only Go cleans
  them). A Go answer whose last piece ends a call drops what the sieve held
  behind it (`chat_stream_runtime.go:147`). Fragments with a type and no text change the
  type only in Go (`sse_parse_impl.js:183`), so the answers of the run begin with a
  text. An attempt that could not be read to its end is retried by Go, given up by the port.
- `strayed` (SlotsAreLeases): a switch that finds no other account has released the slot and
  keeps the identifier (`request.go:184-209`). In a prepare (`vercel_stream.go:55-88`) the
  lease is then stored without a slot, or the deferred release (`:43`) frees another's. A proof
  of work may also move the account of a lease that is over, and nobody releases the
  new slot (`http_internal.js:160` says otherwise). From then on SlotsAreLeases promises the upper
  bound alone.
- A thrown fetch after the stream began (EndsOnce): the client gets neither finish nor
  `[DONE]` (`vercel_stream_impl.js:117`).
- A request that changed accounts (FilesAreReferredTo): its earlier files stay with the
  first one. Cached duplicates count against the cap (`file_inline_upload.go:130`). The image
  of an object that is not replaced, because it names a file, is uploaded
  (`file_inline_upload.go:114` goes into `image_url`) and referred to by nothing
  (`file_refs.go:65` does not); the property does not count it. Not modelled are containers
  other than `file` and `image_url`, ids under other keys than `file_id`, and that the
  collector takes a payload under `data` that was not uploaded for the id of a file.
- "foreign" thinking (ToldInTheirWords): a Claude request that asks for thinking in words
  only the rewritten request understands is shown it when streamed and not otherwise
  (`handler_messages.go:130`).

### Bounds

| Constant | Runs | Code | Why it is enough |
|---|---|---|---|
| accounts, requests | 1-2, 1-4 | any | two accounts give a choice and an alternative; a holder, a waiter and a newcomer are the cases, and the proofs cover every number |
| limits | per account 1 or 2, queue 1, 2 or derived, global none, 2 or 3 | any | at, below and above the number of requests |
| `Admins` (pool) | 0 or 1 | any | one reset against traffic. With two, an older plan may be installed after a newer one; the proof of NoSlotLeak covers it |
| `Listings` | 1, 3 or 4 lists | any | no account, one, two, and one account listed twice |
| `MaxAttempts` | 2, 3 | 3 | a first and a last attempt; one between |
| `Limits` | 0, 1, 2 | 0, 10, 20, 50 | 0 disables; eviction of one and of two entries |
| `MaxTime` (history) | 6 | none | up to six operations, which includes two saves, a crash and a reload |
| `MaxLines` | 3 | none | text in the pump, in a result and at the client at once |
| `MaxRounds`, `MaxContinues` | 1 | 8 | one continued round, and one not continued because of the bound |
| `LineCap`, `OutCap` | 1 | pipe and 1, 128 | a full and an empty channel |
| `MaxQuiet`, `IdleTicks` | 1 | 10, 18 | a tick is enabled at any time, so waiting longer adds no order of events |
| `Admins` (configuration) | 1 | any | the handlers of one step change the configuration between the steps of the other; two of several steps are left to a larger instance |
| `MaxChanges`, `MaxFaults` | 2, 1 | none | a change during a handler and one after it; one failure, and a start from what it left |
| keys, accounts, proxies | 2, 2, 1 | any | one that stays and one that comes or goes; a reference to a proxy that is there or not |
| `MCAnswers`, `MCNodeAnswers` | 14, 17 | any text | one for each thing the scanners know: call, example, repair, open CDATA, empty wrapper, thinking, filter, citation, repetition, error, nothing |
| `MaxPieces`, `NodePieces` | 2, 3 | none | each text is cut at every place into two or three; a piece before, inside and after markup |
| `MinSnapshot` | 3 | 32 | shorter and longer repetitions |
| `StoreTTL`, `MaxClock` | 1, 2 | 15 minutes | before, at and after the deadline |
| `LeaseTTL`, `MaxTime` | 0, 1 | 15 minutes | a lease lasts until the clock moves: one made before is over, one made after is not |
| `SlotsPer`, streams | 1, 2 | any | a slot freed twice is the other stream's |
| `MCAsks` | 9 | any request | files in every place a block has for them, repeated, not decodable, empty, and in blocks that name another |
| `Talkers` | one stream | any | the other ends without lines; both talking only multiplies the interleavings of JavaScript functions that share nothing |
| `MaxInline`, `MaxPolls` | 2, 2 | 50, 60 | at and over the cap; ready at once, later, never |
| `MaxUttered` | 3 | none | a line, a keep-alive and another line, then the end |

`CHECK_DEADLOCK FALSE` is in the history runs, ConfigAdmin and FrontEnds. In the first
two nothing more happens at the bound of the clock or of the changes; a front end
is through with its one request. Elsewhere `Terminated` is the only way to stop, so a
deadlock would be reported. Requests, identifiers and sessions are symmetric where
only safety is checked. The five front ends share no state, so one run works on one
of them at a time.

### Fairness

- AccountPool: a goroutine inside `AcquireWait` runs on, a handler that holds an
  account ends and releases it (the call is deferred), an administrator's handler
  runs to its end. Weak fairness, no more: nothing promises a woken goroutine the
  mutex before a newcomer. Nobody has to be cancelled. The fairness of
  AccountService (who asks is served or refused) is implied, and checked.
- RequestLease: each request's handler takes its next step. Every remote call
  comes back, times out, or is cancelled with the request; the stream client
  has no timeout of its own, so this assumes DeepSeek or the caller gives up.
- ChatStream: the process's own goroutines, its ticker and the call for the
  second attempt. None for DeepSeek and none for the client: the answer may stop
  anywhere, and the timeouts have to end it. `Tick` stays enabled beside arriving
  results, and weak fairness of it says that `select` does not ignore the ticker
  for ever.
- ChatHistoryStore, ConfigStore and the front ends are checked for safety only.

## 4. Proofs

For every value of the constants the modules assume:

| Module | Properties proved of its specification |
|---|---|
| `AccountPoolProofs` | TypeOK, NoSlotLeak; for any administrators RefusalMeansSaturation; with one at a time RotationComplete, NoStrandedWaiter; without administrators LedgerExact, PerAccountLimit, `Service!LeaseSpec`, `Service!SafeSpec` |
| `RequestLeaseProofs` | TypeOK, NoSlotLeak, LeaseConsistent, LoopsWindDown |
| `ChatHistoryStoreProofs` | TypeOK, RetentionLimit, SavedIsKept, RemovedStaysRemoved, UnmarkedIsWritten, FinishedIsFinal, RevisionsGrow |
| `ChatStreamProofs` | TypeOK, TextIsOneAnswer, FinishedIsComplete, OneEnding, HistorySettled |
| `ConfigStoreProofs` | ConfigTypeOK, IndexAgrees, AcknowledgedIsServed, StartsAgain, SyncedIsDeployed, MetadataKept |
| `FrontEndProofs` | FilesTypeOK, FilesAreReferredTo; VercelTypeOK, EndsOnce, SlotsAreLeases; NodeTypeOK, RetriesInSilence |
| `AnswerProofs` | TranslatedTypeOK, ToldInTheirWords; ResponsesTypeOK, StoredIsWhatWasSent, StreamEventsAgree; of the front ends together (`FrontSpec`) FrontEndsTypeOK and the five specifications |

### What they assume

- Sets of accounts, requests and identifiers are finite, limits are positive, and a name
  that means "none" (`NoAccount`, `NoId`, `NoValue`) is no account, identifier or value.
- ConfigStore: the accounts in a request carry no token (`toAccount` reads none,
  `ClearAccountTokens` is called on an import and on what the environment holds), and a
  configuration file holds each token with its account (the server wrote it). Without the
  first, a request could store the token of one account with another.
- FileUploads: the words for an undecodable, an empty or no payload and for the
  conversation are no contents, and DeepSeek's files and those a client names are
  told apart. Without the latter nobody could say which references are the server's own.
- ResponsesStream and NodeStream: what the upstream says is a sequence of frames, and a text
  a sequence of words (any words: `Text == Seq(STRING)`). This is what the parser of JSON
  hands on.
- RefusalMeansSaturation, NoStrandedWaiter and `SafeSpec`: no request pins an account.
  NoStrandedWaiter and `SafeSpec` further assume that no caller gives up, and
  NoStrandedWaiter that a reset brings the limits there are. Outside these TLC finds
  NoStrandedWaiter violated: PoolLostWakeup is the case of cancellations, the hazard at
  `pool_core.go:95` the others.

The theorems quantify over everything else: any number of accounts, requests,
administrators, keys, lines, rounds, identifiers, crashes and failed saves.

### How they go

Each module has one inductive invariant, which is more than its properties; a lemma
for each action proves that it is kept.

*AccountPool.* NoSlotLeak is inductive with TypeOK: TypeOK says that a lease is
held exactly in phase `holding`, so a grant adds a holder where it adds a slot,
and a release removes one of each. A release of a slot that a reset forgot finds
the count at 0, or takes away another's slot: both keep the inequality, which is
why it is the invariant and equality is not. Without administrators the
strengthening `FixedPool` adds equality (a release then always finds its slot)
and that the count is within the limit; limits no longer change.
`RotationInv` says that the rotation is the configured list in some order while no reset is
under way or owed, and that a plan about to be installed was made from the list that is
still configured; a `bumpQueue` is a permutation of the places (`BumpQueueRotates`).
A refusal has found every account that rotation and configuration both have at its limit, or
the pool, whatever administrators did: with NoSlotLeak
the holders are then at least as many as the slots; `LoadCounted` turns the
counts per account into one of requests (`SumFunction` of the community
modules, whose laws are in PoolCoreProofs).

`LineInv` is for lost wakeups. NoStrandedWaiter speaks of one waiter and one account
and is not inductive: who wakes may take another slot than the one that was
released. What is kept is a count (`WakeupsSuffice`): while anybody waits, the slots
in use and the requests on their way to the pool (`Coming`) are together at least
the capacity. A release frees one slot and wakes one; a woken request that
takes a slot leaves both sums alone; one that parks again found everything taken. It
needs that each waiter stands in the line once (`LineOK`), that no account has more
slots taken than it has (`SlotsOK`), and that the limits are those of the settings
(`LimitsFollow`): a reset empties the ledger and wakes as many as there are slots.
`ImplementsService` combines them: every step of the pool is a step of
AccountService, or none.

*RequestLease.* The invariant is `IInv == TypeOK /\ LeaseInv /\ NoSlotLeak`.
`LeaseInv` says, phase by phase, whether a request owns a slot and which; what a
phase does not say is whether a calling request still owns its account, and that
is exactly the double release. LeaseConsistent follows from `LeaseInv`.
LoopsWindDown is the variant behind EveryRequestEnds, as an action property: a step takes a
request to a later stage or attempt, or makes `StepsLeft` smaller, which counts twice each
account not tried yet (it may be taken, and put aside when its login fails) and the refresh.
That needs `ChosenUntried`: a login is tried only for an account that was not tried before.
Stages, attempts and `StepsLeft` are bounded, so that only standing still could keep a
request from its end, and that its fairness excludes; this last step is TLC's.

*ChatHistoryStore.* `StoreInv` joins the promises to what makes them inductive: only
identifiers that were given out are anywhere, and the two kinds of marks are on
entries that are there and that are not (`Known`); revisions are not ahead of the
clock (`Dated`); a store that is not up has nothing in memory (`DownIsEmpty`); and
what was reported as saved is in the index and in its file, where a restart finds it
(`SavedOnDisk`). Every operation ends in `Commit`, whose lemma says what it
needs. `SessionInv` adds that no two sessions share an entry and that sessions die
with the process; FinishedIsFinal needs both.

*ChatStream.* `EndingInv` needs nothing of the order of the text: until the handler
returns no ending was told (`Unended`), a retry follows a first attempt that said
nothing (`RetriedOnce`), and the records have their fields (`Records`). `StreamInv` is about
the text. Its heart is `Flow`: the client's text followed by the texts in the channels of the
attempt, in the order channel, result being sent, pending text, lines (`PipeOf`), is what
DeepSeek said, unless the end is already among them; then nothing with a text is behind
it. `Ends` says that a pump that has seen the end of the lines left nothing
behind, `Shape` that no result is empty, `Fits` that there is room for the end of the
stream. A step moves a text from one stage to the next, and the lemmas on sequences say
that the whole stays the same. When the context ends the channels are dropped and `Flow`
is over; `Begun` remains, that the client has a beginning of what was said. `Begun` names what is
missing, so that a prefix is an equation between sequences.

*ConfigStore.* `ConfigInv` adds to the properties: the configuration is `Canonical`, both
lists of keys are the same and without repetition, which is what makes an index of the
one an index of the other; `Indexed`, that the index of accounts leads to an
account of that identifier (equality with a rebuilt index does not survive
`UpdateAccountToken`, which enters an account under the identifier it was asked
for); `Backed` and `Acknowledged`, that what was acknowledged is in the file in the
form a load leaves alone; and `Deploying`, that between deployments the hashes in memory and
in the file are that of the last deployment or none. The lemmas before it are about the
operators on lists: `FirstOfEach` and `ElementsAt` keep the order, every name and
nothing twice; `ReconcileCredentials` and `NormalizeCredentials` give a canonical
configuration whichever list was changed; normalising or clearing tokens twice is doing
it once. `MetadataKept` is an action property; it holds of each handler because the names
of the keys that stay are found again in the records they came from.

*VercelStream.* `VercelInv == VercelTypeOK /\ EndsOnce /\ NotOverYet`. SlotsAreLeases is
two counts per account. `Bounded`: the slots are at most the streams on the account that
are preparing, hold a lease or strayed (`Near`); a release takes those it ends from both
sides, and one that frees another's slot only widens the gap. `Counted`: they are as many as
the preparing and holding, while nobody strayed. A switch that keeps a slot moves it
with its stream in both counts; the others let the stream stray, which only needs the first.
`Unspoilt` says that a stream that has not prepared yet cannot have strayed.

*FileUploads.* `FilesInv` says what the cache means (`Cached`: each content once, its file
processed, of an object that was walked, and the walked objects have no other files), where an
upload under way comes from and what is left of it (`Called`), who owns the files (`Owned`), and
that the references are right from the moment they are collected until the
completion (`Referred`). That a list is collected without repetition and without a loss is
`DistinctLaws` and `OtherThanLaws`, about recursive functions.

*TranslatedAnswer.* `TranslatedInv` follows the writer between its parts: `Buffered` says
that it holds the parts of the line that is being written and nothing else, `Underway` that
what the client was given is what the whole lines mean (`AllMeant`), that the library was
given those that are no keep-alives, and that no thinking was told to whom it is
not shown. A part that completes no line changes the buffer only; one that does
adds the meaning of that line to both sides. What is computed over a sequence is a recursive
function, for which `Follows` states the steps: where these are typed, so is the result
(`RunsTyped`), and there is only one (`RunsAgree`).

*What AnswerOutput makes of a text.* The second half of FrontEndProofs takes each operator of
AnswerText, SseLine, ToolSieve and AnswerOutput in the order of its use and says that of a
text it makes a text: fenced lines removed, markup parsed, calls counted by a number, a
chunk sifted into events of texts and calls, a line read into parts with one of
the two types. They hold of any set of words. How many words are
taken, and from where, is part of it where a later step depends on it: a place found in a
text is one of its places, what is cut off is not longer.

*NodeStream.* The last part of FrontEndProofs does the same for the port: its reading of a line, which
shows thinking only to whom it is shown (`NodeChunks`), its parser and its sieve, whose places are
those of the trimmed text and still places in the text (`LeadLeftOut`), also where they break a block
(`BrokenTyped`). Of no string can a prover say that it is one, so the words of the sieves are the
strings and those the port writes itself (`Words`). `NodeInv` says that both streams are
`Tellings` and that a stream which waits for a retry has one left; the latter holds because an
attempt that may not be tried again says how it ended (`EndTyped`). RetriesInSilence needs more:
while an answer's text is nothing but line breaks, the sieve holds only such and the client was
told only such or calls (`Silent`), because a sieve of line breaks finds no markup in them
(`LineBreaksBare`) and a text that is blank was blank before a piece was added (`BlankText`).
The lemmas on the port's sieve are therefore stated for either vocabulary (`Vocabularies`).

*The five front ends.* A step of one leaves the variables of the others alone, so that a behaviour of
`FrontSpec` is one of each of the five specifications (`FrontEndsApart`), and every theorem about
one of them holds of the run that checks it.

*ResponsesStream.* `ResponsesInv` says what the runtime may be at each stage (`RuntimeKept`).
While an attempt is read it is `Live`: items are added under numbers not given before, at
places not given before, and before anything else is said of them (`AddedKept`); every item
but the message, and the call being told, is done and nothing is said of it afterwards
(`DoneKept`); what `visible` holds is the text of the deltas sent (`DeltasOf`). At the
end of an attempt the message is done too (`Closed`), in a first attempt as the last thing said
of it. A message is done only two events after its `text.done`, which is how a message
that a retry takes up again is recognised as one of `EmptyRetried`. `Concluded` is a
closed runtime with one event more, whose output has the message with its id, its place and
its `visible` text; that is `TellsOf`. Each call sent (three events), each delta and the
closing of the message is a lemma about the events it appends, and the loops over parts, sieve
events and calls carry `Live` through. The store has the one entry of this response
while it is kept, whatever was asked for in between (`StoreKept`).

Recursive functions over sequences (`Distinct`, `OtherThan`, `SumFunction`, the texts of a
pipe) need an induction, and the library's induction theorems take the predicate as a
parameter, which the provers here cannot instantiate. The proofs argue by a
least counterexample instead: of the places where the claim fails, a set of numbers, the
least one exists (`LeastNumber`), and the definition gives it from the one
before. That works for a predicate fixed in the lemma; it is repeated where needed. Of
`SelectSeq` the prover knows nothing, so ConfigData picks elements by their places
(`ElementsAt`), which is the same list.

### Only model-checked

- All liveness (EveryAskAnswered, EveryRequestEnds, EverythingEnds) and the fairness
  of ServesAsPromised: weak fairness is beyond the prover. Of ServesAsPromised the safety
  half is proved (`ImplementsService`).
- StreamedIsCollected and NodeTellsTheSame compare what two readers make of one text, cut
  anywhere in one of them. That is an induction over the text with a relation between a
  sieve in the middle of a call and a parser that has all of it, and it holds outside the
  named exceptions only; what is proved of these readers is of which type their results are.

## 5. Not modelled

- The native streams of Claude and Gemini (`claudeStreamRuntime`,
  `handleClaudeStreamRealtime`, `handleStreamGenerateContent` and its non-stream
  sibling): only tests reach them; the routes go through the OpenAI handler.
- The non-stream chat handler beyond collector and retry (it has no idle
  timeout: `consumer.go:43` is a hazard without a property).
- Legacy migration of the history file (it runs once), and deletion of all sessions
  beyond its call at the end of a request.
- The torn read of `maxInflightPerAccount` that the data race in `Reset` would
  allow: one machine word.
- Callers with a DeepSeek token of their own: they touch no shared state.
- Prompts, the conversion of messages, tools and contents, the spelling of names
  and attributes in tool markup, JSON repair of arguments, formatting of answers,
  token counts: text without state.
- Login and sessions of the admin API, version, captures and raw samples, the
  web UI, the executables and the test suite, HTTP, TLS and proxies, the hash search
  of the proof of work.

## 6. Plan

1. Proofs: that the calls a response sent are those it counts, the second half of
   StreamedIsCollected, which needs the sieve related to the parser; and NoStrandedWaiter
   with changing limits, once a version of it is found that holds.
2. The non-stream chat handler with its hold on the account while DeepSeek is silent.
3. ConfigAdmin with two handlers of several steps and with crossing deployments, as a
   larger instance (the proofs cover any number); the pool's `Reset` in ConfigStore, so
   that AccountPool takes its accounts from it.
4. Chat history: the legacy migration against a crash.
