--------------------------- MODULE ChatHistoryStore ---------------------------
(***************************************************************************)
(* The conversation history: internal/chathistory (a store in memory, an   *)
(* index file and one detail file per entry on disk) and the sessions that *)
(* record a chat completion into it (openai/chat/chat_history.go).         *)
(*                                                                         *)
(* Every operation of the store runs under one mutex: it changes the       *)
(* memory, then saves.  Nothing else runs during a save, but each file the *)
(* save touches is a step of its own, because a write may fail and the     *)
(* process may be killed between any two of them.  A single file is        *)
(* written to a temporary file and renamed, so it is old or new, never     *)
(* half of each.                                                           *)
(***************************************************************************)
EXTENDS Integers, FiniteSets, Functions

CONSTANTS
    Ids,           \* the identifiers entries may get, each used once (UUIDs)
    NoId,          \* a session without an entry
    Sessions,      \* chat completions that record their history
    Limits,        \* the retention limits an administrator may set
    DefaultLimit,  \* the limit of a store without an index file
    MaxTime        \* bound: no operation starts at or after this time

ASSUME LimitsAssumption ==
    /\ Limits \subseteq Nat
    /\ DefaultLimit \in Limits \ {0}

ASSUME IdsAssumption == IsFiniteSet(Ids) /\ NoId \notin Ids

ASSUME TimeAssumption == MaxTime \in Nat

VARIABLES
    \* in memory
    store,      \* "down", "idle", "saving", or "broken" when the load failed
    details,    \* Store.details: the entries; the index lists exactly these
    limit,      \* Store.state.Limit, 0 when recording is disabled
    revision,   \* Store.state.Revision
    dirty,      \* Store.dirty: detail files to write
    deleted,    \* Store.deleted: detail files to remove
    \* on disk
    files,      \* the detail files
    index,      \* the index file
    \* outside the store
    clock,      \* the wall clock in nanoseconds, it never steps back
    used,       \* identifiers given out so far
    pc,         \* where each session is
    entry,      \* the entry it records into
    final,      \* the update it is making is its last
    \* what the store has promised
    acked,      \* revisions reported as saved, of entries not removed since
    gone,       \* entries whose removal was reported as saved
    served      \* the highest revision a reader may have seen

memory == <<details, limit, revision, dirty, deleted>>
disk == <<files, index>>
sessions == <<pc, entry, final>>
promises == <<acked, gone, served>>
vars == <<store, memory, disk, clock, used, sessions, promises>>

Entry == [rev : Nat, created : Nat, updated : Nat, status : {"streaming", "final"}]
\* The index file: which entries there are, what is kept of them.
File == [limit : Limits, revision : Nat, ids : SUBSET Ids]

Phases == {"new", "open", "recreate", "reupdate", "closed", "off", "lost"}
Nothing == [i \in {} |-> i]

PartialMap(f, S) == DOMAIN f \subseteq Ids /\ \A i \in DOMAIN f : f[i] \in S

TypeOK ==
    /\ store \in {"down", "idle", "saving", "broken"}
    /\ PartialMap(details, Entry)
    /\ PartialMap(files, Entry)
    /\ PartialMap(acked, Nat)
    /\ limit \in Limits
    /\ revision \in Nat
    /\ dirty \subseteq Ids /\ deleted \subseteq Ids /\ dirty \cap deleted = {}
    /\ index \in File
    /\ clock \in Nat /\ served \in Nat
    /\ used \subseteq Ids /\ gone \subseteq used
    /\ pc \in [Sessions -> Phases]
    /\ entry \in [Sessions -> Ids \cup {NoId}]
    /\ final \in [Sessions -> BOOLEAN]

-----------------------------------------------------------------------------
\* Revisions and times

\* Two operations are less than a millisecond apart, or not.
Milli(t) == t \div 2
Passing == {clock + 1, clock + 2}

\* Mutant: the revision counts on from the index alone.
nextRevisionFromIndex(now) == revision + 1

nextRevision(now) == IF now > revision THEN now ELSE revision + 1

-----------------------------------------------------------------------------
\* Retention

\* The order of the index: by last update, then by creation.
Newer(e, f) ==
    \/ e.updated > f.updated
    \/ e.updated = f.updated /\ e.created > f.created

\* Mutant: one entry more than the limit is kept.
KeptOffByOne(d, lim) ==
    IF lim = 0 \/ Cardinality(DOMAIN d) <= lim + 1
    THEN {DOMAIN d}
    ELSE {K \in SUBSET DOMAIN d : Cardinality(K) = lim + 1}

\* What rebuildIndexLocked may keep; entries of the same age are in any order.
Kept(d, lim) ==
    IF lim = 0 \/ Cardinality(DOMAIN d) <= lim
    THEN {DOMAIN d}
    ELSE {K \in SUBSET DOMAIN d :
            /\ Cardinality(K) = lim
            /\ \A k \in K, e \in DOMAIN d \ K : ~Newer(d[e], d[k])}

\* Mutant: an evicted entry keeps its mark for writing.
CommitKeepsMarks(d, lim, rev, toWrite, toRemove) ==
    /\ limit' = lim
    /\ revision' = rev
    /\ \E K \in Kept(d, lim) :
          /\ details' = Restrict(d, K)
          /\ dirty' = toWrite
          /\ deleted' = toRemove \cup (DOMAIN d \ K)
          /\ acked' = Restrict(acked, DOMAIN acked \cap K)
    /\ store' = "saving"

\* The end of every operation: the index is rebuilt from the entries of d,
\* which marks what it evicts, and the save begins.
Commit(d, lim, rev, toWrite, toRemove) ==
    /\ limit' = lim
    /\ revision' = rev
    /\ \E K \in Kept(d, lim) :
          /\ details' = Restrict(d, K)
          /\ dirty' = toWrite \cap K
          /\ deleted' = toRemove \cup (DOMAIN d \ K)
          /\ acked' = Restrict(acked, DOMAIN acked \cap K)
    /\ store' = "saving"

-----------------------------------------------------------------------------
\* Operations of the store: the part in memory

Ready == store = "idle" /\ clock < MaxTime

Put(d, i, e) == [j \in DOMAIN d \cup {i} |-> IF j = i THEN e ELSE d[j]]

\* A new entry i, when recording is enabled.
Start(i) ==
    /\ Ready /\ limit # 0
    /\ i \in Ids \ used
    /\ used' = used \cup {i}
    /\ clock' \in Passing
    /\ LET rev == nextRevision(clock')
           e == [rev |-> rev, created |-> Milli(clock'), updated |-> Milli(clock'),
                 status |-> "streaming"]
       IN  Commit(Put(details, i, e), limit, rev, dirty \cup {i}, deleted)
    /\ UNCHANGED <<disk, gone, served>>

\* Mutant: the changed entry is not marked for writing.
UpdateUnmarked(i, status) ==
    /\ Ready
    /\ i \in DOMAIN details
    /\ clock' \in Passing
    /\ LET rev == nextRevision(clock')
           e == [details[i] EXCEPT !.rev = rev, !.updated = Milli(clock'), !.status = status]
       IN  Commit(Put(details, i, e), limit, rev, dirty, deleted)
    /\ UNCHANGED <<disk, used, gone, served>>

Update(i, status) ==
    /\ Ready
    /\ i \in DOMAIN details
    /\ clock' \in Passing
    /\ LET rev == nextRevision(clock')
           e == [details[i] EXCEPT !.rev = rev, !.updated = Milli(clock'), !.status = status]
       IN  Commit(Put(details, i, e), limit, rev, dirty \cup {i}, deleted \ {i})
    /\ UNCHANGED <<disk, used, gone, served>>

Remove(S) ==
    /\ Ready
    /\ clock' \in Passing
    /\ Commit(Restrict(details, DOMAIN details \ S), limit, nextRevision(clock'),
              dirty \ S, deleted \cup S)
    /\ UNCHANGED <<disk, used, sessions, gone, served>>

\* An administrator deletes an entry, clears the history, or changes how much
\* of it is kept; limit 0 stops the recording and keeps everything.
Delete(i) == i \in DOMAIN details /\ Remove({i})

Clear == Remove(DOMAIN details)

SetLimit(lim) ==
    /\ Ready
    /\ clock' \in Passing
    /\ Commit(details, lim, nextRevision(clock'), dirty, deleted)
    /\ UNCHANGED <<disk, used, sessions, gone, served>>

-----------------------------------------------------------------------------
\* Operations of the store: the save

StaleFiles == deleted \cap DOMAIN files
Unwritten == {i \in dirty : i \notin DOMAIN files \/ files[i] # details[i]}

\* Readers (Snapshot, Revision, Get, DetailRevision) see the memory when the
\* operation has ended, saved or not; they poll for a revision they have not seen.
Seen == IF revision > served THEN revision ELSE served

RemoveStale(i) ==
    /\ store = "saving"
    /\ i \in StaleFiles
    /\ files' = Restrict(files, DOMAIN files \ {i})
    /\ UNCHANGED <<store, memory, index, clock, used, sessions, promises>>

WriteDetail(i) ==
    /\ store = "saving"
    /\ StaleFiles = {}
    /\ i \in Unwritten
    /\ files' = Put(files, i, details[i])
    /\ UNCHANGED <<store, memory, index, clock, used, sessions, promises>>

\* Mutant: the index is written before the detail files.
WriteIndexFirst ==
    /\ store = "saving"
    /\ index' = [limit |-> limit, revision |-> revision, ids |-> DOMAIN details]
    /\ dirty' = {} /\ deleted' = {}
    /\ acked' = [i \in DOMAIN details |-> details[i].rev]
    /\ gone' = used \ DOMAIN details
    /\ served' = Seen
    /\ store' = "idle"
    /\ UNCHANGED <<details, limit, revision, files, clock, used, sessions>>

\* Mutant: the index is left as it is when no entry has changed.
WriteIndexIfDirty ==
    /\ store = "saving"
    /\ StaleFiles = {} /\ Unwritten = {}
    /\ index' = IF dirty = {} THEN index
                ELSE [limit |-> limit, revision |-> revision, ids |-> DOMAIN details]
    /\ dirty' = {} /\ deleted' = {}
    /\ acked' = [i \in DOMAIN details |-> details[i].rev]
    /\ gone' = used \ DOMAIN details
    /\ served' = Seen
    /\ store' = "idle"
    /\ UNCHANGED <<details, limit, revision, files, clock, used, sessions>>

\* The last file.  The operation is reported as done, and everything it and
\* the failed saves before it had to write is on disk.
WriteIndex ==
    /\ store = "saving"
    /\ StaleFiles = {} /\ Unwritten = {}
    /\ index' = [limit |-> limit, revision |-> revision, ids |-> DOMAIN details]
    /\ dirty' = {} /\ deleted' = {}
    /\ acked' = [i \in DOMAIN details |-> details[i].rev]
    /\ gone' = used \ DOMAIN details
    /\ served' = Seen
    /\ store' = "idle"
    /\ UNCHANGED <<details, limit, revision, files, clock, used, sessions>>

\* A file cannot be removed or written: an error is returned, the memory keeps
\* the change and the marks, and the store works on.
SaveFails ==
    /\ store = "saving"
    /\ store' = "idle"
    /\ served' = Seen
    /\ UNCHANGED <<memory, disk, clock, used, sessions, acked, gone>>

-----------------------------------------------------------------------------
\* The process

\* It is killed, in the middle of a save or not.
Crash ==
    /\ store \in {"idle", "saving"}
    /\ store' = "down"
    /\ details' = Nothing /\ dirty' = {} /\ deleted' = {}
    /\ pc' = [s \in Sessions |-> IF pc[s] = "new" THEN "new" ELSE "lost"]
    /\ UNCHANGED <<limit, revision, disk, clock, used, entry, final, promises>>

\* Loading needs the detail file of every entry of the index ...
Load ==
    /\ store = "down"
    /\ index.ids \subseteq DOMAIN files
    /\ Commit(Restrict(files, index.ids), index.limit, index.revision, {}, {})
    /\ UNCHANGED <<disk, clock, used, sessions, gone, served>>

\* ... and gives the whole store up when one is missing.
LoadFails ==
    /\ store = "down"
    /\ ~(index.ids \subseteq DOMAIN files)
    /\ store' = "broken"
    /\ UNCHANGED <<memory, disk, clock, used, sessions, promises>>

-----------------------------------------------------------------------------
\* Sessions

\* The request begins an entry, or none when recording is off or broken.
Open(s) ==
    /\ pc[s] = "new"
    /\ \E i \in Ids :
          /\ Start(i)
          /\ entry' = [entry EXCEPT ![s] = i]
    /\ pc' = [pc EXCEPT ![s] = "open"]
    /\ UNCHANGED final

Unrecorded(s) ==
    /\ pc[s] \in {"new", "recreate"}
    /\ (store = "idle" /\ limit = 0) \/ store = "broken"
    /\ pc' = [pc EXCEPT ![s] = "off"]
    /\ UNCHANGED <<store, memory, disk, clock, used, entry, final, promises>>

After(last) == IF last THEN "closed" ELSE "open"
Status(last) == IF last THEN "final" ELSE "streaming"

\* What a session may report: progress or the final result, and once it has
\* reported "stopped" (the client is gone) the result that follows all the same.
Reports(s) ==
    CASE pc[s] = "open" -> BOOLEAN
      [] pc[s] = "closed" -> {TRUE}
      [] OTHER -> {}

\* Progress, or a final result (success, error or stopped).
Persist(s) ==
    /\ \E last \in Reports(s) :
          /\ Update(entry[s], Status(last))
          /\ pc' = [pc EXCEPT ![s] = After(last)]
    /\ UNCHANGED <<entry, final>>

\* The entry is no longer there: an administrator or the limit removed it.
\* The session begins a new one and repeats the update.
Missing(s) ==
    /\ store = "idle"
    /\ entry[s] \notin DOMAIN details
    /\ final' \in {[final EXCEPT ![s] = last] : last \in Reports(s)}
    /\ pc' = [pc EXCEPT ![s] = "recreate"]
    /\ UNCHANGED <<store, memory, disk, clock, used, entry, promises>>

Recreate(s) ==
    /\ pc[s] = "recreate"
    /\ \E i \in Ids :
          /\ Start(i)
          /\ entry' = [entry EXCEPT ![s] = i]
    /\ pc' = [pc EXCEPT ![s] = "reupdate"]
    /\ UNCHANGED final

\* Mutant: the repeated update is always made as a progress update.
RepeatAsProgress(s) ==
    /\ pc[s] = "reupdate"
    /\ Update(entry[s], "streaming")
    /\ pc' = [pc EXCEPT ![s] = After(final[s])]
    /\ UNCHANGED <<entry, final>>

Repeat(s) ==
    /\ pc[s] = "reupdate"
    /\ Update(entry[s], Status(final[s]))
    /\ pc' = [pc EXCEPT ![s] = After(final[s])]
    /\ UNCHANGED <<entry, final>>

\* Removed once more: the session stops recording.
MissingAgain(s) ==
    /\ pc[s] = "reupdate"
    /\ store = "idle"
    /\ entry[s] \notin DOMAIN details
    /\ pc' = [pc EXCEPT ![s] = "off"]
    /\ UNCHANGED <<store, memory, disk, clock, used, entry, final, promises>>

-----------------------------------------------------------------------------

Init ==
    /\ store = "down"
    /\ details = Nothing /\ limit = DefaultLimit /\ revision = 0
    /\ dirty = {} /\ deleted = {}
    /\ files = Nothing
    /\ index = [limit |-> DefaultLimit, revision |-> 0, ids |-> {}]
    /\ clock = 0 /\ used = {}
    /\ pc = [s \in Sessions |-> "new"]
    /\ entry = [s \in Sessions |-> NoId]
    /\ final = [s \in Sessions |-> FALSE]
    /\ acked = Nothing /\ gone = {} /\ served = 0

Session(s) ==
    Open(s) \/ Unrecorded(s) \/ Persist(s) \/ Missing(s) \/ Recreate(s)
        \/ Repeat(s) \/ MissingAgain(s)

Admin ==
    \/ \E i \in Ids : Delete(i)
    \/ Clear
    \/ \E lim \in Limits : SetLimit(lim)

Save ==
    \/ \E i \in Ids : RemoveStale(i) \/ WriteDetail(i)
    \/ WriteIndex \/ SaveFails

Next ==
    \/ \E s \in Sessions : Session(s)
    \/ Admin \/ Save \/ Crash \/ Load \/ LoadFails

Spec == Init /\ [][Next]_vars

-----------------------------------------------------------------------------
\* Properties

Up == store \in {"idle", "saving"}

\* Outside the disabled mode neither the memory nor what a reader of the index
\* file sees exceeds the limit that goes with it.
RetentionLimit ==
    /\ Up /\ limit # 0 => Cardinality(DOMAIN details) <= limit
    /\ index.limit # 0 => Cardinality(index.ids) <= index.limit

\* What was reported as saved is not lost, whatever writes fail afterwards and
\* whenever the process is killed: while the store is up it holds each such
\* entry, at that revision or a later one, until the entry is removed.
SavedIsKept ==
    Up => \A i \in DOMAIN acked : i \in DOMAIN details /\ details[i].rev >= acked[i]

\* An entry whose removal was reported as done never comes back, not even with
\* a restart.
RemovedStaysRemoved == gone \cap (DOMAIN details \cup index.ids) = {}

\* A save that writes only the marked files is enough: an entry that is not
\* marked has its present content on disk, also after saves that failed at any
\* file and after a restart.
UnmarkedIsWritten ==
    Up => \A i \in DOMAIN details \ dirty : i \in DOMAIN files /\ files[i] = details[i]

\* Every operation gets a revision above all that a reader has seen, also
\* those that were never saved and that a restart has forgotten: the ETags of
\* the list and of the details are made of it, and none is used again for
\* something else.
RevisionsGrow ==
    [][store = "idle" /\ store' = "saving" => revision' > served]_vars

\* A chat completion that is over does not leave its entry "streaming", also
\* when the entry was removed under it and began anew.
FinishedIsFinal ==
    \A s \in Sessions :
        pc[s] = "closed" /\ Up /\ entry[s] \in DOMAIN details
            => details[entry[s]].status = "final"

\* A failure of persistence that has passed does not leave the store unusable.
FailuresDoNotLatch == store # "broken"

===============================================================================
