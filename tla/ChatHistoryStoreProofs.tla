------------------------- MODULE ChatHistoryStoreProofs -------------------------
(***************************************************************************)
(* Proofs about ChatHistoryStore, for every set of identifiers and         *)
(* sessions, all limits, and any number of failed saves and crashes.       *)
(***************************************************************************)
EXTENDS ChatHistoryStore, FiniteSetTheorems, TLAPS

-----------------------------------------------------------------------------
\* The inductive invariant

\* The type invariant, without the sessions and with them.
StoreType ==
    /\ store \in {"down", "idle", "saving", "broken"}
    /\ PartialMap(details, Entry) /\ PartialMap(files, Entry) /\ PartialMap(acked, Nat)
    /\ limit \in Limits /\ revision \in Nat
    /\ dirty \subseteq Ids /\ deleted \subseteq Ids /\ dirty \cap deleted = {}
    /\ index \in [limit : Limits, revision : Nat, ids : SUBSET Ids]
    /\ clock \in Nat /\ served \in Nat
    /\ used \subseteq Ids /\ gone \subseteq used

SessionType ==
    /\ pc \in [Sessions -> Phases]
    /\ entry \in [Sessions -> Ids \cup {NoId}]
    /\ final \in [Sessions -> BOOLEAN]

\* Only identifiers that were given out are anywhere, and an entry that is to
\* be written is there while a file to be removed has no entry.
Known ==
    /\ DOMAIN details \subseteq used /\ DOMAIN files \subseteq used
    /\ index.ids \subseteq used /\ deleted \subseteq used
    /\ dirty \subseteq DOMAIN details /\ deleted \cap DOMAIN details = {}

\* Nothing is newer than the clock.
Dated ==
    /\ revision <= clock /\ served <= clock /\ index.revision <= clock
    /\ \A i \in DOMAIN details : details[i].rev <= clock
    /\ \A i \in DOMAIN files : files[i].rev <= clock

\* A store that is not up has nothing in memory.
DownIsEmpty == ~Up => DOMAIN details = {} /\ dirty = {} /\ deleted = {}

\* What was reported as saved is on disk, and a restart will find it.
SavedOnDisk ==
    \A i \in DOMAIN acked : i \in index.ids /\ i \in DOMAIN files /\ files[i].rev >= acked[i]

StoreInv ==
    /\ StoreType /\ Known /\ Dated /\ DownIsEmpty /\ SavedOnDisk
    /\ RetentionLimit /\ SavedIsKept /\ RemovedStaysRemoved /\ UnmarkedIsWritten

\* Sessions have entries of their own, and begin anew with the process.
OwnEntries ==
    /\ \A s \in Sessions : entry[s] \in used \cup {NoId}
    /\ \A s, t \in Sessions : s # t /\ entry[s] = entry[t] => entry[s] = NoId

LostWithTheProcess == store = "down" => \A s \in Sessions : pc[s] \in {"new", "lost"}

SessionInv == SessionType /\ OwnEntries /\ LostWithTheProcess /\ FinishedIsFinal

-----------------------------------------------------------------------------
\* The operations

\* The end of an operation, whatever it made of the entries: d has what it is
\* to have, each unmarked entry of it is on disk, and the rest is marked.
LEMMA CommitStep ==
    ASSUME StoreInv, NEW d, NEW lim \in Limits, NEW rev \in Nat, NEW W, NEW R,
           Commit(d, lim, rev, W, R), PartialMap(d, Entry),
           clock' \in Nat, clock <= clock', rev <= clock',
           used \subseteq used', used' \subseteq Ids, DOMAIN d \subseteq used',
           R \subseteq used', R \cap DOMAIN d = {},
           \A i \in DOMAIN d : d[i].rev <= clock',
           \A i \in DOMAIN d \ W : i \in DOMAIN files /\ files[i] = d[i],
           \A i \in DOMAIN acked \cap DOMAIN d : d[i].rev >= acked[i],
           gone \cap DOMAIN d = {},
           UNCHANGED <<disk, gone, served>>
    PROVE  /\ StoreInv'
           /\ store' = "saving"
           /\ DOMAIN details' \subseteq DOMAIN d
           /\ \A i \in DOMAIN details' : details'[i] = d[i]
  <1>1. PICK K \in Kept(d, lim) :
           /\ details' = Restrict(d, K) /\ dirty' = W \cap K
           /\ deleted' = R \cup (DOMAIN d \ K)
           /\ acked' = Restrict(acked, DOMAIN acked \cap K)
    BY DEF Commit
  <1>2. K \subseteq DOMAIN d /\ (lim # 0 => (K = DOMAIN d /\ Cardinality(K) <= lim) \/ Cardinality(K) = lim)
    BY <1>1 DEF Kept
  <1>3. store' = "saving" /\ limit' = lim /\ revision' = rev
    BY DEF Commit
  <1>4. /\ DOMAIN details' = K /\ \A i \in K : details'[i] = d[i]
        /\ DOMAIN acked' = DOMAIN acked \cap K
        /\ \A i \in DOMAIN acked' : acked'[i] = acked[i]
    BY <1>1 DEF Restrict
  <1>5. files' = files /\ index' = index /\ gone' = gone /\ served' = served
    BY DEF disk
  <1>6. StoreType'
    <2>1. PartialMap(details', Entry)
      BY <1>2, <1>4 DEF PartialMap
    <2>2. PartialMap(acked', Nat)
      BY <1>4 DEF StoreInv, StoreType, PartialMap
    <2>3. PartialMap(files', Entry)
      BY <1>5 DEF StoreInv, StoreType
    <2>4. dirty' \cap deleted' = {} /\ dirty' \subseteq Ids /\ deleted' \subseteq Ids
      BY <1>1, <1>2
    <2>5. gone' \subseteq used'
      BY <1>5 DEF StoreInv, StoreType
    <2>. QED BY <1>3, <1>5, <2>1, <2>2, <2>3, <2>4, <2>5 DEF StoreInv, StoreType
  <1>7. Known'
    BY <1>1, <1>2, <1>4, <1>5 DEF StoreInv, Known
  <1>8. Dated'
    <2>1. /\ rev <= clock' /\ served <= clock' /\ index.revision <= clock'
          /\ \A i \in DOMAIN files : files[i].rev <= clock'
      BY DEF StoreInv, Dated, StoreType, PartialMap, Entry
    <2>2. \A i \in DOMAIN details' : details'[i].rev <= clock'
      BY <1>2, <1>4
    <2>. QED BY <1>3, <1>5, <2>1, <2>2 DEF Dated
  <1>9. DownIsEmpty' /\ Up'
    BY <1>3 DEF DownIsEmpty, Up
  <1>10. SavedOnDisk'
    BY <1>4, <1>5 DEF StoreInv, SavedOnDisk
  <1>11. RetentionLimit'
    <2>1. lim # 0 => Cardinality(DOMAIN details') <= lim
      BY <1>2, <1>4, LimitsAssumption
    <2>. QED BY <1>3, <1>5, <2>1 DEF StoreInv, RetentionLimit
  <1>12. SavedIsKept'
    BY <1>2, <1>4 DEF SavedIsKept
  <1>13. RemovedStaysRemoved'
    BY <1>2, <1>4, <1>5 DEF StoreInv, RemovedStaysRemoved
  <1>14. UnmarkedIsWritten'
    BY <1>1, <1>2, <1>4, <1>5 DEF UnmarkedIsWritten
  <1>15. DOMAIN details' \subseteq DOMAIN d /\ \A i \in DOMAIN details' : details'[i] = d[i]
    BY <1>2, <1>4
  <1>. QED BY <1>3, <1>6, <1>7, <1>8, <1>9, <1>10, <1>11, <1>12, <1>13, <1>14, <1>15 DEF StoreInv

\* A time in milliseconds.
LEMMA MilliType == ASSUME NEW t \in Nat PROVE Milli(t) \in Nat
  BY DEF Milli

\* Operations move the clock on, and get a revision of that time.
LEMMA Dating ==
    ASSUME StoreInv, clock' \in Passing
    PROVE  /\ clock' \in Nat /\ clock < clock'
           /\ nextRevision(clock') = clock'
           /\ Milli(clock') \in Nat
           /\ \A i \in DOMAIN details : details[i].rev <= clock'
  <1>1. clock \in Nat /\ revision \in Nat /\ revision <= clock
    BY DEF StoreInv, StoreType, Dated
  <1>2. clock' \in Nat /\ clock < clock' /\ clock' > revision
    BY <1>1 DEF Passing
  <1>3. \A i \in DOMAIN details : details[i].rev \in Nat /\ details[i].rev <= clock
    BY DEF StoreInv, StoreType, PartialMap, Entry, Dated
  <1>4. Milli(clock') \in Nat
    BY <1>2, MilliType
  <1>. QED BY <1>1, <1>2, <1>3, <1>4 DEF nextRevision

\* A new entry.
LEMMA StartStep ==
    ASSUME StoreInv, NEW i \in Ids, Start(i)
    PROVE  /\ StoreInv'
           /\ store' = "saving" /\ i \notin used /\ used' = used \cup {i}
           /\ clock < revision'
           /\ \A j \in DOMAIN details' : j # i => j \in DOMAIN details /\ details'[j] = details[j]
  <1>. DEFINE rev == nextRevision(clock')
              e == [rev |-> rev, created |-> Milli(clock'), updated |-> Milli(clock'), status |-> "streaming"]
              d == Put(details, i, e)
  <1>1. /\ clock' \in Passing /\ i \notin used /\ used' = used \cup {i}
        /\ Commit(d, limit, rev, dirty \cup {i}, deleted)
        /\ UNCHANGED <<disk, gone, served>> /\ Up
    BY DEF Start, Ready, Up
  <1>2. /\ clock' \in Nat /\ clock < clock' /\ rev = clock' /\ e \in Entry
        /\ \A j \in DOMAIN details : details[j].rev <= clock'
    BY <1>1, Dating DEF Entry
  <1>3. /\ DOMAIN d = DOMAIN details \cup {i} /\ d[i] = e
        /\ \A j \in DOMAIN details : j # i /\ d[j] = details[j]
    BY <1>1 DEF Put, StoreInv, Known
  <1>4. PartialMap(d, Entry) /\ \A j \in DOMAIN d : d[j].rev <= clock'
    BY <1>2, <1>3 DEF PartialMap, StoreInv, StoreType, Entry
  <1>5. \A j \in DOMAIN d \ (dirty \cup {i}) : j \in DOMAIN files /\ files[j] = d[j]
    BY <1>1, <1>3 DEF StoreInv, UnmarkedIsWritten
  <1>6. \A j \in DOMAIN acked \cap DOMAIN d : d[j].rev >= acked[j]
    <2>1. DOMAIN acked \subseteq used
      BY DEF StoreInv, SavedOnDisk, Known
    <2>2. \A j \in DOMAIN acked : j \in DOMAIN details /\ details[j].rev >= acked[j]
      BY <1>1 DEF StoreInv, SavedIsKept
    <2>. QED BY <1>3, <2>1, <2>2
  <1>7. /\ DOMAIN d \subseteq used' /\ used' \subseteq Ids /\ deleted \subseteq used' /\ deleted \cap DOMAIN d = {}
        /\ gone \cap DOMAIN d = {}
    BY <1>1, <1>3 DEF StoreInv, Known, StoreType, RemovedStaysRemoved
  <1>8. limit \in Limits /\ clock \in Nat
    BY DEF StoreInv, StoreType
  <1>9. /\ StoreInv' /\ store' = "saving" /\ DOMAIN details' \subseteq DOMAIN d
        /\ \A j \in DOMAIN details' : details'[j] = d[j]
    <2>. HIDE DEF d, e, rev
    <2>1. rev \in Nat /\ rev <= clock' /\ clock <= clock'
      BY <1>2, <1>8
    <2>. QED BY <1>1, <1>2, <1>4, <1>5, <1>6, <1>7, <1>8, <2>1, CommitStep
  <1>10. revision' = rev
    BY <1>1 DEF Commit
  <1>. QED BY <1>1, <1>2, <1>3, <1>9, <1>10

\* A change of an entry.
LEMMA UpdateStep ==
    ASSUME StoreInv, NEW i, NEW status \in {"streaming", "final"}, Update(i, status)
    PROVE  /\ StoreInv'
           /\ store' = "saving" /\ i \in DOMAIN details /\ used' = used
           /\ clock < revision'
           /\ DOMAIN details' \subseteq DOMAIN details
           /\ \A j \in DOMAIN details' : j # i => details'[j] = details[j]
           /\ i \in DOMAIN details' => details'[i].status = status
  <1>. DEFINE rev == nextRevision(clock')
              e == [details[i] EXCEPT !.rev = rev, !.updated = Milli(clock'), !.status = status]
              d == Put(details, i, e)
  <1>1. /\ clock' \in Passing /\ i \in DOMAIN details /\ used' = used
        /\ Commit(d, limit, rev, dirty \cup {i}, deleted \ {i})
        /\ UNCHANGED <<disk, gone, served>> /\ Up
    BY DEF Update, Ready, Up
  <1>2. /\ clock' \in Nat /\ clock < clock' /\ rev = clock' /\ Milli(clock') \in Nat
        /\ \A j \in DOMAIN details : details[j].rev <= clock'
    BY <1>1, Dating
  <1>3. details[i] \in Entry
    BY <1>1 DEF StoreInv, StoreType, PartialMap
  <1>4. e \in Entry /\ e.rev = clock' /\ e.status = status
    BY <1>2, <1>3 DEF Entry
  <1>5. /\ DOMAIN d = DOMAIN details /\ d[i] = e
        /\ \A j \in DOMAIN details : j # i => d[j] = details[j]
    BY <1>1 DEF Put
  <1>6. PartialMap(d, Entry) /\ \A j \in DOMAIN d : d[j].rev <= clock'
    <2>. HIDE DEF e, d
    <2>. QED BY <1>2, <1>4, <1>5 DEF PartialMap, StoreInv, StoreType
  <1>7. \A j \in DOMAIN d \ (dirty \cup {i}) : j \in DOMAIN files /\ files[j] = d[j]
    BY <1>1, <1>5 DEF StoreInv, UnmarkedIsWritten
  <1>8. \A j \in DOMAIN acked \cap DOMAIN d : d[j].rev >= acked[j]
    <2>. HIDE DEF e, d
    <2>1. \A j \in DOMAIN acked : j \in DOMAIN details /\ details[j].rev >= acked[j] /\ acked[j] \in Nat
      BY <1>1 DEF StoreInv, SavedIsKept, StoreType, PartialMap
    <2>2. details[i].rev <= clock' /\ details[i].rev \in Nat
      BY <1>1, <1>2, <1>3 DEF Entry
    <2>. QED BY <1>2, <1>4, <1>5, <2>1, <2>2
  <1>9. /\ DOMAIN d \subseteq used' /\ used' \subseteq Ids /\ deleted \ {i} \subseteq used'
        /\ (deleted \ {i}) \cap DOMAIN d = {} /\ gone \cap DOMAIN d = {}
    BY <1>1, <1>5 DEF StoreInv, Known, StoreType, RemovedStaysRemoved
  <1>10. limit \in Limits /\ clock \in Nat
    BY DEF StoreInv, StoreType
  <1>11. /\ StoreInv' /\ store' = "saving" /\ DOMAIN details' \subseteq DOMAIN d
         /\ \A j \in DOMAIN details' : details'[j] = d[j]
    <2>. HIDE DEF d, e, rev
    <2>1. rev \in Nat /\ rev <= clock' /\ clock <= clock' /\ used \subseteq used'
      BY <1>1, <1>2, <1>10
    <2>. QED BY <1>1, <1>2, <1>6, <1>7, <1>8, <1>9, <1>10, <2>1, CommitStep
  <1>12. revision' = rev
    BY <1>1 DEF Commit
  <1>. HIDE DEF d, e, rev
  <1>. QED BY <1>1, <1>2, <1>4, <1>5, <1>11, <1>12

\* An administrator removes entries or sets the limit; the latter is the
\* removal of no entry.
LEMMA AdminStep ==
    ASSUME StoreInv, Admin
    PROVE  /\ StoreInv'
           /\ store' = "saving" /\ used' = used /\ clock < revision'
           /\ UNCHANGED sessions
           /\ DOMAIN details' \subseteq DOMAIN details
           /\ \A j \in DOMAIN details' : details'[j] = details[j]
  <1>1. ASSUME NEW S \in SUBSET DOMAIN details, NEW d, NEW lim \in Limits, Ready,
               clock' \in Passing, d = Restrict(details, DOMAIN details \ S) \/ (S = {} /\ d = details),
               Commit(d, lim, nextRevision(clock'), dirty \ S, deleted \cup S),
               UNCHANGED <<disk, used, sessions, gone, served>>
        PROVE  /\ StoreInv'
               /\ store' = "saving" /\ used' = used /\ clock < revision'
               /\ UNCHANGED sessions
               /\ DOMAIN details' \subseteq DOMAIN details
               /\ \A j \in DOMAIN details' : details'[j] = details[j]
    <2>1. /\ clock' \in Nat /\ clock < clock' /\ nextRevision(clock') = clock'
          /\ \A j \in DOMAIN details : details[j].rev <= clock'
      BY <1>1, Dating
    <2>2. DOMAIN d = DOMAIN details \ S /\ \A j \in DOMAIN d : d[j] = details[j]
      BY <1>1 DEF Restrict
    <2>3. Up
      BY <1>1 DEF Ready, Up
    <2>4. PartialMap(d, Entry) /\ \A j \in DOMAIN d : d[j].rev <= clock'
      BY <2>1, <2>2 DEF PartialMap, StoreInv, StoreType
    <2>5. \A j \in DOMAIN d \ (dirty \ S) : j \in DOMAIN files /\ files[j] = d[j]
      BY <2>2, <2>3 DEF StoreInv, UnmarkedIsWritten
    <2>6. \A j \in DOMAIN acked \cap DOMAIN d : d[j].rev >= acked[j]
      BY <2>2, <2>3 DEF StoreInv, SavedIsKept
    <2>7. /\ DOMAIN d \subseteq used' /\ used' \subseteq Ids /\ deleted \cup S \subseteq used'
          /\ (deleted \cup S) \cap DOMAIN d = {} /\ gone \cap DOMAIN d = {} /\ used \subseteq used'
      BY <1>1, <2>2 DEF StoreInv, Known, StoreType, RemovedStaysRemoved
    <2>8. clock \in Nat /\ clock <= clock' /\ nextRevision(clock') \in Nat /\ nextRevision(clock') <= clock'
      BY <2>1 DEF StoreInv, StoreType
    <2>9. /\ StoreInv' /\ store' = "saving" /\ DOMAIN details' \subseteq DOMAIN d
          /\ \A j \in DOMAIN details' : details'[j] = d[j]
      BY <1>1, <2>1, <2>4, <2>5, <2>6, <2>7, <2>8, CommitStep
    <2>10. revision' = nextRevision(clock')
      BY <1>1 DEF Commit
    <2>. QED BY <1>1, <2>1, <2>2, <2>9, <2>10
  <1>2. CASE \E i \in Ids : Delete(i)
    <2>1. PICK i \in DOMAIN details : Remove({i})
      BY <1>2 DEF Delete
    <2>2. limit \in Limits
      BY DEF StoreInv, StoreType
    <2>. QED BY <2>1, <2>2, <1>1 DEF Remove
  <1>3. CASE Clear
    <2>1. limit \in Limits
      BY DEF StoreInv, StoreType
    <2>. QED BY <1>3, <2>1, <1>1 DEF Clear, Remove
  <1>4. CASE \E lim \in Limits : SetLimit(lim)
    <2>1. dirty \ {} = dirty /\ deleted \cup {} = deleted
      OBVIOUS
    <2>. QED BY <1>4, <2>1, <1>1 DEF SetLimit
  <1>. QED BY <1>2, <1>3, <1>4 DEF Admin

-----------------------------------------------------------------------------
\* The save, the crash and the load

\* A step of the save, or the end of the process: entries stay or all go.
LEMMA FileStep ==
    ASSUME StoreInv, Save \/ Crash \/ LoadFails
    PROVE  /\ StoreInv'
           /\ used' = used
           /\ store' # "saving" \/ store = "saving"
           /\ details' = details \/ DOMAIN details' = {}
  <1>. USE DEF StoreInv
  <1>1. CASE \E i \in Ids : RemoveStale(i)
    <2>1. PICK i \in Ids : RemoveStale(i)
      BY <1>1
    <2>2. /\ i \in deleted /\ i \in DOMAIN files /\ files' = Restrict(files, DOMAIN files \ {i})
          /\ UNCHANGED <<store, memory, index, clock, used, promises>> /\ store = "saving"
      BY <2>1 DEF RemoveStale, StaleFiles
    <2>3. /\ DOMAIN files' = DOMAIN files \ {i} /\ \A j \in DOMAIN files' : files'[j] = files[j]
          /\ UNCHANGED <<store, details, limit, revision, dirty, deleted, index, clock, used, acked, gone, served>>
      BY <2>2 DEF Restrict, memory, promises
    <2>4. Up /\ i \notin DOMAIN details
      BY <2>2 DEF Up, Known
    <2>5. StoreType' /\ Known' /\ Dated' /\ DownIsEmpty'
      BY <2>3, <2>4 DEF StoreType, PartialMap, Known, Dated, DownIsEmpty, Up
    <2>6. SavedOnDisk'
      BY <2>3, <2>4 DEF SavedOnDisk, SavedIsKept
    <2>7. RetentionLimit' /\ SavedIsKept' /\ RemovedStaysRemoved'
      BY <2>3 DEF RetentionLimit, SavedIsKept, RemovedStaysRemoved, Up
    <2>8. UnmarkedIsWritten'
      BY <2>3, <2>4 DEF UnmarkedIsWritten, Up
    <2>. QED BY <2>2, <2>3, <2>5, <2>6, <2>7, <2>8
  <1>2. CASE \E i \in Ids : WriteDetail(i)
    <2>1. PICK i \in Ids : WriteDetail(i)
      BY <1>2
    <2>2. /\ i \in dirty /\ files' = Put(files, i, details[i]) /\ store = "saving"
          /\ UNCHANGED <<store, details, limit, revision, dirty, deleted, index, clock, used, acked, gone, served>>
      BY <2>1 DEF WriteDetail, Unwritten, memory, promises
    <2>3. Up /\ i \in DOMAIN details /\ details[i] \in Entry
      BY <2>2 DEF Up, Known, StoreType, PartialMap
    <2>4. /\ DOMAIN files' = DOMAIN files \cup {i} /\ files'[i] = details[i]
          /\ \A j \in DOMAIN files' : j # i => j \in DOMAIN files /\ files'[j] = files[j]
      BY <2>2 DEF Put
    <2>5. StoreType' /\ Known' /\ Dated' /\ DownIsEmpty'
      <3>1. PartialMap(files', Entry)
        BY <2>3, <2>4 DEF StoreType, PartialMap
      <3>2. StoreType'
        BY <2>2, <3>1 DEF StoreType
      <3>3. Known'
        BY <2>2, <2>3, <2>4 DEF Known
      <3>4. Dated' /\ DownIsEmpty'
        BY <2>2, <2>3, <2>4 DEF Dated, DownIsEmpty, Up
      <3>. QED BY <3>2, <3>3, <3>4
    <2>6. SavedOnDisk'
      BY <2>2, <2>3, <2>4 DEF SavedOnDisk, SavedIsKept
    <2>7. RetentionLimit' /\ SavedIsKept' /\ RemovedStaysRemoved'
      BY <2>2 DEF RetentionLimit, SavedIsKept, RemovedStaysRemoved, Up
    <2>8. UnmarkedIsWritten'
      BY <2>2, <2>4 DEF UnmarkedIsWritten, Up
    <2>. QED BY <2>2, <2>5, <2>6, <2>7, <2>8
  <1>3. CASE WriteIndex
    <2>1. /\ store = "saving" /\ store' = "idle" /\ StaleFiles = {} /\ Unwritten = {}
          /\ index' = [limit |-> limit, revision |-> revision, ids |-> DOMAIN details]
          /\ dirty' = {} /\ deleted' = {} /\ acked' = [i \in DOMAIN details |-> details[i].rev]
          /\ gone' = used \ DOMAIN details /\ served' = Seen
          /\ UNCHANGED <<details, limit, revision, files, clock, used>>
      BY <1>3 DEF WriteIndex
    <2>2. Up
      BY <2>1 DEF Up
    <2>3. \A i \in DOMAIN details : i \in DOMAIN files /\ files[i] = details[i]
      BY <2>1, <2>2 DEF Unwritten, UnmarkedIsWritten, Known
    <2>4. \A i \in DOMAIN details : details[i].rev \in Nat /\ i \in Ids
      BY DEF StoreType, PartialMap, Entry
    <2>5. served' \in Nat /\ served' <= clock
      BY <2>1 DEF Seen, StoreType, Dated
    <2>6. PartialMap(acked', Nat)
      BY <2>1, <2>4 DEF PartialMap
    <2>7. StoreType'
      BY <2>1, <2>4, <2>5, <2>6 DEF StoreType
    <2>8. Known' /\ DownIsEmpty'
      BY <2>1 DEF Known, DownIsEmpty, Up
    <2>9. Dated'
      BY <2>1, <2>5 DEF Dated
    <2>10. SavedOnDisk' /\ SavedIsKept'
      BY <2>1, <2>3, <2>4 DEF SavedOnDisk, SavedIsKept
    <2>11. RetentionLimit'
      BY <2>1, <2>2 DEF RetentionLimit
    <2>12. RemovedStaysRemoved'
      BY <2>1 DEF RemovedStaysRemoved
    <2>13. UnmarkedIsWritten'
      BY <2>1, <2>3 DEF UnmarkedIsWritten
    <2>. QED BY <2>1, <2>7, <2>8, <2>9, <2>10, <2>11, <2>12, <2>13
  <1>4. CASE SaveFails
    <2>1. /\ store = "saving" /\ store' = "idle" /\ served' = Seen
          /\ UNCHANGED <<details, limit, revision, dirty, deleted, files, index, clock, used, acked, gone>>
      BY <1>4 DEF SaveFails, memory, disk
    <2>2. served' \in Nat /\ served' <= clock
      BY <2>1 DEF Seen, StoreType, Dated
    <2>3. StoreType' /\ Known' /\ Dated' /\ DownIsEmpty'
      BY <2>1, <2>2 DEF StoreType, Known, Dated, DownIsEmpty, Up
    <2>4. SavedOnDisk' /\ RetentionLimit' /\ SavedIsKept' /\ RemovedStaysRemoved' /\ UnmarkedIsWritten'
      BY <2>1 DEF SavedOnDisk, RetentionLimit, SavedIsKept, RemovedStaysRemoved, UnmarkedIsWritten, Up
    <2>. QED BY <2>1, <2>3, <2>4
  <1>5. CASE Crash
    <2>1. /\ store' = "down" /\ DOMAIN details' = {} /\ dirty' = {} /\ deleted' = {}
          /\ UNCHANGED <<limit, revision, files, index, clock, used, acked, gone, served>>
      BY <1>5 DEF Crash, Nothing, disk, promises
    <2>2. StoreType' /\ Known' /\ Dated' /\ DownIsEmpty'
      BY <2>1 DEF StoreType, PartialMap, Known, Dated, DownIsEmpty
    <2>3. SavedOnDisk' /\ RetentionLimit' /\ SavedIsKept' /\ RemovedStaysRemoved' /\ UnmarkedIsWritten'
      BY <2>1 DEF SavedOnDisk, RetentionLimit, SavedIsKept, RemovedStaysRemoved, UnmarkedIsWritten, Up
    <2>. QED BY <2>1, <2>2, <2>3
  <1>6. CASE LoadFails
    <2>1. /\ store = "down" /\ store' = "broken"
          /\ UNCHANGED <<details, limit, revision, dirty, deleted, files, index, clock, used, acked, gone, served>>
      BY <1>6 DEF LoadFails, memory, disk, promises
    <2>2. StoreType' /\ Known' /\ Dated' /\ DownIsEmpty'
      BY <2>1 DEF StoreType, Known, Dated, DownIsEmpty, Up
    <2>3. SavedOnDisk' /\ RetentionLimit' /\ SavedIsKept' /\ RemovedStaysRemoved' /\ UnmarkedIsWritten'
      BY <2>1 DEF SavedOnDisk, RetentionLimit, SavedIsKept, RemovedStaysRemoved, UnmarkedIsWritten, Up
    <2>. QED BY <2>1, <2>2, <2>3
  <1>. QED BY <1>1, <1>2, <1>3, <1>4, <1>5, <1>6 DEF Save

\* A load takes the entries of the index from their files.
LEMMA LoadStep ==
    ASSUME StoreInv, Load
    PROVE  /\ StoreInv'
           /\ store = "down" /\ store' = "saving" /\ used' = used /\ UNCHANGED sessions
  <1>. DEFINE d == Restrict(files, index.ids)
  <1>1. /\ store = "down" /\ index.ids \subseteq DOMAIN files
        /\ Commit(d, index.limit, index.revision, {}, {})
        /\ UNCHANGED <<disk, clock, used, sessions, gone, served>>
    BY DEF Load
  <1>2. DOMAIN d = index.ids /\ \A i \in DOMAIN d : i \in DOMAIN files /\ d[i] = files[i]
    BY <1>1 DEF Restrict
  <1>. HIDE DEF d
  <1>3. PartialMap(d, Entry) /\ \A i \in DOMAIN d : d[i].rev <= clock'
    BY <1>1, <1>2 DEF PartialMap, StoreInv, StoreType, Dated
  <1>4. \A i \in DOMAIN acked \cap DOMAIN d : d[i].rev >= acked[i]
    BY <1>2 DEF StoreInv, SavedOnDisk
  <1>5. gone \cap DOMAIN d = {} /\ DOMAIN d \subseteq used'
    BY <1>1, <1>2 DEF StoreInv, RemovedStaysRemoved, Known
  <1>6. /\ index.limit \in Limits /\ index.revision \in Nat /\ clock' \in Nat /\ clock <= clock'
        /\ index.revision <= clock' /\ used \subseteq used' /\ used' \subseteq Ids
    BY <1>1 DEF StoreInv, StoreType, Dated
  <1>7. \A i \in DOMAIN d \ {} : i \in DOMAIN files /\ files[i] = d[i]
    BY <1>2
  <1>8. StoreInv' /\ store' = "saving"
    BY <1>1, <1>3, <1>4, <1>5, <1>6, <1>7, CommitStep
  <1>. QED BY <1>1, <1>8

-----------------------------------------------------------------------------
\* The sessions

\* Any step keeps the invariant of the store.
LEMMA StoreStep ==
    ASSUME StoreInv, SessionType, [Next]_vars
    PROVE  StoreInv'
  <1>1. ASSUME UNCHANGED <<store, memory, disk, clock, used, promises>>
        PROVE  StoreInv'
    <2>1. UNCHANGED <<store, details, limit, revision, dirty, deleted, files, index, clock, used, acked, gone, served>>
      BY <1>1 DEF memory, disk, promises
    <2>2. StoreType' /\ Known' /\ Dated' /\ DownIsEmpty' /\ SavedOnDisk'
      BY <2>1 DEF StoreInv, StoreType, Known, Dated, DownIsEmpty, SavedOnDisk, Up
    <2>3. RetentionLimit' /\ SavedIsKept' /\ RemovedStaysRemoved' /\ UnmarkedIsWritten'
      BY <2>1 DEF StoreInv, RetentionLimit, SavedIsKept, RemovedStaysRemoved, UnmarkedIsWritten, Up
    <2>. QED BY <2>2, <2>3 DEF StoreInv
  <1>2. CASE \E s \in Sessions : Session(s)
    <2>1. PICK s \in Sessions : Session(s)
      BY <1>2
    <2>2. CASE Open(s) \/ Recreate(s)
      BY <2>2, StartStep DEF Open, Recreate
    <2>3. CASE Persist(s) \/ Repeat(s)
      <3>1. PICK last \in BOOLEAN : Update(entry[s], Status(last))
        BY <2>1, <2>3 DEF Persist, Repeat, Reports, SessionType
      <3>. QED BY <3>1, UpdateStep DEF Status
    <2>4. CASE Unrecorded(s) \/ Missing(s) \/ MissingAgain(s)
      BY <2>4, <1>1 DEF Unrecorded, Missing, MissingAgain
    <2>. QED BY <2>1, <2>2, <2>3, <2>4 DEF Session
  <1>3. CASE Admin
    BY <1>3, AdminStep
  <1>4. CASE Save \/ Crash \/ LoadFails
    BY <1>4, FileStep
  <1>5. CASE Load
    BY <1>5, LoadStep
  <1>6. CASE UNCHANGED vars
    BY <1>6, <1>1 DEF vars
  <1>. QED BY <1>2, <1>3, <1>4, <1>5, <1>6 DEF Next

\* A session gets an entry nobody had.
LEMMA BeginStep ==
    ASSUME StoreInv, SessionInv, NEW s \in Sessions, NEW i \in Ids, Start(i),
           entry' = [entry EXCEPT ![s] = i], NEW phase \in {"open", "reupdate"},
           pc' = [pc EXCEPT ![s] = phase], UNCHANGED final
    PROVE  SessionInv'
  <1>1. /\ store' = "saving" /\ i \notin used /\ used' = used \cup {i}
        /\ \A j \in DOMAIN details' : j # i => j \in DOMAIN details /\ details'[j] = details[j]
    BY StartStep
  <1>2. Up
    BY DEF Start, Ready, Up
  <1>3. SessionType' /\ LostWithTheProcess'
    BY <1>1 DEF SessionInv, SessionType, LostWithTheProcess, Phases
  <1>4. OwnEntries'
    BY <1>1 DEF SessionInv, SessionType, OwnEntries
  <1>5. ASSUME NEW t \in Sessions, pc'[t] = "closed", entry'[t] \in DOMAIN details'
        PROVE  details'[entry'[t]].status = "final"
    <2>1. t # s /\ pc[t] = "closed" /\ entry'[t] = entry[t]
      BY <1>5 DEF SessionInv, SessionType
    <2>2. entry[t] \in used \cup {NoId} /\ i # NoId
      BY IdsAssumption DEF SessionInv, OwnEntries
    <2>3. entry[t] \in DOMAIN details /\ details'[entry[t]] = details[entry[t]]
      BY <1>1, <1>5, <2>1, <2>2
    <2>. QED BY <1>2, <2>1, <2>3 DEF SessionInv, FinishedIsFinal
  <1>. QED BY <1>3, <1>4, <1>5 DEF SessionInv, FinishedIsFinal

\* A session updates its own entry, and nobody else's.
LEMMA ReportStep ==
    ASSUME StoreInv, SessionInv, NEW s \in Sessions, NEW last \in BOOLEAN,
           Update(entry[s], Status(last)), pc' = [pc EXCEPT ![s] = After(last)],
           UNCHANGED <<entry, final>>
    PROVE  SessionInv'
  <1>1. /\ store' = "saving" /\ entry[s] \in DOMAIN details /\ used' = used
        /\ DOMAIN details' \subseteq DOMAIN details
        /\ \A j \in DOMAIN details' : j # entry[s] => details'[j] = details[j]
        /\ entry[s] \in DOMAIN details' => details'[entry[s]].status = Status(last)
    BY UpdateStep DEF Status
  <1>2. Up
    BY DEF Update, Ready, Up
  <1>3. After(last) \in {"open", "closed"} /\ (After(last) = "closed" => Status(last) = "final")
    BY DEF After, Status
  <1>4. SessionType' /\ LostWithTheProcess'
    BY <1>1, <1>3 DEF SessionInv, SessionType, LostWithTheProcess, Phases
  <1>5. OwnEntries'
    BY <1>1 DEF SessionInv, OwnEntries
  <1>6. entry[s] # NoId
    BY <1>1, IdsAssumption DEF StoreInv, StoreType, PartialMap
  <1>7. ASSUME NEW t \in Sessions, pc'[t] = "closed", entry'[t] \in DOMAIN details'
        PROVE  details'[entry'[t]].status = "final"
    <2>1. CASE t = s
      BY <1>1, <1>3, <1>7, <2>1 DEF SessionInv, SessionType
    <2>2. CASE t # s
      <3>1. pc[t] = "closed" /\ entry[t] # entry[s]
        BY <1>6, <1>7, <2>2 DEF SessionInv, SessionType, OwnEntries
      <3>. QED BY <1>1, <1>2, <1>7, <3>1 DEF SessionInv, FinishedIsFinal
    <2>. QED BY <2>1, <2>2
  <1>. QED BY <1>4, <1>5, <1>7 DEF SessionInv, FinishedIsFinal

\* Any step keeps the invariant of the sessions.
LEMMA SessionStep ==
    ASSUME StoreInv, SessionInv, [Next]_vars
    PROVE  SessionInv'
  <1>1. CASE \E s \in Sessions : Session(s)
    <2>1. PICK s \in Sessions : Session(s)
      BY <1>1
    <2>2. CASE Open(s) \/ Recreate(s)
      BY <2>2, BeginStep DEF Open, Recreate
    <2>3. CASE Persist(s) \/ Repeat(s)
      BY <2>3, ReportStep DEF Persist, Repeat, Reports, SessionInv, SessionType
    <2>4. CASE Unrecorded(s) \/ Missing(s) \/ MissingAgain(s)
      <3>1. /\ UNCHANGED <<store, details, used, entry>>
            /\ pc'[s] # "closed" /\ \A t \in Sessions : t # s => pc'[t] = pc[t]
            /\ pc' \in [Sessions -> Phases] /\ store # "down"
        BY <2>4 DEF Unrecorded, Missing, MissingAgain, memory, SessionInv, SessionType, Phases
      <3>2. final' \in [Sessions -> BOOLEAN]
        BY <2>4 DEF Unrecorded, Missing, MissingAgain, SessionInv, SessionType, Reports
      <3>3. SessionType' /\ OwnEntries' /\ LostWithTheProcess'
        BY <3>1, <3>2 DEF SessionInv, SessionType, OwnEntries, LostWithTheProcess
      <3>4. FinishedIsFinal'
        BY <3>1 DEF SessionInv, FinishedIsFinal, Up
      <3>. QED BY <3>3, <3>4 DEF SessionInv
    <2>. QED BY <2>1, <2>2, <2>3, <2>4 DEF Session
  <1>2. ASSUME UNCHANGED <<sessions, used>>, store' = "down" => store = "down",
               \/ Up /\ \A j \in DOMAIN details' : j \in DOMAIN details /\ details'[j] = details[j]
               \/ ~Up'
               \/ store = "down"
        PROVE  SessionInv'
    <2>1. SessionType' /\ OwnEntries' /\ LostWithTheProcess'
      BY <1>2 DEF sessions, SessionInv, SessionType, OwnEntries, LostWithTheProcess
    <2>2. FinishedIsFinal'
      BY <1>2 DEF sessions, SessionInv, FinishedIsFinal, LostWithTheProcess, Up
    <2>. QED BY <2>1, <2>2 DEF SessionInv
  <1>3. CASE Admin
    <2>1. Up
      BY <1>3 DEF Admin, Delete, Clear, Remove, SetLimit, Ready, Up
    <2>. QED BY <1>2, <1>3, <2>1, AdminStep
  <1>4. CASE Save
    <2>1. /\ UNCHANGED <<sessions, used, details>> /\ store = "saving" /\ store' # "down"
      BY <1>4 DEF Save, RemoveStale, WriteDetail, WriteIndex, SaveFails, memory, sessions
    <2>. QED BY <1>2, <2>1 DEF Up
  <1>5. CASE Crash
    <2>1. /\ store' = "down" /\ UNCHANGED <<used, entry, final>>
          /\ pc' = [s \in Sessions |-> IF pc[s] = "new" THEN "new" ELSE "lost"]
      BY <1>5 DEF Crash
    <2>2. SessionType' /\ OwnEntries' /\ LostWithTheProcess'
      BY <2>1 DEF SessionInv, SessionType, OwnEntries, LostWithTheProcess, Phases
    <2>. QED BY <2>1, <2>2 DEF SessionInv, FinishedIsFinal, Up
  <1>6. CASE Load
    BY <1>2, <1>6, LoadStep
  <1>7. CASE LoadFails
    BY <1>2, <1>7 DEF LoadFails
  <1>8. CASE UNCHANGED vars
    <2>1. UNCHANGED <<sessions, used, store, details>>
      BY <1>8 DEF vars, memory
    <2>2. SessionType' /\ OwnEntries' /\ LostWithTheProcess' /\ FinishedIsFinal'
      BY <2>1 DEF sessions, SessionInv, SessionType, OwnEntries, LostWithTheProcess, FinishedIsFinal, Up
    <2>. QED BY <2>2 DEF SessionInv
  <1>. QED BY <1>1, <1>3, <1>4, <1>5, <1>6, <1>7, <1>8 DEF Next

-----------------------------------------------------------------------------
\* Theorems

LEMMA InitInv == Init => StoreInv /\ SessionInv
  <1>. SUFFICES ASSUME Init PROVE StoreInv /\ SessionInv
    OBVIOUS
  <1>. USE DEF Init, Nothing
  <1>1. StoreType /\ Known /\ Dated
    BY LimitsAssumption DEF StoreType, PartialMap, Known, Dated
  <1>2. DownIsEmpty /\ SavedOnDisk
    BY DEF DownIsEmpty, SavedOnDisk
  <1>3. RetentionLimit
    <2>1. Cardinality({}) = 0
      BY FS_EmptySet
    <2>. QED BY <2>1, LimitsAssumption DEF RetentionLimit, Up
  <1>4. SavedIsKept /\ RemovedStaysRemoved /\ UnmarkedIsWritten
    BY DEF SavedIsKept, RemovedStaysRemoved, UnmarkedIsWritten, Up
  <1>5. SessionInv
    BY DEF SessionInv, SessionType, OwnEntries, LostWithTheProcess, FinishedIsFinal, Phases, Up
  <1>. QED BY <1>1, <1>2, <1>3, <1>4, <1>5 DEF StoreInv

LEMMA Invariance == Spec => [](StoreInv /\ SessionInv)
  <1>1. StoreInv /\ SessionInv /\ [Next]_vars => (StoreInv /\ SessionInv)'
    BY StoreStep, SessionStep DEF SessionInv
  <1>. QED BY <1>1, InitInv, PTL DEF Spec

\* The memory, the files and the sessions have their types: in particular no
\* file is both to be written and to be removed.
THEOREM HistoryTypeCorrect == Spec => []TypeOK
  <1>1. StoreInv /\ SessionInv => TypeOK
    BY DEF StoreInv, StoreType, SessionInv, SessionType, TypeOK, File
  <1>. QED BY <1>1, Invariance, PTL

\* Neither the memory nor the index file exceeds the limit it goes with.
THEOREM RetentionLimitSafe == Spec => []RetentionLimit
  <1>1. StoreInv => RetentionLimit
    BY DEF StoreInv
  <1>. QED BY <1>1, Invariance, PTL

\* Whatever writes fail and whenever the process is killed, what was reported as
\* saved is in the store while it is up.
THEOREM SavedIsKeptSafe == Spec => []SavedIsKept
  <1>1. StoreInv => SavedIsKept
    BY DEF StoreInv
  <1>. QED BY <1>1, Invariance, PTL

\* A removal that was reported as done is never undone by a restart.
THEOREM RemovedStaysRemovedSafe == Spec => []RemovedStaysRemoved
  <1>1. StoreInv => RemovedStaysRemoved
    BY DEF StoreInv
  <1>. QED BY <1>1, Invariance, PTL

\* It is enough for a save to write the marked files.
THEOREM UnmarkedIsWrittenSafe == Spec => []UnmarkedIsWritten
  <1>1. StoreInv => UnmarkedIsWritten
    BY DEF StoreInv
  <1>. QED BY <1>1, Invariance, PTL

\* No completion that is over leaves its entry streaming.
THEOREM FinishedIsFinalSafe == Spec => []FinishedIsFinal
  <1>1. SessionInv => FinishedIsFinal
    BY DEF SessionInv
  <1>. QED BY <1>1, Invariance, PTL

\* Every operation gets a revision above all that a reader has seen, also across
\* failed saves and restarts.
THEOREM RevisionsGrowSafe == Spec => RevisionsGrow
  <1>1. ASSUME StoreInv, SessionInv, [Next]_vars
        PROVE  [store = "idle" /\ store' = "saving" => revision' > served]_vars
    <2>1. SUFFICES ASSUME Next, store = "idle", store' = "saving" PROVE revision' > served
      BY <1>1
    <2>2. served <= clock /\ served \in Nat /\ clock \in Nat
      BY <1>1 DEF StoreInv, StoreType, Dated
    <2>3. CASE \E s \in Sessions : Session(s)
      <3>1. PICK s \in Sessions : Session(s)
        BY <2>3
      <3>2. CASE Open(s) \/ Recreate(s)
        <4>1. PICK i \in Ids : Start(i)
          BY <3>2 DEF Open, Recreate
        <4>2. clock < revision' /\ revision' \in Nat
          BY <1>1, <4>1, StartStep DEF StoreInv, StoreType
        <4>. QED BY <2>2, <4>2
      <3>3. CASE Persist(s) \/ Repeat(s)
        <4>1. PICK last \in BOOLEAN : Update(entry[s], Status(last))
          BY <1>1, <3>1, <3>3 DEF Persist, Repeat, Reports, SessionInv, SessionType
        <4>2. clock < revision' /\ revision' \in Nat
          BY <1>1, <4>1, UpdateStep DEF Status, StoreInv, StoreType
        <4>. QED BY <2>2, <4>2
      <3>4. CASE Unrecorded(s) \/ Missing(s) \/ MissingAgain(s)
        BY <2>1, <3>4 DEF Unrecorded, Missing, MissingAgain
      <3>. QED BY <3>1, <3>2, <3>3, <3>4 DEF Session
    <2>4. CASE Admin
      <3>1. clock < revision' /\ revision' \in Nat
        BY <1>1, <2>4, AdminStep DEF StoreInv, StoreType
      <3>. QED BY <2>2, <3>1
    <2>5. CASE Save \/ Crash \/ Load \/ LoadFails
      BY <2>1, <2>5 DEF Save, RemoveStale, WriteDetail, WriteIndex, SaveFails, Crash, Load, LoadFails
    <2>. QED BY <2>1, <2>3, <2>4, <2>5 DEF Next
  <1>. QED BY <1>1, Invariance, PTL DEF Spec, RevisionsGrow

===============================================================================
