---------------------------- MODULE IngestProofs ----------------------------
(***************************************************************************)
(* Proofs about Ingest, for any number of workers, files, records, groups  *)
(* and faults.                                                             *)
(***************************************************************************)
EXTENDS Ingest, FiniteFacts

-----------------------------------------------------------------------------
(* Records, keys and events *)

\* A body's records are records, and its groups are groups.
LEMMA BodyTypes ==
    ASSUME NEW f \in Files, NEW s \in Groups \cup {NoGroup}
    PROVE  /\ LinesIn(f) \subseteq Lines
           /\ GroupsOf(f, s) \subseteq Groups
           /\ \A l \in LinesIn(f) : KeyOf(l, s) \in GroupsOf(f, s) \cup {NoGroup}
           /\ \A l \in LinesIn(f) : KeyOf(l, s) \in Groups \cup {NoGroup}
  <1>1. LinesIn(f) \subseteq Lines
    BY RecordsAssumption DEF LinesIn
  <1>2. \A l \in Lines : KeyOf(l, s) \in Groups \cup {NoGroup}
    BY RecordsAssumption DEF KeyOf
  <1>3. QED
    BY <1>1, <1>2 DEF GroupsOf

\* What NewEvents returns: well-typed events of the file itself, of records not
\* seen before, in the file's own groups, and one event for each record.
LEMMA NewEventsFacts ==
    ASSUME NEW f \in Files, NEW s \in Groups \cup {NoGroup}, NEW seen
    PROVE  /\ NewEvents(f, s, seen) \subseteq Event
           /\ \A e \in NewEvents(f, s, seen) :
                 /\ e.file = f /\ e.no \in DOMAIN FileLines[f]
                 /\ Line(e) \in LinesIn(f) /\ Line(e) \notin seen
                 /\ e.group \in GroupsOf(f, s) \cup {NoGroup}
           /\ \A d, e \in NewEvents(f, s, seen) : Line(d) = Line(e) => d = e
  <1> DEFINE N == NewEvents(f, s, seen)
  <1>1. FileLines[f] \in Seq(Lines) /\ DOMAIN FileLines[f] = 1..Len(FileLines[f])
        /\ Len(FileLines[f]) \in Nat
    BY RecordsAssumption
  <1>2. ASSUME NEW e \in N
        PROVE  \E i \in DOMAIN FileLines[f] :
                  /\ e = [file |-> f, no |-> i, group |-> KeyOf(FileLines[f][i], s)]
                  /\ FileLines[f][i] \notin seen
                  /\ \A k \in 1..(i - 1) : FileLines[f][k] # FileLines[f][i]
    BY DEF NewEvents
  <1>3. ASSUME NEW e \in N
        PROVE  /\ e \in Event
               /\ e.file = f /\ e.no \in DOMAIN FileLines[f]
               /\ Line(e) \in LinesIn(f) /\ Line(e) \notin seen
               /\ e.group \in GroupsOf(f, s) \cup {NoGroup}
    <2>1. PICK i \in DOMAIN FileLines[f] :
                  /\ e = [file |-> f, no |-> i, group |-> KeyOf(FileLines[f][i], s)]
                  /\ FileLines[f][i] \notin seen
      BY <1>2, <1>3
    <2>2. FileLines[f][i] \in LinesIn(f)
      BY DEF LinesIn
    <2>3. QED
      BY <1>1, <2>1, <2>2, BodyTypes DEF Event, Line
  <1>4. ASSUME NEW d \in N, NEW e \in N, Line(d) = Line(e)
        PROVE  d = e
    <2>1. PICK i \in DOMAIN FileLines[f] :
                  /\ d = [file |-> f, no |-> i, group |-> KeyOf(FileLines[f][i], s)]
                  /\ \A k \in 1..(i - 1) : FileLines[f][k] # FileLines[f][i]
      BY <1>2, <1>4
    <2>2. PICK j \in DOMAIN FileLines[f] :
                  /\ e = [file |-> f, no |-> j, group |-> KeyOf(FileLines[f][j], s)]
                  /\ \A k \in 1..(j - 1) : FileLines[f][k] # FileLines[f][j]
      BY <1>2, <1>4
    <2>3. FileLines[f][i] = FileLines[f][j]
      BY <1>4, <2>1, <2>2 DEF Line
    <2>4. i = j
      BY <1>1, <2>1, <2>2, <2>3
    <2>5. QED
      BY <2>1, <2>2, <2>4
  <1>5. QED
    BY <1>3, <1>4

\* duplicate_event_count is a count.
LEMMA SkippedLinesCount ==
    ASSUME NEW f \in Files, NEW new
    PROVE  Cardinality(SkippedLines(f, new)) \in Nat
  <1>1. FileLines[f] \in Seq(Lines) /\ DOMAIN FileLines[f] = 1..Len(FileLines[f])
        /\ Len(FileLines[f]) \in Nat
    BY RecordsAssumption
  <1>2. IsFiniteSet(1..Len(FileLines[f]))
    BY <1>1, FS_Interval
  <1>3. SkippedLines(f, new) \subseteq 1..Len(FileLines[f])
    BY <1>1 DEF SkippedLines
  <1>4. QED
    BY <1>2, <1>3, FS_Subset, FS_CardinalityType

-----------------------------------------------------------------------------
(* Locks *)

\* Releasing a worker's locks keeps a lock table a lock table, frees nothing
\* held by another, and leaves nothing to the worker.
LEMMA UnlockedFacts ==
    ASSUME NEW R, NEW H, Free \in H, NEW lock \in [R -> H], NEW w
    PROVE  /\ Unlocked(lock, w) \in [R -> H]
           /\ \A x \in R : lock[x] # w => Unlocked(lock, w)[x] = lock[x]
  BY DEF Unlocked

-----------------------------------------------------------------------------
(* Type correctness *)

\* The lock tables stay well-typed when a transaction ends.
LEMMA ReleaseTypes ==
    ASSUME TypeOK, NEW w \in Workers, ReleaseLocks(w)
    PROVE  /\ recorderLock' \in [Engines -> Workers \cup {Free}]
           /\ groupLock' \in [Groups -> Workers \cup {Free, Rebuilder}]
           /\ inserting' \in [Groups -> Workers \cup {Free}]
  BY DEF TypeOK, ReleaseLocks, Unlocked

\* A worker's transaction variables stay well-typed when they are cleared.
LEMMA ClearTypes ==
    ASSUME TypeOK, NEW w \in Workers, ClearTransaction(w)
    PROVE  /\ todo' \in [Workers -> SUBSET Groups]
           /\ known' \in [Workers -> SUBSET Lines]
           /\ fresh' \in [Workers -> SUBSET Event]
           /\ shown' \in [Workers -> [Groups -> SUBSET Event]]
           /\ counted' \in [Workers -> [Groups -> SUBSET Event]]
  <1>1. NoEvents \in [Groups -> SUBSET Event]
    BY DEF NoEvents
  <1>2. QED
    BY <1>1 DEF TypeOK, ClearTransaction

\* A rollback followed by an answer preserves the types.
LEMMA RollbackTypes ==
    ASSUME TypeOK, NEW w \in Workers, Rollback(w), NEW r \in Replies, Answer(w, r),
           rejections' \subseteq Files \X {"invalid", "ingest_failed"},
           outcome' = outcome, faults' \in 0..MaxFaults, rebuilds' = rebuilds
    PROVE  TypeOK'
  <1>1. UNCHANGED <<files, links, duplicates, events, groups, projected, rollup, file, slug>>
    BY DEF Rollback, store
  <1>2. /\ reply' \in [Workers -> Replies]
        /\ pc' \in [Workers -> PCs]
    BY DEF TypeOK, Answer, PCs
  <1>3. ReleaseLocks(w) /\ ClearTransaction(w)
    BY DEF Rollback
  <1>4. QED
    BY <1>1, <1>2, <1>3, ReleaseTypes, ClearTypes DEF TypeOK

\* The writes of a commit preserve the types.
LEMMA CommitTypes ==
    ASSUME TypeOK, NEW w \in Workers, file[w] \in Files, CommitWrites(w),
           NEW r \in Replies, Answer(w, r),
           rejections' \subseteq Files \X {"invalid", "ingest_failed"},
           outcome' = outcome, faults' \in 0..MaxFaults, rebuilds' = rebuilds
    PROVE  TypeOK'
  <1>1. /\ reply' \in [Workers -> Replies]
        /\ pc' \in [Workers -> PCs]
    BY DEF TypeOK, Answer, PCs
  <1>2. ReleaseLocks(w) /\ ClearTransaction(w) /\ UNCHANGED <<file, slug>>
    BY DEF CommitWrites
  <1>3. GroupsOf(file[w], slug[w]) \subseteq Groups
    BY BodyTypes DEF TypeOK
  <1>4. Cardinality(SkippedLines(file[w], fresh[w])) \in Nat
    BY SkippedLinesCount
  <1>5. /\ files' \subseteq Files
        /\ links' \in [Files -> SUBSET Groups]
        /\ duplicates' \in [Files -> Nat]
        /\ groups' \subseteq Groups
    BY <1>3, <1>4 DEF TypeOK, CommitWrites
  <1>6. /\ events' \subseteq Event
        /\ projected' \in [Groups -> SUBSET Event]
        /\ rollup' \in [Groups -> SUBSET Event]
    BY <1>3 DEF TypeOK, CommitWrites
  <1>7. QED
    BY <1>1, <1>2, <1>5, <1>6, ReleaseTypes, ClearTypes DEF TypeOK

\* Recording a rejection, or failing to, keeps the table well-typed.
LEMMA RecordTypes ==
    ASSUME TypeOK, NEW f \in Files, NEW reason \in {"invalid", "ingest_failed"},
           Record(f, reason)
    PROVE  rejections' \subseteq Files \X {"invalid", "ingest_failed"}
  BY DEF TypeOK, Record

\* What of RequestsSound does not depend on the stored files.
Carrying ==
    \A w \in Workers :
        /\ pc[w] \notin {"idle", "reply"} => file[w] \in Valid
        /\ pc[w] # "idle" => file[w] \in Files /\ slug[w] \in Slugs

LEMMA SoundCarrying == RequestsSound => Carrying
  BY DEF RequestsSound, Carrying

\* The steps of one worker preserve the types.
LEMMA WorkerTypes ==
    ASSUME TypeOK, Carrying, NEW w \in Workers,
           \/ \E f \in Files, s \in Slugs : Submit(w, f, s)
           \/ WorkerStep(w) \/ TransactionFails(w) \/ CommitUnacknowledged(w)
           \/ WorkerDies(w)
    PROVE  TypeOK'
  <1> USE DEF store, locks, local, client
  <1>1. pc[w] # "idle" => file[w] \in Files
    BY DEF Carrying
  <1>2. ASSUME NEW f \in Files, NEW s \in Slugs, Submit(w, f, s)
        PROVE  TypeOK'
    <2>1. s \in Groups \cup {NoGroup}
      BY RecordsAssumption
    <2>2. rejections' \subseteq Files \X {"invalid", "ingest_failed"}
      BY <1>2, RecordTypes DEF TypeOK, Submit
    <2>3. pc' \in [Workers -> PCs] /\ reply' \in [Workers -> Replies]
      BY <1>2 DEF TypeOK, Submit, Goto, Answer, PCs, Replies
    <2>4. QED
      BY <1>2, <2>1, <2>2, <2>3 DEF TypeOK, Submit
  <1>3. CASE LookupExisting(w)
    BY <1>3 DEF TypeOK, LookupExisting, Answer, Goto, PCs, Replies
  <1>4. CASE BeginIngestion(w)
    <2>1. pc[w] = "begin"
      BY <1>4 DEF BeginIngestion
    <2>2. CASE recorderLock[Recorder(file[w])] # Free
      <3>1. Rollback(w) /\ Answer(w, "busy") /\ UNCHANGED <<rejections, client, rebuilds>>
        BY <1>4, <2>2 DEF BeginIngestion
      <3>2. QED
        BY <3>1, RollbackTypes DEF TypeOK, Replies
    <2>3. CASE recorderLock[Recorder(file[w])] = Free
      <3>1. GroupsOf(file[w], slug[w]) \subseteq Groups
        BY <1>1, <2>1, BodyTypes DEF TypeOK
      <3>2. /\ recorderLock' = [recorderLock EXCEPT ![Recorder(file[w])] = w]
            /\ todo' = [todo EXCEPT ![w] = GroupsOf(file[w], slug[w])]
            /\ pc' = [pc EXCEPT ![w] = "resolve"]
            /\ UNCHANGED <<store, groupLock, inserting, file, slug, known, fresh,
                           shown, counted, reply, rejections, client, rebuilds>>
        BY <1>4, <2>3 DEF BeginIngestion, Goto
      <3>3. recorderLock' \in [Engines -> Workers \cup {Free}]
        BY <3>2 DEF TypeOK
      <3>4. QED
        BY <3>1, <3>2, <3>3 DEF TypeOK, PCs
    <2>4. QED
      BY <2>2, <2>3
  <1>5. CASE ResolveGroup(w)
    BY <1>5 DEF TypeOK, ResolveGroup
  <1>6. CASE LockGroups(w)
    <2>1. CASE \E g \in GroupsOf(file[w], slug[w]) : groupLock[g] # Free
      <3>1. Rollback(w) /\ Answer(w, "busy") /\ UNCHANGED <<rejections, client, rebuilds>>
        BY <1>6, <2>1 DEF LockGroups
      <3>2. QED
        BY <3>1, RollbackTypes DEF TypeOK, Replies
    <2>2. CASE \A g \in GroupsOf(file[w], slug[w]) : groupLock[g] = Free
      <3>1. /\ groupLock' = [g \in Groups |-> IF g \in GroupsOf(file[w], slug[w])
                                              THEN w ELSE groupLock[g]]
            /\ pc' = [pc EXCEPT ![w] = "insert"]
            /\ UNCHANGED <<store, recorderLock, inserting, local, reply, rejections,
                           client, rebuilds>>
        BY <1>6, <2>2 DEF LockGroups, Goto
      <3>2. groupLock' \in [Groups -> Workers \cup {Free, Rebuilder}]
        BY <3>1 DEF TypeOK
      <3>3. QED
        BY <3>1, <3>2 DEF TypeOK, PCs
    <2>3. QED
      BY <2>1, <2>2
  <1>7. CASE InsertFile(w)
    <2>1. CASE Rollback(w) /\ Answer(w, "existing")
      BY <1>7, <2>1, RollbackTypes DEF InsertFile, TypeOK, Replies
    <2>2. CASE ~(Rollback(w) /\ Answer(w, "existing"))
      BY <1>7, <2>2 DEF TypeOK, InsertFile, Goto, PCs
    <2>3. QED
      BY <2>1, <2>2
  <1>8. CASE ReadDuplicates(w)
    <2>1. LinesIn(file[w]) \subseteq Lines
      BY <1>1, <1>8, BodyTypes DEF ReadDuplicates, TypeOK
    <2>2. QED
      BY <1>8, <2>1 DEF TypeOK, ReadDuplicates, Goto, PCs
  <1>9. CASE StoreEvents(w)
    <2> DEFINE new == NewEvents(file[w], slug[w], known[w])
    <2>1. file[w] \in Files /\ slug[w] \in Groups \cup {NoGroup}
      BY <1>1, <1>9 DEF StoreEvents, TypeOK
    <2>2. new \subseteq Event
      BY <2>1, NewEventsFacts
    <2>3. fresh' \in [Workers -> SUBSET Event]
      BY <1>9, <2>2 DEF TypeOK, StoreEvents
    <2>4. counted' \in [Workers -> [Groups -> SUBSET Event]]
      BY <1>9, <2>2 DEF TypeOK, StoreEvents, InGroup
    <2>5. shown' \in [Workers -> [Groups -> SUBSET Event]]
      BY <1>9, <2>2 DEF TypeOK, StoreEvents, InGroup
    <2>6. QED
      BY <1>9, <2>3, <2>4, <2>5 DEF TypeOK, StoreEvents, Goto, PCs
  <1>10. CASE Commit(w)
    BY <1>1, <1>10, CommitTypes DEF Commit, TypeOK, Replies
  <1>11. CASE LockTimeout(w)
    BY <1>11, RollbackTypes DEF LockTimeout, TypeOK, Replies
  <1>12. CASE Deliver(w)
    BY <1>12 DEF TypeOK, Deliver, Goto, PCs, Replies
  <1>13. CASE TransactionFails(w)
    <2>1. file[w] \in Files
      BY <1>1, <1>13 DEF TransactionFails, InTransaction
    <2>2. faults' \in 0..MaxFaults
      BY <1>13, IngestAssumption DEF TransactionFails, TypeOK
    <2>3. QED
      BY <1>13, <2>1, <2>2, RollbackTypes, RecordTypes DEF TransactionFails, Replies
  <1>14. CASE CommitUnacknowledged(w)
    <2>1. file[w] \in Files
      BY <1>1, <1>14 DEF CommitUnacknowledged
    <2>2. faults' \in 0..MaxFaults
      BY <1>14, IngestAssumption DEF CommitUnacknowledged, TypeOK
    <2>3. QED
      BY <1>14, <2>1, <2>2, CommitTypes, RecordTypes DEF CommitUnacknowledged, Replies
  <1>15. CASE WorkerDies(w)
    <2>1. faults' \in 0..MaxFaults
      BY <1>15, IngestAssumption DEF WorkerDies, TypeOK
    <2>2. ReleaseLocks(w) /\ ClearTransaction(w)
      BY <1>15 DEF WorkerDies
    <2>3. /\ pc' \in [Workers -> PCs]
          /\ file' \in [Workers -> Files \cup {NoFile}]
          /\ slug' \in [Workers -> Groups \cup {NoGroup}]
          /\ reply' \in [Workers -> Replies]
      BY <1>15 DEF WorkerDies, Goto, TypeOK, PCs, Replies
    <2>4. QED
      BY <1>15, <2>1, <2>2, <2>3, ReleaseTypes, ClearTypes DEF WorkerDies, TypeOK
  <1>16. QED
    BY <1>2, <1>3, <1>4, <1>5, <1>6, <1>7, <1>8, <1>9, <1>10, <1>11, <1>12, <1>13,
       <1>14, <1>15 DEF WorkerStep

\* Every step preserves the types.
LEMMA TypeStep ==
    ASSUME TypeOK, Carrying, [Next]_vars
    PROVE  TypeOK'
  <1> USE DEF store, locks, local, client
  <1>1. ASSUME NEW g \in Groups, StartRebuild(g)
        PROVE  TypeOK'
    BY <1>1, IngestAssumption DEF TypeOK, StartRebuild
  <1>2. ASSUME NEW g \in Groups, FinishRebuild(g)
        PROVE  TypeOK'
    BY <1>2 DEF TypeOK, FinishRebuild, InGroup
  <1>3. CASE UNCHANGED vars
    BY <1>3 DEF TypeOK, vars
  <1>4. QED
    BY <1>1, <1>2, <1>3, WorkerTypes DEF Next, Finished

-----------------------------------------------------------------------------
(* What a step of one worker leaves alone *)

\* A step of worker w.
StepOf(w) ==
    \/ \E f \in Files, s \in Slugs : Submit(w, f, s)
    \/ WorkerStep(w) \/ TransactionFails(w) \/ CommitUnacknowledged(w)
    \/ WorkerDies(w)

\* A step of w does not touch another worker's variables.
LEMMA Frame ==
    ASSUME TypeOK, NEW w \in Workers, StepOf(w), NEW v \in Workers, v # w
    PROVE  /\ pc'[v] = pc[v] /\ file'[v] = file[v] /\ slug'[v] = slug[v]
           /\ known'[v] = known[v] /\ fresh'[v] = fresh[v]
           /\ shown'[v] = shown[v] /\ counted'[v] = counted[v]
           /\ reply'[v] = reply[v]
  <1> USE DEF store, locks, local, client, TypeOK, Goto, Answer, Rollback, ClearTransaction
  <1>1. ASSUME NEW f \in Files, NEW s \in Slugs, Submit(w, f, s)
        PROVE  pc'[v] = pc[v] /\ file'[v] = file[v] /\ slug'[v] = slug[v]
               /\ known'[v] = known[v] /\ fresh'[v] = fresh[v]
               /\ shown'[v] = shown[v] /\ counted'[v] = counted[v]
               /\ reply'[v] = reply[v]
    BY <1>1 DEF Submit
  <1>2. CASE LookupExisting(w)
    BY <1>2 DEF LookupExisting
  <1>3. CASE BeginIngestion(w)
    BY <1>3 DEF BeginIngestion
  <1>4. CASE ResolveGroup(w)
    BY <1>4 DEF ResolveGroup
  <1>5. CASE LockGroups(w)
    BY <1>5 DEF LockGroups
  <1>6. CASE InsertFile(w)
    BY <1>6 DEF InsertFile
  <1>7. CASE ReadDuplicates(w)
    BY <1>7 DEF ReadDuplicates
  <1>8. CASE StoreEvents(w)
    BY <1>8 DEF StoreEvents
  <1>9. CASE Commit(w)
    BY <1>9 DEF Commit, CommitWrites
  <1>10. CASE LockTimeout(w)
    BY <1>10 DEF LockTimeout
  <1>11. CASE Deliver(w)
    BY <1>11 DEF Deliver
  <1>12. CASE TransactionFails(w)
    BY <1>12 DEF TransactionFails
  <1>13. CASE CommitUnacknowledged(w)
    BY <1>13 DEF CommitUnacknowledged, CommitWrites
  <1>14. CASE WorkerDies(w)
    BY <1>14 DEF WorkerDies
  <1>15. QED
    BY <1>1, <1>2, <1>3, <1>4, <1>5, <1>6, <1>7, <1>8, <1>9, <1>10, <1>11, <1>12,
       <1>13, <1>14 DEF StepOf, WorkerStep

\* A step of w takes only free locks, and releases only its own.
LEMMA LockFrame ==
    ASSUME TypeOK, NEW w \in Workers, StepOf(w), NEW v \in Workers, v # w
    PROVE  /\ \A e \in Engines : recorderLock[e] = v => recorderLock'[e] = v
           /\ \A g \in Groups : groupLock[g] = v => groupLock'[g] = v
  <1> USE DEF store, locks, local, client
  <1> DEFINE Kept == /\ \A e \in Engines : recorderLock[e] = v => recorderLock'[e] = v
                     /\ \A g \in Groups : groupLock[g] = v => groupLock'[g] = v
  <1>1. ReleaseLocks(w) => Kept
    BY DEF ReleaseLocks, Unlocked, TypeOK
  <1>2. UNCHANGED <<recorderLock, groupLock>> => Kept
    OBVIOUS
  <1>3. CASE BeginIngestion(w)
    <2>1. CASE recorderLock[Recorder(file[w])] = Free
      BY <1>3, <2>1, IngestAssumption DEF BeginIngestion, TypeOK
    <2>2. CASE recorderLock[Recorder(file[w])] # Free
      BY <1>1, <1>3, <2>2 DEF BeginIngestion, Rollback
    <2>3. QED
      BY <2>1, <2>2
  <1>4. CASE LockGroups(w)
    <2>1. CASE \A g \in GroupsOf(file[w], slug[w]) : groupLock[g] = Free
      BY <1>4, <2>1, IngestAssumption DEF LockGroups, TypeOK
    <2>2. CASE \E g \in GroupsOf(file[w], slug[w]) : groupLock[g] # Free
      BY <1>1, <1>4, <2>2 DEF LockGroups, Rollback
    <2>3. QED
      BY <2>1, <2>2
  <1>5. CASE InsertFile(w)
    BY <1>1, <1>2, <1>5 DEF InsertFile, Rollback
  <1>6. CASE Commit(w) \/ CommitUnacknowledged(w)
    BY <1>1, <1>6 DEF Commit, CommitUnacknowledged, CommitWrites
  <1>7. CASE LockTimeout(w) \/ TransactionFails(w) \/ WorkerDies(w)
    BY <1>1, <1>7 DEF LockTimeout, TransactionFails, WorkerDies, Rollback
  <1>8. CASE LookupExisting(w) \/ ResolveGroup(w) \/ ReadDuplicates(w)
             \/ StoreEvents(w) \/ Deliver(w)
    BY <1>2, <1>8 DEF LookupExisting, ResolveGroup, ReadDuplicates, StoreEvents, Deliver
  <1>9. CASE \E f \in Files, s \in Slugs : Submit(w, f, s)
    BY <1>2, <1>9 DEF Submit
  <1>10. QED
    BY <1>3, <1>4, <1>5, <1>6, <1>7, <1>8, <1>9 DEF StepOf, WorkerStep

\* Only a commit writes the evidence tables.
LEMMA StoreFrame ==
    ASSUME NEW w \in Workers, StepOf(w)
    PROVE  \/ UNCHANGED store
           \/ pc[w] = "commit" /\ CommitWrites(w) /\ (Answer(w, "created") \/ Answer(w, "failed"))
              /\ outcome' = outcome
  BY DEF StepOf, WorkerStep, Submit, LookupExisting, BeginIngestion, ResolveGroup,
         LockGroups, InsertFile, ReadDuplicates, StoreEvents, Commit, LockTimeout,
         Deliver, TransactionFails, CommitUnacknowledged, WorkerDies, Rollback,
         store, client

\* The next-state relation, one process at a time.
LEMMA NextCases ==
    ASSUME [Next]_vars
    PROVE  \/ \E w \in Workers : StepOf(w)
           \/ \E g \in Groups : StartRebuild(g) \/ FinishRebuild(g)
           \/ UNCHANGED vars
  BY DEF Next, StepOf, Finished

-----------------------------------------------------------------------------
(* Requests and answers *)

\* Every step keeps requests sound.
LEMMA RequestsStep ==
    ASSUME TypeOK, RequestsSound, [Next]_vars
    PROVE  RequestsSound'
  <1> USE DEF store, locks, local, client
  <1> DEFINE Sound(v) ==
        /\ pc[v] \notin {"idle", "reply"} => file[v] \in Valid
        /\ pc[v] # "idle" => file[v] \in Files /\ slug[v] \in Slugs
        /\ pc[v] = "reply" /\ reply[v] \in {"created", "existing"}
              => file[v] \in files \cap Valid
        /\ pc[v] = "reply" /\ reply[v] = "rejected" => file[v] \notin Valid
  <1>1. ASSUME NEW w \in Workers, StepOf(w)
        PROVE  files \subseteq files'
    BY <1>1, StoreFrame DEF CommitWrites
  <1>2. ASSUME NEW w \in Workers, StepOf(w)
        PROVE  Sound(w)'
    <2>0. Sound(w) /\ pc \in [Workers -> PCs] /\ reply \in [Workers -> Replies]
          /\ file \in [Workers -> Files \cup {NoFile}]
          /\ slug \in [Workers -> Groups \cup {NoGroup}]
      BY DEF RequestsSound, TypeOK
    <2> USE DEF Goto, Answer, Rollback
    <2>1. CASE \E f \in Files, s \in Slugs : Submit(w, f, s)
      BY <2>0, <2>1, RecordsAssumption DEF Submit
    <2>2. CASE LookupExisting(w)
      BY <2>0, <2>2 DEF LookupExisting
    <2>3. CASE BeginIngestion(w)
      BY <2>0, <2>3 DEF BeginIngestion
    <2>4. CASE ResolveGroup(w)
      BY <2>0, <2>4 DEF ResolveGroup
    <2>5. CASE LockGroups(w)
      BY <2>0, <2>5 DEF LockGroups
    <2>6. CASE InsertFile(w)
      BY <2>0, <2>6 DEF InsertFile
    <2>7. CASE ReadDuplicates(w)
      BY <2>0, <2>7 DEF ReadDuplicates
    <2>8. CASE StoreEvents(w)
      BY <2>0, <2>8 DEF StoreEvents
    <2>9. CASE Commit(w) \/ CommitUnacknowledged(w)
      BY <2>0, <2>9 DEF Commit, CommitUnacknowledged, CommitWrites
    <2>10. CASE LockTimeout(w)
      BY <2>0, <2>10 DEF LockTimeout, WaitsForGroup, WaitsForHash
    <2>11. CASE Deliver(w) \/ WorkerDies(w)
      BY <2>0, <2>11 DEF Deliver, WorkerDies
    <2>12. CASE TransactionFails(w)
      BY <2>0, <2>12 DEF TransactionFails, InTransaction
    <2>13. QED
      BY <1>2, <2>1, <2>2, <2>3, <2>4, <2>5, <2>6, <2>7, <2>8, <2>9, <2>10, <2>11,
         <2>12 DEF StepOf, WorkerStep
  <1>3. ASSUME NEW w \in Workers, StepOf(w), NEW v \in Workers, v # w
        PROVE  Sound(v)'
    <2>1. Sound(v)
      BY DEF RequestsSound
    <2>2. QED
      BY <1>1, <1>3, <2>1, Frame
  <1>4. CASE \E w \in Workers : StepOf(w)
    BY <1>2, <1>3, <1>4 DEF RequestsSound
  <1>5. CASE \E g \in Groups : StartRebuild(g) \/ FinishRebuild(g)
    BY <1>5 DEF StartRebuild, FinishRebuild, RequestsSound
  <1>6. CASE UNCHANGED vars
    BY <1>6 DEF vars, RequestsSound
  <1>7. QED
    BY <1>4, <1>5, <1>6, NextCases

-----------------------------------------------------------------------------
(* Locks are held *)

\* A valid body has a recorder.
LEMMA RecorderType ==
    ASSUME NEW f \in Valid
    PROVE  f \in Files /\ Recorder(f) \in Engines
           /\ \A l \in LinesIn(f) : EngineOf[l] = Recorder(f)
  <1>1. f \in Files /\ FileLines[f] \in Seq(Lines) /\ FileLines[f] # <<>>
    BY RecordsAssumption, BodyAssumption
  <1>2. FileLines[f][1] \in Lines
    BY <1>1
  <1>3. QED
    BY <1>1, <1>2, RecordsAssumption, BodyAssumption DEF Recorder

\* Every step keeps the locks of open transactions.
LEMMA LocksStep ==
    ASSUME TypeOK, Carrying, LocksHeld, [Next]_vars
    PROVE  LocksHeld'
  <1> USE DEF store, locks, local, client
  <1> DEFINE Held(v) ==
        /\ pc[v] \in {"resolve", "insert", "dedup", "store", "commit"}
              => recorderLock[Recorder(file[v])] = v
        /\ pc[v] \in {"insert", "dedup", "store", "commit"}
              => \A g \in Mine(v) : groupLock[g] = v
  <1>1. ASSUME NEW v \in Workers, pc[v] \notin {"idle", "reply"}
        PROVE  Recorder(file[v]) \in Engines /\ Mine(v) \subseteq Groups
    <2>1. file[v] \in Valid /\ slug[v] \in Groups \cup {NoGroup}
      BY <1>1 DEF Carrying, TypeOK
    <2>2. QED
      BY <2>1, RecorderType, BodyTypes DEF Mine
  <1>2. ASSUME NEW w \in Workers, StepOf(w), NEW v \in Workers, v # w
        PROVE  Held(v)'
    <2>1. Held(v)
      BY DEF LocksHeld
    <2>2. pc'[v] = pc[v] /\ file'[v] = file[v] /\ slug'[v] = slug[v]
      BY <1>2, Frame
    <2>3. Mine(v)' = Mine(v)
      BY <2>2 DEF Mine
    <2>4. /\ \A e \in Engines : recorderLock[e] = v => recorderLock'[e] = v
          /\ \A g \in Groups : groupLock[g] = v => groupLock'[g] = v
      BY <1>2, LockFrame
    <2>5. QED
      BY <1>1, <2>1, <2>2, <2>3, <2>4
  <1>3. ASSUME NEW w \in Workers, StepOf(w)
        PROVE  Held(w)'
    <2>0. Held(w) /\ pc \in [Workers -> PCs]
      BY DEF LocksHeld, TypeOK
    <2>1. ASSUME pc'[w] \in {"idle", "reply", "lookup", "begin"}
          PROVE  Held(w)'
      BY <2>1
    <2> USE DEF Goto, Answer
    <2>2. CASE \E f \in Files, s \in Slugs : Submit(w, f, s)
      BY <2>0, <2>1, <2>2 DEF Submit
    <2>3. CASE LookupExisting(w)
      BY <2>0, <2>1, <2>3 DEF LookupExisting
    <2>4. CASE BeginIngestion(w)
      <3>1. CASE recorderLock[Recorder(file[w])] = Free
        <4>1. Recorder(file[w]) \in Engines
          BY <1>1, <2>4 DEF BeginIngestion
        <4>2. QED
          BY <2>0, <2>4, <3>1, <4>1 DEF BeginIngestion, TypeOK
      <3>2. CASE recorderLock[Recorder(file[w])] # Free
        BY <2>0, <2>1, <2>4, <3>2 DEF BeginIngestion
      <3>3. QED
        BY <3>1, <3>2
    <2>5. CASE ResolveGroup(w)
      BY <2>0, <2>5 DEF ResolveGroup
    <2>6. CASE LockGroups(w)
      <3>1. CASE \A g \in GroupsOf(file[w], slug[w]) : groupLock[g] = Free
        <4>1. Mine(w) \subseteq Groups
          BY <1>1, <2>6 DEF LockGroups
        <4>2. QED
          BY <2>0, <2>6, <3>1, <4>1 DEF LockGroups, Mine
      <3>2. CASE \E g \in GroupsOf(file[w], slug[w]) : groupLock[g] # Free
        BY <2>0, <2>1, <2>6, <3>2 DEF LockGroups
      <3>3. QED
        BY <3>1, <3>2
    <2>7. CASE InsertFile(w)
      <3>1. CASE file[w] \in files
        BY <2>0, <2>1, <2>7, <3>1 DEF InsertFile
      <3>2. CASE file[w] \notin files
        BY <2>0, <2>7, <3>2 DEF InsertFile, Mine
      <3>3. QED
        BY <3>1, <3>2
    <2>8. CASE ReadDuplicates(w) \/ StoreEvents(w)
      BY <2>0, <2>8 DEF ReadDuplicates, StoreEvents, Mine
    <2>9. CASE Commit(w) \/ CommitUnacknowledged(w)
      BY <2>0, <2>1, <2>9 DEF Commit, CommitUnacknowledged
    <2>10. CASE LockTimeout(w) \/ TransactionFails(w) \/ WorkerDies(w) \/ Deliver(w)
      BY <2>0, <2>1, <2>10 DEF LockTimeout, TransactionFails, WorkerDies, Deliver
    <2>11. QED
      BY <1>3, <2>2, <2>3, <2>4, <2>5, <2>6, <2>7, <2>8, <2>9, <2>10 DEF StepOf, WorkerStep
  <1>4. CASE \E w \in Workers : StepOf(w)
    BY <1>2, <1>3, <1>4 DEF LocksHeld
  <1>5. CASE \E g \in Groups : StartRebuild(g) \/ FinishRebuild(g)
    <2>1. PICK g \in Groups : StartRebuild(g) \/ FinishRebuild(g)
      BY <1>5
    <2>2. UNCHANGED <<pc, file, slug, recorderLock>>
      BY <2>1 DEF StartRebuild, FinishRebuild
    <2>3. \A v \in Workers, h \in Groups : groupLock[h] = v => groupLock'[h] = v
      BY <2>1, IngestAssumption DEF StartRebuild, FinishRebuild, TypeOK
    <2>4. \A v \in Workers : Mine(v)' = Mine(v)
      BY <2>2 DEF Mine
    <2>5. ASSUME NEW v \in Workers PROVE Held(v)'
      BY <1>1, <2>2, <2>3, <2>4 DEF LocksHeld
    <2>6. QED
      BY <2>5 DEF LocksHeld
  <1>6. CASE UNCHANGED vars
    BY <1>6 DEF vars, LocksHeld, Mine
  <1>7. QED
    BY <1>4, <1>5, <1>6, NextCases

-----------------------------------------------------------------------------
(* What a commit does, and why it does not disturb the others *)

\* A commit stores exactly the records that were not stored before.
LEMMA CommitStores ==
    ASSUME IngestInv, NEW w \in Workers, pc[w] = "commit", CommitWrites(w)
    PROVE  /\ file[w] \in Valid \ files /\ slug[w] \in Slugs
           /\ files' = files \cup {file[w]}
           /\ fresh[w] = NewEvents(file[w], slug[w], StoredLines)
           /\ events' = events \cup fresh[w]
           /\ groups' = groups \cup Mine(w)
  <1>1. file[w] \in Valid \ files /\ slug[w] \in Slugs
    BY DEF IngestInv, RequestsSound, ReadsStable
  <1>2. /\ known[w] = LinesIn(file[w]) \cap StoredLines
        /\ fresh[w] = NewEvents(file[w], slug[w], known[w])
    BY DEF IngestInv, ReadsStable
  <1>3. \A j \in DOMAIN FileLines[file[w]] : FileLines[file[w]][j] \in LinesIn(file[w])
    BY DEF LinesIn
  <1>4. NewEvents(file[w], slug[w], LinesIn(file[w]) \cap StoredLines)
            = NewEvents(file[w], slug[w], StoredLines)
    <2>1. {j \in DOMAIN FileLines[file[w]] :
                  /\ FileLines[file[w]][j] \notin LinesIn(file[w]) \cap StoredLines
                  /\ \A k \in 1..(j - 1) : FileLines[file[w]][k] # FileLines[file[w]][j]}
          = {j \in DOMAIN FileLines[file[w]] :
                  /\ FileLines[file[w]][j] \notin StoredLines
                  /\ \A k \in 1..(j - 1) : FileLines[file[w]][k] # FileLines[file[w]][j]}
      BY <1>3
    <2>2. QED
      BY <2>1 DEF NewEvents
  <1>5. QED
    BY <1>1, <1>2, <1>4 DEF CommitWrites, Mine

\* The events a commit adds carry records of its own recorder and groups.
LEMMA CommitAdds ==
    ASSUME IngestInv, NEW w \in Workers, pc[w] = "commit", CommitWrites(w)
    PROVE  /\ fresh[w] \subseteq Event
           /\ \A e \in fresh[w] :
                 /\ e.file = file[w] /\ e.no \in DOMAIN FileLines[file[w]]
                 /\ Line(e) \in LinesIn(file[w]) /\ Line(e) \notin StoredLines
                 /\ EngineOf[Line(e)] = Recorder(file[w])
                 /\ e.group \in Mine(w) \cup {NoGroup}
           /\ \A d, e \in fresh[w] : Line(d) = Line(e) => d = e
  <1>1. /\ file[w] \in Valid /\ file[w] \in Files /\ slug[w] \in Groups \cup {NoGroup}
        /\ fresh[w] = NewEvents(file[w], slug[w], StoredLines)
    BY CommitStores, RecordsAssumption
  <1>2. \A l \in LinesIn(file[w]) : EngineOf[l] = Recorder(file[w])
    BY <1>1, RecorderType
  <1>3. QED
    BY <1>1, <1>2, NewEventsFacts DEF Mine

\* The recorder lock and the group locks separate a commit from every other
\* open transaction: it is another file, of another recorder, in other groups.
LEMMA CommitApart ==
    ASSUME IngestInv, NEW w \in Workers, pc[w] = "commit", CommitWrites(w),
           NEW v \in Workers, v # w, pc[v] \in {"dedup", "store", "commit"}
    PROVE  /\ file[v] # file[w]
           /\ LinesIn(file[v]) \cap StoredLines' = LinesIn(file[v]) \cap StoredLines
           /\ \A g \in Mine(v) : InGroup(events', g) = InGroup(events, g)
           /\ \A g \in Mine(v) : g \notin Mine(w)
  <1>1. /\ file[v] \in Valid /\ file[w] \in Valid
        /\ recorderLock[Recorder(file[v])] = v /\ recorderLock[Recorder(file[w])] = w
        /\ \A g \in Mine(v) : groupLock[g] = v
        /\ \A g \in Mine(w) : groupLock[g] = w
    BY DEF IngestInv, RequestsSound, LocksHeld
  <1>2. Recorder(file[v]) # Recorder(file[w])
    BY <1>1
  <1>3. \A l \in LinesIn(file[v]) : EngineOf[l] = Recorder(file[v])
    BY <1>1, RecorderType
  <1>4. events' = events \cup fresh[w]
    BY CommitStores
  <1>5. \A e \in fresh[w] : Line(e) \notin LinesIn(file[v])
    BY <1>2, <1>3, CommitAdds
  <1>6. LinesIn(file[v]) \cap StoredLines' = LinesIn(file[v]) \cap StoredLines
    BY <1>4, <1>5 DEF StoredLines, Line
  <1>7. \A g \in Mine(v) : g \notin Mine(w)
    BY <1>1
  <1>8. \A g \in Mine(v) : g # NoGroup
    BY DEF Mine, GroupsOf
  <1>9. ASSUME NEW g \in Mine(v) PROVE InGroup(events', g) = InGroup(events, g)
    BY <1>4, <1>7, <1>8, CommitAdds DEF InGroup
  <1>10. QED
    BY <1>1, <1>2, <1>6, <1>7, <1>9

-----------------------------------------------------------------------------
(* What a transaction has read stays true *)

\* Every step keeps the reads of open transactions stable.
LEMMA ReadsStep ==
    ASSUME IngestInv, [Next]_vars
    PROVE  ReadsStable'
  <1> USE DEF store, locks, local, client
  <1> DEFINE Stable(v) ==
        /\ pc[v] \in {"dedup", "store", "commit"} => file[v] \notin files
        /\ pc[v] \in {"store", "commit"}
              => known[v] = LinesIn(file[v]) \cap StoredLines
        /\ pc[v] = "commit"
              => /\ fresh[v] = NewEvents(file[v], slug[v], known[v])
                 /\ \A g \in Mine(v) :
                       /\ shown[v][g] = InGroup(events \cup fresh[v], g)
                       /\ counted[v][g] = InGroup(events \cup fresh[v], g)
  <1>0. /\ TypeOK /\ RequestsSound /\ LocksHeld /\ EvidenceSound
        /\ \A v \in Workers : Stable(v)
    BY DEF IngestInv, ReadsStable
  <1>1. ASSUME NEW w \in Workers, StepOf(w), NEW v \in Workers, v # w
        PROVE  Stable(v)'
    <2>1. /\ pc'[v] = pc[v] /\ file'[v] = file[v] /\ slug'[v] = slug[v]
          /\ known'[v] = known[v] /\ fresh'[v] = fresh[v]
          /\ shown'[v] = shown[v] /\ counted'[v] = counted[v]
      BY <1>0, <1>1, Frame
    <2>2. Mine(v)' = Mine(v)
      BY <2>1 DEF Mine
    <2>3. CASE UNCHANGED store
      BY <1>0, <2>1, <2>2, <2>3 DEF StoredLines
    <2>4. CASE pc[w] = "commit" /\ CommitWrites(w)
      <3>1. CASE pc[v] \in {"dedup", "store", "commit"}
        <4>1. /\ file[v] # file[w]
              /\ LinesIn(file[v]) \cap StoredLines' = LinesIn(file[v]) \cap StoredLines
              /\ \A g \in Mine(v) : InGroup(events', g) = InGroup(events, g)
          BY <1>1, <2>4, <3>1, CommitApart
        <4>2. files' = files \cup {file[w]}
          BY <2>4, CommitStores
        <4>3. \A g \in Mine(v) : InGroup(events' \cup fresh[v], g) = InGroup(events \cup fresh[v], g)
          BY <4>1 DEF InGroup
        <4>4. QED
          BY <1>0, <2>1, <2>2, <4>1, <4>2, <4>3
      <3>2. CASE pc[v] \notin {"dedup", "store", "commit"}
        BY <2>1, <3>2
      <3>3. QED
        BY <3>1, <3>2
    <2>5. QED
      BY <1>1, <2>3, <2>4, StoreFrame
  <1>2. ASSUME NEW w \in Workers, StepOf(w)
        PROVE  Stable(w)'
    <2>0. Stable(w) /\ pc \in [Workers -> PCs] /\ known \in [Workers -> SUBSET Lines]
          /\ fresh \in [Workers -> SUBSET Event]
          /\ shown \in [Workers -> [Groups -> SUBSET Event]]
          /\ counted \in [Workers -> [Groups -> SUBSET Event]]
      BY <1>0 DEF TypeOK
    <2>1. ASSUME pc'[w] \in {"idle", "reply", "lookup", "begin", "resolve", "insert"}
          PROVE  Stable(w)'
      BY <2>1
    <2> USE DEF Goto, Answer
    <2>2. CASE \E f \in Files, s \in Slugs : Submit(w, f, s)
      BY <2>0, <2>1, <2>2 DEF Submit
    <2>3. CASE LookupExisting(w) \/ BeginIngestion(w) \/ ResolveGroup(w) \/ LockGroups(w)
      BY <2>0, <2>1, <2>3 DEF LookupExisting, BeginIngestion, ResolveGroup, LockGroups
    <2>4. CASE InsertFile(w)
      BY <2>0, <2>1, <2>4 DEF InsertFile
    <2>5. CASE ReadDuplicates(w)
      BY <2>0, <2>5 DEF ReadDuplicates, StoredLines
    <2>6. CASE StoreEvents(w)
      <3>1. /\ pc[w] = "store" /\ pc'[w] = "commit"
            /\ UNCHANGED <<store, file, slug, known>>
        BY <2>0, <2>6 DEF StoreEvents
      <3>2. fresh'[w] = NewEvents(file[w], slug[w], known[w])
        BY <2>0, <2>6 DEF StoreEvents
      <3>3. Mine(w) \subseteq Groups
        BY <1>0, <3>1, BodyTypes DEF Mine, RequestsSound, TypeOK
      <3>4. ASSUME NEW g \in Mine(w)
            PROVE  /\ counted'[w][g] = InGroup(events \cup fresh'[w], g)
                   /\ shown'[w][g] = InGroup(events \cup fresh'[w], g)
        <4>1. g \in Groups /\ g \in GroupsOf(file[w], slug[w])
          BY <3>3 DEF Mine
        <4>2. projected[g] = InGroup(events, g)
          BY <1>0, <4>1 DEF EvidenceSound, ViewsCurrent
        <4>3. counted'[w][g] = InGroup(events \cup fresh'[w], g)
          BY <2>0, <2>6, <3>2, <4>1 DEF StoreEvents
        <4>4. shown'[w][g] = InGroup(fresh'[w], g) \cup InGroup(events, g)
          BY <2>0, <2>6, <3>2, <4>1, <4>2 DEF StoreEvents
        <4>5. QED
          BY <4>3, <4>4 DEF InGroup
      <3>5. Mine(w)' = Mine(w) /\ StoredLines' = StoredLines
        BY <3>1 DEF Mine, StoredLines
      <3>6. QED
        BY <2>0, <3>1, <3>2, <3>4, <3>5
    <2>7. CASE Commit(w) \/ CommitUnacknowledged(w)
      BY <2>0, <2>1, <2>7 DEF Commit, CommitUnacknowledged
    <2>8. CASE LockTimeout(w) \/ TransactionFails(w) \/ WorkerDies(w) \/ Deliver(w)
      BY <2>0, <2>1, <2>8 DEF LockTimeout, TransactionFails, WorkerDies, Deliver
    <2>9. QED
      BY <1>2, <2>2, <2>3, <2>4, <2>5, <2>6, <2>7, <2>8 DEF StepOf, WorkerStep
  <1>3. CASE \E w \in Workers : StepOf(w)
    BY <1>1, <1>2, <1>3 DEF ReadsStable
  <1>4. CASE \E g \in Groups : StartRebuild(g) \/ FinishRebuild(g)
    <2>1. UNCHANGED <<files, events, pc, file, slug, known, fresh, shown, counted>>
      BY <1>4 DEF StartRebuild, FinishRebuild
    <2>2. QED
      BY <1>0, <2>1 DEF ReadsStable, StoredLines, Mine
  <1>5. CASE UNCHANGED vars
    BY <1>0, <1>5 DEF vars, ReadsStable, StoredLines, Mine
  <1>6. QED
    BY <1>3, <1>4, <1>5, NextCases

-----------------------------------------------------------------------------
(* The evidence *)

\* Every step keeps the committed rows sound.
LEMMA EvidenceStep ==
    ASSUME IngestInv, [Next]_vars
    PROVE  EvidenceSound'
  <1> USE DEF store, locks, local, client
  <1>0. TypeOK /\ RequestsSound /\ EvidenceSound
    BY DEF IngestInv
  <1>1. ASSUME NEW w \in Workers, pc[w] = "commit", CommitWrites(w), outcome' = outcome
        PROVE  EvidenceSound'
    <2>1. /\ file[w] \in Valid \ files
          /\ files' = files \cup {file[w]} /\ events' = events \cup fresh[w]
      BY <1>1, CommitStores
    <2>2. /\ \A e \in fresh[w] :
                 /\ e.file = file[w] /\ e.no \in DOMAIN FileLines[file[w]]
                 /\ Line(e) \notin StoredLines
                 /\ e.group \in Mine(w) \cup {NoGroup}
          /\ \A d, e \in fresh[w] : Line(d) = Line(e) => d = e
      BY <1>1, CommitAdds
    <2>3. \A e \in events' : e.file \in files' /\ e.no \in DOMAIN FileLines[e.file]
      BY <1>0, <2>1, <2>2 DEF EvidenceSound
    <2>4. CanonicalLines'
      <3>1. \A d, e \in events : Line(d) = Line(e) => d = e
        BY <1>0 DEF EvidenceSound, CanonicalLines
      <3>2. \A d \in events : Line(d) \in StoredLines
        BY DEF StoredLines
      <3>3. \A d, e \in events' : Line(d) = Line(e) => d = e
        BY <2>1, <2>2, <3>1, <3>2
      <3>4. QED
        BY <3>3 DEF CanonicalLines, Line
    <2>5. ViewsCurrent'
      <3>1. ASSUME NEW g \in Groups, g \in Mine(w)
            PROVE  projected'[g] = InGroup(events', g) /\ rollup'[g] = InGroup(events', g)
        <4>1. /\ shown[w][g] = InGroup(events \cup fresh[w], g)
              /\ counted[w][g] = InGroup(events \cup fresh[w], g)
          BY <1>1, <3>1 DEF IngestInv, ReadsStable
        <4>2. QED
          BY <1>1, <2>1, <3>1, <4>1 DEF CommitWrites, Mine
      <3>2. ASSUME NEW g \in Groups, g \notin Mine(w)
            PROVE  projected'[g] = InGroup(events', g) /\ rollup'[g] = InGroup(events', g)
        <4>1. InGroup(events', g) = InGroup(events, g)
          BY <2>1, <2>2, <3>2, RecordsAssumption DEF InGroup
        <4>2. QED
          BY <1>0, <1>1, <3>2, <4>1 DEF CommitWrites, Mine, EvidenceSound, ViewsCurrent
      <3>3. QED
        BY <3>1, <3>2 DEF ViewsCurrent
    <2>6. AnswersTruthful'
      BY <1>0, <1>1, <2>1 DEF EvidenceSound, AnswersTruthful
    <2>7. QED
      BY <1>0, <2>1, <2>3, <2>4, <2>5, <2>6 DEF EvidenceSound
  <1>2. ASSUME NEW w \in Workers, StepOf(w), UNCHANGED store
        PROVE  EvidenceSound'
    <2>1. AnswersTruthful'
      <3>1. CASE Deliver(w)
        <4>1. /\ pc[w] = "reply" /\ file[w] \in Files
              /\ outcome' = [outcome EXCEPT ![file[w]] =
                   IF reply[w] \in {"created", "existing"} THEN "stored"
                   ELSE IF reply[w] = "rejected" THEN "refused" ELSE @]
          BY <1>0, <3>1 DEF Deliver, RequestsSound
        <4>2. /\ reply[w] \in {"created", "existing"} => file[w] \in files \cap Valid
              /\ reply[w] = "rejected" => file[w] \notin Valid
          BY <1>0, <4>1 DEF RequestsSound
        <4>3. QED
          BY <1>0, <1>2, <4>1, <4>2 DEF EvidenceSound, AnswersTruthful, TypeOK
      <3>2. CASE ~Deliver(w)
        <4>1. outcome' = outcome
          BY <1>2, <3>2 DEF StepOf, WorkerStep, Submit, LookupExisting, BeginIngestion,
             ResolveGroup, LockGroups, InsertFile, ReadDuplicates, StoreEvents, Commit,
             LockTimeout, TransactionFails, CommitUnacknowledged, WorkerDies
        <4>2. QED
          BY <1>0, <1>2, <4>1 DEF EvidenceSound, AnswersTruthful
      <3>3. QED
        BY <3>1, <3>2
    <2>2. QED
      BY <1>0, <1>2, <2>1 DEF EvidenceSound, CanonicalLines, ViewsCurrent, Line, InGroup
  <1>3. CASE \E w \in Workers : StepOf(w)
    BY <1>1, <1>2, <1>3, StoreFrame
  <1>4. CASE \E g \in Groups : StartRebuild(g) \/ FinishRebuild(g)
    <2>1. UNCHANGED <<files, events, rollup, outcome>>
      BY <1>4 DEF StartRebuild, FinishRebuild
    <2>2. ViewsCurrent'
      BY <1>0, <1>4 DEF StartRebuild, FinishRebuild, EvidenceSound, ViewsCurrent, TypeOK
    <2>3. QED
      BY <1>0, <2>1, <2>2 DEF EvidenceSound, CanonicalLines, AnswersTruthful, Line
  <1>5. CASE UNCHANGED vars
    BY <1>0, <1>5 DEF vars, EvidenceSound, CanonicalLines, ViewsCurrent, AnswersTruthful,
       Line, InGroup
  <1>6. QED
    BY <1>3, <1>4, <1>5, NextCases

-----------------------------------------------------------------------------
(* Initially *)

\* The rows an older release left behind are sound.
LEMMA LegacyFacts ==
    /\ LegacyEvents \subseteq Event
    /\ \A e \in LegacyEvents : /\ e.file \in Legacy /\ e.no \in DOMAIN FileLines[e.file]
                               /\ e.group = NoGroup
    /\ \A d, e \in LegacyEvents : Line(d) = Line(e) => d = e
  <1>1. \A f \in Legacy : f \in Files
    BY RecordsAssumption
  <1>2. ASSUME NEW e \in LegacyEvents
        PROVE  \E f \in Legacy : e \in NewEvents(f, NoGroup, {})
    BY DEF LegacyEvents
  <1>3. ASSUME NEW e \in LegacyEvents
        PROVE  /\ e \in Event /\ e.file \in Legacy /\ e.no \in DOMAIN FileLines[e.file]
               /\ Line(e) \in LinesIn(e.file) /\ e.group = NoGroup
    <2>1. PICK f \in Legacy : e \in NewEvents(f, NoGroup, {})
      BY <1>2, <1>3
    <2>2. e \in Event /\ e.file = f /\ e.no \in DOMAIN FileLines[f] /\ Line(e) \in LinesIn(f)
          /\ e.group \in GroupsOf(f, NoGroup) \cup {NoGroup}
      BY <1>1, <2>1, NewEventsFacts
    <2>3. GroupsOf(f, NoGroup) = {}
      BY BodyAssumption DEF GroupsOf, KeyOf
    <2>4. QED
      BY <2>2, <2>3
  <1>4. ASSUME NEW d \in LegacyEvents, NEW e \in LegacyEvents, Line(d) = Line(e)
        PROVE  d = e
    <2>1. PICK f \in Legacy : d \in NewEvents(f, NoGroup, {})
      BY <1>2, <1>4
    <2>2. PICK h \in Legacy : e \in NewEvents(h, NoGroup, {})
      BY <1>2, <1>4
    <2>3. Line(d) \in LinesIn(f) /\ Line(e) \in LinesIn(h)
      BY <1>1, <2>1, <2>2, NewEventsFacts
    <2>4. f = h
      BY <1>1, <1>4, <2>3, BodyAssumption
    <2>5. QED
      BY <1>1, <1>4, <2>1, <2>2, <2>4, NewEventsFacts
  <1>5. QED
    BY <1>3, <1>4

\* The initial states satisfy the invariant.
LEMMA InitInv == Init => IngestInv
  <1> SUFFICES ASSUME Init PROVE IngestInv
    OBVIOUS
  <1>1. TypeOK
    BY LegacyFacts, RecordsAssumption, IngestAssumption
    DEF Init, TypeOK, NoEvents, PCs, Replies
  <1>2. RequestsSound /\ LocksHeld /\ ReadsStable
    BY DEF Init, RequestsSound, LocksHeld, ReadsStable
  <1>3. ViewsCurrent
    BY LegacyFacts, RecordsAssumption DEF Init, ViewsCurrent, InGroup, NoEvents
  <1>4. CanonicalLines /\ AnswersTruthful
    BY LegacyFacts DEF Init, CanonicalLines, AnswersTruthful
  <1>5. EvidenceSound
    BY <1>3, <1>4, LegacyFacts DEF Init, EvidenceSound
  <1>6. QED
    BY <1>1, <1>2, <1>5 DEF IngestInv

-----------------------------------------------------------------------------
(* Theorems *)

\* The invariant is inductive: whatever a transaction read under its recorder
\* and group locks (begin_ingestion, SELECT FOR UPDATE NOWAIT) is still true
\* when it commits.
THEOREM InvariantHolds == Spec => []IngestInv
  <1>1. ASSUME IngestInv, [Next]_vars PROVE IngestInv'
    <2>1. TypeOK /\ RequestsSound /\ Carrying /\ LocksHeld
      BY <1>1, SoundCarrying DEF IngestInv
    <2>2. QED
      BY <1>1, <2>1, TypeStep, RequestsStep, LocksStep, ReadsStep, EvidenceStep DEF IngestInv
  <1>2. QED
    BY <1>1, InitInv, PTL DEF Spec

\* Type correctness of the ingestion pipeline.
THEOREM TypeCorrect == Spec => []TypeOK
  <1>1. IngestInv => TypeOK
    BY DEF IngestInv
  <1>2. QED
    BY <1>1, InvariantHolds, PTL

\* No interleaving of uploads stores one record twice (create_events under the
\* recorder lock of begin_ingestion).
THEOREM DeduplicationExact == Spec => []CanonicalLines
  <1>1. IngestInv => CanonicalLines
    BY DEF IngestInv, EvidenceSound
  <1>2. QED
    BY <1>1, InvariantHolds, PTL

\* Projections and rollups always reflect exactly the committed evidence of
\* their group (project_file_events, refresh_group_rollups, rebuilds).
THEOREM ViewsAlwaysCurrent == Spec => []ViewsCurrent
  <1>1. IngestInv => ViewsCurrent
    BY DEF IngestInv, EvidenceSound
  <1>2. QED
    BY <1>1, InvariantHolds, PTL

\* Clients are told the truth, whatever is lost, retried or replayed
\* (validation precedes the file-hash lookup in ingest_audit_log_bytes).
THEOREM AnswersAlwaysTruthful == Spec => []AnswersTruthful
  <1>1. IngestInv => AnswersTruthful
    BY DEF IngestInv, EvidenceSound
  <1>2. QED
    BY <1>1, InvariantHolds, PTL

\* No request waits on the file-hash index: an identical file in flight is
\* turned away at the recorder lock.
THEOREM HashNeverContended == Spec => []NeverWaitsForHash
  <1>1. ASSUME IngestInv PROVE NeverWaitsForHash
    <2>1. SUFFICES ASSUME NEW w \in Workers, NEW v \in Workers \ {w}, pc[w] = "insert",
                          file[v] = file[w], pc[v] \in {"dedup", "store", "commit"}
                   PROVE  FALSE
      BY DEF NeverWaitsForHash, WaitsForHash
    <2>2. recorderLock[Recorder(file[v])] = v /\ recorderLock[Recorder(file[w])] = w
      BY <1>1, <2>1 DEF IngestInv, LocksHeld
    <2>3. QED
      BY <2>1, <2>2
  <1>2. QED
    BY <1>1, InvariantHolds, PTL

-----------------------------------------------------------------------------
(* Refinement of the archive *)

\* The archive's operators are the operators of AuditRecords.
LEMMA PromiseOperators ==
    /\ \A f, s, seen : Promise!NewEvents(f, s, seen) = NewEvents(f, s, seen)
    /\ \A f, s : Promise!GroupsOf(f, s) = GroupsOf(f, s)
    /\ \A E, g : Promise!InGroup(E, g) = InGroup(E, g)
    /\ \A e : Promise!Line(e) = Line(e)
    /\ Promise!NoEvents = NoEvents
    /\ Promise!LegacyEvents = LegacyEvents
  <1>1. \A f, s, seen : Promise!NewEvents(f, s, seen) = NewEvents(f, s, seen)
    BY DEF Promise!NewEvents, NewEvents, Promise!KeyOf, KeyOf
  <1>2. \A f, s : Promise!GroupsOf(f, s) = GroupsOf(f, s)
    BY DEF Promise!GroupsOf, GroupsOf, Promise!KeyOf, KeyOf, Promise!LinesIn, LinesIn
  <1>3. \A E, g : Promise!InGroup(E, g) = InGroup(E, g)
    BY DEF Promise!InGroup, InGroup
  <1>4. \A e : Promise!Line(e) = Line(e)
    BY DEF Promise!Line, Line
  <1>5. Promise!NoEvents = NoEvents
    BY DEF Promise!NoEvents, NoEvents
  <1>6. Promise!LegacyEvents = LegacyEvents
    BY <1>1 DEF Promise!LegacyEvents, LegacyEvents
  <1>7. QED
    BY <1>1, <1>2, <1>3, <1>4, <1>5, <1>6

\* A commit is the archive's Accept.
LEMMA CommitAccepts ==
    ASSUME IngestInv, IngestInv', NEW w \in Workers, pc[w] = "commit", CommitWrites(w),
           outcome' = outcome
    PROVE  Promise!Accept(file[w], slug[w])
  <1>1. /\ file[w] \in Valid \ files
        /\ files' = files \cup {file[w]}
        /\ events' = events \cup NewEvents(file[w], slug[w], StoredLines)
        /\ groups' = groups \cup GroupsOf(file[w], slug[w])
    BY CommitStores DEF Mine
  <1>2. {Promise!Line(e) : e \in events} = StoredLines
    BY PromiseOperators DEF StoredLines
  <1>3. /\ projected' = [g \in Groups |-> InGroup(events', g)]
        /\ rollup' = [g \in Groups |-> InGroup(events', g)]
    BY DEF IngestInv, EvidenceSound, ViewsCurrent, TypeOK
  <1>4. /\ projected' = [g \in Groups |-> Promise!InGroup(events', g)]
        /\ rollup' = [g \in Groups |-> Promise!InGroup(events', g)]
    BY <1>3, PromiseOperators
  <1>5. /\ events' = events \cup Promise!NewEvents(file[w], slug[w], StoredLines)
        /\ groups' = groups \cup Promise!GroupsOf(file[w], slug[w])
    BY <1>1, PromiseOperators
  <1>6. QED
    BY <1>1, <1>2, <1>4, <1>5 DEF Promise!Accept

\* Every step of the pipeline is a step of the archive, or changes nothing in it.
LEMMA RefinementStep ==
    ASSUME IngestInv, IngestInv', [Next]_vars
    PROVE  [Promise!Next]_(Promise!vars)
  <1> USE DEF store, locks, local, client
  <1>1. ASSUME NEW w \in Workers, StepOf(w)
        PROVE  [Promise!Next]_(Promise!vars)
    <2>1. CASE pc[w] = "commit" /\ CommitWrites(w) /\ outcome' = outcome
      <3>1. Promise!Accept(file[w], slug[w])
        BY <2>1, CommitAccepts
      <3>2. file[w] \in Files /\ slug[w] \in Slugs
        BY <2>1 DEF IngestInv, RequestsSound
      <3>3. QED
        BY <3>1, <3>2 DEF Promise!Next
    <2>2. CASE UNCHANGED store /\ ~Deliver(w)
      <3>1. outcome' = outcome
        BY <1>1, <2>2 DEF StepOf, WorkerStep, Submit, LookupExisting, BeginIngestion,
           ResolveGroup, LockGroups, InsertFile, ReadDuplicates, StoreEvents, Commit,
           LockTimeout, TransactionFails, CommitUnacknowledged, WorkerDies
      <3>2. QED
        BY <2>2, <3>1 DEF Promise!vars
    <2>3. CASE Deliver(w)
      <3>1. /\ pc[w] = "reply" /\ file[w] \in Files /\ UNCHANGED store
            /\ outcome' = [outcome EXCEPT ![file[w]] =
                 IF reply[w] \in {"created", "existing"} THEN "stored"
                 ELSE IF reply[w] = "rejected" THEN "refused" ELSE @]
        BY <2>3 DEF Deliver, IngestInv, RequestsSound
      <3>2. /\ reply[w] \in {"created", "existing"} => file[w] \in files \cap Valid
            /\ reply[w] = "rejected" => file[w] \notin Valid
        BY <3>1 DEF IngestInv, RequestsSound
      <3>3. CASE reply[w] \in {"created", "existing"}
        <4>1. Promise!Tell(file[w])
          BY <3>1, <3>2, <3>3 DEF Promise!Tell
        <4>2. QED
          BY <3>1, <4>1 DEF Promise!Next
      <3>4. CASE reply[w] = "rejected"
        <4>1. Promise!Tell(file[w])
          BY <3>1, <3>2, <3>4 DEF Promise!Tell
        <4>2. QED
          BY <3>1, <4>1 DEF Promise!Next
      <3>5. CASE reply[w] \notin {"created", "existing", "rejected"}
        <4>1. outcome' = outcome
          BY <3>1, <3>5 DEF IngestInv, TypeOK
        <4>2. QED
          BY <3>1, <4>1 DEF Promise!vars
      <3>6. QED
        BY <3>3, <3>4, <3>5
    <2>4. QED
      BY <1>1, <2>1, <2>2, <2>3, StoreFrame
  <1>2. CASE \E g \in Groups : StartRebuild(g) \/ FinishRebuild(g)
    <2>1. UNCHANGED <<files, events, groups, rollup, outcome>>
      BY <1>2 DEF StartRebuild, FinishRebuild
    <2>2. projected' = projected
      <3>1. /\ projected = [g \in Groups |-> InGroup(events, g)]
            /\ projected' = [g \in Groups |-> InGroup(events', g)]
        BY DEF IngestInv, EvidenceSound, ViewsCurrent, TypeOK
      <3>2. QED
        BY <2>1, <3>1
    <2>3. QED
      BY <2>1, <2>2 DEF Promise!vars
  <1>3. CASE UNCHANGED vars
    BY <1>3 DEF vars, Promise!vars
  <1>4. QED
    BY <1>1, <1>2, <1>3, NextCases

\* The pipeline implements the archive: concurrent, failing and retried uploads
\* are equivalent to accepting valid files whole, one at a time
\* (ingest_audit_log_bytes).
THEOREM Refinement == Spec => ImplementsArchive
  <1>1. Init => Promise!Init
    BY PromiseOperators DEF Init, Promise!Init
  <1>2. QED
    BY <1>1, InvariantHolds, RefinementStep, PTL DEF Spec, ImplementsArchive, Promise!Spec

-----------------------------------------------------------------------------
(* Deduplication loses nothing, and failures leave nothing behind *)

\* Each record of a body that was not seen before is in one of its new events:
\* in that of its first occurrence.
LEMMA NewEventsCover ==
    ASSUME NEW f \in Files, NEW s, NEW seen, NEW l \in LinesIn(f), l \notin seen
    PROVE  \E e \in NewEvents(f, s, seen) : Line(e) = l
  <1> DEFINE T == {i \in DOMAIN FileLines[f] : FileLines[f][i] = l}
  <1>1. DOMAIN FileLines[f] = 1..Len(FileLines[f]) /\ Len(FileLines[f]) \in Nat
    BY RecordsAssumption
  <1>2. T \subseteq Nat /\ T # {}
    BY <1>1 DEF LinesIn
  <1>3. PICK m \in T : \A n \in T : m <= n
    BY <1>2, LeastNumber
  <1>4. \A k \in 1..(m - 1) : FileLines[f][k] # FileLines[f][m]
    BY <1>1, <1>3
  <1> DEFINE e == [file |-> f, no |-> m, group |-> KeyOf(FileLines[f][m], s)]
  <1>5. e \in NewEvents(f, s, seen)
    BY <1>4 DEF NewEvents
  <1>6. Line(e) = l
    BY DEF Line
  <1>7. QED
    BY <1>5, <1>6

\* Every record of a body is skipped or has one new event.
LEMMA NewEventsCount ==
    ASSUME NEW f \in Files, NEW s, NEW seen
    PROVE  /\ Cardinality(NewEvents(f, s, seen)) \in Nat
           /\ Cardinality(SkippedLines(f, NewEvents(f, s, seen)))
                + Cardinality(NewEvents(f, s, seen)) = Len(FileLines[f])
  <1> DEFINE D == DOMAIN FileLines[f]
             J == {j \in D : /\ FileLines[f][j] \notin seen
                             /\ \A k \in 1..(j - 1) : FileLines[f][k] # FileLines[f][j]}
             N == NewEvents(f, s, seen)
             event == [i \in J |-> [file |-> f, no |-> i, group |-> KeyOf(FileLines[f][i], s)]]
  <1>1. D = 1..Len(FileLines[f]) /\ Len(FileLines[f]) \in Nat
    BY RecordsAssumption
  <1>2. IsFiniteSet(D) /\ Cardinality(D) = Len(FileLines[f])
    BY <1>1, FS_Interval
  <1>3. J \subseteq D /\ IsFiniteSet(J)
    BY <1>2, FS_Subset
  <1>4. N = {event[i] : i \in J}
    BY DEF NewEvents
  <1>5. \A i \in J : event[i].no = i
    OBVIOUS
  <1>6. SkippedLines(f, N) = D \ J
    BY <1>4, <1>5 DEF SkippedLines
  <1> HIDE DEF event, N, J
  <1>7. /\ event \in [J -> N]
        /\ \A x, y \in J : event[x] = event[y] => x = y
        /\ \A t \in N : \E x \in J : event[x] = t
    BY <1>4, <1>5 DEF event
  <1>8. Cardinality(N) = Cardinality(J)
    BY <1>3, <1>7, OneToOne
  <1>9. Cardinality(D \ J) = Cardinality(D) - Cardinality(D \cap J)
    BY <1>2, FS_Difference
  <1>10. D \cap J = J
    BY <1>3
  <1>11. Cardinality(J) \in Nat
    BY <1>3, FS_CardinalityType
  <1>12. Cardinality(SkippedLines(f, N)) = Len(FileLines[f]) - Cardinality(J)
    BY <1>2, <1>6, <1>9, <1>10
  <1> HIDE DEF D
  <1>13. Cardinality(N) \in Nat /\ Cardinality(SkippedLines(f, N)) + Cardinality(N) = Len(FileLines[f])
    BY <1>1, <1>8, <1>11, <1>12
  <1>14. QED
    BY <1>13 DEF N

\* What the committed rows of an accepted file account for.
RowsComplete == NoTraceOfFailedUploads /\ AcceptedLinesStored /\ DuplicateCountExact

\* The rows an older release left are complete: its bodies repeat no record.
LEMMA LegacyComplete ==
    ASSUME Init
    PROVE  RowsComplete
  <1>1. files = Legacy /\ events = LegacyEvents /\ groups = {}
    BY DEF Init
  <1>2. NoTraceOfFailedUploads
    BY <1>1, LegacyFacts DEF NoTraceOfFailedUploads
  <1>3. ASSUME NEW f \in Legacy
        PROVE  /\ LinesIn(f) \subseteq {Line(e) : e \in events}
               /\ duplicates[f] + Cardinality({e \in events : e.file = f}) = Len(FileLines[f])
    <2> DEFINE N == NewEvents(f, NoGroup, {})
    <2>1. f \in Files /\ duplicates[f] = 0
      BY RecordsAssumption DEF Init
    <2>2. N \subseteq events
      BY <1>1 DEF LegacyEvents
    <2>3. LinesIn(f) \subseteq {Line(e) : e \in events}
      BY <2>1, <2>2, NewEventsCover
    <2>4. {e \in events : e.file = f} = N
      <3>1. \A h \in Legacy : \A e \in NewEvents(h, NoGroup, {}) : e.file = h
        BY DEF NewEvents
      <3>2. \A e \in events : \E h \in Legacy : e \in NewEvents(h, NoGroup, {})
        BY <1>1 DEF LegacyEvents
      <3>3. QED
        BY <2>2, <3>1, <3>2
    <2>5. SkippedLines(f, N) = {}
      <3>1. DOMAIN FileLines[f] = 1..Len(FileLines[f]) /\ Len(FileLines[f]) \in Nat
        BY <2>1, RecordsAssumption
      <3>2. ASSUME NEW i \in DOMAIN FileLines[f]
            PROVE  \E e \in N : e.no = i
        <4>1. \A k \in 1..(i - 1) : FileLines[f][k] # FileLines[f][i]
          BY <3>1, BodyAssumption
        <4>2. [file |-> f, no |-> i, group |-> KeyOf(FileLines[f][i], NoGroup)] \in N
          BY <4>1 DEF NewEvents
        <4>3. QED
          BY <4>2
      <3>3. QED
        BY <3>2 DEF SkippedLines
    <2>6. Cardinality(N) = Len(FileLines[f])
      <3>1. Cardinality(SkippedLines(f, N)) = 0
        BY <2>5, FS_EmptySet
      <3>2. QED
        BY <2>1, <3>1, NewEventsCount
    <2>7. Len(FileLines[f]) \in Nat
      BY <2>1, RecordsAssumption
    <2>8. Cardinality({e \in events : e.file = f}) = Len(FileLines[f])
      BY <2>4, <2>6, Zenon
    <2>9. QED
      BY <2>1, <2>3, <2>7, <2>8
  <1>4. QED
    BY <1>1, <1>2, <1>3 DEF RowsComplete, AcceptedLinesStored, DuplicateCountExact

\* A commit keeps the rows complete; nothing else writes them.
LEMMA CompleteStep ==
    ASSUME IngestInv, RowsComplete, [Next]_vars
    PROVE  RowsComplete'
  <1> USE DEF RowsComplete
  <1>1. CASE UNCHANGED <<files, links, duplicates, events, groups>>
    BY <1>1 DEF NoTraceOfFailedUploads, AcceptedLinesStored, DuplicateCountExact, Line
  <1>2. ASSUME NEW w \in Workers, pc[w] = "commit", CommitWrites(w)
        PROVE  RowsComplete'
    <2> DEFINE f == file[w]
    <2>1. /\ f \in Valid \ files /\ f \in Files /\ slug[w] \in Slugs
          /\ files' = files \cup {f} /\ events' = events \cup fresh[w]
          /\ groups' = groups \cup Mine(w)
          /\ fresh[w] = NewEvents(f, slug[w], StoredLines)
      BY <1>2, CommitStores, RecordsAssumption
    <2>2. /\ links \in [Files -> SUBSET Groups] /\ duplicates \in [Files -> Nat]
          /\ files \subseteq Files /\ \A e \in events : e.file \in files
      BY DEF IngestInv, TypeOK, EvidenceSound
    <2>3. /\ links' = [links EXCEPT ![f] = Mine(w)]
          /\ duplicates' = [duplicates EXCEPT ![f] = Cardinality(SkippedLines(f, fresh[w]))]
      BY <1>2 DEF CommitWrites, Mine
    <2>4. \A e \in fresh[w] : e.file = f /\ e.group \in Mine(w) \cup {NoGroup}
      BY <1>2, CommitAdds
    <2>5. NoTraceOfFailedUploads'
      BY <2>1, <2>2, <2>3, <2>4 DEF NoTraceOfFailedUploads
    <2>6. AcceptedLinesStored'
      <3>1. {Line(e) : e \in events'} = {Line(e) : e \in events} \cup {Line(e) : e \in fresh[w]}
        BY <2>1
      <3>2. LinesIn(f) \subseteq {Line(e) : e \in events'}
        <4> SUFFICES ASSUME NEW l \in LinesIn(f), l \notin StoredLines
                     PROVE  l \in {Line(e) : e \in fresh[w]}
          BY <3>1 DEF StoredLines
        <4>1. \E e \in NewEvents(f, slug[w], StoredLines) : Line(e) = l
          BY <2>1, NewEventsCover
        <4>2. QED
          BY <2>1, <4>1
      <3>3. QED
        BY <2>1, <3>1, <3>2 DEF AcceptedLinesStored, Line
    <2>7. DuplicateCountExact'
      <3>1. {e \in events' : e.file = f} = fresh[w]
        BY <2>1, <2>2, <2>4
      <3>2. \A h \in files : {e \in events' : e.file = h} = {e \in events : e.file = h}
        BY <2>1, <2>4
      <3>3. duplicates'[f] + Cardinality({e \in events' : e.file = f}) = Len(FileLines[f])
        <4>1. duplicates'[f] = Cardinality(SkippedLines(f, fresh[w]))
          BY <2>1, <2>2, <2>3
        <4>2. Cardinality(SkippedLines(f, fresh[w])) + Cardinality(fresh[w]) = Len(FileLines[f])
          BY <2>1, NewEventsCount
        <4>3. QED
          BY <3>1, <4>1, <4>2, Zenon
      <3>4. \A h \in files : duplicates'[h] = duplicates[h]
        BY <2>1, <2>2, <2>3
      <3>5. \A h \in files :
              duplicates'[h] + Cardinality({e \in events' : e.file = h}) = Len(FileLines[h])
        BY <3>2, <3>4 DEF DuplicateCountExact
      <3>6. QED
        BY <2>1, <3>3, <3>5 DEF DuplicateCountExact
    <2>8. QED
      BY <2>5, <2>6, <2>7
  <1>3. ASSUME NEW w \in Workers, StepOf(w)
        PROVE  RowsComplete'
    BY <1>1, <1>2, <1>3, StoreFrame DEF store
  <1>4. ASSUME NEW g \in Groups, StartRebuild(g) \/ FinishRebuild(g)
        PROVE  RowsComplete'
    BY <1>1, <1>4 DEF StartRebuild, FinishRebuild, store
  <1>5. CASE UNCHANGED vars
    BY <1>1, <1>5 DEF vars, store
  <1>6. QED
    BY <1>3, <1>4, <1>5, NextCases

LEMMA RowsAlwaysComplete == Spec => []RowsComplete
  <1>1. Init => RowsComplete
    BY LegacyComplete
  <1>2. IngestInv /\ RowsComplete /\ [Next]_vars => RowsComplete'
    BY CompleteStep
  <1>3. QED
    BY <1>1, <1>2, InvariantHolds, PTL DEF Spec

\* Deduplication loses no record of an accepted file, however uploads of
\* overlapping segments interleave and fail (create_events).
THEOREM NothingLost == Spec => []AcceptedLinesStored
  <1>1. RowsComplete => AcceptedLinesStored
    BY DEF RowsComplete
  <1>2. QED
    BY <1>1, RowsAlwaysComplete, PTL

\* duplicate_event_count and the file's own event rows add up to its records.
THEOREM DuplicatesCounted == Spec => []DuplicateCountExact
  <1>1. RowsComplete => DuplicateCountExact
    BY DEF RowsComplete
  <1>2. QED
    BY <1>1, RowsAlwaysComplete, PTL

\* Refused, failed and crashed uploads leave no group and no event behind (the
\* atomic block of ingest_audit_log_bytes).
THEOREM FailuresLeaveNothing == Spec => []NoTraceOfFailedUploads
  <1>1. RowsComplete => NoTraceOfFailedUploads
    BY DEF RowsComplete
  <1>2. QED
    BY <1>1, RowsAlwaysComplete, PTL

-----------------------------------------------------------------------------
(* Group rows are created in one order *)

\* The order is total, and the groups left have a first one.
LEMMA ResolveOrderFacts ==
    ASSUME NEW f \in Files, NEW s \in Groups \cup {NoGroup}
    PROVE  \A T \in SUBSET GroupsOf(f, s) :
              T # {} => \E g \in T : \A h \in T : ResolveOrder(f, s, g, h)
  <1> DEFINE refs == {RefOf[l] : l \in LinesIn(f)}
  <1> SUFFICES ASSUME NEW T \in SUBSET GroupsOf(f, s), T # {}
               PROVE  \E g \in T : \A h \in T : ResolveOrder(f, s, g, h)
    OBVIOUS
  <1>1. T \subseteq Nat
    BY BodyTypes, RecordsAssumption
  <1>2. CASE T \cap refs # {}
    <2>1. PICK g \in T \cap refs : \A h \in T \cap refs : g <= h
      BY <1>1, <1>2, LeastNumber
    <2>2. \A h \in T : ResolveOrder(f, s, g, h)
      BY <2>1 DEF ResolveOrder
    <2>3. QED
      BY <2>1, <2>2
  <1>3. CASE T \cap refs = {}
    <2>1. PICK g \in T : \A h \in T : g <= h
      BY <1>1, LeastNumber
    <2>2. \A h \in T : ResolveOrder(f, s, g, h)
      BY <1>3, <2>1 DEF ResolveOrder
    <2>3. QED
      BY <2>1, <2>2
  <1>4. QED
    BY <1>2, <1>3

\* The groups a request has resolved precede those it has still to resolve, and
\* it has inserted only rows of groups it has resolved.
ResolvedInOrder ==
    \A w \in Workers :
        /\ pc[w] = "resolve" =>
              /\ todo[w] \subseteq Mine(w)
              /\ \A g \in Mine(w) \ todo[w], h \in todo[w] : ResolveOrder(file[w], slug[w], g, h)
        /\ \A g \in Groups : inserting[g] = w =>
              /\ pc[w] \in {"resolve", "insert", "dedup", "store", "commit"}
              /\ g \in Mine(w)
              /\ pc[w] = "resolve" => g \notin todo[w]

\* The group asked for next comes first of those that are left.
LEMMA NextGroupFacts ==
    ASSUME IngestInv, ResolvedInOrder, NEW w \in Workers, pc[w] = "resolve", todo[w] # {}
    PROVE  /\ NextGroup(w) \in todo[w] /\ NextGroup(w) \in Mine(w) /\ NextGroup(w) \in Groups
           /\ \A h \in todo[w] : ResolveOrder(file[w], slug[w], NextGroup(w), h)
  <1>1. /\ file[w] \in Files /\ slug[w] \in Groups \cup {NoGroup}
        /\ todo[w] \subseteq GroupsOf(file[w], slug[w])
    BY RecordsAssumption DEF IngestInv, RequestsSound, ResolvedInOrder, Mine
  <1>2. \E g \in todo[w] : \A h \in todo[w] : ResolveOrder(file[w], slug[w], g, h)
    BY <1>1, ResolveOrderFacts
  <1>3. /\ NextGroup(w) \in todo[w]
        /\ \A h \in todo[w] : ResolveOrder(file[w], slug[w], NextGroup(w), h)
    BY <1>2 DEF NextGroup
  <1>4. QED
    BY <1>1, <1>3, BodyTypes DEF Mine

\* A step of w leaves alone the rows that others insert and what they have to
\* resolve.
LEMMA InsertingFrame ==
    ASSUME IngestInv, NEW w \in Workers, StepOf(w), NEW v \in Workers, v # w
    PROVE  /\ todo'[v] = todo[v]
           /\ \A g \in Groups : inserting'[g] = v => inserting[g] = v
  <1> USE DEF store, locks, local, client
  <1> DEFINE Kept == /\ todo'[v] = todo[v]
                     /\ \A g \in Groups : inserting'[g] = v => inserting[g] = v
  <1>1. TypeOK
    BY DEF IngestInv
  <1>2. ReleaseLocks(w) => \A g \in Groups : inserting'[g] = v => inserting[g] = v
    BY <1>1, IngestAssumption DEF ReleaseLocks, Unlocked, TypeOK
  <1>3. ClearTransaction(w) => todo'[v] = todo[v]
    BY <1>1 DEF ClearTransaction, TypeOK
  <1>4. UNCHANGED <<todo, inserting>> => Kept
    OBVIOUS
  <1>5. CASE BeginIngestion(w)
    BY <1>1, <1>2, <1>3, <1>5 DEF BeginIngestion, Rollback, TypeOK
  <1>6. CASE ResolveGroup(w)
    BY <1>1, <1>6 DEF ResolveGroup, TypeOK
  <1>7. CASE LockGroups(w) \/ InsertFile(w) \/ LockTimeout(w) \/ TransactionFails(w)
    BY <1>2, <1>3, <1>4, <1>7
    DEF LockGroups, InsertFile, LockTimeout, TransactionFails, Rollback
  <1>8. CASE Commit(w) \/ CommitUnacknowledged(w) \/ WorkerDies(w)
    BY <1>2, <1>3, <1>8 DEF Commit, CommitUnacknowledged, CommitWrites, WorkerDies
  <1>9. CASE LookupExisting(w) \/ ReadDuplicates(w) \/ StoreEvents(w) \/ Deliver(w)
    BY <1>4, <1>9 DEF LookupExisting, ReadDuplicates, StoreEvents, Deliver
  <1>10. CASE \E f \in Files, s \in Slugs : Submit(w, f, s)
    BY <1>4, <1>10 DEF Submit
  <1>11. QED
    BY <1>5, <1>6, <1>7, <1>8, <1>9, <1>10 DEF StepOf, WorkerStep

\* Every step keeps the order of resolution.
LEMMA ResolutionStep ==
    ASSUME IngestInv, ResolvedInOrder, [Next]_vars
    PROVE  ResolvedInOrder'
  <1> DEFINE Ordered(v) ==
          /\ pc[v] = "resolve" =>
                /\ todo[v] \subseteq Mine(v)
                /\ \A g \in Mine(v) \ todo[v], h \in todo[v] : ResolveOrder(file[v], slug[v], g, h)
          /\ \A g \in Groups : inserting[g] = v =>
                /\ pc[v] \in {"resolve", "insert", "dedup", "store", "commit"}
                /\ g \in Mine(v)
                /\ pc[v] = "resolve" => g \notin todo[v]
  <1>0. TypeOK /\ \A v \in Workers : Ordered(v)
    BY DEF IngestInv, ResolvedInOrder
  <1>1. ASSUME NEW v \in Workers, pc'[v] = pc[v], file'[v] = file[v], slug'[v] = slug[v],
               todo'[v] = todo[v], \A g \in Groups : inserting'[g] = v => inserting[g] = v
        PROVE  Ordered(v)'
    BY <1>0, <1>1 DEF Mine, ResolveOrder
  <1>2. ASSUME NEW w \in Workers, StepOf(w)
        PROVE  ResolvedInOrder'
    <2> USE DEF store, locks, local, client
    <2>1. ASSUME NEW v \in Workers, v # w
          PROVE  Ordered(v)'
      BY <1>0, <1>1, <1>2, <2>1, Frame, InsertingFrame
    <2> SUFFICES Ordered(w)'
      BY <2>1 DEF ResolvedInOrder
    <2>2. ASSUME ReleaseLocks(w), pc'[w] # "resolve"
          PROVE  Ordered(w)'
      BY <1>0, <2>2, IngestAssumption DEF ReleaseLocks, Unlocked, TypeOK
    <2>3. ASSUME UNCHANGED <<inserting, file, slug>>, pc'[w] # "resolve",
                 \/ pc'[w] \in {"insert", "dedup", "store", "commit"}
                 \/ pc[w] \notin {"resolve", "insert", "dedup", "store", "commit"}
          PROVE  Ordered(w)'
      BY <1>0, <2>3 DEF Mine
    <2>4. CASE BeginIngestion(w)
      <3>1. CASE recorderLock[Recorder(file[w])] = Free
        <4>1. /\ todo'[w] = Mine(w) /\ pc'[w] = "resolve" /\ Mine(w)' = Mine(w)
              /\ pc[w] = "begin" /\ inserting' = inserting
          BY <1>0, <2>4, <3>1 DEF BeginIngestion, Goto, TypeOK, Mine
        <4>2. QED
          BY <1>0, <4>1
      <3>2. CASE recorderLock[Recorder(file[w])] # Free
        BY <1>0, <2>2, <2>4, <3>2 DEF BeginIngestion, Rollback, Answer, TypeOK
      <3>3. QED
        BY <3>1, <3>2
    <2>5. CASE ResolveGroup(w)
      <3> DEFINE g == NextGroup(w)
      <3>1. /\ pc[w] = "resolve" /\ todo[w] # {} /\ pc' = pc /\ Mine(w)' = Mine(w)
            /\ UNCHANGED <<file, slug>> /\ todo'[w] = todo[w] \ {g}
            /\ \A h \in Groups : inserting'[h] = w => inserting[h] = w \/ h = g
        BY <1>0, <2>5 DEF ResolveGroup, Mine, TypeOK
      <3>2. /\ g \in todo[w] /\ g \in Mine(w)
            /\ \A h \in todo[w] : ResolveOrder(file[w], slug[w], g, h)
        BY <3>1, NextGroupFacts
      <3> HIDE DEF g
      <3>3. QED
        BY <1>0, <3>1, <3>2 DEF ResolveOrder
    <2>6. CASE LockGroups(w)
      BY <1>0, <2>2, <2>3, <2>6 DEF LockGroups, Rollback, Answer, Goto, TypeOK
    <2>7. CASE InsertFile(w)
      BY <1>0, <2>2, <2>3, <2>7 DEF InsertFile, Rollback, Answer, Goto, TypeOK
    <2>8. CASE LockTimeout(w) \/ TransactionFails(w)
      BY <1>0, <2>2, <2>8 DEF LockTimeout, TransactionFails, Rollback, Answer, TypeOK
    <2>9. CASE Commit(w) \/ CommitUnacknowledged(w) \/ WorkerDies(w)
      BY <1>0, <2>2, <2>9
      DEF Commit, CommitUnacknowledged, CommitWrites, WorkerDies, Answer, Goto, TypeOK
    <2>10. CASE LookupExisting(w) \/ ReadDuplicates(w) \/ StoreEvents(w)
      BY <1>0, <2>3, <2>10
      DEF LookupExisting, ReadDuplicates, StoreEvents, Answer, Goto, TypeOK
    <2>11. CASE Deliver(w) \/ \E f \in Files, s \in Slugs : Submit(w, f, s)
      <3>1. /\ pc[w] \in {"idle", "reply"} /\ pc'[w] \in {"idle", "lookup", "reply"}
            /\ inserting' = inserting
        BY <1>0, <2>11 DEF Deliver, Submit, Goto, Answer, TypeOK
      <3>2. QED
        BY <1>0, <3>1
    <2>12. QED
      BY <1>2, <2>4, <2>5, <2>6, <2>7, <2>8, <2>9, <2>10, <2>11 DEF StepOf, WorkerStep
  <1>3. ASSUME UNCHANGED <<pc, file, slug, todo, inserting>>
        PROVE  ResolvedInOrder'
    <2>1. \A v \in Workers : Ordered(v)'
      BY <1>1, <1>3
    <2>2. QED
      BY <2>1 DEF ResolvedInOrder
  <1>4. CASE \E g \in Groups : StartRebuild(g) \/ FinishRebuild(g)
    BY <1>3, <1>4 DEF StartRebuild, FinishRebuild, local, locks
  <1>5. CASE UNCHANGED vars
    BY <1>3, <1>5 DEF vars, local, locks
  <1>6. QED
    BY <1>2, <1>4, <1>5, NextCases

\* No fallback group is also the group some record names.
FallbacksApart == \A l \in Lines : RefOf[l] \in Slugs => RefOf[l] = NoGroup

\* Under it all requests agree which of two groups comes first.
LEMMA OneOrder ==
    ASSUME FallbacksApart, NEW f \in Files, NEW h \in Files, NEW s \in Slugs, NEW t \in Slugs,
           NEW a \in GroupsOf(f, s) \cap GroupsOf(h, t), NEW b \in GroupsOf(f, s) \cap GroupsOf(h, t),
           ResolveOrder(f, s, a, b), ResolveOrder(h, t, b, a)
    PROVE  a = b
  <1> DEFINE refs(d) == {RefOf[l] : l \in LinesIn(d)}
             named == {RefOf[l] : l \in Lines}
  <1>1. ASSUME NEW d \in Files, NEW r \in Slugs, NEW g \in GroupsOf(d, r)
        PROVE  g \in Nat /\ (g \in refs(d) <=> g \in named) /\ (g \notin named => g = r)
    <2>1. LinesIn(d) \subseteq Lines /\ g \in Groups /\ g # NoGroup
      BY BodyTypes, RecordsAssumption
    <2>2. PICK l \in LinesIn(d) : g = KeyOf(l, r)
      BY DEF GroupsOf
    <2>3. CASE RefOf[l] # NoGroup
      BY <2>1, <2>2, <2>3, RecordsAssumption DEF KeyOf
    <2>4. CASE RefOf[l] = NoGroup
      <3>1. g = r
        BY <2>2, <2>4 DEF KeyOf
      <3>2. g \notin named
        BY <2>1, <3>1 DEF FallbacksApart
      <3>3. QED
        BY <2>1, <3>1, <3>2, RecordsAssumption
    <2>5. QED
      BY <2>3, <2>4
  <1>2. a \in Nat /\ b \in Nat
    BY <1>1
  <1>3. (a \in refs(f) <=> a \in refs(h)) /\ (b \in refs(f) <=> b \in refs(h))
    BY <1>1
  <1>4. CASE (a \in refs(f)) = (b \in refs(f))
    BY <1>2, <1>3, <1>4 DEF ResolveOrder
  <1>5. CASE (a \in refs(f)) # (b \in refs(f))
    BY <1>3, <1>5 DEF ResolveOrder
  <1>6. QED
    BY <1>4, <1>5

\* Two requests never wait for each other's new group rows: groups are created
\* in one order (groups_for_parsed_lines), where no fallback slug names a group
\* that records also name.
THEOREM WaitsNeverCross ==
    ASSUME FallbacksApart
    PROVE  Spec => []NoWaitCycle
  <1>1. Init => ResolvedInOrder
    BY IngestAssumption DEF Init, ResolvedInOrder
  <1>2. IngestInv /\ ResolvedInOrder /\ [Next]_vars => ResolvedInOrder'
    BY ResolutionStep
  <1>3. IngestInv /\ ResolvedInOrder => NoWaitCycle
    <2> SUFFICES ASSUME IngestInv, ResolvedInOrder,
                        NEW v \in Workers, NEW w \in Workers, WaitsOn(v, w), WaitsOn(w, v)
                 PROVE  FALSE
      BY DEF NoWaitCycle
    <2> DEFINE a == NextGroup(v)
               b == NextGroup(w)
    <2>1. /\ pc[v] = "resolve" /\ todo[v] # {} /\ inserting[a] = w /\ w # v
          /\ pc[w] = "resolve" /\ todo[w] # {} /\ inserting[b] = v
      BY DEF WaitsOn, WaitsForGroup
    <2>2. a \in todo[v] /\ a \in Mine(v) /\ a \in Groups /\ b \in todo[w] /\ b \in Mine(w) /\ b \in Groups
      BY <2>1, NextGroupFacts
    <2>3. a \in Mine(w) \ todo[w] /\ b \in Mine(v) \ todo[v]
      BY <2>1, <2>2 DEF ResolvedInOrder
    <2>4. ResolveOrder(file[w], slug[w], a, b) /\ ResolveOrder(file[v], slug[v], b, a)
      BY <2>1, <2>2, <2>3 DEF ResolvedInOrder
    <2>5. /\ file[v] \in Files /\ slug[v] \in Slugs
          /\ file[w] \in Files /\ slug[w] \in Slugs
      BY <2>1 DEF IngestInv, RequestsSound
    <2> HIDE DEF a, b
    <2>6. a = b
      BY <2>2, <2>3, <2>4, <2>5, OneOrder DEF Mine
    <2>7. QED
      BY <2>2, <2>3, <2>6
  <1>4. QED
    BY <1>1, <1>2, <1>3, InvariantHolds, PTL DEF Spec
=============================================================================
