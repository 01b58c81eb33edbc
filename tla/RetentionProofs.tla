-------------------------- MODULE RetentionProofs --------------------------
(***************************************************************************)
(* Proofs about Retention, for any number of workers, pruners, files and   *)
(* groups: what a run may delete, and that its rebuilds leave no group     *)
(* behind while uploads go on.                                             *)
(***************************************************************************)
EXTENDS Retention, IngestProofs

Stages == {"off", "select", "delete", "rebuild", "rebuilding"}

PruneTypes ==
    /\ retentionLock \in Pruners \cup {Free}
    /\ stage \in [Pruners -> Stages]
    /\ stale \in [Pruners -> SUBSET Files]
    /\ touched \in [Pruners -> SUBSET Groups]
    /\ crashes \in Nat
    /\ broken \subseteq Workers
    /\ expired \subseteq files

\* One run at a time, and what it has selected stays what it has to delete and
\* to rebuild: no upload can add an event to a file that is to be deleted.
OneRun ==
    \A p \in Pruners :
        /\ stage[p] # "off" => retentionLock = p
        /\ stage[p] \in {"off", "select"} => stale[p] = {} /\ touched[p] = {}
        /\ stage[p] # "delete" => stale[p] = {}
        /\ stale[p] \subseteq expired
        /\ \A e \in events : e.file \in stale[p] => e.group \in touched[p] \cup {NoGroup}

\* Transactions that are about to commit, as far as deletions leave them alone.
OpenUploads ==
    \A w \in Workers :
        /\ pc[w] \in {"dedup", "store", "commit"} => file[w] \notin files
        /\ pc[w] = "commit" =>
            \A e \in fresh[w] : e.file = file[w] /\ e.group \in Mine(w) \cup {NoGroup}
        /\ w \in broken => pc[w] = "commit"

\* A group no run has still to rebuild.
Settled(g) == \A p \in Pruners : g \notin touched[p]

\* Until a run fails, the projections of a settled group are those of its events,
\* and so are the ones an upload is about to commit.
SettledCurrent ==
    crashes = 0 => \A g \in Groups : Settled(g) =>
        /\ projected[g] = InGroup(events, g)
        /\ \A w \in Workers : pc[w] = "commit" /\ g \in Mine(w)
                => shown[w][g] = InGroup(events \cup fresh[w], g)

RetentionInv ==
    /\ TypeOK /\ Carrying /\ LocksHeld
    /\ PruneTypes /\ OneRun /\ OpenUploads /\ SettledCurrent

-----------------------------------------------------------------------------
(* Uploads *)

\* A step of a worker keeps every request well-formed.
LEMMA CarryingStep ==
    ASSUME TypeOK, Carrying, NEW w \in Workers, StepOf(w)
    PROVE  Carrying'
  <1> USE DEF store, locks, local, client
  <1> DEFINE Sound(v) ==
        /\ pc[v] \notin {"idle", "reply"} => file[v] \in Valid
        /\ pc[v] # "idle" => file[v] \in Files /\ slug[v] \in Slugs
  <1>1. Sound(w)'
    <2>0. Sound(w) /\ pc \in [Workers -> PCs]
          /\ file \in [Workers -> Files \cup {NoFile}]
          /\ slug \in [Workers -> Groups \cup {NoGroup}]
      BY DEF Carrying, TypeOK
    <2> USE DEF Goto, Answer, Rollback
    <2>1. CASE \E f \in Files, s \in Slugs : Submit(w, f, s)
      BY <2>0, <2>1, RecordsAssumption DEF Submit
    <2>2. CASE LookupExisting(w) \/ BeginIngestion(w)
      BY <2>0, <2>2 DEF LookupExisting, BeginIngestion
    <2>3. CASE ResolveGroup(w) \/ LockGroups(w) \/ InsertFile(w)
      BY <2>0, <2>3 DEF ResolveGroup, LockGroups, InsertFile
    <2>4. CASE ReadDuplicates(w) \/ StoreEvents(w)
      BY <2>0, <2>4 DEF ReadDuplicates, StoreEvents
    <2>5. CASE Commit(w) \/ CommitUnacknowledged(w)
      BY <2>0, <2>5 DEF Commit, CommitUnacknowledged, CommitWrites
    <2>6. CASE LockTimeout(w) \/ TransactionFails(w)
      BY <2>0, <2>6 DEF LockTimeout, WaitsForGroup, WaitsForHash, TransactionFails, InTransaction
    <2>7. CASE Deliver(w) \/ WorkerDies(w)
      BY <2>0, <2>7 DEF Deliver, WorkerDies
    <2>8. QED
      BY <2>1, <2>2, <2>3, <2>4, <2>5, <2>6, <2>7 DEF StepOf, WorkerStep
  <1>2. ASSUME NEW v \in Workers, v # w
        PROVE  Sound(v)'
    BY <1>2, Frame DEF Carrying
  <1>3. QED
    BY <1>1, <1>2 DEF Carrying

\* Two uploads with their locks have different files and different groups.
LEMMA LocksApart ==
    ASSUME Carrying, LocksHeld, NEW v \in Workers, NEW w \in Workers, v # w,
           pc[v] \in {"dedup", "store", "commit"}, pc[w] \in {"dedup", "store", "commit"}
    PROVE  file[v] # file[w] /\ Mine(v) \cap Mine(w) = {}
  <1>1. recorderLock[Recorder(file[v])] = v /\ recorderLock[Recorder(file[w])] = w
    BY DEF LocksHeld
  <1>2. /\ \A g \in Mine(v) : groupLock[g] = v
        /\ \A g \in Mine(w) : groupLock[g] = w
    BY DEF LocksHeld
  <1>3. QED
    BY <1>1, <1>2

\* What a worker's own step does to its open transaction.
LEMMA OwnStep ==
    ASSUME TypeOK, Carrying, OpenUploads, NEW w \in Workers, StepOf(w)
    PROVE  /\ pc'[w] \in {"dedup", "store", "commit"} => UNCHANGED store /\ file'[w] \notin files
           /\ pc'[w] = "commit" => StoreEvents(w)
  <1> USE DEF store, locks, local, client
  <1>0. pc \in [Workers -> PCs] /\ (pc[w] \in {"dedup", "store", "commit"} => file[w] \notin files)
    BY DEF TypeOK, OpenUploads
  <1> USE DEF Goto, Answer
  <1>1. CASE \E f \in Files, s \in Slugs : Submit(w, f, s)
    BY <1>0, <1>1 DEF Submit
  <1>2. CASE LookupExisting(w) \/ BeginIngestion(w) \/ ResolveGroup(w) \/ LockGroups(w)
    BY <1>0, <1>2 DEF LookupExisting, BeginIngestion, ResolveGroup, LockGroups
  <1>3. CASE InsertFile(w)
    BY <1>0, <1>3 DEF InsertFile
  <1>4. CASE ReadDuplicates(w)
    BY <1>0, <1>4 DEF ReadDuplicates
  <1>5. CASE StoreEvents(w)
    BY <1>0, <1>5 DEF StoreEvents
  <1>6. CASE Commit(w) \/ CommitUnacknowledged(w)
    BY <1>0, <1>6 DEF Commit, CommitUnacknowledged
  <1>7. CASE LockTimeout(w) \/ TransactionFails(w) \/ WorkerDies(w) \/ Deliver(w)
    BY <1>0, <1>7 DEF LockTimeout, TransactionFails, WorkerDies, Deliver
  <1>8. QED
    BY <1>1, <1>2, <1>3, <1>4, <1>5, <1>6, <1>7 DEF StepOf, WorkerStep

\* The projections a transaction writes for a settled group.
LEMMA StoredShown ==
    ASSUME TypeOK, Carrying, NEW w \in Workers, StoreEvents(w)
    PROVE  /\ \A e \in fresh'[w] : e.file = file'[w] /\ e.group \in Mine(w)' \cup {NoGroup}
           /\ \A g \in Mine(w)' : projected[g] = InGroup(events, g)
                => shown'[w][g] = InGroup(events' \cup fresh'[w], g)
  <1> USE DEF store, locks, local, client
  <1>1. /\ pc[w] = "store" /\ UNCHANGED <<events, file, slug>>
        /\ fresh'[w] = NewEvents(file[w], slug[w], known[w])
    BY DEF StoreEvents, TypeOK
  <1>2. Mine(w)' = Mine(w)
    BY <1>1 DEF Mine
  <1>3. file[w] \in Files /\ slug[w] \in Groups \cup {NoGroup}
    BY <1>1, RecordsAssumption DEF Carrying
  <1>4. \A e \in fresh'[w] : e.file = file[w] /\ e.group \in Mine(w) \cup {NoGroup}
    BY <1>1, <1>3, NewEventsFacts DEF Mine
  <1>5. Mine(w) \subseteq Groups
    BY <1>3, BodyTypes DEF Mine
  <1>6. ASSUME NEW g \in Mine(w), projected[g] = InGroup(events, g)
        PROVE  shown'[w][g] = InGroup(events \cup fresh'[w], g)
    <2>1. g \in Groups /\ g \in GroupsOf(file[w], slug[w])
      BY <1>5 DEF Mine
    <2>2. shown'[w][g] = InGroup(fresh'[w], g) \cup InGroup(events, g)
      BY <1>1, <1>6, <2>1 DEF StoreEvents, TypeOK
    <2>3. QED
      BY <2>2 DEF InGroup
  <1>7. QED
    BY <1>1, <1>2, <1>4, <1>6

\* What retention has selected is not the uploads' concern.
PruneAlone ==
    UNCHANGED <<expired, retentionLock, stage, stale, touched, crashes>>

\* A worker's step, its commit included, keeps the invariant.
LEMMA UploadKeeps ==
    ASSUME RetentionInv, NEW w \in Workers, StepOf(w), PruneAlone,
           broken' \subseteq broken, w \notin broken'
    PROVE  RetentionInv'
  <1>0. TypeOK /\ Carrying /\ LocksHeld /\ PruneTypes /\ OneRun /\ OpenUploads /\ SettledCurrent
    BY DEF RetentionInv
  <1>1. [Next]_vars
    BY DEF Next, StepOf
  <1>2. TypeOK' /\ Carrying' /\ LocksHeld'
    BY <1>0, <1>1, TypeStep, CarryingStep, LocksStep
  <1>3. ASSUME NEW v \in Workers, v # w
        PROVE  /\ pc'[v] = pc[v] /\ file'[v] = file[v] /\ fresh'[v] = fresh[v]
               /\ shown'[v] = shown[v] /\ Mine(v)' = Mine(v)
    BY <1>0, <1>3, Frame DEF Mine
  <1>4. \A g : Settled(g)' = Settled(g)
    BY DEF Settled, PruneAlone
  <1>5. CASE UNCHANGED store
    <2>1. UNCHANGED <<files, events, projected>>
      BY <1>5 DEF store
    <2>2. PruneTypes' /\ OneRun'
      BY <1>0, <2>1 DEF PruneTypes, OneRun, PruneAlone
    <2>3. OpenUploads'
      <3>1. ASSUME NEW v \in Workers, v # w
            PROVE  /\ pc'[v] \in {"dedup", "store", "commit"} => file'[v] \notin files'
                   /\ pc'[v] = "commit" =>
                        \A e \in fresh'[v] : e.file = file'[v] /\ e.group \in Mine(v)' \cup {NoGroup}
                   /\ v \in broken' => pc'[v] = "commit"
        BY <1>0, <1>3, <2>1, <3>1 DEF OpenUploads
      <3>2. /\ pc'[w] \in {"dedup", "store", "commit"} => file'[w] \notin files'
            /\ pc'[w] = "commit" =>
                 \A e \in fresh'[w] : e.file = file'[w] /\ e.group \in Mine(w)' \cup {NoGroup}
        BY <1>0, <2>1, OwnStep, StoredShown
      <3>3. QED
        BY <3>1, <3>2 DEF OpenUploads
    <2>4. SettledCurrent'
      <3> SUFFICES ASSUME crashes = 0, NEW g \in Groups, Settled(g)
                   PROVE  /\ projected'[g] = InGroup(events', g)
                          /\ \A v \in Workers : pc'[v] = "commit" /\ g \in Mine(v)'
                                => shown'[v][g] = InGroup(events' \cup fresh'[v], g)
        BY <1>4 DEF SettledCurrent, PruneAlone
      <3>1. /\ projected[g] = InGroup(events, g)
            /\ \A v \in Workers : pc[v] = "commit" /\ g \in Mine(v)
                  => shown[v][g] = InGroup(events \cup fresh[v], g)
        BY <1>0 DEF SettledCurrent
      <3>2. ASSUME NEW v \in Workers, v # w, pc'[v] = "commit", g \in Mine(v)'
            PROVE  shown'[v][g] = InGroup(events' \cup fresh'[v], g)
        BY <1>3, <2>1, <3>1, <3>2
      <3>3. ASSUME pc'[w] = "commit", g \in Mine(w)'
            PROVE  shown'[w][g] = InGroup(events' \cup fresh'[w], g)
        BY <1>0, <3>1, <3>3, OwnStep, StoredShown
      <3>4. QED
        BY <2>1, <3>1, <3>2, <3>3
    <2>5. QED
      BY <1>2, <2>2, <2>3, <2>4 DEF RetentionInv
  <1>6. CASE pc[w] = "commit" /\ CommitWrites(w) /\ (Answer(w, "created") \/ Answer(w, "failed"))
    <2>1. /\ files' = files \cup {file[w]} /\ events' = events \cup fresh[w]
          /\ file[w] \notin files
          /\ \A e \in fresh[w] : e.file = file[w] /\ e.group \in Mine(w) \cup {NoGroup}
      BY <1>0, <1>6 DEF CommitWrites, OpenUploads
    <2>2. pc'[w] = "reply"
      BY <1>0, <1>6 DEF Answer, TypeOK
    <2>3. ASSUME NEW v \in Workers, v # w, pc[v] \in {"dedup", "store", "commit"}
          PROVE  file[v] # file[w] /\ Mine(v) \cap Mine(w) = {}
      BY <1>0, <1>6, <2>3, LocksApart
    <2>4. PruneTypes'
      BY <1>0, <2>1 DEF PruneTypes, PruneAlone
    <2>5. OneRun'
      <3>1. ASSUME NEW p \in Pruners, NEW e \in fresh[w]
            PROVE  e.file \notin stale[p]
        BY <1>0, <2>1 DEF OneRun, PruneTypes
      <3>2. QED
        BY <1>0, <2>1, <3>1 DEF OneRun, PruneAlone
    <2>6. OpenUploads'
      <3>1. ASSUME NEW v \in Workers, v # w
            PROVE  /\ pc'[v] \in {"dedup", "store", "commit"} => file'[v] \notin files'
                   /\ pc'[v] = "commit" =>
                        \A e \in fresh'[v] : e.file = file'[v] /\ e.group \in Mine(v)' \cup {NoGroup}
                   /\ v \in broken' => pc'[v] = "commit"
        BY <1>0, <1>3, <2>1, <2>3, <3>1 DEF OpenUploads
      <3>2. QED
        BY <2>2, <3>1 DEF OpenUploads
    <2>7. SettledCurrent'
      <3> SUFFICES ASSUME crashes = 0, NEW g \in Groups, Settled(g)
                   PROVE  /\ projected'[g] = InGroup(events', g)
                          /\ \A v \in Workers : pc'[v] = "commit" /\ g \in Mine(v)'
                                => shown'[v][g] = InGroup(events' \cup fresh'[v], g)
        BY <1>4 DEF SettledCurrent, PruneAlone
      <3>1. /\ projected[g] = InGroup(events, g)
            /\ \A v \in Workers : pc[v] = "commit" /\ g \in Mine(v)
                  => shown[v][g] = InGroup(events \cup fresh[v], g)
        BY <1>0 DEF SettledCurrent
      <3>2. projected'[g] = IF g \in Mine(w) THEN shown[w][g] ELSE projected[g]
        BY <1>6 DEF CommitWrites, Mine
      <3>3. g \notin Mine(w) => InGroup(events', g) = InGroup(events, g)
        BY <2>1, RecordsAssumption DEF InGroup
      <3>4. projected'[g] = InGroup(events', g)
        BY <1>6, <2>1, <3>1, <3>2, <3>3
      <3>5. ASSUME NEW v \in Workers, pc'[v] = "commit", g \in Mine(v)'
            PROVE  shown'[v][g] = InGroup(events' \cup fresh'[v], g)
        <4>1. v # w
          BY <2>2, <3>5
        <4>2. /\ pc[v] = "commit" /\ fresh'[v] = fresh[v] /\ shown'[v] = shown[v] /\ g \in Mine(v)
          BY <1>3, <3>5, <4>1
        <4>3. g \notin Mine(w)
          BY <2>3, <4>1, <4>2
        <4>4. InGroup(events' \cup fresh[v], g) = InGroup(events \cup fresh[v], g)
          BY <3>3, <4>3 DEF InGroup
        <4>5. QED
          BY <3>1, <4>2, <4>4
      <3>6. QED
        BY <3>4, <3>5
    <2>8. QED
      BY <1>2, <2>4, <2>5, <2>6, <2>7 DEF RetentionInv
  <1>7. QED
    BY <1>5, <1>6, StoreFrame

\* A commit that fails on a deleted row is a rollback.
LEMMA ForeignKeyKeeps ==
    ASSUME RetentionInv, NEW w \in Workers, ForeignKeyFails(w), PruneAlone, broken' = broken \ {w}
    PROVE  RetentionInv'
  <1> USE DEF store, locks, local, client
  <1>0. TypeOK /\ Carrying /\ LocksHeld /\ PruneTypes /\ OneRun /\ OpenUploads /\ SettledCurrent
    BY DEF RetentionInv
  <1>1. pc[w] = "commit" /\ file[w] \in Files
    BY <1>0 DEF ForeignKeyFails, OpenUploads, Carrying
  <1>2. /\ Rollback(w) /\ Record(file[w], "ingest_failed") /\ Answer(w, "failed")
        /\ UNCHANGED <<outcome, faults, rebuilds>>
    BY DEF ForeignKeyFails
  <1>3. TypeOK'
    <2>1. rejections' \subseteq Files \X {"invalid", "ingest_failed"}
      BY <1>0, <1>1, <1>2, RecordTypes
    <2>2. "failed" \in Replies /\ faults' \in 0..MaxFaults
      BY <1>0, <1>2 DEF Replies, TypeOK
    <2>3. QED
      BY <1>0, <1>2, <2>1, <2>2, RollbackTypes
  <1>4. /\ UNCHANGED <<files, events, projected, file, slug>>
        /\ pc' = [pc EXCEPT ![w] = "reply"]
    BY <1>2 DEF Rollback, Answer
  <1>5. ASSUME NEW v \in Workers, v # w
        PROVE  /\ pc'[v] = pc[v] /\ fresh'[v] = fresh[v] /\ shown'[v] = shown[v]
    BY <1>0, <1>2, <1>4, <1>5 DEF Rollback, ClearTransaction, TypeOK
  <1>6. pc'[w] = "reply" /\ \A v \in Workers : Mine(v)' = Mine(v)
    BY <1>0, <1>4 DEF TypeOK, Mine
  <1>7. Carrying'
    BY <1>0, <1>1, <1>4, <1>5, <1>6 DEF Carrying
  <1>8. LocksHeld'
    <2>1. ASSUME NEW v \in Workers, v # w, pc[v] \in {"resolve", "insert", "dedup", "store", "commit"}
          PROVE  Recorder(file[v]) \in Engines /\ Mine(v) \subseteq Groups
      BY <1>0, <2>1, RecorderType, BodyTypes DEF Carrying, TypeOK, Mine
    <2>2. ASSUME NEW v \in Workers, v # w
          PROVE  /\ \A e \in Engines : recorderLock[e] = v => recorderLock'[e] = v
                 /\ \A g \in Groups : groupLock[g] = v => groupLock'[g] = v
      BY <1>0, <1>2, <2>2 DEF Rollback, ReleaseLocks, Unlocked, TypeOK
    <2>3. QED
      BY <1>0, <1>4, <1>5, <1>6, <2>1, <2>2 DEF LocksHeld
  <1>9. PruneTypes' /\ OneRun'
    BY <1>0, <1>4 DEF PruneTypes, OneRun, PruneAlone
  <1>10. OpenUploads'
    BY <1>0, <1>4, <1>5, <1>6 DEF OpenUploads
  <1>11. SettledCurrent'
    <2> SUFFICES ASSUME crashes = 0, NEW g \in Groups, Settled(g)
                 PROVE  /\ projected'[g] = InGroup(events', g)
                        /\ \A v \in Workers : pc'[v] = "commit" /\ g \in Mine(v)'
                              => shown'[v][g] = InGroup(events' \cup fresh'[v], g)
      BY DEF SettledCurrent, Settled, PruneAlone
    <2>1. QED
      BY <1>0, <1>4, <1>5, <1>6 DEF SettledCurrent
  <1>12. QED
    BY <1>3, <1>7, <1>8, <1>9, <1>10, <1>11 DEF RetentionInv

-----------------------------------------------------------------------------
(* Retention *)

\* A step that is no upload's leaves requests and their locks alone.
UploadsAlone ==
    /\ UNCHANGED <<pc, file, slug, fresh, shown, recorderLock>>
    /\ \A g \in Groups, w \in Workers : groupLock[g] = w => groupLock'[g] = w

LEMMA RequestsKept ==
    ASSUME TypeOK, Carrying, LocksHeld, UploadsAlone
    PROVE  /\ Carrying' /\ LocksHeld'
           /\ \A w \in Workers : Mine(w)' = Mine(w)
  <1>1. \A w \in Workers : Mine(w)' = Mine(w)
    BY DEF Mine, UploadsAlone
  <1>2. Carrying'
    BY DEF Carrying, UploadsAlone
  <1>3. ASSUME NEW w \in Workers, pc[w] \in {"insert", "dedup", "store", "commit"}
        PROVE  Mine(w) \subseteq Groups
    BY <1>3, BodyTypes DEF Carrying, TypeOK, Mine
  <1>4. LocksHeld'
    BY <1>1, <1>3 DEF LocksHeld, UploadsAlone
  <1>5. QED
    BY <1>1, <1>2, <1>4

\* The other pruners are off while one runs.
LEMMA OthersOff ==
    ASSUME OneRun, PruneTypes, NEW p \in Pruners, stage[p] # "off", NEW q \in Pruners, q # p
    PROVE  stage[q] = "off" /\ stale[q] = {} /\ touched[q] = {}
  BY DEF OneRun, PruneTypes

\* What a step must keep of the settled groups.
LEMMA SettledKept ==
    ASSUME SettledCurrent, UploadsAlone, crashes' = 0 => crashes = 0,
           \A w \in Workers : Mine(w)' = Mine(w),
           \A g \in Groups : crashes' = 0 /\ Settled(g)' =>
                /\ Settled(g)
                /\ projected'[g] = projected[g]
                /\ InGroup(events', g) = InGroup(events, g)
    PROVE  SettledCurrent'
  <1> SUFFICES ASSUME crashes' = 0, NEW g \in Groups, Settled(g)'
               PROVE  /\ projected'[g] = InGroup(events', g)
                      /\ \A w \in Workers : pc'[w] = "commit" /\ g \in Mine(w)'
                            => shown'[w][g] = InGroup(events' \cup fresh'[w], g)
    BY DEF SettledCurrent
  <1>1. /\ Settled(g) /\ projected'[g] = projected[g] /\ InGroup(events', g) = InGroup(events, g)
        /\ crashes = 0
    OBVIOUS
  <1>2. /\ projected[g] = InGroup(events, g)
        /\ \A w \in Workers : pc[w] = "commit" /\ g \in Mine(w)
              => shown[w][g] = InGroup(events \cup fresh[w], g)
    BY <1>1 DEF SettledCurrent
  <1>3. \A S : InGroup(events' \cup S, g) = InGroup(events \cup S, g)
    BY <1>1 DEF InGroup
  <1>4. QED
    BY <1>1, <1>2, <1>3 DEF UploadsAlone

\* Time passes, the lock is taken, a run goes from one stage to the next or is
\* over with nothing left to rebuild.
LEMMA QuietKeeps ==
    ASSUME RetentionInv,
           \/ \E f \in Files : Age(f)
           \/ \E r \in rejections : AgeRejection(r)
           \/ \E p \in Pruners : TakeLock(p) \/ DeletesDone(p) \/ Pruned(p)
    PROVE  RetentionInv'
  <1> USE DEF vars, store, locks, local, client, old, prune
  <1>0. TypeOK /\ Carrying /\ LocksHeld /\ PruneTypes /\ OneRun /\ OpenUploads /\ SettledCurrent
    BY DEF RetentionInv
  <1>1. UNCHANGED vars /\ broken' = broken /\ crashes' = crashes
    BY DEF Age, AgeRejection, TakeLock, DeletesDone, Pruned
  <1>2. TypeOK' /\ UploadsAlone
    BY <1>0, <1>1 DEF TypeOK, UploadsAlone
  <1>3. Carrying' /\ LocksHeld' /\ \A w \in Workers : Mine(w)' = Mine(w)
    BY <1>0, <1>2, RequestsKept
  <1>4. OpenUploads'
    BY <1>0, <1>1, <1>3 DEF OpenUploads
  <1>5. PruneTypes' /\ OneRun' /\ \A g \in Groups : Settled(g)' => Settled(g)
    <2>1. ASSUME NEW f \in Files, Age(f)
          PROVE  PruneTypes' /\ OneRun' /\ \A g \in Groups : Settled(g)' => Settled(g)
      BY <1>0, <1>1, <2>1 DEF Age, PruneTypes, OneRun, Settled
    <2>2. ASSUME NEW r \in rejections, AgeRejection(r)
          PROVE  PruneTypes' /\ OneRun' /\ \A g \in Groups : Settled(g)' => Settled(g)
      BY <1>0, <1>1, <2>2 DEF AgeRejection, PruneTypes, OneRun, Settled
    <2>3. ASSUME NEW p \in Pruners, TakeLock(p)
          PROVE  PruneTypes' /\ OneRun' /\ \A g \in Groups : Settled(g)' => Settled(g)
      <3>1. /\ stage[p] = "off" /\ retentionLock = Free /\ retentionLock' = p
            /\ stage' = [stage EXCEPT ![p] = "select"]
            /\ UNCHANGED <<stale, touched, expired>>
        BY <2>3 DEF TakeLock
      <3>2. \A q \in Pruners : stage[q] = "off"
        BY <1>0, <3>1, RetentionAssumption DEF OneRun
      <3>3. PruneTypes'
        BY <1>0, <1>1, <3>1 DEF PruneTypes, Stages
      <3>4. OneRun'
        BY <1>0, <1>1, <3>1, <3>2 DEF PruneTypes, OneRun
      <3>5. QED
        BY <3>1, <3>3, <3>4 DEF Settled
    <2>4. ASSUME NEW p \in Pruners, DeletesDone(p)
          PROVE  PruneTypes' /\ OneRun' /\ \A g \in Groups : Settled(g)' => Settled(g)
      BY <1>0, <1>1, <2>4 DEF DeletesDone, PruneTypes, OneRun, Settled, Stages
    <2>5. ASSUME NEW p \in Pruners, Pruned(p)
          PROVE  PruneTypes' /\ OneRun' /\ \A g \in Groups : Settled(g)' => Settled(g)
      <3>1. /\ stage[p] = "rebuild" /\ touched[p] = {} /\ retentionLock' = Free
            /\ stage' = [stage EXCEPT ![p] = "off"]
            /\ stale' = [stale EXCEPT ![p] = {}] /\ touched' = [touched EXCEPT ![p] = {}]
            /\ expired' = expired
        BY <2>5 DEF Pruned, EndRun
      <3>2. ASSUME NEW q \in Pruners, q # p
            PROVE  stage[q] = "off" /\ stale[q] = {} /\ touched[q] = {}
        BY <1>0, <3>1, <3>2, OthersOff
      <3>3. PruneTypes'
        BY <1>0, <1>1, <3>1 DEF PruneTypes, Stages
      <3>4. \A q \in Pruners : stage'[q] = "off" /\ stale'[q] = {} /\ touched'[q] = {}
        BY <1>0, <3>1, <3>2 DEF PruneTypes
      <3>5. OneRun'
        BY <3>4 DEF OneRun
      <3>6. \A q \in Pruners : touched[q] = {}
        BY <3>1, <3>2
      <3>7. QED
        BY <3>3, <3>5, <3>6 DEF Settled
    <2>6. QED
      BY <2>1, <2>2, <2>3, <2>4, <2>5
  <1>6. SettledCurrent'
    BY <1>0, <1>1, <1>2, <1>3, <1>5, SettledKept
  <1>7. QED
    BY <1>2, <1>3, <1>4, <1>5, <1>6 DEF RetentionInv

LEMMA SelectKeeps ==
    ASSUME RetentionInv, NEW p \in Pruners, SelectStale(p)
    PROVE  RetentionInv'
  <1> USE DEF store, locks, local, client
  <1>0. TypeOK /\ Carrying /\ LocksHeld /\ PruneTypes /\ OneRun /\ OpenUploads /\ SettledCurrent
    BY DEF RetentionInv
  <1>1. /\ stage[p] = "select" /\ UNCHANGED <<store, locks, pc, local, reply, client, rebuilds>>
        /\ UNCHANGED <<expired, broken, crashes>> /\ rejections' \subseteq rejections
    BY DEF SelectStale
  <1>2. TypeOK' /\ UploadsAlone
    BY <1>0, <1>1 DEF TypeOK, UploadsAlone
  <1>3. Carrying' /\ LocksHeld' /\ \A w \in Workers : Mine(w)' = Mine(w)
    BY <1>0, <1>2, RequestsKept
  <1>4. OpenUploads'
    BY <1>0, <1>1, <1>3 DEF OpenUploads
  <1>5. stale[p] = {} /\ touched[p] = {} /\ retentionLock = p
    BY <1>0, <1>1 DEF OneRun
  <1>6. ASSUME NEW q \in Pruners, q # p
        PROVE  stage[q] = "off" /\ stale[q] = {} /\ touched[q] = {}
    BY <1>0, <1>1, <1>6, OthersOff
  <1>7. \A g : Settled(g)
    BY <1>5, <1>6 DEF Settled
  <1>8. PruneTypes' /\ OneRun'
    <2>1. CASE EndRun(p, "ok")
      <3>1. /\ retentionLock' = Free /\ stage' = [stage EXCEPT ![p] = "off"]
            /\ stale' = [stale EXCEPT ![p] = {}] /\ touched' = [touched EXCEPT ![p] = {}]
        BY <2>1 DEF EndRun
      <3>2. PruneTypes'
        BY <1>0, <1>1, <3>1 DEF PruneTypes, Stages
      <3>3. \A q \in Pruners : stage'[q] = "off" /\ stale'[q] = {} /\ touched'[q] = {}
        BY <1>0, <1>6, <3>1 DEF PruneTypes
      <3>4. OneRun'
        BY <3>3 DEF OneRun
      <3>5. QED
        BY <3>2, <3>4
    <2>2. CASE ~EndRun(p, "ok")
      <3>1. /\ retentionLock' = p /\ stage' = [stage EXCEPT ![p] = "delete"]
            /\ stale' = [stale EXCEPT ![p] = expired]
            /\ touched' = [touched EXCEPT ![p] = TouchedGroups(expired)]
        BY <1>5, <2>2 DEF SelectStale
      <3>2. TouchedGroups(expired) \subseteq Groups /\ expired \subseteq Files
        <4>1. \A e \in events : e.group \in Groups \cup {NoGroup}
          BY <1>0 DEF TypeOK, Event
        <4>2. \A f \in expired : links[f] \subseteq Groups
          BY <1>0 DEF TypeOK, PruneTypes
        <4>3. QED
          BY <1>0, <4>1, <4>2 DEF TouchedGroups, TypeOK, PruneTypes
      <3>3. PruneTypes'
        BY <1>0, <1>1, <3>1, <3>2 DEF PruneTypes, Stages
      <3>4. \A e \in events : e.file \in expired => e.group \in TouchedGroups(expired) \cup {NoGroup}
        BY DEF TouchedGroups
      <3>5. \A q \in Pruners : q # p => stage'[q] = "off" /\ stale'[q] = {} /\ touched'[q] = {}
        BY <1>0, <1>6, <3>1 DEF PruneTypes
      <3>6. /\ stage'[p] = "delete" /\ stale'[p] = expired /\ touched'[p] = TouchedGroups(expired)
        BY <1>0, <3>1 DEF PruneTypes
      <3>7. OneRun'
        BY <1>1, <3>1, <3>4, <3>5, <3>6 DEF OneRun
      <3>8. QED
        BY <3>3, <3>7
    <2>3. QED
      BY <2>1, <2>2
  <1>9. SettledCurrent'
    BY <1>0, <1>1, <1>2, <1>3, <1>7, SettledKept
  <1>10. QED
    BY <1>2, <1>3, <1>4, <1>8, <1>9 DEF RetentionInv

\* What is about to be deleted is expired and stored, and its events are in the
\* groups the run has still to rebuild.
LEMMA Doomed ==
    ASSUME OneRun, PruneTypes, NEW p \in Pruners, NEW batch \in SUBSET stale[p]
    PROVE  /\ batch \subseteq expired /\ batch \subseteq files
           /\ \A g \in Groups : Settled(g) =>
                InGroup({e \in events : e.file \notin batch}, g) = InGroup(events, g)
  <1>1. batch \subseteq expired /\ batch \subseteq files
    BY DEF OneRun, PruneTypes
  <1>2. ASSUME NEW g \in Groups, Settled(g), NEW e \in events, e.group = g
        PROVE  e.file \notin batch
    <2>1. g \notin touched[p] /\ g # NoGroup
      BY <1>2, RecordsAssumption DEF Settled
    <2>2. QED
      BY <1>2, <2>1 DEF OneRun
  <1>3. QED
    BY <1>1, <1>2 DEF InGroup

LEMMA DeleteKeeps ==
    ASSUME RetentionInv, NEW p \in Pruners, NEW batch \in SUBSET stale[p], DeleteBatch(p, batch)
    PROVE  RetentionInv'
  <1> USE DEF locks, local, client
  <1>0. TypeOK /\ Carrying /\ LocksHeld /\ PruneTypes /\ OneRun /\ OpenUploads /\ SettledCurrent
    BY DEF RetentionInv
  <1>1. /\ stage[p] = "delete" /\ files' = files \ batch /\ expired' = expired \ batch
        /\ events' = {e \in events : e.file \notin batch}
        /\ stale' = [stale EXCEPT ![p] = @ \ batch]
        /\ broken' = broken \cup Citing(events \ events')
        /\ UNCHANGED <<groups, projected, rollup, rejections, locks, pc, local, reply,
                      client, rebuilds, retentionLock, stage, touched, crashes>>
    BY DEF DeleteBatch
  <1>2. TypeOK'
    <2>1. links' \in [Files -> SUBSET Groups] /\ duplicates' \in [Files -> Nat]
      BY <1>0 DEF DeleteBatch, TypeOK
    <2>2. files' \subseteq Files /\ events' \subseteq Event
      BY <1>0, <1>1 DEF TypeOK
    <2>3. QED
      BY <1>0, <1>1, <2>1, <2>2 DEF TypeOK
  <1>3. UploadsAlone
    BY <1>1 DEF UploadsAlone
  <1>4. Carrying' /\ LocksHeld' /\ \A w \in Workers : Mine(w)' = Mine(w)
    BY <1>0, <1>3, RequestsKept
  <1>5. \A w \in Citing(events \ events') : w \in Workers /\ pc[w] = "commit"
    BY DEF Citing
  <1>6. OpenUploads'
    BY <1>0, <1>1, <1>4, <1>5 DEF OpenUploads
  <1>7. PruneTypes'
    <2>1. stale' \in [Pruners -> SUBSET Files]
      BY <1>0, <1>1 DEF PruneTypes
    <2>2. QED
      BY <1>0, <1>1, <1>5, <2>1 DEF PruneTypes
  <1>8. OneRun'
    <2>1. ASSUME NEW q \in Pruners, q # p
          PROVE  stale'[q] = {} /\ stage'[q] = "off" /\ touched'[q] = {}
      BY <1>0, <1>1, <2>1, OthersOff DEF PruneTypes
    <2>2. stale'[p] = stale[p] \ batch
      BY <1>0, <1>1 DEF PruneTypes
    <2>3. stale[p] \subseteq expired /\ retentionLock = p
          /\ \A e \in events : e.file \in stale[p] => e.group \in touched[p] \cup {NoGroup}
      BY <1>0, <1>1 DEF OneRun
    <2>4. QED
      BY <1>1, <2>1, <2>2, <2>3 DEF OneRun
  <1>9. SettledCurrent'
    <2>1. \A g \in Groups : Settled(g)' = Settled(g)
      BY <1>1 DEF Settled
    <2>2. \A g \in Groups : Settled(g) => InGroup(events', g) = InGroup(events, g)
      BY <1>0, <1>1, Doomed
    <2>3. QED
      BY <1>0, <1>1, <1>3, <1>4, <2>1, <2>2, SettledKept
  <1>10. QED
    BY <1>2, <1>4, <1>6, <1>7, <1>8, <1>9 DEF RetentionInv

\* A rebuild starts and ends under the group's row lock, which no upload that
\* is about to commit to the group can hold at the same time.
LEMMA RebuildKeeps ==
    ASSUME RetentionInv, NEW p \in Pruners, NEW g \in Groups, LockGroup(p, g) \/ RebuildGroup(p, g)
    PROVE  RetentionInv'
  <1> USE DEF store, locks, local, client, old
  <1>0. TypeOK /\ Carrying /\ LocksHeld /\ PruneTypes /\ OneRun /\ OpenUploads /\ SettledCurrent
    BY DEF RetentionInv
  <1>1. CASE LockGroup(p, g)
    <2>1. /\ stage[p] = "rebuild" /\ groupLock[g] = Free
          /\ groupLock' = [groupLock EXCEPT ![g] = Rebuilder]
          /\ stage' = [stage EXCEPT ![p] = "rebuilding"]
          /\ UNCHANGED <<store, rejections, recorderLock, inserting, pc, local, reply, client, rebuilds>>
          /\ UNCHANGED <<expired, broken, retentionLock, stale, touched, crashes>>
      BY <1>1 DEF LockGroup
    <2>2. TypeOK'
      BY <1>0, <2>1 DEF TypeOK
    <2>3. UploadsAlone
      BY <1>0, <2>1, IngestAssumption DEF UploadsAlone, TypeOK
    <2>4. Carrying' /\ LocksHeld' /\ \A w \in Workers : Mine(w)' = Mine(w)
      BY <1>0, <2>3, RequestsKept
    <2>5. OpenUploads'
      BY <1>0, <2>1, <2>4 DEF OpenUploads
    <2>6. PruneTypes' /\ OneRun'
      BY <1>0, <2>1 DEF PruneTypes, OneRun, Stages
    <2>7. \A h \in Groups : Settled(h)' = Settled(h)
      BY <2>1 DEF Settled
    <2>8. SettledCurrent'
      BY <1>0, <2>1, <2>3, <2>4, <2>7, SettledKept
    <2>9. QED
      BY <2>2, <2>4, <2>5, <2>6, <2>8 DEF RetentionInv
  <1>2. CASE RebuildGroup(p, g)
    <2>1. /\ stage[p] = "rebuilding" /\ groupLock[g] = Rebuilder
          /\ groupLock' = [groupLock EXCEPT ![g] = Free]
          /\ projected' = [projected EXCEPT ![g] = InGroup(events, g)]
          /\ stage' = [stage EXCEPT ![p] = "rebuild"]
          /\ touched' = [touched EXCEPT ![p] = @ \ {g}]
          /\ UNCHANGED <<files, links, duplicates, events, groups, rollup, rejections,
                        recorderLock, inserting, pc, local, reply, client, rebuilds>>
          /\ UNCHANGED <<expired, broken, retentionLock, stale, crashes>>
      BY <1>2 DEF RebuildGroup, FinishRebuild
    <2>2. TypeOK'
      <3>1. InGroup(events, g) \subseteq Event
        BY <1>0 DEF TypeOK, InGroup
      <3>2. QED
        BY <1>0, <2>1, <3>1 DEF TypeOK
    <2>3. UploadsAlone
      BY <1>0, <2>1, IngestAssumption DEF UploadsAlone, TypeOK
    <2>4. Carrying' /\ LocksHeld' /\ \A w \in Workers : Mine(w)' = Mine(w)
      BY <1>0, <2>3, RequestsKept
    <2>5. OpenUploads'
      BY <1>0, <2>1, <2>4 DEF OpenUploads
    <2>6. stale[p] = {} /\ retentionLock = p
      BY <1>0, <2>1 DEF OneRun
    <2>7. PruneTypes'
      BY <1>0, <2>1 DEF PruneTypes, Stages
    <2>8. OneRun'
      <3>1. ASSUME NEW q \in Pruners, q # p
            PROVE  stage'[q] = stage[q] /\ touched'[q] = touched[q]
        BY <1>0, <2>1, <3>1 DEF PruneTypes
      <3>2. stage'[p] = "rebuild"
        BY <1>0, <2>1 DEF PruneTypes
      <3>3. QED
        BY <1>0, <2>1, <2>6, <3>1, <3>2 DEF OneRun
    <2>9. SettledCurrent'
      <3> SUFFICES ASSUME crashes = 0, NEW h \in Groups, Settled(h)'
                   PROVE  /\ projected'[h] = InGroup(events', h)
                          /\ \A w \in Workers : pc'[w] = "commit" /\ h \in Mine(w)'
                                => shown'[w][h] = InGroup(events' \cup fresh'[w], h)
        BY <2>1 DEF SettledCurrent
      <3>1. CASE h = g
        <4>1. \A w \in Workers : pc[w] = "commit" => g \notin Mine(w)
          BY <1>0, <2>1, IngestAssumption DEF LocksHeld
        <4>2. projected'[g] = InGroup(events, g)
          BY <1>0, <2>1 DEF TypeOK
        <4>3. QED
          BY <2>1, <2>4, <3>1, <4>1, <4>2
      <3>2. CASE h # g
        <4>1. Settled(h)
          BY <1>0, <2>1, <3>2 DEF Settled, PruneTypes
        <4>2. projected'[h] = projected[h]
          BY <1>0, <2>1, <3>2 DEF TypeOK
        <4>3. QED
          BY <1>0, <2>1, <2>4, <4>1, <4>2 DEF SettledCurrent
      <3>3. QED
        BY <3>1, <3>2
    <2>10. QED
      BY <2>2, <2>4, <2>5, <2>7, <2>8, <2>9 DEF RetentionInv
  <1>3. QED
    BY <1>1, <1>2

LEMMA FailureKeeps ==
    ASSUME RetentionInv, NEW p \in Pruners, PrunerFails(p)
    PROVE  RetentionInv'
  <1> USE DEF store, locks, local, client, old
  <1>0. TypeOK /\ Carrying /\ LocksHeld /\ PruneTypes /\ OneRun /\ OpenUploads /\ SettledCurrent
    BY DEF RetentionInv
  <1>1. /\ stage[p] # "off" /\ crashes' = crashes + 1
        /\ retentionLock' = Free /\ stage' = [stage EXCEPT ![p] = "off"]
        /\ stale' = [stale EXCEPT ![p] = {}] /\ touched' = [touched EXCEPT ![p] = {}]
        /\ groupLock' = Unlocked(groupLock, Rebuilder)
        /\ UNCHANGED <<store, rejections, recorderLock, inserting, pc, local, reply, client, rebuilds>>
        /\ UNCHANGED <<expired, broken>>
    BY DEF PrunerFails, EndRun
  <1>2. TypeOK' /\ UploadsAlone
    <2>1. /\ groupLock' \in [Groups -> Workers \cup {Free, Rebuilder}]
          /\ \A g \in Groups : groupLock[g] # Rebuilder => groupLock'[g] = groupLock[g]
      <3>1. groupLock \in [Groups -> Workers \cup {Free, Rebuilder}]
        BY <1>0 DEF TypeOK
      <3>2. groupLock' = Unlocked(groupLock, Rebuilder)
        BY <1>1
      <3>3. QED
        BY ONLY <3>1, <3>2 DEF Unlocked
    <2>2. QED
      BY <1>0, <1>1, <2>1, IngestAssumption DEF TypeOK, UploadsAlone
  <1>3. Carrying' /\ LocksHeld' /\ \A w \in Workers : Mine(w)' = Mine(w)
    BY <1>0, <1>2, RequestsKept
  <1>4. OpenUploads'
    BY <1>0, <1>1, <1>3 DEF OpenUploads
  <1>5. ASSUME NEW q \in Pruners, q # p
        PROVE  stage[q] = "off" /\ stale[q] = {} /\ touched[q] = {}
    BY <1>0, <1>1, <1>5, OthersOff
  <1>6. PruneTypes'
    BY <1>0, <1>1 DEF PruneTypes, Stages
  <1>7. \A q \in Pruners : stage'[q] = "off" /\ stale'[q] = {} /\ touched'[q] = {}
    BY <1>0, <1>1, <1>5 DEF PruneTypes
  <1>8. OneRun'
    BY <1>7 DEF OneRun
  <1>9. crashes' # 0
    BY <1>0, <1>1 DEF PruneTypes
  <1>10. SettledCurrent'
    BY <1>9 DEF SettledCurrent
  <1>11. QED
    BY <1>2, <1>3, <1>4, <1>6, <1>8, <1>10 DEF RetentionInv

-----------------------------------------------------------------------------
(* Theorems *)

LEMMA RetentionStep == RetentionInv /\ [RNext]_allvars => RetentionInv'
  <1> SUFFICES ASSUME RetentionInv, [RNext]_allvars
               PROVE  RetentionInv'
    OBVIOUS
  <1>1. ASSUME NEW w \in Workers, UploadStep(w)
        PROVE  RetentionInv'
    <2>1. PruneAlone /\ broken' = broken \ {w}
      BY <1>1 DEF UploadStep, PruneAlone, prune
    <2>2. CASE WorkerStep(w)
      BY <2>1, <2>2, UploadKeeps DEF StepOf
    <2>3. CASE ForeignKeyFails(w)
      BY <2>1, <2>3, ForeignKeyKeeps
    <2>4. QED
      BY <1>1, <2>2, <2>3 DEF UploadStep
  <1>2. ASSUME NEW w \in Workers, NEW f \in Files, NEW s \in Slugs, Send(w, f, s)
        PROVE  RetentionInv'
    <2>1. PruneAlone /\ broken' = broken /\ StepOf(w)
      BY <1>2 DEF Send, PruneAlone, prune, old, StepOf
    <2>2. pc[w] = "idle"
      BY <1>2 DEF Send, Submit
    <2>3. w \notin broken
      BY <2>2 DEF RetentionInv, OpenUploads
    <2>4. QED
      BY <2>1, <2>3, UploadKeeps
  <1>3. ASSUME NEW p \in Pruners, PrunerStep(p)
        PROVE  RetentionInv'
    BY <1>3, QuietKeeps, SelectKeeps, DeleteKeeps, RebuildKeeps DEF PrunerStep
  <1>4. CASE UNCHANGED allvars
    <2>1. UNCHANGED vars /\ UNCHANGED old /\ UNCHANGED prune
      BY <1>4 DEF allvars
    <2>2. QED
      BY <2>1 DEF vars, store, locks, local, client, old, prune, RetentionInv, TypeOK, Carrying,
         LocksHeld, PruneTypes, OneRun, OpenUploads, SettledCurrent, Settled, Mine
  <1>5. QED
    BY <1>1, <1>2, <1>3, <1>4, QuietKeeps, FailureKeeps DEF RNext

LEMMA RetentionInit == RInit => RetentionInv
  <1> SUFFICES ASSUME RInit
               PROVE  RetentionInv
    OBVIOUS
  <1>1. IngestInv
    BY InitInv DEF RInit
  <1>2. TypeOK /\ Carrying /\ LocksHeld
    BY <1>1, SoundCarrying DEF IngestInv
  <1>3. PruneTypes /\ OneRun
    BY DEF RInit, PruneTypes, OneRun, Stages
  <1>4. \A w \in Workers : pc[w] = "idle"
    BY DEF RInit, Init
  <1>5. OpenUploads
    BY <1>4 DEF RInit, OpenUploads
  <1>6. SettledCurrent
    BY <1>1, <1>4 DEF IngestInv, EvidenceSound, ViewsCurrent, SettledCurrent
  <1>7. QED
    BY <1>2, <1>3, <1>5, <1>6 DEF RetentionInv

\* RetentionInv is inductive: the singleton lock, the files' uniqueness and the
\* group row locks keep what a run selected true until it is rebuilt.
THEOREM RetentionInvariant == RSpec => []RetentionInv
  BY RetentionInit, RetentionStep, PTL DEF RSpec

\* While no run fails, projections follow the evidence: when no run is active
\* every group's projections are those of its surviving events, whatever was
\* uploaded meanwhile (the rebuild loop of prune_audit_data).
THEOREM ProjectionsAlwaysFollow == RSpec => []ProjectionsFollowPrune
  <1>1. RetentionInv => ProjectionsFollowPrune
    <2> SUFFICES ASSUME RetentionInv, retentionLock = Free, crashes = 0, NEW g \in Groups
                 PROVE  projected[g] = InGroup(events, g)
      BY DEF ProjectionsFollowPrune
    <2>1. \A p \in Pruners : stage[p] = "off"
      BY RetentionAssumption DEF RetentionInv, OneRun
    <2>2. Settled(g)
      BY <2>1 DEF RetentionInv, OneRun, Settled
    <2>3. QED
      BY <2>2 DEF RetentionInv, SettledCurrent
  <1>2. QED
    BY <1>1, RetentionInvariant, PTL

\* What one step may remove from the store.
Removal ==
    /\ files \ files' \subseteq expired
    /\ \A e \in events \ events' : e.file \in files \ files'
    /\ \A f \in files \cap files' : links'[f] = links[f] /\ duplicates'[f] = duplicates[f]

\* An upload adds its own file, which was not stored before, and no more.
LEMMA UploadRemoves ==
    ASSUME RetentionInv, NEW w \in Workers, StepOf(w) \/ ForeignKeyFails(w)
    PROVE  Removal
  <1>1. CASE UNCHANGED store
    BY <1>1 DEF store, Removal
  <1>2. CASE pc[w] = "commit" /\ CommitWrites(w)
    <2>1. /\ file[w] \notin files /\ file[w] \in Files
          /\ files \subseteq Files /\ DOMAIN links = Files /\ DOMAIN duplicates = Files
      BY <1>2, RecordsAssumption DEF RetentionInv, OpenUploads, Carrying, TypeOK
    <2>2. /\ files' = files \cup {file[w]} /\ events' = events \cup fresh[w]
          /\ links' = [links EXCEPT ![file[w]] = GroupsOf(file[w], slug[w])]
          /\ duplicates' = [duplicates EXCEPT ![file[w]] =
                                Cardinality(SkippedLines(file[w], fresh[w]))]
      BY <1>2 DEF CommitWrites
    <2>3. QED
      BY <2>1, <2>2 DEF Removal
  <1>3. ForeignKeyFails(w) => UNCHANGED store
    BY DEF ForeignKeyFails, Rollback
  <1>4. QED
    BY <1>1, <1>2, <1>3, StoreFrame

\* A batch takes expired files with their events, and no other.
LEMMA BatchRemoves ==
    ASSUME RetentionInv, NEW p \in Pruners, NEW batch \in SUBSET stale[p], DeleteBatch(p, batch)
    PROVE  Removal
  <1>1. batch \subseteq expired /\ batch \subseteq files /\ files \subseteq Files
    BY Doomed DEF RetentionInv, TypeOK
  <1>2. /\ files' = files \ batch
        /\ events' = {e \in events : e.file \notin batch}
        /\ links' = [f \in Files |-> IF f \in batch THEN {} ELSE links[f]]
        /\ duplicates' = [f \in Files |-> IF f \in batch THEN 0 ELSE duplicates[f]]
    BY DEF DeleteBatch
  <1>3. QED
    BY <1>1, <1>2 DEF Removal

\* Retention deletes whole expired uploads and nothing else: a file goes only
\* after its own window, an event only with its file, and what stays keeps its
\* memberships and counts, whatever uploads run beside it (delete_files).
THEOREM DeletesExpiredOnly == RSpec => OnlyExpiredDeleted
  <1>1. ASSUME RetentionInv, RNext
        PROVE  Removal
    <2>1. ASSUME NEW w \in Workers, UploadStep(w) \/ \E f \in Files, s \in Slugs : Send(w, f, s)
          PROVE  Removal
      <3>1. StepOf(w) \/ ForeignKeyFails(w)
        BY <2>1 DEF UploadStep, Send, StepOf
      <3>2. QED
        BY <1>1, <3>1, UploadRemoves
    <2>2. ASSUME NEW p \in Pruners, NEW batch \in SUBSET stale[p], DeleteBatch(p, batch)
          PROVE  Removal
      BY <1>1, <2>2, BatchRemoves
    <2>3. CASE UNCHANGED <<files, events, links, duplicates>>
      BY <2>3 DEF Removal
    <2>4. CASE (\E f \in Files : Age(f)) \/ (\E r \in rejections : AgeRejection(r))
      BY <2>3, <2>4 DEF Age, AgeRejection, vars, store
    <2>5. ASSUME NEW p \in Pruners, PrunerStep(p) \/ PrunerFails(p)
          PROVE  Removal
      <3>1. CASE TakeLock(p) \/ SelectStale(p) \/ DeletesDone(p) \/ Pruned(p) \/ PrunerFails(p)
        BY <2>3, <3>1 DEF TakeLock, SelectStale, DeletesDone, Pruned, PrunerFails, vars, store
      <3>2. ASSUME NEW g \in Groups, LockGroup(p, g) \/ RebuildGroup(p, g)
            PROVE  Removal
        BY <2>3, <3>2 DEF LockGroup, RebuildGroup, FinishRebuild, store
      <3>3. QED
        BY <2>2, <2>5, <3>1, <3>2 DEF PrunerStep
    <2>6. QED
      BY <1>1, <2>1, <2>4, <2>5 DEF RNext
  <1> DEFINE Body == /\ files \ files' \subseteq expired
                     /\ \A e \in events \ events' : e.file \in files \ files'
                     /\ \A f \in files \cap files' : /\ links'[f] = links[f]
                                                     /\ duplicates'[f] = duplicates[f]
  <1>2. RetentionInv /\ [RNext]_allvars => [Body]_allvars
    BY <1>1 DEF Removal
  <1>3. QED
    BY <1>2, RetentionInvariant, PTL DEF RSpec, OnlyExpiredDeleted
=============================================================================
