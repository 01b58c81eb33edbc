----------------------------- MODULE Retention -----------------------------
(***************************************************************************)
(* Evidence retention beside ingestion: prune_audit_data under its         *)
(* singleton lock, started by the nightly scheduler or by hand, while      *)
(* uploads go on.  The pruner runs in autocommit: each of its statements   *)
(* is durable by itself, and a failure keeps what was done before it.      *)
(***************************************************************************)
EXTENDS Ingest

CONSTANTS
    Pruners,    \* prune_audit_data processes: the scheduler's and manual ones
    Scheduler,  \* the one deploy/prune_nightly.py starts again and again
    BatchSize,  \* DELETE_BATCH_SIZE
    MaxCrashes, \* bound on pruner failures
    Messages, NoTime,
    TimeOf,     \* the wall time a record carries
    MsgsOf      \* the messages it names

ASSUME RetentionAssumption ==
    /\ Scheduler \in Pruners /\ Free \notin Pruners
    /\ BatchSize \in Nat \ {0} /\ MaxCrashes \in Nat
    /\ IsFiniteSet(Files)

VARIABLES
    expired,       \* stored files that are past the retention cutoff
    agedOut,       \* UploadRejection rows that are past it
    retentionLock, \* the session-level advisory lock
    stage,         \* per pruner: where it is
    stale,         \* stale_file_ids not yet deleted
    touched,       \* stale_group_ids not yet rebuilt
    broken,        \* workers whose new rows may cite an event deleted meanwhile
    lastRun,       \* exit status of the last run that held the lock
    crashes

prune == <<retentionLock, stage, stale, touched, lastRun, crashes>>
old == <<expired, agedOut, broken>>
allvars == <<vars, old, prune>>

RInit ==
    /\ Init
    /\ expired = {} /\ agedOut = {} /\ broken = {}
    /\ retentionLock = Free
    /\ stage = [p \in Pruners |-> "off"]
    /\ stale = [p \in Pruners |-> {}]
    /\ touched = [p \in Pruners |-> {}]
    /\ lastRun = "none"
    /\ crashes = 0

-----------------------------------------------------------------------------
\* Time passes: a stored file is older than the retention window.
Age(f) ==
    /\ f \in files \ expired
    /\ expired' = expired \cup {f}
    /\ UNCHANGED <<vars, agedOut, broken, prune>>

AgeRejection(r) ==
    /\ r \in rejections \ agedOut
    /\ agedOut' = agedOut \cup {r}
    /\ UNCHANGED <<vars, expired, broken, prune>>

\* retention_lock: pg_try_advisory_lock, or "Another audit retention run is
\* already active", which is a failed run that touched nothing.
TakeLock(p) ==
    /\ stage[p] = "off"
    /\ retentionLock = Free
    /\ retentionLock' = p
    /\ stage' = [stage EXCEPT ![p] = "select"]
    /\ UNCHANGED <<vars, old, stale, touched, lastRun, crashes>>

\* The run is over, and the lock is released with it.
EndRun(p, status) ==
    /\ stage' = [stage EXCEPT ![p] = "off"]
    /\ retentionLock' = Free
    /\ stale' = [stale EXCEPT ![p] = {}]
    /\ touched' = [touched EXCEPT ![p] = {}]
    /\ lastRun' = status

\* Mutant: only groups that lose their last upload are rebuilt.
GroupsLeftEmpty(F) == {g \in groups : \A f \in files : g \in links[f] => f \in F}

\* touched_group_ids: by the upload's memberships or by its events.
TouchedGroups(F) ==
    (UNION {links[f] : f \in F})
        \cup ({e.group : e \in {d \in events : d.file \in F}} \ {NoGroup})

\* The stale files and the groups to rebuild are read once, before anything is
\* deleted; with nothing to prune the run ends.  Then the stale rejections,
\* which nothing else in the system reads, are deleted.
SelectStale(p) ==
    /\ stage[p] = "select"
    /\ \/ /\ expired = {} /\ agedOut = {}
          /\ EndRun(p, "ok")
          /\ UNCHANGED <<rejections, agedOut>>
       \/ /\ expired # {} \/ agedOut # {}
          /\ stale' = [stale EXCEPT ![p] = expired]
          /\ touched' = [touched EXCEPT ![p] = TouchedGroups(expired)]
          /\ rejections' = rejections \ agedOut
          /\ agedOut' = {}
          /\ stage' = [stage EXCEPT ![p] = "delete"]
          /\ UNCHANGED <<retentionLock, lastRun>>
    /\ UNCHANGED <<store, locks, pc, local, reply, client, rebuilds, expired, broken, crashes>>

\* Transactions that have projected one of these events and not committed.
Citing(E) == {w \in Workers : pc[w] = "commit" /\ \E g \in Mine(w) : shown[w][g] \cap E # {}}

\* Mutant: every file that shares a group with an expired one goes.
DeleteByGroup(p, batch) ==
    LET doomed == {f \in files : links[f] \cap touched[p] # {}} IN
    /\ stage[p] = "delete"
    /\ batch \subseteq stale[p] /\ batch # {}
    /\ files' = files \ doomed
    /\ events' = {e \in events : e.file \notin doomed}
    /\ links' = [f \in Files |-> IF f \in doomed THEN {} ELSE links[f]]
    /\ duplicates' = [f \in Files |-> IF f \in doomed THEN 0 ELSE duplicates[f]]
    /\ expired' = expired \ doomed
    /\ broken' = broken \cup Citing(events \ events')
    /\ stale' = [stale EXCEPT ![p] = @ \ doomed]
    /\ UNCHANGED <<groups, projected, rollup, rejections, locks, pc, local, reply,
                   client, rebuilds, agedOut, retentionLock, stage, touched, lastRun, crashes>>

\* One DELETE of delete_files: it cascades to the files' events and membership
\* rows.  Artifacts, observations and runs built from the events stay until
\* their group is rebuilt.
DeleteBatch(p, batch) ==
    /\ stage[p] = "delete"
    /\ batch \subseteq stale[p] /\ batch # {}
    /\ Cardinality(batch) = BatchSize \/ (batch = stale[p] /\ Cardinality(batch) < BatchSize)
    /\ files' = files \ batch
    /\ events' = {e \in events : e.file \notin batch}
    /\ links' = [f \in Files |-> IF f \in batch THEN {} ELSE links[f]]
    /\ duplicates' = [f \in Files |-> IF f \in batch THEN 0 ELSE duplicates[f]]
    /\ expired' = expired \ batch
    /\ broken' = broken \cup Citing(events \ events')
    /\ stale' = [stale EXCEPT ![p] = @ \ batch]
    /\ UNCHANGED <<groups, projected, rollup, rejections, locks, pc, local, reply,
                   client, rebuilds, agedOut, retentionLock, stage, touched, lastRun, crashes>>

\* VACUUM, which changes no row, follows the last batch.
DeletesDone(p) ==
    /\ stage[p] = "delete" /\ stale[p] = {}
    /\ stage' = [stage EXCEPT ![p] = "rebuild"]
    /\ UNCHANGED <<vars, old, retentionLock, stale, touched, lastRun, crashes>>

\* rebuild_group_projections waits for the group's row lock (no NOWAIT here,
\* and no lock timeout outside ingestion).
LockGroup(p, g) ==
    /\ stage[p] = "rebuild" /\ g \in touched[p] \cap groups
    /\ groupLock[g] = Free
    /\ groupLock' = [groupLock EXCEPT ![g] = Rebuilder]
    /\ stage' = [stage EXCEPT ![p] = "rebuilding"]
    /\ UNCHANGED <<store, rejections, recorderLock, inserting, pc, local, reply, client,
                   rebuilds, old, retentionLock, stale, touched, lastRun, crashes>>

RebuildGroup(p, g) ==
    /\ stage[p] = "rebuilding" /\ g \in touched[p]
    /\ FinishRebuild(g)
    /\ touched' = [touched EXCEPT ![p] = @ \ {g}]
    /\ stage' = [stage EXCEPT ![p] = "rebuild"]
    /\ UNCHANGED <<old, retentionLock, stale, lastRun, crashes>>

Pruned(p) ==
    /\ stage[p] = "rebuild" /\ touched[p] = {}
    /\ EndRun(p, "ok")
    /\ UNCHANGED <<vars, old, crashes>>

\* Mutant: a failed run keeps the lock (a pooled session outlives it).
CrashKeepsLock(p) ==
    /\ stage[p] # "off" /\ crashes < MaxCrashes
    /\ crashes' = crashes + 1
    /\ stage' = [stage EXCEPT ![p] = "off"]
    /\ stale' = [stale EXCEPT ![p] = {}]
    /\ touched' = [touched EXCEPT ![p] = {}]
    /\ lastRun' = "failed"
    /\ groupLock' = Unlocked(groupLock, Rebuilder)
    /\ UNCHANGED <<store, rejections, recorderLock, inserting, pc, local, reply, client,
                   rebuilds, old, retentionLock>>

\* Mutant: the failed run's row lock survives it.
CrashKeepsRowLock(p) ==
    /\ stage[p] # "off" /\ crashes < MaxCrashes
    /\ crashes' = crashes + 1
    /\ EndRun(p, "failed")
    /\ UNCHANGED <<vars, old>>

\* The run fails (a database error, a lost connection, a restart of the
\* service): the statement in progress is rolled back, what earlier statements
\* deleted stays deleted, and the session's locks are gone.
PrunerFails(p) ==
    /\ stage[p] # "off" /\ crashes < MaxCrashes
    /\ crashes' = crashes + 1
    /\ EndRun(p, "failed")
    /\ groupLock' = Unlocked(groupLock, Rebuilder)
    /\ UNCHANGED <<store, rejections, recorderLock, inserting, pc, local, reply, client,
                   rebuilds, old>>

-----------------------------------------------------------------------------
\* The foreign keys are deferred: a row the transaction wrote for an event that
\* is deleted before the commit fails the commit.  Only a group that is
\* projected anew writes rows for older events, so the commit may also succeed.
ForeignKeyFails(w) ==
    /\ w \in broken
    /\ Rollback(w)
    /\ Record(file[w], "ingest_failed")
    /\ Answer(w, "failed")
    /\ UNCHANGED <<client, rebuilds>>

UploadStep(w) ==
    /\ WorkerStep(w) \/ ForeignKeyFails(w)
    /\ broken' = broken \ {w}
    /\ UNCHANGED <<expired, agedOut, prune>>

Send(w, f, s) == Submit(w, f, s) /\ UNCHANGED <<old, prune>>

PrunerStep(p) ==
    \/ TakeLock(p) \/ SelectStale(p) \/ DeletesDone(p) \/ Pruned(p)
    \/ \E batch \in SUBSET stale[p] : DeleteBatch(p, batch)
    \/ \E g \in Groups : LockGroup(p, g) \/ RebuildGroup(p, g)

RNext ==
    \/ \E w \in Workers : \/ UploadStep(w)
                          \/ \E f \in Files, s \in Slugs : Send(w, f, s)
    \/ \E f \in Files : Age(f)
    \/ \E r \in rejections : AgeRejection(r)
    \/ \E p \in Pruners : PrunerStep(p) \/ PrunerFails(p)

RSpec == RInit /\ [][RNext]_allvars

\* The scheduler starts a run every night and five minutes after a failed one;
\* a run that holds the lock proceeds; workers and clients as in Ingest.
RFairSpec ==
    /\ RSpec
    /\ WF_allvars(PrunerStep(Scheduler))
    /\ \A p \in Pruners : WF_allvars(stage[p] # "off" /\ PrunerStep(p))
    /\ \A w \in Workers : WF_allvars(UploadStep(w))
    /\ \A f \in Files : WF_allvars(\E w \in Workers, s \in Slugs : Send(w, f, s))

-----------------------------------------------------------------------------
(* Properties *)

\* While no run fails, projections follow the evidence: whenever no run is
\* active, every group's projections are those of the events that survive,
\* whatever was uploaded during the runs (the rebuild loop of prune).
ProjectionsFollowPrune ==
    retentionLock = Free /\ crashes = 0
        => \A g \in Groups : projected[g] = InGroup(events, g)

\* Retention deletes whole expired uploads and nothing else: a file goes only
\* after its own window, an event only with its file, and the rest keep their
\* memberships and counts (delete_files, AuditEvent's cascade).
OnlyExpiredDeleted ==
    [][/\ files \ files' \subseteq expired
       /\ \A e \in events \ events' : e.file \in files \ files'
       /\ \A f \in files \cap files' : /\ links'[f] = links[f]
                                       /\ duplicates'[f] = duplicates[f]]_allvars

\* "Expired evidence can remain until the next nightly run": it does not remain
\* for ever, whatever run failed or found the lock taken.
ExpiredEventuallyPruned ==
    /\ \A f \in Files : (f \in expired) ~> (f \notin expired)
    /\ \A f \in Files : (<<f, "invalid">> \in agedOut) ~> (<<f, "invalid">> \notin agedOut)

\* Uploads that meet a pruner's row locks are told to retry, and the retries
\* end: every client gets a final answer although retention keeps running.
UploadsSettleBesidePruning == \A f \in Files : <>(outcome[f] # "none")

-----------------------------------------------------------------------------
(* Claims of the documentation that the code does not keep *)

\* "Rebuild each touched group from its surviving evidence so derived
\* projections stop referencing now-deleted events", and "Failed runs retry":
\* once the last run has succeeded, projections are those of surviving events.
ProjectionsRecover ==
    retentionLock = Free /\ lastRun = "ok"
        => \A g \in Groups : projected[g] = InGroup(events, g)

Detail == INSTANCE Divergence

Observed(E) ==
    {[engine |-> EngineOf[Line(e)], at |-> TimeOf[Line(e)], msgs |-> MsgsOf[Line(e)]] : e \in E}

\* "the landing-page count and the detail-page count cannot silently drift":
\* with no run active, the stored divergent_message_count of a group is the
\* count its detail page computes from its surviving events.
LandingCountCurrent ==
    retentionLock = Free =>
        \A g \in Groups : Detail!DivergentCount(Observed(rollup[g]))
                            = Detail!DivergentCount(Observed(InGroup(events, g)))

\* Every record of a file inside its own window is still among the events.
RetainedRecordsStored ==
    \A f \in files \ expired : LinesIn(f) \subseteq StoredLines
=============================================================================
