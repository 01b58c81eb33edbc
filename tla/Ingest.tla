------------------------------- MODULE Ingest -------------------------------
(***************************************************************************)
(* Concurrent ingestion of audit-log files (forensics/ingest.py and        *)
(* forensics/ingestion_limits.py, called by the upload view), against      *)
(* PostgreSQL at READ COMMITTED: every action is one statement, or a run   *)
(* of statements nothing else can observe, of one request.  A transaction  *)
(* keeps its writes in the worker's own variables until Commit; a rollback *)
(* drops them and releases its locks.                                      *)
(***************************************************************************)
EXTENDS AuditRecords

CONSTANTS
    Workers,    \* upload worker processes, one request each (sync workers)
    NoFile, Free, Rebuilder,
    MaxFaults,  \* bound on crashes, failed statements and lost replies
    MaxRebuilds \* bound on the groups rebuilt by management commands

ASSUME IngestAssumption ==
    /\ NoFile \notin Files
    /\ Free \notin Workers /\ Rebuilder \notin Workers /\ Free # Rebuilder
    /\ MaxFaults \in Nat /\ MaxRebuilds \in Nat

VARIABLES
    files,        \* committed AuditFile rows, by body
    links,        \* AuditFile.groups, the file's group memberships
    duplicates,   \* AuditFile.duplicate_event_count
    events,       \* committed AuditEvent rows
    groups,       \* committed AuditGroup rows
    projected,    \* per group: the events its projection rows were built from
    rollup,       \* per group: the events divergent_message_count was counted over
    rejections,   \* UploadRejection rows, as (body, reason) pairs
    recorderLock, \* transaction advisory locks, one per recorder
    groupLock,    \* FOR UPDATE locks on committed group rows
    inserting,    \* group rows inserted by a transaction still open
    pc, file, slug, \* per worker: where it is, its body and its fallback group
    todo,         \* groups groups_for_parsed_lines has still to resolve
    known,        \* records existing_duplicate_events found stored already
    fresh,        \* events this transaction has inserted
    shown,        \* the projection basis it has written for its groups
    counted,      \* the rollup basis it has written for its groups
    reply,        \* the result of the request, not yet delivered
    outcome,      \* per body: the final answer its client has seen
    faults, rebuilds \* how many of each have happened

store  == <<files, links, duplicates, events, groups, projected, rollup>>
locks  == <<recorderLock, groupLock, inserting>>
local  == <<file, slug, todo, known, fresh, shown, counted>>
client == <<outcome, faults>>
vars   == <<store, rejections, locks, pc, local, reply, client, rebuilds>>

-----------------------------------------------------------------------------
PCs == {"idle", "lookup", "begin", "resolve", "insert", "dedup",
        "store", "commit", "reply"}

Replies == {"none", "created", "existing", "busy", "failed", "rejected"}

TypeOK ==
    /\ files \subseteq Files
    /\ links \in [Files -> SUBSET Groups]
    /\ duplicates \in [Files -> Nat]
    /\ events \subseteq Event
    /\ groups \subseteq Groups
    /\ projected \in [Groups -> SUBSET Event]
    /\ rollup \in [Groups -> SUBSET Event]
    /\ rejections \subseteq Files \X {"invalid", "ingest_failed"}
    /\ recorderLock \in [Engines -> Workers \cup {Free}]
    /\ groupLock \in [Groups -> Workers \cup {Free, Rebuilder}]
    /\ inserting \in [Groups -> Workers \cup {Free}]
    /\ pc \in [Workers -> PCs]
    /\ file \in [Workers -> Files \cup {NoFile}]
    /\ slug \in [Workers -> Groups \cup {NoGroup}]
    /\ todo \in [Workers -> SUBSET Groups]
    /\ known \in [Workers -> SUBSET Lines]
    /\ fresh \in [Workers -> SUBSET Event]
    /\ shown \in [Workers -> [Groups -> SUBSET Event]]
    /\ counted \in [Workers -> [Groups -> SUBSET Event]]
    /\ reply \in [Workers -> Replies]
    /\ outcome \in [Files -> {"none", "stored", "refused"}]
    /\ faults \in 0..MaxFaults /\ rebuilds \in 0..MaxRebuilds

Init ==
    /\ files = Legacy
    /\ links = [f \in Files |-> {}]
    /\ duplicates = [f \in Files |-> 0]
    /\ events = LegacyEvents
    /\ groups = {}
    /\ projected = NoEvents /\ rollup = NoEvents
    /\ rejections = {}
    /\ recorderLock = [e \in Engines |-> Free]
    /\ groupLock = [g \in Groups |-> Free]
    /\ inserting = [g \in Groups |-> Free]
    /\ pc = [w \in Workers |-> "idle"]
    /\ file = [w \in Workers |-> NoFile]
    /\ slug = [w \in Workers |-> NoGroup]
    /\ todo = [w \in Workers |-> {}]
    /\ known = [w \in Workers |-> {}]
    /\ fresh = [w \in Workers |-> {}]
    /\ shown = [w \in Workers |-> NoEvents]
    /\ counted = [w \in Workers |-> NoEvents]
    /\ reply = [w \in Workers |-> "none"]
    /\ outcome = [f \in Files |-> "none"]
    /\ faults = 0 /\ rebuilds = 0

-----------------------------------------------------------------------------
(* Ending a transaction *)

\* COMMIT, ROLLBACK and the loss of the connection all release every lock.
Unlocked(lock, w) == [x \in DOMAIN lock |-> IF lock[x] = w THEN Free ELSE lock[x]]

\* Mutant: the recorder lock is a session lock, and outlives the transaction.
ReleaseRowLocks(w) ==
    /\ groupLock' = Unlocked(groupLock, w)
    /\ inserting' = Unlocked(inserting, w)
    /\ UNCHANGED recorderLock

ReleaseLocks(w) ==
    /\ recorderLock' = Unlocked(recorderLock, w)
    /\ groupLock' = Unlocked(groupLock, w)
    /\ inserting' = Unlocked(inserting, w)

ClearTransaction(w) ==
    /\ todo' = [todo EXCEPT ![w] = {}]
    /\ known' = [known EXCEPT ![w] = {}]
    /\ fresh' = [fresh EXCEPT ![w] = {}]
    /\ shown' = [shown EXCEPT ![w] = NoEvents]
    /\ counted' = [counted EXCEPT ![w] = NoEvents]

Answer(w, r) ==
    /\ reply' = [reply EXCEPT ![w] = r]
    /\ pc' = [pc EXCEPT ![w] = "reply"]

Goto(w, label) == pc' = [pc EXCEPT ![w] = label]

\* The atomic block is left by an exception: nothing of it remains.
Rollback(w) ==
    /\ ReleaseLocks(w)
    /\ ClearTransaction(w)
    /\ UNCHANGED <<store, file, slug>>

\* record_ingestion_rejection writes a row, or logs that it could not.
Record(f, reason) ==
    \/ rejections' = rejections \cup {<<f, reason>>}
    \/ UNCHANGED rejections

-----------------------------------------------------------------------------
(* The request *)

\* Mutant: the file hash is looked up before the body is validated.
SubmitLookupFirst(w, f, s) ==
    /\ pc[w] = "idle"
    /\ outcome[f] = "none"
    /\ file' = [file EXCEPT ![w] = f]
    /\ slug' = [slug EXCEPT ![w] = s]
    /\ \/ /\ f \in Valid \cup files
          /\ Goto(w, "lookup")
          /\ UNCHANGED <<reply, rejections>>
       \/ /\ f \notin Valid \cup files
          /\ Record(f, "invalid")
          /\ Answer(w, "rejected")
    /\ UNCHANGED <<store, locks, todo, known, fresh, shown, counted, client, rebuilds>>

\* A client sends a body until it sees a final answer; the same body may be in
\* flight twice.  The slug of the route is the fallback group.
Submit(w, f, s) ==
    /\ pc[w] = "idle"
    /\ outcome[f] = "none"
    /\ file' = [file EXCEPT ![w] = f]
    /\ slug' = [slug EXCEPT ![w] = s]
    /\ \/ /\ f \in Valid
          /\ Goto(w, "lookup")
          /\ UNCHANGED <<reply, rejections>>
       \/ /\ f \notin Valid
          /\ Record(f, "invalid")
          /\ Answer(w, "rejected")
    /\ UNCHANGED <<store, locks, todo, known, fresh, shown, counted, client, rebuilds>>

\* The committed-file lookup that precedes the transaction.
LookupExisting(w) ==
    /\ pc[w] = "lookup"
    /\ \/ file[w] \in files /\ Answer(w, "existing")
       \/ file[w] \notin files /\ Goto(w, "begin") /\ UNCHANGED reply
    /\ UNCHANGED <<store, rejections, locks, local, client, rebuilds>>

\* Mutant: the request goes on without the recorder lock.
BeginUnlocked(w) ==
    /\ pc[w] = "begin"
    /\ todo' = [todo EXCEPT ![w] = GroupsOf(file[w], slug[w])]
    /\ Goto(w, "resolve")
    /\ UNCHANGED <<store, locks, file, slug, known, fresh, shown, counted, reply,
                   rejections, client, rebuilds>>

\* pg_try_advisory_xact_lock on the recorder: taken, or the request is busy.
BeginIngestion(w) ==
    LET e == Recorder(file[w]) IN
    /\ pc[w] = "begin"
    /\ \/ /\ recorderLock[e] = Free
          /\ recorderLock' = [recorderLock EXCEPT ![e] = w]
          /\ todo' = [todo EXCEPT ![w] = GroupsOf(file[w], slug[w])]
          /\ Goto(w, "resolve")
          /\ UNCHANGED <<store, groupLock, inserting, file, slug, known, fresh,
                         shown, counted, reply>>
       \/ /\ recorderLock[e] # Free
          /\ Rollback(w)
          /\ Answer(w, "busy")
    /\ UNCHANGED <<rejections, client, rebuilds>>

\* The group groups_for_parsed_lines asks for next.
NextGroup(w) ==
    CHOOSE g \in todo[w] :
        \A h \in todo[w] : ResolveOrder(file[w], slug[w], g, h)

\* INSERT of a unique key waits for the transaction that holds it.
WaitsForGroup(w) ==
    /\ pc[w] = "resolve" /\ todo[w] # {}
    /\ NextGroup(w) \notin groups
    /\ inserting[NextGroup(w)] \notin {Free, w}

\* Mutant: groups are created outside the atomic block.
ResolveGroupAutocommit(w) ==
    LET g == NextGroup(w) IN
    /\ pc[w] = "resolve" /\ todo[w] # {}
    /\ todo' = [todo EXCEPT ![w] = @ \ {g}]
    /\ groups' = groups \cup {g}
    /\ UNCHANGED <<files, links, duplicates, events, projected, rollup, rejections,
                   locks, pc, file, slug, known, fresh, shown, counted, reply, client,
                   rebuilds>>

\* get_or_create: the committed row, else a row of this transaction's own.
ResolveGroup(w) ==
    LET g == NextGroup(w) IN
    /\ pc[w] = "resolve" /\ todo[w] # {}
    /\ ~WaitsForGroup(w)
    /\ todo' = [todo EXCEPT ![w] = @ \ {g}]
    /\ inserting' = IF g \in groups THEN inserting
                                    ELSE [inserting EXCEPT ![g] = w]
    /\ UNCHANGED <<store, rejections, recorderLock, groupLock, pc, file, slug,
                   known, fresh, shown, counted, reply, client, rebuilds>>

\* Mutant: the groups are read without FOR UPDATE.
ReadGroups(w) ==
    /\ pc[w] = "resolve" /\ todo[w] = {}
    /\ Goto(w, "insert")
    /\ UNCHANGED <<store, locks, local, reply, rejections, client, rebuilds>>

\* SELECT ... FOR UPDATE NOWAIT over all the groups of the request.
LockGroups(w) ==
    LET mine == GroupsOf(file[w], slug[w]) IN
    /\ pc[w] = "resolve" /\ todo[w] = {}
    /\ \/ /\ \A g \in mine : groupLock[g] = Free
          /\ groupLock' = [g \in Groups |-> IF g \in mine THEN w ELSE groupLock[g]]
          /\ Goto(w, "insert")
          /\ UNCHANGED <<store, recorderLock, inserting, local, reply>>
       \/ /\ \E g \in mine : groupLock[g] # Free
          /\ Rollback(w)
          /\ Answer(w, "busy")
    /\ UNCHANGED <<rejections, client, rebuilds>>

\* Another open transaction has inserted the same file hash.
WaitsForHash(w) ==
    /\ pc[w] = "insert"
    /\ \E v \in Workers \ {w} : /\ file[v] = file[w]
                                /\ pc[v] \in {"dedup", "store", "commit"}

\* AuditFile.objects.create; a violated unique hash rolls the transaction
\* back and answers with the row that won.
InsertFile(w) ==
    /\ pc[w] = "insert"
    /\ ~WaitsForHash(w)
    /\ \/ /\ file[w] \notin files
          /\ Goto(w, "dedup")
          /\ UNCHANGED <<store, locks, local, reply>>
       \/ /\ file[w] \in files
          /\ Rollback(w)
          /\ Answer(w, "existing")
    /\ UNCHANGED <<rejections, client, rebuilds>>

\* existing_duplicate_events: the committed events with one of these records.
ReadDuplicates(w) ==
    /\ pc[w] = "dedup"
    /\ known' = [known EXCEPT ![w] = LinesIn(file[w]) \cap {Line(e) : e \in events}]
    /\ Goto(w, "store")
    /\ UNCHANGED <<store, rejections, locks, file, slug, todo, fresh, shown,
                   counted, reply, client, rebuilds>>

\* Mutant: the rollup is counted before the new events are inserted.
StoreEventsCountFirst(w) ==
    LET new == NewEvents(file[w], slug[w], known[w])
        mine == GroupsOf(file[w], slug[w])
    IN
    /\ pc[w] = "store"
    /\ fresh' = [fresh EXCEPT ![w] = new]
    /\ shown' = [shown EXCEPT ![w] = [g \in Groups |->
          IF g \in mine THEN InGroup(new, g) \cup projected[g] ELSE {}]]
    /\ counted' = [counted EXCEPT ![w] = [g \in Groups |->
          IF g \in mine THEN InGroup(events, g) ELSE {}]]
    /\ Goto(w, "commit")
    /\ UNCHANGED <<store, rejections, locks, file, slug, todo, known, reply, client, rebuilds>>

\* The rest of create_events, with rebuild_file_projections, and the counting
\* half of refresh_group_rollups.  A group whose recorder history the file
\* backfills is projected anew, the others append (Projections models how).
StoreEvents(w) ==
    LET new == NewEvents(file[w], slug[w], known[w])
        mine == GroupsOf(file[w], slug[w])
    IN
    /\ pc[w] = "store"
    /\ fresh' = [fresh EXCEPT ![w] = new]
    /\ \E backfilled \in SUBSET mine :
          shown' = [shown EXCEPT ![w] = [g \in Groups |->
              IF g \notin mine THEN {}
              ELSE InGroup(new, g) \cup
                   (IF g \in backfilled THEN InGroup(events, g) ELSE projected[g])]]
    /\ counted' = [counted EXCEPT ![w] = [g \in Groups |->
          IF g \in mine THEN InGroup(events \cup new, g) ELSE {}]]
    /\ Goto(w, "commit")
    /\ UNCHANGED <<store, rejections, locks, file, slug, todo, known, reply, client, rebuilds>>

\* The end of the atomic block: every write becomes visible at once.
CommitWrites(w) ==
    LET f == file[w]
        mine == GroupsOf(f, slug[w])
    IN
    /\ files' = files \cup {f}
    /\ links' = [links EXCEPT ![f] = mine]
    /\ duplicates' = [duplicates EXCEPT ![f] = Cardinality(SkippedLines(f, fresh[w]))]
    /\ events' = events \cup fresh[w]
    /\ groups' = groups \cup mine
    /\ projected' = [g \in Groups |-> IF g \in mine THEN shown[w][g] ELSE projected[g]]
    /\ rollup' = [g \in Groups |-> IF g \in mine THEN counted[w][g] ELSE rollup[g]]
    /\ ReleaseLocks(w)
    /\ ClearTransaction(w)
    /\ UNCHANGED <<file, slug>>

Commit(w) ==
    /\ pc[w] = "commit"
    /\ CommitWrites(w)
    /\ Answer(w, "created")
    /\ UNCHANGED <<rejections, client, rebuilds>>

-----------------------------------------------------------------------------
(* Failures *)

InTransaction(w) == pc[w] \in {"begin", "resolve", "insert", "dedup", "store", "commit"}

\* lock_timeout (SQLSTATE 55P03) ends a wait: rolled back and answered busy.
LockTimeout(w) ==
    /\ WaitsForGroup(w) \/ WaitsForHash(w)
    /\ Rollback(w)
    /\ Answer(w, "busy")
    /\ UNCHANGED <<rejections, client, rebuilds>>

\* Any other error inside the block: a failed statement, the statement, idle
\* or transaction deadline, a lost connection.
TransactionFails(w) ==
    /\ InTransaction(w) /\ faults < MaxFaults
    /\ Rollback(w)
    /\ Record(file[w], "ingest_failed")
    /\ Answer(w, "failed")
    /\ faults' = faults + 1
    /\ UNCHANGED <<outcome, rebuilds>>

\* The connection is lost after the server has committed and before it says
\* so: the exception handler sees an error of a transaction that is durable.
CommitUnacknowledged(w) ==
    /\ pc[w] = "commit" /\ faults < MaxFaults
    /\ CommitWrites(w)
    /\ Record(file[w], "ingest_failed")
    /\ Answer(w, "failed")
    /\ faults' = faults + 1
    /\ UNCHANGED <<outcome, rebuilds>>

\* The worker dies (the arbiter kills it, the host stops): its connection
\* closes, PostgreSQL rolls back, and the client gets no answer.
WorkerDies(w) ==
    /\ pc[w] # "idle" /\ faults < MaxFaults
    /\ ReleaseLocks(w)
    /\ ClearTransaction(w)
    /\ Goto(w, "idle")
    /\ file' = [file EXCEPT ![w] = NoFile]
    /\ slug' = [slug EXCEPT ![w] = NoGroup]
    /\ reply' = [reply EXCEPT ![w] = "none"]
    /\ faults' = faults + 1
    /\ UNCHANGED <<store, rejections, outcome, rebuilds>>

\* The response reaches the client: 201 and 200 are final, so is 400; a 503
\* carries Retry-After.
Deliver(w) ==
    /\ pc[w] = "reply"
    /\ outcome' = [outcome EXCEPT ![file[w]] =
          IF reply[w] \in {"created", "existing"} THEN "stored"
          ELSE IF reply[w] = "rejected" THEN "refused" ELSE @]
    /\ Goto(w, "idle")
    /\ file' = [file EXCEPT ![w] = NoFile]
    /\ slug' = [slug EXCEPT ![w] = NoGroup]
    /\ reply' = [reply EXCEPT ![w] = "none"]
    /\ UNCHANGED <<store, rejections, locks, todo, known, fresh, shown, counted, faults, rebuilds>>

-----------------------------------------------------------------------------
(* rebuild_group_projections, run from a management command *)

Rebuilding == \E g \in Groups : groupLock[g] = Rebuilder

StartRebuild(g) ==
    /\ g \in groups /\ groupLock[g] = Free
    /\ ~Rebuilding /\ rebuilds < MaxRebuilds
    /\ groupLock' = [groupLock EXCEPT ![g] = Rebuilder]
    /\ rebuilds' = rebuilds + 1
    /\ UNCHANGED <<store, rejections, recorderLock, inserting, pc, local, reply, client>>

FinishRebuild(g) ==
    /\ groupLock[g] = Rebuilder
    /\ projected' = [projected EXCEPT ![g] = InGroup(events, g)]
    /\ groupLock' = [groupLock EXCEPT ![g] = Free]
    /\ UNCHANGED <<files, links, duplicates, events, groups, rollup, rejections,
                   recorderLock, inserting, pc, local, reply, client, rebuilds>>

-----------------------------------------------------------------------------
WorkerStep(w) ==
    \/ LookupExisting(w) \/ BeginIngestion(w) \/ ResolveGroup(w)
    \/ LockGroups(w) \/ InsertFile(w) \/ ReadDuplicates(w) \/ StoreEvents(w)
    \/ Commit(w) \/ LockTimeout(w) \/ Deliver(w)

\* Every client has its final answer: the run is over.
Finished ==
    /\ \A f \in Files : outcome[f] # "none"
    /\ \A w \in Workers : pc[w] = "idle"
    /\ ~Rebuilding
    /\ UNCHANGED vars

Next ==
    \/ \E w \in Workers :
          \/ \E f \in Files, s \in Slugs : Submit(w, f, s)
          \/ WorkerStep(w)
          \/ TransactionFails(w)
          \/ CommitUnacknowledged(w)
          \/ WorkerDies(w)
    \/ \E g \in Groups : StartRebuild(g) \/ FinishRebuild(g)
    \/ Finished

Spec == Init /\ [][Next]_vars

\* A sync worker runs its request to the end; a rebuild ends; a client that has
\* no final answer sends its body again.
FairSpec ==
    /\ Spec
    /\ \A w \in Workers : WF_vars(WorkerStep(w))
    /\ \A g \in Groups : WF_vars(FinishRebuild(g))
    /\ \A f \in Files : WF_vars(\E w \in Workers, s \in Slugs : Submit(w, f, s))

-----------------------------------------------------------------------------
(* Properties *)

\* Line deduplication is exact: however uploads of overlapping segments
\* interleave, no record is stored as two AuditEvent rows (create_events,
\* begin_ingestion's recorder lock).
CanonicalLines == \A d, e \in events : Line(d) = Line(e) => d = e

\* Deduplication loses nothing: each record of an accepted file is in the
\* event table, under this file or under the one that stored it first.
AcceptedLinesStored ==
    \A f \in files : LinesIn(f) \subseteq {Line(e) : e \in events}

\* duplicate_event_count accounts for exactly the records that have no event
\* row of their own in this file.
DuplicateCountExact ==
    \A f \in files :
        duplicates[f] + Cardinality({e \in events : e.file = f}) = Len(FileLines[f])

\* The derived state of a group is derived from all its evidence and nothing
\* else: projection rows and divergent_message_count see every committed
\* event, whatever uploads and rebuilds ran concurrently.
ViewsCurrent ==
    \A g \in Groups : /\ projected[g] = InGroup(events, g)
                      /\ rollup[g] = InGroup(events, g)

\* An upload that is refused, fails or crashes leaves no trace in the evidence
\* tables: every group row is some stored file's group, every event belongs to
\* a stored file that is linked to the event's group.
NoTraceOfFailedUploads ==
    /\ \A g \in groups : \E f \in files : g \in links[f]
    /\ \A e \in events : /\ e.file \in files
                         /\ e.group \in links[e.file] \cup {NoGroup}

\* "They also prevent identical files waiting on the unique hash while their
\* first request projects": no request ever waits on the file-hash index.
NeverWaitsForHash == \A w \in Workers : ~WaitsForHash(w)

\* A client is told "stored" only of a valid body that is durably stored, and
\* "refused" only of one that is not acceptable: a replay of a legacy body is
\* not accepted through its old file hash.
AnswersTruthful ==
    \A f \in Files : /\ outcome[f] = "stored" => f \in files \cap Valid
                     /\ outcome[f] = "refused" => f \notin Valid

\* Groups are created in one order, so two requests never wait for each other's
\* new group rows (where no fallback slug names a group that records also name).
WaitsOn(w, v) == WaitsForGroup(w) /\ inserting[NextGroup(w)] = v
NoWaitCycle == \A v, w \in Workers : ~(WaitsOn(v, w) /\ WaitsOn(w, v))

\* Retry safety: a client that keeps retrying 503s and lost answers ends with a
\* final answer, and an acceptable body ends up stored.
EveryUploadSettles == \A f \in Files : <>[](outcome[f] # "none" /\ (f \in Valid => f \in files))

-----------------------------------------------------------------------------
(* The inductive invariant: what the locks of an open transaction protect *)

StoredLines == {Line(e) : e \in events}
Mine(w) == GroupsOf(file[w], slug[w])

\* A request past validation carries a valid body, and its answer is true.
RequestsSound ==
    \A w \in Workers :
        /\ pc[w] \notin {"idle", "reply"} => file[w] \in Valid
        /\ pc[w] # "idle" => file[w] \in Files /\ slug[w] \in Slugs
        /\ pc[w] = "reply" /\ reply[w] \in {"created", "existing"}
              => file[w] \in files \cap Valid
        /\ pc[w] = "reply" /\ reply[w] = "rejected" => file[w] \notin Valid

\* An open transaction holds its recorder, and from its first write on its groups.
LocksHeld ==
    \A w \in Workers :
        /\ pc[w] \in {"resolve", "insert", "dedup", "store", "commit"}
              => recorderLock[Recorder(file[w])] = w
        /\ pc[w] \in {"insert", "dedup", "store", "commit"}
              => \A g \in Mine(w) : groupLock[g] = w

\* What a transaction has read and computed still holds when it commits.
ReadsStable ==
    \A w \in Workers :
        /\ pc[w] \in {"dedup", "store", "commit"} => file[w] \notin files
        /\ pc[w] \in {"store", "commit"}
              => known[w] = LinesIn(file[w]) \cap StoredLines
        /\ pc[w] = "commit"
              => /\ fresh[w] = NewEvents(file[w], slug[w], known[w])
                 /\ \A g \in Mine(w) :
                       /\ shown[w][g] = InGroup(events \cup fresh[w], g)
                       /\ counted[w][g] = InGroup(events \cup fresh[w], g)

\* The committed rows: events are records of stored files, views are current.
EvidenceSound ==
    /\ \A e \in events : e.file \in files /\ e.no \in DOMAIN FileLines[e.file]
    /\ files \subseteq Valid \cup Legacy
    /\ CanonicalLines
    /\ ViewsCurrent
    /\ AnswersTruthful

\* Together they are inductive: begin_ingestion's locks keep what a transaction
\* read before its writes true until its commit.
IngestInv == TypeOK /\ RequestsSound /\ LocksHeld /\ ReadsStable /\ EvidenceSound

-----------------------------------------------------------------------------
(* What ingestion promises: the archive in which a file is accepted at once *)

Promise == INSTANCE Archive WITH
    accepted <- files, evidence <- events, workspaces <- groups,
    views <- projected, counts <- rollup, told <- outcome

\* Refinement: however requests, rebuilds, failures and retries interleave, the
\* committed state changes only by accepting one whole valid file, exactly as
\* if uploads were processed one at a time (the atomic block of
\* ingest_audit_log_bytes and the locks taken at its start).
ImplementsArchive == Promise!Spec
=============================================================================
