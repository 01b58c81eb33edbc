# Goggles in TLA+

Goggles is a Django service that receives audit logs (JSONL, schema v4) from
Marmot engines, keeps them as append-only evidence in PostgreSQL, derives
per-group views from them and serves dashboards, exports and reports. This
directory holds a TLA+ model of the parts in which state changes, TLC
configurations that check them on small instances, and TLAPS proofs for every
instance.

To check a run: `tlc -config MCIngest.cfg MCIngest`; to check proofs:
`tlapm IngestProofs.tla`, and so for every `*Proofs` module. `PROJECT.json` lists runs,
mutants, theorems, findings,
hazards, and for every definition the source lines it stands for.

## 1. Inventory

| Part | State | Operations | Interacts with | What is hard | What makes it correct |
|---|---|---|---|---|---|
| Ingestion (`forensics/ingest.py`, `ingestion_limits.py`) | AuditFile, AuditEvent, AuditGroup rows; group memberships; rollups; rejections; advisory and row locks | validate, look up, lock recorder, create and lock groups, insert, deduplicate, project, count, commit | upload view, projections, divergence, PostgreSQL | overlapping segments in flight, identical bodies in flight, lock waits, deadlines, lost commits, retries | each record stored once, nothing of a failed upload remains, views always current, true answers, retries end |
| Record intake (`ingest.py` 73-207 and 332-676, `audit_schema.py`) | parsed lines, the file's summary | parse, normalise, validate, insert in batches | ingestion | columns set twice, values at their limits, several faults in one body | stored whole, or refused for the first fault |
| Upload view and body (`views.py` 3157-3615, `request_body.py`) | the request, rejection rows | authenticate, read and verify the body, answer | ingestion, tokens | short or long bodies, size cap, lost answers | only complete bodies reach ingestion, refusals are deserved |
| Transfer worker (`deploy/ingest_worker.py`) | transfer deadline, heartbeats | read a chunk, notify | gunicorn | slow bodies against two deadlines | a request ends by one of them |
| Projections (`projections.py`) | artifacts, observations, runs, leaf rows of a group | project an upload, detect a backfill, rebuild | ingestion, retention, rebuild command | uploads out of time order, runs spanning uploads | the result is that of a rebuild |
| Divergence (`analysis.py` 326-575, 1107-1121) | `divergent_message_count` | streaming aggregation, trace computation | ingestion, dashboards | unordered fetch, absent times, window edges | both computations agree |
| Retention (`retention.py`, `prune_audit_data`, `deploy/prune_nightly.py`) | session lock, process-local lists | select, delete in batches, rebuild, retry | ingestion, projections | autocommit, failures half-way, uploads meanwhile | only expired evidence goes, views follow, expired evidence does go |
| Rebuild command | row lock | rebuild a group | ingestion | uploads meanwhile | views stay current |
| Purge command | all tables | delete files, then groups | ingestion, export | uploads meanwhile | nothing is stranded |
| Investigation reader (`investigation_reader.py`) | cursor, hash prefixes, evidence, budgets | page, resolve ties, retrieve sessions | Loki | full pages, ties, late entries, budgets | nothing missed, repeated or foreign |
| Investigation bundle, CLI (`investigation_bundle.py`, `investigation_cli.py`) | temporary and target file, directory, exit report | validate, write, fsync, link, roll back, clean up | reader, other runs | failure between any two steps, power loss, two runs | published whole or not at all, reported truly |
| Tokens (`token_crypto.py`, `models.py` 29-141, `admin.py`) | token rows, keys, each process's settings | issue, verify, rekey, mark used, revoke, edit | upload and read API | key rotation and edits during use | valid tokens keep working, revoked ones stay revoked |
| Export stream (`views.py` 3284-3366, `streaming.py`) | iterator | next chunk | ingestion, retention | commits between chunks | well-formed, honest about its end |
| Read API (`views.py` 905-2230) | none | filter, order, paginate, attribute actions | dashboards, agents | joins, severities known late, truncated windows | a walk through the pages is exact |
| Delivery matrix (`views.py` 2334-2725) | none | match expectations with observations | read API, export | several identities, counts, legacy recorders | its halves agree, evidence never hides evidence |
| Timelines, explanations, HTML | none | rendering | dashboards | - | - |
| Migrations, seed data, settings, benchmarks, templates | - | - | - | - | - |

The hazards these parts are exposed to are listed, at their lines and with the
properties that cover them, in `PROJECT.json`.

## 2. Modules

`AuditRecords` holds the shared data: bodies, records, events, and the pure steps of
`create_events` (which record goes to which group, which are new, which are
skipped). A body stands for its SHA-256, a line for its line hash. Validation is
the constant set `Valid`, about which only what `validate_upload` establishes is
assumed: an accepted body is not empty and speaks for one engine.

`Ingest` is `ingest_audit_log_bytes` run by several workers. Every action is one
statement, or a run of statements that no other transaction can tell apart, at
READ COMMITTED. What a transaction has written is in the worker's own variables
(`fresh`, `shown`, `counted`, `inserting`) until `CommitWrites` publishes it; a
rollback drops it. The locks are modelled as PostgreSQL grants them: the
recorder's advisory lock and the group locks do not wait (`pg_try_...`, `NOWAIT`), unique
keys do, up to `lock_timeout`.

| Action | Code |
|---|---|
| `Submit` | `validate_upload`, best-effort rejection record |
| `LookupExisting` | the lookup by hash before the transaction |
| `BeginIngestion` | `begin_ingestion` |
| `ResolveGroup` | `groups_for_parsed_lines`, one key at a time in sorted order |
| `LockGroups` | `select_for_update(nowait=True)` |
| `InsertFile` | `AuditFile.objects.create`, and the IntegrityError branch |
| `ReadDuplicates`, `StoreEvents` | `create_events`, `rebuild_file_projections`, `refresh_group_rollups` |
| `Commit`, `CommitUnacknowledged` | end of the atomic block; the same with the acknowledgement lost |
| `LockTimeout`, `TransactionFails`, `WorkerDies` | the exception handler; the arbiter |
| `Deliver` | the response of `api_audit_log_upload`; a client repeats a body until it has a final answer |
| `StartRebuild`, `FinishRebuild` | `rebuild_audit_projections` |

`Archive` is what ingestion promises: a set of files in which a file is accepted
whole, at once. `Ingest` is shown to implement it.

`Divergence` is the trace-side computation as pure operators; `DivergenceScan` is
`divergent_counts_for_group_ids` as a state machine that fetches rows in any
order and keeps running sets.

`Retention` extends `Ingest` with the passage of time, the pruner and its
scheduler. The pruner is in autocommit: each batch, each rebuild is durable by
itself. It composes the upload actions with its own and uses `Divergence` for the
count a detail page would show.

`Projections` is one group's derived rows: `Upload` is `rebuild_file_projections`,
`Rebuilt` the full replay. Events are numbered in projection order. Both replays
are the recursive function `Projected`, which applies `ProjectEvent` to one event
after another, as both share `project_event` in the code.

`Intake` is what happens to a body before and inside that transaction: `Decode`,
`ReadLine` and `Judge` are `validate_upload` and `parse_jsonl`, `InsertBatch` a
statement of the bulk insert. The copies of `normalize_kind`, `normalize_context`
and their helpers are sets of rules (field, column, how it is copied), so that the
order in which parts of a record overwrite each other, and the limits of the
columns, are what the model is about. A value is its type and its size. What the
v4 schema checks as strictly as the code (ids, digests, enumerations, lists) is a
plain value that always fits. The codes a line can be blamed for are stated apart from
the rules that give them: `Exceeds` is what the document means by a limit,
`Unwelcome` what the code refuses beyond it. `WellFormed` says what the schema has established of
a line when it is normalised (its kind, the kind's fields, text where a word is wanted),
`UploadsAssumption` that every body is made of such lines. `Ingest` starts where `Judge` accepts.

`Tokens` has both token families statement by statement, so that a request acts
on a row that others change: `authenticate` reads it, `Rekey` writes the new
hash, `mark_used` the time, `AdminLoad` and `AdminSave` are the two halves of an
admin form. A hash is the key it was made with; processes have the settings they
started with. `RotateSecretKey` waits for every process to be restarted and every token to be
rekeyed: that is the documented cutover, which the code does not enforce.
`UploadRequest` extends it with one ingest worker's requests: the
header checks, the chunks of `ProgressInput` under socket timeout, transfer
deadline and heartbeat, Django's multipart parsing with the size handler,
`verified_audit_bytes`, rejection rows and answers. The transaction is one step.
Time passes only where a worker may be kept waiting.

`DeliveryMatrix` has the operators of the delivery page over a set of events and the
table of delivery observations. An engine may have several accounts, or events
without one; its observation keeps the first account it is given, which may come with a
later upload (`AccountRef`), where the index and the cells know every account of
the engine (`delivery_identity_index`, `EngineIdentities`). `ObservationsAfter` is
an upload's projection, which replays the group on a backfill.
`GroupReads` is a group under them: `StartWalk` and `NextPage` are a client
that follows `has_more` and `next_offset`, `StartExport`, `OpenSection`, `EmitRow`, `Eof` and
`ExportFails` are `stream_ndjson`, each section a query of its own, and uploads,
prunes, rebuilds, the switch `GOGGLES_UPLOADS_ENABLED` and the purge's two deletes
run meanwhile. That a purge begins with uploads off and ended, and that the switch is
left alone during it, is the operators' procedure (`docs/deployment.md`); the
command checks neither, and without it `NothingStranded` fails. Convergence runs are one
per engine (`Projections` has how they come about). `InOrder` is `order_by`: the
enumeration of a set by a relation that orders it; `Selected` keeps the payloads
that match, in their order.

`Investigation` extends `LokiReader` with the command around it: the JSONL source,
read line by line while a recorder appends, the summary, and `write_bundle` with a
directory, what of it would survive a power loss, and another run that publishes
under the same name. The count of records whose normalisation was rejected, which the summary
only reports, is left out. Every file operation may fail, the process may be killed and
the machine may lose power between any two.

`LokiReader` is the reader's retrieval: `Page` a turn of `retrieve`, `Tie` a call of
`tied`, `AddRows` its `add_rows` and `Evidence.add`. Loki is external: `Pages`
gives every answer the code relies on, `Arrive` adds entries at any time. The
`audit_sha256` label of an entry is taken to be the hash of its body, as the
recorder writes it: the prefix queries at a tie find an entry by its label alone.

Abstractions to know of: a group that exists only as a fallback slug and is later
adopted by a record's reference (`group_for_ref`, second branch) is not
distinguished; record contents, formatting and logging are left out; at
`StoreEvents` the choice between appending and rebuilding a group is left open
(`Projections` models it).

## 3. Runs

| Run | Instance | Shows |
|---|---|---|
| `ingest` | 2 workers; 2 files of a recorder that overlap in an ungrouped record, 1 of another meeting the same groups in the other order; a referenced group and a fallback, or no fallback; 1 fault; 1 rebuild | the safety properties of ingestion, its inductive invariant and refinement of `Archive` |
| `ingest_live` | 2 files of two recorders and a legacy body; 2 faults; 1 rebuild | answers are true and every upload settles |
| `divergence` | every history of up to 3 events, 2 engines, 2 messages, 2 groups, times 0..2 or absent; and, as initial states of their own, 2 recorders, every evidence of up to 4 events, contexts without run_id, every partition and order of upload (884 000 states) | running state, parity, stored count; runs equal a rebuild's, sightings do not depend on upload order, one projection per event |
| `retention` | 1 worker, 2 overlapping files and an unacceptable body, 2 pruners, batches of 1, 1 failed run | what pruning leaves behind while uploads go on; expired evidence goes, uploads settle |
| `upload_request` | 1 ingest and 1 web worker, 1 token of each family, raw and multipart bodies of up to 3 units in chunks of 2 with a ceiling of 2, 1 request each, 3 operations of administrators, owners and clock; and, as initial states of their own, bodies of one record of every kind with two fields varied over their limits, with and without a full context, and of up to 4 lines of 12 sorts (489 000 states) | whole bodies, deserved refusals, bounded transfers, tokens through a key cutover, every request ends; bodies are stored whole or refused for their first fault |
| `reads` | every subset of 11 entries with pages of 2, hashes of 2 digits, 1 late entry; 5 JSONL sources with 1 line written meanwhile; 1 other run; and, as initial states of their own, every group of up to 3 of 9 events in 2 files with the observations of every order of upload, 10 filters, pages of 1 and 2, a window of 2 actions, 2 changes (1 670 000 states) | nothing missed, repeated, foreign; ties refused only when unresolvable; a bundle is whole under its name, and the report is true; exact walks and exports, a delivery matrix that agrees with itself and the evidence, a purge that strands nothing |

Where a run has two instances, modules that share no state stand side by side: a
behaviour runs one of them, and the other is where it started (`MCDivergence`,
`MCUploadRequest`, `MCReads`).

Why the bounds are enough: two workers meet in every pair of steps, and the two
files of one recorder, the second recorder and the rebuild make every pair of
lock holders meet; the fallback group beside a referenced one gives a
key order that disagrees with file order. One fault can hit every step; two are used where a
lost answer and a failed retry combine. Three rows are the fewest with which a
window, its edge and a sighting can be fetched in a wrong order. Four events are
the fewest with which a run can be opened, closed, opened again and backfilled.
Pages of two with a three-way trie of depth two reach full pages at every level.
Two varied fields are the fewest with which a kind meets its context, a list its
single form, or a good value a bad one; four lines with a ceiling of three reach
every pair of faults, blank lines and the record limit. In `upload_request` a
unit is half a chunk, so bodies end inside, at and after a chunk and a file is
below, at and above the ceiling; tokens are only edited while the request is an
ordinary one and not in the middle of its transfer (`Quiet`), because reading a
body touches no token. Among the groups of `reads` the events cover each section, severity,
identity and expectation, an engine with two accounts and a report without any; a walk
is followed only while the group does not
change, since nothing is promised otherwise, and exports are of two events, which
is enough for a row to come, go or stay between two sections.
In `retention` one worker is enough, because workers exclude each other through
locks that `ingest` checks, and the pruner interleaves with each of its steps.

Each property has a mutant: a plausible bug in a mapped definition (a lock not
taken, an order not kept, a filter missing) under which TLC finds it violated.
Mutants are defined next to the definition they change and are marked as such.

### Disagreements between code and documentation

Six runs are expected to fail; each checks what a comment or document says.

* `retention_crash`: a prune that fails between its deletes and its rebuilds is
  retried as a run with nothing to do, and the projections of the touched groups
  keep evidence that is gone.
* `retention_count`: pruning does not refresh `divergent_message_count`, so the
  landing page and the detail page disagree.
* `retention_dedup`: a record in a retained upload is lost when it had been
  deduplicated against an upload that expires earlier.
* `projections_appends`: an explicit run closes the inferred one only in memory;
  the next chronological upload appends to it, a rebuild does not.
* `intake_limits`: `storage_limit_exceeded` is documented as "Schema-valid value exceeds a
  Goggles storage or display limit" (`docs/api-v1.md` 359). The code also gives it for an
  empty string where `copy_str` wants a word, and for an integer written `1.0`,
  both of which the schema admits. `RejectedRightly` holds with the code's meaning,
  `StorageLimitsAsDocumented` fails.
* `group_reads_follow`: clients are told to follow `has_more` (`docs/api-v1.md` 56).
  In a truncated action window every page says `has_more`, the empty one with a
  `next_offset` equal to its offset (`views.py` 2206), so a client that does nothing else
  never ends. `PagesExact` says what such a client has by the time a page is empty,
  `MoreMeansRows` fails.

Met while modelling, and not a run of their own:

* A late segment overwrites `latest_state` (`projections.py` 474): deliveries do not
  count as a backfill, so the state shown is the one uploaded last, and a rebuild
  changes it. With `Chronological = FALSE`, `IncrementalMatchesRebuild` fails on it.
* Some columns of projections are narrower than what `normalize_event` accepts: a
  convergence `run_id` in a context, a delivery plane, a 64-bit expected count, a
  prefixed `latest_state` (`projections.py` 474, 516, 643). A body that is valid then
  fails in PostgreSQL and is answered `ingest_failed`, which invites retries that
  cannot succeed. `Intake` and `Projections` abstract from these widths.
* An observation keeps the first account it is given (`projections.py` 452), so an
  engine that reports a message under a second account is shown as having observed it in its
  cell and as missing in the second account's row. The document promises neither;
  `MissingMeansUnseen` names the case.
* The export's identity index is read once, before its sections
  (`views.py` 3308), so the matrix of an artifact may not know an engine whose
  events appear further down. The export is documented as append-time-consistent
  (`docs/api-v1.md` 192), which `ExportExact` states of rows.

## 4. Fairness

`EveryUploadSettles` assumes weak fairness of each worker's next step (a sync
worker runs its request to the end, and every wait is cut by `lock_timeout`), of
the end of a rebuild (a finite loop under a row lock), and of sending a body that
has no final answer (503 carries Retry-After; the engines retry). Faults are
bounded, not unfair: after the last of them the system must recover.
`Retention` adds weak fairness of the scheduler's run (`prune_nightly.py` loops
for ever and retries in 300 s) and of any run that holds the lock. The manual
pruner may never run again. `UploadRequest` assumes weak fairness of the server's
own steps, of the clock while a worker waits, and of gunicorn's arbiter. The server's steps
include its own short statements (rekeying, `mark_used`, the rejection row): one that
hangs is cut off by the arbiter like a transfer, which ends the request too.
Clients, administrators and the ingestion transaction owe nothing, so
`EveryRequestEnds` holds by the deadlines alone.

## 5. Proofs

`IngestProofs` proves `Spec => []IngestInv` for any sets of workers, files,
records, groups and recorders and any number of failures. `CanonicalLines` and
`ViewsCurrent` are not inductive: a commit keeps them only if what the
transaction read is still true. `IngestInv` therefore adds

* `RequestsSound`: a request past validation carries a valid body and its answer is true;
* `LocksHeld`: an open transaction holds its recorder and, from the file insert on, its groups;
* `ReadsStable`: its duplicates, new events, projection and rollup are what they would
be if read now.

Each action has a step in the proof and each conjunct it can disturb a step below.
From it follow type correctness, exact deduplication, current views, true
answers, that no request waits on the file hash (two open transactions with one
body would hold one recorder's lock), and that each step of `Ingest` is a step
or a stutter of `Archive` (`Refinement`): a commit maps to `Accept`, an answer to
`Tell`. Assumed are `RecordsAssumption`, `BodyAssumption` and
`IngestAssumption`; TLC evaluates them in every run.

`DivergenceProofs` proves that the running state of the aggregation is that of
the rows fetched so far, for any rows in any order, and from it parity with the
traces and the exactness of the stored count. The core is how one more row
changes a minimum, a maximum and a window, stated as lemmas.

It continues with `Intake`: `RejectedRightly` and `StoredWhole`
for any bodies of well-formed lines, any ceilings and batch size. `IntakeInv` says
of each moment

* what was read: the parsed lines are those before `place` that are not blank, each
  normalised, and nothing before `place` stopped the reading (`ReadInv`, `TextInv`);
* that an accepted body was read to its end without a fault (`TakenInv`);
* that the rows inserted are a prefix of the parsed lines, and in the end all of
  them (`InsertedInv`), that the contexts name one source (`MemberInv`), and that
  no statement binds too many parameters (`StatementsInv`);
* and that a refusal names the first fault (`RejectedRightly` itself).

That a stored row holds its record is a fact about the rules of normalisation
(`RowHolds`): within each part of a record a column is filled from one field,
but for the lists that also have a single form (relay URLs, outgoing messages);
the columns of a context, its action and the envelope are apart, and where a kind
fills a column of the context its own value is copied last.

`IngestProofs` continues with what the committed rows account for. `RowsComplete`
(no trace of failed uploads, every accepted record stored, exact duplicate
counts) is preserved beside `IngestInv`: a commit adds exactly the records its
transaction found new, and each record of the file is either among them or was
stored when the recorder's lock was taken. The count follows from a bijection
between a file's positions and its kept and skipped records. `ResolvedInOrder` (a
request has resolved the groups that precede those it still wants, and has
inserted only rows of resolved ones) gives `NoWaitCycle` under `FallbacksApart`:
no fallback slug names a group some record also names. The code does not
enforce that. Without it the key order `("ref", ...)` before `("slug", ...)` can
put one row in two places, two requests can wait for each other, and PostgreSQL
(its deadlock check or `lock_timeout`) ends the wait; the theorem states the
condition as its hypothesis.

`RetentionProofs` proves `RSpec => []RetentionInv` for ingestion and retention
together, with any number of workers, pruners, batches and failed runs.
`ProjectionsFollowPrune` speaks of moments without a run; the invariant says what
holds in between:

* `OneRun`: only the holder of the session lock has anything selected; what it has
  still to delete is expired, and the events of those files are in groups it has
  still to rebuild. It stays so because an upload can add events only to its own
  file, which is not stored yet (`OpenUploads`);
* `SettledCurrent`: until a run fails, a group no run has still to rebuild has the
  projections of its events, and an upload about to commit to it carries those of
  its events and the new ones. A rebuild and such an upload exclude each other by
  the row lock (`LocksHeld`, shared with `IngestProofs`).

The same invariant gives `OnlyExpiredDeleted`, step by step: a batch is part of
what is expired and stored, and a commit changes the row of no stored file.
That a failed run breaks the projections is the finding of `retention_crash`, which
is why `ProjectionsFollowPrune` asks for `crashes = 0`.

`UploadRequestProofs` proves `EndpointInv` for any number of workers and tokens,
any body size, ceiling, chunk and timeout. Its token part ties the phase of the key
migration to the keys in use (`BeforeCutover`, `AfterRotation`, `CutoverFirst`): a
hash of the old key is never met after the rotation. Its request part
ties each place in the code to what was received (`HeaderPassed`, `Parsed`, `Chunk`)
and to the clock (`Clock`: the transfer deadline is overrun by no more than the time since
the last heartbeat). From it follow `OnlyWholeBodies`, `RefusedRightly`,
`TransferBounded`, `TokensKeepWorking` and `OnlyAdministratorsUndo`.

`GroupReadsProofs` proves `GroupInv`: a purge under way has seen every stored
file and no upload can add one, which gives `NothingStranded`; and the observations are
a table of what was projected (`TableOK`): one row per artifact and engine, whose account is
one the engine reported it under, and absent only if none of the projected reports
had one. Uploads, with and without a backfill, and rebuilds keep it.
`MissingMeansUnseen` follows from the table: what an engine reported under an identity
is either in its row, or hidden by another account the row was given first.
`UploadsNeverHide` follows from what one upload does to it: rows stay, and an empty
account is filled in. That removes an engine from a count when the account is the sender's, and a
backfill may decide for another first account; the property says that nothing else
does, and `FiniteFacts` compares the cardinalities of the counts through functions.
`ExportExact` rests on `ExportInv`: for each opened section the rows
sent and the rows still in the cursor are disjoint, include every row that was
there all the time and no row that never was, and the counts are those of the
lines sent.

`PagesExact` rests on `WalkInv`: what a walk has got is the part of the payloads
before its offset, and it ends, or gets an empty page, only at their end. The payloads
in turn are, for any
events, filter and section, the wanted rows once each and in the section's order
(`PayloadsAre`). That takes three facts. A finite set that a relation orders
strictly and totally has exactly one enumeration in that order, each element at the place
that counts those before it (`EnumerationExists`, `InOrderIs`). The keys of every
section order its rows, since no two rows share an id, an artifact or a first event
(`SeenOrders`, `EpochOrders`, `FirstIds`). And a selection keeps that
order (`SelectedIs`, `PartEmbeds`), also where the severity is already asked for when
groups of actions are formed (`RowsAmong`).

`ProjectionsProofs` proves, for any number of recorders and events, any cut of the
evidence into uploads and any order of them:

* `ProjectedOnce`: every stored event has its own rows exactly once;
* `SightingsMatch`: the artifact and each recorder's observation have the evidence, the first
  and the last sighting that a rebuild would give;
* `RunsMatch`: the convergence runs are those of a rebuild, where no event names its run.

The replay is a function defined by recursion on the place of an event, whose
recursion equation is itself a lemma (`ReplayExists` and what follows it); what it
does to all events follows from what it does to one by `Induction`, stated over a
set of numbers. For the runs, the proof is a simulation: what one recorder has (its runs
and its active run) is affected by its own events alone, a replay from the stored
rows takes over with the run a replay of the stored events ended with, and
backfill detection excludes every upload of an event that belongs before
one that may have opened or closed a run. `RunsMatch` has the hypothesis
`ImplicitRuns`, that contexts carry no `run_id`. It cannot be dropped: with
explicit runs the statement is false, which is the finding of `projections_appends`.

`InvestigationProofs` begins with the reader's invariant `ReaderInv` and that every step
preserves it, for every log, page size, alphabet and hash length. Its core is
`DoneTaken`: of the window, what is before the cursor, or at the boundary and under
no pending hash prefix, is exactly what is taken, up to entries that arrived
late; and `PrefixFree`: no body is asked for under two prefixes, so nothing is
counted twice. That a full page ends before its last timestamp needs a least
element of a set of times (`LeastNumber`, from the well-foundedness of the order on
the natural numbers). The module carries it over to the command and
proves `NothingMissed`, `NothingRepeated`, `NothingForeign` and `TiesRefusedRightly`;
for the bundle, `PublishInv` (what the names stand for at each step, now and after
a power loss, and what the clean-up is going to report) gives `ReportTruthful`, and
`ReadInv` (what is tallied is what the lines read so far hold, in files that only grow)
gives `PublishedWhole`.

The assumptions are those of the modules (`RecordsAssumption`, `BodyAssumption`,
`IngestAssumption`, `RetentionAssumption`, `TimeAssumption` and `ScanAssumption` of the
divergence modules, `IntakeAssumption`, `UploadsAssumption`, `ProjectionsAssumption`,
`TokensAssumption`, `UploadAssumption`, `AbsenceAssumption`, `EvidenceAssumption`,
`ReadsAssumption`, `FiltersAssumption`, `ReaderAssumption`, `InvestigationAssumption`);
TLC evaluates each in a run.

Every safety property of a passing run, and every action property, is stated by a theorem.
Only model-checked are the liveness properties (`EveryUploadSettles`,
`ExpiredEventuallyPruned`, `UploadsSettleBesidePruning`, `EveryRequestEnds`), because
fairness is beyond the prover, and what a property says of particular
values of the constants that a theorem excludes (none but `ImplicitRuns` and
`FallbacksApart`).

## 6. Not modelled

* HTML pages, timelines, explanations and the wording of payloads: read-only
  renderings of what the modelled operators return.
* Lookups across groups (messages, accounts) and the detail endpoints: single
  queries without pages of their own.
* Contents of leaf projections (relay URLs, branch candidates, rule evaluations):
  copied field by field from one event, with no other state involved.
* JSON Schema validation, hashing, encryption: a line has the sort it has, a hash
  is its key.
* The file's summary columns (`file_metadata`): minima, maxima and sorted sets of
  what the lines carry.
* Migrations, seed data, settings, benchmarks, templates.

## 7. Plan

Done: ingestion with its promise and proofs, record intake, the upload request with
its worker and tokens, divergence with proofs, projections, retention beside
ingestion, reads, exports and the purge of a group, the investigation from its
sources to its bundle.

The proofs cover every safety and action property of the passing runs (Section 5).

Possible next: runs with explicit ids in `Projections` once the finding is settled, and
the width of projection columns, which Section 3 mentions.
