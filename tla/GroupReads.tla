----------------------------- MODULE GroupReads -----------------------------
(***************************************************************************)
(* A group as API clients read it: filtered pages that a client walks,     *)
(* action attribution over a bounded window, and the NDJSON export, which  *)
(* reads section after section while uploads, the pruner and the purge     *)
(* command change the group.                                               *)
(***************************************************************************)
EXTENDS DeliveryMatrix, Sequences, SequencesExt

CONSTANTS
    Files,
    Limits,           \* page sizes a client asks for
    MaxActionEvents,  \* GOGGLES_MAX_ACTION_EVENTS_PER_REQUEST
    Filters,          \* the filters it asks with
    MaxEvents,        \* bound on the events of the group
    MaxExported,      \* bound on the events while an export runs
    MaxChanges        \* bound on the uploads, prunes and switches of a behaviour

ASSUME ReadsAssumption ==
    /\ None \notin Files
    /\ Limits \subseteq Nat \ {0}
    /\ {MaxActionEvents, MaxEvents, MaxExported, MaxChanges} \subseteq Nat
    /\ \A d, e \in Events : d.id < e.id =>
        e.time = None \/ (d.time # None /\ d.time <= e.time)

VARIABLES
    contents,     \* the valid events of each file
    stored,       \* the files that are committed
    projected,    \* the events the group's projections were built from
    observations, \* the group's DeliveryObservation rows
    stranded,     \* events whose group was deleted
    inflight,     \* a file whose upload has not committed yet
    uploads,      \* GOGGLES_UPLOADS_ENABLED
    purging,      \* the files a purge under way has deleted, or None
    walk,         \* a client's walk through the pages of a section
    export,       \* an export under way, or finished
    changes

groupVars == <<contents, stored, projected, observations, stranded, inflight, uploads, purging>>
vars == <<groupVars, walk, export, changes>>

Stored0(c) == UNION {c[f] : f \in Files}
Stored(F) == UNION {contents[f] : f \in F}
Group == Stored(stored) \ stranded

\* order_by: the sequence of the elements of S, by a relation that orders them.
InOrder(S, before) ==
    CHOOSE s \in [1..Cardinality(S) -> S] :
        \A i, j \in 1..Cardinality(S) : i < j => <<s[i], s[j]>> \in before

\* The rows of a sequence that are wanted, in its order.
Selected(s, wanted) ==
    LET at == {i \in 1..Len(s) : s[i] \in wanted}
        kept == InOrder(at, {p \in at \X at : p[1] < p[2]})
    IN [i \in 1..Cardinality(at) |-> s[kept[i]]]

\* order_by("wall_time_ms", ..., "id"): ids here follow the wall times, and the
\* engine that breaks ties before the id is left out.
ById(S) == InOrder(S, {p \in S \X S : p[1].id < p[2].id})

-----------------------------------------------------------------------------
(* Filters.  An absent filter is None; audit_data_mode behaves like          *)
(* account_ref and is left out.                                              *)

default_api_filters ==
    [engine |-> None, account |-> None, message |-> None, type |-> None, epoch |-> None,
     from |-> None, to |-> None, severity |-> None]

ASSUME FiltersAssumption == \A f \in Filters : DOMAIN f = DOMAIN default_api_filters

Given(want, have) == want = None \/ want = have

\* A comparison with a column that is NULL is not true.
Since(from, t) == from = None \/ (t # None /\ t >= from)
Until(to, t) == to = None \/ (t # None /\ t <= to)

InWindow(e, f) == Since(f.from, e.time) /\ Until(f.to, e.time)
Subject(e, f) == Given(f.engine, e.engine) /\ Given(f.account, e.account)

NetworkTypes == {"publish", "receipt"}

filtered_network_observations(E, f) ==
    {e \in E : /\ e.type \in NetworkTypes
               /\ Subject(e, f) /\ Given(f.message, e.msg) /\ Given(f.type, e.type)
               /\ InWindow(e, f)}

filtered_state_deltas(E, f) ==
    {e \in E : /\ e.type = "delta"
               /\ Subject(e, f) /\ Given(f.message, e.msg) /\ Given(f.epoch, e.epoch)
               /\ Given(f.type, e.type) /\ InWindow(e, f)}

filtered_epoch_transitions(E, f) ==
    {e \in E : /\ e.type = "transition"
               /\ Subject(e, f) /\ Given(f.message, e.msg) /\ Given(f.epoch, e.epoch)
               /\ Given(f.type, e.type) /\ InWindow(e, f)}

filtered_audit_data_mode_changes(E, f) ==
    {e \in E : e.type = "mode" /\ Subject(e, f) /\ Given(f.type, "mode") /\ InWindow(e, f)}

filtered_evidence_events(E, f) ==
    {e \in E : /\ Subject(e, f) /\ Given(f.message, e.msg) /\ Given(f.epoch, e.epoch)
               /\ Given(f.type, e.type) /\ InWindow(e, f)}

filtered_action_events(E, f) ==
    {e \in E : /\ e.action # None
               /\ Subject(e, f) /\ Given(f.type, e.type) /\ Given(f.epoch, e.epoch)
               /\ InWindow(e, f)}

\* Each multi-valued filter joins the artifact with its observations or its
\* evidence: the rows of the join for artifact m.
Joins(E, D, m, f) ==
    {j \in [o : engine_observations(E, D, m), a : engine_observations(E, D, m), e : Naming(E, m)] :
        /\ IF f.engine = None THEN j.o = CHOOSE o \in engine_observations(E, D, m) : TRUE
           ELSE j.o.engine = f.engine
        /\ IF f.account = None THEN j.a = CHOOSE o \in engine_observations(E, D, m) : TRUE
           ELSE f.account \in j.a.account_refs
        /\ IF f.type = None THEN j.e = CHOOSE e \in Naming(E, m) : TRUE
           ELSE j.e.type = f.type}

WantedArtifacts(E, D, f) ==
    {m \in Artifacts(E) : /\ Joins(E, D, m, f) # {}
                          /\ Given(f.message, m)
                          /\ Since(f.from, last_seen(E, m)) /\ Until(f.to, first_seen(E, m))}

\* first_seen_ms, with NULL last, then artifact_id.
Earlier(s, t) == s # None /\ (t = None \/ s < t)
ArtifactOrder(E, S) ==
    InOrder(S, {p \in S \X S : \/ Earlier(first_seen(E, p[1]), first_seen(E, p[2]))
                               \/ first_seen(E, p[1]) = first_seen(E, p[2]) /\ p[1] < p[2]})

\* Mutant: the joined rows without DISTINCT.
ArtifactsJoined(E, D, f) ==
    LET s == ArtifactOrder(E, WantedArtifacts(E, D, f)) IN
    FlattenSeq([i \in 1..Len(s) |->
        [j \in 1..Cardinality(Joins(E, D, s[i], f)) |-> s[i]]])

filtered_delivery_artifacts(E, D, f) == ArtifactOrder(E, WantedArtifacts(E, D, f))

\* A run here is the convergence evidence of one engine; how evidence becomes
\* runs is the subject of module Projections.
Runs(E) == {{e \in E : e.type = "convergence" /\ e.engine = n} : n \in {e.engine : e \in E}} \ {{}}

filtered_convergence_runs(E, f) ==
    {r \in Runs(E) :
        /\ \A e \in r : Subject(e, f)
        /\ \E e \in r : Given(f.epoch, e.epoch)
        /\ \E e \in r : Given(f.type, e.type)
        /\ Since(f.from, IF Times(r) = {} THEN None ELSE Max(Times(r)))
        /\ Until(f.to, IF Times(r) = {} THEN None ELSE Min(Times(r)))}

convergence_payload_matches_filters(r, f) == \E e \in r : Given(f.message, e.msg)

FirstId(S) == Min({e.id : e \in S})
ByFirstId(G) == InOrder(G, {p \in G \X G : FirstId(p[1]) < FirstId(p[2])})

-----------------------------------------------------------------------------
(* Action attribution *)

\* The newest events of a bounded window; without wall time counts as newest.
action_window(E, f) ==
    LET A == filtered_action_events(E, f) IN
    {e \in A : Cardinality({d \in A : d.id > e.id}) < MaxActionEvents}

scan_truncated(E, f) == Cardinality(filtered_action_events(E, f)) > MaxActionEvents

\* Events of one operation form a group, an event without one its own.
human_action_groups(A) ==
    {{d \in A : IF e.op # None THEN d.op = e.op ELSE d = e} : e \in A}

\* The origin of the first event that has one.
action_attribution_kind(g) ==
    LET known == {e \in g : e.origin # None} IN
    IF known = {} THEN "other"
    ELSE LET first == CHOOSE e \in known : \A d \in known : e.id <= d.id IN
         CASE first.origin = "local_user" -> "user"
           [] first.origin = "system" -> "system"
           [] OTHER -> "other"

GroupSeverity(g) == Worst({e.sev : e \in g})

action_groups_for_api(E, f, kind) ==
    LET A == {e \in action_window(E, f) : Given(f.message, e.msg)} IN
    ByFirstId({g \in human_action_groups(A) : /\ Given(f.severity, GroupSeverity(g))
                                              /\ action_attribution_kind(g) = kind})

-----------------------------------------------------------------------------
(* The rows of each section, in its order, and their severity *)

ActionKinds == {"user", "system", "other"}
Sections == {"delivery", "network", "convergence", "state", "transition", "mode", "evidence"}
            \cup ActionKinds

\* A NULL epoch sorts last.
ByEpoch(S) ==
    InOrder(S, {p \in S \X S : \/ Earlier(p[1].epoch, p[2].epoch)
                               \/ p[1].epoch = p[2].epoch /\ p[1].id < p[2].id})

api_group_state(E, f) == ByEpoch(filtered_state_deltas(E, f))

api_group_convergence_runs(E, f) ==
    ByFirstId({r \in filtered_convergence_runs(E, f) : convergence_payload_matches_filters(r, f)})

api_group_network(E, f) == ById(filtered_network_observations(E, f))

api_group_evidence(E, f) == ById(filtered_evidence_events(E, f))

\* group_projection_payload has all but the evidence; the endpoints one each.
Rows(E, D, s, f) ==
    CASE s = "delivery" -> filtered_delivery_artifacts(E, D, f)
      [] s = "network" -> api_group_network(E, f)
      [] s = "convergence" -> api_group_convergence_runs(E, f)
      [] s = "state" -> api_group_state(E, f)
      [] s = "transition" -> ById(filtered_epoch_transitions(E, f))
      [] s = "mode" -> ById(filtered_audit_data_mode_changes(E, f))
      [] s = "evidence" -> api_group_evidence(E, f)
      [] s \in ActionKinds -> action_groups_for_api(E, f, s)

Severity(E, D, s, row) ==
    CASE s = "delivery" ->
            delivery_payload_severity(E, D, row,
                delivery_recipient_matrix(E, D, row, delivery_identity_index(E)))
      [] s = "convergence" \/ s \in ActionKinds -> GroupSeverity(row)
      [] OTHER -> row.sev

\* paginated_payloads and attribution_pagination_payload: the severity filter is
\* applied to payloads, before the offset is counted.
Payloads(E, D, s, f) ==
    LET rows == Rows(E, D, s, f) IN
    Selected(rows, {r \in ToSet(rows) : Given(f.severity, Severity(E, D, s, r))})

paginated_payloads(E, D, s, f, limit, offset) ==
    LET rows == Payloads(E, D, s, f)
    IN [page |-> SubSeq(rows, offset + 1, Min({Len(rows), offset + limit})),
        more |-> Len(rows) > offset + limit \/ (s \in ActionKinds /\ scan_truncated(E, f))]

-----------------------------------------------------------------------------
(* A client walks the pages of a section: while has_more says so it asks for   *)
(* the next page, at the next_offset of the last one.  Nothing is promised of  *)
(* a walk while the group changes, so it does not.                             *)

NoWalk == [section |-> None, filter |-> default_api_filters, limit |-> 1,
           offset |-> 0, got |-> <<>>, more |-> TRUE, empty |-> FALSE]

StartWalk ==
    /\ changes = 0 /\ export.stage = "off" /\ walk = NoWalk /\ stored = Files
    /\ \E s \in Sections, f \in Filters, limit \in Limits :
        walk' = [NoWalk EXCEPT !.section = s, !.filter = f, !.limit = limit]
    /\ UNCHANGED <<groupVars, export, changes>>

\* empty records, for the properties alone, that the last page had no row.
NextPage ==
    /\ walk.section # None /\ walk.more
    /\ LET p == paginated_payloads(Group, observations, walk.section, walk.filter,
                                   walk.limit, walk.offset) IN
        walk' = [walk EXCEPT !.got = @ \o p.page, !.offset = @ + Len(p.page),
                             !.more = p.more, !.empty = p.page = <<>>]
    /\ UNCHANGED <<groupVars, export, changes>>

-----------------------------------------------------------------------------
(* stream_ndjson *)

ExportSections == <<"source", "event", "delivery_artifact", "network_observation",
                    "convergence_run", "state_delta", "epoch_state_transition",
                    "audit_data_mode_change">>
RecordTypes == {ExportSections[i] : i \in 1..Len(ExportSections)}

\* The rows of a section when the files st are stored and the projections come
\* from the events pr: rows of single events go with their event, artifacts and
\* runs stay until a rebuild.
ExportRows(st, pr, t) ==
    LET G == Stored(st) \ stranded
        f == default_api_filters IN
    CASE t = "source" -> st
      [] t = "event" -> G
      [] t = "delivery_artifact" -> Artifacts(pr)
      [] t = "network_observation" -> filtered_network_observations(pr \cap G, f)
      [] t = "convergence_run" -> {FirstId(r) : r \in Runs(pr)}
      [] t = "state_delta" -> filtered_state_deltas(pr \cap G, f)
      [] t = "epoch_state_transition" -> filtered_epoch_transitions(pr \cap G, f)
      [] t = "audit_data_mode_change" -> filtered_audit_data_mode_changes(G, f)

NoExport == [stage |-> "off", section |-> 0, cursor |-> {}, lines |-> <<>>, counts |-> <<>>,
             always |-> [t \in RecordTypes |-> {}], ever |-> [t \in RecordTypes |-> {}]]

\* The manifest; always and ever follow, for the properties alone, the rows that
\* stay from here to the end and those that are there at some time.
StartExport ==
    /\ export.stage = "off" /\ walk = NoWalk
    /\ Cardinality(Stored0(contents)) <= MaxExported
    /\ LET now == [t \in RecordTypes |-> ExportRows(stored, projected, t)] IN
        export' = [NoExport EXCEPT !.stage = "rows", !.always = now, !.ever = now]
    /\ UNCHANGED <<groupVars, walk, changes>>

\* A section's query sees the database as it is when the query starts.
OpenSection ==
    /\ export.stage = "rows" /\ export.cursor = {} /\ export.section < Len(ExportSections)
    /\ export' = [export EXCEPT
            !.section = @ + 1,
            !.cursor = ExportRows(stored, projected, ExportSections[export.section + 1]),
            !.counts = Append(@, 0)]
    /\ UNCHANGED <<groupVars, walk, changes>>

EmitRow ==
    /\ export.stage = "rows" /\ export.cursor # {}
    /\ LET row == CHOOSE r \in export.cursor : TRUE IN
        export' = [export EXCEPT !.cursor = @ \ {row},
                                 !.lines = Append(@, <<ExportSections[export.section], row>>),
                                 !.counts = [export.counts EXCEPT ![export.section] = @ + 1]]
    /\ UNCHANGED <<groupVars, walk, changes>>

Eof ==
    /\ export.stage = "rows" /\ export.cursor = {} /\ export.section = Len(ExportSections)
    /\ export' = [export EXCEPT !.stage = "eof"]
    /\ UNCHANGED <<groupVars, walk, changes>>

\* Mutant: a failing section ends the stream like a complete one.
ExportFailsQuietly ==
    /\ export.stage = "rows"
    /\ export' = [export EXCEPT !.stage = "eof"]
    /\ UNCHANGED <<groupVars, walk, changes>>

\* A query or a payload raises: the error line, after what was sent before.
ExportFails ==
    /\ export.stage = "rows"
    /\ export' = [NoExport EXCEPT !.stage = "error", !.lines = export.lines]
    /\ UNCHANGED <<groupVars, walk, changes>>

-----------------------------------------------------------------------------
(* What changes the group meanwhile; what happens after an export is over is a  *)
(* behaviour without one.                                                       *)

Busy == walk = NoWalk /\ export.stage \notin {"eof", "error"}

\* The database goes on with files st, projections of the events pr and the
\* observations D.
Changed(st, pr, D) ==
    /\ Busy
    /\ stored' = st /\ projected' = pr /\ observations' = D
    /\ export' = IF export.stage = "off" THEN export
                 ELSE [export EXCEPT
                        !.always = [t \in RecordTypes |-> export.always[t] \cap ExportRows(st, pr, t)],
                        !.ever = [t \in RecordTypes |-> export.ever[t] \cup ExportRows(st, pr, t)]]
    /\ UNCHANGED <<contents, uploads, walk>>

Change == changes < MaxChanges /\ changes' = changes + 1

\* Only v4 files are taken; the legacy recorders' are there from before.
Uploadable(f) == f \notin stored /\ \A e \in contents[f] : e.key = None

\* Mutant: uploads are taken although they are switched off.
BeginUploadAnyway(f) ==
    /\ Change /\ Busy
    /\ inflight = None /\ Uploadable(f)
    /\ inflight' = f
    /\ UNCHANGED <<contents, stored, projected, observations, stranded, uploads, purging, walk, export>>

BeginUpload(f) ==
    /\ Change /\ Busy
    /\ uploads /\ inflight = None /\ Uploadable(f)
    /\ inflight' = f
    /\ UNCHANGED <<contents, stored, projected, observations, stranded, uploads, purging, walk, export>>

CommitUpload ==
    /\ inflight # None
    /\ LET N == contents[inflight] IN
        Changed(stored \cup {inflight},
                (IF Backfills(Group, N) THEN Group ELSE projected) \cup N,
                ObservationsAfter(observations, Group, N))
    /\ inflight' = None
    /\ UNCHANGED <<stranded, purging, changes>>

\* The pruner deletes a file and, later, rebuilds the group.
Prune(f) ==
    /\ Change
    /\ f \in stored
    /\ Changed(stored \ {f}, projected, observations)
    /\ UNCHANGED <<stranded, inflight, purging>>

\* The pruner's rebuild, or the management command's; only one that changes
\* something is a step.
Rebuild ==
    LET replayed == project_delivery_observations({}, Group) IN
    /\ projected # Group \/ observations # replayed
    /\ Changed(stored, Group, replayed)
    /\ UNCHANGED <<stranded, inflight, purging, changes>>

\* The operator sets GOGGLES_UPLOADS_ENABLED, and leaves it alone during a purge.
SwitchUploads ==
    /\ Change /\ Busy /\ purging = None
    /\ uploads' = ~uploads
    /\ UNCHANGED <<contents, stored, projected, observations, stranded, inflight, purging, walk, export>>

\* The purge, one transaction: it deletes the files it sees, which takes their
\* events, and then the groups, which takes the projections and leaves the events
\* of any other file without a group.  The command checks neither the switch nor
\* for running uploads: that uploads are off and have ended is the procedure of
\* docs/deployment.md, which the operator follows here.
PurgeFiles ==
    /\ Busy /\ purging = None
    /\ ~uploads /\ inflight = None /\ stored # {}
    /\ purging' = stored
    /\ UNCHANGED <<contents, stored, projected, observations, stranded, inflight, uploads, walk, export, changes>>

PurgeGroups ==
    /\ purging # None
    /\ Changed(stored \ purging, {}, {})
    /\ stranded' = Stored(stored \ purging)
    /\ purging' = None
    /\ UNCHANGED <<inflight, changes>>

-----------------------------------------------------------------------------
\* A file of this model stands for files of several recorders that arrive
\* together; the events of a recorder in one file have one account, or none
\* (has_inconsistent_identity).
Consistent(E) ==
    \A d, e \in WithAccount(E) : d.engine = e.engine => d.account = e.account

\* The group was rebuilt from some of its files, and a later upload, if any, has
\* been added since.
Init ==
    /\ contents \in {c \in [Files -> SUBSET Events] :
                        /\ \A f, g \in Files : f # g => c[f] \cap c[g] = {}
                        /\ \A f \in Files : Consistent(c[f])
                        /\ Cardinality(Stored0(c)) <= MaxEvents}
    /\ stored \in SUBSET Files
    /\ stranded = {} /\ projected = Group
    /\ \E late \in {{}} \cup {{f} : f \in stored} :
        LET before == Stored(stored \ late) IN
        observations = ObservationsAfter(project_delivery_observations({}, before), before, Stored(late))
    /\ purging = None /\ inflight = None /\ uploads = TRUE
    /\ walk = NoWalk /\ export = NoExport
    /\ changes = 0

Next ==
    \/ StartWalk \/ NextPage
    \/ StartExport \/ OpenSection \/ EmitRow \/ Eof \/ ExportFails
    \/ \E f \in Files : BeginUpload(f) \/ Prune(f)
    \/ CommitUpload \/ Rebuild \/ SwitchUploads \/ PurgeFiles \/ PurgeGroups

Spec == Init /\ [][Next]_vars

-----------------------------------------------------------------------------
(* What readers may rely on *)

\* A client that follows the pages of a section gets every row that matches its
\* filters exactly once, in the section's order, by the time that no more is
\* announced or that a page comes back empty (paginated_payloads): the joins of
\* multi-valued filters repeat nothing, and a severity that is only known once the
\* payload is built neither shifts the offset nor ends the walk early.  The rows
\* of an action section are those of the window of the newest events, which is
\* all that attribution reads and what scan_truncated discloses.
PagesExact ==
    ~walk.more \/ walk.empty =>
        LET E == Group
            D == observations
            wanted(r) == Given(walk.filter.severity, Severity(E, D, walk.section, r))
            rows == Rows(E, D, walk.section, [walk.filter EXCEPT !.severity = None])
        IN /\ IsInjective(walk.got)
           /\ ToSet(walk.got) = {r \in ToSet(rows) : wanted(r)}
           /\ \A i, j \in 1..Len(walk.got) : i < j =>
                \E k, l \in 1..Len(rows) : k < l /\ rows[k] = walk.got[i] /\ rows[l] = walk.got[j]

\* "pages must now follow has_more and advance offset": a page that announces more
\* has a row, so that its next_offset is beyond its offset and a client that
\* follows has_more ends (attribution_pagination_payload).
MoreMeansRows == walk.more => ~walk.empty

\* An export that ends with eof holds every row that was there from beginning to
\* end exactly once, no row that never was, and the counts it states
\* (stream_ndjson), whatever was uploaded, pruned or purged meanwhile.
ExportExact ==
    export.stage = "eof" =>
        /\ IsInjective(export.lines)
        /\ \A t \in RecordTypes :
            LET got == {export.lines[i][2] : i \in {i \in 1..Len(export.lines) : export.lines[i][1] = t}} IN
            export.always[t] \subseteq got /\ got \subseteq export.ever[t]
        /\ export.counts = [i \in 1..Len(ExportSections) |->
            Cardinality({j \in 1..Len(export.lines) : export.lines[j][1] = ExportSections[i]})]

Matrix(E, D, m) == delivery_recipient_matrix(E, D, m, delivery_identity_index(E))

\* Event e was recorded under the identity of recipient r.
Under(e, r) == IF r.type = "member_ref" THEN e.account = r.id ELSE e.key = r.id

\* The rows of the delivery page agree with its cells and with the evidence, in
\* whatever order that was uploaded, pruned and rebuilt: of a recipient inferred to
\* be missing, an engine that never reported the artifact shows that something is
\* missing, and one that shows it observed has not reported it under the
\* recipient's identity, or has done so only beside another account, which the
\* observation then has (project_delivery_observation, delivery_recipient_matrix,
\* delivery_engine_cells).
MissingMeansUnseen ==
    \A m \in Artifacts(Group) :
        LET matrix == Matrix(Group, observations, m) IN
        \A r \in matrix : r.status = "missing_inferred" =>
            \A n \in {e.engine : e \in Group} :
                delivery_engine_matches_recipient(EngineIdentities(Group, n), r) =>
                    LET cell == delivery_engine_cell(Group, observations, m, n, matrix)
                        reports == Reports(projected, m, n)
                    IN IF reports = {} THEN cell \subseteq MissingStatuses
                       ELSE /\ cell = {"observed"}
                            /\ \/ \A e \in Reports(Group, m, n) : ~Under(e, r)
                               \/ /\ r.type = "member_ref"
                                  /\ \E e \in reports : e.account \notin {None, r.id}

\* Engine n is no longer among those that row r of artifact m has seen, because
\* the upload N to the evidence E has shown that it is the sender's, by account or
\* key, or, in a backfill, that it has first reported the artifact for another.
Reattributed(E, N, m, r, n) ==
    LET reports == Reports(E \cup N, m, n) IN
    \/ /\ r.type = "count_only"
       /\ \E s \in E, e \in reports : /\ s.id = r.by
                                      /\ \/ e.account = s.account /\ s.account # None
                                         \/ e.key = s.key /\ s.key # None
    \/ /\ r.type = "member_ref" /\ Backfills(E, N)
       /\ \E e \in reports : e.account \notin {None, r.id}

Satisfied == {"observed", "expected_count_satisfied", "observed_count_exceeds_expected"}

\* Row q says no less than row r did, the upload N to the evidence E apart.
SaysNoLess(E, N, m, r, q) ==
    LET lost == {o.engine : o \in r.seen} \ {o.engine : o \in q.seen} IN
    /\ q.by = r.by /\ q.type = r.type /\ q.id = r.id
    /\ \A n \in lost : Reattributed(E, N, m, r, n)
    /\ r.status \in Satisfied /\ q.status \notin Satisfied => lost # {}

\* An upload adds evidence and hides none: an expected recipient that was observed
\* and a count that was met stay so, unless an engine they rest on turns out to be
\* the sender's or, in a backfill, to have reported for another account first
\* (project_delivery_observation, observation_matches_expectation_source).
UploadsNeverHide ==
    [][CommitUpload /\ projected = Group =>
        \A m \in Artifacts(Group) : \A r \in Matrix(Group, observations, m) :
            r.type # "engine" =>
                \E q \in Matrix(Group', observations', m) :
                    SaysNoLess(Group, contents[inflight], m, r, q)]_vars

\* A purge for which the operator has switched uploads off and waited for the
\* running ones leaves no event behind without a group, whatever was uploaded and
\* pruned before (purge_audit_data, and the switch api_audit_log_upload looks at).
NothingStranded == stranded = {}
=============================================================================
