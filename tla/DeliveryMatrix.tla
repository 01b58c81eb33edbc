--------------------------- MODULE DeliveryMatrix ---------------------------
(***************************************************************************)
(* What the delivery pages derive from a group's evidence: the sightings   *)
(* of an artifact, the recipients its senders expected, the status of each *)
(* expected recipient and the cell of each engine.                         *)
(***************************************************************************)
EXTENDS Integers, FiniteSets, FiniteSetsExt

CONSTANTS
    Events, \* the valid events that may be in the group
    None    \* an empty column or an absent value

\* An event, as far as these pages read it.  id stands for the order of wall
\* time, engine and line; key for the public key of a legacy recorder.
EventOK(e) ==
    /\ e.id \in Nat /\ {e.time, e.msg, e.epoch} \subseteq Nat \cup {None}
    /\ e.sev \in {"info", "warning", "error"}
    /\ e.expects # None =>
        /\ IsFiniteSet(e.expects.members) /\ IsFiniteSet(e.expects.keys)
        /\ e.expects.count \in Nat \cup {None}

\* Every recorder names its engine.  The account is optional, may be missing from
\* some of a recorder's events and may change from file to file.
ASSUME EvidenceAssumption ==
    /\ IsFiniteSet(Events)
    /\ \A e \in Events : EventOK(e) /\ e.engine # None
    /\ \A d, e \in Events : d.id = e.id => d = e

Times(E) == {e.time : e \in E} \ {None}

\* The events that name artifact m.
Naming(E, m) == {e \in E : e.msg = m}
Artifacts(E) == {e.msg : e \in E} \ {None}

\* DeliveryArtifact.first_seen_ms and last_seen_ms.
first_seen(E, m) == IF Times(Naming(E, m)) = {} THEN None ELSE Min(Times(Naming(E, m)))
last_seen(E, m) == IF Times(Naming(E, m)) = {} THEN None ELSE Max(Times(Naming(E, m)))

-----------------------------------------------------------------------------
(* The table of DeliveryObservation: rows [msg, engine, account, latest], one  *)
(* per artifact and engine, account None while the column is empty.            *)

Reports(E, m, n) == {e \in Naming(E, m) : e.engine = n}

FirstOf(S) == CHOOSE e \in S : \A d \in S : e.id <= d.id
LastOf(S) == CHOOSE e \in S : \A d \in S : d.id <= e.id

RowOf(D, m, n) == {o \in D : o.msg = m /\ o.engine = n}
WithAccount(E) == {e \in E : e.account # None}
Accounts(D) == {o.account : o \in D} \ {None}

\* The state an observation shows: that of the event projected last.
LatestState(D, N, m, n) ==
    IF Reports(N, m, n) # {} THEN LastOf(Reports(N, m, n)).sev
    ELSE (CHOOSE o \in RowOf(D, m, n) : TRUE).latest

\* Mutant: the account is given when the row is created, and never filled in.
AccountAtCreation(D, N, m, n) ==
    IF RowOf(D, m, n) # {} THEN (CHOOSE o \in RowOf(D, m, n) : TRUE).account
    ELSE FirstOf(Reports(N, m, n)).account

\* Mutant: every event sets it, to nothing when it has none.
AccountOverwritten(D, N, m, n) ==
    IF Reports(N, m, n) # {} THEN LastOf(Reports(N, m, n)).account
    ELSE (CHOOSE o \in RowOf(D, m, n) : TRUE).account

\* The account of an observation: the first one it was given, whatever its later
\* events carry.
AccountRef(D, N, m, n) ==
    LET given == WithAccount(Reports(N, m, n))
        kept == Accounts(RowOf(D, m, n))
    IN IF kept # {} THEN CHOOSE a \in kept : TRUE
       ELSE IF given # {} THEN FirstOf(given).account ELSE None

Sightings(D, N) ==
    {<<o.msg, o.engine>> : o \in D} \cup {<<e.msg, e.engine>> : e \in {d \in N : d.msg # None}}

\* project_delivery_observation for the events N, in the order of projection, on
\* the rows D.
project_delivery_observations(D, N) ==
    {[msg |-> k[1], engine |-> k[2], account |-> AccountRef(D, N, k[1], k[2]),
      latest |-> LatestState(D, N, k[1], k[2])] : k \in Sightings(D, N)}

\* groups_with_out_of_order_convergence_backfill: the upload N of a group that
\* has the events E.
ConvergenceTypes == {"convergence", "transition"}
Backfills(E, N) ==
    \E e \in N, d \in E : /\ {d.type, e.type} \subseteq ConvergenceTypes
                          /\ d.engine = e.engine /\ e.id < d.id

\* project_file_events: a backfill replays the group, other uploads add to it.
ObservationsAfter(D, E, N) ==
    IF Backfills(E, N) THEN project_delivery_observations({}, E \cup N)
    ELSE project_delivery_observations(D, N)

\* observation_identity_values: what the observations of an artifact are matched
\* by, the account of the row and the keys of its evidence.
engine_observations(E, D, m) ==
    {[engine |-> o.engine, account_refs |-> {o.account} \ {None},
      pubkeys |-> {e.key : e \in Reports(E, m, o.engine)} \ {None}, latest |-> o.latest] :
        o \in {o \in D : o.msg = m}}

recipient_expectations(E, m) == {e \in Naming(E, m) : e.expects # None}

delivery_identity_index(E) ==
    [account_refs |-> {e.account : e \in E} \ {None},
     pubkeys |-> {e.key : e \in E} \ {None}]

-----------------------------------------------------------------------------
(* delivery_recipient_matrix *)

expectation_identity_rows(x) ==
    [type : {"member_ref"}, id : x.members] \cup [type : {"pubkey_hex"}, id : x.keys]

observation_matches_expected(o, r) ==
    \/ r.type = "member_ref" /\ r.id \in o.account_refs
    \/ r.type = "pubkey_hex" /\ r.id \in o.pubkeys

observation_matches_expectation_source(o, e) ==
    o.engine = e.engine \/ e.account \in o.account_refs \/ e.key \in o.pubkeys

\* A count alone is met by every engine but, for the others' scopes, the sender's.
count_only_recipient_observations(e, O) ==
    {o \in O : ~(e.expects.others /\ observation_matches_expectation_source(o, e))}

count_only_expectation_status(expected, observed) ==
    CASE observed < expected -> IF observed = 0 THEN "missing_count_inferred"
                                ELSE "partial_count_inferred"
      [] observed = expected -> "expected_count_satisfied"
      [] observed > expected -> "observed_count_exceeds_expected"

delivery_expected_status(r, matched, index) ==
    IF matched # {} THEN "observed"
    ELSE IF r.id \in (IF r.type = "member_ref" THEN index.account_refs ELSE index.pubkeys)
         THEN "missing_inferred"
    ELSE "unobserved_no_uploaded_engine"

CountOnly(e) == expectation_identity_rows(e.expects) = {} /\ e.expects.count # None

Matching(r, O) == {o \in O : observation_matches_expected(o, r)}

\* The rows of one expectation.
ExpectationRows(e, O, index) ==
    IF CountOnly(e)
    THEN LET counted == count_only_recipient_observations(e, O) IN
         {[by |-> e.id, type |-> "count_only", id |-> None, seen |-> counted,
           status |-> count_only_expectation_status(e.expects.count, Cardinality(counted))]}
    ELSE {[by |-> e.id, type |-> r.type, id |-> r.id, seen |-> Matching(r, O),
           status |-> delivery_expected_status(r, Matching(r, O), index)] :
              r \in expectation_identity_rows(e.expects)}

\* The matrix of artifact m: the expected recipients, then the engines that saw
\* it although nobody expected them to.
delivery_recipient_matrix(E, D, m, index) ==
    LET O == engine_observations(E, D, m)
        expected == UNION {ExpectationRows(e, O, index) : e \in recipient_expectations(E, m)}
    IN expected \cup
       {[by |-> None, type |-> "engine", id |-> o.engine, seen |-> {o},
         status |-> "observed_not_expected"] : o \in O \ UNION {r.seen : r \in expected}}

-----------------------------------------------------------------------------
(* delivery_engine_cells *)

MissingStatuses == {"missing_inferred", "partial_count_inferred", "missing_count_inferred"}

\* group_engine_rows and legacy_engine_pubkeys: an engine's identities.
EngineIdentities(E, n) ==
    [account_refs |-> {e.account : e \in {d \in E : d.engine = n}} \ {None},
     pubkeys |-> {e.key : e \in {d \in E : d.engine = n}} \ {None}]

delivery_engine_matches_recipient(identities, r) ==
    \/ r.type = "member_ref" /\ r.id \in identities.account_refs
    \/ r.type = "pubkey_hex" /\ r.id \in identities.pubkeys

\* The statuses the cell of engine n may show.
delivery_engine_cell(E, D, m, n, matrix) ==
    IF \E o \in engine_observations(E, D, m) : o.engine = n THEN {"observed"}
    ELSE LET missing == {r.status : r \in {r \in matrix :
                            /\ r.status \in MissingStatuses
                            /\ delivery_engine_matches_recipient(EngineIdentities(E, n), r)}}
         IN IF missing = {} THEN {"not_observed"} ELSE missing

-----------------------------------------------------------------------------
(* delivery_payload_severity *)

WarningStatuses == {"missing_inferred", "missing_count_inferred", "partial_count_inferred",
                    "observed_count_exceeds_expected", "unobserved_no_uploaded_engine"}

Worst(severities) == IF "error" \in severities THEN "error"
                     ELSE IF "warning" \in severities THEN "warning" ELSE "info"

delivery_payload_severity(E, D, m, matrix) ==
    IF \E r \in matrix : r.status \in WarningStatuses THEN "warning"
    ELSE Worst({o.latest : o \in engine_observations(E, D, m)})
=============================================================================
