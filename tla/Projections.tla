---------------------------- MODULE Projections ----------------------------
(***************************************************************************)
(* The derived rows of one group (forensics/projections.py): what an       *)
(* upload adds to them incrementally, and what a full rebuild makes of the *)
(* same evidence.                                                          *)
(*                                                                         *)
(* Events are numbered in projection order (wall time, engine, line), the  *)
(* order of both the incremental and the full replay; uploads may bring    *)
(* them in any order.  All "message" events name one message.              *)
(***************************************************************************)
EXTENDS Naturals, FiniteSets

CONSTANTS
    Recorders,     \* the engines
    MaxEvents,     \* bound on the evidence of the group
    Types,         \* the event types that occur
    Contexts,      \* the context_convergence values that occur
    Chronological, \* whether a recorder only ever appends to its own history
    NoRun

ASSUME ProjectionsAssumption ==
    /\ MaxEvents \in Nat
    /\ Types \subseteq {"run_state", "decision", "epoch_state", "message"}
    /\ Contexts \subseteq {"none", "bare", "run", "run-inferred"}
    /\ Chronological \in BOOLEAN
    /\ NoRun \notin Nat

VARIABLES
    log,         \* the recorders' evidence: event number -> event
    stored,      \* AuditEvent rows
    projections  \* the projection rows

projectionVars == <<log, stored, projections>>

\* What projection reads of an event: its recorder and type, the phase or state
\* it reports, and its convergence context (absent, without a run_id, or with
\* one and perhaps an explicit inferred flag).
\* A context without a run_id changes nothing for the convergence types, and a
\* decision is projected as a run_state that leaves its run open.
Phases == {"open", "terminal"}
Events ==
    {e \in [engine : Recorders, type : Types, phase : Phases, context : Contexts] :
        /\ e.type \in {"decision", "message"} => e.phase = "open"
        /\ e.type \in {"decision", "run_state"} => e.context # "bare"}

Explicit(e) == e.context \in {"run", "run-inferred"}

-----------------------------------------------------------------------------
(* Convergence runs; n is the event's place in projection order. *)

ConvergenceType(e) == e.type \in {"run_state", "decision"}

\* event_may_need_inferred_convergence_state
MayNeedInferredRun(e) == ConvergenceType(e) \/ e.type = "epoch_state" \/ e.context = "bare"

\* inferred_convergence_event_is_terminal
Terminal(e, phase) ==
    \/ e.type = "epoch_state" /\ e.phase = "terminal"
    \/ e.type = "run_state" /\ phase = "terminal"

\* update_run_from_event's phase: a decision selects or decides, a message that
\* merely carries a context reports none.
PhaseAfter(run, e) ==
    CASE e.type = "message" -> run.phase
      [] e.type = "decision" -> "open"
      [] OTHER -> e.phase

\* The row a run starts from: get_or_create by run_id, or an inferred run named
\* after the event that opened it.
NewRun(id, n, e) == [id |-> id, engine |-> e.engine, inferred |-> ~Explicit(e),
                     phase |-> "", started |-> n, ended |-> n, evidence |-> {}]

\* The run_id that contexts name, which no event number is.
ExplicitRun == 0

\* should_project_convergence
Converges(P, e) ==
    \/ ConvergenceType(e) \/ e.context # "none"
    \/ e.type = "epoch_state" /\ P.active[e.engine] # NoRun

RunId(P, n, e) ==
    IF Explicit(e) THEN ExplicitRun
    ELSE IF P.active[e.engine] # NoRun THEN P.active[e.engine] ELSE n

\* update_run_from_event, and the evidence link.
Updated(run, n, e) ==
    [run EXCEPT !.phase = PhaseAfter(run, e),
                !.inferred = IF e.context = "run-inferred" THEN TRUE ELSE @,
                !.started = IF n < @ THEN n ELSE @,
                !.ended = IF n > @ THEN n ELSE @,
                !.evidence = @ \cup {n}]

\* What project_convergence leaves as the recorder's active inferred run.
ActiveAfter(e, run) == IF Explicit(e) \/ Terminal(e, run.phase) THEN NoRun ELSE run.id

ProjectConvergence(P, n, e) ==
    LET id == RunId(P, n, e)
        mine == {r \in P.runs : r.id = id /\ r.engine = e.engine}
        run == Updated(IF mine = {} THEN NewRun(id, n, e) ELSE CHOOSE r \in mine : TRUE, n, e)
    IN  [P EXCEPT !.runs = (@ \ mine) \cup {run},
                  !.active[e.engine] = ActiveAfter(e, run)]

-----------------------------------------------------------------------------
(* Delivery *)

NotSeen == [first |-> 0, last |-> 0, latest |-> 0, evidence |-> {}]

\* Mutant: every event moves last_seen_ms.
SightedLast(seen, n) ==
    [first |-> IF seen.evidence = {} \/ n < seen.first THEN n ELSE seen.first,
     last |-> n, latest |-> n, evidence |-> seen.evidence \cup {n}]

\* artifact_for_message and project_delivery_observation: first and last seen
\* are a minimum and a maximum, latest_state is the state projected last.
Sighted(seen, n) ==
    [first |-> IF seen.evidence = {} \/ n < seen.first THEN n ELSE seen.first,
     last |-> IF n > seen.last THEN n ELSE seen.last,
     latest |-> n, evidence |-> seen.evidence \cup {n}]

ProjectDelivery(P, n, e) ==
    [P EXCEPT !.artifact = Sighted(@, n), !.observed[e.engine] = Sighted(@, n)]

\* project_event: every event also adds its own leaf rows (network observation,
\* state delta, epoch transition, recipient expectation).
ProjectEvent(P, n, e) ==
    LET D == IF e.type = "message" THEN ProjectDelivery(P, n, e) ELSE P
        C == IF Converges(D, e) THEN ProjectConvergence(D, n, e) ELSE D
    IN  [C EXCEPT !.leaves[n] = @ + 1]

Cleared == [runs |-> {}, active |-> [g \in Recorders |-> NoRun], artifact |-> NotSeen,
            observed |-> [g \in Recorders |-> NotSeen], leaves |-> [n \in 1..MaxEvents |-> 0]]

\* What the events E of a history up to the n-th make of P, in projection order
\* (the order_by of both replays).
Projected(P, history, E) ==
    LET after[n \in 0..MaxEvents] ==
            IF n = 0 THEN P
            ELSE IF n \in E THEN ProjectEvent(after[n - 1], n, history[n]) ELSE after[n - 1]
    IN  after

\* ProjectionState lives as long as one call: it is not part of the rows.
Replay(P, E) == [Projected(P, log, E)[MaxEvents] EXCEPT !.active = Cleared.active]

\* rebuild_locked_group_projections
Rebuilt(E) == Replay(Cleared, E)

-----------------------------------------------------------------------------
(* One upload *)

\* groups_with_out_of_order_convergence_backfill: an uploaded event that may
\* need an inferred run comes before a stored one of the same recorder.
Backfills(F) ==
    \E n \in F, m \in stored :
        /\ log[n].engine = log[m].engine /\ n < m
        /\ MayNeedInferredRun(log[n]) /\ MayNeedInferredRun(log[m])

Greatest(E) == CHOOSE n \in E : \A m \in E : m <= n

\* run_is_active_inferred: its last evidence in projection order is not terminal.
StillOpen(run) == ~Terminal(log[Greatest(run.evidence)], run.phase)

\* Mutant: an upload starts without knowing the open runs.
ActiveRunsForgotten(F) == [g \in Recorders |-> NoRun]

\* active_inferred_runs_for_events: of each recorder with such events, the
\* inferred run that started last, if it is still open.
ActiveRuns(F) ==
    [g \in Recorders |->
        LET inferred == {r \in projections.runs : r.engine = g /\ r.inferred}
            latest == CHOOSE r \in inferred : \A q \in inferred : q.started <= r.started
        IN  IF /\ \E n \in F : log[n].engine = g /\ MayNeedInferredRun(log[n])
               /\ inferred # {} /\ StillOpen(latest)
            THEN latest.id ELSE NoRun]

\* Mutant: after a rebuild the file's own events are projected again.
UploadProjectsTwice(F) ==
    /\ F # {} /\ F \subseteq (DOMAIN log) \ stored
    /\ \A m, n \in F : log[m].engine = log[n].engine
    /\ stored' = stored \cup F
    /\ projections' = IF Backfills(F) THEN Replay(Rebuilt(stored \cup F), F)
                      ELSE Replay([projections EXCEPT !.active = ActiveRuns(F)], F)
    /\ UNCHANGED log

\* rebuild_file_projections for an accepted file with new events F.
Upload(F) ==
    /\ F # {} /\ F \subseteq (DOMAIN log) \ stored
    /\ \A m, n \in F : log[m].engine = log[n].engine
    /\ Chronological => \A n \in F, m \in stored : log[m].engine = log[n].engine => m < n
    /\ stored' = stored \cup F
    /\ projections' = IF Backfills(F) THEN Rebuilt(stored \cup F)
                      ELSE Replay([projections EXCEPT !.active = ActiveRuns(F)], F)
    /\ UNCHANGED log

\* Every evidence of at most MaxEvents events.
ProjectionsInit ==
    /\ log \in UNION {[1..n -> Events] : n \in 0..MaxEvents}
    /\ stored = {}
    /\ projections = Cleared

ProjectionsNext == \E F \in SUBSET DOMAIN log : Upload(F)

ProjectionsSpec == ProjectionsInit /\ [][ProjectionsNext]_projectionVars

-----------------------------------------------------------------------------
(* Properties *)

\* "Real same-engine historical backfills retain full replay": however a
\* recorder's segments arrive, the convergence runs are those of a rebuild from
\* the same evidence (stitching across uploads, backfill detection).
RunsMatchRebuild == projections.runs = Rebuilt(stored).runs

\* Delivery projections do not depend on the order of uploads: what was seen,
\* when it was first and last seen, and by whom, is what a rebuild gives.
SightingsMatchRebuild ==
    LET Sighting(s) == <<s.first, s.last, s.evidence>> IN
    /\ Sighting(projections.artifact) = Sighting(Rebuilt(stored).artifact)
    /\ \A g \in Recorders :
        Sighting(projections.observed[g]) = Sighting(Rebuilt(stored).observed[g])

\* "each stored AuditEvent is projected exactly once across uploads": no
\* event's leaf rows are missing or doubled, replays included.
EachEventProjectedOnce ==
    \A n \in 1..MaxEvents : projections.leaves[n] = IF n \in stored THEN 1 ELSE 0

\* "appending new evidence to existing rows needs no full clear": after every
\* upload the rows are, latest states included, those of a rebuild from the same
\* evidence (rebuild_file_projections).
IncrementalMatchesRebuild == projections = Rebuilt(stored)
=============================================================================
