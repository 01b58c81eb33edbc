----------------------------- MODULE Divergence -----------------------------
(***************************************************************************)
(* The divergence verdict on a group's messages (forensics/analysis.py),   *)
(* as the group's detail page computes it from traces of all its events.   *)
(*                                                                         *)
(* A row is what the computation reads of a valid AuditEvent.  The v4      *)
(* schema makes engine_id mandatory, so the branches that skip an event    *)
(* without one are not reached by accepted evidence and are left out.      *)
(***************************************************************************)
EXTENDS Naturals, FiniteSets

CONSTANTS
    Engines,   \* recorders
    Messages,  \* message ids an event may name (msg_id, outbound, welcome...)
    NoTime     \* an event without wall_time_ms

ASSUME TimeAssumption == NoTime \notin Nat

Row == [engine : Engines, at : Nat \cup {NoTime}, msgs : SUBSET Messages]

-----------------------------------------------------------------------------
\* The wall times of a set of rows; those without one cannot be placed.
Times(R) == {r.at : r \in R} \ {NoTime}
Earliest(T) == CHOOSE t \in T : \A u \in T : t <= u
Latest(T) == CHOOSE t \in T : \A u \in T : u <= t

By(R, e) == {r \in R : r.engine = e}
Naming(R, m) == {r \in R : m \in r.msgs}

\* engine_windows: the span of wall times an engine emitted, if any.
NoWindow == [lo |-> NoTime, hi |-> NoTime]
Window(R, e) ==
    LET T == Times(By(R, e))
    IN  IF T = {} THEN NoWindow ELSE [lo |-> Earliest(T), hi |-> Latest(T)]
engine_windows(R) == [e \in Engines |-> Window(R, e)]

\* engines_present_but_missing: active when the message first appeared, and
\* holding no event for it.
engines_present_but_missing(observers, reference, windows, engines) ==
    IF reference = NoTime THEN {}
    ELSE {e \in engines \ observers :
             /\ windows[e] # NoWindow
             /\ windows[e].lo <= reference /\ reference <= windows[e].hi}

\* is_divergent_message: somebody saw it and somebody in scope did not.
is_divergent_message(observed, inScope) == observed # {} /\ inScope \ observed # {}

-----------------------------------------------------------------------------
(* message_traces_from_events: one message at a time, over all its events *)

AllEngines(R) == {r.engine : r \in R}
Observers(R, m) == {r.engine : r \in Naming(R, m)}
Reference(R, m) ==
    LET T == Times(Naming(R, m)) IN IF T = {} THEN NoTime ELSE Earliest(T)
MissedBy(R, m) ==
    engines_present_but_missing(Observers(R, m), Reference(R, m),
                                engine_windows(R), AllEngines(R))

\* missing_observations_for_group: the messages whose trace is divergent.
DivergentMessages(R) ==
    {m \in UNION {r.msgs : r \in R} :
        is_divergent_message(Observers(R, m), Observers(R, m) \cup MissedBy(R, m))}

\* group_integrity_summary's divergent_message_count.
DivergentCount(R) == Cardinality(DivergentMessages(R))
=============================================================================
