---------------------------- MODULE MCDivergence ----------------------------
(* Small instances of DivergenceScan and, beside it in the same run, of        *)
(* Projections for TLC, the two things derived from the stored events: they    *)
(* share no state.                                                             *)
EXTENDS DivergenceScan, Projections, TLC

\* Engines and messages are only compared for equality, groups too.
Renaming ==
    UNION {Permutations(S) : S \in {Engines, Messages, GroupIds, Recorders}}

\* One history of rows is scanned, or one group's evidence is uploaded.
NoEvidence == log = <<>> /\ stored = {} /\ projections = Cleared

MCInit == (Init /\ NoEvidence) \/ (Start({}) /\ ProjectionsInit)

MCNext == (Next /\ UNCHANGED projectionVars) \/ (ProjectionsNext /\ UNCHANGED vars)

MCSpec == MCInit /\ [][MCNext]_<<vars, projectionVars>>
=============================================================================
