------------------------------ MODULE MCReads -------------------------------
(* Small instances of Investigation and GroupReads for TLC, side by side in    *)
(* one run: one reader acts, and the other is where it started.                *)
EXTENDS MCInvestigation, MCGroupReads

VARIABLE reader \* "evidence" or "group"

allVars == <<everything, vars, reader>>

\* A group without files, and an investigation that has nothing to read.
NoFiles == contents = [f \in Files |-> {}] /\ stored = {} /\ Init
NoSource ==
    /\ loki = {} /\ files = <<>> /\ dir = [n \in {"target", "temp"} |-> Absent]
    /\ InvestigationInit

MCInit ==
    \/ reader = "evidence" /\ NoFiles /\ InvestigationInit
    \/ reader = "group" /\ NoSource /\ Init

\* The command goes on to its end, and so does an export; nothing else has to go on.
Stops == reader = "group" /\ export.stage # "rows" /\ UNCHANGED allVars

MCNext ==
    \/ reader = "evidence" /\ InvestigationNext /\ UNCHANGED <<vars, reader>>
    \/ reader = "group" /\ Next /\ UNCHANGED <<everything, reader>>
    \/ Stops

MCSpec == MCInit /\ [][MCNext]_allVars
=============================================================================
