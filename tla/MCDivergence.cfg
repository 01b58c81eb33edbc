SPECIFICATION MCSpec
CONSTANTS
    Engines = {e1, e2}
    Messages = {m1, m2}
    GroupIds = {g1, g2}
    NoTime = NoTime
    MaxRows = 3
    MaxTime = 2
    Recorders = {r1, r2}
    Types = {"run_state", "epoch_state", "message"}
    MaxEvents = 4
    Contexts = {"none", "bare"}
    Chronological = FALSE
    NoRun = NoRun
INVARIANTS ScanInv Parity RunsMatchRebuild SightingsMatchRebuild EachEventProjectedOnce
PROPERTIES StoredCount
SYMMETRY Renaming
