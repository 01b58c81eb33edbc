SPECIFICATION ProjectionsSpec
CONSTANTS
    Recorders = {e1}
    Types = {"run_state", "decision", "epoch_state", "message"}
    MaxEvents = 3
    Contexts = {"none", "run"}
    Chronological = TRUE
    NoRun = NoRun
INVARIANTS IncrementalMatchesRebuild
CHECK_DEADLOCK FALSE
