SPECIFICATION RSpec
CONSTANTS
    a = a  b = b  c = c  x = x
    la = la  lb = lb  lu = lu  lc = lc  ld = ld
    e1 = e1  e2 = e2
    Workers = {w1}
    Files = {a, b, x}
    Valid = {a, b}
    Legacy = {}
    Lines = {la, lb, lu, lc, ld}
    FileLines <- MCFileLines
    Engines = {e1, e2}
    EngineOf <- MCEngineOf
    Groups = {1, 2}
    RefOf <- MCRefOf
    Slugs <- MCSlugs
    NoGroup = NoGroup
    NoFile = NoFile
    Free = Free
    Rebuilder = Rebuilder
    MaxFaults = 0
    MaxRebuilds = 0
    Pruners = {nightly}
    Scheduler = nightly
    BatchSize = 1
    MaxCrashes = 0
    Messages = {"m"}
    NoTime = NoTime
    TimeOf <- MCTimeOf
    MsgsOf <- MCMsgsOf
INVARIANTS RetainedRecordsStored
