SPECIFICATION Spec
CONSTANTS
    a = a  b = b  c = c  x = x
    la = la  lb = lb  lc = lc  ld = ld  lx = lx
    e1 = e1  e2 = e2
    Workers = {w1, w2}
    Files = {a, b, c}
    Valid = {a, b, c}
    Legacy = {}
    Lines = {la, lb, lc, ld}
    FileLines <- MCFileLines
    Engines = {e1, e2}
    EngineOf <- MCEngineOf
    Groups = {1, 3}
    RefOf <- MCRefOf
    Slugs <- MCSlugs
    NoGroup = NoGroup
    NoFile = NoFile
    Free = Free
    Rebuilder = Rebuilder
    MaxFaults = 1
    MaxRebuilds = 1
INVARIANTS IngestInv CanonicalLines AcceptedLinesStored DuplicateCountExact ViewsCurrent
    NoTraceOfFailedUploads NeverWaitsForHash NoWaitCycle
PROPERTIES ImplementsArchive
SYMMETRY WorkerSymmetry
