SPECIFICATION FairSpec
CONSTANTS
    a = a  b = b  c = c  x = x
    la = la  lb = lb  lc = lc  ld = ld  lx = lx
    e1 = e1  e2 = e2
    Workers = {w1, w2}
    Files = {a, c, x}
    Valid = {a, c}
    Legacy = {x}
    Lines = {la, lb, lc, ld, lx}
    FileLines <- MCFileLines
    Engines = {e1, e2}
    EngineOf <- MCEngineOf
    Groups = {1, 3}
    RefOf <- MCRefOf
    Slugs <- MCOneSlug
    NoGroup = NoGroup
    NoFile = NoFile
    Free = Free
    Rebuilder = Rebuilder
    MaxFaults = 2
    MaxRebuilds = 1
INVARIANTS AnswersTruthful
PROPERTIES EveryUploadSettles
