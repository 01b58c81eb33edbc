SPECIFICATION MCSpec
CONSTANTS
    HashLen = 2
    Sessions = {1, 2}
    GroupScope = GroupScope
    Elsewhere = Elsewhere
    NoSession = NoSession
    From = 0
    To = 4
    Cutoff = 1
    PageSize = 2
    MaxQueries = 12
    MaxRecords = 4
    MaxLate = 1
    Torn = Torn
    Blank = Blank
    Bad = Bad
    MaxSourceLines = 4
    MaxBundle = 3
    MaxWritten = 1
    Sources <- MCSources
    Alphabet <- MCAlphabet
    Bodies <- MCBodies
    ScopeOf <- MCScopeOf
    SessionOf <- MCSessionOf
    Entries <- MCEntries
    e1 = e1  e2 = e2  e3 = e3
    None = None
    Events <- MCEvents
    Files = {a, b}
    Limits = {1, 2}
    Filters <- MCFilters
    MaxActionEvents = 2
    MaxEvents = 3
    MaxExported = 2
    MaxChanges = 2
INVARIANTS
    NothingMissed NothingRepeated NothingForeign TiesRefusedRightly PublishedWhole ReportTruthful
    PagesExact ExportExact MissingMeansUnseen NothingStranded
PROPERTIES UploadsNeverHide
