---------------------------- MODULE AuditRecords ----------------------------
(***************************************************************************)
(* Request bodies, the records in them, and the event rows stored for      *)
(* them: the data the ingestion, retention and archive modules share.      *)
(*                                                                         *)
(* A file is an immutable body, so its identity stands for its SHA-256.  A *)
(* line stands for its line_hash: two files share a line when they contain *)
(* the same record text, and the text carries the engine that recorded it. *)
(***************************************************************************)
EXTENDS Naturals, Sequences, FiniteSets

CONSTANTS
    Files,      \* distinct request bodies
    Valid,      \* the bodies validate_upload accepts today
    Legacy,     \* bodies stored by a release that accepted an older schema
    Lines,      \* distinct record texts
    FileLines,  \* the records of each body, in file order
    Engines,    \* recorders
    EngineOf,   \* the engine_id a record carries
    Groups,     \* group rows that may exist, numbered in key order
    RefOf,      \* the group a record's own group_ref resolves to, or NoGroup
    Slugs,      \* groups a request may name as its fallback
    NoGroup

LinesIn(f) == {FileLines[f][i] : i \in DOMAIN FileLines[f]}

\* has_inconsistent_identity: an accepted body speaks for one engine, so its
\* first record names the recorder that begin_ingestion locks.
Recorder(f) == EngineOf[FileLines[f][1]]

ASSUME RecordsAssumption ==
    /\ Valid \subseteq Files /\ Legacy \subseteq Files \ Valid
    /\ FileLines \in [Files -> Seq(Lines)]
    /\ EngineOf \in [Lines -> Engines]
    /\ Groups \subseteq Nat /\ NoGroup \notin Groups
    /\ RefOf \in [Lines -> Groups \cup {NoGroup}]
    /\ Slugs \subseteq Groups \cup {NoGroup}

\* What validate_upload establishes of an accepted body, and the one thing
\* assumed of an older release's rows: their records cannot be today's.
ASSUME BodyAssumption ==
    /\ \A f \in Valid : FileLines[f] # <<>>
    /\ \A f \in Valid : \A l \in LinesIn(f) : EngineOf[l] = Recorder(f)
    /\ \A f \in Legacy : /\ \A g \in Files \ {f} : LinesIn(f) \cap LinesIn(g) = {}
                         /\ \A l \in LinesIn(f) : RefOf[l] = NoGroup
                         /\ \A i, j \in DOMAIN FileLines[f] :
                                FileLines[f][i] = FileLines[f][j] => i = j

-----------------------------------------------------------------------------
Event == [file : Files, no : Nat, group : Groups \cup {NoGroup}]
Line(e) == FileLines[e.file][e.no]
InGroup(E, g) == {e \in E : e.group = g}

\* group_key_for_parsed_line: the record's own reference, else the fallback.
KeyOf(l, s) == IF RefOf[l] # NoGroup THEN RefOf[l] ELSE s

\* The groups of every record, the ones that turn out to be duplicates too.
GroupsOf(f, s) == {KeyOf(l, s) : l \in LinesIn(f)} \ {NoGroup}

\* Mutant: groups are created as the records name them.
FileOrder(f, s, g, h) ==
    LET first(k) == {i \in DOMAIN FileLines[f] : KeyOf(FileLines[f][i], s) = k}
    IN  \A j \in first(h) : \E i \in first(g) : i <= j

\* groups_for_parsed_lines creates in sorted key order: every reference
\* before the fallback slug, references by their value.
ResolveOrder(f, s, g, h) ==
    LET refs == {RefOf[l] : l \in LinesIn(f)}
    IN  IF (g \in refs) = (h \in refs) THEN g <= h ELSE g \in refs

\* Mutant: a record is remembered before it is compared with what was seen.
NewEventsOffByOne(f, s, seen) ==
    {[file |-> f, no |-> i, group |-> KeyOf(FileLines[f][i], s)] :
        i \in {j \in DOMAIN FileLines[f] :
                  /\ FileLines[f][j] \notin seen
                  /\ \A k \in 2..j : FileLines[f][k] # FileLines[f][j]}}

\* duplicate_event_exists and remember_duplicate_event: the first occurrence
\* of every record that was not stored before.
NewEvents(f, s, seen) ==
    {[file |-> f, no |-> i, group |-> KeyOf(FileLines[f][i], s)] :
        i \in {j \in DOMAIN FileLines[f] :
                  /\ FileLines[f][j] \notin seen
                  /\ \A k \in 1..(j - 1) : FileLines[f][k] # FileLines[f][j]}}

\* Mutant: a record repeated inside one body is not counted.
SkippedLinesAcrossFiles(f, new) ==
    {i \in DOMAIN FileLines[f] : \A e \in new : Line(e) # FileLines[f][i]}

\* The records of a body that create_events skips.
SkippedLines(f, new) == {i \in DOMAIN FileLines[f] : \A e \in new : e.no # i}

NoEvents == [g \in Groups |-> {}]

LegacyEvents == UNION {NewEvents(f, NoGroup, {}) : f \in Legacy}

=============================================================================
