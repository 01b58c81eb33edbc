--------------------------- MODULE Investigation ----------------------------
(***************************************************************************)
(* The investigation command (investigation_cli.py): it reads evidence     *)
(* from Loki (module LokiReader) or from JSONL files that a recorder may   *)
(* still be writing, summarises it, and publishes it as one private file   *)
(* (investigation_bundle.py) in a directory that other runs publish to     *)
(* under the same name.  File operations fail, the process is killed and   *)
(* the machine loses power anywhere.                                       *)
(***************************************************************************)
EXTENDS LokiReader

CONSTANTS
    Sources,          \* the JSONL files a run may be given, each a sequence of lines
    Torn, Blank, Bad, \* a line not ended yet, an empty one, an invalid record
    MaxSourceLines,   \* MAX_SOURCE_BYTES, in lines
    MaxBundle,        \* MAX_BUNDLE_BYTES, in bodies
    MaxWritten        \* bound on what the recorder writes during a run

ASSUME InvestigationAssumption ==
    /\ {Torn, Blank, Bad} \cap Bodies = {}
    /\ Sources \subseteq Seq(Seq(Bodies \cup {Torn, Blank, Bad}))
    /\ {MaxSourceLines, MaxBundle, MaxWritten} \subseteq Nat

VARIABLES
    step,     \* where the command is
    report,   \* what it printed, or will print when its clean-up succeeds
    files,    \* the JSONL files, <<>> when the source is Loki
    given,    \* the files as they were when the command started
    place,    \* the next line to read: file, line, and lines read
    evidence, \* Evidence.occurrences
    dir,      \* the names "target" and "temp" of the directory
    disk,     \* what of dir would survive a power loss
    bundle,   \* the content of the file the command writes
    synced,   \* whether that content would survive
    theirs    \* another run has published, and not withdrawn

cli == <<step, report, files, given, place, evidence, dir, disk, bundle, synced, theirs>>
everything == <<lokiVars, cli>>

Absent == "absent"
NoEvidence == [b \in Bodies |-> 0]
Partial == [whole |-> FALSE, holds |-> NoEvidence]
Read(E) == {b \in Bodies : E[b] > 0}

\* Evidence.selected: the group's records and the groupless context of their
\* complete sessions.
GroupRows(E) == {b \in Read(E) : ScopeOf[b] = GroupScope}
complete_sessions(E) == {SessionOf[b] : b \in GroupRows(E)} \ {NoSession}
selected(E) == GroupRows(E) \cup {b \in Read(E) : ScopeOf[b] \in complete_sessions(E)}

InvestigationInit ==
    /\ LokiInit
    /\ step = "validate" /\ report = "none"
    /\ files \in Sources \cup {<<>>} /\ (files # <<>> => loki = {})
    /\ given = files /\ place = [file |-> 1, line |-> 1, total |-> 0]
    /\ evidence = NoEvidence
    /\ dir \in [{"target", "temp"} -> {Absent, "other"}] /\ dir["temp"] = Absent
    /\ disk = dir /\ bundle = Partial /\ synced = FALSE
    /\ theirs = (dir["target"] = "other")

-----------------------------------------------------------------------------
(* main: the arguments are sound and a bundle is asked for *)

Goto(s) == step' = s
Exit(r) == step' = "exited" /\ report' = r

\* validate_bundle_target, before anything is read.
Validate ==
    /\ step = "validate"
    /\ IF dir["target"] # Absent THEN Exit("incomplete")
       ELSE Goto(IF files = <<>> THEN "loki" ELSE "jsonl") /\ UNCHANGED report
    /\ UNCHANGED <<lokiVars, files, given, place, evidence, dir, disk, bundle, synced, theirs>>

ReadLoki ==
    /\ step = "loki" /\ stage \in {"page", "tie"}
    /\ Reader \/ \E e \in Entries : Arrive(e)
    /\ UNCHANGED cli

\* The reader ends; of it the summary and the evidence are kept.
LokiRead ==
    /\ step = "loki" /\ stage \in {"complete", "incomplete"}
    /\ IF stage = "complete"
       THEN /\ Goto("write") /\ UNCHANGED report
            /\ evidence' = [b \in Bodies |->
                    Cardinality({e \in Entries : e.body = b /\ taken[e] > 0})]
       ELSE Exit("incomplete") /\ UNCHANGED evidence
    /\ loki' = {} /\ before' = {} /\ taken' = [e \in Entries |-> 0]
    /\ cursor' = Start /\ boundary' = Start /\ pending' = <<>> /\ queries' = 0
    /\ scope' = GroupScope /\ todo' = {} /\ stage' = "complete" /\ why' = ""
    /\ UNCHANGED <<files, given, place, dir, disk, bundle, synced, theirs>>

-----------------------------------------------------------------------------
(* read_jsonl *)

AtEnd == place.file <= Len(files) /\ place.line > Len(files[place.file])

\* One readline and Evidence.add, or the reason to give up.
ReadLine ==
    /\ step = "jsonl" /\ place.file <= Len(files) /\ ~AtEnd
    /\ LET line == files[place.file][place.line]
           more == IF line \in Bodies THEN [evidence EXCEPT ![line] = @ + 1] ELSE evidence
       IN IF \/ line \in {Torn, Bad} \/ place.total >= MaxSourceLines
             \/ Cardinality(Read(more)) > MaxRecords
          THEN Exit("incomplete") /\ UNCHANGED <<place, evidence>>
          ELSE /\ place' = [place EXCEPT !.line = @ + 1, !.total = @ + 1]
               /\ evidence' = more
               /\ UNCHANGED <<step, report>>
    /\ UNCHANGED <<lokiVars, files, given, dir, disk, bundle, synced, theirs>>

\* After the last file, the summary.  That it gives up when a record the code takes
\* for valid cannot be normalised (normalization_rejected) is left out.
NextFile ==
    /\ step = "jsonl" /\ AtEnd
    /\ place' = [place EXCEPT !.file = @ + 1, !.line = 1]
    /\ IF place.file = Len(files) THEN Goto("write") ELSE UNCHANGED step
    /\ UNCHANGED <<lokiVars, report, files, given, evidence, dir, disk, bundle, synced, theirs>>

\* A file cannot be opened or read.
ReadFails ==
    /\ step = "jsonl"
    /\ Exit("incomplete")
    /\ UNCHANGED <<lokiVars, files, given, place, evidence, dir, disk, bundle, synced, theirs>>

Lines(fs) == UNION {{i} \X (1..Len(fs[i])) : i \in 1..Len(fs)}

\* The recorder ends the line it was writing, or begins another.
Written(lines, b) ==
    IF lines # <<>> /\ lines[Len(lines)] = Torn
    THEN [lines EXCEPT ![Len(lines)] = b]
    ELSE Append(lines, Torn)

RecorderWrites(i, b) ==
    /\ step = "jsonl" /\ i \in 1..Len(files)
    /\ Cardinality(Lines(files)) < Cardinality(Lines(given)) + MaxWritten
    /\ files' = [files EXCEPT ![i] = Written(@, b)]
    /\ UNCHANGED <<lokiVars, step, report, given, place, evidence, dir, disk, bundle, synced, theirs>>

-----------------------------------------------------------------------------
(* write_bundle.  A step that fails goes to the handler the code has for it. *)

Writing(from) == step = from /\ UNCHANGED <<lokiVars, files, given, place, evidence, theirs>>

CreateTemp ==
    /\ Writing("write")
    /\ \/ dir["target"] # Absent /\ Exit("not written") /\ UNCHANGED dir
       \/ dir["target"] = Absent /\ Exit("not written") /\ UNCHANGED dir \* mkstemp fails
       \/ dir["target"] = Absent /\ Goto("emit") /\ UNCHANGED report
          /\ dir' = [dir EXCEPT !["temp"] = "mine"]
    /\ UNCHANGED <<disk, bundle, synced>>

\* The handlers of a failure: the temporary file goes, and nothing is written.
Abandon == Goto("cleanup") /\ report' = "not written"

Emit ==
    /\ Writing("emit")
    /\ \/ /\ Cardinality(selected(evidence)) <= MaxBundle
          /\ bundle' = [whole |-> TRUE, holds |-> [b \in Bodies |->
                IF b \in selected(evidence) THEN evidence[b] ELSE 0]]
          /\ Goto("fsync") /\ UNCHANGED report
       \/ Abandon /\ UNCHANGED bundle
    /\ UNCHANGED <<dir, disk, synced>>

\* Mutant: the stream is closed without fsync.
CloseOnly ==
    /\ Writing("fsync")
    /\ Goto("link")
    /\ UNCHANGED <<report, dir, disk, bundle, synced>>

Fsync ==
    /\ Writing("fsync")
    /\ \/ synced' = TRUE /\ Goto("link") /\ UNCHANGED report
       \/ Abandon /\ UNCHANGED synced
    /\ UNCHANGED <<dir, disk, bundle>>

\* os.link never replaces a name.
Link ==
    /\ Writing("link")
    /\ \/ dir["target"] = Absent /\ dir' = [dir EXCEPT !["target"] = "mine"]
          /\ Goto("sync") /\ UNCHANGED report
       \/ Abandon /\ UNCHANGED dir
    /\ UNCHANGED <<disk, bundle, synced>>

\* _sync_directory: when it fails, the names may or may not have reached the disk.
SyncOrElse(Synced, Failed) ==
    \/ disk' = dir /\ Synced
    \/ disk' \in {d \in [{"target", "temp"} -> {Absent, "mine", "other"}] :
                    \A n \in {"target", "temp"} : d[n] \in {disk[n], dir[n]}} /\ Failed

SyncTarget ==
    /\ Writing("sync")
    /\ SyncOrElse(Goto("cleanup") /\ report' = "written", Goto("rollback") /\ UNCHANGED report)
    /\ UNCHANGED <<dir, bundle, synced>>

Unlink(name) == dir' = [dir EXCEPT ![name] = Absent]

Uncertain == Goto("cleanup") /\ report' = "uncertain"

\* Mutant: a bundle that cannot be synced is reported and left where it is.
LeaveTarget ==
    /\ Writing("rollback")
    /\ Abandon
    /\ UNCHANGED <<dir, disk, bundle, synced>>

Rollback ==
    /\ Writing("rollback")
    /\ \/ Unlink("target") /\ Goto("rollback sync") /\ UNCHANGED report
       \/ Uncertain /\ UNCHANGED dir
    /\ UNCHANGED <<disk, bundle, synced>>

SyncRollback ==
    /\ Writing("rollback sync")
    /\ SyncOrElse(Abandon, Uncertain)
    /\ UNCHANGED <<dir, bundle, synced>>

CleanUp ==
    /\ Writing("cleanup")
    /\ \/ Unlink("temp") /\ Goto("cleanup sync") /\ UNCHANGED report
       \/ Exit("uncertain") /\ UNCHANGED dir
    /\ UNCHANGED <<disk, bundle, synced>>

SyncCleanUp ==
    /\ Writing("cleanup sync")
    /\ SyncOrElse(Exit(report), Exit("uncertain"))
    /\ UNCHANGED <<dir, bundle, synced>>

-----------------------------------------------------------------------------
(* The surroundings *)

OtherPublishes ==
    /\ step \notin {"validate", "loki", "jsonl", "off"} /\ dir["target"] = Absent
    /\ dir' = [dir EXCEPT !["target"] = "other"] /\ theirs' = TRUE
    /\ UNCHANGED <<lokiVars, step, report, files, given, place, evidence, disk, bundle, synced>>

OtherWithdraws ==
    /\ step # "off" /\ dir["target"] = "other" /\ step \notin {"validate", "loki", "jsonl"}
    /\ Unlink("target") /\ theirs' = FALSE
    /\ UNCHANGED <<lokiVars, step, report, files, given, place, evidence, disk, bundle, synced>>

Killed ==
    /\ step \notin {"validate", "loki", "jsonl", "exited", "off"}
    /\ Goto("exited")
    /\ report' = "none"
    /\ UNCHANGED <<lokiVars, files, given, place, evidence, dir, disk, bundle, synced, theirs>>

\* What had not reached the disk is lost, in whole or in part.
PowerLoss ==
    /\ step \notin {"validate", "loki", "jsonl", "off"}
    /\ Goto("off")
    /\ disk' \in {d \in [{"target", "temp"} -> {Absent, "mine", "other"}] :
                    \A n \in {"target", "temp"} : d[n] \in {disk[n], dir[n]}}
    /\ dir' = disk'
    /\ bundle' \in (IF synced THEN {bundle} ELSE {bundle, Partial})
    /\ theirs' = (theirs /\ dir'["target"] = "other")
    /\ report' = IF step = "exited" THEN report ELSE "none"
    /\ UNCHANGED <<lokiVars, files, given, place, evidence, synced>>

\* The machine is off.
Ended == step = "off" /\ UNCHANGED everything

InvestigationNext ==
    \/ Validate \/ ReadLoki \/ LokiRead
    \/ ReadLine \/ NextFile \/ ReadFails \/ (\E i \in 1..Len(files), b \in Bodies : RecorderWrites(i, b))
    \/ CreateTemp \/ Emit \/ Fsync \/ Link \/ SyncTarget
    \/ Rollback \/ SyncRollback \/ CleanUp \/ SyncCleanUp
    \/ OtherPublishes \/ OtherWithdraws \/ Killed \/ PowerLoss \/ Ended

InvestigationSpec == InvestigationInit /\ [][InvestigationNext]_everything

-----------------------------------------------------------------------------
Count(fs, b) == Cardinality({l \in Lines(fs) : fs[l[1]][l[2]] = b})

\* The name of a bundle only ever stands for a whole one, after a power loss too,
\* and never takes another run's place (write_bundle: "Publish a complete bundle
\* once, without replacing an existing path").  Whole means every record of the
\* group, and of its sessions' context, that the files held when the command
\* started, as often as they held it, and nothing they never held (read_jsonl).
PublishedWhole ==
    /\ theirs => dir["target"] = "other"
    /\ dir["target"] = "mine" =>
        /\ bundle.whole
        /\ files # <<>> => \A b \in Bodies :
            \/ Count(given, b) <= bundle.holds[b] /\ bundle.holds[b] <= Count(files, b)
            \/ /\ bundle.holds[b] = 0 /\ ScopeOf[b] # GroupScope
               /\ \A c \in Read(bundle.holds) : ScopeOf[c] = GroupScope => SessionOf[c] # ScopeOf[b]

\* What the command prints is true and stays true: after "written" the bundle is
\* there, also after a power loss, and after "not written" neither it nor its
\* temporary file is there or comes back (main, write_bundle's handlers).
ReportTruthful ==
    step \in {"exited", "off"} =>
        /\ report = "written" => dir["target"] = "mine" /\ disk["target"] = "mine" /\ synced
        /\ report \in {"written", "not written"} => dir["temp"] = Absent /\ disk["temp"] = Absent
        /\ report = "not written" => dir["target"] # "mine" /\ disk["target"] # "mine"
=============================================================================
