------------------------------ MODULE Archive ------------------------------
(***************************************************************************)
(* What ingestion promises its clients, without requests, transactions or  *)
(* locks: a set of accepted files, the canonical evidence they contributed *)
(* and, for every group, derived views that always reflect that evidence.  *)
(***************************************************************************)
EXTENDS AuditRecords

VARIABLES
    accepted,   \* files the archive holds
    evidence,   \* canonical events
    workspaces, \* group workspaces that exist
    views,      \* per group: what its projections show
    counts,     \* per group: what its divergence count covers
    told        \* per file: the final answer its client was given

vars == <<accepted, evidence, workspaces, views, counts, told>>

Init ==
    /\ accepted = Legacy
    /\ evidence = LegacyEvents
    /\ workspaces = {}
    /\ views = NoEvents /\ counts = NoEvents
    /\ told = [f \in Files |-> "none"]

\* A valid file enters the archive whole: its first-seen records become
\* evidence, its groups exist, and their views show all of their evidence.
Accept(f, s) ==
    /\ f \in Valid \ accepted
    /\ accepted' = accepted \cup {f}
    /\ evidence' = evidence \cup NewEvents(f, s, {Line(e) : e \in evidence})
    /\ workspaces' = workspaces \cup GroupsOf(f, s)
    /\ views' = [g \in Groups |-> InGroup(evidence', g)]
    /\ counts' = [g \in Groups |-> InGroup(evidence', g)]
    /\ UNCHANGED told

\* A final answer is given, and it is true.
Tell(f) ==
    /\ \/ f \in accepted \cap Valid /\ told' = [told EXCEPT ![f] = "stored"]
       \/ f \notin Valid /\ told' = [told EXCEPT ![f] = "refused"]
    /\ UNCHANGED <<accepted, evidence, workspaces, views, counts>>

Next == \E f \in Files : Tell(f) \/ \E s \in Slugs : Accept(f, s)

Spec == Init /\ [][Next]_vars
=============================================================================
