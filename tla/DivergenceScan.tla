--------------------------- MODULE DivergenceScan ---------------------------
(***************************************************************************)
(* divergent_counts_for_group_ids (forensics/analysis.py): the aggregation *)
(* that refreshes the persisted landing-page counts.  It reads the rows of *)
(* several groups in one pass, in whatever order the database returns them *)
(* (the query has no ORDER BY), and keeps running sets, windows and first  *)
(* sightings instead of the events themselves.                             *)
(***************************************************************************)
EXTENDS Divergence

CONSTANTS GroupIds, MaxRows, MaxTime

ASSUME ScanAssumption == MaxRows \in Nat /\ MaxTime \in Nat

\* Rows of events, with the group they are in and an identity of their own.
GroupRow == [id : Nat, group : GroupIds, engine : Engines,
             at : Nat \cup {NoTime}, msgs : SUBSET Messages]

VARIABLES
    rows,       \* the valid events of the groups, when the query ran
    left,       \* rows not yet fetched
    engines,    \* engines_by_group
    windows,    \* windows_by_group
    observers,  \* message_engines_by_group
    references, \* message_reference_by_group
    counts      \* group -> divergent count, once computed

vars == <<rows, left, engines, windows, observers, references, counts>>

NoCounts == [g \in GroupIds |-> 0]

TypeOK ==
    /\ rows \subseteq GroupRow /\ left \subseteq rows
    /\ engines \in [GroupIds -> SUBSET Engines]
    /\ windows \in [GroupIds -> [Engines -> [lo : Nat \cup {NoTime}, hi : Nat \cup {NoTime}]]]
    /\ observers \in [GroupIds -> [Messages -> SUBSET Engines]]
    /\ references \in [GroupIds -> [Messages -> Nat \cup {NoTime}]]
    /\ DOMAIN counts = GroupIds

\* Every history of at most MaxRows events; MaxTime bounds their wall times.
Histories ==
    UNION {[1..n -> [group : GroupIds, engine : Engines,
                     at : 0..MaxTime \cup {NoTime}, msgs : SUBSET Messages]] :
           n \in 0..MaxRows}

Start(R) ==
    /\ rows = R /\ left = R
    /\ engines = [g \in GroupIds |-> {}]
    /\ windows = [g \in GroupIds |-> [e \in Engines |-> NoWindow]]
    /\ observers = [g \in GroupIds |-> [m \in Messages |-> {}]]
    /\ references = [g \in GroupIds |-> [m \in Messages |-> NoTime]]
    /\ counts = NoCounts

Init ==
    \E h \in Histories :
        Start({[id |-> i, group |-> h[i].group, engine |-> h[i].engine,
                at |-> h[i].at, msgs |-> h[i].msgs] : i \in DOMAIN h})

-----------------------------------------------------------------------------
\* Mutant: a window grows at one end only, as if rows came in time order.
WidenInOrder(w, t) ==
    IF t = NoTime THEN w
    ELSE IF w = NoWindow THEN [lo |-> t, hi |-> t]
    ELSE [w EXCEPT !.hi = t]

\* windows.get(engine, (t, t)), widened to hold t.
Widen(w, t) ==
    IF t = NoTime THEN w
    ELSE IF w = NoWindow THEN [lo |-> t, hi |-> t]
    ELSE [lo |-> IF t < w.lo THEN t ELSE w.lo, hi |-> IF w.hi < t THEN t ELSE w.hi]

\* Mutant: the sighting fetched last wins.
LastFetched(ref, t) == IF t = NoTime THEN ref ELSE t

\* The earlier of a first sighting so far, if any, and a wall time, if any.
Sooner(ref, t) ==
    IF t = NoTime THEN ref
    ELSE IF ref = NoTime THEN t
    ELSE IF t < ref THEN t ELSE ref

\* The body of the fetch loop for one row.
ScanRow(r) ==
    LET g == r.group IN
    /\ r \in left
    /\ left' = left \ {r}
    /\ engines' = [engines EXCEPT ![g] = @ \cup {r.engine}]
    /\ windows' = [windows EXCEPT ![g][r.engine] = Widen(@, r.at)]
    /\ observers' = [observers EXCEPT ![g] = [m \in Messages |->
           IF m \in r.msgs THEN @[m] \cup {r.engine} ELSE @[m]]]
    /\ references' = [references EXCEPT ![g] = [m \in Messages |->
           IF m \in r.msgs THEN Sooner(@[m], r.at) ELSE @[m]]]
    /\ UNCHANGED <<rows, counts>>

\* Mutant: every engine of the group is in scope of every message.
VerdictsUnscoped(g) ==
    {m \in Messages : is_divergent_message(observers[g][m], engines[g])}

\* A message named by some row of the group is a key of message_engines.
Verdicts(g) ==
    {m \in {k \in Messages : observers[g][k] # {}} :
        LET missing == engines_present_but_missing(observers[g][m], references[g][m],
                                                   windows[g], engines[g])
        IN  is_divergent_message(observers[g][m], observers[g][m] \cup missing)}

\* The loop over the groups that follows the last row.
CountGroups ==
    /\ left = {}
    /\ counts' = [g \in GroupIds |-> Cardinality(Verdicts(g))]
    /\ UNCHANGED <<rows, left, engines, windows, observers, references>>

Next == CountGroups \/ \E r \in left : ScanRow(r)

Spec == Init /\ [][Next]_vars

-----------------------------------------------------------------------------
(* Properties *)

RowsOf(R, g) == {[engine |-> r.engine, at |-> r.at, msgs |-> r.msgs] :
                    r \in {q \in R : q.group = g}}

\* "Both callers build the in-scope set identically, so the landing-page count
\* and the detail-page count cannot silently drift": once all rows are fetched,
\* in any order, the aggregation finds divergent exactly the messages that the
\* group's own traces find divergent.
Parity == left = {} => \A g \in GroupIds : Verdicts(g) = DivergentMessages(RowsOf(rows, g))

\* The running sets, windows and first sightings are, after every row and in
\* every fetch order, what the trace-side definitions give for the rows fetched
\* so far (the state divergent_counts_for_group_ids keeps instead of events).
RunningState ==
    \A g \in GroupIds :
        LET R == RowsOf(rows \ left, g) IN
        /\ engines[g] = AllEngines(R)
        /\ \A e \in Engines : windows[g][e] = Window(R, e)
        /\ \A m \in Messages : /\ observers[g][m] = Observers(R, m)
                               /\ references[g][m] = Reference(R, m)

ScanInv == TypeOK /\ RunningState

\* What is stored is the detail page's number: a count is either not computed
\* yet or that of the group's traces.
StoredCount ==
    [][CountGroups => \A g \in GroupIds : counts'[g] = DivergentCount(RowsOf(rows, g))]_vars
=============================================================================
