-------------------------- MODULE DivergenceProofs --------------------------
(***************************************************************************)
(* Proofs about the two machines the divergence runs check side by side.   *)
(* DivergenceScan: for any set of rows, fetched in any order, the          *)
(* aggregation and the traces agree on every message of every group.       *)
(* Intake: for any bodies and limits, a body is stored whole or refused    *)
(* for its first fault.  The machines share no state.                      *)
(***************************************************************************)
EXTENDS DivergenceScan, Intake, FiniteFacts

-----------------------------------------------------------------------------
(* Windows and first sightings, by what they satisfy *)

IsWindow(w, T) ==
    \/ T = {} /\ w = NoWindow
    \/ /\ w \in [lo : Nat, hi : Nat]
       /\ w.lo \in T /\ w.hi \in T
       /\ \A u \in T : w.lo <= u /\ u <= w.hi

IsReference(ref, T) ==
    \/ T = {} /\ ref = NoTime
    \/ ref \in T /\ \A u \in T : ref <= u

LEMMA EarliestIs ==
    ASSUME NEW T \in SUBSET Nat, NEW t \in T, \A u \in T : t <= u
    PROVE  Earliest(T) = t
  <1>1. Earliest(T) \in T /\ \A u \in T : Earliest(T) <= u
    BY DEF Earliest
  <1>2. Earliest(T) <= t /\ t <= Earliest(T)
    BY <1>1
  <1>3. Earliest(T) \in Nat /\ t \in Nat
    BY <1>1
  <1>4. QED
    BY <1>2, <1>3

LEMMA LatestIs ==
    ASSUME NEW T \in SUBSET Nat, NEW t \in T, \A u \in T : u <= t
    PROVE  Latest(T) = t
  <1>1. Latest(T) \in T /\ \A u \in T : u <= Latest(T)
    BY DEF Latest
  <1>2. Latest(T) <= t /\ t <= Latest(T)
    BY <1>1
  <1>3. Latest(T) \in Nat /\ t \in Nat
    BY <1>1
  <1>4. QED
    BY <1>2, <1>3

\* There is only one window, and one first sighting, of a set of times.
LEMMA WindowUnique ==
    ASSUME NEW R, NEW e, Times(By(R, e)) \subseteq Nat,
           NEW w, IsWindow(w, Times(By(R, e)))
    PROVE  w = Window(R, e)
  <1> DEFINE T == Times(By(R, e))
  <1>1. CASE T = {}
    BY <1>1 DEF IsWindow, Window
  <1>2. CASE T # {}
    <2>1. w \in [lo : Nat, hi : Nat] /\ w.lo \in T /\ w.hi \in T
          /\ \A u \in T : w.lo <= u /\ u <= w.hi
      BY <1>2 DEF IsWindow
    <2>2. Earliest(T) = w.lo
      BY <2>1, EarliestIs
    <2>3. Latest(T) = w.hi
      BY <2>1, LatestIs
    <2>4. w = [lo |-> w.lo, hi |-> w.hi]
      BY <2>1
    <2>5. QED
      BY <1>2, <2>2, <2>3, <2>4 DEF Window
  <1>3. QED
    BY <1>1, <1>2

LEMMA ReferenceUnique ==
    ASSUME NEW R, NEW m, Times(Naming(R, m)) \subseteq Nat,
           NEW ref, IsReference(ref, Times(Naming(R, m)))
    PROVE  ref = Reference(R, m)
  <1>1. CASE Times(Naming(R, m)) = {}
    BY <1>1 DEF IsReference, Reference
  <1>2. CASE Times(Naming(R, m)) # {}
    <2>1. ref \in Times(Naming(R, m)) /\ \A u \in Times(Naming(R, m)) : ref <= u
      BY <1>2 DEF IsReference
    <2>2. Earliest(Times(Naming(R, m))) = ref
      BY <2>1, EarliestIs
    <2>3. QED
      BY <1>2, <2>2 DEF Reference
  <1>3. QED
    BY <1>1, <1>2

\* One more time widens a window, and moves a first sighting, as the loop does.
LEMMA WidenIs ==
    ASSUME NEW T \in SUBSET Nat, NEW w, IsWindow(w, T), NEW t \in Nat \cup {NoTime}
    PROVE  IsWindow(Widen(w, t), (T \cup {t}) \ {NoTime})
  <1>1. CASE t = NoTime
    <2>1. (T \cup {t}) \ {NoTime} = T
      BY <1>1, TimeAssumption
    <2>2. QED
      BY <1>1, <2>1 DEF Widen
  <1>2. CASE t # NoTime
    <2>1. (T \cup {t}) \ {NoTime} = T \cup {t} /\ t \in Nat
      BY <1>2, TimeAssumption
    <2>2. CASE w = NoWindow
      <3>1. T = {}
        BY <2>2, TimeAssumption DEF IsWindow, NoWindow
      <3>2. Widen(w, t) = [lo |-> t, hi |-> t]
        BY <1>2, <2>2 DEF Widen
      <3>3. QED
        BY <2>1, <3>1, <3>2 DEF IsWindow
    <2>3. CASE w # NoWindow
      <3>1. w \in [lo : Nat, hi : Nat] /\ w.lo \in T /\ w.hi \in T
            /\ \A u \in T : w.lo <= u /\ u <= w.hi
        BY <2>3 DEF IsWindow
      <3>2. Widen(w, t) = [lo |-> IF t < w.lo THEN t ELSE w.lo,
                           hi |-> IF w.hi < t THEN t ELSE w.hi]
        BY <1>2, <2>3 DEF Widen
      <3> DEFINE v == Widen(w, t)
      <3>3. v \in [lo : Nat, hi : Nat] /\ v.lo \in T \cup {t} /\ v.hi \in T \cup {t}
        BY <2>1, <3>1, <3>2
      <3>4. \A u \in T \cup {t} : v.lo <= u /\ u <= v.hi
        BY <2>1, <3>1, <3>2
      <3>5. QED
        BY <2>1, <3>3, <3>4 DEF IsWindow
    <2>4. QED
      BY <2>2, <2>3
  <1>3. QED
    BY <1>1, <1>2

LEMMA SoonerIs ==
    ASSUME NEW T \in SUBSET Nat, NEW ref, IsReference(ref, T), NEW t \in Nat \cup {NoTime}
    PROVE  IsReference(Sooner(ref, t), (T \cup {t}) \ {NoTime})
  <1>1. CASE t = NoTime
    <2>1. (T \cup {t}) \ {NoTime} = T
      BY <1>1, TimeAssumption
    <2>2. QED
      BY <1>1, <2>1 DEF Sooner
  <1>2. CASE t # NoTime
    <2>1. (T \cup {t}) \ {NoTime} = T \cup {t} /\ t \in Nat
      BY <1>2, TimeAssumption
    <2>2. CASE T = {}
      BY <1>2, <2>1, <2>2 DEF Sooner, IsReference
    <2>3. CASE T # {}
      <3>1. ref \in T /\ ref \in Nat /\ ref # NoTime /\ \A u \in T : ref <= u
        BY <2>3, TimeAssumption DEF IsReference
      <3>2. Sooner(ref, t) = IF t < ref THEN t ELSE ref
        BY <1>2, <3>1 DEF Sooner
      <3>3. QED
        BY <2>1, <3>1, <3>2 DEF IsReference
    <2>4. QED
      BY <2>2, <2>3
  <1>3. QED
    BY <1>1, <1>2

-----------------------------------------------------------------------------
(* The inductive invariant *)

Bounds ==
    \A g \in GroupIds :
        LET R == RowsOf(rows \ left, g) IN
        /\ engines[g] = AllEngines(R)
        /\ \A e \in Engines : IsWindow(windows[g][e], Times(By(R, e)))
        /\ \A m \in Messages : /\ observers[g][m] = Observers(R, m)
                               /\ IsReference(references[g][m], Times(Naming(R, m)))

Inv == TypeOK /\ Bounds

\* What the fetched rows of a group are.
LEMMA RowsTyped ==
    ASSUME NEW S \in SUBSET GroupRow, NEW g \in GroupIds
    PROVE  /\ RowsOf(S, g) \subseteq Row
           /\ \A e : Times(By(RowsOf(S, g), e)) \subseteq Nat
           /\ \A m : Times(Naming(RowsOf(S, g), m)) \subseteq Nat
  <1>1. RowsOf(S, g) \subseteq Row
    BY DEF RowsOf, Row, GroupRow
  <1>2. \A R \in SUBSET Row : Times(R) \subseteq Nat
    BY DEF Times, Row
  <1>3. \A e, m : By(RowsOf(S, g), e) \subseteq Row /\ Naming(RowsOf(S, g), m) \subseteq Row
    BY <1>1 DEF By, Naming
  <1>4. QED
    BY <1>1, <1>2, <1>3

\* How they grow by a row.
LEMMA RowsGrow ==
    ASSUME NEW S \in SUBSET GroupRow, NEW r \in GroupRow
    PROVE  /\ RowsOf(S \cup {r}, r.group)
                 = RowsOf(S, r.group) \cup {[engine |-> r.engine, at |-> r.at, msgs |-> r.msgs]}
           /\ \A g \in GroupIds \ {r.group} : RowsOf(S \cup {r}, g) = RowsOf(S, g)
  BY DEF RowsOf

LEMMA TimesGrow ==
    ASSUME NEW R \in SUBSET Row, NEW q \in Row
    PROVE  /\ \A e : Times(By(R \cup {q}, e))
                        = IF q.engine = e THEN (Times(By(R, e)) \cup {q.at}) \ {NoTime}
                          ELSE Times(By(R, e))
           /\ \A m : Times(Naming(R \cup {q}, m))
                        = IF m \in q.msgs THEN (Times(Naming(R, m)) \cup {q.at}) \ {NoTime}
                          ELSE Times(Naming(R, m))
  <1>1. \A e : By(R \cup {q}, e) = IF q.engine = e THEN By(R, e) \cup {q} ELSE By(R, e)
    BY DEF By
  <1>2. \A m : Naming(R \cup {q}, m) = IF m \in q.msgs THEN Naming(R, m) \cup {q} ELSE Naming(R, m)
    BY DEF Naming
  <1>3. \A Q : Times(Q \cup {q}) = (Times(Q) \cup {q.at}) \ {NoTime}
    BY DEF Times
  <1>4. QED
    BY <1>1, <1>2, <1>3

LEMMA SightingsGrow ==
    ASSUME NEW R, NEW q
    PROVE  /\ AllEngines(R \cup {q}) = AllEngines(R) \cup {q.engine}
           /\ \A m : Observers(R \cup {q}, m)
                        = IF m \in q.msgs THEN Observers(R, m) \cup {q.engine}
                          ELSE Observers(R, m)
  <1>1. \A m : Naming(R \cup {q}, m) = IF m \in q.msgs THEN Naming(R, m) \cup {q} ELSE Naming(R, m)
    BY DEF Naming
  <1>2. \A Q : {r.engine : r \in Q \cup {q}} = {r.engine : r \in Q} \cup {q.engine}
    OBVIOUS
  <1>3. QED
    BY <1>1, <1>2 DEF AllEngines, Observers

LEMMA InitEstablishes == Init => Inv
  <1> SUFFICES ASSUME Init PROVE Inv
    OBVIOUS
  <1>1. PICK h \in Histories :
          Start({[id |-> i, group |-> h[i].group, engine |-> h[i].engine,
                  at |-> h[i].at, msgs |-> h[i].msgs] : i \in DOMAIN h})
    BY DEF Init
  <1>2. PICK n \in 0..MaxRows :
          h \in [1..n -> [group : GroupIds, engine : Engines,
                          at : 0..MaxTime \cup {NoTime}, msgs : SUBSET Messages]]
    BY <1>1 DEF Histories
  <1>3. \A i \in DOMAIN h : /\ i \in Nat /\ h[i].group \in GroupIds /\ h[i].engine \in Engines
                            /\ h[i].at \in Nat \cup {NoTime} /\ h[i].msgs \in SUBSET Messages
    BY <1>2, ScanAssumption
  <1>4. rows \subseteq GroupRow
    BY <1>1, <1>3 DEF Start, GroupRow
  <1>5. TypeOK
    BY <1>1, <1>4 DEF Start, TypeOK, NoWindow, NoCounts
  <1>6. \A g \in GroupIds : RowsOf(rows \ left, g) = {}
    BY <1>1 DEF Start, RowsOf
  <1>7. /\ AllEngines({}) = {} /\ \A e : Times(By({}, e)) = {}
        /\ \A m : Observers({}, m) = {} /\ Times(Naming({}, m)) = {}
    BY DEF AllEngines, Times, By, Observers, Naming
  <1>8. Bounds
    BY <1>1, <1>6, <1>7 DEF Start, Bounds, IsWindow, IsReference
  <1>9. QED
    BY <1>5, <1>8 DEF Inv

\* The loop body keeps the running state exact: the fetched row moves the state
\* of its own group by one event and leaves every other group alone.
LEMMA ScanPreserves ==
    ASSUME Inv, NEW r \in left, ScanRow(r)
    PROVE  Inv'
  <1> DEFINE q == [engine |-> r.engine, at |-> r.at, msgs |-> r.msgs]
             S == rows \ left
             k == r.group
  <1>1. /\ r \in GroupRow /\ S \subseteq GroupRow /\ rows' \ left' = S \cup {r}
        /\ k \in GroupIds /\ r.engine \in Engines /\ q \in Row
        /\ r.at \in Nat \cup {NoTime} /\ r.msgs \subseteq Messages
    BY DEF Inv, TypeOK, ScanRow, GroupRow, Row
  <1>q. q.engine = r.engine /\ q.at = r.at /\ q.msgs = r.msgs
    OBVIOUS
  <1>2. /\ RowsOf(rows' \ left', k) = RowsOf(S, k) \cup {q}
        /\ \A g \in GroupIds \ {k} : RowsOf(rows' \ left', g) = RowsOf(S, g)
    <2>1. r \in GroupRow /\ S \in SUBSET GroupRow
      BY <1>1
    <2>2. rows' \ left' = S \cup {r}
      BY <1>1
    <2> HIDE DEF S
    <2>3. /\ RowsOf(S \cup {r}, k) = RowsOf(S, k) \cup {q}
          /\ \A g \in GroupIds \ {k} : RowsOf(S \cup {r}, g) = RowsOf(S, g)
      BY <2>1, RowsGrow
    <2>4. QED
      BY <2>2, <2>3
  <1>3. /\ engines' = [engines EXCEPT ![k] = engines[k] \cup {r.engine}]
        /\ windows' = [windows EXCEPT ![k] = [windows[k] EXCEPT ![r.engine] =
                          Widen(windows[k][r.engine], r.at)]]
        /\ observers' = [observers EXCEPT ![k] = [m \in Messages |->
              IF m \in r.msgs THEN observers[k][m] \cup {r.engine} ELSE observers[k][m]]]
        /\ references' = [references EXCEPT ![k] = [m \in Messages |->
              IF m \in r.msgs THEN Sooner(references[k][m], r.at) ELSE references[k][m]]]
    <2>1. windows' = [windows EXCEPT ![k][r.engine] = Widen(@, r.at)]
      BY DEF ScanRow
    <2>2. QED
      BY <2>1 DEF ScanRow
  <1> HIDE DEF q, S, k
  <1>4. TypeOK'
    <2>1. \A w \in [lo : Nat \cup {NoTime}, hi : Nat \cup {NoTime}] :
             Widen(w, r.at) \in [lo : Nat \cup {NoTime}, hi : Nat \cup {NoTime}]
      BY <1>1 DEF Widen
    <2>2. \A t \in Nat \cup {NoTime} : Sooner(t, r.at) \in Nat \cup {NoTime}
      BY <1>1 DEF Sooner
    <2>3. windows' \in [GroupIds -> [Engines -> [lo : Nat \cup {NoTime}, hi : Nat \cup {NoTime}]]]
      <3> DEFINE W == [lo : Nat \cup {NoTime}, hi : Nat \cup {NoTime}]
      <3>1. windows \in [GroupIds -> [Engines -> W]] /\ \A w \in W : Widen(w, r.at) \in W
        BY <2>1 DEF Inv, TypeOK
      <3> HIDE DEF W
      <3>2. windows' \in [GroupIds -> [Engines -> W]]
        BY <1>1, <1>3, <3>1
      <3>3. QED
        BY <3>2 DEF W
    <2>4. references' \in [GroupIds -> [Messages -> Nat \cup {NoTime}]]
      BY <1>1, <1>3, <2>2 DEF Inv, TypeOK
    <2>5. observers' \in [GroupIds -> [Messages -> SUBSET Engines]]
      BY <1>1, <1>3 DEF Inv, TypeOK
    <2>6. engines' \in [GroupIds -> SUBSET Engines]
      BY <1>1, <1>3 DEF Inv, TypeOK
    <2>7. rows' \subseteq GroupRow /\ left' \subseteq rows' /\ DOMAIN counts' = GroupIds
      BY DEF Inv, TypeOK, ScanRow
    <2>8. QED
      BY <2>3, <2>4, <2>5, <2>6, <2>7 DEF TypeOK
  <1>5. ASSUME NEW g \in GroupIds
        PROVE  LET R == RowsOf(rows' \ left', g) IN
               /\ engines'[g] = AllEngines(R)
               /\ \A e \in Engines : IsWindow(windows'[g][e], Times(By(R, e)))
               /\ \A m \in Messages : /\ observers'[g][m] = Observers(R, m)
                                      /\ IsReference(references'[g][m], Times(Naming(R, m)))
    <2>1. CASE g # k
      <3>1. /\ engines'[g] = engines[g] /\ windows'[g] = windows[g]
            /\ observers'[g] = observers[g] /\ references'[g] = references[g]
        BY <1>3, <2>1 DEF Inv, TypeOK
      <3>2. QED
        BY <1>2, <2>1, <3>1 DEF Inv, Bounds, S
    <2>2. CASE g = k
      <3> DEFINE R == RowsOf(S, k)
      <3>1. /\ R \subseteq Row
            /\ \A e : Times(By(R, e)) \subseteq Nat
            /\ \A m : Times(Naming(R, m)) \subseteq Nat
        BY <1>1, RowsTyped
      <3>2. /\ engines[k] = AllEngines(R)
            /\ \A e \in Engines : IsWindow(windows[k][e], Times(By(R, e)))
            /\ \A m \in Messages : /\ observers[k][m] = Observers(R, m)
                                   /\ IsReference(references[k][m], Times(Naming(R, m)))
        BY <1>1 DEF Inv, Bounds, S
      <3> HIDE DEF R
      <3>g. /\ AllEngines(R \cup {q}) = AllEngines(R) \cup {r.engine}
            /\ \A m : Observers(R \cup {q}, m)
                        = IF m \in r.msgs THEN Observers(R, m) \cup {r.engine}
                          ELSE Observers(R, m)
        BY <1>q, SightingsGrow
      <3>t. /\ \A e : Times(By(R \cup {q}, e))
                        = IF r.engine = e THEN (Times(By(R, e)) \cup {r.at}) \ {NoTime}
                          ELSE Times(By(R, e))
            /\ \A m : Times(Naming(R \cup {q}, m))
                        = IF m \in r.msgs THEN (Times(Naming(R, m)) \cup {r.at}) \ {NoTime}
                          ELSE Times(Naming(R, m))
        <4>1. R \in SUBSET Row /\ q \in Row
          BY <1>1, <3>1
        <4>2. \A e : Times(By(R \cup {q}, e))
                        = IF q.engine = e THEN (Times(By(R, e)) \cup {q.at}) \ {NoTime}
                          ELSE Times(By(R, e))
          BY <4>1, TimesGrow
        <4>3. \A m : Times(Naming(R \cup {q}, m))
                        = IF m \in q.msgs THEN (Times(Naming(R, m)) \cup {q.at}) \ {NoTime}
                          ELSE Times(Naming(R, m))
          BY <4>1, TimesGrow
        <4>4. QED
          BY <1>q, <4>2, <4>3
      <3>3. engines'[k] = AllEngines(R \cup {q})
        BY <1>1, <1>3, <3>2, <3>g DEF Inv, TypeOK
      <3>4. ASSUME NEW e \in Engines
            PROVE  IsWindow(windows'[k][e], Times(By(R \cup {q}, e)))
        <4>1. Times(By(R \cup {q}, e)) = IF r.engine = e
                  THEN (Times(By(R, e)) \cup {r.at}) \ {NoTime} ELSE Times(By(R, e))
          BY <3>t
        <4>2. windows'[k][e] = IF r.engine = e THEN Widen(windows[k][e], r.at)
                               ELSE windows[k][e]
          BY <1>1, <1>3 DEF Inv, TypeOK
        <4>3. IsWindow(Widen(windows[k][e], r.at), (Times(By(R, e)) \cup {r.at}) \ {NoTime})
          BY <1>1, <3>1, <3>2, WidenIs
        <4>4. QED
          BY <3>2, <4>1, <4>2, <4>3
      <3>5. ASSUME NEW m \in Messages
            PROVE  IsReference(references'[k][m], Times(Naming(R \cup {q}, m)))
        <4>1. Times(Naming(R \cup {q}, m)) = IF m \in r.msgs
                  THEN (Times(Naming(R, m)) \cup {r.at}) \ {NoTime} ELSE Times(Naming(R, m))
          BY <3>t
        <4>2. references'[k][m] = IF m \in r.msgs THEN Sooner(references[k][m], r.at)
                                  ELSE references[k][m]
          BY <1>1, <1>3 DEF Inv, TypeOK
        <4>3. IsReference(Sooner(references[k][m], r.at),
                          (Times(Naming(R, m)) \cup {r.at}) \ {NoTime})
          BY <1>1, <3>1, <3>2, SoonerIs
        <4>4. QED
          BY <3>2, <4>1, <4>2, <4>3
      <3>6. ASSUME NEW m \in Messages
            PROVE  observers'[k][m] = Observers(R \cup {q}, m)
        <4>1. observers'[k][m] = IF m \in r.msgs THEN observers[k][m] \cup {r.engine}
                                 ELSE observers[k][m]
          BY <1>1, <1>3 DEF Inv, TypeOK
        <4>2. Observers(R \cup {q}, m) = IF m \in r.msgs THEN Observers(R, m) \cup {r.engine}
                                         ELSE Observers(R, m)
          BY <3>g
        <4>3. QED
          BY <3>2, <4>1, <4>2
      <3>7. QED
        BY <1>2, <2>2, <3>3, <3>4, <3>5, <3>6 DEF R
    <2>3. QED
      BY <2>1, <2>2
  <1>6. Bounds'
    BY <1>5 DEF Bounds
  <1>7. QED
    BY <1>4, <1>6 DEF Inv

LEMMA StepPreserves == Inv /\ [Next]_vars => Inv'
  <1> SUFFICES ASSUME Inv, [Next]_vars PROVE Inv'
    OBVIOUS
  <1>1. ASSUME NEW r \in left, ScanRow(r) PROVE Inv'
    BY <1>1, ScanPreserves
  <1>2. CASE CountGroups
    BY <1>2 DEF CountGroups, Inv, TypeOK, Bounds
  <1>3. CASE UNCHANGED vars
    BY <1>3 DEF vars, Inv, TypeOK, Bounds
  <1>4. QED
    BY <1>1, <1>2, <1>3 DEF Next

\* The bounds determine the running state.
LEMMA InvGivesState == Inv => ScanInv
  <1> SUFFICES ASSUME Inv PROVE RunningState
    BY DEF Inv, ScanInv
  <1> SUFFICES ASSUME NEW g \in GroupIds
               PROVE  LET R == RowsOf(rows \ left, g) IN
                      /\ engines[g] = AllEngines(R)
                      /\ \A e \in Engines : windows[g][e] = Window(R, e)
                      /\ \A m \in Messages : /\ observers[g][m] = Observers(R, m)
                                             /\ references[g][m] = Reference(R, m)
    BY DEF RunningState
  <1> DEFINE R == RowsOf(rows \ left, g)
  <1>1. /\ \A e : Times(By(R, e)) \subseteq Nat
        /\ \A m : Times(Naming(R, m)) \subseteq Nat
    BY RowsTyped DEF Inv, TypeOK
  <1>2. \A e \in Engines : windows[g][e] = Window(R, e)
    BY <1>1, WindowUnique DEF Inv, Bounds
  <1>3. \A m \in Messages : references[g][m] = Reference(R, m)
    BY <1>1, ReferenceUnique DEF Inv, Bounds
  <1>4. QED
    BY <1>2, <1>3 DEF Inv, Bounds

\* The running state decides every message as its trace does.
LEMMA StateGivesParity == ScanInv => Parity
  <1> SUFFICES ASSUME ScanInv, left = {}, NEW g \in GroupIds
               PROVE  Verdicts(g) = DivergentMessages(RowsOf(rows, g))
    BY DEF Parity
  <1> DEFINE R == RowsOf(rows, g)
  <1>1. /\ rows \ left = rows
        /\ engines[g] = AllEngines(R)
        /\ \A e \in Engines : windows[g][e] = Window(R, e)
        /\ \A m \in Messages : /\ observers[g][m] = Observers(R, m)
                               /\ references[g][m] = Reference(R, m)
    BY DEF ScanInv, RunningState
  <1>2. windows[g] = engine_windows(R)
    BY <1>1 DEF ScanInv, TypeOK, engine_windows
  <1>3. R \subseteq Row
    BY RowsTyped DEF ScanInv, TypeOK
  <1>4. {m \in Messages : observers[g][m] # {}} = UNION {r.msgs : r \in R}
    BY <1>1, <1>3 DEF Observers, Naming, Row
  <1>5. \A m \in Messages :
           engines_present_but_missing(observers[g][m], references[g][m],
                                       windows[g], engines[g]) = MissedBy(R, m)
    BY <1>1, <1>2 DEF MissedBy
  <1>6. QED
    BY <1>1, <1>4, <1>5 DEF Verdicts, DivergentMessages

-----------------------------------------------------------------------------
\* For any rows, groups and fetch order, the state the aggregation keeps
\* (divergent_counts_for_group_ids) is the one the trace-side definitions give.
THEOREM ScanExact == Spec => []ScanInv
  <1>1. Spec => []Inv
    BY InitEstablishes, StepPreserves, PTL DEF Spec
  <1>2. QED
    BY <1>1, InvGivesState, PTL

\* The aggregation and the detail page's traces agree on every message: the
\* comment of is_divergent_message, for every set of events.
THEOREM ParityHolds == Spec => []Parity
  BY ScanExact, StateGivesParity, PTL

\* The count stored on the group is the one the detail page would show.
THEOREM StoredCountExact == Spec => StoredCount
  <1>1. ASSUME ScanInv, [Next]_vars
        PROVE  [CountGroups => \A g \in GroupIds :
                    counts'[g] = DivergentCount(RowsOf(rows, g))]_vars
    <2>1. ASSUME CountGroups, NEW g \in GroupIds
          PROVE  counts'[g] = DivergentCount(RowsOf(rows, g))
      <3>1. counts'[g] = Cardinality(Verdicts(g)) /\ left = {}
        BY <2>1 DEF CountGroups
      <3>2. Verdicts(g) = DivergentMessages(RowsOf(rows, g))
        BY <1>1, <3>1, StateGivesParity DEF Parity
      <3>3. QED
        BY <3>1, <3>2 DEF DivergentCount
    <2>2. QED
      BY <2>1
  <1>2. QED
    BY <1>1, ScanExact, PTL DEF Spec, StoredCount

-----------------------------------------------------------------------------
(* Intake: the copy rules *)

IsRule(r, how, f, c) ==
    r \in [how : {how}, field : {f}, column : {c}, presence : {"required", "optional"}]

LEMMA RuleFields ==
    ASSUME NEW r, NEW how, NEW f, NEW c, IsRule(r, how, f, c)
    PROVE  r.how = how /\ r.field = f /\ r.column = c
  BY DEF IsRule

LEMMA SimpleRule ==
    ASSUME NEW f, NEW how
    PROVE  /\ IsRule(Str(f), "str", f, f) /\ IsRule(Text(f), "text", f, f)
           /\ IsRule(Number(f), "int", f, f) /\ IsRule(Plain(f), "plain", f, f)
           /\ IsRule(Rule(how, f), how, f, f)
  BY DEF IsRule, Str, Text, Number, Plain, Rule

LEMMA ToRule ==
    ASSUME NEW r, NEW how, NEW f, NEW c, NEW d, IsRule(r, how, f, c)
    PROVE  IsRule(To(r, d), how, f, d)
  BY DEF IsRule, To

Weaker(r) == [r EXCEPT !.presence = "optional"]

LEMMA WeakerRule ==
    ASSUME NEW r, NEW how, NEW f, NEW c, IsRule(r, how, f, c)
    PROVE  IsRule(Weaker(r), how, f, c)
  BY DEF IsRule, Weaker

LEMMA OptionalRule ==
    ASSUME NEW R, NEW r \in Optional(R)
    PROVE  \E q \in R : r = Weaker(q)
  BY Zenon DEF Optional, Weaker

\* The ways of copying that make their own value.
Special == {"relay", "first", "welcomes"}

\* In a set of rules no two fields go to one column, but for the relay_url that
\* counts only where relay_urls is absent.
OneFieldPerColumn(R) ==
    \A r, q \in R : r.column = q.column =>
        \/ r.how = q.how /\ r.field = q.field
        \/ r.how = "relay" /\ q.field = "relay_urls"
        \/ q.how = "relay" /\ r.field = "relay_urls"

\* What the kinds leave to the envelope, and where the special columns come from.
KindColumns(R) ==
    \A r \in R :
        /\ r.column \notin {"engine_id", "account_ref"}
        /\ r.how \in Special =>
            r.column \in {"relay_urls", "outbound_msg_id", "outbound_welcome_msg_ids"}
        /\ r.field = "relay_url" => r.how = "relay" /\ r.column = "relay_urls"
        /\ r.field = "relay_urls" => r.how = "plain" /\ r.column = "relay_urls"
        /\ r.how = "relay" => r.field = "relay_url"

LEMMA ContextRules ==
    \A r \in context_rules :
        \/ IsRule(r, "text", "operation_id", "context_operation_id")
        \/ IsRule(r, "plain", "transport", "context_transport")
        \/ IsRule(r, "plain", "engine", "context_engine")
        \/ IsRule(r, "plain", "group", "context_group")
        \/ IsRule(r, "plain", "source", "context_source")
        \/ IsRule(r, "plain", "convergence", "context_convergence")
  BY SMTT(60), SimpleRule, ToRule, OptionalRule, WeakerRule DEF context_rules

LEMMA ActionRules ==
    \A r \in human_action_rules :
        \/ IsRule(r, "text", "action", "human_action_action")
        \/ IsRule(r, "text", "origin", "human_action_origin")
        \/ IsRule(r, "plain", "fields", "human_action_fields")
        \/ IsRule(r, "plain", "component_ids", "human_action_component_ids")
        \/ IsRule(r, "int", "target_count", "human_action_target_count")
  BY SMTT(60), SimpleRule, ToRule, OptionalRule, WeakerRule DEF human_action_rules

LEMMA KindRules ==
    ASSUME NEW kind \in Kinds
    PROVE  OneFieldPerColumn(kind_rules(kind)) /\ KindColumns(kind_rules(kind))
  <1>1. CASE kind = "recorder_started"
    <2>1. \A r \in kind_rules(kind) :
            \/ IsRule(r, "text", "recorder", "detail")
      BY SMTT(60), <1>1, SimpleRule, ToRule, OptionalRule, WeakerRule DEF kind_rules
    <2>2. QED
      BY <2>1, RuleFields DEF OneFieldPerColumn, KindColumns, Special
  <1>2. CASE kind = "source_context"
    <2>1. \A r \in kind_rules(kind) :
            \/ IsRule(r, "plain", "source", "context_source")
      BY SMTT(60), <1>2, SimpleRule, ToRule, OptionalRule, WeakerRule DEF kind_rules
    <2>2. QED
      BY <2>1, RuleFields DEF OneFieldPerColumn, KindColumns, Special
  <1>3. CASE kind = "engine_context"
    <2>1. \A r \in kind_rules(kind) :
            \/ IsRule(r, "plain", "context", "context_engine")
      BY SMTT(60), <1>3, SimpleRule, ToRule, OptionalRule, WeakerRule DEF kind_rules
    <2>2. QED
      BY <2>1, RuleFields DEF OneFieldPerColumn, KindColumns, Special
  <1>4. CASE kind = "group_context"
    <2>1. \A r \in kind_rules(kind) :
            \/ IsRule(r, "plain", "context", "context_group")
            \/ IsRule(r, "text", "reason", "reason")
      BY SMTT(60), <1>4, SimpleRule, ToRule, OptionalRule, WeakerRule DEF kind_rules
    <2>2. QED
      BY <2>1, RuleFields DEF OneFieldPerColumn, KindColumns, Special
  <1>5. CASE kind = "human_action"
    <2>1. \A r \in kind_rules(kind) :
            \/ IsRule(r, "text", "action", "human_action_action")
            \/ IsRule(r, "text", "origin", "human_action_origin")
            \/ IsRule(r, "plain", "fields", "human_action_fields")
            \/ IsRule(r, "plain", "component_ids", "human_action_component_ids")
            \/ IsRule(r, "int", "target_count", "human_action_target_count")
            \/ IsRule(r, "text", "phase", "human_action_phase")
            \/ IsRule(r, "plain", "message_ids", "human_action_message_ids")
            \/ IsRule(r, "int", "from_epoch", "from_epoch")
            \/ IsRule(r, "int", "to_epoch", "to_epoch")
      BY SMTT(60), <1>5, SimpleRule, ToRule, OptionalRule, WeakerRule, ActionRules DEF kind_rules
    <2>2. QED
      BY <2>1, RuleFields DEF OneFieldPerColumn, KindColumns, Special
  <1>6. CASE kind = "transport_received"
    <2>1. \A r \in kind_rules(kind) :
            \/ IsRule(r, "int", "payload_len", "payload_len")
            \/ IsRule(r, "plain", "payload_digest", "payload_digest")
            \/ IsRule(r, "plain", "msg_id", "msg_id")
      BY SMTT(60), <1>6, SimpleRule, ToRule, OptionalRule, WeakerRule DEF kind_rules, MsgId
    <2>2. QED
      BY <2>1, RuleFields DEF OneFieldPerColumn, KindColumns, Special
  <1>7. CASE kind = "ingest_entry"
    <2>1. \A r \in kind_rules(kind) :
            \/ IsRule(r, "plain", "msg_id", "msg_id")
            \/ IsRule(r, "str", "envelope_kind", "envelope_kind")
            \/ IsRule(r, "int", "payload_len", "payload_len")
            \/ IsRule(r, "plain", "payload_digest", "payload_digest")
      BY SMTT(60), <1>7, SimpleRule, ToRule, OptionalRule, WeakerRule DEF kind_rules, MsgId
    <2>2. QED
      BY <2>1, RuleFields DEF OneFieldPerColumn, KindColumns, Special
  <1>8. CASE kind = "ingest_outcome"
    <2>1. \A r \in kind_rules(kind) :
            \/ IsRule(r, "plain", "msg_id", "msg_id")
            \/ IsRule(r, "str", "outcome_kind", "outcome_kind")
            \/ IsRule(r, "text", "stale_reason", "stale_reason")
            \/ IsRule(r, "int", "epoch", "epoch")
      BY SMTT(60), <1>8, SimpleRule, ToRule, OptionalRule, WeakerRule DEF kind_rules, MsgId
    <2>2. QED
      BY <2>1, RuleFields DEF OneFieldPerColumn, KindColumns, Special
  <1>9. CASE kind = "ingest_error"
    <2>1. \A r \in kind_rules(kind) :
            \/ IsRule(r, "str", "error_kind", "outcome_kind")
            \/ IsRule(r, "text", "detail", "detail") \/ IsRule(r, "plain", "msg_id", "msg_id")
      BY SMTT(60), <1>9, SimpleRule, ToRule, OptionalRule, WeakerRule DEF kind_rules, MsgId, error_rules
    <2>2. QED
      BY <2>1, RuleFields DEF OneFieldPerColumn, KindColumns, Special
  <1>10. CASE kind = "recipient_expectation"
    <2>1. \A r \in kind_rules(kind) :
            \/ IsRule(r, "plain", "msg_id", "msg_id")
            \/ IsRule(r, "plain", "artifact_kind", "target_kind")
      BY SMTT(60), <1>10, SimpleRule, ToRule, OptionalRule, WeakerRule DEF kind_rules, MsgId
    <2>2. QED
      BY <2>1, RuleFields DEF OneFieldPerColumn, KindColumns, Special
  <1>11. CASE kind = "send_entry"
    <2>1. \A r \in kind_rules(kind) :
            \/ IsRule(r, "str", "intent_kind", "intent_kind")
      BY SMTT(60), <1>11, SimpleRule, ToRule, OptionalRule, WeakerRule DEF kind_rules
    <2>2. QED
      BY <2>1, RuleFields DEF OneFieldPerColumn, KindColumns, Special
  <1>12. CASE kind = "send_outcome"
    <2>1. \A r \in kind_rules(kind) :
            \/ IsRule(r, "first", "outbound_messages", "outbound_msg_id")
            \/ IsRule(r, "welcomes", "outbound_messages", "outbound_welcome_msg_ids")
            \/ IsRule(r, "str", "intent_kind", "intent_kind")
            \/ IsRule(r, "str", "result_kind", "result_kind")
      BY SMTT(60), <1>12, SimpleRule, ToRule, OptionalRule, WeakerRule DEF kind_rules, outbound_rules
    <2>2. QED
      BY <2>1, RuleFields DEF OneFieldPerColumn, KindColumns, Special
  <1>13. CASE kind = "send_error"
    <2>1. \A r \in kind_rules(kind) :
            \/ IsRule(r, "str", "error_kind", "outcome_kind")
            \/ IsRule(r, "text", "detail", "detail")
            \/ IsRule(r, "str", "intent_kind", "intent_kind")
      BY SMTT(60), <1>13, SimpleRule, ToRule, OptionalRule, WeakerRule DEF kind_rules, error_rules
    <2>2. QED
      BY <2>1, RuleFields DEF OneFieldPerColumn, KindColumns, Special
  <1>14. CASE kind = "create_group_entry"
    <2>1. \A r \in kind_rules(kind) :
            \/ IsRule(r, "int", "member_count", "human_action_target_count")
      BY SMTT(60), <1>14, SimpleRule, ToRule, OptionalRule, WeakerRule DEF kind_rules
    <2>2. QED
      BY <2>1, RuleFields DEF OneFieldPerColumn, KindColumns, Special
  <1>15. CASE kind = "create_group_outcome"
    <2>1. \A r \in kind_rules(kind) :
            \/ IsRule(r, "first", "outbound_messages", "outbound_msg_id")
            \/ IsRule(r, "welcomes", "outbound_messages", "outbound_welcome_msg_ids")
            \/ IsRule(r, "str", "result_kind", "result_kind")
      BY SMTT(60), <1>15, SimpleRule, ToRule, OptionalRule, WeakerRule DEF kind_rules, outbound_rules
    <2>2. QED
      BY <2>1, RuleFields DEF OneFieldPerColumn, KindColumns, Special
  <1>16. CASE kind = "create_group_error"
    <2>1. \A r \in kind_rules(kind) :
            \/ IsRule(r, "str", "error_kind", "outcome_kind")
            \/ IsRule(r, "text", "detail", "detail")
      BY SMTT(60), <1>16, SimpleRule, ToRule, OptionalRule, WeakerRule DEF kind_rules, error_rules
    <2>2. QED
      BY <2>1, RuleFields DEF OneFieldPerColumn, KindColumns, Special
  <1>17. CASE kind = "publish_attempt"
    <2>1. \A r \in kind_rules(kind) :
            \/ IsRule(r, "plain", "msg_id", "msg_id")
            \/ IsRule(r, "text", "target_kind", "target_kind")
            \/ IsRule(r, "relay", "relay_url", "relay_urls")
            \/ IsRule(r, "int", "required_acks", "required_acks")
            \/ IsRule(r, "plain", "relay_urls", "relay_urls")
      BY SMTT(60), <1>17, SimpleRule, ToRule, OptionalRule, WeakerRule DEF kind_rules, publish_rules, MsgId
    <2>2. QED
      BY <2>1, RuleFields DEF OneFieldPerColumn, KindColumns, Special
  <1>18. CASE kind = "publish_outcome"
    <2>1. \A r \in kind_rules(kind) :
            \/ IsRule(r, "plain", "msg_id", "msg_id")
            \/ IsRule(r, "text", "target_kind", "target_kind")
            \/ IsRule(r, "relay", "relay_url", "relay_urls")
            \/ IsRule(r, "int", "required_acks", "required_acks")
            \/ IsRule(r, "plain", "met_required_acks", "met_required_acks")
            \/ IsRule(r, "plain", "accepted_relay_urls", "accepted_relay_urls")
            \/ IsRule(r, "plain", "failed_relays", "failed_relays")
      BY SMTT(60), <1>18, SimpleRule, ToRule, OptionalRule, WeakerRule DEF kind_rules, publish_rules, MsgId
    <2>2. QED
      BY <2>1, RuleFields DEF OneFieldPerColumn, KindColumns, Special
  <1>19. CASE kind = "publish_failure"
    <2>1. \A r \in kind_rules(kind) :
            \/ IsRule(r, "plain", "msg_id", "msg_id")
            \/ IsRule(r, "text", "target_kind", "target_kind")
            \/ IsRule(r, "relay", "relay_url", "relay_urls")
            \/ IsRule(r, "text", "stage", "outcome_kind") \/ IsRule(r, "text", "reason", "reason")
            \/ IsRule(r, "int", "required_acks", "required_acks")
            \/ IsRule(r, "text", "detail", "detail")
            \/ IsRule(r, "plain", "relay_urls", "relay_urls")
      BY SMTT(60), <1>19, SimpleRule, ToRule, OptionalRule, WeakerRule DEF kind_rules, publish_rules, MsgId
    <2>2. QED
      BY <2>1, RuleFields DEF OneFieldPerColumn, KindColumns, Special
  <1>20. CASE kind = "epoch_state_changed"
    <2>1. \A r \in kind_rules(kind) :
            \/ IsRule(r, "str", "new_state", "new_state") \/ IsRule(r, "int", "epoch", "epoch")
            \/ IsRule(r, "str", "reason", "reason")
            \/ IsRule(r, "text", "previous_state", "outcome")
            \/ IsRule(r, "int", "pending_ref", "pending_epoch")
            \/ IsRule(r, "text", "pending_kind", "pending_kind")
      BY SMTT(60), <1>20, SimpleRule, ToRule, OptionalRule, WeakerRule DEF kind_rules
    <2>2. QED
      BY <2>1, RuleFields DEF OneFieldPerColumn, KindColumns, Special
  <1>21. CASE kind = "group_state_changed"
    <2>1. \A r \in kind_rules(kind) :
            \/ IsRule(r, "plain", "origin_commit_id", "outbound_msg_id")
            \/ IsRule(r, "int", "epoch", "epoch")
            \/ IsRule(r, "plain", "change_kind", "outcome_kind")
            \/ IsRule(r, "plain", "value.digest", "payload_digest")
            \/ IsRule(r, "int", "value.len", "payload_len")
      BY SMTT(60), <1>21, SimpleRule, ToRule, OptionalRule, WeakerRule DEF kind_rules, origin_rules
    <2>2. QED
      BY <2>1, RuleFields DEF OneFieldPerColumn, KindColumns, Special
  <1>22. CASE kind = "epoch_confirmed"
    <2>1. \A r \in kind_rules(kind) :
            \/ IsRule(r, "plain", "origin_commit_id", "outbound_msg_id")
            \/ IsRule(r, "int", "from_epoch", "from_epoch")
            \/ IsRule(r, "int", "to_epoch", "to_epoch")
            \/ IsRule(r, "str", "pending_kind", "pending_kind")
      BY SMTT(60), <1>22, SimpleRule, ToRule, OptionalRule, WeakerRule DEF kind_rules, origin_rules
    <2>2. QED
      BY <2>1, RuleFields DEF OneFieldPerColumn, KindColumns, Special
  <1>23. CASE kind = "epoch_rolled_back"
    <2>1. \A r \in kind_rules(kind) :
            \/ IsRule(r, "int", "pending_epoch", "pending_epoch")
            \/ IsRule(r, "int", "restored_epoch", "restored_epoch")
            \/ IsRule(r, "str", "pending_kind", "pending_kind")
      BY SMTT(60), <1>23, SimpleRule, ToRule, OptionalRule, WeakerRule DEF kind_rules
    <2>2. QED
      BY <2>1, RuleFields DEF OneFieldPerColumn, KindColumns, Special
  <1>24. CASE kind = "snapshot_created"
    <2>1. \A r \in kind_rules(kind) :
            \/ IsRule(r, "str", "snapshot_name", "snapshot_name")
            \/ IsRule(r, "int", "source_epoch", "source_epoch")
            \/ IsRule(r, "str", "reason", "reason")
      BY SMTT(60), <1>24, SimpleRule, ToRule, OptionalRule, WeakerRule DEF kind_rules
    <2>2. QED
      BY <2>1, RuleFields DEF OneFieldPerColumn, KindColumns, Special
  <1>25. CASE kind = "fork_resolution"
    <2>1. \A r \in kind_rules(kind) :
            \/ IsRule(r, "int", "source_epoch", "source_epoch")
            \/ IsRule(r, "plain", "candidate_digest", "candidate_digest")
            \/ IsRule(r, "plain", "winner", "winner")
            \/ IsRule(r, "plain", "incumbent_digest", "incumbent_digest")
            \/ IsRule(r, "plain", "invalidated_msg_id", "invalidated_msg_id")
      BY SMTT(60), <1>25, SimpleRule, ToRule, OptionalRule, WeakerRule DEF kind_rules
    <2>2. QED
      BY <2>1, RuleFields DEF OneFieldPerColumn, KindColumns, Special
  <1>26. CASE kind = "convergence_run_state"
    <2>1. \A r \in kind_rules(kind) :
            \/ IsRule(r, "plain", "phase", "outcome")
            \/ IsRule(r, "int", "current_tip_epoch", "current_tip_epoch")
            \/ IsRule(r, "text", "reason", "reason")
            \/ IsRule(r, "text", "error_kind", "outcome_kind")
      BY SMTT(60), <1>26, SimpleRule, ToRule, OptionalRule, WeakerRule DEF kind_rules
    <2>2. QED
      BY <2>1, RuleFields DEF OneFieldPerColumn, KindColumns, Special
  <1>27. CASE kind = "convergence_decision"
    <2>1. \A r \in kind_rules(kind) :
            \/ IsRule(r, "int", "current_tip_epoch", "current_tip_epoch")
            \/ IsRule(r, "int", "max_rewind_commits", "max_rewind_commits")
            \/ IsRule(r, "plain", "candidates", "candidate_count")
            \/ IsRule(r, "plain", "candidates", "eligible_count")
            \/ IsRule(r, "text", "selected_branch_id", "selected_branch_id")
            \/ IsRule(r, "int", "selected_fork_epoch", "selected_fork_epoch")
            \/ IsRule(r, "int", "selected_tip_epoch", "selected_tip_epoch")
      BY SMTT(60), <1>27, SimpleRule, ToRule, OptionalRule, WeakerRule DEF kind_rules
    <2>2. QED
      BY <2>1, RuleFields DEF OneFieldPerColumn, KindColumns, Special
  <1>28. CASE kind = "peeler_outcome"
    <2>1. \A r \in kind_rules(kind) :
            \/ IsRule(r, "plain", "msg_id", "msg_id") \/ IsRule(r, "plain", "outcome", "outcome")
            \/ IsRule(r, "plain", "fallback_snapshot_used", "fallback_snapshot_used")
            \/ IsRule(r, "text", "detail", "detail")
      BY SMTT(60), <1>28, SimpleRule, ToRule, OptionalRule, WeakerRule DEF kind_rules, MsgId
    <2>2. QED
      BY <2>1, RuleFields DEF OneFieldPerColumn, KindColumns, Special
  <1>29. CASE kind = "auto_commit_decision"
    <2>1. \A r \in kind_rules(kind) :
            \/ IsRule(r, "str", "proposal_kind", "proposal_kind")
            \/ IsRule(r, "str", "decision", "decision") \/ IsRule(r, "text", "reason", "reason")
      BY SMTT(60), <1>29, SimpleRule, ToRule, OptionalRule, WeakerRule DEF kind_rules
    <2>2. QED
      BY <2>1, RuleFields DEF OneFieldPerColumn, KindColumns, Special
  <1>30. CASE kind = "message_state_changed"
    <2>1. \A r \in kind_rules(kind) :
            \/ IsRule(r, "plain", "msg_id", "msg_id")
            \/ IsRule(r, "str", "new_state", "new_state") \/ IsRule(r, "str", "reason", "reason")
      BY SMTT(60), <1>30, SimpleRule, ToRule, OptionalRule, WeakerRule DEF kind_rules, MsgId
    <2>2. QED
      BY <2>1, RuleFields DEF OneFieldPerColumn, KindColumns, Special
  <1>31. CASE kind = "rejection"
    <2>1. \A r \in kind_rules(kind) :
            \/ IsRule(r, "plain", "msg_id", "msg_id") \/ IsRule(r, "str", "reason", "reason")
      BY SMTT(60), <1>31, SimpleRule, ToRule, OptionalRule, WeakerRule DEF kind_rules, MsgId
    <2>2. QED
      BY <2>1, RuleFields DEF OneFieldPerColumn, KindColumns, Special
  <1>32. CASE kind = "sync_drain"
    BY <1>32 DEF kind_rules, OneFieldPerColumn, KindColumns
  <1>33. QED
    BY <1>1, <1>2, <1>3, <1>4, <1>5, <1>6, <1>7, <1>8, <1>9, <1>10, <1>11, <1>12, <1>13,
       <1>14, <1>15, <1>16, <1>17, <1>18, <1>19, <1>20, <1>21, <1>22, <1>23, <1>24, <1>25, <1>26,
       <1>27, <1>28, <1>29, <1>30, <1>31, <1>32 DEF Kinds

-----------------------------------------------------------------------------
(* The columns of a row *)

LEMMA CopiedValue ==
    ASSUME NEW r, NEW part, NEW v \in Copied(r, part), r.how \notin Special
    PROVE  r.field \in DOMAIN part /\ v = part[r.field] /\ Fits(r.column, v)
  BY DEF Copied, Special, Refused

LEMMA CopiedWhole ==
    ASSUME NEW r, NEW part, r.field \in DOMAIN part, r.how \notin Special,
           ~Refused(r, part[r.field])
    PROVE  Copied(r, part) = {part[r.field]}
  BY DEF Copied, Special

\* A column is set by one of the rules, and every rule that copies sets its own.
LEMMA ColumnsSet ==
    ASSUME NEW R, NEW part
    PROVE  /\ \A r \in R : Copied(r, part) # {} => r.column \in DOMAIN Columns(R, part)
           /\ \A c \in DOMAIN Columns(R, part) :
                \E r \in R : r.column = c /\ Columns(R, part)[c] \in Copied(r, part)
  <1> DEFINE D == {r.column : r \in {q \in R : Copied(q, part) # {}}}
             V(c) == UNION {Copied(r, part) : r \in {q \in R : q.column = c}}
  <1>1. Columns(R, part) = [c \in D |-> CHOOSE v \in V(c) : TRUE]
    BY DEF Columns
  <1>2. \A r \in R : Copied(r, part) # {} => r.column \in D
    BY Zenon
  <1>3. ASSUME NEW c \in D
        PROVE  \E r \in R : r.column = c /\ Columns(R, part)[c] \in Copied(r, part)
    <2>1. PICK q \in R : q.column = c /\ Copied(q, part) # {}
      BY <1>3, Zenon
    <2>2. V(c) # {}
      BY <2>1
    <2>3. (CHOOSE v \in V(c) : TRUE) \in V(c)
      BY <2>2, Zenon
    <2> HIDE DEF D
    <2>4. Columns(R, part)[c] \in V(c)
      BY <1>1, <2>3
    <2>5. QED
      BY <2>4, Zenon
  <1> HIDE DEF D
  <1>4. DOMAIN Columns(R, part) = D
    BY <1>1
  <1>5. QED
    BY <1>2, <1>3, <1>4, Zenon

\* A record without errors: no rule refuses the value of its field.
LEMMA NothingRefused ==
    ASSUME NEW line, StorageErrors(line) = {}
    PROVE  /\ \A r \in kind_rules(line.kind) :
                r.field \in DOMAIN line.fields => ~Refused(r, line.fields[r.field])
           /\ \A r \in context_rules :
                r.field \in DOMAIN line.context => ~Refused(r, line.context[r.field])
           /\ \A r \in human_action_rules :
                r.field \in DOMAIN line.action => ~Refused(r, line.action[r.field])
  BY DEF StorageErrors, Errors

\* Rules that copy a part without special values or shared columns.
LEMMA PartCopied ==
    ASSUME NEW R, NEW part, \A r \in R : r.how \notin Special,
           \A r, q \in R : r.column = q.column => r.field = q.field,
           \A r \in R : r.field \in DOMAIN part => ~Refused(r, part[r.field])
    PROVE  /\ \A r \in R : r.field \in DOMAIN part =>
                r.column \in DOMAIN Columns(R, part) /\ Columns(R, part)[r.column] = part[r.field]
           /\ \A c \in DOMAIN Columns(R, part) :
                (\E r \in R : r.column = c) /\ Fits(c, Columns(R, part)[c])
  <1>1. ASSUME NEW c \in DOMAIN Columns(R, part)
        PROVE  \E q \in R : /\ q.column = c /\ q.field \in DOMAIN part
                            /\ Columns(R, part)[c] = part[q.field] /\ Fits(c, Columns(R, part)[c])
    <2>1. PICK q \in R : q.column = c /\ Columns(R, part)[c] \in Copied(q, part)
      BY ColumnsSet
    <2>2. QED
      BY <2>1, CopiedValue
  <1>2. ASSUME NEW r \in R, r.field \in DOMAIN part
        PROVE  r.column \in DOMAIN Columns(R, part) /\ Columns(R, part)[r.column] = part[r.field]
    <2>1. Copied(r, part) # {}
      BY <1>2, CopiedWhole
    <2>2. r.column \in DOMAIN Columns(R, part)
      BY <2>1, ColumnsSet
    <2>3. QED
      BY <1>1, <2>2
  <1>3. QED
    BY <1>1, <1>2

\* Neither the context nor its action sets a special column or one of the
\* envelope, and they set none of each other's.
LEMMA ContextColumns ==
    /\ \A r \in context_rules \cup human_action_rules :
        /\ r.how \notin Special
        /\ r.column \notin {"relay_urls", "outbound_msg_id", "outbound_welcome_msg_ids",
                            "engine_id", "account_ref"}
    /\ \A r, q \in context_rules : r.column = q.column => r.field = q.field
    /\ \A r, q \in human_action_rules : r.column = q.column => r.field = q.field
    /\ \A r \in context_rules, q \in human_action_rules : r.column # q.column
  <1>1. \A r \in context_rules :
          /\ r.how \notin Special
          /\ \/ r.field = "operation_id" /\ r.column = "context_operation_id"
             \/ r.field = "transport" /\ r.column = "context_transport"
             \/ r.field = "engine" /\ r.column = "context_engine"
             \/ r.field = "group" /\ r.column = "context_group"
             \/ r.field = "source" /\ r.column = "context_source"
             \/ r.field = "convergence" /\ r.column = "context_convergence"
    BY ContextRules, RuleFields DEF Special
  <1>2. \A r \in human_action_rules :
          /\ r.how \notin Special
          /\ \/ r.field = "action" /\ r.column = "human_action_action"
             \/ r.field = "origin" /\ r.column = "human_action_origin"
             \/ r.field = "fields" /\ r.column = "human_action_fields"
             \/ r.field = "component_ids" /\ r.column = "human_action_component_ids"
             \/ r.field = "target_count" /\ r.column = "human_action_target_count"
    BY ActionRules, RuleFields DEF Special
  <1>3. QED
    BY <1>1, <1>2

LEMMA OverlayIs ==
    ASSUME NEW f, NEW g
    PROVE  /\ DOMAIN Overlay(f, g) = DOMAIN f \cup DOMAIN g
           /\ \A c \in DOMAIN f : Overlay(f, g)[c] = f[c]
           /\ \A c \in DOMAIN g : c \notin DOMAIN f => Overlay(f, g)[c] = g[c]
  BY DEF Overlay

\* A record that may be stored is normalised to a row that holds what it says.
LEMMA RowHolds ==
    ASSUME NEW line, WellFormed(line), line.shape = "v4", StorageErrors(line) = {}
    PROVE  Holds(Normalized(line), line)
  <1> DEFINE K == Columns(kind_rules(line.kind), line.fields)
             C == Columns(context_rules, line.context)
             A == Columns(human_action_rules, line.action)
             V == Columns(envelope_rules, line.envelope)
             X == Overlay(C, A)
             Y == Overlay(X, V)
             row == Overlay(K, Y)
             R == kind_rules(line.kind)
  <1>1. Normalized(line) = row
    BY DEF Normalized, normalize_context
  <1>2. /\ \A r \in R : r.field \in DOMAIN line.fields => ~Refused(r, line.fields[r.field])
        /\ OneFieldPerColumn(R) /\ KindColumns(R)
        /\ \A f \in DOMAIN line.fields : \E r \in R : r.field = f
    BY NothingRefused, KindRules DEF WellFormed
  <1>3. /\ \A r \in R : Copied(r, line.fields) # {} => r.column \in DOMAIN K
        /\ \A c \in DOMAIN K : \E r \in R : r.column = c /\ K[c] \in Copied(r, line.fields)
    <2> HIDE DEF R
    <2>1. \A r \in R : Copied(r, line.fields) # {} => r.column \in DOMAIN Columns(R, line.fields)
      BY ColumnsSet
    <2>2. \A c \in DOMAIN Columns(R, line.fields) :
            \E r \in R : r.column = c /\ Columns(R, line.fields)[c] \in Copied(r, line.fields)
      BY ColumnsSet
    <2>3. K = Columns(R, line.fields)
      BY DEF R
    <2> HIDE DEF K
    <2>4. QED
      BY <2>1, <2>2, <2>3
  <1>4. /\ \A r \in context_rules : r.field \in DOMAIN line.context =>
                r.column \in DOMAIN C /\ C[r.column] = line.context[r.field]
        /\ \A c \in DOMAIN C : (\E r \in context_rules : r.column = c) /\ Fits(c, C[c])
    <2>1. /\ \A r \in context_rules : r.how \notin Special
          /\ \A r, q \in context_rules : r.column = q.column => r.field = q.field
          /\ \A r \in context_rules :
                r.field \in DOMAIN line.context => ~Refused(r, line.context[r.field])
      BY NothingRefused, ContextColumns
    <2>2. QED
      BY <2>1, PartCopied
  <1>5. /\ \A r \in human_action_rules : r.field \in DOMAIN line.action =>
                r.column \in DOMAIN A /\ A[r.column] = line.action[r.field]
        /\ \A c \in DOMAIN A : (\E r \in human_action_rules : r.column = c) /\ Fits(c, A[c])
    <2>1. /\ \A r \in human_action_rules : r.how \notin Special
          /\ \A r, q \in human_action_rules : r.column = q.column => r.field = q.field
          /\ \A r \in human_action_rules :
                r.field \in DOMAIN line.action => ~Refused(r, line.action[r.field])
      BY NothingRefused, ContextColumns
    <2>2. QED
      BY <2>1, PartCopied
  <1> HIDE DEF K, C, A, V, R
  <1>6. /\ DOMAIN row = DOMAIN K \cup DOMAIN Y
        /\ \A c \in DOMAIN K : row[c] = K[c]
        /\ \A c \in DOMAIN Y : c \notin DOMAIN K => row[c] = Y[c]
    <2> HIDE DEF Y
    <2>1. QED
      BY OverlayIs
  <1>7. DOMAIN Y = DOMAIN X \cup DOMAIN V /\ \A c \in DOMAIN X : Y[c] = X[c]
    <2> HIDE DEF X
    <2>1. QED
      BY OverlayIs
  <1>8. /\ DOMAIN X = DOMAIN C \cup DOMAIN A
        /\ \A c \in DOMAIN C : X[c] = C[c]
        /\ \A c \in DOMAIN A : c \notin DOMAIN C => X[c] = A[c]
    BY OverlayIs
  <1> HIDE DEF X, Y, row
  <1>9. ASSUME NEW r \in R, r.field \in DOMAIN line.fields, r.how \notin Special
        PROVE  /\ r.column \in DOMAIN K
               /\ row[r.column] = line.fields[r.field] /\ Fits(r.column, row[r.column])
    <2>1. r.column \in DOMAIN K
      BY <1>2, <1>3, <1>9, CopiedWhole
    <2>2. PICK q \in R : q.column = r.column /\ K[r.column] \in Copied(q, line.fields)
      BY <1>3, <2>1
    <2>3. q.how = r.how /\ q.field = r.field
      <3>1. CASE q.how = "relay" /\ r.field = "relay_urls"
        <4>1. Copied(q, line.fields) = {}
          BY <1>9, <3>1 DEF Copied
        <4>2. QED
          BY <2>2, <4>1
      <3>2. r.how # "relay"
        BY <1>9 DEF Special
      <3>3. QED
        BY <1>2, <2>2, <3>1, <3>2 DEF OneFieldPerColumn
    <2>4. K[r.column] = line.fields[r.field] /\ Fits(r.column, K[r.column])
      BY <1>9, <2>2, <2>3, CopiedValue
    <2>5. QED
      BY <1>6, <2>1, <2>4
  <1>10. ASSUME NEW c \in DOMAIN K,
                c \notin {"relay_urls", "outbound_msg_id", "outbound_welcome_msg_ids"}
         PROVE  /\ Fits(c, row[c])
                /\ \E q \in R : q.column = c /\ q.field \in DOMAIN line.fields
    <2>1. PICK q \in R : q.column = c /\ K[c] \in Copied(q, line.fields)
      BY <1>3
    <2>2. q.how \notin Special
      BY <1>2, <1>10, <2>1 DEF KindColumns
    <2>3. q.field \in DOMAIN line.fields /\ Fits(c, K[c])
      BY <2>1, <2>2, CopiedValue
    <2>4. QED
      BY <1>6, <2>1, <2>3
  <1>11. ASSUME NEW r \in context_rules \cup human_action_rules, NEW part,
                part = IF r \in context_rules THEN line.context ELSE line.action,
                r.field \in DOMAIN part
         PROVE  /\ r.column \in DOMAIN row /\ Fits(r.column, row[r.column])
                /\ \/ row[r.column] = part[r.field]
                   \/ \E q \in R : q.column = r.column /\ q.field \in DOMAIN line.fields
    <2>1. r.column \in DOMAIN X /\ X[r.column] = part[r.field] /\ Fits(r.column, X[r.column])
      <3>1. CASE r \in context_rules
        BY <1>4, <1>8, <1>11, <3>1
      <3>2. CASE r \notin context_rules
        <4>1. r \in human_action_rules /\ r.column \in DOMAIN A /\ A[r.column] = part[r.field]
          BY <1>5, <1>11, <3>2
        <4>2. r.column \notin DOMAIN C
          BY <1>4, <4>1, ContextColumns
        <4>3. QED
          BY <1>5, <1>8, <4>1, <4>2
      <3>3. QED
        BY <3>1, <3>2
    <2>2. r.column \notin {"relay_urls", "outbound_msg_id", "outbound_welcome_msg_ids"}
      BY ContextColumns
    <2>3. CASE r.column \in DOMAIN K
      BY <1>6, <1>10, <2>2, <2>3
    <2>4. CASE r.column \notin DOMAIN K
      BY <1>6, <1>7, <2>1, <2>4
    <2>5. QED
      BY <2>3, <2>4
  <1>12. ASSUME "relay_url" \in DOMAIN line.fields
         PROVE  "relay_urls" \in DOMAIN row
    <2>1. CASE "relay_urls" \in DOMAIN line.fields
      <3>1. PICK q \in R : q.field = "relay_urls"
        BY <1>2, <2>1
      <3>2. q.how = "plain" /\ q.column = "relay_urls"
        BY <1>2, <3>1 DEF KindColumns
      <3>3. q.how \notin Special /\ q.field \in DOMAIN line.fields
        BY <2>1, <3>1, <3>2 DEF Special
      <3>4. QED
        BY <1>6, <1>9, <3>2, <3>3
    <2>2. CASE "relay_urls" \notin DOMAIN line.fields
      <3>1. PICK q \in R : q.field = "relay_url"
        BY <1>2, <1>12
      <3>2. q.how = "relay" /\ q.column = "relay_urls"
        BY <1>2, <3>1 DEF KindColumns
      <3>3. Copied(q, line.fields) = {line.fields["relay_url"]}
        BY <1>12, <2>2, <3>1, <3>2 DEF Copied
      <3>4. QED
        BY <1>3, <1>6, <3>2, <3>3
    <2>3. QED
      BY <2>1, <2>2
  <1>13. Holds(row, line)
    BY <1>9, <1>11, <1>12 DEF Holds, R, Special
  <1>14. QED
    BY <1>1, <1>13

\* Who recorded a line and for which account is what its envelope says.
LEMMA EnvelopeColumns ==
    ASSUME NEW line, line.kind \in Kinds, NEW c \in {"engine_id", "account_ref"}
    PROVE  /\ c \in DOMAIN Normalized(line) <=> c \in DOMAIN Columns(envelope_rules, line.envelope)
           /\ c \in DOMAIN Normalized(line) =>
                Normalized(line)[c] = Columns(envelope_rules, line.envelope)[c]
  <1> DEFINE K == Columns(kind_rules(line.kind), line.fields)
             C == Columns(context_rules, line.context)
             A == Columns(human_action_rules, line.action)
             V == Columns(envelope_rules, line.envelope)
             X == Overlay(C, A)
             Y == Overlay(X, V)
  <1>1. Normalized(line) = Overlay(K, Y)
    BY DEF Normalized, normalize_context
  <1>2. c \notin DOMAIN K
    <2>1. \A d \in DOMAIN K : \E r \in kind_rules(line.kind) : r.column = d
      BY ColumnsSet, Zenon
    <2>2. QED
      BY <2>1, KindRules DEF KindColumns
  <1>3. c \notin DOMAIN C
    <2>1. \A d \in DOMAIN C : \E r \in context_rules : r.column = d
      BY ColumnsSet, Zenon
    <2>2. QED
      BY <2>1, ContextColumns
  <1>4. c \notin DOMAIN A
    <2>1. \A d \in DOMAIN A : \E r \in human_action_rules : r.column = d
      BY ColumnsSet, Zenon
    <2>2. QED
      BY <2>1, ContextColumns
  <1> HIDE DEF K, C, A, V
  <1>5. DOMAIN X = DOMAIN C \cup DOMAIN A
    BY OverlayIs
  <1> HIDE DEF X
  <1>6. DOMAIN Y = DOMAIN X \cup DOMAIN V /\ \A d \in DOMAIN V : d \notin DOMAIN X => Y[d] = V[d]
    BY OverlayIs
  <1> HIDE DEF Y
  <1>7. /\ DOMAIN Overlay(K, Y) = DOMAIN K \cup DOMAIN Y
        /\ \A d \in DOMAIN Y : d \notin DOMAIN K => Overlay(K, Y)[d] = Y[d]
    BY OverlayIs
  <1>8. QED
    BY <1>1, <1>2, <1>3, <1>4, <1>5, <1>6, <1>7 DEF V

-----------------------------------------------------------------------------
(* Reading a body *)

\* What parse_jsonl keeps of line n.
ParsedLine(lines, n) ==
    [number |-> n, error |-> LineError(lines[n]),
     columns |-> IF lines[n].shape = "v4" THEN Normalized(lines[n]) ELSE <<>>]

ParsedLines(lines) == {ParsedLine(lines, n) : n \in 1..Len(lines)}

\* The lines before p are read: those that are not blank are in q, in order.
Read(lines, p, q) ==
    /\ p \in 1..(Len(lines) + 1)
    /\ q \in Seq(ParsedLines(lines)) /\ Len(q) <= MaxRecords
    /\ \A i \in 1..Len(q) :
        /\ q[i].number \in 1..(p - 1)
        /\ q[i] = ParsedLine(lines, q[i].number)
        /\ lines[q[i].number].shape \notin {"long", "blank"}
    /\ \A i, j \in 1..Len(q) : i < j => q[i].number < q[j].number
    /\ \A n \in 1..(p - 1) : lines[n].shape # "blank" => \E i \in 1..Len(q) : q[i].number = n

LEMMA ParsedFields ==
    ASSUME NEW lines, NEW n
    PROVE  /\ ParsedLine(lines, n).number = n
           /\ ParsedLine(lines, n).error = LineError(lines[n])
           /\ lines[n].shape = "v4" => ParsedLine(lines, n).columns = Normalized(lines[n])
           /\ lines[n].shape # "v4" => ParsedLine(lines, n).columns = <<>>
  BY DEF ParsedLine

LEMMA ReadNothing ==
    ASSUME NEW lines, Len(lines) \in Nat
    PROVE  Read(lines, 1, <<>>)
  BY IntakeAssumption DEF Read

LEMMA ReadBlank ==
    ASSUME NEW lines, Len(lines) \in Nat, NEW p, NEW q, Read(lines, p, q), p <= Len(lines),
           lines[p].shape = "blank"
    PROVE  Read(lines, p + 1, q)
  <1>1. p \in 1..Len(lines) /\ p + 1 \in 1..(Len(lines) + 1) /\ 1..(p + 1 - 1) = 1..(p - 1) \cup {p}
    BY DEF Read
  <1>2. QED
    BY <1>1 DEF Read

LEMMA ReadRecord ==
    ASSUME NEW lines, Len(lines) \in Nat, NEW p, NEW q, Read(lines, p, q), p <= Len(lines),
           lines[p].shape \notin {"long", "blank"}, Len(q) < MaxRecords
    PROVE  Read(lines, p + 1, Append(q, ParsedLine(lines, p)))
  <1> DEFINE x == ParsedLine(lines, p)
             q2 == Append(q, x)
             L == ParsedLines(lines)
  <1>1. p \in 1..Len(lines) /\ p + 1 \in 1..(Len(lines) + 1) /\ 1..(p + 1 - 1) = 1..(p - 1) \cup {p}
    BY DEF Read
  <1>2. x \in L /\ q \in Seq(L) /\ x.number = p
    BY <1>1, ParsedFields DEF Read, ParsedLines
  <1> HIDE DEF x, L
  <1>3. /\ q2 \in Seq(L) /\ Len(q2) = Len(q) + 1 /\ Len(q) \in Nat
        /\ q2[Len(q) + 1] = x /\ \A i \in 1..Len(q) : q2[i] = q[i]
    BY <1>2
  <1> HIDE DEF q2
  <1>4. Len(q2) <= MaxRecords
    BY <1>3, IntakeAssumption
  <1>5. \A i \in 1..Len(q2) :
            /\ q2[i].number \in 1..(p + 1 - 1)
            /\ q2[i] = ParsedLine(lines, q2[i].number)
            /\ lines[q2[i].number].shape \notin {"long", "blank"}
    <2> SUFFICES ASSUME NEW i \in 1..Len(q2)
                 PROVE  /\ q2[i].number \in 1..(p - 1) \cup {p}
                        /\ q2[i] = ParsedLine(lines, q2[i].number)
                        /\ lines[q2[i].number].shape \notin {"long", "blank"}
      BY <1>1
    <2>1. CASE i = Len(q) + 1
      BY <1>2, <1>3, <2>1 DEF x
    <2>2. CASE i # Len(q) + 1
      <3>1. i \in 1..Len(q)
        BY <1>3, <2>2
      <3>2. QED
        BY <1>3, <3>1 DEF Read
    <2>3. QED
      BY <2>1, <2>2
  <1>6. ASSUME NEW i \in 1..Len(q2), NEW j \in 1..Len(q2), i < j
        PROVE  q2[i].number < q2[j].number
    <2>1. i \in 1..Len(q)
      BY <1>3, <1>6
    <2>2. CASE j = Len(q) + 1
      <3>1. q[i].number \in 1..(p - 1)
        BY <2>1 DEF Read
      <3>2. QED
        BY <1>1, <1>2, <1>3, <2>1, <2>2, <3>1
    <2>3. CASE j # Len(q) + 1
      <3>1. j \in 1..Len(q)
        BY <1>3, <2>3
      <3>2. QED
        BY <1>3, <1>6, <2>1, <3>1 DEF Read
    <2>4. QED
      BY <2>2, <2>3
  <1>7. ASSUME NEW n \in 1..(p + 1 - 1), lines[n].shape # "blank"
        PROVE  \E i \in 1..Len(q2) : q2[i].number = n
    <2>1. CASE n = p
      BY <1>2, <1>3, <2>1
    <2>2. CASE n # p
      <3>1. PICK i \in 1..Len(q) : q[i].number = n
        BY <1>1, <1>7, <2>2 DEF Read
      <3>2. i \in 1..Len(q2) /\ q2[i].number = n
        BY <1>3, <3>1
      <3>3. QED
        BY <3>2
    <2>3. QED
      BY <2>1, <2>2
  <1>8. QED
    BY <1>1, <1>3, <1>4, <1>5, <1>6, <1>7 DEF Read, q2, x, L

NotBlankBefore(lines, p) == {n \in 1..(p - 1) : lines[n].shape # "blank"}

\* There is one parsed line for each line that was read and is not blank.
LEMMA ReadCount ==
    ASSUME NEW lines, Len(lines) \in Nat, NEW p, NEW q, Read(lines, p, q)
    PROVE  /\ IsFiniteSet(NotBlankBefore(lines, p))
           /\ Cardinality(NotBlankBefore(lines, p)) = Len(q)
  <1> DEFINE S == 1..Len(q)
             T == NotBlankBefore(lines, p)
             f == [i \in S |-> q[i].number]
  <1>1. Len(q) \in Nat
    BY DEF Read
  <1>2. IsFiniteSet(S) /\ Cardinality(S) = Len(q)
    <2>1. 1 \in Int /\ Len(q) \in Int
      BY <1>1
    <2>2. /\ IsFiniteSet(1..Len(q))
          /\ Cardinality(1..Len(q)) = IF 1 > Len(q) THEN 0 ELSE Len(q) - 1 + 1
      BY ONLY <2>1, FS_Interval, Zenon
    <2>3. QED
      BY <1>1, <2>2
  <1>3. f \in [S -> T]
    BY DEF Read, NotBlankBefore
  <1>4. ASSUME NEW i \in S, NEW j \in S, f[i] = f[j]
        PROVE  i = j
    <2>1. q[i].number = q[j].number /\ q[i].number \in Int
      BY <1>4 DEF Read
    <2>2. i < j \/ j < i \/ i = j
      BY <1>1
    <2>3. QED
      BY <2>1, <2>2 DEF Read
  <1>5. ASSUME NEW n \in T
        PROVE  \E i \in S : f[i] = n
    BY DEF Read, NotBlankBefore
  <1> HIDE DEF S, T, f
  <1>6. IsFiniteSet(T) /\ Cardinality(T) = Cardinality(S)
    BY <1>2, <1>3, <1>4, <1>5, OneToOne
  <1>7. QED
    BY <1>2, <1>6 DEF T

LEMMA LenNotBlank ==
    ASSUME NEW lines, Len(lines) \in Nat
    PROVE  NotBlankBefore(lines, Len(lines) + 1) = NotBlank(lines)
  <1>1. Len(lines) + 1 - 1 = Len(lines)
    OBVIOUS
  <1>2. QED
    BY <1>1 DEF NotBlankBefore, NotBlank

-----------------------------------------------------------------------------
(* What is wrong with a line *)

LEMMA LineErrors ==
    ASSUME NEW line, WellFormed(line), line.shape \notin {"long", "blank", "no utf8"}
    PROVE  /\ LineError(line) \in LineCodes \cup {"none"}
           /\ LineError(line) = "none" => line.shape = "v4" /\ StorageErrors(line) = {}
           /\ LineError(line) = "storage_limit_exceeded" =>
                line.shape = "v4" /\ StorageErrors(line) # {}
  BY DEF LineError, WellFormed, Shapes, loads_audit_json, LineCodes

\* A rule refuses what exceeds its column and what it does not welcome.
LEMMA RefusedValue ==
    ASSUME NEW r, NEW v
    PROVE  Refused(r, v) <=> Exceeds(r, v) \/ Unwelcome(r, v)
  <1>1. v.type = "float" => ~Fits(r.column, v)
    BY DEF Fits
  <1>2. QED
    BY <1>1 DEF Refused, Exceeds, Unwelcome

LEMMA RefusedPart ==
    ASSUME NEW R, NEW part
    PROVE  Errors(R, part) # {} <=>
                \/ \E r \in R : r.field \in DOMAIN part /\ Exceeds(r, part[r.field])
                \/ \E r \in R : r.field \in DOMAIN part /\ Unwelcome(r, part[r.field])
  <1>1. \A r \in R : Refused(r, part[r.field]) <=>
                        Exceeds(r, part[r.field]) \/ Unwelcome(r, part[r.field])
    BY RefusedValue
  <1>2. QED
    BY <1>1 DEF Errors

\* A record is refused for its storage if and only if it holds a value that no column
\* takes or one that the code does not want.
LEMMA RefusedRecord ==
    ASSUME NEW line
    PROVE  StorageErrors(line) # {} <=> Unstorable(line) \/ Unwanted(line)
  <1> DEFINE e == <<envelope_rules, line.envelope>>
             c == <<context_rules, line.context>>
             h == <<human_action_rules, line.action>>
             k == <<kind_rules(line.kind), line.fields>>
  <1>1. /\ e[1] = envelope_rules /\ e[2] = line.envelope
        /\ c[1] = context_rules /\ c[2] = line.context
        /\ h[1] = human_action_rules /\ h[2] = line.action
        /\ k[1] = kind_rules(line.kind) /\ k[2] = line.fields
    OBVIOUS
  <1>2. Parts(line) = {e, c, h, k}
    BY DEF Parts
  <1> HIDE DEF e, c, h, k
  <1>3. StorageErrors(line) # {} <=> \E q \in Parts(line) : Errors(q[1], q[2]) # {}
    <2>1. StorageErrors(line) =
            Errors(e[1], e[2]) \cup Errors(c[1], c[2]) \cup Errors(h[1], h[2]) \cup Errors(k[1], k[2])
      BY <1>1 DEF StorageErrors
    <2>2. QED
      BY <1>2, <2>1
  <1>4. \A q \in Parts(line) : Errors(q[1], q[2]) # {} <=>
            \/ \E r \in q[1] : r.field \in DOMAIN q[2] /\ Exceeds(r, q[2][r.field])
            \/ \E r \in q[1] : r.field \in DOMAIN q[2] /\ Unwelcome(r, q[2][r.field])
    BY RefusedPart
  <1>5. QED
    BY <1>3, <1>4 DEF Unstorable, Unwanted

\* Of a line that is looked at, the error is the one fault it has.
LEMMA LineFaults ==
    ASSUME NEW line, WellFormed(line), line.shape \notin {"long", "blank", "no utf8"}
    PROVE  \A c \in LineCodes : Faulty(line, c) <=> LineError(line) = c
  <1>1. line.shape = "v4" => (LineError(line) = "storage_limit_exceeded" <=> StorageErrors(line) # {})
    BY DEF LineError, loads_audit_json
  <1>2. (line.shape = "v4" /\ (Unstorable(line) \/ Unwanted(line))) <=>
            LineError(line) = "storage_limit_exceeded"
    BY <1>1, LineErrors, RefusedRecord
  <1>3. ASSUME NEW c \in LineCodes \ {"storage_limit_exceeded"}
        PROVE  Faulty(line, c) <=> LineError(line) = c
    BY DEF LineError, WellFormed, Shapes, loads_audit_json, LineCodes, Faulty
  <1>4. Faulty(line, "storage_limit_exceeded") <=> LineError(line) = "storage_limit_exceeded"
    BY <1>2 DEF Faulty
  <1>5. QED
    BY <1>3, <1>4

\* A blank line has no fault.
LEMMA BlankFaultless ==
    ASSUME NEW line, line.shape = "blank", NEW c \in LineCodes
    PROVE  ~Faulty(line, c)
  BY DEF Faulty

Sound(lines) ==
    /\ Len(lines) \in Nat
    /\ \A n \in 1..Len(lines) : WellFormed(lines[n]) /\ lines[n].shape # "no utf8"

\* A body whose parsed lines have no error is one of records alone.
LEMMA AllRecords ==
    ASSUME NEW lines, Sound(lines), NEW q, Read(lines, Len(lines) + 1, q),
           \A i \in 1..Len(q) : q[i].error = "none"
    PROVE  /\ \A n \in NotBlank(lines) : lines[n].shape = "v4" /\ StorageErrors(lines[n]) = {}
           /\ FaultlessBefore(lines, Len(lines) + 1)
           /\ Cardinality(NotBlank(lines)) = Len(q) /\ Cardinality(NotBlank(lines)) <= MaxRecords
  <1>0. Len(lines) \in Nat /\ Len(lines) + 1 - 1 = Len(lines)
    <2>1. Len(lines) \in Nat
      BY DEF Sound
    <2>2. QED
      BY <2>1
  <1>1. ASSUME NEW n \in NotBlank(lines)
        PROVE  lines[n].shape = "v4" /\ StorageErrors(lines[n]) = {} /\ LineError(lines[n]) = "none"
    <2>1. n \in 1..Len(lines) /\ lines[n].shape # "blank" /\ WellFormed(lines[n])
      BY DEF NotBlank, Sound
    <2>2. PICK i \in 1..Len(q) : q[i].number = n
      BY <1>0, <2>1 DEF Read
    <2>3. q[i] = ParsedLine(lines, n) /\ lines[n].shape \notin {"long", "blank"}
      BY <2>2 DEF Read
    <2>4. LineError(lines[n]) = "none"
      BY <2>3, ParsedFields
    <2>5. lines[n].shape # "no utf8"
      BY <2>1 DEF Sound
    <2>6. QED
      BY <2>1, <2>3, <2>4, <2>5, LineErrors
  <1>2. FaultlessBefore(lines, Len(lines) + 1)
    <2> SUFFICES ASSUME NEW n \in 1..Len(lines), NEW c \in LineCodes
                 PROVE  ~Faulty(lines[n], c)
      BY <1>0 DEF FaultlessBefore
    <2>1. CASE lines[n].shape = "blank"
      BY <2>1, BlankFaultless
    <2>2. CASE lines[n].shape # "blank"
      <3>1. lines[n].shape = "v4" /\ LineError(lines[n]) = "none" /\ WellFormed(lines[n])
        BY <1>1, <2>2 DEF NotBlank, Sound
      <3>2. Faulty(lines[n], c) <=> LineError(lines[n]) = c
        BY <3>1, LineFaults
      <3>3. QED
        BY <3>1, <3>2 DEF LineCodes
    <2>3. QED
      BY <2>1, <2>2
  <1>3. Cardinality(NotBlank(lines)) = Len(q)
    BY <1>0, ReadCount, LenNotBlank
  <1>4. Len(q) <= MaxRecords
    BY DEF Read
  <1>5. QED
    BY <1>1, <1>2, <1>3, <1>4

\* The first parsed line with an error is the first line at fault.
LEMMA FirstFault ==
    ASSUME NEW lines, Sound(lines), NEW q, Read(lines, Len(lines) + 1, q),
           NEW i \in 1..Len(q), q[i].error # "none",
           \A j \in 1..Len(q) : q[j].error # "none" => i <= j
    PROVE  /\ q[i].error \in LineCodes
           /\ q[i].number \in NotBlank(lines) /\ Faulty(lines[q[i].number], q[i].error)
           /\ FaultlessBefore(lines, q[i].number)
  <1> DEFINE n == q[i].number
  <1>0. Len(lines) \in Nat /\ Len(lines) + 1 - 1 = Len(lines) /\ Len(q) \in Nat
    <2>1. Len(lines) \in Nat
      BY DEF Sound
    <2>2. Len(q) \in Nat
      BY DEF Read
    <2>3. QED
      BY <2>1, <2>2
  <1>1. n \in 1..Len(lines) /\ q[i] = ParsedLine(lines, n) /\ lines[n].shape \notin {"long", "blank"}
    BY <1>0 DEF Read
  <1>2. n \in NotBlank(lines) /\ WellFormed(lines[n]) /\ lines[n].shape # "no utf8"
    BY <1>1 DEF NotBlank, Sound
  <1>3. q[i].error = LineError(lines[n])
    <2>1. ParsedLine(lines, n).error = LineError(lines[n])
      BY ParsedFields, Zenon
    <2>2. QED
      BY <1>1, <2>1, Zenon
  <1>4. q[i].error \in LineCodes
    BY <1>1, <1>2, <1>3, LineErrors
  <1>5. Faulty(lines[n], q[i].error)
    BY <1>1, <1>2, <1>3, <1>4, LineFaults
  <1>6. ASSUME NEW m \in 1..(n - 1), NEW c \in LineCodes
        PROVE  ~Faulty(lines[m], c)
    <2>1. m \in 1..Len(lines) /\ n \in Int /\ m < n
      BY <1>0, <1>1
    <2>2. CASE lines[m].shape = "blank"
      BY <2>2, BlankFaultless
    <2>3. CASE lines[m].shape # "blank"
      <3>1. PICK j \in 1..Len(q) : q[j].number = m
        BY <1>0, <2>1, <2>3 DEF Read
      <3>2. q[j].error = "none"
        <4>1. SUFFICES ASSUME i <= j PROVE FALSE
          OBVIOUS
        <4>2. i # j
          BY <2>1, <3>1
        <4>3. i < j
          BY <1>0, <4>1, <4>2
        <4>4. n < m
          BY <3>1, <4>3 DEF Read
        <4>5. QED
          BY <2>1, <4>4
      <3>3. q[j] = ParsedLine(lines, m)
        BY <3>1 DEF Read
      <3>4. LineError(lines[m]) = "none"
        BY <3>2, <3>3, ParsedFields
      <3>5. WellFormed(lines[m]) /\ lines[m].shape \notin {"long", "blank", "no utf8"}
        BY <2>1, <3>1 DEF Read, Sound
      <3>6. Faulty(lines[m], c) <=> LineError(lines[m]) = c
        BY <3>5, LineFaults
      <3>7. QED
        BY <3>4, <3>6 DEF LineCodes
    <2>4. QED
      BY <2>2, <2>3
  <1>7. FaultlessBefore(lines, n)
    BY <1>6 DEF FaultlessBefore
  <1>8. QED
    BY <1>2, <1>3, <1>4, <1>5, <1>7

-----------------------------------------------------------------------------
(* What a file says of itself *)

CarriedBy(q, c) == {q[i].columns[c] : i \in {j \in 1..Len(q) : c \in DOMAIN q[j].columns}}
RefsOf(q) == {v.ref : v \in CarriedBy(q, "context_source")} \ {""}
Envelopes(lines) == {lines[i].envelope : i \in NotBlank(lines)}

LEMMA CarriedFinite ==
    ASSUME NEW q, Len(q) \in Nat, NEW c
    PROVE  IsFiniteSet(CarriedBy(q, c))
  <1> DEFINE S == {j \in 1..Len(q) : c \in DOMAIN q[j].columns}
             T == CarriedBy(q, c)
             f == [i \in S |-> q[i].columns[c]]
  <1>1. IsFiniteSet(S)
    <2>1. 1 \in Int /\ Len(q) \in Int
      OBVIOUS
    <2>2. IsFiniteSet(1..Len(q))
      BY ONLY <2>1, FS_Interval, Zenon
    <2>3. S \in SUBSET (1..Len(q))
      OBVIOUS
    <2> HIDE DEF S
    <2>4. QED
      BY ONLY <2>2, <2>3, FS_Subset, Zenon
  <1>2. f \in [S -> T] /\ \A t \in T : \E i \in S : f[i] = t
    BY DEF CarriedBy
  <1> HIDE DEF S, T, f
  <1>3. IsFiniteSet(T)
    BY <1>1, <1>2, Onto
  <1>4. QED
    BY <1>3 DEF T

\* The recorder and the account of a file's rows differ only if its envelopes do.
LEMMA IdentityFromEnvelopes ==
    ASSUME NEW lines, Sound(lines), NEW q, Read(lines, Len(lines) + 1, q),
           \A i \in 1..Len(q) : q[i].error = "none",
           NEW c \in {"engine_id", "account_ref"}, Cardinality(CarriedBy(q, c)) > 1
    PROVE  Cardinality(Envelopes(lines)) > 1
  <1> DEFINE Col(e) == Columns(envelope_rules, e)
             E == Envelopes(lines)
             S == {e \in E : c \in DOMAIN Col(e)}
             T == CarriedBy(q, c)
             f == [e \in S |-> Col(e)[c]]
             N == NotBlank(lines)
             g == [n \in N |-> lines[n].envelope]
  <1>0. Len(lines) \in Nat /\ Len(lines) + 1 - 1 = Len(lines) /\ Len(q) \in Nat
    <2>1. Len(lines) \in Nat
      BY DEF Sound
    <2>2. Len(q) \in Nat
      BY DEF Read
    <2>3. QED
      BY <2>1, <2>2
  <1>1. IsFiniteSet(N)
    BY <1>0, ReadCount, LenNotBlank
  <1>2. IsFiniteSet(E)
    <2>1. g \in [N -> E] /\ \A e \in E : \E n \in N : g[n] = e
      BY DEF Envelopes
    <2> HIDE DEF N, E, g
    <2>2. QED
      BY <1>1, <2>1, Onto
  <1>3. IsFiniteSet(S) /\ Cardinality(S) <= Cardinality(E)
    <2>1. S \in SUBSET E
      OBVIOUS
    <2> HIDE DEF S, E
    <2>2. QED
      BY ONLY <1>2, <2>1, FS_Subset, Zenon
  <1>4. ASSUME NEW n \in N
        PROVE  /\ \E i \in 1..Len(q) : q[i].number = n
               /\ lines[n].kind \in Kinds
               /\ \A i \in 1..Len(q) : q[i].number = n => q[i].columns = Normalized(lines[n])
    <2>1. n \in 1..Len(lines) /\ lines[n].shape # "blank" /\ lines[n].shape = "v4"
      BY AllRecords DEF NotBlank
    <2>2. \E i \in 1..Len(q) : q[i].number = n
      BY <1>0, <2>1 DEF Read
    <2>3. lines[n].kind \in Kinds
      BY <2>1 DEF Sound, WellFormed
    <2>4. ASSUME NEW i \in 1..Len(q), q[i].number = n
          PROVE  q[i].columns = Normalized(lines[n])
      <3>1. q[i] = ParsedLine(lines, n)
        BY <2>4 DEF Read
      <3>2. QED
        BY <2>1, <3>1, ParsedFields
    <2>5. QED
      BY <2>2, <2>3, <2>4
  <1>5. ASSUME NEW i \in 1..Len(q)
        PROVE  q[i].number \in N
    BY <1>0 DEF Read, NotBlank
  <1> HIDE DEF N
  <1>6. ASSUME NEW n \in N
        PROVE  /\ c \in DOMAIN Normalized(lines[n]) <=> c \in DOMAIN Col(lines[n].envelope)
               /\ c \in DOMAIN Normalized(lines[n]) =>
                    Normalized(lines[n])[c] = Col(lines[n].envelope)[c]
    BY <1>4, EnvelopeColumns
  <1> HIDE DEF Col
  <1>7. f \in [S -> T]
    <2> SUFFICES ASSUME NEW e \in S
                 PROVE  Col(e)[c] \in T
      OBVIOUS
    <2>1. PICK n \in N : e = lines[n].envelope
      BY DEF Envelopes, N
    <2>2. PICK i \in 1..Len(q) : q[i].number = n
      BY <1>4
    <2>3. q[i].columns = Normalized(lines[n]) /\ c \in DOMAIN q[i].columns
          /\ q[i].columns[c] = Col(e)[c]
      BY <1>4, <1>6, <2>1, <2>2
    <2>4. QED
      BY <2>3 DEF CarriedBy
  <1>8. ASSUME NEW t \in T
        PROVE  \E e \in S : f[e] = t
    <2>1. PICK i \in 1..Len(q) : c \in DOMAIN q[i].columns /\ t = q[i].columns[c]
      BY DEF CarriedBy
    <2> DEFINE n == q[i].number
               e == lines[n].envelope
    <2>2. n \in N /\ q[i].columns = Normalized(lines[n])
      BY <1>4, <1>5
    <2>3. e \in S /\ Col(e)[c] = t
      BY <1>6, <2>1, <2>2 DEF Envelopes, N
    <2>4. QED
      BY <2>3
  <1> HIDE DEF S, T, f, E
  <1>9. IsFiniteSet(T) /\ Cardinality(T) <= Cardinality(S)
    BY <1>3, <1>7, <1>8, Onto
  <1>10. Cardinality(T) \in Nat /\ Cardinality(S) \in Nat /\ Cardinality(E) \in Nat
    BY <1>2, <1>3, <1>9, FS_CardinalityType
  <1>11. Cardinality(T) > 1
    BY DEF T
  <1>12. Cardinality(E) > 1
    BY <1>3, <1>9, <1>10, <1>11
  <1>13. QED
    BY <1>12 DEF E

\* The only member that the rows name is the one of every row that names any.
LEMMA OneMember ==
    ASSUME NEW q, Len(q) \in Nat, Cardinality(RefsOf(q)) = 1
    PROVE  \A i \in 1..Len(q) : "context_source" \in DOMAIN q[i].columns =>
                q[i].columns["context_source"].ref \in {"", CHOOSE r \in RefsOf(q) : TRUE}
  <1> DEFINE S == CarriedBy(q, "context_source")
             T == {v.ref : v \in S}
             f == [v \in S |-> v.ref]
  <1>1. IsFiniteSet(S)
    BY CarriedFinite
  <1>2. IsFiniteSet(T)
    <2>1. f \in [S -> T] /\ \A t \in T : \E v \in S : f[v] = t
      OBVIOUS
    <2> HIDE DEF S, T, f
    <2>2. QED
      BY <1>1, <2>1, Onto
  <1>3. IsFiniteSet(RefsOf(q))
    <2>1. RefsOf(q) \in SUBSET T
      BY DEF RefsOf
    <2> HIDE DEF T
    <2>2. QED
      BY ONLY <1>2, <2>1, FS_Subset, Zenon
  <1>4. PICK r : RefsOf(q) = {r}
    BY <1>3, FS_Singleton
  <1>5. (CHOOSE x \in RefsOf(q) : TRUE) = r
    BY <1>4
  <1>6. ASSUME NEW i \in 1..Len(q), "context_source" \in DOMAIN q[i].columns
        PROVE  q[i].columns["context_source"].ref \in {"", r}
    <2>1. q[i].columns["context_source"] \in S
      BY <1>6 DEF CarriedBy
    <2>2. q[i].columns["context_source"].ref \in T
      BY <2>1
    <2>3. QED
      BY <1>4, <2>2 DEF RefsOf
  <1>7. QED
    BY <1>5, <1>6

\* One statement binds no more parameters than PostgreSQL takes.
LEMMA BatchBinds ==
    /\ audit_event_batch_size \in Nat /\ audit_event_batch_size >= 1
    /\ audit_event_batch_size * EventColumns <= MaxBind
  <1> DEFINE d == EventColumns * 2
             h == MaxBind \div d
  <1>1. MaxBind \in Nat /\ EventColumns \in Nat /\ EventColumns >= 1 /\ EventColumns <= MaxBind
    BY IntakeAssumption
  <1>2. d \in Nat /\ d >= 1
    BY <1>1
  <1>3. h \in Nat /\ d * h <= MaxBind
    <2> HIDE DEF d
    <2>1. h \in Int /\ MaxBind = (d * h) + (MaxBind % d) /\ MaxBind % d \in 0..(d - 1)
      BY <1>1, <1>2
    <2>2. QED
      BY <1>1, <1>2, <2>1
  <1>4. CASE h < 1
    BY <1>1, <1>4 DEF audit_event_batch_size
  <1>5. CASE ~(h < 1)
    <2>1. audit_event_batch_size = h
      BY <1>5 DEF audit_event_batch_size
    <2> HIDE DEF h
    <2>2. d * h = 2 * (h * EventColumns) /\ h * EventColumns \in Nat
      BY <1>1, <1>3
    <2>3. QED
      BY <1>1, <1>3, <1>5, <2>1, <2>2
  <1>6. QED
    BY <1>4, <1>5

LEMMA ProductGrows ==
    ASSUME NEW a \in Nat, NEW b \in Nat, NEW c \in Nat, a <= b
    PROVE  a * c \in Nat /\ a * c <= b * c
  OBVIOUS

-----------------------------------------------------------------------------
(* The inductive invariant *)

Taken == {"accepted", "stored"}

ReadInv == body \in Uploads /\ Read(body, place, parsed)
TextInv == verdict \notin {"received", "invalid_utf8"} => Sound(body)
TakenInv ==
    verdict \in Taken =>
        place = Len(body) + 1 /\ parsed # <<>> /\ \A i \in 1..Len(parsed) : parsed[i].error = "none"

\* The rows inserted are the first of the parsed lines, and in the end all of them.
InsertedInv ==
    /\ inserted \in Seq(ParsedLines(body)) /\ Len(inserted) <= Len(parsed)
    /\ \A i \in 1..Len(inserted) : inserted[i] = parsed[i]
    /\ verdict = "stored" => Len(inserted) = Len(parsed)
    /\ verdict \notin Taken => inserted = <<>>

MemberInv ==
    member # "" =>
        /\ verdict \in Taken
        /\ \A i \in 1..Len(parsed) : "context_source" \in DOMAIN parsed[i].columns =>
            parsed[i].columns["context_source"].ref \in {"", member}

StatementsInv ==
    statements \in Seq(Nat) /\ \A i \in 1..Len(statements) : statements[i] <= MaxBind

IntakeInv ==
    /\ ReadInv /\ TextInv /\ TakenInv /\ InsertedInv /\ MemberInv /\ StatementsInv
    /\ RejectedRightly

LEMMA LenBody ==
    ASSUME body \in Uploads
    PROVE  Len(body) \in Nat /\ \A n \in 1..Len(body) : WellFormed(body[n])
  BY UploadsAssumption

LEMMA NoRows ==
    ASSUME NEW S
    PROVE  <<>> \in Seq(S) /\ Len(<<>>) = 0 /\ 1..Len(<<>>) = {}
  <1>1. <<>> \in Seq(S) /\ Len(<<>>) = 0
    OBVIOUS
  <1>2. QED
    BY <1>1

\* Nothing is inserted before a body is taken.
LEMMA NothingInserted ==
    ASSUME inserted = <<>>, Len(parsed) \in Nat, verdict \notin Taken
    PROVE  InsertedInv
  BY NoRows DEF InsertedInv, Taken

LEMMA IntakeInitInv == IntakeInit => IntakeInv
  <1> SUFFICES ASSUME IntakeInit PROVE IntakeInv
    OBVIOUS
  <1>1. ReadInv
    <2>1. Read(body, 1, <<>>)
      BY LenBody, ReadNothing DEF IntakeInit
    <2>2. QED
      BY <2>1 DEF IntakeInit, ReadInv
  <1>2. TextInv /\ TakenInv /\ MemberInv
    BY DEF IntakeInit, TextInv, TakenInv, MemberInv, Taken
  <1>3. InsertedInv
    <2>1. Len(parsed) \in Nat
      BY NoRows DEF IntakeInit
    <2>2. QED
      BY <2>1, NothingInserted DEF IntakeInit, Taken
  <1>4. StatementsInv
    <2>1. statements \in Seq(Nat) /\ 1..Len(statements) = {}
      BY NoRows DEF IntakeInit
    <2>2. QED
      BY <2>1 DEF StatementsInv
  <1>5. RejectedRightly
    BY DEF IntakeInit, RejectedRightly, Deserved
  <1>6. QED
    BY <1>1, <1>2, <1>3, <1>4, <1>5 DEF IntakeInv

LEMMA DecodeStep ==
    ASSUME IntakeInv, Decode
    PROVE  IntakeInv'
  <1>0. /\ UNCHANGED <<body, place, parsed, member, inserted, statements>>
        /\ verdict = "received" /\ verdict' \in {"invalid_utf8", "reading"}
        /\ body \in Uploads /\ member = "" /\ inserted = <<>>
        /\ Len(body) \in Nat /\ \A n \in 1..Len(body) : WellFormed(body[n])
    BY LenBody DEF Decode, Give, IntakeInv, ReadInv, MemberInv, InsertedInv, Taken
  <1>1. ReadInv'
    BY <1>0 DEF IntakeInv, ReadInv
  <1>2. TextInv'
    <2>1. CASE verdict' = "invalid_utf8"
      BY <2>1 DEF TextInv
    <2>2. CASE verdict' # "invalid_utf8"
      <3>1. \A i \in 1..Len(body) : body[i].shape # "no utf8"
        BY <2>2 DEF Decode, Give
      <3>2. Sound(body)
        BY <1>0, <3>1 DEF Sound
      <3>3. QED
        BY <1>0, <3>2 DEF TextInv
    <2>3. QED
      BY <2>1, <2>2
  <1>3. TakenInv'
    BY <1>0 DEF TakenInv, Taken
  <1>4. InsertedInv'
    BY <1>0 DEF IntakeInv, InsertedInv, Taken
  <1>5. MemberInv' /\ StatementsInv'
    BY <1>0 DEF IntakeInv, MemberInv, StatementsInv
  <1>6. RejectedRightly'
    <2>1. CASE verdict' = "invalid_utf8"
      <3>1. \E i \in 1..Len(body) : body[i].shape = "no utf8"
        BY <2>1 DEF Decode, Give
      <3>2. \E i \in NotBlank(body) : body[i].shape = "no utf8"
        BY <3>1 DEF NotBlank
      <3>3. \A n : Deserved(body, "invalid_utf8", n)
        BY <3>2 DEF Deserved
      <3>4. QED
        BY <1>0, <2>1, <3>3 DEF RejectedRightly
    <2>2. CASE verdict' = "reading"
      BY <2>2 DEF RejectedRightly, Deserved
    <2>3. QED
      BY <1>0, <2>1, <2>2
  <1>7. QED
    BY <1>1, <1>2, <1>3, <1>4, <1>5, <1>6 DEF IntakeInv

\* The limit is reached: there is a line too long, or one record too many.
LEMMA LimitDeserved ==
    ASSUME NEW lines, Sound(lines), NEW p, NEW q, Read(lines, p, q), p <= Len(lines),
           lines[p].shape = "long" \/ (lines[p].shape # "blank" /\ Len(q) >= MaxRecords), NEW n
    PROVE  Deserved(lines, "processing_limit", n)
  <1>0. Len(lines) \in Nat /\ p \in 1..Len(lines) /\ Len(q) \in Nat /\ MaxRecords \in Nat
    <2>1. Len(lines) \in Nat /\ MaxRecords \in Nat
      BY IntakeAssumption DEF Sound
    <2>2. Len(q) \in Nat /\ p \in 1..(Len(lines) + 1)
      BY DEF Read
    <2>3. QED
      BY <2>1, <2>2
  <1>1. CASE lines[p].shape = "long"
    BY <1>0, <1>1 DEF Deserved, NotBlank
  <1>2. CASE lines[p].shape # "blank" /\ Len(q) >= MaxRecords
    <2> DEFINE B == NotBlankBefore(lines, p)
               B2 == B \cup {p}
               N == NotBlank(lines)
    <2>1. IsFiniteSet(B) /\ Cardinality(B) = Len(q)
      BY <1>0, ReadCount
    <2>2. p \notin B /\ B2 \in SUBSET N
      BY <1>0, <1>2 DEF NotBlankBefore, NotBlank
    <2>3. IsFiniteSet(N)
      <3>1. 1 \in Int /\ Len(lines) \in Int
        BY <1>0
      <3>2. IsFiniteSet(1..Len(lines))
        BY ONLY <3>1, FS_Interval, Zenon
      <3>3. N \in SUBSET (1..Len(lines))
        BY DEF NotBlank
      <3> HIDE DEF N
      <3>4. QED
        BY ONLY <3>2, <3>3, FS_Subset, Zenon
    <2> HIDE DEF B, N
    <2>4. Cardinality(B2) = Cardinality(B) + 1
      BY <2>1, <2>2, FS_AddElement
    <2> HIDE DEF B2
    <2>5. Cardinality(B2) <= Cardinality(N)
      BY ONLY <2>2, <2>3, FS_Subset, Zenon
    <2>6. Cardinality(N) \in Nat
      BY <2>3, FS_CardinalityType
    <2>7. Cardinality(N) > MaxRecords
      BY <1>0, <1>2, <2>1, <2>4, <2>5, <2>6
    <2>8. QED
      BY <2>7 DEF Deserved, N
  <1>3. QED
    BY <1>1, <1>2

LEMMA ReadLineStep ==
    ASSUME IntakeInv, ReadLine
    PROVE  IntakeInv'
  <1>0. /\ UNCHANGED <<body, member, inserted, statements>>
        /\ verdict = "reading" /\ place <= Len(body)
        /\ body \in Uploads /\ member = "" /\ inserted = <<>>
        /\ Len(body) \in Nat /\ Sound(body) /\ Read(body, place, parsed)
    BY LenBody DEF ReadLine, IntakeInv, ReadInv, TextInv, MemberInv, InsertedInv, Taken
  <1>1. CASE /\ body[place].shape = "long" \/ (body[place].shape # "blank" /\ Len(parsed) >= MaxRecords)
             /\ Give("processing_limit", 0) /\ UNCHANGED <<place, parsed>>
    <2>1. verdict' = "processing_limit" /\ UNCHANGED <<place, parsed>>
      BY <1>1 DEF Give
    <2>2. RejectedRightly'
      <3>1. \A n : Deserved(body, "processing_limit", n)
        BY <1>0, <1>1, LimitDeserved
      <3>2. QED
        BY <1>0, <2>1, <3>1 DEF RejectedRightly
    <2>3. ReadInv' /\ TextInv' /\ TakenInv' /\ MemberInv' /\ StatementsInv'
      BY <1>0, <2>1 DEF IntakeInv, ReadInv, TextInv, TakenInv, MemberInv, StatementsInv, Taken
    <2>4. InsertedInv'
      BY <1>0, <2>1 DEF IntakeInv, InsertedInv, Taken
    <2>5. QED
      BY <2>2, <2>3, <2>4 DEF IntakeInv
  <1>2. ASSUME Read(body, place', parsed'), UNCHANGED <<verdict, blamed>>
        PROVE  IntakeInv'
    <2>1. ReadInv' /\ TextInv' /\ TakenInv' /\ MemberInv' /\ StatementsInv'
      BY <1>0, <1>2 DEF IntakeInv, ReadInv, TextInv, TakenInv, MemberInv, StatementsInv, Taken
    <2>2. InsertedInv'
      <3>1. Len(parsed') \in Nat
        BY <1>2 DEF Read
      <3>2. inserted' \in Seq(ParsedLines(body')) /\ Len(inserted') = 0 /\ 1..Len(inserted') = {}
        BY <1>0, NoRows
      <3>3. verdict' = "reading" /\ inserted' = <<>>
        BY <1>0, <1>2
      <3>4. Len(inserted') <= Len(parsed')
        BY <3>1, <3>2
      <3>5. verdict' # "stored"
        BY <3>3
      <3>6. QED
        BY ONLY <3>2, <3>3, <3>4, <3>5, Zenon DEF InsertedInv
    <2>3. RejectedRightly'
      BY <1>0, <1>2 DEF RejectedRightly, Deserved
    <2>4. QED
      BY <2>1, <2>2, <2>3 DEF IntakeInv
  <1>3. CASE /\ body[place].shape = "blank" /\ place' = place + 1
             /\ UNCHANGED <<parsed, verdict, blamed>>
    <2>1. Read(body, place + 1, parsed)
      BY <1>0, <1>3, ReadBlank
    <2>2. QED
      BY <1>2, <1>3, <2>1
  <1>4. CASE /\ body[place].shape \notin {"long", "blank"} /\ Len(parsed) < MaxRecords
             /\ place' = place + 1
             /\ parsed' = Append(parsed, ParsedLine(body, place))
             /\ UNCHANGED <<verdict, blamed>>
    <2>1. Read(body, place + 1, Append(parsed, ParsedLine(body, place)))
      BY <1>0, <1>4, ReadRecord
    <2>2. QED
      BY <1>2, <1>4, <2>1
  <1>5. QED
    BY <1>1, <1>3, <1>4 DEF ReadLine, ParsedLine

\* Nothing was parsed of a body without lines to parse, and of no other.
LEMMA NothingParsed ==
    ASSUME NEW lines, Len(lines) \in Nat, NEW q, Read(lines, Len(lines) + 1, q)
    PROVE  (q = <<>>) <=> (NotBlank(lines) = {})
  <1>1. Len(lines) + 1 - 1 = Len(lines)
    OBVIOUS
  <1>2. Len(q) \in Nat /\ (q = <<>> <=> Len(q) = 0)
    BY DEF Read
  <1>3. ASSUME q = <<>>, NEW n \in NotBlank(lines)
        PROVE  FALSE
    <2>1. PICK i \in 1..Len(q) : q[i].number = n
      BY <1>1 DEF Read, NotBlank
    <2>2. QED
      BY <1>2, <1>3, <2>1
  <1>4. ASSUME q # <<>>
        PROVE  NotBlank(lines) # {}
    <2>1. 1 \in 1..Len(q)
      BY <1>2, <1>4
    <2>2. q[1].number \in NotBlank(lines)
      BY <1>1, <2>1 DEF Read, NotBlank
    <2>3. QED
      BY <2>2
  <1>5. QED
    BY <1>3, <1>4

LEMMA JudgeStep ==
    ASSUME IntakeInv, Judge
    PROVE  IntakeInv'
  <1>0. /\ UNCHANGED <<body, place, parsed, inserted, statements>>
        /\ verdict = "reading" /\ member = "" /\ inserted = <<>>
        /\ body \in Uploads /\ Len(body) \in Nat /\ Sound(body) /\ Read(body, place, parsed)
    BY LenBody DEF Judge, IntakeInv, ReadInv, TextInv, MemberInv, InsertedInv, Taken
  <1>1. place = Len(body) + 1
    <2>1. place > Len(body)
      BY DEF Judge
    <2>2. place \in 1..(Len(body) + 1)
      BY <1>0 DEF Read
    <2>3. Len(body) \in Nat
      BY <1>0
    <2>4. QED
      BY <2>1, <2>2, <2>3
  <1>2. Read(body, Len(body) + 1, parsed)
    BY <1>0, <1>1
  <1>3. ReadInv' /\ StatementsInv'
    BY <1>0 DEF IntakeInv, ReadInv, StatementsInv
  <1>4. TextInv'
    BY <1>0 DEF TextInv
  <1>5. ASSUME verdict' # "stored"
        PROVE  InsertedInv'
    BY <1>0, <1>5 DEF IntakeInv, InsertedInv
  <1>6. ASSUME verdict' \notin Taken, UNCHANGED member, Deserved(body, verdict', blamed')
        PROVE  IntakeInv'
    <2>1. TakenInv' /\ MemberInv'
      BY <1>0, <1>6 DEF TakenInv, MemberInv
    <2>2. RejectedRightly'
      BY <1>0, <1>6 DEF RejectedRightly
    <2>3. QED
      BY <1>3, <1>4, <1>5, <1>6, <2>1, <2>2 DEF IntakeInv, Taken
  <1>7. CASE parsed = <<>> /\ Give("empty_upload", 0) /\ UNCHANGED member
    <2>1. Deserved(body, "empty_upload", 0)
      BY <1>0, <1>2, <1>7, NothingParsed DEF Deserved
    <2>2. QED
      BY <1>6, <1>7, <2>1 DEF Give, Taken
  <1>8. CASE \E i \in 1..Len(parsed) :
                FirstBad(i) /\ Give(parsed[i].error, parsed[i].number) /\ UNCHANGED member
    <2>1. PICK i \in 1..Len(parsed) :
                FirstBad(i) /\ Give(parsed[i].error, parsed[i].number) /\ UNCHANGED member
      BY <1>8
    <2> DEFINE v == parsed[i].error
               n == parsed[i].number
    <2>2. v # "none" /\ \A j \in 1..Len(parsed) : parsed[j].error # "none" => i <= j
      BY <2>1 DEF FirstBad, Bad
    <2>3. /\ v \in LineCodes
          /\ n \in NotBlank(body) /\ Faulty(body[n], v) /\ FaultlessBefore(body, n)
      BY <1>0, <1>2, <2>2, FirstFault
    <2>4. verdict' = v /\ blamed' = n /\ UNCHANGED member
      BY <2>1 DEF Give
    <2> HIDE DEF v, n
    <2>5. Deserved(body, v, n) /\ v \notin Taken
      BY <2>3 DEF Deserved, LineCodes, Taken
    <2>6. QED
      BY <1>6, <2>4, <2>5
  <1>9. ASSUME parsed # <<>>, Bad = {}
        PROVE  /\ NotBlank(body) # {} /\ FaultlessBefore(body, Len(body) + 1)
               /\ Cardinality(NotBlank(body)) <= MaxRecords
               /\ \A i \in NotBlank(body) : body[i].shape = "v4"
               /\ \A i \in 1..Len(parsed) : parsed[i].error = "none"
    <2>1. \A i \in 1..Len(parsed) : parsed[i].error = "none"
      BY <1>9 DEF Bad
    <2>2. NotBlank(body) # {}
      <3>1. Len(body) \in Nat /\ parsed # <<>>
        BY <1>0, <1>9
      <3>2. (parsed = <<>>) <=> (NotBlank(body) = {})
        BY ONLY <1>2, <3>1, NothingParsed
      <3>3. QED
        BY <3>1, <3>2
    <2>3. /\ FaultlessBefore(body, Len(body) + 1) /\ Cardinality(NotBlank(body)) <= MaxRecords
          /\ \A i \in NotBlank(body) : body[i].shape = "v4"
      <3>1. Sound(body)
        BY <1>0
      <3>2. QED
        BY ONLY <1>2, <2>1, <3>1, AllRecords, Zenon
    <2>4. QED
      BY <2>1, <2>2, <2>3
  <1>10. CASE /\ parsed # <<>> /\ Bad = {} /\ has_inconsistent_identity
              /\ Give("inconsistent_file_identity", 0) /\ UNCHANGED member
    <2>1. PICK c \in {"engine_id", "account_ref"} : Cardinality(CarriedBy(parsed, c)) > 1
      BY <1>10 DEF has_inconsistent_identity, Carried, CarriedBy
    <2>2. Cardinality(Envelopes(body)) > 1
      BY <1>0, <1>2, <1>9, <1>10, <2>1, IdentityFromEnvelopes
    <2>3. Deserved(body, "inconsistent_file_identity", 0)
      BY <1>9, <1>10, <2>2 DEF Deserved, Envelopes
    <2>4. QED
      BY <1>6, <1>10, <2>3 DEF Give, Taken
  <1>11. CASE /\ parsed # <<>> /\ Bad = {} /\ ~has_inconsistent_identity
              /\ Give("accepted", 0) /\ member' = file_local_member_ref
    <2>1. verdict' = "accepted" /\ blamed' = 0 /\ verdict' \in Taken
      BY <1>11 DEF Give, Taken
    <2>2. RejectedRightly'
      <3>1. Deserved(body, "accepted", 0)
        BY <1>9, <1>11 DEF Deserved
      <3>2. QED
        BY <1>0, <2>1, <3>1 DEF RejectedRightly
    <2>3. TakenInv'
      BY <1>0, <1>1, <1>9, <1>11 DEF TakenInv
    <2>4. MemberInv'
      <3>1. MemberRefs = RefsOf(parsed)
        BY DEF MemberRefs, RefsOf, Carried, CarriedBy
      <3>2. Len(parsed) \in Nat
        BY <1>2 DEF Read
      <3>3. ASSUME member' # ""
            PROVE  /\ Cardinality(RefsOf(parsed)) = 1
                   /\ member' = CHOOSE r \in RefsOf(parsed) : TRUE
        BY <1>11, <3>1, <3>3 DEF file_local_member_ref
      <3>4. ASSUME member' # ""
            PROVE  \A i \in 1..Len(parsed) : "context_source" \in DOMAIN parsed[i].columns =>
                        parsed[i].columns["context_source"].ref \in {"", member'}
        BY <3>2, <3>3, <3>4, OneMember
      <3>5. QED
        BY <1>0, <2>1, <3>4 DEF MemberInv
    <2>5. InsertedInv'
      BY <1>5, <2>1
    <2>6. QED
      BY <1>3, <1>4, <2>2, <2>3, <2>4, <2>5 DEF IntakeInv
  <1>12. QED
    BY <1>7, <1>8, <1>10, <1>11 DEF Judge

LEMMA Joined ==
    ASSUME NEW S, NEW s \in Seq(S), NEW t \in Seq(S)
    PROVE  /\ s \o t \in Seq(S) /\ Len(s \o t) = Len(s) + Len(t)
           /\ \A i \in 1..(Len(s) + Len(t)) :
                (s \o t)[i] = IF i <= Len(s) THEN s[i] ELSE t[i - Len(s)]
  OBVIOUS

LEMMA InsertBatchStep ==
    ASSUME IntakeInv, InsertBatch
    PROVE  IntakeInv'
  <1> DEFINE n == Smaller(audit_event_batch_size, Len(parsed) - Len(inserted))
             more == SubSeq(parsed, Len(inserted) + 1, Len(inserted) + n)
             L == ParsedLines(body)
  <1>0. /\ UNCHANGED <<body, place, parsed, blamed, member>>
        /\ verdict = "accepted" /\ verdict' \in Taken
        /\ inserted' = inserted \o more
        /\ statements' = Append(statements, n * EventColumns)
        /\ verdict' = "stored" => Len(inserted') = Len(parsed)
    BY DEF InsertBatch, Taken
  <1>1. /\ inserted \in Seq(L) /\ parsed \in Seq(L) /\ Len(inserted) \in Nat /\ Len(parsed) \in Nat
        /\ Len(inserted) <= Len(parsed) /\ \A i \in 1..Len(inserted) : inserted[i] = parsed[i]
    BY DEF IntakeInv, InsertedInv, ReadInv, Read
  <1>2. n \in Nat /\ n <= Len(parsed) - Len(inserted) /\ n <= audit_event_batch_size
    BY <1>1, BatchBinds DEF Smaller
  <1> HIDE DEF n, L
  <1>3. /\ more \in Seq(L) /\ Len(more) = n
        /\ \A i \in 1..n : more[i] = parsed[Len(inserted) + i]
    BY <1>1, <1>2
  <1> HIDE DEF more
  <1>4. /\ inserted' \in Seq(L) /\ Len(inserted') = Len(inserted) + n
        /\ \A i \in 1..(Len(inserted) + n) :
            inserted'[i] = IF i <= Len(inserted) THEN inserted[i] ELSE more[i - Len(inserted)]
    <2>1. inserted' = inserted \o more
      BY <1>0
    <2>2. inserted \in Seq(L) /\ more \in Seq(L) /\ Len(more) = n
      BY <1>1, <1>3
    <2>3. QED
      BY ONLY <2>1, <2>2, Joined, Zenon
  <1>5. ASSUME NEW i \in 1..Len(inserted')
        PROVE  inserted'[i] = parsed[i]
    <2>1. CASE i <= Len(inserted)
      BY <1>1, <1>2, <1>4, <1>5, <2>1
    <2>2. CASE ~(i <= Len(inserted))
      <3>1. i - Len(inserted) \in 1..n /\ Len(inserted) + (i - Len(inserted)) = i
        BY <1>1, <1>2, <1>4, <1>5, <2>2
      <3>2. more[i - Len(inserted)] = parsed[i]
        BY <1>3, <3>1
      <3>3. QED
        BY <1>1, <1>2, <1>4, <1>5, <2>2, <3>2
    <2>3. QED
      BY <2>1, <2>2
  <1>6. InsertedInv'
    <2>1. Len(inserted') <= Len(parsed)
      BY <1>1, <1>2, <1>4
    <2>2. QED
      BY <1>0, <1>4, <1>5, <2>1 DEF InsertedInv, L
  <1>7. StatementsInv'
    <2> DEFINE m == n * EventColumns
    <2>1. m \in Nat /\ m <= MaxBind
      <3>1. EventColumns \in Nat /\ MaxBind \in Nat
        BY IntakeAssumption
      <3>2. n * EventColumns \in Nat /\ n * EventColumns <= audit_event_batch_size * EventColumns
        BY <1>2, <3>1, BatchBinds, ProductGrows
      <3>3. audit_event_batch_size * EventColumns \in Nat
        BY <3>1, BatchBinds
      <3>4. QED
        BY <3>1, <3>2, <3>3, BatchBinds
    <2> HIDE DEF m
    <2>2. statements' = Append(statements, m)
      BY <1>0 DEF m
    <2>3. statements \in Seq(Nat) /\ \A i \in 1..Len(statements) : statements[i] <= MaxBind
      BY DEF IntakeInv, StatementsInv
    <2>4. /\ statements' \in Seq(Nat) /\ Len(statements') = Len(statements) + 1
          /\ \A i \in 1..Len(statements) : statements'[i] = statements[i]
          /\ statements'[Len(statements) + 1] = m /\ Len(statements) \in Nat
      BY <2>1, <2>2, <2>3
    <2>5. \A i \in 1..Len(statements') : statements'[i] <= MaxBind
      BY <2>1, <2>3, <2>4
    <2>6. QED
      BY <2>4, <2>5 DEF StatementsInv
  <1>8. ReadInv' /\ TextInv' /\ TakenInv' /\ MemberInv'
    BY <1>0 DEF IntakeInv, ReadInv, TextInv, TakenInv, MemberInv, Taken
  <1>9. RejectedRightly'
    <2>1. Deserved(body, "accepted", blamed)
      BY <1>0 DEF IntakeInv, RejectedRightly
    <2>2. Deserved(body, "stored", blamed)
      BY <2>1 DEF Deserved
    <2>3. QED
      BY <1>0, <2>1, <2>2 DEF RejectedRightly, Taken
  <1>10. QED
    BY <1>6, <1>7, <1>8, <1>9 DEF IntakeInv

LEMMA IntakeInvariant == IntakeSpec => []IntakeInv
  <1>1. IntakeInv /\ [IntakeNext]_intakeVars => IntakeInv'
    <2> SUFFICES ASSUME IntakeInv, [IntakeNext]_intakeVars PROVE IntakeInv'
      OBVIOUS
    <2>1. CASE UNCHANGED intakeVars
      BY <2>1 DEF intakeVars, IntakeInv, ReadInv, TextInv, TakenInv, InsertedInv, MemberInv,
                  StatementsInv, RejectedRightly
    <2>2. QED
      BY <2>1, DecodeStep, ReadLineStep, JudgeStep, InsertBatchStep DEF IntakeNext
  <1>2. QED
    BY <1>1, IntakeInitInv, PTL DEF IntakeSpec

\* A rejection is deserved and points at the first line that deserves it, whatever
\* the bodies and the limits are: parse_jsonl and validate_upload give no code for a
\* fault the body does not have, and hide no earlier fault behind a later one.
THEOREM RejectionsDeserved == IntakeSpec => []RejectedRightly
  <1>1. IntakeInv => RejectedRightly
    BY DEF IntakeInv
  <1>2. QED
    BY <1>1, IntakeInvariant, PTL

\* A body is stored whole or not at all, for any bodies and limits: one row per
\* record, in order and with its line number, whose columns fit and hold what the
\* record says (normalize_event), inserted in statements PostgreSQL takes
\* (audit_event_batch_size), in a file that speaks for no member some of its rows
\* contradict (file_local_member_ref).
THEOREM BodiesStoredWhole == IntakeSpec => []StoredWhole
  <1>1. ASSUME IntakeInv
        PROVE  StoredWhole
    <2>1. \A i \in 1..Len(statements) : statements[i] <= MaxBind
      BY <1>1 DEF IntakeInv, StatementsInv
    <2>2. ASSUME verdict = "stored"
          PROVE  /\ {inserted[i].number : i \in 1..Len(inserted)} = Records
                 /\ \A i, j \in 1..Len(inserted) : i < j => inserted[i].number < inserted[j].number
                 /\ \A i \in 1..Len(inserted) :
                        Holds(inserted[i].columns, body[inserted[i].number])
                 /\ member # "" => \A i \in 1..Len(inserted) :
                        "context_source" \in DOMAIN inserted[i].columns =>
                            inserted[i].columns["context_source"].ref \in {"", member}
      <3>1. /\ Sound(body) /\ Len(body) \in Nat /\ place = Len(body) + 1
            /\ Read(body, Len(body) + 1, parsed)
            /\ \A i \in 1..Len(parsed) : parsed[i].error = "none"
        BY <1>1, <2>2, LenBody DEF IntakeInv, ReadInv, TextInv, TakenInv, Taken
      <3>2. Len(inserted) = Len(parsed) /\ \A i \in 1..Len(inserted) : inserted[i] = parsed[i]
        BY <1>1, <2>2 DEF IntakeInv, InsertedInv
      <3>3. Len(body) + 1 - 1 = Len(body)
        BY <3>1
      <3>4. ASSUME NEW i \in 1..Len(inserted)
            PROVE  /\ inserted[i].number \in NotBlank(body)
                   /\ inserted[i] = ParsedLine(body, inserted[i].number)
        BY <3>1, <3>2, <3>3 DEF Read, NotBlank
      <3>5. NotBlank(body) = Records
        <4>1. \A n \in NotBlank(body) : body[n].shape = "v4"
          BY <3>1, AllRecords
        <4>2. QED
          BY <4>1 DEF NotBlank, Records
      <3>6. ASSUME NEW n \in NotBlank(body)
            PROVE  \E i \in 1..Len(inserted) : inserted[i].number = n
        <4>1. n \in 1..(Len(body) + 1 - 1) /\ body[n].shape # "blank"
          BY <3>3 DEF NotBlank
        <4>2. PICK i \in 1..Len(parsed) : parsed[i].number = n
          BY <3>1, <4>1 DEF Read
        <4>3. QED
          BY <3>2, <4>2
      <3>7. {inserted[i].number : i \in 1..Len(inserted)} = Records
        BY <3>4, <3>5, <3>6
      <3>8. \A i, j \in 1..Len(inserted) : i < j => inserted[i].number < inserted[j].number
        BY <3>1, <3>2 DEF Read
      <3>9. ASSUME NEW i \in 1..Len(inserted)
            PROVE  Holds(inserted[i].columns, body[inserted[i].number])
        <4> DEFINE n == inserted[i].number
        <4>1. n \in NotBlank(body) /\ inserted[i] = ParsedLine(body, n)
          BY <3>4
        <4> HIDE DEF n
        <4>2. body[n].shape = "v4" /\ StorageErrors(body[n]) = {}
          BY <3>1, <4>1, AllRecords
        <4>3. WellFormed(body[n])
          BY <3>1, <4>1 DEF Sound, NotBlank
        <4>4. inserted[i].columns = Normalized(body[n])
          BY <4>1, <4>2, ParsedFields
        <4>5. Holds(inserted[i].columns, body[n])
          BY <4>2, <4>3, <4>4, RowHolds
        <4>6. QED
          BY <4>5 DEF n
      <3>10. member # "" => \A i \in 1..Len(inserted) :
                    "context_source" \in DOMAIN inserted[i].columns =>
                        inserted[i].columns["context_source"].ref \in {"", member}
        BY <1>1, <3>2 DEF IntakeInv, MemberInv
      <3>11. QED
        BY <3>7, <3>8, <3>9, <3>10
    <2>3. QED
      BY <2>1, <2>2 DEF StoredWhole
  <1>2. QED
    BY <1>1, IntakeInvariant, PTL
=============================================================================
