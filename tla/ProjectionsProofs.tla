-------------------------- MODULE ProjectionsProofs --------------------------
(***************************************************************************)
(* The projection rows, proved for every number of events and recorders:   *)
(* what uploads build incrementally, in whatever order they arrive, is     *)
(* what a full rebuild makes of the same evidence.                         *)
(***************************************************************************)
EXTENDS Projections, FiniteFacts

-----------------------------------------------------------------------------
(* The replay, step by step *)

Advance(P, n, h, E) == IF n \in E THEN ProjectEvent(P, n, h[n]) ELSE P

\* f is the replay up to the k-th event.
IsReplay(f, P, h, E, k) == f = [n \in 0..k |-> IF n = 0 THEN P ELSE Advance(f[n - 1], n, h, E)]

LEMMA MaxEventsType == MaxEvents \in Nat
  BY ProjectionsAssumption

\* Up to every m there is a function that the recursion of a replay describes.
LEMMA ReplayExists ==
    ASSUME NEW P, NEW h, NEW E, NEW k \in Nat
    PROVE  \E f : IsReplay(f, P, h, E, k)
  <1> DEFINE Body(f, m) == [n \in 0..m |-> IF n = 0 THEN P ELSE Advance(f[n - 1], n, h, E)]
             S == {m \in Nat : \E f : f = Body(f, m)}
  <1>1. 0 \in S
    <2> DEFINE f == [n \in 0..0 |-> P]
    <2>1. f = Body(f, 0)
      OBVIOUS
    <2>2. QED
      BY <2>1
  <1>2. ASSUME NEW m \in 0..k, m < k, m \in S
        PROVE  m + 1 \in S
    <2>1. PICK f : f = Body(f, m)
      BY <1>2
    <2> DEFINE g == [n \in 0..(m + 1) |-> IF n = m + 1 THEN Advance(f[m], m + 1, h, E) ELSE f[n]]
    <2> HIDE DEF Body
    <2>2. ASSUME NEW n \in 0..(m + 1)
          PROVE  g[n] = Body(g, m + 1)[n]
      <3>1. CASE n = 0
        BY <2>1, <3>1 DEF Body
      <3>2. CASE n = m + 1
        BY <3>2 DEF Body
      <3>3. CASE n \in 1..m
        <4>1. f[n] = Advance(f[n - 1], n, h, E)
          BY <2>1, <3>3 DEF Body
        <4>2. g[n] = f[n] /\ g[n - 1] = f[n - 1]
          BY <3>3
        <4>3. Body(g, m + 1)[n] = Advance(g[n - 1], n, h, E)
          BY <3>3 DEF Body
        <4>4. QED
          BY <4>1, <4>2, <4>3
      <3>4. QED
        BY <3>1, <3>2, <3>3
    <2>3. g = Body(g, m + 1)
      <3>1. Body(g, m + 1) = [n \in 0..(m + 1) |-> Body(g, m + 1)[n]]
        BY DEF Body
      <3> HIDE DEF g
      <3>2. g = [n \in 0..(m + 1) |-> g[n]]
        BY DEF g
      <3>3. QED
        BY <2>2, <3>1, <3>2
    <2> HIDE DEF g
    <2>4. QED
      BY <2>3
  <1> HIDE DEF S
  <1>3. \A n \in 0..k : n < k /\ n \in S => n + 1 \in S
    BY <1>2
  <1>4. k \in S
    BY <1>1, <1>3, Induction
  <1>5. QED
    BY <1>4 DEF S, IsReplay

\* A replay starts from P and takes one event after the other.
LEMMA Unfolding ==
    ASSUME NEW P, NEW h, NEW E
    PROVE  /\ Projected(P, h, E)[0] = P
           /\ \A n \in 1..MaxEvents :
                Projected(P, h, E)[n] = Advance(Projected(P, h, E)[n - 1], n, h, E)
  <1> DEFINE f == Projected(P, h, E)
  <1>1. \E g : IsReplay(g, P, h, E, MaxEvents)
    BY MaxEventsType, ReplayExists
  <1>2. f = [n \in 0..MaxEvents |-> IF n = 0 THEN P ELSE Advance(f[n - 1], n, h, E)]
    BY <1>1, Zenon DEF Projected, Advance, IsReplay
  <1> HIDE DEF f
  <1>3. f[0] = P /\ \A n \in 1..MaxEvents : f[n] = Advance(f[n - 1], n, h, E)
    BY <1>2, MaxEventsType
  <1>4. QED
    BY <1>3 DEF f

-----------------------------------------------------------------------------
(* The rows and what one event does to them *)

Runs ==
    [id : Nat, engine : Recorders, inferred : BOOLEAN, phase : {""} \cup Phases,
     started : 0..MaxEvents, ended : Nat, evidence : SUBSET Nat]

Sightings == [first : Nat, last : Nat, latest : Nat, evidence : SUBSET Nat]

States ==
    [runs : SUBSET Runs, active : [Recorders -> Nat \cup {NoRun}], artifact : Sightings,
     observed : [Recorders -> Sightings], leaves : [1..MaxEvents -> Nat]]

LEMMA EventFields ==
    ASSUME NEW e \in Events
    PROVE  e.engine \in Recorders /\ e.phase \in Phases
  BY DEF Events

LEMMA UpdatedFields ==
    ASSUME NEW run \in Runs, NEW n \in 1..MaxEvents, NEW e \in Events
    PROVE  /\ Updated(run, n, e) \in Runs
           /\ Updated(run, n, e).id = run.id
           /\ Updated(run, n, e).engine = run.engine
           /\ Updated(run, n, e).phase = PhaseAfter(run, e)
           /\ Updated(run, n, e).inferred = IF e.context = "run-inferred" THEN TRUE ELSE run.inferred
           /\ Updated(run, n, e).started = IF n < run.started THEN n ELSE run.started
           /\ Updated(run, n, e).ended = IF n > run.ended THEN n ELSE run.ended
           /\ Updated(run, n, e).evidence = run.evidence \cup {n}
  <1>1. PhaseAfter(run, e) \in {""} \cup Phases
    BY EventFields DEF PhaseAfter, Runs, Phases
  <1> HIDE DEF PhaseAfter
  <1>2. (IF e.context = "run-inferred" THEN TRUE ELSE run.inferred) \in BOOLEAN
    BY Zenon DEF Runs
  <1>3. /\ (IF n < run.started THEN n ELSE run.started) \in 0..MaxEvents
        /\ (IF n > run.ended THEN n ELSE run.ended) \in Nat
        /\ run.evidence \cup {n} \in SUBSET Nat
    <2>1. run.started \in 0..MaxEvents /\ run.ended \in Nat /\ run.evidence \in SUBSET Nat
      BY DEF Runs
    <2>2. QED
      BY <2>1, MaxEventsType
  <1>4. QED
    BY <1>1, <1>2, <1>3 DEF Updated, Runs

LEMMA NewRunFields ==
    ASSUME NEW id \in Nat, NEW n \in 1..MaxEvents, NEW e \in Events
    PROVE  NewRun(id, n, e) \in Runs
  <1>1. (~Explicit(e)) \in BOOLEAN
    BY DEF Explicit
  <1>2. QED
    BY <1>1, EventFields, MaxEventsType DEF NewRun, Runs

\* The runs and the active run of one recorder, which is all that projecting a
\* convergence event reads.
View(P, g) == [runs |-> {r \in P.runs : r.engine = g}, active |-> P.active[g]]

Concerns(v, e) ==
    \/ ConvergenceType(e) \/ e.context # "none"
    \/ e.type = "epoch_state" /\ v.active # NoRun

Chosen(v, n, e) ==
    IF Explicit(e) THEN ExplicitRun ELSE IF v.active # NoRun THEN v.active ELSE n

RunAfter(v, n, e) ==
    LET mine == {r \in v.runs : r.id = Chosen(v, n, e)}
    IN  Updated(IF mine = {} THEN NewRun(Chosen(v, n, e), n, e) ELSE CHOOSE r \in mine : TRUE, n, e)

ViewAfter(v, n, e) ==
    IF Concerns(v, e)
    THEN [runs |-> {r \in v.runs : r.id # Chosen(v, n, e)} \cup {RunAfter(v, n, e)},
          active |-> ActiveAfter(e, RunAfter(v, n, e))]
    ELSE v

Views(g) == [runs : SUBSET {r \in Runs : r.engine = g}, active : Nat \cup {NoRun}]

LEMMA ViewType ==
    ASSUME NEW P \in States, NEW g \in Recorders
    PROVE  View(P, g) \in Views(g)
  BY DEF States, View, Views

LEMMA RunAfterFields ==
    ASSUME NEW e \in Events, NEW v \in Views(e.engine), NEW n \in 1..MaxEvents
    PROVE  /\ Chosen(v, n, e) \in Nat
           /\ RunAfter(v, n, e) \in Runs
           /\ RunAfter(v, n, e).engine = e.engine
           /\ RunAfter(v, n, e).id = Chosen(v, n, e)
  <1> DEFINE id == Chosen(v, n, e)
             mine == {r \in v.runs : r.id = id}
             base == IF mine = {} THEN NewRun(id, n, e) ELSE CHOOSE r \in mine : TRUE
  <1>1. id \in Nat
    BY MaxEventsType DEF Chosen, Views, ExplicitRun
  <1>2. NewRun(id, n, e) \in Runs /\ NewRun(id, n, e).engine = e.engine /\ NewRun(id, n, e).id = id
    BY <1>1, NewRunFields DEF NewRun
  <1>3. base \in Runs /\ base.engine = e.engine /\ base.id = id
    <2>1. CASE mine = {}
      BY <1>2, <2>1
    <2>2. CASE mine # {}
      <3>1. base \in mine
        BY <2>2
      <3>2. QED
        BY <3>1 DEF Views
    <2>3. QED
      BY <2>1, <2>2
  <1>4. RunAfter(v, n, e) = Updated(base, n, e)
    BY DEF RunAfter
  <1> HIDE DEF id, base
  <1>5. /\ Updated(base, n, e) \in Runs
        /\ Updated(base, n, e).id = base.id
        /\ Updated(base, n, e).engine = base.engine
    BY <1>3, UpdatedFields, Zenon
  <1>6. QED
    BY <1>1, <1>3, <1>4, <1>5 DEF id

\* The chosen run's row replaced.
Replaced(R, v, n, e) ==
    {r \in R : ~ (r.id = Chosen(v, n, e) /\ r.engine = e.engine)} \cup {RunAfter(v, n, e)}

LEMMA ActiveAfterType ==
    ASSUME NEW e \in Events, NEW run \in Runs
    PROVE  ActiveAfter(e, run) \in Nat \cup {NoRun}
  BY DEF ActiveAfter, Runs

\* project_convergence replaces the chosen run of the event's recorder.
LEMMA ConvergenceEffect ==
    ASSUME NEW P \in States, NEW n \in 1..MaxEvents, NEW e \in Events, NEW v, v = View(P, e.engine)
    PROVE  /\ ProjectConvergence(P, n, e) \in States
           /\ ProjectConvergence(P, n, e).runs = Replaced(P.runs, v, n, e)
           /\ \A g \in Recorders :
                ProjectConvergence(P, n, e).active[g] =
                    IF g = e.engine THEN ActiveAfter(e, RunAfter(v, n, e)) ELSE P.active[g]
           /\ ProjectConvergence(P, n, e).artifact = P.artifact
           /\ ProjectConvergence(P, n, e).observed = P.observed
           /\ ProjectConvergence(P, n, e).leaves = P.leaves
  <1> DEFINE Q == ProjectConvergence(P, n, e)
             id == RunId(P, n, e)
             mine == {r \in P.runs : r.id = id /\ r.engine = e.engine}
             run == Updated(IF mine = {} THEN NewRun(id, n, e) ELSE CHOOSE r \in mine : TRUE, n, e)
  <1>1. id = Chosen(v, n, e)
    BY DEF RunId, Chosen, View
  <1>2. mine = {r \in v.runs : r.id = Chosen(v, n, e)}
    <2> HIDE DEF id
    <2>1. QED
      BY <1>1 DEF View
  <1>3. run = RunAfter(v, n, e)
    <2> HIDE DEF mine, id
    <2>1. QED
      BY <1>1, <1>2 DEF RunAfter
  <1>4. Q = [P EXCEPT !.runs = (@ \ mine) \cup {run}, !.active[e.engine] = ActiveAfter(e, run)]
    BY DEF ProjectConvergence
  <1>5. (P.runs \ mine) \cup {run} = Replaced(P.runs, v, n, e)
    <2> HIDE DEF id, run
    <2>1. QED
      BY <1>1, <1>3 DEF Replaced
  <1>6. v \in Views(e.engine)
    BY EventFields, ViewType
  <1>7. RunAfter(v, n, e) \in Runs
    BY <1>6, RunAfterFields
  <1>8. ActiveAfter(e, run) \in Nat \cup {NoRun}
    <2> HIDE DEF run
    <2>1. QED
      BY <1>3, <1>7, ActiveAfterType
  <1>9. (P.runs \ mine) \cup {run} \in SUBSET Runs
    <2> HIDE DEF run, mine
    <2>1. QED
      BY <1>3, <1>7 DEF States
  <1>10. e.engine \in Recorders
    BY EventFields
  <1> DEFINE R == (P.runs \ mine) \cup {run}
             a == ActiveAfter(e, run)
  <1>11. /\ R = Replaced(P.runs, v, n, e) /\ a = ActiveAfter(e, RunAfter(v, n, e))
         /\ R \in SUBSET Runs /\ a \in Nat \cup {NoRun}
         /\ Q = [P EXCEPT !.runs = R, !.active[e.engine] = a]
    <2> HIDE DEF Q, run, mine
    <2>1. QED
      BY <1>3, <1>4, <1>5, <1>8, <1>9
  <1> HIDE DEF Q, R, a
  <1>12. /\ Q \in States /\ Q.runs = R /\ Q.active = [P.active EXCEPT ![e.engine] = a]
         /\ Q.artifact = P.artifact /\ Q.observed = P.observed /\ Q.leaves = P.leaves
    BY <1>10, <1>11 DEF States
  <1>13. \A g \in Recorders : Q.active[g] = IF g = e.engine THEN a ELSE P.active[g]
    BY <1>12 DEF States
  <1>14. QED
    BY <1>11, <1>12, <1>13 DEF Q

LEMMA SightedType ==
    ASSUME NEW s \in Sightings, NEW n \in Nat
    PROVE  Sighted(s, n) \in Sightings
  BY DEF Sightings, Sighted

\* What project_event does to each kind of row.
LEMMA EventEffect ==
    ASSUME NEW P \in States, NEW n \in 1..MaxEvents, NEW e \in Events
    PROVE  /\ ProjectEvent(P, n, e) \in States
           /\ ProjectEvent(P, n, e).artifact =
                IF e.type = "message" THEN Sighted(P.artifact, n) ELSE P.artifact
           /\ \A g \in Recorders :
                /\ ProjectEvent(P, n, e).observed[g] =
                    IF e.type = "message" /\ g = e.engine THEN Sighted(P.observed[g], n)
                    ELSE P.observed[g]
                /\ View(ProjectEvent(P, n, e), g) =
                    IF g = e.engine THEN ViewAfter(View(P, g), n, e) ELSE View(P, g)
           /\ \A x \in 1..MaxEvents :
                ProjectEvent(P, n, e).leaves[x] = IF x = n THEN P.leaves[x] + 1 ELSE P.leaves[x]
  <1> DEFINE D == IF e.type = "message" THEN ProjectDelivery(P, n, e) ELSE P
             C == IF Converges(D, e) THEN ProjectConvergence(D, n, e) ELSE D
             Q == ProjectEvent(P, n, e)
             v == View(P, e.engine)
  <1>1. n \in Nat /\ e.engine \in Recorders
    BY MaxEventsType, EventFields
  <1>2. /\ D \in States
        /\ D.runs = P.runs /\ D.active = P.active /\ D.leaves = P.leaves
        /\ D.artifact = IF e.type = "message" THEN Sighted(P.artifact, n) ELSE P.artifact
        /\ D.observed = IF e.type = "message" THEN [P.observed EXCEPT ![e.engine] = Sighted(@, n)]
                        ELSE P.observed
    <2>1. /\ P.artifact \in Sightings /\ P.observed \in [Recorders -> Sightings]
          /\ P.observed[e.engine] \in Sightings
      BY <1>1 DEF States
    <2>2. Sighted(P.artifact, n) \in Sightings /\ Sighted(P.observed[e.engine], n) \in Sightings
      BY <1>1, <2>1, SightedType
    <2>3. QED
      BY <1>1, <2>1, <2>2 DEF States, ProjectDelivery
  <1>3. Q = [C EXCEPT !.leaves[n] = @ + 1]
    BY DEF ProjectEvent
  <1> HIDE DEF D
  <1>4. View(D, e.engine) = v /\ (Converges(D, e) <=> Concerns(v, e))
    BY <1>2 DEF View, Converges, Concerns
  <1>5. /\ C \in States
        /\ C.runs = IF Concerns(v, e) THEN Replaced(P.runs, v, n, e) ELSE P.runs
        /\ \A g \in Recorders : C.active[g] =
                IF Concerns(v, e) /\ g = e.engine THEN ActiveAfter(e, RunAfter(v, n, e))
                ELSE P.active[g]
        /\ C.artifact = D.artifact /\ C.observed = D.observed /\ C.leaves = D.leaves
    <2> HIDE DEF v
    <2>1. CASE Concerns(v, e)
      <3>1. C = ProjectConvergence(D, n, e)
        BY <1>4, <2>1
      <3> HIDE DEF C
      <3>2. v = View(D, e.engine)
        BY <1>4
      <3>3. /\ ProjectConvergence(D, n, e) \in States
            /\ ProjectConvergence(D, n, e).runs = Replaced(D.runs, v, n, e)
            /\ \A g \in Recorders :
                 ProjectConvergence(D, n, e).active[g] =
                     IF g = e.engine THEN ActiveAfter(e, RunAfter(v, n, e)) ELSE D.active[g]
            /\ ProjectConvergence(D, n, e).artifact = D.artifact
            /\ ProjectConvergence(D, n, e).observed = D.observed
            /\ ProjectConvergence(D, n, e).leaves = D.leaves
        BY <1>1, <1>2, <3>2, ConvergenceEffect
      <3>4. QED
        BY <1>2, <2>1, <3>1, <3>3
    <2>2. CASE ~Concerns(v, e)
      BY <1>2, <1>4, <2>2
    <2>3. QED
      BY <2>1, <2>2
  <1> HIDE DEF C, Q
  <1>6. /\ Q \in States /\ Q.runs = C.runs /\ Q.active = C.active
        /\ Q.artifact = C.artifact /\ Q.observed = C.observed
        /\ Q.leaves = [C.leaves EXCEPT ![n] = @ + 1]
    <2> DEFINE k == C.leaves[n] + 1
    <2>1. C \in States
      BY <1>5
    <2>2. k \in Nat
      <3>1. C.leaves \in [1..MaxEvents -> Nat]
        BY <2>1 DEF States
      <3>2. C.leaves[n] \in Nat
        BY <3>1
      <3>3. QED
        BY <3>2
    <2>3. Q = [C EXCEPT !.leaves[n] = k]
      BY <1>3
    <2>4. [C.leaves EXCEPT ![n] = @ + 1] = [C.leaves EXCEPT ![n] = k]
      OBVIOUS
    <2> HIDE DEF k
    <2>5. QED
      BY <2>1, <2>2, <2>3, <2>4 DEF States
  <1>7. ASSUME NEW g \in Recorders
        PROVE  View(Q, g) = IF g = e.engine THEN ViewAfter(View(P, g), n, e) ELSE View(P, g)
    <2>1. v \in Views(e.engine)
      BY <1>1, ViewType
    <2>2. RunAfter(v, n, e).engine = e.engine
      BY <1>1, <2>1, RunAfterFields
    <2>3. CASE ~Concerns(v, e)
      <3>1. Q.runs = P.runs /\ Q.active[g] = P.active[g]
        BY <1>5, <1>6, <2>3
      <3>2. View(Q, g) = View(P, g)
        BY <3>1 DEF View
      <3>3. QED
        BY <2>3, <3>2 DEF ViewAfter
    <2>4. CASE Concerns(v, e) /\ g # e.engine
      <3>1. Q.runs = Replaced(P.runs, v, n, e) /\ Q.active[g] = P.active[g]
        BY <1>5, <1>6, <2>4
      <3>2. {r \in Q.runs : r.engine = g} = {r \in P.runs : r.engine = g}
        BY <2>2, <2>4, <3>1 DEF Replaced
      <3>3. QED
        BY <2>4, <3>1, <3>2 DEF View
    <2>5. CASE Concerns(v, e) /\ g = e.engine
      <3>1. Q.runs = Replaced(P.runs, v, n, e) /\ Q.active[g] = ActiveAfter(e, RunAfter(v, n, e))
        BY <1>5, <1>6, <2>5
      <3>2. v.runs = {r \in P.runs : r.engine = g}
        BY <2>5 DEF View
      <3> HIDE DEF v
      <3>3. {r \in Q.runs : r.engine = g} =
                {r \in v.runs : r.id # Chosen(v, n, e)} \cup {RunAfter(v, n, e)}
        BY <2>2, <2>5, <3>1, <3>2 DEF Replaced
      <3>4. View(Q, g) = ViewAfter(v, n, e)
        BY <2>5, <3>1, <3>3 DEF View, ViewAfter
      <3>5. QED
        BY <2>5, <3>4 DEF v
    <2>6. QED
      BY <2>3, <2>4, <2>5
  <1>8. \A g \in Recorders : Q.observed[g] =
            IF e.type = "message" /\ g = e.engine THEN Sighted(P.observed[g], n) ELSE P.observed[g]
    BY <1>2, <1>5, <1>6 DEF States
  <1>9. \A x \in 1..MaxEvents : Q.leaves[x] = IF x = n THEN P.leaves[x] + 1 ELSE P.leaves[x]
    <2>1. C.leaves = P.leaves /\ P.leaves \in [1..MaxEvents -> Nat]
      BY <1>2, <1>5 DEF States
    <2>2. Q.leaves = [P.leaves EXCEPT ![n] = @ + 1]
      BY <1>6, <2>1
    <2>3. QED
      BY <2>1, <2>2
  <1>10. Q.artifact = IF e.type = "message" THEN Sighted(P.artifact, n) ELSE P.artifact
    BY <1>2, <1>5, <1>6
  <1>11. QED
    BY <1>6, <1>7, <1>8, <1>9, <1>10 DEF Q

LEMMA ClearedType == Cleared \in States
  BY MaxEventsType DEF Cleared, States, NotSeen, Sightings

\* Evidence that a replay can be asked to project.
IsEvidence(h, E) == E \subseteq 1..MaxEvents /\ \A n \in E : h[n] \in Events

\* Every state of a replay is one of projection rows.
LEMMA ReplayType ==
    ASSUME NEW P \in States, NEW h, NEW E, IsEvidence(h, E)
    PROVE  \A n \in 0..MaxEvents : Projected(P, h, E)[n] \in States
  <1> DEFINE f == Projected(P, h, E)
             S == {n \in Nat : f[n] \in States}
  <1> HIDE DEF f
  <1>1. f[0] = P /\ \A n \in 1..MaxEvents : f[n] = Advance(f[n - 1], n, h, E)
    BY Unfolding DEF f
  <1>2. 0 \in S
    BY <1>1
  <1>3. ASSUME NEW n \in 0..MaxEvents, n < MaxEvents, n \in S
        PROVE  n + 1 \in S
    <2>1. n + 1 \in 1..MaxEvents /\ (n + 1) - 1 = n
      BY <1>3, MaxEventsType
    <2>2. f[n + 1] = Advance(f[n], n + 1, h, E)
      BY <1>1, <2>1
    <2>3. f[n] \in States
      BY <1>3
    <2>4. f[n + 1] \in States
      <3>1. CASE n + 1 \in E
        <4>1. h[n + 1] \in Events
          BY <3>1 DEF IsEvidence
        <4>2. QED
          BY <2>1, <2>2, <2>3, <3>1, <4>1, EventEffect DEF Advance
      <3>2. CASE n + 1 \notin E
        BY <2>2, <2>3, <3>2 DEF Advance
      <3>3. QED
        BY <3>1, <3>2
    <2>5. QED
      BY <2>1, <2>4
  <1>4. \A n \in 0..MaxEvents : n \in S
    <2> HIDE DEF S
    <2>1. QED
      BY <1>2, <1>3, MaxEventsType, Induction
  <1>5. QED
    BY <1>4 DEF f

-----------------------------------------------------------------------------
(* Each event's own rows *)

\* A replay adds one leaf for each of its events.
LEMMA LeavesAfterReplay ==
    ASSUME NEW P \in States, NEW h, NEW E, IsEvidence(h, E), NEW x \in 1..MaxEvents
    PROVE  \A n \in 0..MaxEvents :
             Projected(P, h, E)[n].leaves[x] = P.leaves[x] + IF x \in E /\ x <= n THEN 1 ELSE 0
  <1> DEFINE f == Projected(P, h, E)
             S == {n \in Nat : f[n].leaves[x] = P.leaves[x] + IF x \in E /\ x <= n THEN 1 ELSE 0}
  <1> HIDE DEF f
  <1>1. /\ f[0] = P /\ \A n \in 1..MaxEvents : f[n] = Advance(f[n - 1], n, h, E)
        /\ \A n \in 0..MaxEvents : f[n] \in States
    BY Unfolding, ReplayType DEF f
  <1>2. P.leaves[x] \in Nat
    <2>1. P.leaves \in [1..MaxEvents -> Nat]
      BY DEF States
    <2>2. QED
      BY <2>1
  <1>3. 0 \in S
    BY <1>1, <1>2
  <1>4. ASSUME NEW n \in 0..MaxEvents, n < MaxEvents, n \in S
        PROVE  n + 1 \in S
    <2>1. n + 1 \in 1..MaxEvents /\ (n + 1) - 1 = n
      BY <1>4, MaxEventsType
    <2>2. f[n + 1] = Advance(f[n], n + 1, h, E) /\ f[n] \in States
      BY <1>1, <2>1
    <2>3. f[n].leaves[x] = P.leaves[x] + IF x \in E /\ x <= n THEN 1 ELSE 0
      BY <1>4
    <2>4. f[n + 1].leaves[x] = IF n + 1 \in E /\ x = n + 1 THEN f[n].leaves[x] + 1 ELSE f[n].leaves[x]
      <3>1. CASE n + 1 \in E
        <4>1. h[n + 1] \in Events
          BY <3>1 DEF IsEvidence
        <4>2. QED
          BY <2>1, <2>2, <3>1, <4>1, EventEffect DEF Advance
      <3>2. CASE n + 1 \notin E
        BY <2>2, <3>2 DEF Advance
      <3>3. QED
        BY <3>1, <3>2
    <2>5. f[n + 1].leaves[x] = P.leaves[x] + IF x \in E /\ x <= n + 1 THEN 1 ELSE 0
      BY <1>2, <2>1, <2>3, <2>4
    <2>6. QED
      BY <2>1, <2>5
  <1>5. \A n \in 0..MaxEvents : n \in S
    <2> HIDE DEF S
    <2>1. QED
      BY <1>3, <1>4, MaxEventsType, Induction
  <1>6. QED
    BY <1>5 DEF f

-----------------------------------------------------------------------------
(* Sightings *)

\* A sighting of exactly the events of E.
Sights(s, E) ==
    /\ s.evidence = E
    /\ E = {} => s.first = 0 /\ s.last = 0
    /\ E # {} => s.first \in E /\ s.last \in E
    /\ \A x \in E : s.first <= x /\ x <= s.last

LEMMA SightedSights ==
    ASSUME NEW s \in Sightings, NEW E, E \subseteq Nat, Sights(s, E), NEW n \in Nat, n > 0
    PROVE  Sights(Sighted(s, n), E \cup {n})
  <1>1. s.first \in Nat /\ s.last \in Nat
    BY DEF Sightings
  <1>2. /\ Sighted(s, n).evidence = E \cup {n}
        /\ Sighted(s, n).first = IF E = {} \/ n < s.first THEN n ELSE s.first
        /\ Sighted(s, n).last = IF n > s.last THEN n ELSE s.last
    BY DEF Sighted, Sights
  <1>3. CASE E = {}
    BY <1>1, <1>2, <1>3 DEF Sights
  <1>4. CASE E # {}
    BY <1>1, <1>2, <1>4 DEF Sights
  <1>5. QED
    BY <1>3, <1>4

\* There is one first and one last sighting of the same events.
LEMMA SightsUnique ==
    ASSUME NEW s \in Sightings, NEW t \in Sightings, NEW E, E \subseteq Nat,
           Sights(s, E), Sights(t, E)
    PROVE  s.first = t.first /\ s.last = t.last /\ s.evidence = t.evidence
  <1>1. s.first \in Nat /\ s.last \in Nat /\ t.first \in Nat /\ t.last \in Nat
    BY DEF Sightings
  <1>2. QED
    BY <1>1 DEF Sights

Upto(M, E, n) == M \cup {x \in E : x <= n}

LEMMA UptoEnds ==
    ASSUME NEW M, NEW E, E \subseteq 1..MaxEvents
    PROVE  Upto(M, E, 0) = M /\ Upto(M, E, MaxEvents) = M \cup E
  <1>1. \A x \in E : x \in Nat /\ 1 <= x /\ x <= MaxEvents
    BY MaxEventsType
  <1>2. \A x \in E : ~ (x <= 0)
    BY <1>1
  <1>3. {x \in E : x <= 0} = {} /\ {x \in E : x <= MaxEvents} = E
    BY <1>1, <1>2, Zenon
  <1>4. QED
    BY <1>3 DEF Upto

LEMMA UptoNext ==
    ASSUME NEW M, NEW E, E \subseteq 1..MaxEvents, NEW n \in 0..MaxEvents
    PROVE  /\ n + 1 \in E => Upto(M, E, n + 1) = Upto(M, E, n) \cup {n + 1}
           /\ n + 1 \notin E => Upto(M, E, n + 1) = Upto(M, E, n)
  <1>1. n \in Nat /\ \A x \in E : x \in Nat
    BY MaxEventsType
  <1>2. n + 1 <= n + 1 /\ \A x \in E : x <= n + 1 <=> x <= n \/ x = n + 1
    BY <1>1
  <1>3. ASSUME n + 1 \in E
        PROVE  {x \in E : x <= n + 1} = {x \in E : x <= n} \cup {n + 1}
    BY <1>2, <1>3, Zenon
  <1>4. ASSUME n + 1 \notin E
        PROVE  {x \in E : x <= n + 1} = {x \in E : x <= n}
    BY <1>2, <1>4, Zenon
  <1>5. QED
    BY <1>3, <1>4 DEF Upto

LEMMA UptoType ==
    ASSUME NEW M, M \subseteq Nat, NEW E, E \subseteq 1..MaxEvents, NEW n
    PROVE  Upto(M, E, n) \subseteq Nat
  <1>1. \A x \in E : x \in Nat
    BY MaxEventsType
  <1>2. QED
    BY <1>1, Zenon DEF Upto

\* A sighting that one replay updates at each of the events E.
LEMMA SightsAlong ==
    ASSUME NEW z \in [0..MaxEvents -> Sightings], NEW E, E \subseteq 1..MaxEvents,
           NEW M, M \subseteq Nat, Sights(z[0], M),
           \A n \in 1..MaxEvents : z[n] = IF n \in E THEN Sighted(z[n - 1], n) ELSE z[n - 1]
    PROVE  Sights(z[MaxEvents], M \cup E)
  <1> DEFINE S == {n \in Nat : Sights(z[n], Upto(M, E, n))}
  <1>1. 0 \in S
    <2>1. Upto(M, E, 0) = M
      BY UptoEnds
    <2>2. QED
      BY <2>1
  <1>2. ASSUME NEW n \in 0..MaxEvents, n < MaxEvents, n \in S
        PROVE  n + 1 \in S
    <2>1. n + 1 \in 1..MaxEvents /\ (n + 1) - 1 = n /\ n + 1 \in Nat /\ n + 1 > 0
      BY <1>2, MaxEventsType
    <2>2. z[n + 1] = (IF n + 1 \in E THEN Sighted(z[n], n + 1) ELSE z[n]) /\ z[n] \in Sightings
      BY <2>1
    <2>3. /\ n + 1 \in E => Upto(M, E, n + 1) = Upto(M, E, n) \cup {n + 1}
          /\ n + 1 \notin E => Upto(M, E, n + 1) = Upto(M, E, n)
      BY UptoNext
    <2>4. Sights(z[n], Upto(M, E, n)) /\ Upto(M, E, n) \subseteq Nat
      BY <1>2, UptoType
    <2>5. Sights(z[n + 1], Upto(M, E, n + 1))
      BY <2>1, <2>2, <2>3, <2>4, SightedSights
    <2>6. QED
      BY <2>1, <2>5
  <1>3. \A n \in 0..MaxEvents : n \in S
    <2> HIDE DEF S
    <2>1. QED
      BY <1>1, <1>2, MaxEventsType, Induction
  <1>4. MaxEvents \in 0..MaxEvents
    BY MaxEventsType
  <1>5. Upto(M, E, MaxEvents) = M \cup E
    BY UptoEnds
  <1>6. QED
    BY <1>3, <1>4, <1>5

Messages(h, E) == {n \in E : h[n].type = "message"}
MessagesOf(h, E, g) == {n \in E : h[n].type = "message" /\ h[n].engine = g}

\* A replay adds to the sightings of P what its messages show.
LEMMA SightsAfterReplay ==
    ASSUME NEW P \in States, NEW h, NEW E, IsEvidence(h, E), NEW M, M \subseteq Nat
    PROVE  /\ Sights(P.artifact, M) =>
                Sights(Projected(P, h, E)[MaxEvents].artifact, M \cup Messages(h, E))
           /\ \A g \in Recorders : Sights(P.observed[g], M) =>
                Sights(Projected(P, h, E)[MaxEvents].observed[g], M \cup MessagesOf(h, E, g))
  <1> DEFINE f == Projected(P, h, E)
  <1> HIDE DEF f
  <1>1. /\ f[0] = P /\ \A n \in 1..MaxEvents : f[n] = Advance(f[n - 1], n, h, E)
        /\ \A n \in 0..MaxEvents : f[n] \in States
    BY Unfolding, ReplayType DEF f
  <1>2. 0 \in 0..MaxEvents /\ MaxEvents \in 0..MaxEvents
    BY MaxEventsType
  <1>3. ASSUME Sights(P.artifact, M)
        PROVE  Sights(f[MaxEvents].artifact, M \cup Messages(h, E))
    <2> DEFINE z == [n \in 0..MaxEvents |-> f[n].artifact]
    <2>1. z \in [0..MaxEvents -> Sightings]
      BY <1>1 DEF States
    <2>2. z[0] = P.artifact /\ z[MaxEvents] = f[MaxEvents].artifact
      BY <1>1, <1>2
    <2>3. ASSUME NEW n \in 1..MaxEvents
          PROVE  z[n] = IF n \in Messages(h, E) THEN Sighted(z[n - 1], n) ELSE z[n - 1]
      <3>1. n - 1 \in 0..MaxEvents /\ n \in 0..MaxEvents
        BY MaxEventsType
      <3>2. z[n] = f[n].artifact /\ z[n - 1] = f[n - 1].artifact
        BY <3>1
      <3> HIDE DEF z
      <3>3. f[n] = Advance(f[n - 1], n, h, E) /\ f[n - 1] \in States
        BY <1>1, <3>1
      <3>4. CASE n \in E
        <4>1. h[n] \in Events
          BY <3>4 DEF IsEvidence
        <4>2. f[n].artifact =
                IF h[n].type = "message" THEN Sighted(f[n - 1].artifact, n) ELSE f[n - 1].artifact
          BY <3>3, <3>4, <4>1, EventEffect DEF Advance
        <4>3. QED
          BY <3>2, <3>4, <4>2 DEF Messages
      <3>5. CASE n \notin E
        BY <3>2, <3>3, <3>5 DEF Advance, Messages
      <3>6. QED
        BY <3>4, <3>5
    <2>4. Messages(h, E) \subseteq 1..MaxEvents
      BY DEF Messages, IsEvidence
    <2> HIDE DEF z
    <2>5. Sights(z[0], M)
      BY <1>3, <2>2
    <2>6. Sights(z[MaxEvents], M \cup Messages(h, E))
      BY <2>1, <2>3, <2>4, <2>5, SightsAlong
    <2>7. QED
      BY <2>2, <2>6
  <1>4. ASSUME NEW g \in Recorders, Sights(P.observed[g], M)
        PROVE  Sights(f[MaxEvents].observed[g], M \cup MessagesOf(h, E, g))
    <2> DEFINE z == [n \in 0..MaxEvents |-> f[n].observed[g]]
    <2>1. z \in [0..MaxEvents -> Sightings]
      BY <1>1 DEF States
    <2>2. z[0] = P.observed[g] /\ z[MaxEvents] = f[MaxEvents].observed[g]
      BY <1>1, <1>2
    <2>3. ASSUME NEW n \in 1..MaxEvents
          PROVE  z[n] = IF n \in MessagesOf(h, E, g) THEN Sighted(z[n - 1], n) ELSE z[n - 1]
      <3>1. n - 1 \in 0..MaxEvents /\ n \in 0..MaxEvents
        BY MaxEventsType
      <3>2. z[n] = f[n].observed[g] /\ z[n - 1] = f[n - 1].observed[g]
        BY <3>1
      <3> HIDE DEF z
      <3>3. f[n] = Advance(f[n - 1], n, h, E) /\ f[n - 1] \in States
        BY <1>1, <3>1
      <3>4. CASE n \in E
        <4>1. h[n] \in Events
          BY <3>4 DEF IsEvidence
        <4>2. f[n].observed[g] =
                IF h[n].type = "message" /\ g = h[n].engine THEN Sighted(f[n - 1].observed[g], n)
                ELSE f[n - 1].observed[g]
          BY <3>3, <3>4, <4>1, EventEffect DEF Advance
        <4>3. QED
          BY <3>2, <3>4, <4>2 DEF MessagesOf
      <3>5. CASE n \notin E
        BY <3>2, <3>3, <3>5 DEF Advance, MessagesOf
      <3>6. QED
        BY <3>4, <3>5
    <2>4. MessagesOf(h, E, g) \subseteq 1..MaxEvents
      BY DEF MessagesOf, IsEvidence
    <2> HIDE DEF z
    <2>5. Sights(z[0], M)
      BY <1>4, <2>2
    <2>6. Sights(z[MaxEvents], M \cup MessagesOf(h, E, g))
      BY <2>1, <2>3, <2>4, <2>5, SightsAlong
    <2>7. QED
      BY <2>2, <2>6
  <1>5. QED
    BY <1>3, <1>4 DEF f

-----------------------------------------------------------------------------
(* Uploads *)

ProjectionTypes ==
    /\ DOMAIN log \subseteq 1..MaxEvents /\ \A n \in DOMAIN log : log[n] \in Events
    /\ stored \subseteq DOMAIN log
    /\ projections \in States

LEMMA ReplayRows ==
    ASSUME NEW P \in States, NEW E, IsEvidence(log, E)
    PROVE  /\ Replay(P, E) \in States
           /\ Replay(P, E).runs = Projected(P, log, E)[MaxEvents].runs
           /\ Replay(P, E).artifact = Projected(P, log, E)[MaxEvents].artifact
           /\ Replay(P, E).observed = Projected(P, log, E)[MaxEvents].observed
           /\ Replay(P, E).leaves = Projected(P, log, E)[MaxEvents].leaves
  <1> DEFINE Q == Projected(P, log, E)[MaxEvents]
  <1>1. MaxEvents \in 0..MaxEvents
    BY MaxEventsType
  <1>2. Q \in States
    BY <1>1, ReplayType
  <1> HIDE DEF Q
  <1>3. Cleared.active \in [Recorders -> Nat \cup {NoRun}]
    BY DEF Cleared
  <1>4. Replay(P, E) = [Q EXCEPT !.active = Cleared.active]
    BY DEF Replay, Q
  <1>5. QED
    BY <1>2, <1>3, <1>4 DEF States, Q

\* Of runs but none, one started last.
LEMMA LatestRun ==
    ASSUME NEW R, R \subseteq Runs, R # {}
    PROVE  \E r \in R : \A q \in R : q.started <= r.started
  <1> DEFINE S == {x \in 0..MaxEvents : \E r \in R : r.started = x}
  <1>1. \A r \in R : r.started \in 0..MaxEvents
    BY DEF Runs
  <1>2. S # {}
    BY <1>1
  <1>3. PICK x \in S : \A y \in S : y <= x
    BY <1>2, MaxEventsType, GreatestNumber
  <1>4. PICK r \in R : r.started = x
    BY <1>3
  <1>5. \A q \in R : q.started <= x
    BY <1>1, <1>3
  <1>6. QED
    BY <1>4, <1>5

LEMMA ActiveRunsType ==
    ASSUME NEW F, projections \in States
    PROVE  ActiveRuns(F) \in [Recorders -> Nat \cup {NoRun}]
  <1> SUFFICES ASSUME NEW g \in Recorders
               PROVE  ActiveRuns(F)[g] \in Nat \cup {NoRun}
    BY DEF ActiveRuns
  <1> DEFINE inferred == {r \in projections.runs : r.engine = g /\ r.inferred}
             latest == CHOOSE r \in inferred : \A q \in inferred : q.started <= r.started
  <1>1. ActiveRuns(F)[g] = IF /\ \E n \in F : log[n].engine = g /\ MayNeedInferredRun(log[n])
                              /\ inferred # {} /\ StillOpen(latest)
                           THEN latest.id ELSE NoRun
    BY DEF ActiveRuns
  <1>2. inferred \subseteq Runs
    BY DEF States
  <1>3. ASSUME inferred # {}
        PROVE  latest.id \in Nat
    <2>1. \E r \in inferred : \A q \in inferred : q.started <= r.started
      <3> HIDE DEF inferred
      <3>1. QED
        BY <1>2, <1>3, LatestRun
    <2>2. latest \in inferred
      BY <2>1, Zenon
    <2>3. QED
      BY <1>2, <2>2 DEF Runs
  <1> HIDE DEF latest, inferred
  <1>4. QED
    BY <1>1, <1>3, Zenon

\* The rows that an incremental upload starts from.
Resumed(F) == [projections EXCEPT !.active = ActiveRuns(F)]

\* An upload's new rows, whichever way it goes, are a replay of evidence over
\* no rows or over the old ones with the active runs looked up.
LEMMA UploadRows ==
    ASSUME ProjectionTypes, NEW F, Upload(F)
    PROVE  /\ IsEvidence(log, stored) /\ IsEvidence(log, F) /\ IsEvidence(log, stored \cup F)
           /\ F \cap stored = {}
           /\ log' = log /\ stored' = stored \cup F
           /\ Resumed(F) \in States
           /\ Resumed(F).runs = projections.runs /\ Resumed(F).active = ActiveRuns(F)
           /\ Resumed(F).artifact = projections.artifact /\ Resumed(F).observed = projections.observed
           /\ Resumed(F).leaves = projections.leaves
           /\ Backfills(F) => projections' = Replay(Cleared, stored \cup F)
           /\ ~Backfills(F) => projections' = Replay(Resumed(F), F)
           /\ projections' \in States
  <1>1. IsEvidence(log, stored) /\ IsEvidence(log, F) /\ IsEvidence(log, stored \cup F)
    BY DEF ProjectionTypes, Upload, IsEvidence
  <1>2. ActiveRuns(F) \in [Recorders -> Nat \cup {NoRun}] /\ projections \in States
    BY ActiveRunsType DEF ProjectionTypes
  <1>3. /\ Resumed(F) \in States
        /\ Resumed(F).runs = projections.runs /\ Resumed(F).active = ActiveRuns(F)
        /\ Resumed(F).artifact = projections.artifact /\ Resumed(F).observed = projections.observed
        /\ Resumed(F).leaves = projections.leaves
    BY <1>2 DEF States, Resumed
  <1>4. Replay(Cleared, stored \cup F) \in States
    BY <1>1, ClearedType, ReplayRows
  <1>5. Replay(Resumed(F), F) \in States
    BY <1>1, <1>3, ReplayRows
  <1>6. /\ F \cap stored = {} /\ log' = log /\ stored' = stored \cup F
        /\ Backfills(F) => projections' = Replay(Cleared, stored \cup F)
        /\ ~Backfills(F) => projections' = Replay(Resumed(F), F)
    BY DEF Upload, Rebuilt, Resumed
  <1>7. QED
    BY <1>1, <1>3, <1>4, <1>5, <1>6

LEMMA ProjectionTypesHold == ProjectionsSpec => []ProjectionTypes
  <1>1. ProjectionsInit => ProjectionTypes
    <2> SUFFICES ASSUME ProjectionsInit
                 PROVE  ProjectionTypes
      OBVIOUS
    <2>1. PICK n \in 0..MaxEvents : log \in [1..n -> Events]
      BY DEF ProjectionsInit
    <2>2. QED
      BY <2>1, MaxEventsType, ClearedType DEF ProjectionsInit, ProjectionTypes
  <1>2. ProjectionTypes /\ [ProjectionsNext]_projectionVars => ProjectionTypes'
    <2> SUFFICES ASSUME ProjectionTypes, [ProjectionsNext]_projectionVars
                 PROVE  ProjectionTypes'
      OBVIOUS
    <2>1. CASE UNCHANGED projectionVars
      BY <2>1 DEF ProjectionTypes, projectionVars
    <2>2. ASSUME NEW F \in SUBSET DOMAIN log, Upload(F)
          PROVE  ProjectionTypes'
      <3>1. projections' \in States
        BY <2>2, UploadRows
      <3>2. log' = log /\ stored' \subseteq DOMAIN log
        BY <2>2 DEF Upload, ProjectionTypes
      <3>3. QED
        BY <3>1, <3>2 DEF ProjectionTypes
    <2>3. QED
      BY <2>1, <2>2 DEF ProjectionsNext
  <1>3. QED
    BY <1>1, <1>2, PTL DEF ProjectionsSpec

LEMMA LeavesAfterUpload ==
    ASSUME ProjectionTypes, EachEventProjectedOnce, NEW F, Upload(F)
    PROVE  EachEventProjectedOnce'
  <1> SUFFICES ASSUME NEW x \in 1..MaxEvents
               PROVE  projections'.leaves[x] = IF x \in stored' THEN 1 ELSE 0
    BY DEF EachEventProjectedOnce
  <1>1. MaxEvents \in 0..MaxEvents /\ x <= MaxEvents
    BY MaxEventsType
  <1>2. CASE Backfills(F)
    <2> DEFINE E == stored \cup F
    <2>1. projections' = Replay(Cleared, E) /\ stored' = E /\ IsEvidence(log, E)
      BY <1>2, UploadRows
    <2> HIDE DEF E
    <2>2. projections'.leaves = Projected(Cleared, log, E)[MaxEvents].leaves
      BY <2>1, ReplayRows, ClearedType
    <2>3. Projected(Cleared, log, E)[MaxEvents].leaves[x] =
            Cleared.leaves[x] + IF x \in E /\ x <= MaxEvents THEN 1 ELSE 0
      BY <1>1, <2>1, LeavesAfterReplay, ClearedType
    <2>4. Cleared.leaves[x] = 0
      BY DEF Cleared
    <2>5. QED
      BY <1>1, <2>1, <2>2, <2>3, <2>4
  <1>3. CASE ~Backfills(F)
    <2>1. /\ projections' = Replay(Resumed(F), F) /\ stored' = stored \cup F /\ IsEvidence(log, F)
          /\ Resumed(F) \in States /\ Resumed(F).leaves = projections.leaves /\ F \cap stored = {}
      BY <1>3, UploadRows
    <2>2. projections'.leaves = Projected(Resumed(F), log, F)[MaxEvents].leaves
      BY <2>1, ReplayRows
    <2>3. Projected(Resumed(F), log, F)[MaxEvents].leaves[x] =
            Resumed(F).leaves[x] + IF x \in F /\ x <= MaxEvents THEN 1 ELSE 0
      BY <1>1, <2>1, LeavesAfterReplay
    <2>4. projections.leaves[x] = IF x \in stored THEN 1 ELSE 0
      BY DEF EachEventProjectedOnce
    <2>5. QED
      BY <1>1, <2>1, <2>2, <2>3, <2>4
  <1>4. QED
    BY <1>2, <1>3

\* However the segments of a group's evidence are cut and ordered, the rows that
\* belong to a single event are there exactly once for every stored event: a
\* backfill's rebuild starts from cleared rows, and every other upload projects
\* its new events and nothing else.
THEOREM ProjectedOnce == ProjectionsSpec => []EachEventProjectedOnce
  <1>1. ProjectionsInit => EachEventProjectedOnce
    BY DEF ProjectionsInit, EachEventProjectedOnce, Cleared
  <1>2. ProjectionTypes /\ EachEventProjectedOnce /\ [ProjectionsNext]_projectionVars => EachEventProjectedOnce'
    <2> SUFFICES ASSUME ProjectionTypes, EachEventProjectedOnce, [ProjectionsNext]_projectionVars
                 PROVE  EachEventProjectedOnce'
      OBVIOUS
    <2>1. CASE UNCHANGED projectionVars
      BY <2>1 DEF EachEventProjectedOnce, projectionVars
    <2>2. CASE ProjectionsNext
      BY <2>2, LeavesAfterUpload DEF ProjectionsNext
    <2>3. QED
      BY <2>1, <2>2
  <1>3. QED
    BY <1>1, <1>2, ProjectionTypesHold, PTL DEF ProjectionsSpec

\* The sightings are those of the stored messages.
SightingsStored ==
    /\ Sights(projections.artifact, Messages(log, stored))
    /\ \A g \in Recorders : Sights(projections.observed[g], MessagesOf(log, stored, g))

\* What a rebuild shows.
LEMMA SightsAfterRebuild ==
    ASSUME NEW E, IsEvidence(log, E)
    PROVE  /\ Sights(Replay(Cleared, E).artifact, Messages(log, E))
           /\ \A g \in Recorders : Sights(Replay(Cleared, E).observed[g], MessagesOf(log, E, g))
  <1>1. Sights(Cleared.artifact, {}) /\ \A g \in Recorders : Sights(Cleared.observed[g], {})
    BY DEF Cleared, NotSeen, Sights
  <1>2. /\ Replay(Cleared, E).artifact = Projected(Cleared, log, E)[MaxEvents].artifact
        /\ Replay(Cleared, E).observed = Projected(Cleared, log, E)[MaxEvents].observed
    BY ClearedType, ReplayRows
  <1>3. {} \subseteq Nat /\ Cleared \in States
    BY ClearedType
  <1>4. Sights(Projected(Cleared, log, E)[MaxEvents].artifact, {} \cup Messages(log, E))
    BY <1>1, <1>3, SightsAfterReplay
  <1>5. \A g \in Recorders :
          Sights(Projected(Cleared, log, E)[MaxEvents].observed[g], {} \cup MessagesOf(log, E, g))
    BY <1>1, <1>3, SightsAfterReplay
  <1>6. {} \cup Messages(log, E) = Messages(log, E)
    OBVIOUS
  <1>7. \A g \in Recorders : {} \cup MessagesOf(log, E, g) = MessagesOf(log, E, g)
    OBVIOUS
  <1>8. QED
    BY <1>2, <1>4, <1>5, <1>6, <1>7

LEMMA SightsAfterUpload ==
    ASSUME ProjectionTypes, SightingsStored, NEW F, Upload(F)
    PROVE  SightingsStored'
  <1>1. CASE Backfills(F)
    BY <1>1, UploadRows, SightsAfterRebuild DEF SightingsStored
  <1>2. CASE ~Backfills(F)
    <2>1. /\ projections' = Replay(Resumed(F), F) /\ stored' = stored \cup F /\ log' = log
          /\ IsEvidence(log, F) /\ IsEvidence(log, stored) /\ Resumed(F) \in States
          /\ Resumed(F).artifact = projections.artifact /\ Resumed(F).observed = projections.observed
      BY <1>2, UploadRows
    <2>2. /\ projections'.artifact = Projected(Resumed(F), log, F)[MaxEvents].artifact
          /\ projections'.observed = Projected(Resumed(F), log, F)[MaxEvents].observed
      BY <2>1, ReplayRows
    <2>3. stored \subseteq Nat
      BY <2>1, MaxEventsType DEF IsEvidence
    <2>4. Sights(projections'.artifact, Messages(log', stored'))
      <3>1. Messages(log, stored) \subseteq Nat
        BY <2>3 DEF Messages
      <3>2. Sights(Resumed(F).artifact, Messages(log, stored))
        BY <2>1 DEF SightingsStored
      <3>3. Sights(projections'.artifact, Messages(log, stored) \cup Messages(log, F))
        BY <2>1, <2>2, <3>1, <3>2, SightsAfterReplay
      <3>4. Messages(log, stored \cup F) = Messages(log, stored) \cup Messages(log, F)
        BY DEF Messages
      <3>5. QED
        BY <2>1, <3>3, <3>4
    <2>5. ASSUME NEW g \in Recorders
          PROVE  Sights(projections'.observed[g], MessagesOf(log', stored', g))
      <3>1. MessagesOf(log, stored, g) \subseteq Nat
        BY <2>3 DEF MessagesOf
      <3>2. Sights(Resumed(F).observed[g], MessagesOf(log, stored, g))
        BY <2>1 DEF SightingsStored
      <3>3. Sights(projections'.observed[g], MessagesOf(log, stored, g) \cup MessagesOf(log, F, g))
        BY <2>1, <2>2, <3>1, <3>2, SightsAfterReplay
      <3>4. MessagesOf(log, stored \cup F, g) = MessagesOf(log, stored, g) \cup MessagesOf(log, F, g)
        BY DEF MessagesOf
      <3>5. QED
        BY <2>1, <3>3, <3>4
    <2>6. QED
      BY <2>4, <2>5 DEF SightingsStored
  <1>3. QED
    BY <1>1, <1>2

LEMMA SightingsDetermined ==
    ASSUME ProjectionTypes, SightingsStored
    PROVE  SightingsMatchRebuild
  <1>1. IsEvidence(log, stored) /\ projections \in States /\ stored \subseteq Nat
    BY MaxEventsType DEF ProjectionTypes, IsEvidence
  <1>2. Replay(Cleared, stored) \in States
    BY <1>1, ClearedType, ReplayRows
  <1> DEFINE R == Replay(Cleared, stored)
             same(s, t) == s.first = t.first /\ s.last = t.last /\ s.evidence = t.evidence
  <1>3. same(projections.artifact, R.artifact)
    <2>1. Messages(log, stored) \subseteq Nat
      BY <1>1 DEF Messages
    <2>2. projections.artifact \in Sightings /\ R.artifact \in Sightings
      BY <1>1, <1>2 DEF States
    <2>3. Sights(projections.artifact, Messages(log, stored)) /\ Sights(R.artifact, Messages(log, stored))
      BY <1>1, SightsAfterRebuild DEF SightingsStored
    <2>4. QED
      BY <2>1, <2>2, <2>3, SightsUnique
  <1>4. ASSUME NEW g \in Recorders
        PROVE  same(projections.observed[g], R.observed[g])
    <2>1. MessagesOf(log, stored, g) \subseteq Nat
      BY <1>1 DEF MessagesOf
    <2>2. projections.observed[g] \in Sightings /\ R.observed[g] \in Sightings
      BY <1>1, <1>2 DEF States
    <2>3. /\ Sights(projections.observed[g], MessagesOf(log, stored, g))
          /\ Sights(R.observed[g], MessagesOf(log, stored, g))
      BY <1>1, SightsAfterRebuild DEF SightingsStored
    <2>4. QED
      BY <2>1, <2>2, <2>3, SightsUnique
  <1>5. R = Rebuilt(stored)
    BY DEF Rebuilt
  <1> HIDE DEF R
  <1>6. QED
    BY <1>3, <1>4, <1>5 DEF SightingsMatchRebuild

\* In whatever order the uploads arrive, the artifact and every recorder's
\* observation have the evidence, the first and the last sighting that a rebuild
\* from the stored events gives them.
THEOREM SightingsMatch == ProjectionsSpec => []SightingsMatchRebuild
  <1>1. ProjectionsInit => SightingsStored
    BY DEF ProjectionsInit, SightingsStored, Sights, Messages, MessagesOf, Cleared, NotSeen
  <1>2. ProjectionTypes /\ SightingsStored /\ [ProjectionsNext]_projectionVars => SightingsStored'
    <2> SUFFICES ASSUME ProjectionTypes, SightingsStored, [ProjectionsNext]_projectionVars
                 PROVE  SightingsStored'
      OBVIOUS
    <2>1. CASE UNCHANGED projectionVars
      BY <2>1 DEF SightingsStored, projectionVars
    <2>2. CASE ProjectionsNext
      BY <2>2, SightsAfterUpload DEF ProjectionsNext
    <2>3. QED
      BY <2>1, <2>2
  <1>3. ProjectionTypes /\ SightingsStored => SightingsMatchRebuild
    BY SightingsDetermined
  <1>4. QED
    BY <1>1, <1>2, <1>3, ProjectionTypesHold, PTL DEF ProjectionsSpec

-----------------------------------------------------------------------------
(* Runs that no context names *)

\* No event names its run: every run is an inferred one.
ImplicitRuns == Contexts \subseteq {"none", "bare"}

LEMMA Implicit ==
    ASSUME ImplicitRuns, NEW e \in Events
    PROVE  e.context \in {"none", "bare"} /\ ~Explicit(e) /\ e.context # "run-inferred"
  BY DEF ImplicitRuns, Events, Explicit

\* A recorder's runs after the events up to the n-th: one after the other, the
\* last of them active until an event ends it.
RunInOrder(r, n) ==
    /\ r.inferred = TRUE /\ r.started = r.id /\ r.id \in 1..n
    /\ r.ended \in r.evidence /\ r.ended \in 1..n /\ \A x \in r.evidence : x <= r.ended

Ordered(v, n, h) ==
    /\ \A r \in v.runs : RunInOrder(r, n)
    /\ \A r, q \in v.runs : r.id = q.id => r = q
    /\ v.active # NoRun =>
        \E r \in v.runs : /\ r.id = v.active /\ \A q \in v.runs : q.id <= r.id
                          /\ ~Terminal(h[r.ended], r.phase)
    /\ v.active = NoRun =>
        \A r \in v.runs : (\A q \in v.runs : q.id <= r.id) => Terminal(h[r.ended], r.phase)

LEMMA OrderedLater ==
    ASSUME NEW v, NEW h, NEW n \in 1..MaxEvents, Ordered(v, n - 1, h)
    PROVE  Ordered(v, n, h)
  <1>1. n \in Nat
    BY MaxEventsType
  <1>2. ASSUME NEW r, RunInOrder(r, n - 1)
        PROVE  RunInOrder(r, n)
    BY <1>1, <1>2 DEF RunInOrder
  <1>3. QED
    BY <1>2 DEF Ordered

\* The run that an event is added to: the active one or a new one.
LEMMA RunAfterInOrder ==
    ASSUME ImplicitRuns, NEW e \in Events, NEW v \in Views(e.engine), NEW h, NEW n \in 1..MaxEvents,
           Ordered(v, n - 1, h)
    PROVE  /\ RunInOrder(RunAfter(v, n, e), n)
           /\ RunAfter(v, n, e).id = Chosen(v, n, e) /\ RunAfter(v, n, e).ended = n
           /\ \A q \in v.runs : q.id <= Chosen(v, n, e)
  <1> DEFINE id == Chosen(v, n, e)
             mine == {r \in v.runs : r.id = id}
             base == IF mine = {} THEN NewRun(id, n, e) ELSE CHOOSE r \in mine : TRUE
             run == RunAfter(v, n, e)
  <1>1. /\ run = Updated(base, n, e)
        /\ n \in Nat /\ 1 <= n /\ n <= n /\ ~ (n < n)
        /\ id = IF v.active # NoRun THEN v.active ELSE n
    BY Implicit, MaxEventsType DEF RunAfter, Chosen
  <1>2. e.context # "run-inferred"
    BY Implicit
  <1>3. \A q \in v.runs : q \in Runs /\ q.id \in Nat /\ RunInOrder(q, n - 1)
    BY DEF Views, Runs, Ordered
  <1>4. \A q \in v.runs : q.id < n /\ q.id <= n
    BY <1>1, <1>3 DEF RunInOrder
  <1>5. CASE v.active = NoRun
    <2>1. id = n /\ mine = {}
      BY <1>1, <1>4, <1>5
    <2>2. base = NewRun(n, n, e)
      BY <2>1
    <2> HIDE DEF id, mine, base, run
    <2>3. /\ base \in Runs /\ base.id = n /\ base.inferred = TRUE /\ base.started = n
          /\ base.ended = n /\ base.evidence = {}
      <3>1. NewRun(n, n, e) \in Runs
        BY <1>1, NewRunFields
      <3>2. (~Explicit(e)) = TRUE
        BY Implicit, Zenon
      <3>3. QED
        BY <2>2, <3>1, <3>2 DEF NewRun
    <2>4. /\ run.id = n /\ run.inferred = TRUE /\ run.started = n
          /\ run.ended = n /\ run.evidence = {} \cup {n}
      <3>0. base \in Runs
        BY <2>3
      <3>1. /\ Updated(base, n, e).id = base.id
            /\ Updated(base, n, e).inferred = IF e.context = "run-inferred" THEN TRUE ELSE base.inferred
            /\ Updated(base, n, e).started = IF n < base.started THEN n ELSE base.started
            /\ Updated(base, n, e).ended = IF n > base.ended THEN n ELSE base.ended
            /\ Updated(base, n, e).evidence = base.evidence \cup {n}
        BY <3>0, UpdatedFields, Zenon
      <3>2. QED
        BY <1>1, <1>2, <2>3, <3>1
    <2>5. RunInOrder(run, n)
      BY <1>1, <2>4 DEF RunInOrder
    <2>6. QED
      BY <1>4, <2>1, <2>4, <2>5 DEF id, run
  <1>6. CASE v.active # NoRun
    <2>1. PICK r \in v.runs : r.id = v.active /\ \A q \in v.runs : q.id <= r.id
      BY <1>6 DEF Ordered
    <2>2. id = r.id /\ mine = {r}
      BY <1>1, <1>6, <2>1 DEF Ordered
    <2>3. base = r
      BY <2>2
    <2> HIDE DEF id, mine, base, run
    <2>4. RunInOrder(r, n - 1) /\ r \in Runs
      BY <1>3
    <2>5. /\ r.inferred = TRUE /\ r.started = r.id /\ r.id \in Nat /\ 1 <= r.id /\ r.id < n
          /\ r.ended \in Nat /\ r.ended < n /\ \A x \in r.evidence : x <= r.ended
      BY <1>1, <2>4 DEF RunInOrder
    <2>6. /\ run.id = r.id /\ run.inferred = TRUE /\ run.started = r.id
          /\ run.ended = n /\ run.evidence = r.evidence \cup {n}
      <3>1. /\ Updated(r, n, e).id = r.id
            /\ Updated(r, n, e).inferred = IF e.context = "run-inferred" THEN TRUE ELSE r.inferred
            /\ Updated(r, n, e).started = IF n < r.started THEN n ELSE r.started
            /\ Updated(r, n, e).ended = IF n > r.ended THEN n ELSE r.ended
            /\ Updated(r, n, e).evidence = r.evidence \cup {n}
        BY <2>4, UpdatedFields, Zenon
      <3>2. ~ (n < r.started) /\ n > r.ended
        BY <1>1, <2>5
      <3>3. QED
        BY <1>1, <1>2, <2>3, <2>5, <3>1, <3>2
    <2>7. \A x \in run.evidence : x <= n
      <3>1. \A x \in r.evidence : x \in Nat
        BY <2>4 DEF Runs
      <3>2. QED
        BY <1>1, <2>5, <2>6, <3>1
    <2>8. RunInOrder(run, n)
      BY <1>1, <2>5, <2>6, <2>7 DEF RunInOrder
    <2>9. QED
      BY <2>1, <2>2, <2>6, <2>8 DEF id, run
  <1>7. QED
    BY <1>5, <1>6

LEMMA OrderedNext ==
    ASSUME ImplicitRuns, NEW e \in Events, NEW v \in Views(e.engine), NEW h, NEW n \in 1..MaxEvents,
           Ordered(v, n - 1, h), e = h[n]
    PROVE  Ordered(ViewAfter(v, n, e), n, h)
  <1> DEFINE run == RunAfter(v, n, e)
             id == Chosen(v, n, e)
             w == ViewAfter(v, n, e)
  <1>1. CASE ~Concerns(v, e)
    BY <1>1, OrderedLater DEF ViewAfter
  <1>2. CASE Concerns(v, e)
    <2>1. RunInOrder(run, n) /\ run.id = id /\ run.ended = n /\ \A q \in v.runs : q.id <= id
      BY RunAfterInOrder
    <2>2. w = [runs |-> {r \in v.runs : r.id # id} \cup {run}, active |-> ActiveAfter(e, run)]
      BY <1>2 DEF ViewAfter
    <2>3. id \in Nat /\ run \in Runs /\ \A q \in v.runs : q.id \in Nat
      BY RunAfterFields DEF Views, Runs
    <2>4. Ordered(v, n, h)
      BY OrderedLater
    <2>5. ActiveAfter(e, run) = IF Terminal(e, run.phase) THEN NoRun ELSE id
      BY <2>1, Implicit DEF ActiveAfter
    <2> HIDE DEF run, id, w
    <2>6. /\ w.runs = {r \in v.runs : r.id # id} \cup {run}
          /\ w.active = IF Terminal(e, run.phase) THEN NoRun ELSE id
      BY <2>2, <2>5
    <2>7. \A r \in w.runs : RunInOrder(r, n)
      BY <2>1, <2>4, <2>6 DEF Ordered
    <2>8. \A r, q \in w.runs : r.id = q.id => r = q
      BY <2>1, <2>4, <2>6 DEF Ordered
    <2>9. run \in w.runs /\ \A q \in w.runs : q.id <= run.id
      BY <2>1, <2>3, <2>6
    <2>10. ASSUME NEW r \in w.runs, \A q \in w.runs : q.id <= r.id
           PROVE  r = run
      <3>1. run.id <= r.id /\ r.id <= run.id /\ r.id \in Nat /\ run.id \in Nat
        BY <2>1, <2>3, <2>6, <2>9, <2>10
      <3>2. QED
        BY <2>8, <2>9, <3>1
    <2>11. Terminal(h[run.ended], run.phase) <=> w.active = NoRun
      <3>1. id # NoRun
        BY <2>3, ProjectionsAssumption
      <3>2. h[run.ended] = e
        BY <2>1
      <3>3. QED
        BY <2>6, <3>1, <3>2
    <2>12. w.active # NoRun => w.active = run.id
      BY <2>1, <2>6
    <2>13. QED
      BY <2>7, <2>8, <2>9, <2>10, <2>11, <2>12 DEF Ordered, w
  <1>3. QED
    BY <1>1, <1>2

\* What an event that cannot need an inferred run leaves alone.
LEMMA Indifferent ==
    ASSUME ImplicitRuns, NEW e \in Events, NEW v, NEW n, ~MayNeedInferredRun(e)
    PROVE  ViewAfter(v, n, e) = v
  BY Implicit DEF ViewAfter, Concerns, MayNeedInferredRun, ConvergenceType

\* The events of E that matter for the runs of a recorder.
Needing(h, E, g) == {n \in E : h[n].engine = g /\ MayNeedInferredRun(h[n])}

LEMMA ViewNext ==
    ASSUME ImplicitRuns, NEW P \in States, NEW h, NEW E, IsEvidence(h, E), NEW g \in Recorders,
           NEW n \in 1..MaxEvents
    PROVE  View(Advance(P, n, h, E), g) =
             IF n \in Needing(h, E, g) THEN ViewAfter(View(P, g), n, h[n]) ELSE View(P, g)
  <1>1. CASE n \notin E
    BY <1>1 DEF Advance, Needing
  <1>2. CASE n \in E
    <2>1. h[n] \in Events
      BY <1>2 DEF IsEvidence
    <2>2. View(ProjectEvent(P, n, h[n]), g) =
            IF g = h[n].engine THEN ViewAfter(View(P, g), n, h[n]) ELSE View(P, g)
      BY <2>1, EventEffect
    <2>3. ~MayNeedInferredRun(h[n]) => ViewAfter(View(P, g), n, h[n]) = View(P, g)
      BY <2>1, Indifferent
    <2>4. QED
      BY <1>2, <2>2, <2>3 DEF Advance, Needing
  <1>3. QED
    BY <1>1, <1>2

\* The view of a recorder along a replay.
LEMMA ViewAlong ==
    ASSUME ImplicitRuns, NEW P \in States, NEW h, NEW E, IsEvidence(h, E), NEW g \in Recorders,
           NEW n \in 0..MaxEvents, n < MaxEvents
    PROVE  View(Projected(P, h, E)[n + 1], g) =
             IF n + 1 \in Needing(h, E, g)
             THEN ViewAfter(View(Projected(P, h, E)[n], g), n + 1, h[n + 1])
             ELSE View(Projected(P, h, E)[n], g)
  <1> DEFINE f == Projected(P, h, E)
  <1>1. n + 1 \in 1..MaxEvents /\ (n + 1) - 1 = n
    BY MaxEventsType
  <1>2. f[n + 1] = Advance(f[n], n + 1, h, E)
    <2>1. \A k \in 1..MaxEvents : f[k] = Advance(f[k - 1], k, h, E)
      BY Unfolding
    <2> HIDE DEF f
    <2>2. QED
      BY <1>1, <2>1
  <1>3. f[n] \in States
    BY ReplayType
  <1> HIDE DEF f
  <1>4. QED
    BY <1>1, <1>2, <1>3, ViewNext DEF f

LEMMA OrderedAlong ==
    ASSUME ImplicitRuns, NEW h, NEW E, IsEvidence(h, E), NEW g \in Recorders
    PROVE  \A n \in 0..MaxEvents : Ordered(View(Projected(Cleared, h, E)[n], g), n, h)
  <1> DEFINE v(n) == View(Projected(Cleared, h, E)[n], g)
             S == {n \in Nat : Ordered(v(n), n, h)}
  <1>1. 0 \in S
    <2>1. Projected(Cleared, h, E)[0] = Cleared
      BY Unfolding
    <2>2. v(0) = View(Cleared, g)
      BY <2>1
    <2>3. View(Cleared, g).runs = {} /\ View(Cleared, g).active = NoRun
      BY DEF View, Cleared
    <2> HIDE DEF v
    <2>4. QED
      BY <2>2, <2>3 DEF Ordered
  <1>2. ASSUME NEW n \in 0..MaxEvents, n < MaxEvents, n \in S
        PROVE  n + 1 \in S
    <2>1. n + 1 \in 1..MaxEvents /\ (n + 1) - 1 = n /\ n + 1 \in Nat
      BY <1>2, MaxEventsType
    <2>2. v(n + 1) = IF n + 1 \in Needing(h, E, g) THEN ViewAfter(v(n), n + 1, h[n + 1]) ELSE v(n)
      BY <1>2, ClearedType, ViewAlong
    <2>3. v(n) \in Views(g)
      BY ClearedType, ReplayType, ViewType
    <2>4. Ordered(v(n), (n + 1) - 1, h)
      BY <1>2, <2>1
    <2> HIDE DEF v
    <2>5. CASE n + 1 \in Needing(h, E, g)
      <3>1. h[n + 1] \in Events /\ h[n + 1].engine = g
        BY <2>5 DEF Needing, IsEvidence
      <3>2. Ordered(ViewAfter(v(n), n + 1, h[n + 1]), n + 1, h)
        BY <2>1, <2>3, <2>4, <3>1, OrderedNext
      <3>3. QED
        BY <2>1, <2>2, <2>5, <3>2
    <2>6. CASE n + 1 \notin Needing(h, E, g)
      <3>1. Ordered(v(n), n + 1, h)
        BY <2>1, <2>4, OrderedLater
      <3>2. QED
        BY <2>1, <2>2, <2>6, <3>1
    <2>7. QED
      BY <2>5, <2>6
  <1>3. \A n \in 0..MaxEvents : n \in S
    <2> HIDE DEF S
    <2>1. QED
      BY <1>1, <1>2, MaxEventsType, Induction
  <1>4. QED
    BY <1>3

\* After its last event that matters, a replay leaves a recorder's runs alone.
LEMMA ViewSettled ==
    ASSUME ImplicitRuns, NEW P \in States, NEW h, NEW E, IsEvidence(h, E), NEW g \in Recorders,
           NEW n \in 0..MaxEvents, \A x \in Needing(h, E, g) : x <= n
    PROVE  View(Projected(P, h, E)[MaxEvents], g) = View(Projected(P, h, E)[n], g)
  <1> DEFINE v(k) == View(Projected(P, h, E)[k], g)
             S == {k \in Nat : n <= k => v(k) = v(n)}
  <1>1. 0 \in S
    <2>1. n <= 0 => n = 0
      BY MaxEventsType
    <2>2. QED
      BY <2>1
  <1>2. ASSUME NEW k \in 0..MaxEvents, k < MaxEvents, k \in S
        PROVE  k + 1 \in S
    <2>1. k \in Nat /\ k + 1 \in Nat /\ n \in Nat
      BY MaxEventsType
    <2>2. v(k + 1) = IF k + 1 \in Needing(h, E, g) THEN ViewAfter(v(k), k + 1, h[k + 1]) ELSE v(k)
      BY <1>2, ViewAlong
    <2> HIDE DEF v
    <2>3. ASSUME n <= k + 1
          PROVE  v(k + 1) = v(n)
      <3>1. CASE n = k + 1
        BY <3>1
      <3>2. CASE n <= k
        <4>1. ~ (k + 1 <= n)
          BY <2>1, <3>2
        <4>2. k + 1 \notin Needing(h, E, g)
          BY <4>1
        <4>3. QED
          BY <1>2, <2>2, <3>2, <4>2
      <3>3. QED
        BY <2>1, <2>3, <3>1, <3>2
    <2>4. QED
      BY <2>1, <2>3
  <1>3. \A k \in 0..MaxEvents : k \in S
    <2> HIDE DEF S
    <2>1. QED
      BY <1>1, <1>2, MaxEventsType, Induction
  <1>4. MaxEvents \in 0..MaxEvents /\ n <= MaxEvents
    BY MaxEventsType
  <1> HIDE DEF v
  <1>5. v(MaxEvents) = v(n)
    BY <1>3, <1>4
  <1>6. QED
    BY <1>5 DEF v

\* When every new event that matters for a recorder comes after its stored ones,
\* the replay of the new events over the rows of the stored ones gives the runs of
\* one replay of all of them.
LEMMA Stitched ==
    ASSUME ImplicitRuns, NEW h, NEW E, NEW F, IsEvidence(h, E), IsEvidence(h, F),
           IsEvidence(h, E \cup F), F \cap E = {}, NEW g \in Recorders, NEW P \in States,
           \A n \in Needing(h, F, g), m \in Needing(h, E, g) : m < n,
           View(P, g).runs = View(Projected(Cleared, h, E)[MaxEvents], g).runs,
           Needing(h, F, g) # {} => View(P, g) = View(Projected(Cleared, h, E)[MaxEvents], g)
    PROVE  View(Projected(P, h, F)[MaxEvents], g).runs =
               View(Projected(Cleared, h, E \cup F)[MaxEvents], g).runs
  <1> DEFINE before(n) == View(Projected(Cleared, h, E)[n], g)
             full(n) == View(Projected(Cleared, h, E \cup F)[n], g)
             step(n) == View(Projected(P, h, F)[n], g)
             Old == Needing(h, E, g)
             New == Needing(h, F, g)
             S == {n \in Nat : /\ (\E m \in New : m <= n) => full(n) = step(n)
                               /\ (\A m \in New : ~ (m <= n)) => full(n) = before(n) /\ step(n) = step(0)}
  <1>1. Needing(h, E \cup F, g) = Old \cup New
    BY DEF Needing
  <1>2. New \subseteq 1..MaxEvents /\ Old \subseteq 1..MaxEvents /\ New \cap Old = {}
    BY DEF Needing, IsEvidence
  <1>3. full(0) = before(0) /\ step(0) = View(P, g)
    <2>1. /\ Projected(Cleared, h, E)[0] = Cleared /\ Projected(Cleared, h, E \cup F)[0] = Cleared
          /\ Projected(P, h, F)[0] = P
      BY Unfolding
    <2>2. QED
      BY <2>1
  <1>4. \A n \in New : n \in Nat /\ n > 0
    BY <1>2, MaxEventsType
  <1>5. 0 \in S
    <2> HIDE DEF full, step, before, New
    <2>1. QED
      BY <1>3, <1>4
  <1>6. ASSUME NEW n \in 0..MaxEvents, n < MaxEvents, n \in S
        PROVE  n + 1 \in S
    <2>1. n \in Nat /\ n + 1 \in Nat /\ n + 1 <= n + 1
      BY MaxEventsType
    <2>2. before(n + 1) = IF n + 1 \in Old THEN ViewAfter(before(n), n + 1, h[n + 1]) ELSE before(n)
      BY <1>6, ClearedType, ViewAlong
    <2>3. step(n + 1) = IF n + 1 \in New THEN ViewAfter(step(n), n + 1, h[n + 1]) ELSE step(n)
      BY <1>6, ViewAlong
    <2>4. full(n + 1) = IF n + 1 \in Old \cup New THEN ViewAfter(full(n), n + 1, h[n + 1])
                        ELSE full(n)
      BY <1>1, <1>6, ClearedType, ViewAlong
    <2>5. ASSUME n + 1 \in New
          PROVE  step(n) = full(n)
      <3>1. CASE \E m \in New : m <= n
        BY <1>6, <3>1
      <3>2. CASE \A m \in New : ~ (m <= n)
        <4>1. \A x \in Old : x <= n
          <5>1. \A x \in Old : x \in Nat /\ x < n + 1
            BY <1>2, <2>5, MaxEventsType
          <5>2. QED
            BY <2>1, <5>1
        <4>2. before(MaxEvents) = before(n)
          BY <4>1, ClearedType, ViewSettled
        <4>3. View(P, g) = before(MaxEvents)
          BY <2>5
        <4>4. full(n) = before(n) /\ step(n) = step(0)
          BY <1>6, <3>2
        <4> HIDE DEF full, step, before
        <4>5. QED
          BY <1>3, <4>2, <4>3, <4>4
      <3>3. QED
        BY <3>1, <3>2
    <2>6. ASSUME NEW m \in New, m <= n
          PROVE  n + 1 \notin Old
      <3>1. m \in Nat /\ ~ (n + 1 < m)
        BY <1>4, <2>1, <2>6
      <3>2. QED
        BY <3>1
    <2>7. \A m \in New : m <= n + 1 <=> m <= n \/ m = n + 1
      BY <1>4, <2>1
    <2>8. n + 1 \in New => n + 1 \notin Old
      BY <1>2
    <2>9. /\ (\E m \in New : m <= n) => full(n) = step(n)
          /\ (\A m \in New : ~ (m <= n)) => full(n) = before(n) /\ step(n) = step(0)
      BY <1>6
    <2> HIDE DEF full, step, before, New, Old
    <2>10. ASSUME \E m \in New : m <= n + 1
           PROVE  full(n + 1) = step(n + 1)
      <3>1. CASE n + 1 \in New
        BY <2>3, <2>4, <2>5, <3>1
      <3>2. CASE n + 1 \notin New
        <4>1. PICK m \in New : m <= n
          BY <2>7, <2>10, <3>2
        <4>2. n + 1 \notin Old
          BY <2>6, <4>1
        <4>3. full(n) = step(n)
          BY <2>9, <4>1
        <4>4. QED
          BY <2>3, <2>4, <3>2, <4>2, <4>3
      <3>3. QED
        BY <3>1, <3>2
    <2>11. ASSUME \A m \in New : ~ (m <= n + 1)
           PROVE  full(n + 1) = before(n + 1) /\ step(n + 1) = step(0)
      <3>1. n + 1 \notin New /\ \A m \in New : ~ (m <= n)
        BY <2>1, <2>7, <2>11
      <3>2. full(n) = before(n) /\ step(n) = step(0)
        BY <2>9, <3>1
      <3>3. QED
        BY <2>2, <2>3, <2>4, <3>1, <3>2
    <2>12. QED
      BY <2>1, <2>10, <2>11
  <1>7. \A n \in 0..MaxEvents : n \in S
    <2> HIDE DEF S
    <2>1. QED
      BY <1>5, <1>6, MaxEventsType, Induction
  <1>8. /\ (\E m \in New : m <= MaxEvents) => full(MaxEvents) = step(MaxEvents)
        /\ (\A m \in New : ~ (m <= MaxEvents)) =>
                full(MaxEvents) = before(MaxEvents) /\ step(MaxEvents) = step(0)
    <2>1. MaxEvents \in 0..MaxEvents
      BY MaxEventsType
    <2> HIDE DEF full, step, before, New
    <2>2. QED
      BY <1>7, <2>1
  <1>9. View(P, g).runs = before(MaxEvents).runs
    OBVIOUS
  <1> HIDE DEF full, step, before, New
  <1>10. step(MaxEvents).runs = full(MaxEvents).runs
    BY <1>3, <1>8, <1>9
  <1>11. QED
    BY <1>10 DEF step, full

\* A run's last evidence is the end that its row gives.
LEMMA LastEvidence ==
    ASSUME NEW r \in Runs, NEW n, RunInOrder(r, n)
    PROVE  Greatest(r.evidence) = r.ended
  <1>1. r.ended \in r.evidence /\ \A x \in r.evidence : x <= r.ended
    BY DEF RunInOrder
  <1>2. \A x \in r.evidence : x \in Nat
    BY DEF Runs
  <1>3. /\ Greatest(r.evidence) \in r.evidence
        /\ \A x \in r.evidence : x <= Greatest(r.evidence)
    BY <1>1, Zenon DEF Greatest
  <1>4. QED
    BY <1>1, <1>2, <1>3

\* active_inferred_runs_for_events finds, for a recorder with new events that
\* matter, the run that the stored events left active.
LEMMA ActiveRunFound ==
    ASSUME ImplicitRuns, ProjectionTypes, RunsMatchRebuild, NEW F, NEW g \in Recorders,
           Needing(log, F, g) # {}
    PROVE  ActiveRuns(F)[g] = Projected(Cleared, log, stored)[MaxEvents].active[g]
  <1> DEFINE Q == Projected(Cleared, log, stored)[MaxEvents]
             v == View(Q, g)
             inferred == {r \in projections.runs : r.engine = g /\ r.inferred}
             latest == CHOOSE r \in inferred : \A q \in inferred : q.started <= r.started
  <1>1. IsEvidence(log, stored) /\ MaxEvents \in 0..MaxEvents
    BY MaxEventsType DEF ProjectionTypes, IsEvidence
  <1>2. projections.runs = Q.runs
    BY <1>1, ClearedType, ReplayRows DEF RunsMatchRebuild, Rebuilt
  <1>3. Ordered(v, MaxEvents, log)
    BY <1>1, OrderedAlong
  <1>4. v \in Views(g) /\ v.active = Q.active[g] /\ v.runs = {r \in Q.runs : r.engine = g}
    <2>1. Q \in States
      BY <1>1, ClearedType, ReplayType
    <2> HIDE DEF Q
    <2>2. QED
      BY <2>1, ViewType DEF View
  <1>5. ActiveRuns(F)[g] = IF inferred # {} /\ StillOpen(latest) THEN latest.id ELSE NoRun
    <2>1. \E n \in F : log[n].engine = g /\ MayNeedInferredRun(log[n])
      BY DEF Needing
    <2>2. ActiveRuns(F)[g] = IF /\ \E n \in F : log[n].engine = g /\ MayNeedInferredRun(log[n])
                                /\ inferred # {} /\ StillOpen(latest)
                             THEN latest.id ELSE NoRun
      BY DEF ActiveRuns
    <2> HIDE DEF inferred, latest
    <2>3. QED
      BY <2>1, <2>2
  <1> HIDE DEF Q, v
  <1>6. inferred = v.runs
    <2>1. \A r \in v.runs : r.inferred = TRUE
      BY <1>3 DEF Ordered, RunInOrder
    <2>2. QED
      BY <1>2, <1>4, <2>1, Zenon
  <1> HIDE DEF inferred
  <1>7. \A r \in v.runs : r \in Runs /\ RunInOrder(r, MaxEvents) /\ r.id \in Nat
    BY <1>3, <1>4 DEF Ordered, Views, Runs
  <1>8. CASE v.runs = {}
    <2>1. v.active = NoRun
      BY <1>3, <1>8 DEF Ordered
    <2>2. QED
      BY <1>4, <1>5, <1>6, <1>8, <2>1 DEF Q
  <1>9. CASE v.runs # {}
    <2>1. \E r \in inferred : \A q \in inferred : q.started <= r.started
      BY <1>6, <1>7, <1>9, LatestRun
    <2>2. latest \in inferred /\ \A q \in inferred : q.started <= latest.started
      BY <2>1, Zenon
    <2> HIDE DEF latest
    <2>3. latest \in v.runs /\ \A q \in v.runs : q.id <= latest.id
      BY <1>6, <1>7, <2>2 DEF RunInOrder
    <2>4. StillOpen(latest) <=> ~Terminal(log[latest.ended], latest.phase)
      <3>1. Greatest(latest.evidence) = latest.ended
        BY <1>7, <2>3, LastEvidence
      <3>2. QED
        BY <3>1 DEF StillOpen
    <2>5. CASE v.active = NoRun
      BY <1>3, <1>4, <1>5, <2>3, <2>4, <2>5 DEF Ordered, Q
    <2>6. CASE v.active # NoRun
      <3>1. PICK r \in v.runs : /\ r.id = v.active /\ \A q \in v.runs : q.id <= r.id
                                /\ ~Terminal(log[r.ended], r.phase)
        BY <1>3, <2>6 DEF Ordered
      <3>2. r.id <= latest.id /\ latest.id <= r.id /\ r.id \in Nat /\ latest.id \in Nat
        BY <1>7, <2>3, <3>1
      <3>3. r = latest
        BY <1>3, <2>3, <3>1, <3>2 DEF Ordered
      <3>4. QED
        BY <1>4, <1>5, <1>6, <1>9, <2>4, <3>1, <3>3 DEF Q
    <2>7. QED
      BY <2>5, <2>6
  <1>10. QED
    BY <1>8, <1>9

LEMMA RunsAfterUpload ==
    ASSUME ImplicitRuns, ProjectionTypes, RunsMatchRebuild, NEW F, Upload(F)
    PROVE  RunsMatchRebuild'
  <1>1. /\ IsEvidence(log, stored) /\ IsEvidence(log, F) /\ IsEvidence(log, stored \cup F)
        /\ F \cap stored = {} /\ log' = log /\ stored' = stored \cup F
        /\ Resumed(F) \in States /\ Resumed(F).runs = projections.runs
        /\ Resumed(F).active = ActiveRuns(F)
        /\ Backfills(F) => projections' = Replay(Cleared, stored \cup F)
        /\ ~Backfills(F) => projections' = Replay(Resumed(F), F)
    BY UploadRows
  <1> DEFINE B == Projected(Cleared, log, stored)[MaxEvents]
             A == Projected(Cleared, log, stored \cup F)[MaxEvents]
             U == Projected(Resumed(F), log, F)[MaxEvents]
  <1>2. MaxEvents \in 0..MaxEvents
    BY MaxEventsType
  <1>3. A \in States /\ U \in States /\ B \in States
    BY <1>1, <1>2, ClearedType, ReplayType
  <1>4. projections.runs = B.runs
    BY <1>1, ClearedType, ReplayRows DEF RunsMatchRebuild, Rebuilt
  <1>5. projections'.runs = A.runs
    <2>1. CASE Backfills(F)
      BY <1>1, <2>1, ClearedType, ReplayRows
    <2>2. CASE ~Backfills(F)
      <3>1. projections'.runs = U.runs
        BY <1>1, <2>2, ReplayRows
      <3>2. ASSUME NEW g \in Recorders
            PROVE  View(U, g).runs = View(A, g).runs
        <4>1. \A n \in Needing(log, F, g), m \in Needing(log, stored, g) : m < n
          <5> SUFFICES ASSUME NEW n \in Needing(log, F, g), NEW m \in Needing(log, stored, g)
                       PROVE  m < n
            OBVIOUS
          <5>1. n \in Nat /\ m \in Nat /\ n # m
            BY <1>1, MaxEventsType DEF Needing, IsEvidence
          <5>2. ~ (n < m)
            BY <2>2 DEF Backfills, Needing
          <5>3. QED
            BY <5>1, <5>2
        <4>2. View(Resumed(F), g).runs = View(B, g).runs
          BY <1>1, <1>4 DEF View
        <4>3. ASSUME Needing(log, F, g) # {}
              PROVE  View(Resumed(F), g) = View(B, g)
          <5>1. ActiveRuns(F)[g] = B.active[g]
            BY <4>3, ActiveRunFound
          <5> HIDE DEF B
          <5>2. QED
            BY <1>1, <1>4, <5>1 DEF View
        <4>4. QED
          BY <1>1, <4>1, <4>2, <4>3, Stitched
      <3> HIDE DEF A, U
      <3>3. \A r \in A.runs \cup U.runs : r.engine \in Recorders
        BY <1>3 DEF States, Runs
      <3>4. \A r : r \in A.runs <=> r \in U.runs
        BY <3>2, <3>3 DEF View
      <3>5. QED
        BY <3>1, <3>4
    <2>3. QED
      BY <2>1, <2>2
  <1>6. A = Projected(Cleared, log', stored')[MaxEvents]
    BY <1>1, Zenon
  <1>7. Rebuilt(stored)' = [A EXCEPT !.active = Cleared.active]
    BY <1>6 DEF Rebuilt, Replay
  <1> HIDE DEF A
  <1>8. Rebuilt(stored)'.runs = A.runs
    BY <1>3, <1>7 DEF States
  <1>9. QED
    BY <1>5, <1>8 DEF RunsMatchRebuild

\* Where no event names its run, the convergence runs of every recorder are those
\* of a full rebuild from the stored events, however its segments are cut and in
\* whatever order they arrive: backfill detection sends every upload that would
\* come between stored events to a rebuild, and the active run that the other
\* uploads look up is the one a replay of the stored events ends with.
THEOREM RunsMatch ==
    ASSUME ImplicitRuns
    PROVE  ProjectionsSpec => []RunsMatchRebuild
  <1>1. ASSUME ProjectionsInit
        PROVE  RunsMatchRebuild
    <2> DEFINE f == Projected(Cleared, log, {})
    <2>1. IsEvidence(log, {}) /\ MaxEvents \in 0..MaxEvents
      BY MaxEventsType DEF IsEvidence
    <2>2. f[0] = Cleared /\ \A n \in 1..MaxEvents : f[n] = Advance(f[n - 1], n, log, {})
      BY Unfolding
    <2> HIDE DEF f
    <2>3. \A n \in 1..MaxEvents : f[n] = f[n - 1]
      BY <2>2 DEF Advance
    <2> DEFINE S == {n \in Nat : f[n] = Cleared}
    <2>4. 0 \in S
      BY <2>2
    <2>5. ASSUME NEW n \in 0..MaxEvents, n < MaxEvents, n \in S
          PROVE  n + 1 \in S
      <3>1. n + 1 \in 1..MaxEvents /\ (n + 1) - 1 = n /\ n + 1 \in Nat
        BY <2>5, MaxEventsType
      <3>2. QED
        BY <2>3, <2>5, <3>1
    <2>6. \A n \in 0..MaxEvents : n \in S
      <3> HIDE DEF S
      <3>1. QED
        BY <2>4, <2>5, MaxEventsType, Induction
    <2>7. f[MaxEvents] = Cleared
      BY <2>1, <2>6
    <2>8. Rebuilt({}).runs = f[MaxEvents].runs
      BY <2>1, ClearedType, ReplayRows DEF Rebuilt, f
    <2>9. stored = {} /\ projections = Cleared
      BY <1>1 DEF ProjectionsInit
    <2>10. Rebuilt(stored) = Rebuilt({})
      BY <2>9
    <2>11. QED
      BY <2>7, <2>8, <2>9, <2>10 DEF RunsMatchRebuild
  <1>2. ASSUME UNCHANGED projectionVars, RunsMatchRebuild
        PROVE  RunsMatchRebuild'
    <2>1. log' = log /\ stored' = stored /\ projections' = projections
      BY <1>2 DEF projectionVars
    <2>2. Projected(Cleared, log', stored')[MaxEvents] = Projected(Cleared, log, stored)[MaxEvents]
      BY <2>1, Zenon
    <2>3. Rebuilt(stored)' = Rebuilt(stored)
      BY <2>2 DEF Rebuilt, Replay
    <2>4. QED
      BY <1>2, <2>1, <2>3 DEF RunsMatchRebuild
  <1>3. ProjectionTypes /\ RunsMatchRebuild /\ [ProjectionsNext]_projectionVars => RunsMatchRebuild'
    BY <1>2, RunsAfterUpload DEF ProjectionsNext
  <1>4. QED
    BY <1>1, <1>3, ProjectionTypesHold, PTL DEF ProjectionsSpec
=============================================================================
