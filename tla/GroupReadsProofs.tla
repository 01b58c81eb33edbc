-------------------------- MODULE GroupReadsProofs --------------------------
(***************************************************************************)
(* Proofs about module GroupReads, for every set of events, files, filters *)
(* and bounds: what a purge leaves, what the delivery matrix says of       *)
(* recipients, what an export that ends with eof holds, and what a walk    *)
(* through the pages of a section gets.                                    *)
(***************************************************************************)
EXTENDS GroupReads, FiniteFacts

-----------------------------------------------------------------------------
(* The table of observations *)

\* What a row of the table has to do with the evidence P it was made from: its
\* engine has reported the artifact, and its account is one that a report
\* carried, or empty if none did.
RowOK(o, P) ==
    LET reports == Reports(P, o.msg, o.engine) IN
    /\ o.msg # None /\ reports # {}
    /\ \/ o.account = None /\ WithAccount(reports) = {}
       \/ \E e \in WithAccount(reports) : o.account = e.account

TableOK(D, P) ==
    /\ IsFiniteSet(D)
    /\ \A o \in D : RowOK(o, P)
    /\ \A e \in P : e.msg # None => RowOf(D, e.msg, e.engine) # {}
    /\ \A o, q \in D : o.msg = q.msg /\ o.engine = q.engine => o = q

\* The first of some events is one of them.
LEMMA FirstIsIn ==
    ASSUME NEW S \in SUBSET Events, S # {}
    PROVE  FirstOf(S) \in S
  <1> DEFINE ids == {e.id : e \in S}
  <1>1. ids \subseteq Nat /\ ids # {}
    BY EvidenceAssumption DEF EventOK
  <1>2. PICK i \in ids : \A j \in ids : i <= j
    BY <1>1, LeastNumber
  <1>3. PICK e \in S : i = e.id
    OBVIOUS
  <1>4. \A d \in S : e.id <= d.id
    BY <1>2, <1>3
  <1>5. QED
    BY <1>4 DEF FirstOf

LEMMA EmptyTable == TableOK({}, {})
  BY FS_EmptySet DEF TableOK

\* The account a row gets, by what it had and by what the new reports carry.
LEMMA AccountIs ==
    ASSUME NEW D, NEW N \in SUBSET Events, NEW m, NEW n
    PROVE  LET kept == Accounts(RowOf(D, m, n))
               given == WithAccount(Reports(N, m, n))
               a == AccountRef(D, N, m, n)
           IN /\ kept # {} => a \in kept
              /\ kept = {} /\ given # {} => \E e \in given : a = e.account
              /\ kept = {} /\ given = {} => a = None
  <1> DEFINE kept == Accounts(RowOf(D, m, n))
             given == WithAccount(Reports(N, m, n))
  <1>1. given \in SUBSET Events
    BY DEF WithAccount, Reports, Naming
  <1>2. given # {} => FirstOf(given) \in given
    BY <1>1, FirstIsIn
  <1>3. AccountRef(D, N, m, n) =
            IF kept # {} THEN CHOOSE a \in kept : TRUE
            ELSE IF given # {} THEN FirstOf(given).account ELSE None
    BY DEF AccountRef
  <1> HIDE DEF kept, given
  <1>4. QED
    BY <1>2, <1>3 DEF kept, given

LEMMA MoreReports ==
    ASSUME NEW P, NEW N, NEW m, NEW n
    PROVE  /\ Reports(P \cup N, m, n) = Reports(P, m, n) \cup Reports(N, m, n)
           /\ WithAccount(Reports(P \cup N, m, n)) =
                WithAccount(Reports(P, m, n)) \cup WithAccount(Reports(N, m, n))
  BY DEF Reports, Naming, WithAccount

\* The row of artifact m and engine n after events N.
NewRow(D, N, m, n) ==
    [msg |-> m, engine |-> n, account |-> AccountRef(D, N, m, n), latest |-> LatestState(D, N, m, n)]

LEMMA NewRows ==
    ASSUME NEW D, NEW N
    PROVE  /\ \A q \in project_delivery_observations(D, N) :
                /\ <<q.msg, q.engine>> \in Sightings(D, N)
                /\ q = NewRow(D, N, q.msg, q.engine)
           /\ \A m, n : <<m, n>> \in Sightings(D, N) =>
                NewRow(D, N, m, n) \in project_delivery_observations(D, N)
  <1>1. ASSUME NEW q \in project_delivery_observations(D, N)
        PROVE  /\ <<q.msg, q.engine>> \in Sightings(D, N)
               /\ q = NewRow(D, N, q.msg, q.engine)
    <2>1. PICK k \in Sightings(D, N) : q = NewRow(D, N, k[1], k[2])
      BY DEF project_delivery_observations, NewRow
    <2>2. q.msg = k[1] /\ q.engine = k[2]
      BY <2>1 DEF NewRow
    <2>3. k = <<k[1], k[2]>>
      BY DEF Sightings
    <2>4. QED
      BY <2>1, <2>2, <2>3
  <1>2. ASSUME NEW m, NEW n, <<m, n>> \in Sightings(D, N)
        PROVE  NewRow(D, N, m, n) \in project_delivery_observations(D, N)
    <2>1. PICK k \in Sightings(D, N) : k = <<m, n>>
      BY <1>2
    <2>2. k[1] = m /\ k[2] = n
      BY <2>1
    <2>3. QED
      BY <2>2 DEF project_delivery_observations, NewRow
  <1>3. QED
    BY <1>1, <1>2

\* Each row after an upload is made from a row and reports, or from either.
LEMMA SightedBefore ==
    ASSUME NEW P, NEW D, TableOK(D, P), NEW N, NEW m, NEW n, <<m, n>> \in Sightings(D, N)
    PROVE  m # None /\ (RowOf(D, m, n) # {} \/ Reports(N, m, n) # {})
  <1>1. CASE \E o \in D : <<m, n>> = <<o.msg, o.engine>>
    BY <1>1 DEF RowOf, TableOK, RowOK
  <1>2. CASE \E e \in N : e.msg # None /\ <<m, n>> = <<e.msg, e.engine>>
    BY <1>2 DEF Reports, Naming
  <1>3. QED
    BY <1>1, <1>2 DEF Sightings

LEMMA NewRowOK ==
    ASSUME NEW P \in SUBSET Events, NEW N \in SUBSET Events, NEW D, TableOK(D, P),
           NEW m, NEW n, <<m, n>> \in Sightings(D, N)
    PROVE  RowOK(NewRow(D, N, m, n), P \cup N)
  <1> DEFINE row == RowOf(D, m, n)
             kept == Accounts(row)
             given == WithAccount(Reports(N, m, n))
             had == WithAccount(Reports(P, m, n))
             a == AccountRef(D, N, m, n)
             q == NewRow(D, N, m, n)
  <1>1. q.msg = m /\ q.engine = n /\ q.account = a
    BY DEF NewRow
  <1>2. \A o \in row : o \in D /\ o.msg = m /\ o.engine = n
    BY DEF RowOf
  <1>3. \A o \in row : /\ Reports(P, m, n) # {}
                       /\ \/ o.account = None /\ had = {}
                          \/ \E e \in had : o.account = e.account
    BY <1>2 DEF TableOK, RowOK
  <1>4. Reports(P \cup N, m, n) # {}
    BY <1>3, SightedBefore, MoreReports
  <1>5. WithAccount(Reports(P \cup N, m, n)) = had \cup given
    BY DEF WithAccount, Reports, Naming
  <1>6. \A e \in had : e \in P /\ e.msg = m /\ e.engine = n /\ e.account # None
    BY DEF WithAccount, Reports, Naming
  <1>7. /\ kept # {} => a \in kept
        /\ kept = {} /\ given # {} => \E e \in given : a = e.account
        /\ kept = {} /\ given = {} => a = None
    BY AccountIs
  <1>8. \A x \in kept : \E o \in row : x = o.account /\ x # None
    BY DEF Accounts
  <1>9. kept = {} => \A o \in row : o.account = None
    BY DEF Accounts
  <1>10. kept # {} => \E e \in had : a = e.account
    BY <1>3, <1>7, <1>8
  <1>11. kept = {} => had = {}
    <2> SUFFICES ASSUME kept = {}, NEW e \in had
                 PROVE  FALSE
      OBVIOUS
    <2>1. e.msg # None => row # {}
      BY <1>6 DEF TableOK
    <2>2. e.msg # None
      BY <1>6, SightedBefore
    <2>3. PICK o \in row : TRUE
      BY <2>1, <2>2
    <2>4. QED
      BY <1>3, <1>6, <1>9, <2>3
  <1>a. m # None
    BY SightedBefore
  <1> HIDE DEF row, kept, given, had, a
  <1>12. \/ a = None /\ had \cup given = {}
         \/ \E e \in had \cup given : a = e.account
    BY <1>7, <1>10, <1>11
  <1> HIDE DEF q
  <1>13. RowOK(q, P \cup N)
    BY <1>1, <1>4, <1>5, <1>12, <1>a DEF RowOK
  <1>14. QED
    BY <1>13 DEF q

\* An upload or a replay keeps the table in order, and no row that has an account
\* ever gets another one from it.
LEMMA Projecting ==
    ASSUME NEW P \in SUBSET Events, NEW N \in SUBSET Events, NEW D, TableOK(D, P)
    PROVE  /\ TableOK(project_delivery_observations(D, N), P \cup N)
           /\ \A o \in D : o.account # None =>
                \E q \in project_delivery_observations(D, N) :
                    q.msg = o.msg /\ q.engine = o.engine /\ q.account = o.account
  <1> DEFINE T == project_delivery_observations(D, N)
             K == Sightings(D, N)
  <1>1. ASSUME NEW q \in T
        PROVE  RowOK(q, P \cup N)
    <2> DEFINE m == q.msg
               n == q.engine
    <2>1. <<m, n>> \in K /\ q = NewRow(D, N, m, n)
      BY NewRows
    <2> HIDE DEF m, n, T
    <2>2. RowOK(NewRow(D, N, m, n), P \cup N)
      BY <2>1, NewRowOK
    <2>3. QED
      BY <2>1, <2>2, Zenon
  <1>2. \A o, q \in T : o.msg = q.msg /\ o.engine = q.engine => o = q
    <2> SUFFICES ASSUME NEW o \in T, NEW q \in T, o.msg = q.msg, o.engine = q.engine
                 PROVE  o = q
      OBVIOUS
    <2>1. o = NewRow(D, N, o.msg, o.engine) /\ q = NewRow(D, N, q.msg, q.engine)
      BY NewRows
    <2> HIDE DEF T
    <2>2. QED
      BY <2>1, Zenon
  <1>3. ASSUME NEW e \in P \cup N, e.msg # None
        PROVE  RowOf(T, e.msg, e.engine) # {}
    <2>1. <<e.msg, e.engine>> \in K
      <3>1. CASE e \in N
        BY <1>3, <3>1 DEF Sightings
      <3>2. CASE e \in P
        <4>1. PICK o \in D : o.msg = e.msg /\ o.engine = e.engine
          BY <1>3, <3>2 DEF TableOK, RowOf
        <4>2. QED
          BY <4>1 DEF Sightings
      <3>3. QED
        BY <3>1, <3>2
    <2>2. NewRow(D, N, e.msg, e.engine) \in T
      BY <2>1, NewRows
    <2>3. QED
      BY <2>2 DEF RowOf, NewRow
  <1>4. IsFiniteSet(T)
    <2> DEFINE named == {d \in N : d.msg # None}
               A == {<<o.msg, o.engine>> : o \in D}
               B == {<<e.msg, e.engine>> : e \in named}
               f == [k \in K |-> NewRow(D, N, k[1], k[2])]
    <2>1. IsFiniteSet(A)
      <3> DEFINE g == [o \in D |-> <<o.msg, o.engine>>]
      <3>1. IsFiniteSet(D)
        BY DEF TableOK
      <3>2. g \in [D -> A]
        OBVIOUS
      <3>3. \A t \in A : \E o \in D : g[o] = t
        OBVIOUS
      <3> HIDE DEF A, g
      <3>4. QED
        BY <3>1, <3>2, <3>3, Onto
    <2>2. IsFiniteSet(B)
      <3>1. IsFiniteSet(Events) /\ named \in SUBSET Events
        BY EvidenceAssumption
      <3>2. IsFiniteSet(named)
        BY ONLY <3>1, FS_Subset, Zenon
      <3> DEFINE g == [e \in named |-> <<e.msg, e.engine>>]
      <3> HIDE DEF named
      <3>3. g \in [named -> B]
        OBVIOUS
      <3>4. \A t \in B : \E e \in named : g[e] = t
        OBVIOUS
      <3> HIDE DEF B, g
      <3>5. QED
        BY <3>2, <3>3, <3>4, Onto
    <2>3. K = A \cup B
      BY DEF Sightings
    <2>4. IsFiniteSet(K)
      BY <2>1, <2>2, <2>3, FS_Union
    <2>5. \A k \in K : k = <<k[1], k[2]>>
      BY DEF Sightings
    <2>6. \A k \in K : NewRow(D, N, k[1], k[2]) \in T
      BY <2>5, NewRows
    <2>7. ASSUME NEW t \in T
          PROVE  \E k \in K : t = NewRow(D, N, k[1], k[2])
      <3> DEFINE m == t.msg
                 n == t.engine
      <3>1. <<m, n>> \in K /\ t = NewRow(D, N, m, n)
        BY NewRows
      <3> HIDE DEF m, n, T, K
      <3>2. <<m, n>>[1] = m /\ <<m, n>>[2] = n
        OBVIOUS
      <3>3. QED
        BY <3>1, <3>2, Zenon
    <2> HIDE DEF K, T
    <2>8. f \in [K -> T]
      BY <2>6
    <2>9. \A t \in T : \E k \in K : f[k] = t
      BY <2>7
    <2> HIDE DEF f
    <2>10. QED
      BY <2>4, <2>8, <2>9, Onto
  <1>5. ASSUME NEW o \in D, o.account # None
        PROVE  \E q \in T : q.msg = o.msg /\ q.engine = o.engine /\ q.account = o.account
    <2>1. <<o.msg, o.engine>> \in K
      BY DEF Sightings
    <2>2. NewRow(D, N, o.msg, o.engine) \in T
      BY <2>1, NewRows
    <2>3. \A x \in RowOf(D, o.msg, o.engine) : x = o
      BY DEF RowOf, TableOK
    <2>4. o \in RowOf(D, o.msg, o.engine)
      BY DEF RowOf
    <2>5. Accounts(RowOf(D, o.msg, o.engine)) = {o.account}
      BY <1>5, <2>3, <2>4 DEF Accounts
    <2>6. AccountRef(D, N, o.msg, o.engine) = o.account
      BY <2>5, AccountIs
    <2>7. QED
      BY <2>2, <2>6 DEF NewRow
  <1>6. QED
    BY <1>1, <1>2, <1>3, <1>4, <1>5 DEF TableOK

LEMMA Replayed ==
    ASSUME NEW P \in SUBSET Events
    PROVE  TableOK(project_delivery_observations({}, P), P)
  <1>1. TableOK(project_delivery_observations({}, P), {} \cup P)
    BY EmptyTable, Projecting
  <1>2. {} \cup P = P
    OBVIOUS
  <1>3. QED
    BY <1>1, <1>2

LEMMA AfterUpload ==
    ASSUME NEW P \in SUBSET Events, NEW E \in SUBSET Events, NEW N \in SUBSET Events, NEW D,
           TableOK(D, P)
    PROVE  TableOK(ObservationsAfter(D, E, N), (IF Backfills(E, N) THEN E ELSE P) \cup N)
  <1>1. CASE Backfills(E, N)
    <2>1. E \cup N \in SUBSET Events
      OBVIOUS
    <2>2. QED
      BY <1>1, <2>1, Replayed DEF ObservationsAfter
  <1>2. CASE ~Backfills(E, N)
    BY <1>2, Projecting DEF ObservationsAfter
  <1>3. QED
    BY <1>1, <1>2

-----------------------------------------------------------------------------
(* The group *)

\* A purge under way has seen every stored file, and nothing can be added to
\* them before it deletes the group.
PurgeSeesAll ==
    purging = None \/ (stored \subseteq purging /\ inflight = None /\ ~uploads)

GroupInv ==
    /\ contents \in [Files -> SUBSET Events]
    /\ stored \subseteq Files
    /\ inflight \in Files \cup {None}
    /\ projected \subseteq Events /\ Group \subseteq projected
    /\ TableOK(observations, projected)
    /\ uploads \in BOOLEAN
    /\ stranded = {}
    /\ PurgeSeesAll

LEMMA StoredEvents ==
    ASSUME contents \in [Files -> SUBSET Events], NEW F \in SUBSET Files
    PROVE  Stored(F) \subseteq Events
  BY DEF Stored

\* The steps of a walk and of an export change nothing of the group.
Reading == UNCHANGED <<groupVars, changes>>

LEMMA GroupStep == GroupInv /\ [Next]_vars => GroupInv'
  <1> SUFFICES ASSUME GroupInv, [Next]_vars
               PROVE  GroupInv'
    OBVIOUS
  <1> USE DEF GroupInv
  <1>0. Group \in SUBSET Events
    BY StoredEvents DEF Group
  <1>1. CASE Reading
    BY <1>1 DEF Reading, PurgeSeesAll, groupVars, Group, Stored
  <1>2. ASSUME StartWalk
        PROVE  Reading
    BY <1>2 DEF StartWalk, Reading
  <1>3. ASSUME NextPage \/ StartExport \/ OpenSection \/ EmitRow \/ Eof \/ ExportFails
        PROVE  Reading
    BY <1>3 DEF NextPage, StartExport, OpenSection, EmitRow, Eof, ExportFails, Reading
  <1>4. ASSUME NEW f \in Files, BeginUpload(f)
        PROVE  GroupInv'
    BY <1>4 DEF BeginUpload, PurgeSeesAll, Group, Stored
  <1>5. ASSUME NEW f \in Files, Prune(f)
        PROVE  GroupInv'
    <2>1. Group' \subseteq Group
      BY <1>5 DEF Prune, Changed, Group, Stored
    <2>2. QED
      BY <1>5, <2>1 DEF Prune, Changed, PurgeSeesAll
  <1>6. CASE CommitUpload
    <2> DEFINE N == contents[inflight]
               P == (IF Backfills(Group, N) THEN Group ELSE projected) \cup N
               D == ObservationsAfter(observations, Group, N)
    <2>1. inflight \in Files /\ purging = None
      BY <1>6 DEF CommitUpload, PurgeSeesAll
    <2>2. N \in SUBSET Events
      BY <2>1
    <2>3. /\ stored' = stored \cup {inflight} /\ projected' = P /\ observations' = D
          /\ contents' = contents /\ stranded' = stranded /\ inflight' = None
          /\ purging' = purging /\ uploads' = uploads
      BY <1>6 DEF CommitUpload, Changed
    <2>4. Group' = Group \cup N
      BY <2>1, <2>3 DEF Group, Stored
    <2>5. TableOK(D, P)
      BY <1>0, <2>2, AfterUpload
    <2>6. P \in SUBSET Events /\ Group \cup N \subseteq P
      BY <1>0, <2>2
    <2> HIDE DEF N, P, D
    <2>7. QED
      BY <2>1, <2>3, <2>4, <2>5, <2>6 DEF PurgeSeesAll
  <1>7. CASE Rebuild
    <2> DEFINE D == project_delivery_observations({}, Group)
    <2>1. /\ stored' = stored /\ projected' = Group /\ observations' = D
          /\ contents' = contents /\ stranded' = stranded /\ inflight' = inflight
          /\ purging' = purging /\ uploads' = uploads
      BY <1>7 DEF Rebuild, Changed
    <2>2. Group' = Group
      BY <2>1 DEF Group, Stored
    <2>3. TableOK(D, Group)
      BY <1>0, Replayed
    <2> HIDE DEF D
    <2>4. QED
      BY <1>0, <2>1, <2>2, <2>3 DEF PurgeSeesAll
  <1>8. CASE SwitchUploads
    BY <1>8 DEF SwitchUploads, PurgeSeesAll, Group, Stored
  <1>9. CASE PurgeFiles
    BY <1>9 DEF PurgeFiles, PurgeSeesAll, Group, Stored
  <1>10. CASE PurgeGroups
    <2>1. stored \ purging = {}
      BY <1>10 DEF PurgeGroups, PurgeSeesAll
    <2>2. Stored(stored \ purging) = {}
      BY <2>1 DEF Stored
    <2>3. /\ stored' = {} /\ projected' = {} /\ observations' = {}
          /\ contents' = contents /\ stranded' = {} /\ inflight' = inflight
          /\ purging' = None /\ uploads' = uploads
      BY <1>10, <2>1, <2>2 DEF PurgeGroups, Changed
    <2>4. Group' = {}
      BY <2>3 DEF Group, Stored
    <2>5. QED
      BY <2>3, <2>4, EmptyTable DEF PurgeSeesAll
  <1>11. CASE UNCHANGED vars
    BY <1>1, <1>11 DEF vars, Reading
  <1>12. QED
    BY <1>1, <1>2, <1>3, <1>4, <1>5, <1>6, <1>7, <1>8, <1>9, <1>10, <1>11 DEF Next

LEMMA GroupInit == Init => GroupInv
  <1> SUFFICES ASSUME Init
               PROVE  GroupInv
    OBVIOUS
  <1>1. contents \in [Files -> SUBSET Events] /\ stored \subseteq Files
    BY DEF Init
  <1>2. Group = Stored(stored) /\ Group \subseteq Events
    BY <1>1, StoredEvents DEF Group, Init
  <1>3. TableOK(observations, Group)
    <2>1. PICK late \in {{}} \cup {{f} : f \in stored} :
            LET before == Stored(stored \ late) IN
            observations = ObservationsAfter(project_delivery_observations({}, before),
                                             before, Stored(late))
      BY DEF Init
    <2> DEFINE before == Stored(stored \ late)
               added == Stored(late)
               D == project_delivery_observations({}, before)
    <2>2. late \subseteq stored
      OBVIOUS
    <2>3. before \in SUBSET Events /\ added \in SUBSET Events
      BY <1>1, <2>2, StoredEvents
    <2>4. before \cup added = Group
      BY <1>2, <2>2 DEF Stored
    <2>5. observations = ObservationsAfter(D, before, added)
      BY <2>1
    <2> HIDE DEF before, added
    <2>6. TableOK(D, before)
      BY <2>3, Replayed
    <2> HIDE DEF D
    <2>7. TableOK(ObservationsAfter(D, before, added), before \cup added)
      BY <2>3, <2>6, AfterUpload
    <2>8. QED
      BY <2>4, <2>5, <2>7
  <1>4. QED
    BY <1>1, <1>2, <1>3 DEF Init, GroupInv, PurgeSeesAll

\* GroupInv holds throughout: the inductive invariant of everything that changes
\* the group.  TableOK ties the stored observations to the evidence they were
\* projected from, in whatever uploads, replays and order.
THEOREM GroupInvariant == Spec => []GroupInv
  BY GroupInit, GroupStep, PTL DEF Spec

\* A purge before which uploads were switched off and had ended strands no event
\* (purge_audit_data): it deletes the groups only of files it has deleted, since
\* no upload commits in between.
THEOREM PurgeStrandsNothing == Spec => []NothingStranded
  <1>1. GroupInv => NothingStranded
    BY DEF GroupInv, NothingStranded
  <1>2. QED
    BY <1>1, GroupInvariant, PTL

-----------------------------------------------------------------------------
(* The delivery matrix *)

\* What row d of the table is matched by.
Seen(E, m, d) ==
    [engine |-> d.engine, account_refs |-> {d.account} \ {None},
     pubkeys |-> {e.key : e \in Reports(E, m, d.engine)} \ {None}, latest |-> d.latest]

LEMMA SeenIs ==
    ASSUME NEW E, NEW m, NEW d
    PROVE  /\ Seen(E, m, d).engine = d.engine
           /\ Seen(E, m, d).account_refs = {d.account} \ {None}
           /\ Seen(E, m, d).pubkeys = {e.key : e \in Reports(E, m, d.engine)} \ {None}
  BY DEF Seen

\* An artifact has one observation per row of the table, and so per engine.
LEMMA Observations ==
    ASSUME NEW E, NEW P, NEW D, TableOK(D, P), NEW m
    PROVE  LET O == engine_observations(E, D, m) IN
           /\ IsFiniteSet(O)
           /\ \A o \in O : \E d \in RowOf(D, m, o.engine) : o = Seen(E, m, d)
           /\ \A d \in D : d.msg = m => Seen(E, m, d) \in O
           /\ \A o, q \in O : o.engine = q.engine => o = q
  <1> DEFINE rows == {d \in D : d.msg = m}
             O == {Seen(E, m, d) : d \in rows}
             f == [d \in rows |-> Seen(E, m, d)]
  <1>1. engine_observations(E, D, m) = O
    BY DEF engine_observations, Seen
  <1>2. IsFiniteSet(D) /\ rows \in SUBSET D
    BY DEF TableOK
  <1>3. IsFiniteSet(rows)
    BY ONLY <1>2, FS_Subset, Zenon
  <1>4. \A d \in D : d.msg = m => d \in rows
    OBVIOUS
  <1>5. \A d \in rows : d \in D /\ d.msg = m /\ d \in RowOf(D, m, d.engine)
    BY DEF RowOf
  <1>6. \A d, b \in rows : d.engine = b.engine => d = b
    BY <1>5 DEF TableOK
  <1> HIDE DEF rows
  <1>7. f \in [rows -> O] /\ \A t \in O : \E d \in rows : f[d] = t
    OBVIOUS
  <1>8. \A o \in O : \E d \in rows : o = Seen(E, m, d) /\ o.engine = d.engine
    BY SeenIs
  <1>9. \A d \in rows : Seen(E, m, d) \in O
    OBVIOUS
  <1> HIDE DEF f, O
  <1>10. IsFiniteSet(O)
    BY <1>3, <1>7, Onto
  <1>11. \A o \in O : \E d \in RowOf(D, m, o.engine) : o = Seen(E, m, d)
    <2> SUFFICES ASSUME NEW o \in O
                 PROVE  \E d \in RowOf(D, m, o.engine) : o = Seen(E, m, d)
      OBVIOUS
    <2>1. PICK d \in rows : o = Seen(E, m, d) /\ o.engine = d.engine
      BY <1>8
    <2>2. d \in RowOf(D, m, o.engine)
      BY <1>5, <2>1
    <2>3. QED
      BY <2>1, <2>2
  <1>12. \A o, q \in O : o.engine = q.engine => o = q
    BY <1>6, <1>8, Zenon
  <1>13. QED
    BY <1>1, <1>4, <1>9, <1>10, <1>11, <1>12

\* The rows of the matrix: counted, identified and unexpected ones.
CountRow(r, e, O) ==
    LET counted == count_only_recipient_observations(e, O) IN
    /\ CountOnly(e)
    /\ r = [by |-> e.id, type |-> "count_only", id |-> None, seen |-> counted,
            status |-> count_only_expectation_status(e.expects.count, Cardinality(counted))]

IdentityRow(r, e, x, O, index) ==
    /\ ~CountOnly(e)
    /\ r = [by |-> e.id, type |-> x.type, id |-> x.id, seen |-> Matching(x, O),
            status |-> delivery_expected_status(x, Matching(x, O), index)]

ExpectedRow(r, E, D, m) ==
    LET O == engine_observations(E, D, m) IN
    \E e \in recipient_expectations(E, m) :
        \/ CountRow(r, e, O)
        \/ \E x \in expectation_identity_rows(e.expects) :
                IdentityRow(r, e, x, O, delivery_identity_index(E))

LEMMA MatrixRows ==
    ASSUME NEW E, NEW D, NEW m
    PROVE  /\ \A r \in Matrix(E, D, m) :
                \/ ExpectedRow(r, E, D, m)
                \/ r.type = "engine" /\ r.status = "observed_not_expected"
           /\ \A r : ExpectedRow(r, E, D, m) => r \in Matrix(E, D, m)
  <1> DEFINE O == engine_observations(E, D, m)
             index == delivery_identity_index(E)
             expected == UNION {ExpectationRows(e, O, index) : e \in recipient_expectations(E, m)}
  <1>1. ASSUME NEW e
        PROVE  \A r : r \in ExpectationRows(e, O, index) <=>
                    \/ CountRow(r, e, O)
                    \/ \E x \in expectation_identity_rows(e.expects) : IdentityRow(r, e, x, O, index)
    <2> HIDE DEF O, index
    <2>1. CASE CountOnly(e)
      BY <2>1, Zenon DEF ExpectationRows, CountRow, IdentityRow
    <2>2. CASE ~CountOnly(e)
      BY <2>2, Zenon DEF ExpectationRows, CountRow, IdentityRow
    <2>3. QED
      BY <2>1, <2>2
  <1>2. \A r : r \in expected <=> ExpectedRow(r, E, D, m)
    BY <1>1, Zenon DEF ExpectedRow
  <1>3. Matrix(E, D, m) = expected \cup
       {[by |-> None, type |-> "engine", id |-> o.engine, seen |-> {o},
         status |-> "observed_not_expected"] : o \in O \ UNION {r.seen : r \in expected}}
    BY DEF Matrix, delivery_recipient_matrix
  <1> HIDE DEF expected, O
  <1>4. QED
    BY <1>2, <1>3

\* How many engines were counted is a number, and so decides the status.
LEMMA Counting ==
    ASSUME NEW E \in SUBSET Events, NEW P, NEW D, TableOK(D, P), NEW m,
           NEW e \in E, e.expects # None, CountOnly(e)
    PROVE  LET c == count_only_recipient_observations(e, engine_observations(E, D, m)) IN
           /\ IsFiniteSet(c) /\ Cardinality(c) \in Nat
           /\ e.expects.count \in Nat
  <1> DEFINE O == engine_observations(E, D, m)
             c == count_only_recipient_observations(e, O)
  <1>1. e.expects.count \in Nat
    BY EvidenceAssumption DEF CountOnly, EventOK
  <1>2. IsFiniteSet(O)
    BY Observations
  <1>3. c \in SUBSET O
    BY DEF count_only_recipient_observations
  <1> HIDE DEF c, O
  <1>4. IsFiniteSet(c)
    BY ONLY <1>2, <1>3, FS_Subset, Zenon
  <1>5. QED
    BY <1>1, <1>4, FS_CardinalityType DEF c, O

\* A recipient is inferred to be missing by its identity, and unmatched.
LEMMA MissingRow ==
    ASSUME NEW E \in SUBSET Events, NEW P, NEW D, TableOK(D, P), NEW m,
           NEW r \in Matrix(E, D, m), r.status = "missing_inferred"
    PROVE  \A o \in engine_observations(E, D, m) : ~observation_matches_expected(o, r)
  <1> DEFINE O == engine_observations(E, D, m)
  <1>1. ExpectedRow(r, E, D, m)
    BY MatrixRows
  <1>2. PICK e \in recipient_expectations(E, m) :
            \/ CountRow(r, e, O)
            \/ \E x \in expectation_identity_rows(e.expects) :
                    IdentityRow(r, e, x, O, delivery_identity_index(E))
    BY <1>1 DEF ExpectedRow
  <1>3. ~CountRow(r, e, O)
    <2> SUFFICES ASSUME CountRow(r, e, O)
                 PROVE  FALSE
      OBVIOUS
    <2> DEFINE c == count_only_recipient_observations(e, O)
    <2>1. CountOnly(e) /\ e \in E /\ e.expects # None
      BY DEF CountRow, recipient_expectations, Naming
    <2>2. Cardinality(c) \in Nat /\ e.expects.count \in Nat
      BY <2>1, Counting
    <2>3. r.status = count_only_expectation_status(e.expects.count, Cardinality(c))
      BY DEF CountRow
    <2> HIDE DEF c
    <2>4. QED
      BY <2>2, <2>3 DEF count_only_expectation_status
  <1>4. PICK x \in expectation_identity_rows(e.expects) :
            IdentityRow(r, e, x, O, delivery_identity_index(E))
    BY <1>2, <1>3
  <1> HIDE DEF O
  <1>5. r.status = delivery_expected_status(x, Matching(x, O), delivery_identity_index(E))
    BY <1>4 DEF IdentityRow
  <1>6. Matching(x, O) = {}
    BY <1>5 DEF delivery_expected_status
  <1>7. r.type = x.type /\ r.id = x.id
    BY <1>4 DEF IdentityRow
  <1>8. \A o \in O : ~observation_matches_expected(o, x)
    BY <1>6 DEF Matching
  <1>9. QED
    BY <1>7, <1>8 DEF observation_matches_expected, O

\* What MissingMeansUnseen says of engine n and row r, for any evidence P that
\* the table was projected from and any part E of it that is still there.
AgreesWithCell(P, E, D, m, r, n) ==
    LET cell == delivery_engine_cell(E, D, m, n, Matrix(E, D, m))
        reports == Reports(P, m, n)
    IN IF reports = {} THEN cell \subseteq MissingStatuses
       ELSE /\ cell = {"observed"}
            /\ \/ \A e \in Reports(E, m, n) : ~Under(e, r)
               \/ /\ r.type = "member_ref"
                  /\ \E e \in reports : e.account \notin {None, r.id}

LEMMA MissingUnseen ==
    ASSUME NEW P \in SUBSET Events, NEW E \in SUBSET P, NEW D, TableOK(D, P), NEW m, m # None,
           NEW r \in Matrix(E, D, m), r.status = "missing_inferred", NEW n,
           delivery_engine_matches_recipient(EngineIdentities(E, n), r)
    PROVE  AgreesWithCell(P, E, D, m, r, n)
  <1> DEFINE O == engine_observations(E, D, m)
             cell == delivery_engine_cell(E, D, m, n, Matrix(E, D, m))
             reports == Reports(P, m, n)
             missing == {q.status : q \in {q \in Matrix(E, D, m) :
                            /\ q.status \in MissingStatuses
                            /\ delivery_engine_matches_recipient(EngineIdentities(E, n), q)}}
  <1>1. ASSUME reports = {}
        PROVE  cell \subseteq MissingStatuses
    <2>1. ~\E o \in O : o.engine = n
      <3> SUFFICES ASSUME NEW o \in O, o.engine = n
                   PROVE  FALSE
        OBVIOUS
      <3>1. PICK d \in RowOf(D, m, n) : o = Seen(E, m, d)
        BY Observations
      <3>2. d \in D /\ d.msg = m /\ d.engine = n
        BY DEF RowOf
      <3>3. QED
        BY <1>1, <3>2 DEF TableOK, RowOK
    <2>2. r.status \in missing
      BY DEF MissingStatuses
    <2>3. missing \subseteq MissingStatuses
      OBVIOUS
    <2>4. cell = missing
      BY <2>1, <2>2, Zenon DEF delivery_engine_cell
    <2>5. QED
      BY <2>3, <2>4
  <1>2. ASSUME reports # {}
        PROVE  /\ cell = {"observed"}
               /\ \/ \A e \in Reports(E, m, n) : ~Under(e, r)
                  \/ r.type = "member_ref" /\ \E e \in reports : e.account \notin {None, r.id}
    <2>1. PICK b \in reports : TRUE
      BY <1>2
    <2>2. b \in P /\ b.msg = m /\ b.engine = n
      BY <2>1 DEF Reports, Naming
    <2>3. PICK d \in D : d.msg = m /\ d.engine = n
      BY <2>2 DEF TableOK, RowOf
    <2> DEFINE o == Seen(E, m, d)
    <2>4. /\ o \in O /\ o.engine = n
          /\ o.account_refs = {d.account} \ {None}
          /\ o.pubkeys = {e.key : e \in Reports(E, m, n)} \ {None}
      BY <2>3, Observations, SeenIs
    <2> HIDE DEF o
    <2>5. cell = {"observed"}
      BY <2>4, Zenon DEF delivery_engine_cell
    <2>6. ~observation_matches_expected(o, r)
      BY <2>4, MissingRow
    <2>7. r.id # None /\ r.type \in {"member_ref", "pubkey_hex"}
      BY DEF delivery_engine_matches_recipient, EngineIdentities
    <2>8. ASSUME NEW e \in Reports(E, m, n), Under(e, r)
          PROVE  r.type = "member_ref" /\ \E x \in reports : x.account \notin {None, r.id}
      <3>1. r.type = "member_ref"
        BY <2>4, <2>6, <2>7, <2>8 DEF Under, observation_matches_expected
      <3>2. e.account = r.id /\ e \in WithAccount(reports)
        BY <2>7, <2>8, <3>1 DEF Under, WithAccount, Reports, Naming
      <3>3. d.account # r.id
        BY <2>4, <2>6, <2>7, <3>1 DEF observation_matches_expected
      <3>4. RowOK(d, P)
        BY DEF TableOK
      <3>5. PICK x \in WithAccount(reports) : d.account = x.account
        BY <2>3, <3>2, <3>4 DEF RowOK
      <3>6. QED
        BY <3>1, <3>3, <3>5 DEF WithAccount
    <2>9. QED
      BY <2>5, <2>8
  <1>3. QED
    BY <1>1, <1>2 DEF AgreesWithCell

\* The recipients of the delivery page, its engine cells and the evidence agree
\* about who is missing (project_delivery_observation, delivery_recipient_matrix,
\* delivery_engine_cells), whatever accounts the evidence carries and whatever
\* was uploaded, pruned, rebuilt or purged, in whatever order.
THEOREM MissingAlwaysUnseen == Spec => []MissingMeansUnseen
  <1>1. GroupInv => MissingMeansUnseen
    <2> SUFFICES ASSUME GroupInv
                 PROVE  MissingMeansUnseen
      OBVIOUS
    <2>1. /\ projected \in SUBSET Events /\ Group \in SUBSET projected
          /\ TableOK(observations, projected)
      BY DEF GroupInv
    <2>2. ASSUME NEW m \in Artifacts(Group), NEW r \in Matrix(Group, observations, m),
                 r.status = "missing_inferred", NEW n,
                 delivery_engine_matches_recipient(EngineIdentities(Group, n), r)
          PROVE  AgreesWithCell(projected, Group, observations, m, r, n)
      <3>1. m # None
        BY DEF Artifacts
      <3>2. QED
        BY <2>1, <2>2, <3>1, MissingUnseen, Zenon
    <2>3. QED
      BY <2>2, Zenon DEF MissingMeansUnseen, AgreesWithCell
  <1>2. QED
    BY <1>1, GroupInvariant, PTL

-----------------------------------------------------------------------------
(* More evidence *)

\* The observation of an engine before and after upload N: it keeps its keys and,
\* unless the group is replayed, the account it has.
Grown(E, N, o, q) ==
    /\ o.engine = q.engine /\ o.pubkeys \subseteq q.pubkeys
    /\ Backfills(E, N) \/ o.account_refs \subseteq q.account_refs

\* Where an observation of the evidence F has its identities from.
Attested(F, m, o) ==
    LET reports == Reports(F, m, o.engine) IN
    /\ \A a \in o.account_refs : a # None /\ \E e \in reports : a = e.account
    /\ \A k \in o.pubkeys : k # None /\ \E e \in reports : k = e.key
    /\ WithAccount(reports) # {} => o.account_refs # {}

LEMMA AttestedObservations ==
    ASSUME NEW F, NEW D, TableOK(D, F), NEW m, NEW o \in engine_observations(F, D, m)
    PROVE  Attested(F, m, o)
  <1>1. PICK d \in RowOf(D, m, o.engine) : o = Seen(F, m, d)
    BY Observations
  <1>2. d \in D /\ d.msg = m /\ d.engine = o.engine
    BY DEF RowOf
  <1>3. RowOK(d, F)
    BY <1>2 DEF TableOK
  <1> DEFINE reports == Reports(F, m, o.engine)
  <1>4. \/ d.account = None /\ WithAccount(reports) = {}
        \/ \E e \in WithAccount(reports) : d.account = e.account
    BY <1>2, <1>3 DEF RowOK
  <1>5. /\ o.account_refs = {d.account} \ {None}
        /\ o.pubkeys = {e.key : e \in reports} \ {None}
    BY <1>1, <1>2, SeenIs
  <1>6. \A e \in WithAccount(reports) : e \in reports /\ e.account # None
    BY DEF WithAccount
  <1> HIDE DEF reports
  <1>7. /\ \A a \in o.account_refs : a # None /\ \E e \in reports : a = e.account
        /\ WithAccount(reports) # {} => o.account_refs # {}
    BY <1>4, <1>5, <1>6
  <1>8. \A k \in o.pubkeys : k # None /\ \E e \in reports : k = e.key
    BY <1>5
  <1>9. QED
    BY <1>7, <1>8 DEF Attested, reports

LEMMA ObservationsKept ==
    ASSUME NEW E \in SUBSET Events, NEW N \in SUBSET Events, NEW D, TableOK(D, E), NEW m
    PROVE  \A o \in engine_observations(E, D, m) :
                \E q \in engine_observations(E \cup N, ObservationsAfter(D, E, N), m) :
                    Grown(E, N, o, q)
  <1> DEFINE F == E \cup N
             T == ObservationsAfter(D, E, N)
  <1> SUFFICES ASSUME NEW o \in engine_observations(E, D, m)
               PROVE  \E q \in engine_observations(F, T, m) : Grown(E, N, o, q)
    OBVIOUS
  <1>1. TableOK(T, F)
    <2>1. (IF Backfills(E, N) THEN E ELSE E) = E
      OBVIOUS
    <2>2. QED
      BY <2>1, AfterUpload
  <1>2. ~Backfills(E, N) => \A d \in D : d.account # None =>
            \E b \in T : b.msg = d.msg /\ b.engine = d.engine /\ b.account = d.account
    BY Projecting DEF ObservationsAfter
  <1> HIDE DEF T
  <1>3. PICK d \in RowOf(D, m, o.engine) : o = Seen(E, m, d)
    BY Observations
  <1>4. d \in D /\ d.msg = m /\ d.engine = o.engine
    BY DEF RowOf
  <1>5. PICK e \in Reports(E, m, o.engine) : m # None
    BY <1>4 DEF TableOK, RowOK
  <1>6. e \in F /\ e.msg = m /\ e.engine = o.engine
    BY DEF Reports, Naming
  <1>7. PICK b \in T : b.msg = m /\ b.engine = o.engine
    BY <1>1, <1>5, <1>6 DEF TableOK, RowOf
  <1> DEFINE q == Seen(F, m, b)
  <1>8. q \in engine_observations(F, T, m)
    BY <1>1, <1>7, Observations
  <1> HIDE DEF F
  <1>9. /\ q.engine = o.engine
        /\ q.account_refs = {b.account} \ {None}
        /\ q.pubkeys = {x.key : x \in Reports(F, m, o.engine)} \ {None}
    BY <1>7 DEF Seen
  <1>10. /\ o.account_refs = {d.account} \ {None}
         /\ o.pubkeys = {x.key : x \in Reports(E, m, o.engine)} \ {None}
    BY <1>3, <1>4, SeenIs
  <1>11. Reports(E, m, o.engine) \subseteq Reports(F, m, o.engine)
    BY DEF Reports, Naming, F
  <1>12. ~Backfills(E, N) /\ d.account # None => b.account = d.account
    BY <1>1, <1>2, <1>4, <1>7 DEF TableOK
  <1> HIDE DEF q
  <1>13. o.pubkeys \subseteq q.pubkeys
    BY <1>9, <1>10, <1>11
  <1>14. Backfills(E, N) \/ o.account_refs \subseteq q.account_refs
    BY <1>9, <1>10, <1>12
  <1>15. QED
    BY <1>8, <1>9, <1>13, <1>14 DEF Grown

\* Of two sets of observations, one per engine, the first with engines of the
\* second alone is not larger.
LEMMA EnginesCount ==
    ASSUME NEW S, NEW T, IsFiniteSet(T),
           \A o, q \in S : o.engine = q.engine => o = q,
           \A o \in S : \E q \in T : o.engine = q.engine
    PROVE  Cardinality(S) <= Cardinality(T)
  <1> DEFINE f == [o \in S |-> CHOOSE q \in T : o.engine = q.engine]
  <1>1. \A o \in S : f[o] \in T /\ f[o].engine = o.engine
    OBVIOUS
  <1>2. f \in [S -> T]
    BY <1>1
  <1> HIDE DEF f
  <1>3. \A x, y \in S : f[x] = f[y] => x = y
    BY <1>1
  <1>4. QED
    BY <1>2, <1>3, Into

LEMMA CountKept ==
    ASSUME NEW E \in SUBSET Events, NEW N \in SUBSET Events, NEW D, TableOK(D, E), NEW m,
           NEW e \in recipient_expectations(E, m), NEW r, CountRow(r, e, engine_observations(E, D, m))
    PROVE  \E q \in Matrix(E \cup N, ObservationsAfter(D, E, N), m) : SaysNoLess(E, N, m, r, q)
  <1> DEFINE F == E \cup N
             T == ObservationsAfter(D, E, N)
             O == engine_observations(E, D, m)
             Q == engine_observations(F, T, m)
             c == count_only_recipient_observations(e, O)
             d == count_only_recipient_observations(e, Q)
             q == [by |-> e.id, type |-> "count_only", id |-> None, seen |-> d,
                   status |-> count_only_expectation_status(e.expects.count, Cardinality(d))]
             lost == {o.engine : o \in c} \ {o.engine : o \in d}
  <1>1. CountOnly(e) /\ F \in SUBSET Events /\ e \in E /\ e \in F /\ e.expects # None
    BY DEF CountRow, recipient_expectations, Naming
  <1>2. TableOK(T, F)
    <2>1. (IF Backfills(E, N) THEN E ELSE E) = E
      OBVIOUS
    <2>2. QED
      BY <2>1, AfterUpload
  <1>3. \A o \in O : \E x \in Q : Grown(E, N, o, x)
    BY ObservationsKept
  <1> HIDE DEF T
  <1>4. q \in Matrix(F, T, m)
    <2>1. e \in recipient_expectations(F, m)
      BY <1>1 DEF recipient_expectations, Naming
    <2>2. ExpectedRow(q, F, T, m)
      BY <1>1, <2>1, Zenon DEF ExpectedRow, CountRow
    <2>3. QED
      BY <2>2, MatrixRows
  <1>5. /\ IsFiniteSet(c) /\ Cardinality(c) \in Nat /\ e.expects.count \in Nat
    BY <1>1, Counting
  <1>6. IsFiniteSet(d) /\ Cardinality(d) \in Nat
    BY <1>1, <1>2, Counting
  <1>7. c \subseteq O /\ d \subseteq Q
    BY DEF count_only_recipient_observations
  <1>8. \A x, y \in c : x.engine = y.engine => x = y
    BY <1>7, Observations
  <1>9. \A x \in Q : Attested(F, m, x)
    BY <1>2, AttestedObservations
  <1> HIDE DEF O, Q
  <1>10. /\ r.by = e.id /\ r.type = "count_only" /\ r.id = None /\ r.seen = c
         /\ r.status = count_only_expectation_status(e.expects.count, Cardinality(c))
    BY DEF CountRow, O
  <1>11. ASSUME NEW n \in lost
         PROVE  Reattributed(E, N, m, r, n)
    <2>1. PICK o \in c : o.engine = n
      OBVIOUS
    <2>2. PICK x \in Q : Grown(E, N, o, x)
      BY <1>3, <1>7
    <2>3. x.engine = n /\ x \notin d
      BY <2>1, <2>2 DEF Grown
    <2>4. e.expects.others /\ observation_matches_expectation_source(x, e)
      BY <2>2, <2>3 DEF count_only_recipient_observations
    <2>5. n # e.engine
      BY <2>1, <2>4 DEF count_only_recipient_observations, observation_matches_expectation_source
    <2>6. e.account \in x.account_refs \/ e.key \in x.pubkeys
      BY <2>3, <2>4, <2>5 DEF observation_matches_expectation_source
    <2>7. \E y \in Reports(F, m, n) : \/ y.account = e.account /\ e.account # None
                                      \/ y.key = e.key /\ e.key # None
      <3>1. Attested(F, m, x)
        BY <1>9
      <3> HIDE DEF F
      <3>2. /\ \A a \in x.account_refs : a # None /\ \E y \in Reports(F, m, n) : a = y.account
            /\ \A k \in x.pubkeys : k # None /\ \E y \in Reports(F, m, n) : k = y.key
        BY <2>3, <3>1 DEF Attested
      <3>3. QED
        BY <2>6, <3>2
    <2>8. QED
      BY <1>1, <1>10, <2>7 DEF Reattributed
  <1>12. /\ q.by = e.id /\ q.type = "count_only" /\ q.id = None /\ q.seen = d
         /\ q.status = count_only_expectation_status(e.expects.count, Cardinality(d))
    OBVIOUS
  <1>13. lost = {} => \A o \in c : \E x \in d : o.engine = x.engine
    OBVIOUS
  <1>14. lost = {o.engine : o \in r.seen} \ {o.engine : o \in q.seen}
    BY <1>10, <1>12
  <1> HIDE DEF c, d, q, lost
  <1>15. lost = {} => Cardinality(c) <= Cardinality(d)
    BY <1>6, <1>8, <1>13, EnginesCount
  <1>16. lost = {} /\ r.status \in Satisfied => q.status \in Satisfied
    BY <1>5, <1>6, <1>10, <1>12, <1>15 DEF count_only_expectation_status, Satisfied
  <1>17. SaysNoLess(E, N, m, r, q)
    BY <1>10, <1>11, <1>12, <1>14, <1>16 DEF SaysNoLess
  <1>18. QED
    BY <1>4, <1>17 DEF T

LEMMA IdentityKept ==
    ASSUME NEW E \in SUBSET Events, NEW N \in SUBSET Events, NEW D, TableOK(D, E), NEW m,
           NEW e \in recipient_expectations(E, m), NEW x \in expectation_identity_rows(e.expects),
           NEW r, IdentityRow(r, e, x, engine_observations(E, D, m), delivery_identity_index(E))
    PROVE  \E q \in Matrix(E \cup N, ObservationsAfter(D, E, N), m) : SaysNoLess(E, N, m, r, q)
  <1> DEFINE F == E \cup N
             T == ObservationsAfter(D, E, N)
             O == engine_observations(E, D, m)
             Q == engine_observations(F, T, m)
             c == Matching(x, O)
             d == Matching(x, Q)
             q == [by |-> e.id, type |-> x.type, id |-> x.id, seen |-> d,
                   status |-> delivery_expected_status(x, d, delivery_identity_index(F))]
             lost == {o.engine : o \in c} \ {o.engine : o \in d}
  <1>1. ~CountOnly(e)
    BY DEF IdentityRow
  <1>2. TableOK(T, F)
    <2>1. (IF Backfills(E, N) THEN E ELSE E) = E
      OBVIOUS
    <2>2. QED
      BY <2>1, AfterUpload
  <1>3. \A o \in O : \E y \in Q : Grown(E, N, o, y)
    BY ObservationsKept
  <1> HIDE DEF T
  <1>4. q \in Matrix(F, T, m)
    <2>1. e \in recipient_expectations(F, m)
      BY DEF recipient_expectations, Naming
    <2>2. ExpectedRow(q, F, T, m)
      BY <1>1, <2>1, Zenon DEF ExpectedRow, IdentityRow
    <2>3. QED
      BY <2>2, MatrixRows
  <1>5. c \subseteq O /\ d \subseteq Q
    BY DEF Matching
  <1>6. \A o \in O : Attested(E, m, o)
    BY AttestedObservations
  <1>7. \A y \in Q : Attested(F, m, y)
    BY <1>2, AttestedObservations
  <1> HIDE DEF O, Q
  <1>8. /\ r.by = e.id /\ r.type = x.type /\ r.id = x.id /\ r.seen = c
        /\ r.status = delivery_expected_status(x, c, delivery_identity_index(E))
    BY DEF IdentityRow, O
  <1>9. ASSUME NEW n \in lost
        PROVE  Reattributed(E, N, m, r, n)
    <2>1. PICK o \in c : o.engine = n
      OBVIOUS
    <2>2. o \in O /\ observation_matches_expected(o, x)
      BY DEF Matching
    <2>3. PICK y \in Q : Grown(E, N, o, y)
      BY <1>3, <2>2
    <2>4. y.engine = n /\ ~observation_matches_expected(y, x)
      BY <2>1, <2>3 DEF Grown, Matching
    <2>5. x.type = "member_ref" /\ x.id \in o.account_refs /\ x.id \notin y.account_refs
      BY <2>2, <2>3, <2>4 DEF observation_matches_expected, Grown
    <2>6. Backfills(E, N)
      BY <2>3, <2>5 DEF Grown
    <2>7. WithAccount(Reports(F, m, n)) # {}
      <3>1. PICK b \in Reports(E, m, n) : x.id = b.account /\ x.id # None
        BY <1>6, <2>1, <2>2, <2>5 DEF Attested
      <3>2. QED
        BY <3>1 DEF WithAccount, Reports, Naming
    <2>8. PICK a \in y.account_refs : TRUE
      BY <1>7, <2>4, <2>7 DEF Attested
    <2>9. PICK b \in Reports(F, m, n) : a = b.account /\ a # None
      BY <1>7, <2>4, <2>8 DEF Attested
    <2>10. b.account \notin {None, r.id}
      BY <1>8, <2>5, <2>8, <2>9
    <2>11. QED
      BY <1>8, <2>5, <2>6, <2>9, <2>10 DEF Reattributed
  <1>10. /\ q.by = e.id /\ q.type = x.type /\ q.id = x.id /\ q.seen = d
         /\ q.status = delivery_expected_status(x, d, delivery_identity_index(F))
    OBVIOUS
  <1>11. lost = {} /\ c # {} => d # {}
    OBVIOUS
  <1>12. lost = {o.engine : o \in r.seen} \ {o.engine : o \in q.seen}
    BY <1>8, <1>10
  <1> HIDE DEF c, d, q, lost
  <1>13. r.status \in Satisfied => c # {}
    BY <1>8 DEF delivery_expected_status, Satisfied
  <1>14. d # {} => q.status \in Satisfied
    BY <1>10 DEF delivery_expected_status, Satisfied
  <1>15. SaysNoLess(E, N, m, r, q)
    BY <1>8, <1>9, <1>10, <1>11, <1>12, <1>13, <1>14 DEF SaysNoLess
  <1>16. QED
    BY <1>4, <1>15 DEF T

LEMMA MoreEvidence ==
    ASSUME NEW E \in SUBSET Events, NEW N \in SUBSET Events, NEW D, TableOK(D, E), NEW m,
           NEW r \in Matrix(E, D, m), r.type # "engine"
    PROVE  \E q \in Matrix(E \cup N, ObservationsAfter(D, E, N), m) : SaysNoLess(E, N, m, r, q)
  <1>1. ExpectedRow(r, E, D, m)
    BY MatrixRows
  <1>2. QED
    BY <1>1, CountKept, IdentityKept, Zenon DEF ExpectedRow

\* An upload that commits takes a recipient that was observed, or a count that was
\* met, back only when an engine it rested on turns out to be the sender's or, in
\* a backfill, another account's (project_delivery_observation,
\* delivery_recipient_matrix), whatever accounts the evidence carries.
THEOREM UploadsHideNothing == Spec => UploadsNeverHide
  <1> DEFINE Shown == CommitUpload /\ projected = Group =>
        \A m \in Artifacts(Group) : \A r \in Matrix(Group, observations, m) :
            r.type # "engine" =>
                \E q \in Matrix(Group', observations', m) :
                    SaysNoLess(Group, contents[inflight], m, r, q)
  <1>1. GroupInv /\ [Next]_vars => Shown
    <2> SUFFICES ASSUME GroupInv, CommitUpload, projected = Group
                 PROVE  \A m \in Artifacts(Group) : \A r \in Matrix(Group, observations, m) :
                            r.type # "engine" =>
                                \E q \in Matrix(Group', observations', m) :
                                    SaysNoLess(Group, contents[inflight], m, r, q)
      BY Zenon DEF Shown
    <2>1. PICK N : N = contents[inflight]
      OBVIOUS
    <2>2. PICK E : E = Group
      OBVIOUS
    <2>3. E \in SUBSET Events /\ N \in SUBSET Events /\ TableOK(observations, E)
      BY <2>1, <2>2 DEF GroupInv, CommitUpload
    <2>4. Group' = E \cup N /\ observations' = ObservationsAfter(observations, E, N)
      BY <2>1, <2>2 DEF GroupInv, Group, Stored, CommitUpload, Changed
    <2>5. \A m : \A r \in Matrix(E, observations, m) : r.type # "engine" =>
            \E q \in Matrix(E \cup N, ObservationsAfter(observations, E, N), m) :
                SaysNoLess(E, N, m, r, q)
      BY <2>3, MoreEvidence, Zenon
    <2>6. QED
      BY <2>1, <2>2, <2>4, <2>5, Zenon
  <1>2. QED
    BY <1>1, GroupInvariant, PTL DEF Spec, UploadsNeverHide

-----------------------------------------------------------------------------
(* The export *)

ExportedRows ==
    Files \cup Events \cup Artifacts(Events) \cup {FirstId(r) : r \in SUBSET Events}

Exports ==
    [stage : {"off", "rows", "eof", "error"}, section : 0..8, cursor : SUBSET ExportedRows,
     lines : Seq(RecordTypes \X ExportedRows), counts : Seq(Nat),
     always : [RecordTypes -> SUBSET ExportedRows], ever : [RecordTypes -> SUBSET ExportedRows]]

LEMMA SectionFacts ==
    /\ Len(ExportSections) = 8
    /\ \A i \in 1..8 : ExportSections[i] \in RecordTypes
    /\ \A t \in RecordTypes : \E i \in 1..8 : ExportSections[i] = t
    /\ \A i, j \in 1..8 : ExportSections[i] = ExportSections[j] => i = j
  <1>1. Len(ExportSections) = 8
    BY DEF ExportSections
  <1>2. \A i, j \in 1..8 : ExportSections[i] = ExportSections[j] => i = j
    BY DEF ExportSections
  <1>3. QED
    BY <1>1, <1>2 DEF RecordTypes

\* What a section shows, by its type; here for any state of the group.
LEMMA RowsOfSections ==
    ASSUME contents \in [Files -> SUBSET Events], NEW st \in SUBSET Files, NEW pr \in SUBSET Events,
           NEW t \in RecordTypes
    PROVE  ExportRows(st, pr, t) \subseteq ExportedRows
  <1> DEFINE G == Stored(st) \ stranded
             f == default_api_filters
  <1>1. G \subseteq Events
    BY StoredEvents
  <1>2. Runs(pr) \subseteq SUBSET Events
    BY DEF Runs
  <1>3. {FirstId(r) : r \in Runs(pr)} \subseteq ExportedRows
    BY <1>2 DEF ExportedRows
  <1>4. Artifacts(pr) \subseteq ExportedRows
    BY DEF Artifacts, ExportedRows
  <1>5. /\ filtered_network_observations(pr \cap G, f) \subseteq Events
        /\ filtered_state_deltas(pr \cap G, f) \subseteq Events
        /\ filtered_epoch_transitions(pr \cap G, f) \subseteq Events
        /\ filtered_audit_data_mode_changes(G, f) \subseteq Events
    BY <1>1, Zenon DEF filtered_network_observations, filtered_state_deltas,
        filtered_epoch_transitions, filtered_audit_data_mode_changes
  <1>6. st \subseteq ExportedRows /\ Events \subseteq ExportedRows
    BY DEF ExportedRows
  <1>7. t \in {"source", "event", "delivery_artifact", "network_observation", "convergence_run",
              "state_delta", "epoch_state_transition", "audit_data_mode_change"}
    BY DEF RecordTypes, ExportSections
  <1> HIDE DEF G, f
  <1>8. QED
    BY <1>1, <1>3, <1>4, <1>5, <1>6, <1>7 DEF ExportRows, G, f

\* The lines L of a section, the rows they hold, and those that its cursor C
\* still has, while section s is sent.
Sent(L, t) == {i \in 1..Len(L) : L[i][1] = t}
Held(L, t) == {L[i][2] : i \in Sent(L, t)}
Left(s, C, i) == IF i = s THEN C ELSE {}

\* A section that was opened has sent, or has still to send, every row that is
\* there all the time (A), and nothing that never was (V); N are its counts.
SectionOK(s, C, L, N, A, V, i) ==
    LET t == ExportSections[i] IN
    /\ N[i] = Cardinality(Sent(L, t))
    /\ A[t] \subseteq Held(L, t) \cup Left(s, C, i)
    /\ Held(L, t) \cup Left(s, C, i) \subseteq V[t]
    /\ Held(L, t) \cap Left(s, C, i) = {}

Running(s, C, L, N, A, V) ==
    /\ Len(N) = s
    /\ \A i, j \in 1..Len(L) : L[i] = L[j] => i = j
    /\ \A i \in 1..8 : i > s => Sent(L, ExportSections[i]) = {}
    /\ \A i \in 1..s : SectionOK(s, C, L, N, A, V, i)
    /\ s = 0 => C = {}

LEMMA Opened ==
    ASSUME NEW s \in 0..7, NEW R, NEW L, NEW N \in Seq(Nat), NEW A, NEW V,
           Running(s, {}, L, N, A, V),
           A[ExportSections[s + 1]] \subseteq R, R \subseteq V[ExportSections[s + 1]]
    PROVE  /\ Running(s + 1, R, L, Append(N, 0), A, V)
           /\ Append(N, 0) \in Seq(Nat)
  <1> DEFINE M == Append(N, 0)
             T == ExportSections[s + 1]
  <1>1. Len(N) = s
    BY DEF Running
  <1>2. /\ M \in Seq(Nat) /\ Len(M) = s + 1 /\ M[s + 1] = 0
        /\ \A i \in 1..s : M[i] = N[i]
    BY <1>1
  <1>3. s + 1 \in 1..8 /\ s + 1 > s
    OBVIOUS
  <1>4. \A i \in 1..8 : i > s => Sent(L, ExportSections[i]) = {}
    BY DEF Running
  <1>5. Sent(L, T) = {}
    BY ONLY <1>3, <1>4 DEF T
  <1> HIDE DEF M, T
  <1>6. Held(L, T) = {}
    BY <1>5 DEF Held
  <1>7. Cardinality(Sent(L, T)) = 0
    BY <1>5, FS_EmptySet
  <1>8. Left(s + 1, R, s + 1) = R
    BY DEF Left
  <1>9. SectionOK(s + 1, R, L, M, A, V, s + 1)
    BY <1>2, <1>6, <1>7, <1>8 DEF SectionOK, T
  <1>10. ASSUME NEW i \in 1..s
         PROVE  SectionOK(s + 1, R, L, M, A, V, i)
    <2>1. SectionOK(s, {}, L, N, A, V, i)
      BY DEF Running
    <2>2. Left(s, {}, i) = {} /\ Left(s + 1, R, i) = {}
      BY DEF Left
    <2>3. M[i] = N[i]
      BY <1>2
    <2>4. QED
      BY ONLY <2>1, <2>2, <2>3 DEF SectionOK
  <1>11. \A i \in 1..(s + 1) : SectionOK(s + 1, R, L, M, A, V, i)
    BY <1>9, <1>10
  <1>12. ASSUME NEW i \in 1..8, i > s + 1
         PROVE  Sent(L, ExportSections[i]) = {}
    <2>1. i > s
      BY <1>12
    <2>2. QED
      BY <1>4, <2>1, Zenon
  <1>13. \A i, j \in 1..Len(L) : L[i] = L[j] => i = j
    BY DEF Running
  <1>14. s + 1 # 0
    OBVIOUS
  <1>15. QED
    BY ONLY <1>2, <1>11, <1>12, <1>13, <1>14 DEF Running, M

LEMMA Emitted ==
    ASSUME NEW s \in 0..8, NEW C, NEW D, NEW L \in Seq(D), NEW N \in Seq(Nat), NEW A, NEW V,
           Running(s, C, L, N, A, V), NEW row \in C, <<ExportSections[s], row>> \in D
    PROVE  /\ s \in 1..8
           /\ Running(s, C \ {row}, Append(L, <<ExportSections[s], row>>),
                      [N EXCEPT ![s] = @ + 1], A, V)
           /\ [N EXCEPT ![s] = @ + 1] \in Seq(Nat)
           /\ Append(L, <<ExportSections[s], row>>) \in Seq(D)
  <1> DEFINE n == Len(L)
             T == ExportSections[s]
             K == Append(L, <<T, row>>)
             M == [N EXCEPT ![s] = @ + 1]
             B == C \ {row}
  <1>1. s \in 1..8 /\ Len(N) = s /\ n \in Nat
    BY DEF Running
  <1>2. /\ K \in Seq(D) /\ Len(K) = n + 1 /\ K[n + 1] = <<T, row>>
        /\ \A i \in 1..n : K[i] = L[i]
    OBVIOUS
  <1>3. /\ M \in Seq(Nat) /\ Len(M) = s /\ M[s] = N[s] + 1
        /\ \A i \in 1..s : i # s => M[i] = N[i]
    <2>1. N \in [1..s -> Nat]
      BY <1>1
    <2>2. M \in [1..s -> Nat] /\ M[s] = N[s] + 1 /\ \A i \in 1..s : i # s => M[i] = N[i]
      BY <1>1, <2>1
    <2> HIDE DEF M
    <2>3. M \in Seq(Nat) /\ Len(M) = s
      BY <1>1, <2>2
    <2>4. QED
      BY <2>2, <2>3
  <1> HIDE DEF n, T, K, M, B
  <1>4. Sent(K, T) = Sent(L, T) \cup {n + 1} /\ n + 1 \notin Sent(L, T)
    BY <1>1, <1>2 DEF Sent, n
  <1>5. ASSUME NEW t, t # T
        PROVE  Sent(K, t) = Sent(L, t)
    BY <1>1, <1>2, <1>5 DEF Sent, n
  <1>6. \A t : \A i \in Sent(L, t) : K[i] = L[i]
    BY <1>1, <1>2 DEF Sent, n
  <1>7. Held(K, T) = Held(L, T) \cup {row}
    <2>1. K[n + 1][2] = row
      BY <1>2
    <2>2. QED
      BY <1>4, <1>6, <2>1 DEF Held
  <1>8. \A t : t # T => Held(K, t) = Held(L, t)
    BY <1>5, <1>6 DEF Held
  <1>9. SectionOK(s, C, L, N, A, V, s) /\ Left(s, C, s) = C /\ Left(s, B, s) = B
    BY <1>1 DEF Running, Left
  <1>10. IsFiniteSet(Sent(L, T))
    <2>1. Sent(L, T) \in SUBSET (1..n)
      BY DEF Sent, n
    <2>2. IsFiniteSet(1..n)
      BY <1>1, FS_Interval
    <2>3. QED
      BY <2>1, <2>2, FS_Subset
  <1>11. Cardinality(Sent(K, T)) = Cardinality(Sent(L, T)) + 1
    BY <1>4, <1>10, FS_AddElement
  <1>12. SectionOK(s, B, K, M, A, V, s)
    BY <1>3, <1>7, <1>9, <1>11 DEF SectionOK, T, B
  <1>13. ASSUME NEW i \in 1..s, i # s
         PROVE  SectionOK(s, B, K, M, A, V, i)
    <2>1. SectionOK(s, C, L, N, A, V, i) /\ Left(s, C, i) = {} /\ Left(s, B, i) = {}
      BY <1>13 DEF Running, Left
    <2>2. i \in 1..8
      BY <1>1
    <2>3. ExportSections[i] # T
      BY <1>1, <1>13, <2>2, SectionFacts, Zenon DEF T
    <2>4. M[i] = N[i]
      BY <1>3, <1>13
    <2>5. QED
      BY <1>5, <1>8, <2>1, <2>3, <2>4 DEF SectionOK
  <1>14. ASSUME NEW i \in 1..8, i > s
         PROVE  Sent(K, ExportSections[i]) = {}
    <2>1. i # s
      BY <1>1, <1>14
    <2>2. ExportSections[i] # T
      BY <1>1, <2>1, SectionFacts, Zenon DEF T
    <2>3. Sent(L, ExportSections[i]) = {}
      BY <1>14 DEF Running
    <2>4. QED
      BY <1>5, <2>2, <2>3
  <1>15. ASSUME NEW i \in 1..n, L[i] = <<T, row>>
         PROVE  FALSE
    <2>1. L[i][1] = T /\ L[i][2] = row
      BY <1>15
    <2>2. i \in Sent(L, T)
      BY <2>1 DEF Sent, n
    <2>3. row \in Held(L, T)
      BY <2>1, <2>2 DEF Held
    <2>4. QED
      BY <1>9, <2>3 DEF SectionOK, T
  <1>16. \A i, j \in 1..Len(K) : K[i] = K[j] => i = j
    <2>1. \A i, j \in 1..n : L[i] = L[j] => i = j
      BY DEF Running, n
    <2>2. \A i \in 1..Len(K) : i \in 1..n \/ i = n + 1
      BY <1>1, <1>2
    <2>3. \A i \in 1..n : K[i] # K[n + 1]
      BY <1>2, <1>15
    <2>4. QED
      BY ONLY <1>2, <2>1, <2>2, <2>3
  <1>17. \A i \in 1..s : SectionOK(s, B, K, M, A, V, i)
    BY <1>12, <1>13
  <1>18. s # 0
    BY <1>1
  <1>19. Running(s, B, K, M, A, V)
    BY ONLY <1>3, <1>14, <1>16, <1>17, <1>18 DEF Running
  <1>20. QED
    BY <1>1, <1>2, <1>3, <1>19 DEF T, K, M, B

\* The rows that are there now.
Present(t) == ExportRows(stored, projected, t)

ExportInv ==
    /\ export \in Exports
    /\ export.stage \in {"rows", "eof"} =>
            Running(export.section, export.cursor, export.lines, export.counts,
                    export.always, export.ever)
    /\ export.stage = "rows" => \A t \in RecordTypes :
            export.always[t] \subseteq Present(t) /\ Present(t) \subseteq export.ever[t]
    /\ export.stage = "eof" => export.section = 8 /\ export.cursor = {}

LEMMA NoExportTyped ==
    /\ NoExport \in Exports /\ NoExport.stage = "off"
    /\ NoExport.section = 0 /\ NoExport.cursor = {} /\ NoExport.lines = <<>> /\ NoExport.counts = <<>>
  BY DEF NoExport, Exports

\* Nothing is sent before the first section.
LEMMA NothingSent ==
    ASSUME NEW A, NEW V
    PROVE  Running(0, {}, <<>>, <<>>, A, V)
  BY DEF Running, Sent

\* A change narrows what is there all the time and widens what ever was.
LEMMA Widened ==
    ASSUME NEW s \in 0..8, NEW C, NEW L, NEW N, NEW A, NEW V, Running(s, C, L, N, A, V), NEW B, NEW W,
           \A t \in RecordTypes : B[t] \subseteq A[t] /\ V[t] \subseteq W[t]
    PROVE  Running(s, C, L, N, B, W)
  <1>1. ASSUME NEW i \in 1..s
        PROVE  SectionOK(s, C, L, N, B, W, i)
    <2>1. SectionOK(s, C, L, N, A, V, i)
      BY DEF Running
    <2>2. ExportSections[i] \in RecordTypes
      BY SectionFacts
    <2>3. QED
      BY <2>1, <2>2 DEF SectionOK
  <1>2. QED
    BY <1>1 DEF Running

\* The group as it is decides what is there: a step that leaves it alone, and a
\* change to the files st and projections pr, strand nothing.
LEMMA PresentAfter ==
    ASSUME GroupInv, GroupInv', contents' = contents, NEW st, NEW pr, stored' = st, projected' = pr
    PROVE  \A t : Present(t)' = ExportRows(st, pr, t)
  <1>1. stranded' = stranded
    BY DEF GroupInv
  <1>2. QED
    BY <1>1 DEF Present, ExportRows, Stored

LEMMA ChangedStep ==
    ASSUME GroupInv, GroupInv', ExportInv, NEW st \in SUBSET Files, NEW pr \in SUBSET Events,
           NEW D, Changed(st, pr, D)
    PROVE  ExportInv'
  <1>1. /\ contents' = contents /\ stored' = st /\ projected' = pr
        /\ export.stage \in {"off", "rows"}
    BY DEF Changed, Busy, ExportInv, Exports
  <1>2. \A t : Present(t)' = ExportRows(st, pr, t)
    BY <1>1, PresentAfter
  <1>3. CASE export.stage = "off"
    <2>1. export' = export
      BY <1>3 DEF Changed
    <2>2. QED
      BY <1>3, <2>1 DEF ExportInv
  <1>4. CASE export.stage = "rows"
    <2> DEFINE B == [t \in RecordTypes |-> export.always[t] \cap ExportRows(st, pr, t)]
               W == [t \in RecordTypes |-> export.ever[t] \cup ExportRows(st, pr, t)]
    <2>1. export' = [export EXCEPT !.always = B, !.ever = W]
      BY <1>4 DEF Changed
    <2>2. \A t \in RecordTypes : ExportRows(st, pr, t) \subseteq ExportedRows
      BY RowsOfSections DEF GroupInv
    <2>3. export \in Exports
      BY DEF ExportInv
    <2>4. /\ export.always \in [RecordTypes -> SUBSET ExportedRows]
          /\ export.ever \in [RecordTypes -> SUBSET ExportedRows]
          /\ export.section \in 0..8
      BY <2>3 DEF Exports
    <2>5. B \in [RecordTypes -> SUBSET ExportedRows] /\ W \in [RecordTypes -> SUBSET ExportedRows]
      BY <2>2, <2>4
    <2>6. \A t \in RecordTypes : /\ B[t] \subseteq export.always[t] /\ export.ever[t] \subseteq W[t]
                                 /\ B[t] \subseteq Present(t)' /\ Present(t)' \subseteq W[t]
      BY <1>2
    <2> HIDE DEF B, W
    <2>7. /\ export' \in Exports /\ export'.stage = "rows" /\ export'.section = export.section
          /\ export'.cursor = export.cursor /\ export'.lines = export.lines
          /\ export'.counts = export.counts /\ export'.always = B /\ export'.ever = W
      BY <1>4, <2>1, <2>3, <2>5 DEF Exports
    <2>8. Running(export.section, export.cursor, export.lines, export.counts, B, W)
      BY <1>4, <2>4, <2>6, Widened DEF ExportInv
    <2>9. QED
      BY <2>6, <2>7, <2>8 DEF ExportInv
  <1>5. QED
    BY <1>1, <1>3, <1>4

\* A step that leaves the group and the export alone.
LEMMA ExportFrame ==
    ASSUME GroupInv, GroupInv', ExportInv, export' = export, contents' = contents,
           stored' = stored, projected' = projected
    PROVE  ExportInv'
  <1>1. \A t : Present(t)' = Present(t)
    BY PresentAfter DEF Present
  <1>2. QED
    BY <1>1 DEF ExportInv

LEMMA OpenStep ==
    ASSUME GroupInv, GroupInv', ExportInv, OpenSection
    PROVE  ExportInv'
  <1> DEFINE s == export.section
             R == Present(ExportSections[s + 1])
             M == Append(export.counts, 0)
  <1>1. \A t : Present(t)' = Present(t)
    BY PresentAfter DEF Present, OpenSection, groupVars
  <1>2. /\ export \in Exports /\ export.stage = "rows" /\ export.cursor = {}
        /\ export.counts \in Seq(Nat) /\ s \in 0..7
    BY SectionFacts DEF ExportInv, Exports, OpenSection
  <1>3. export' = [export EXCEPT !.section = @ + 1, !.cursor = R, !.counts = Append(@, 0)]
    BY DEF OpenSection, Present
  <1>4. ExportSections[s + 1] \in RecordTypes
    BY <1>2, SectionFacts
  <1>5. export.always[ExportSections[s + 1]] \subseteq R /\ R \subseteq export.ever[ExportSections[s + 1]]
    BY <1>2, <1>4, Zenon DEF ExportInv
  <1>6. Running(s, {}, export.lines, export.counts, export.always, export.ever)
    BY <1>2 DEF ExportInv
  <1>7. Running(s + 1, R, export.lines, M, export.always, export.ever) /\ M \in Seq(Nat)
    BY <1>2, <1>5, <1>6, Opened
  <1>8. R \in SUBSET ExportedRows
    BY <1>4, RowsOfSections DEF GroupInv, Present
  <1>9. s + 1 \in 0..8
    BY <1>2
  <1> HIDE DEF R
  <1>10. /\ export'.section = s + 1 /\ export'.cursor = R /\ export'.counts = M
         /\ export'.lines = export.lines /\ export'.always = export.always
         /\ export'.ever = export.ever /\ export'.stage = "rows"
    BY <1>2, <1>3 DEF Exports
  <1>11. export' \in Exports
    <2> PICK m : m = M
      OBVIOUS
    <2> PICK k : k = s + 1
      OBVIOUS
    <2>1. export' = [export EXCEPT !.section = k, !.cursor = R, !.counts = m]
      BY <1>3
    <2>2. m \in Seq(Nat) /\ k \in 0..8
      BY <1>7, <1>9
    <2>3. QED
      BY ONLY <1>2, <1>8, <2>1, <2>2 DEF Exports
  <1>12. QED
    BY <1>1, <1>2, <1>7, <1>10, <1>11 DEF ExportInv

LEMMA EmitStep ==
    ASSUME GroupInv, GroupInv', ExportInv, EmitRow
    PROVE  ExportInv'
  <1> DEFINE s == export.section
             D == RecordTypes \X ExportedRows
  <1>1. \A t : Present(t)' = Present(t)
    BY PresentAfter DEF Present, EmitRow, groupVars
  <1>2. /\ export \in Exports /\ export.stage = "rows"
        /\ export.counts \in Seq(Nat) /\ s \in 0..8 /\ export.lines \in Seq(D)
        /\ export.cursor \in SUBSET ExportedRows
    BY DEF ExportInv, Exports, EmitRow
  <1>3. PICK row \in export.cursor :
            export' = [export EXCEPT !.cursor = @ \ {row},
                                     !.lines = Append(@, <<ExportSections[s], row>>),
                                     !.counts = [export.counts EXCEPT ![s] = @ + 1]]
    BY DEF EmitRow
  <1> DEFINE K == Append(export.lines, <<ExportSections[s], row>>)
             M == [export.counts EXCEPT ![s] = @ + 1]
             B == export.cursor \ {row}
  <1>4. Running(s, export.cursor, export.lines, export.counts, export.always, export.ever)
    BY <1>2 DEF ExportInv
  <1>5. s # 0
    BY <1>4 DEF Running
  <1>6. <<ExportSections[s], row>> \in D
    <2>1. s \in 1..8
      BY <1>2, <1>5
    <2>2. ExportSections[s] \in RecordTypes /\ row \in ExportedRows
      BY <1>2, <2>1, SectionFacts
    <2>3. QED
      BY <2>2
  <1> HIDE DEF D
  <1>7. /\ Running(s, B, K, M, export.always, export.ever)
        /\ M \in Seq(Nat) /\ K \in Seq(D)
    BY <1>2, <1>4, <1>6, Emitted
  <1>8. export' = [export EXCEPT !.cursor = B, !.lines = K, !.counts = M]
    BY <1>3
  <1>9. B \in SUBSET ExportedRows
    BY <1>2
  <1> HIDE DEF K, M, B
  <1>10. /\ export'.section = s /\ export'.cursor = B /\ export'.counts = M
         /\ export'.lines = K /\ export'.always = export.always
         /\ export'.ever = export.ever /\ export'.stage = "rows"
    BY <1>2, <1>8 DEF Exports
  <1>11. export' \in Exports
    BY ONLY <1>2, <1>7, <1>8, <1>9 DEF Exports, D
  <1>12. QED
    BY <1>1, <1>2, <1>7, <1>10, <1>11 DEF ExportInv

LEMMA StartStep ==
    ASSUME GroupInv, GroupInv', ExportInv, StartExport
    PROVE  ExportInv'
  <1> DEFINE now == [t \in RecordTypes |-> ExportRows(stored, projected, t)]
  <1>1. \A t : Present(t)' = Present(t)
    BY PresentAfter DEF Present, StartExport, groupVars
  <1>2. export' = [NoExport EXCEPT !.stage = "rows", !.always = now, !.ever = now]
    BY DEF StartExport
  <1>3. now \in [RecordTypes -> SUBSET ExportedRows]
    BY RowsOfSections DEF GroupInv
  <1>4. \A t \in RecordTypes : now[t] = Present(t)
    BY DEF Present
  <1> HIDE DEF now
  <1>5. export' \in Exports
    BY <1>2, <1>3, NoExportTyped DEF Exports
  <1>6. /\ export'.section = 0 /\ export'.cursor = {} /\ export'.counts = <<>>
        /\ export'.lines = <<>> /\ export'.always = now /\ export'.ever = now
        /\ export'.stage = "rows"
    BY <1>2, NoExportTyped DEF Exports
  <1>7. Running(0, {}, <<>>, <<>>, now, now)
    BY NothingSent
  <1>8. QED
    BY <1>1, <1>4, <1>5, <1>6, <1>7 DEF ExportInv

LEMMA EndStep ==
    ASSUME GroupInv, GroupInv', ExportInv, Eof \/ ExportFails
    PROVE  ExportInv'
  <1>1. CASE Eof
    <2>1. /\ export \in Exports /\ export.stage = "rows" /\ export.cursor = {} /\ export.section = 8
          /\ export' = [export EXCEPT !.stage = "eof"]
      BY <1>1, SectionFacts DEF Eof, ExportInv
    <2>2. /\ export' \in Exports /\ export'.stage = "eof" /\ export'.section = export.section
          /\ export'.cursor = export.cursor /\ export'.lines = export.lines
          /\ export'.counts = export.counts /\ export'.always = export.always
          /\ export'.ever = export.ever
      BY <2>1 DEF Exports
    <2>3. QED
      BY <2>1, <2>2 DEF ExportInv
  <1>2. CASE ExportFails
    <2>1. export \in Exports /\ export' = [NoExport EXCEPT !.stage = "error", !.lines = export.lines]
      BY <1>2 DEF ExportFails, ExportInv
    <2>2. export' \in Exports /\ export'.stage = "error"
      BY <2>1, NoExportTyped DEF Exports
    <2>3. QED
      BY <2>2 DEF ExportInv
  <1>3. QED
    BY <1>1, <1>2

LEMMA ExportStep == GroupInv /\ GroupInv' /\ ExportInv /\ [Next]_vars => ExportInv'
  <1> SUFFICES ASSUME GroupInv, GroupInv', ExportInv, [Next]_vars
               PROVE  ExportInv'
    OBVIOUS
  <1>1. ASSUME StartWalk
        PROVE  ExportInv'
    BY <1>1, ExportFrame DEF StartWalk, groupVars
  <1>2. CASE NextPage
    BY <1>2, ExportFrame DEF NextPage, groupVars
  <1>3. CASE StartExport
    BY <1>3, StartStep
  <1>4. CASE OpenSection
    BY <1>4, OpenStep
  <1>5. CASE EmitRow
    BY <1>5, EmitStep
  <1>6. CASE Eof \/ ExportFails
    BY <1>6, EndStep
  <1>7. ASSUME NEW f \in Files, BeginUpload(f)
        PROVE  ExportInv'
    BY <1>7, ExportFrame DEF BeginUpload
  <1>8. ASSUME NEW f \in Files, Prune(f)
        PROVE  ExportInv'
    BY <1>8, ChangedStep DEF Prune, GroupInv
  <1>9. CASE CommitUpload
    <2> DEFINE N == contents[inflight]
               pr == (IF Backfills(Group, N) THEN Group ELSE projected) \cup N
               D == ObservationsAfter(observations, Group, N)
    <2>1. Changed(stored \cup {inflight}, pr, D)
      BY <1>9 DEF CommitUpload
    <2>2. stored \cup {inflight} \in SUBSET Files /\ pr \in SUBSET Events
      BY <1>9 DEF CommitUpload, GroupInv
    <2> HIDE DEF pr, D
    <2>3. QED
      BY <2>1, <2>2, ChangedStep
  <1>10. CASE Rebuild
    <2>1. Group \in SUBSET Events
      BY StoredEvents DEF GroupInv, Group
    <2>2. QED
      BY <1>10, <2>1, ChangedStep DEF Rebuild, GroupInv
  <1>11. CASE SwitchUploads
    BY <1>11, ExportFrame DEF SwitchUploads
  <1>12. CASE PurgeFiles
    BY <1>12, ExportFrame DEF PurgeFiles
  <1>13. CASE PurgeGroups
    BY <1>13, ChangedStep DEF PurgeGroups, GroupInv
  <1>14. CASE UNCHANGED vars
    BY <1>14, ExportFrame DEF vars, groupVars
  <1>15. QED
    BY <1>1, <1>2, <1>3, <1>4, <1>5, <1>6, <1>7, <1>8, <1>9, <1>10, <1>11, <1>12, <1>13,
       <1>14 DEF Next

LEMMA ExportInit == Init => ExportInv
  BY NoExportTyped DEF Init, ExportInv

\* The end of a stream: every section is closed.
LEMMA AllSent ==
    ASSUME NEW L \in Seq(RecordTypes \X ExportedRows), NEW N \in Seq(Nat),
           NEW A, NEW V, Running(8, {}, L, N, A, V)
    PROVE  /\ IsInjective(L)
           /\ \A t \in RecordTypes : A[t] \subseteq Held(L, t) /\ Held(L, t) \subseteq V[t]
           /\ N = [i \in 1..Len(ExportSections) |-> Cardinality(Sent(L, ExportSections[i]))]
  <1>1. IsInjective(L)
    <2>1. DOMAIN L = 1..Len(L)
      OBVIOUS
    <2>2. \A i, j \in 1..Len(L) : L[i] = L[j] => i = j
      BY DEF Running
    <2>3. QED
      BY ONLY <2>1, <2>2, Zenon DEF IsInjective
  <1>2. ASSUME NEW t \in RecordTypes
        PROVE  A[t] \subseteq Held(L, t) /\ Held(L, t) \subseteq V[t]
    <2>1. PICK i \in 1..8 : ExportSections[i] = t
      BY SectionFacts
    <2>2. SectionOK(8, {}, L, N, A, V, i)
      BY DEF Running
    <2>3. QED
      BY <2>1, <2>2 DEF SectionOK, Left
  <1>3. \A i \in 1..8 : N[i] = Cardinality(Sent(L, ExportSections[i]))
    BY DEF Running, SectionOK
  <1>4. N = [i \in 1..8 |-> N[i]]
    BY DEF Running
  <1>5. QED
    BY <1>1, <1>2, <1>3, <1>4, SectionFacts

\* A completed export is exact (stream_ndjson): although its sections are read
\* one after the other while uploads, the pruner and a purge go on, it has every
\* row that stayed exactly once, none that never was, and the right counts.
THEOREM ExportsAlwaysExact == Spec => []ExportExact
  <1>1. ExportInv => ExportExact
    <2> SUFFICES ASSUME ExportInv, export.stage = "eof"
                 PROVE  ExportExact
      BY DEF ExportExact
    <2>1. /\ export.lines \in Seq(RecordTypes \X ExportedRows) /\ export.counts \in Seq(Nat)
          /\ export.section = 8 /\ export.cursor = {}
      BY DEF ExportInv, Exports
    <2>2. Running(8, {}, export.lines, export.counts, export.always, export.ever)
      BY <2>1 DEF ExportInv
    <2>3. /\ IsInjective(export.lines)
          /\ \A t \in RecordTypes : /\ export.always[t] \subseteq Held(export.lines, t)
                                    /\ Held(export.lines, t) \subseteq export.ever[t]
          /\ export.counts = [i \in 1..Len(ExportSections) |->
                                Cardinality(Sent(export.lines, ExportSections[i]))]
      BY ONLY <2>1, <2>2, AllSent, Zenon
    <2>4. QED
      BY <2>3, Zenon DEF ExportExact, Held, Sent
  <1>2. QED
    BY <1>1, GroupInvariant, ExportInit, ExportStep, PTL DEF Spec

-----------------------------------------------------------------------------
(* Ordered sequences *)

\* A relation that orders S strictly and totally.
Orders(R, S) ==
    /\ \A x \in S : <<x, x>> \notin R
    /\ \A x, y, z \in S : <<x, y>> \in R /\ <<y, z>> \in R => <<x, z>> \in R
    /\ \A x, y \in S : x = y \/ <<x, y>> \in R \/ <<y, x>> \in R

IsEnumeration(s, S, R) ==
    s \in [1..Cardinality(S) -> S] /\
        \A i, j \in 1..Cardinality(S) : i < j => <<s[i], s[j]>> \in R

Below(S, R, x) == {y \in S : <<y, x>> \in R}

LEMMA BelowGrows ==
    ASSUME NEW S, IsFiniteSet(S), NEW R, Orders(R, S), NEW x \in S
    PROVE  /\ IsFiniteSet(Below(S, R, x)) /\ Cardinality(Below(S, R, x)) \in Nat
           /\ Cardinality(Below(S, R, x)) < Cardinality(S)
           /\ \A y \in S : <<x, y>> \in R =>
                Cardinality(Below(S, R, x)) < Cardinality(Below(S, R, y))
  <1> DEFINE B(y) == Below(S, R, y)
             X == B(x) \cup {x}
  <1>1. \A y \in S : B(y) \in SUBSET S
    BY DEF Below
  <1>2. \A y \in S : IsFiniteSet(B(y)) /\ Cardinality(B(y)) \in Nat
    <2> SUFFICES ASSUME NEW y \in S PROVE IsFiniteSet(B(y)) /\ Cardinality(B(y)) \in Nat
      OBVIOUS
    <2>1. B(y) \in SUBSET S
      BY <1>1
    <2> HIDE DEF B
    <2>2. IsFiniteSet(B(y))
      BY <2>1, FS_Subset
    <2>3. QED
      BY <2>2, FS_CardinalityType
  <1>3. x \notin B(x)
    BY DEF Below, Orders
  <1>4. \A y \in S : <<x, y>> \in R => X \in SUBSET B(y)
    BY DEF Below, Orders
  <1>5. X \in SUBSET S
    BY <1>1
  <1> HIDE DEF B
  <1>6. IsFiniteSet(X) /\ Cardinality(X) = Cardinality(B(x)) + 1
    BY <1>2, <1>3, FS_AddElement
  <1>7. ASSUME NEW T, IsFiniteSet(T), Cardinality(T) \in Nat, X \in SUBSET T
        PROVE  Cardinality(B(x)) < Cardinality(T)
    <2> HIDE DEF X
    <2>1. Cardinality(X) <= Cardinality(T)
      BY <1>7, FS_Subset
    <2>2. QED
      BY <1>2, <1>6, <1>7, <2>1
  <1>8. Cardinality(S) \in Nat
    BY FS_CardinalityType
  <1>9. Cardinality(B(x)) < Cardinality(S)
    BY <1>5, <1>7, <1>8
  <1>10. \A y \in S : <<x, y>> \in R => Cardinality(B(x)) < Cardinality(B(y))
    BY <1>2, <1>4, <1>7
  <1>11. QED
    BY <1>2, <1>9, <1>10 DEF B

\* A one-to-one function between finite sets of one size reaches everything.
LEMMA OneToOneOnto ==
    ASSUME NEW S, IsFiniteSet(S), NEW T, IsFiniteSet(T), Cardinality(S) = Cardinality(T),
           NEW f \in [S -> T], \A x, y \in S : f[x] = f[y] => x = y
    PROVE  \A t \in T : \E x \in S : f[x] = t
  <1> DEFINE V == {f[x] : x \in S}
             g == [x \in S |-> f[x]]
  <1>1. g \in [S -> V] /\ (\A x, y \in S : g[x] = g[y] => x = y) /\ \A t \in V : \E x \in S : g[x] = t
    OBVIOUS
  <1>2. V \in SUBSET T
    OBVIOUS
  <1>3. \A t \in V : \E x \in S : f[x] = t
    OBVIOUS
  <1> HIDE DEF V, g
  <1>4. Cardinality(V) = Cardinality(S)
    BY <1>1, OneToOne
  <1>5. V = T
    BY <1>2, <1>4, FS_Subset
  <1>6. QED
    BY <1>3, <1>5

\* The elements of a finite set can be enumerated in order: each has as its place
\* the number of those before it.
LEMMA EnumerationExists ==
    ASSUME NEW S, IsFiniteSet(S), NEW R, Orders(R, S)
    PROVE  \E s : IsEnumeration(s, S, R)
  <1> DEFINE n == Cardinality(S)
             N == 1..n
             f == [x \in S |-> Cardinality(Below(S, R, x)) + 1]
  <1>1. n \in Nat
    BY FS_CardinalityType
  <1>2. IsFiniteSet(N) /\ Cardinality(N) = n
    <2>1. 1 \in Int /\ n \in Int
      BY <1>1
    <2> HIDE DEF n
    <2>2. IsFiniteSet(1..n) /\ Cardinality(1..n) = IF 1 > n THEN 0 ELSE n - 1 + 1
      BY ONLY <2>1, FS_Interval, Zenon
    <2>3. QED
      BY <1>1, <2>2
  <1>3. \A x \in S : /\ Cardinality(Below(S, R, x)) \in Nat /\ Cardinality(Below(S, R, x)) < n
                     /\ \A y \in S : <<x, y>> \in R =>
                            Cardinality(Below(S, R, x)) < Cardinality(Below(S, R, y))
    BY BelowGrows
  <1> HIDE DEF n
  <1>4. f \in [S -> N]
    BY <1>1, <1>3
  <1>5. \A x, y \in S : <<x, y>> \in R => f[x] < f[y]
    BY <1>3
  <1> HIDE DEF f
  <1>6. \A x, y \in S : f[x] = f[y] => x = y
    <2> SUFFICES ASSUME NEW x \in S, NEW y \in S, f[x] = f[y], x # y PROVE FALSE
      OBVIOUS
    <2>1. f[x] < f[y] \/ f[y] < f[x]
      BY <1>5 DEF Orders
    <2>2. f[x] \in Int /\ f[y] \in Int
      BY <1>4
    <2>3. QED
      BY <2>1, <2>2
  <1>7. \A i \in N : \E x \in S : f[x] = i
    <2> HIDE DEF N
    <2>1. n = Cardinality(S)
      BY DEF n
    <2>2. QED
      BY <1>2, <1>4, <1>6, <2>1, OneToOneOnto
  <1> DEFINE s == [i \in N |-> CHOOSE x \in S : f[x] = i]
  <1>8. \A i \in N : s[i] \in S /\ f[s[i]] = i
    BY <1>7
  <1>9. s \in [N -> S]
    BY <1>8
  <1> HIDE DEF s
  <1>10. ASSUME NEW i \in N, NEW j \in N, i < j
         PROVE  <<s[i], s[j]>> \in R
    <2>1. s[i] \in S /\ s[j] \in S /\ f[s[i]] = i /\ f[s[j]] = j
      BY <1>8
    <2>2. s[i] # s[j]
      BY <1>1, <1>10, <2>1
    <2>3. ~(<<s[j], s[i]>> \in R)
      BY <1>1, <1>5, <1>10, <2>1
    <2>4. QED
      BY <2>1, <2>2, <2>3 DEF Orders
  <1>11. IsEnumeration(s, S, R)
    BY <1>9, <1>10 DEF IsEnumeration, n
  <1>12. QED
    BY <1>11

\* What InOrder gives: every element once, in order.
LEMMA InOrderIs ==
    ASSUME NEW S, IsFiniteSet(S), NEW R, Orders(R, S)
    PROVE  /\ InOrder(S, R) \in Seq(S) /\ Len(InOrder(S, R)) = Cardinality(S)
           /\ InOrder(S, R) \in [1..Cardinality(S) -> S] /\ Cardinality(S) \in Nat
           /\ \A i, j \in 1..Cardinality(S) : i < j => <<InOrder(S, R)[i], InOrder(S, R)[j]>> \in R
           /\ \A i, j \in 1..Cardinality(S) : InOrder(S, R)[i] = InOrder(S, R)[j] => i = j
           /\ \A x \in S : \E i \in 1..Cardinality(S) : InOrder(S, R)[i] = x
  <1> DEFINE s == InOrder(S, R)
             n == Cardinality(S)
             N == 1..n
  <1>1. n \in Nat
    BY FS_CardinalityType
  <1>2. IsEnumeration(s, S, R)
    <2>1. \E t : IsEnumeration(t, S, R)
      BY EnumerationExists
    <2>2. QED
      BY <2>1, Zenon DEF InOrder, IsEnumeration
  <1>3. s \in [N -> S] /\ \A i, j \in N : i < j => <<s[i], s[j]>> \in R
    BY <1>2 DEF IsEnumeration
  <1> HIDE DEF s
  <1>4. \A i, j \in N : s[i] = s[j] => i = j
    <2> SUFFICES ASSUME NEW i \in N, NEW j \in N, s[i] = s[j], i # j PROVE FALSE
      OBVIOUS
    <2>1. i < j \/ j < i
      BY <1>1
    <2>2. <<s[i], s[i]>> \in R /\ s[i] \in S
      BY <1>3, <2>1
    <2>3. QED
      BY <2>2 DEF Orders
  <1>5. IsFiniteSet(N) /\ Cardinality(N) = n
    <2>1. 1 \in Int /\ n \in Int
      BY <1>1
    <2> HIDE DEF n
    <2>2. IsFiniteSet(1..n) /\ Cardinality(1..n) = IF 1 > n THEN 0 ELSE n - 1 + 1
      BY ONLY <2>1, FS_Interval, Zenon
    <2>3. QED
      BY <1>1, <2>2
  <1>6. \A x \in S : \E i \in N : s[i] = x
    <2> HIDE DEF N
    <2>1. QED
      BY <1>3, <1>4, <1>5, OneToOneOnto
  <1>7. s \in Seq(S) /\ Len(s) = n
    <2> HIDE DEF n
    <2>1. QED
      BY <1>1, <1>3
  <1>8. QED
    BY <1>1, <1>3, <1>4, <1>6, <1>7 DEF s

LEMMA LessOrders ==
    ASSUME NEW K, K \subseteq Nat
    PROVE  Orders({p \in K \X K : p[1] < p[2]}, K)
  BY DEF Orders

\* The rows of s that are wanted are there once, and in the order of s.
Once(s) == \A i, j \in 1..Len(s) : s[i] = s[j] => i = j
Has(s, x) == \E i \in 1..Len(s) : s[i] = x
Embeds(q, s) ==
    \A i, j \in 1..Len(q) : i < j => \E k, l \in 1..Len(s) : k < l /\ s[k] = q[i] /\ s[l] = q[j]

LEMMA SelectedIs ==
    ASSUME NEW X, NEW s \in Seq(X), Once(s), NEW W
    PROVE  /\ Selected(s, W) \in Seq(X) /\ Once(Selected(s, W)) /\ Embeds(Selected(s, W), s)
           /\ \A x : Has(Selected(s, W), x) <=> Has(s, x) /\ x \in W
  <1> DEFINE K == {i \in 1..Len(s) : s[i] \in W}
             R == {p \in K \X K : p[1] < p[2]}
             t == InOrder(K, R)
             n == Cardinality(K)
             q == [i \in 1..n |-> s[t[i]]]
  <1>1. Selected(s, W) = q
    BY DEF Selected
  <1>2. IsFiniteSet(K)
    <2>1. 1 \in Int /\ Len(s) \in Int
      OBVIOUS
    <2>2. IsFiniteSet(1..Len(s))
      BY ONLY <2>1, FS_Interval, Zenon
    <2>3. K \in SUBSET (1..Len(s))
      OBVIOUS
    <2> HIDE DEF K
    <2>4. QED
      BY ONLY <2>2, <2>3, FS_Subset, Zenon
  <1>3. K \subseteq Nat /\ \A i \in K : i \in 1..Len(s) /\ s[i] \in W
    OBVIOUS
  <1>4. \A i \in 1..Len(s) : s[i] \in W => i \in K
    OBVIOUS
  <1> HIDE DEF K
  <1>5. Orders(R, K)
    BY <1>3, LessOrders
  <1>6. \A i, j : <<i, j>> \in R => i < j
    OBVIOUS
  <1> HIDE DEF R
  <1>7. /\ t \in [1..n -> K] /\ n \in Nat
        /\ \A i, j \in 1..n : i < j => <<t[i], t[j]>> \in R
        /\ \A i, j \in 1..n : t[i] = t[j] => i = j
        /\ \A k \in K : \E i \in 1..n : t[i] = k
    BY <1>2, <1>5, InOrderIs
  <1> HIDE DEF t, n
  <1>8. q \in [1..n -> X] /\ \A i \in 1..n : q[i] = s[t[i]]
    <2>1. \A i \in 1..n : t[i] \in 1..Len(s)
      BY <1>3, <1>7
    <2>2. \A i \in 1..n : s[t[i]] \in X
      BY <2>1
    <2>3. QED
      BY <2>2
  <1> HIDE DEF q
  <1>9. q \in Seq(X) /\ Len(q) = n
    BY <1>7, <1>8
  <1>10. Once(q)
    <2> SUFFICES ASSUME NEW i \in 1..n, NEW j \in 1..n, q[i] = q[j]
                 PROVE  i = j
      BY <1>9 DEF Once
    <2>1. t[i] \in 1..Len(s) /\ t[j] \in 1..Len(s) /\ s[t[i]] = s[t[j]]
      BY <1>3, <1>7, <1>8
    <2>2. t[i] = t[j]
      BY <2>1 DEF Once
    <2>3. QED
      BY <1>7, <2>2
  <1>11. Embeds(q, s)
    <2> SUFFICES ASSUME NEW i \in 1..n, NEW j \in 1..n, i < j
                 PROVE  \E k, l \in 1..Len(s) : k < l /\ s[k] = q[i] /\ s[l] = q[j]
      BY <1>9 DEF Embeds
    <2>1. t[i] \in 1..Len(s) /\ t[j] \in 1..Len(s) /\ t[i] < t[j]
      BY <1>3, <1>6, <1>7
    <2>2. QED
      BY <1>8, <2>1
  <1>12. ASSUME NEW x
         PROVE  Has(q, x) <=> Has(s, x) /\ x \in W
    <2>1. ASSUME Has(q, x)
          PROVE  Has(s, x) /\ x \in W
      <3>1. PICK i \in 1..n : q[i] = x
        BY <1>9, <2>1 DEF Has
      <3>2. t[i] \in 1..Len(s) /\ s[t[i]] = x /\ x \in W
        BY <1>3, <1>7, <1>8, <3>1
      <3>3. QED
        BY <3>2 DEF Has
    <2>2. ASSUME Has(s, x), x \in W
          PROVE  Has(q, x)
      <3>1. PICK k \in 1..Len(s) : s[k] = x
        BY <2>2 DEF Has
      <3>2. PICK i \in 1..n : t[i] = k
        BY <1>4, <1>7, <2>2, <3>1
      <3>3. q[i] = x
        BY <1>8, <3>1, <3>2
      <3>4. QED
        BY <1>9, <3>3 DEF Has
    <2>3. QED
      BY <2>1, <2>2
  <1>13. QED
    BY <1>1, <1>9, <1>10, <1>11, <1>12

\* A sequence in order has the elements of its set, once.
LEMMA Enumerates ==
    ASSUME NEW S, IsFiniteSet(S), NEW R, Orders(R, S)
    PROVE  /\ InOrder(S, R) \in Seq(S) /\ Once(InOrder(S, R))
           /\ \A x : Has(InOrder(S, R), x) <=> x \in S
           /\ \A i, j \in 1..Len(InOrder(S, R)) :
                i < j => <<InOrder(S, R)[i], InOrder(S, R)[j]>> \in R
  <1> DEFINE s == InOrder(S, R)
             n == Cardinality(S)
  <1>1. /\ s \in Seq(S) /\ Len(s) = n /\ s \in [1..n -> S]
        /\ \A i, j \in 1..n : i < j => <<s[i], s[j]>> \in R
        /\ \A i, j \in 1..n : s[i] = s[j] => i = j
        /\ \A x \in S : \E i \in 1..n : s[i] = x
    BY InOrderIs
  <1> HIDE DEF s, n
  <1>2. QED
    BY <1>1 DEF Once, Has, s

\* The elements of a part come in the order they have in the whole.
LEMMA PartEmbeds ==
    ASSUME NEW S, IsFiniteSet(S), NEW T \in SUBSET S, NEW R, Orders(R, S), NEW Q, Orders(Q, T),
           \A x, y \in T : <<x, y>> \in Q => <<x, y>> \in R
    PROVE  Embeds(InOrder(T, Q), InOrder(S, R))
  <1> DEFINE s == InOrder(S, R)
             t == InOrder(T, Q)
  <1>1. IsFiniteSet(T)
    BY FS_Subset
  <1>2. /\ s \in Seq(S) /\ (\A x : Has(s, x) <=> x \in S)
        /\ \A i, j \in 1..Len(s) : i < j => <<s[i], s[j]>> \in R
    BY Enumerates
  <1>3. /\ t \in Seq(T) /\ (\A x : Has(t, x) <=> x \in T)
        /\ \A i, j \in 1..Len(t) : i < j => <<t[i], t[j]>> \in Q
    BY <1>1, Enumerates
  <1> HIDE DEF s, t
  <1>4. ASSUME NEW i \in 1..Len(t), NEW j \in 1..Len(t), i < j
        PROVE  \E k, l \in 1..Len(s) : k < l /\ s[k] = t[i] /\ s[l] = t[j]
    <2>1. t[i] \in T /\ t[j] \in T /\ <<t[i], t[j]>> \in Q
      BY <1>3, <1>4
    <2>2. t[i] \in S /\ t[j] \in S /\ <<t[i], t[j]>> \in R
      BY <2>1
    <2>3. PICK k \in 1..Len(s) : s[k] = t[i]
      BY <1>2, <2>2 DEF Has
    <2>4. PICK l \in 1..Len(s) : s[l] = t[j]
      BY <1>2, <2>2 DEF Has
    <2>5. k # l
      BY <2>2, <2>3, <2>4 DEF Orders
    <2>6. ~(l < k)
      <3>1. SUFFICES ASSUME l < k PROVE FALSE
        OBVIOUS
      <3>2. <<t[j], t[i]>> \in R
        BY <1>2, <2>3, <2>4, <3>1
      <3>3. <<t[i], t[i]>> \in R
        BY <2>2, <3>2 DEF Orders
      <3>4. QED
        BY <2>2, <3>3 DEF Orders
    <2>7. k < l
      BY <1>2, <2>5, <2>6
    <2>8. QED
      BY <2>3, <2>4, <2>7
  <1>5. QED
    BY <1>4 DEF Embeds, s, t

-----------------------------------------------------------------------------
(* The orders of the sections *)

LEMMA EventFields ==
    ASSUME NEW e \in Events
    PROVE  /\ e.id \in Nat /\ e.time \in Nat \cup {None} /\ e.msg \in Nat \cup {None}
           /\ e.epoch \in Nat \cup {None}
  BY EvidenceAssumption DEF EventOK

LEMMA SameId ==
    ASSUME NEW d \in Events, NEW e \in Events, d.id = e.id
    PROVE  d = e
  BY EvidenceAssumption

LEMMA FiniteEvents ==
    ASSUME NEW E \in SUBSET Events
    PROVE  IsFiniteSet(E)
  BY EvidenceAssumption, FS_Subset

IdRelation(S) == {p \in S \X S : p[1].id < p[2].id}

LEMMA IdOrders ==
    ASSUME NEW S \in SUBSET Events
    PROVE  Orders(IdRelation(S), S)
  <1>1. \A x, y \in S : <<x, y>> \in IdRelation(S) <=> x.id < y.id
    BY DEF IdRelation
  <1>2. \A x \in S : x.id \in Nat
    BY EventFields
  <1>3. \A x, y \in S : x.id = y.id => x = y
    BY SameId
  <1>4. QED
    BY <1>1, <1>2, <1>3 DEF Orders

\* First by a key that may be NULL, then by a number that is nobody else's.
LEMMA TwoKeysOrder ==
    ASSUME NEW S, NEW R, NEW key, NEW num,
           \A x \in S : key[x] \in Nat \cup {None} /\ num[x] \in Nat,
           \A x, y \in S : num[x] = num[y] => x = y,
           \A x, y \in S : <<x, y>> \in R <=>
                Earlier(key[x], key[y]) \/ (key[x] = key[y] /\ num[x] < num[y])
    PROVE  Orders(R, S)
  <1>1. \A x \in S : <<x, x>> \notin R
    BY DEF Earlier
  <1>2. ASSUME NEW x \in S, NEW y \in S, NEW z \in S, <<x, y>> \in R, <<y, z>> \in R
        PROVE  <<x, z>> \in R
    BY <1>2 DEF Earlier
  <1>3. ASSUME NEW x \in S, NEW y \in S
        PROVE  x = y \/ <<x, y>> \in R \/ <<y, x>> \in R
    BY DEF Earlier
  <1>4. QED
    BY <1>1, <1>2, <1>3 DEF Orders

EpochRelation(S) ==
    {p \in S \X S : \/ Earlier(p[1].epoch, p[2].epoch)
                    \/ p[1].epoch = p[2].epoch /\ p[1].id < p[2].id}

LEMMA EpochOrders ==
    ASSUME NEW S \in SUBSET Events
    PROVE  Orders(EpochRelation(S), S)
  <1> DEFINE key == [x \in S |-> x.epoch]
             num == [x \in S |-> x.id]
             R == EpochRelation(S)
  <1>1. \A x \in S : key[x] \in Nat \cup {None} /\ num[x] \in Nat
    BY EventFields
  <1>2. \A x, y \in S : num[x] = num[y] => x = y
    BY SameId
  <1>3. \A x, y \in S : <<x, y>> \in R <=>
            Earlier(key[x], key[y]) \/ (key[x] = key[y] /\ num[x] < num[y])
    BY DEF EpochRelation
  <1> HIDE DEF key, num, R
  <1>4. Orders(R, S)
    BY <1>1, <1>2, <1>3, TwoKeysOrder
  <1>5. QED
    BY <1>4 DEF R

SeenRelation(E, S) ==
    {p \in S \X S : \/ Earlier(first_seen(E, p[1]), first_seen(E, p[2]))
                    \/ first_seen(E, p[1]) = first_seen(E, p[2]) /\ p[1] < p[2]}

LEMMA LeastIsIn ==
    ASSUME NEW T, T \subseteq Nat, T # {}
    PROVE  Min(T) \in T /\ \A t \in T : Min(T) <= t
  <1>1. \E m \in T : \A t \in T : m <= t
    BY LeastNumber
  <1>2. QED
    BY <1>1 DEF Min

LEMMA SeenOrders ==
    ASSUME NEW E \in SUBSET Events, NEW S \in SUBSET Artifacts(E)
    PROVE  Orders(SeenRelation(E, S), S)
  <1> DEFINE key == [m \in S |-> first_seen(E, m)]
             num == [m \in S |-> m]
             R == SeenRelation(E, S)
  <1>1. \A m \in S : m \in Nat
    BY EventFields DEF Artifacts
  <1>2. ASSUME NEW m \in S
        PROVE  first_seen(E, m) \in Nat \cup {None}
    <2> DEFINE T == Times(Naming(E, m))
    <2>1. T \subseteq Nat
      BY EventFields DEF Times, Naming
    <2> HIDE DEF T
    <2>2. CASE T = {}
      BY <2>2 DEF first_seen, T
    <2>3. CASE T # {}
      <3>1. Min(T) \in T
        BY <2>1, <2>3, LeastIsIn
      <3>2. first_seen(E, m) = Min(T)
        BY <2>3 DEF first_seen, T
      <3>3. QED
        BY <2>1, <3>1, <3>2
    <2>4. QED
      BY <2>2, <2>3
  <1>3. \A x \in S : key[x] \in Nat \cup {None} /\ num[x] \in Nat
    BY <1>1, <1>2
  <1>4. \A x, y \in S : num[x] = num[y] => x = y
    OBVIOUS
  <1>5. \A x, y \in S : <<x, y>> \in R <=>
            Earlier(key[x], key[y]) \/ (key[x] = key[y] /\ num[x] < num[y])
    BY DEF SeenRelation
  <1> HIDE DEF key, num, R
  <1>6. Orders(R, S)
    BY <1>3, <1>4, <1>5, TwoKeysOrder
  <1>7. QED
    BY <1>6 DEF R

FirstIdRelation(G) == {p \in G \X G : FirstId(p[1]) < FirstId(p[2])}

\* Groups of events that have no event in common start at different ids.
Apart(G) ==
    /\ \A g \in G : g \in SUBSET Events /\ g # {}
    /\ \A g, h \in G : g = h \/ g \cap h = {}

LEMMA FirstIds ==
    ASSUME NEW G, Apart(G)
    PROVE  /\ \A g \in G : FirstId(g) \in Nat
           /\ \A g, h \in G : FirstId(g) = FirstId(h) => g = h
           /\ Orders(FirstIdRelation(G), G)
  <1>1. \A g \in G : FirstId(g) \in Nat /\ \E e \in g : FirstId(g) = e.id
    <2> SUFFICES ASSUME NEW g \in G
                 PROVE  FirstId(g) \in Nat /\ \E e \in g : FirstId(g) = e.id
      OBVIOUS
    <2> DEFINE T == {e.id : e \in g}
    <2>1. T \subseteq Nat /\ T # {}
      BY EventFields DEF Apart
    <2>2. \A t \in T : \E e \in g : t = e.id
      OBVIOUS
    <2> HIDE DEF T
    <2>3. Min(T) \in T
      BY <2>1, LeastIsIn
    <2>4. FirstId(g) = Min(T)
      BY DEF FirstId, T
    <2>5. QED
      BY <2>1, <2>2, <2>3, <2>4
  <1>2. ASSUME NEW g \in G, NEW h \in G, FirstId(g) = FirstId(h)
        PROVE  g = h
    <2>1. PICK d \in g : FirstId(g) = d.id
      BY <1>1
    <2>2. PICK e \in h : FirstId(h) = e.id
      BY <1>1
    <2>3. d = e
      BY <1>2, <2>1, <2>2, SameId DEF Apart
    <2>4. QED
      BY <2>3 DEF Apart
  <1>3. \A g, h \in G : <<g, h>> \in FirstIdRelation(G) <=> FirstId(g) < FirstId(h)
    BY DEF FirstIdRelation
  <1>4. Orders(FirstIdRelation(G), G)
    BY <1>1, <1>2, <1>3 DEF Orders
  <1>5. QED
    BY <1>1, <1>2, <1>4

LEMMA RunsApart ==
    ASSUME NEW E \in SUBSET Events
    PROVE  Apart(Runs(E))
  BY DEF Apart, Runs

LEMMA GroupsApart ==
    ASSUME NEW A \in SUBSET Events
    PROVE  Apart(human_action_groups(A))
  <1>1. ASSUME NEW g \in human_action_groups(A)
        PROVE  \E e \in A : g = {d \in A : IF e.op # None THEN d.op = e.op ELSE d = e}
    BY DEF human_action_groups
  <1>2. ASSUME NEW g \in human_action_groups(A)
        PROVE  g \in SUBSET Events /\ g # {}
    <2>1. PICK e \in A : g = {d \in A : IF e.op # None THEN d.op = e.op ELSE d = e}
      BY <1>1
    <2>2. e \in g
      BY <2>1
    <2>3. QED
      BY <2>1, <2>2
  <1>3. ASSUME NEW g \in human_action_groups(A), NEW h \in human_action_groups(A), g \cap h # {}
        PROVE  g = h
    <2>1. PICK x \in A : g = {d \in A : IF x.op # None THEN d.op = x.op ELSE d = x}
      BY <1>1
    <2>2. PICK y \in A : h = {d \in A : IF y.op # None THEN d.op = y.op ELSE d = y}
      BY <1>1
    <2>3. PICK z \in A : z \in g /\ z \in h
      BY <1>3, <2>1
    <2>4. CASE z.op = None
      <3>1. z = x /\ z = y
        BY <2>1, <2>2, <2>3, <2>4
      <3>2. QED
        BY <2>1, <2>2, <3>1
    <2>5. CASE z.op # None
      <3>1. x.op = z.op /\ y.op = z.op
        BY <2>1, <2>2, <2>3, <2>5
      <3>2. g = {d \in A : d.op = z.op} /\ h = {d \in A : d.op = z.op}
        BY <2>1, <2>2, <2>5, <3>1
      <3>3. QED
        BY <3>2
    <2>6. QED
      BY <2>4, <2>5
  <1>4. QED
    BY <1>2, <1>3 DEF Apart

-----------------------------------------------------------------------------
(* The rows of a section *)

\* The rows of a section are a sequence that repeats none of them.
Listed(r) == (\E X : r \in Seq(X)) /\ Once(r)

LEMMA ListedById ==
    ASSUME NEW S \in SUBSET Events
    PROVE  Listed(ById(S))
  <1>1. IsFiniteSet(S) /\ Orders(IdRelation(S), S)
    BY FiniteEvents, IdOrders
  <1>2. InOrder(S, IdRelation(S)) \in Seq(S) /\ Once(InOrder(S, IdRelation(S)))
    BY ONLY <1>1, Enumerates, Zenon
  <1>3. ById(S) = InOrder(S, IdRelation(S))
    BY DEF ById, IdRelation
  <1>4. QED
    BY <1>2, <1>3, Zenon DEF Listed

LEMMA ListedByEpoch ==
    ASSUME NEW S \in SUBSET Events
    PROVE  Listed(ByEpoch(S))
  <1>1. IsFiniteSet(S) /\ Orders(EpochRelation(S), S)
    BY FiniteEvents, EpochOrders
  <1>2. InOrder(S, EpochRelation(S)) \in Seq(S) /\ Once(InOrder(S, EpochRelation(S)))
    BY ONLY <1>1, Enumerates, Zenon
  <1>3. ByEpoch(S) = InOrder(S, EpochRelation(S))
    BY DEF ByEpoch, EpochRelation
  <1>4. QED
    BY <1>2, <1>3, Zenon DEF Listed

LEMMA FiniteArtifacts ==
    ASSUME NEW E \in SUBSET Events
    PROVE  IsFiniteSet(Artifacts(E))
  <1>1. IsFiniteSet(E)
    BY FiniteEvents
  <1> DEFINE f == [e \in E |-> e.msg]
             T == {f[e] : e \in E}
  <1>2. Artifacts(E) \in SUBSET T
    BY DEF Artifacts
  <1>2a. f \in [E -> T] /\ \A t \in T : \E e \in E : f[e] = t
    OBVIOUS
  <1> HIDE DEF f, T
  <1>3. IsFiniteSet(T)
    BY <1>1, <1>2a, Onto
  <1>4. QED
    BY ONLY <1>2, <1>3, FS_Subset, Zenon

LEMMA ListedArtifacts ==
    ASSUME NEW E \in SUBSET Events, NEW S \in SUBSET Artifacts(E)
    PROVE  Listed(ArtifactOrder(E, S))
  <1>1. IsFiniteSet(S)
    BY ONLY FiniteArtifacts, E \in SUBSET Events, S \in SUBSET Artifacts(E), FS_Subset, Zenon
  <1>2. Orders(SeenRelation(E, S), S)
    BY SeenOrders
  <1>3. InOrder(S, SeenRelation(E, S)) \in Seq(S) /\ Once(InOrder(S, SeenRelation(E, S)))
    BY ONLY <1>1, <1>2, Enumerates, Zenon
  <1>4. ArtifactOrder(E, S) = InOrder(S, SeenRelation(E, S))
    BY DEF ArtifactOrder, SeenRelation
  <1>5. QED
    BY <1>3, <1>4, Zenon DEF Listed

\* Sets of a finite group's events are finitely many.
LEMMA FiniteGroups ==
    ASSUME NEW E \in SUBSET Events, NEW G, \A g \in G : g \in SUBSET E
    PROVE  IsFiniteSet(G)
  <1>1. IsFiniteSet(SUBSET E)
    BY FiniteEvents, FS_SUBSET
  <1>2. G \in SUBSET (SUBSET E)
    OBVIOUS
  <1>3. QED
    BY ONLY <1>1, <1>2, FS_Subset, Zenon

LEMMA ListedByFirstId ==
    ASSUME NEW E \in SUBSET Events, NEW G, \A g \in G : g \in SUBSET E, Apart(G)
    PROVE  /\ Listed(ByFirstId(G))
           /\ \A x : Has(ByFirstId(G), x) <=> x \in G
  <1>1. IsFiniteSet(G) /\ Orders(FirstIdRelation(G), G)
    BY FiniteGroups, FirstIds
  <1>2. /\ InOrder(G, FirstIdRelation(G)) \in Seq(G) /\ Once(InOrder(G, FirstIdRelation(G)))
        /\ \A x : Has(InOrder(G, FirstIdRelation(G)), x) <=> x \in G
    BY ONLY <1>1, Enumerates, Zenon
  <1>3. ByFirstId(G) = InOrder(G, FirstIdRelation(G))
    BY DEF ByFirstId, FirstIdRelation
  <1>4. QED
    BY <1>2, <1>3, Zenon DEF Listed

\* Fewer groups come in the order they have among all.
LEMMA GroupsEmbed ==
    ASSUME NEW E \in SUBSET Events, NEW G, \A g \in G : g \in SUBSET E, Apart(G),
           NEW H \in SUBSET G
    PROVE  Embeds(ByFirstId(H), ByFirstId(G))
  <1>1. Apart(H)
    BY DEF Apart
  <1>2. IsFiniteSet(G) /\ Orders(FirstIdRelation(G), G) /\ Orders(FirstIdRelation(H), H)
    BY <1>1, FiniteGroups, FirstIds
  <1>3. \A x, y \in H : <<x, y>> \in FirstIdRelation(H) => <<x, y>> \in FirstIdRelation(G)
    BY DEF FirstIdRelation
  <1>4. Embeds(InOrder(H, FirstIdRelation(H)), InOrder(G, FirstIdRelation(G)))
    BY ONLY <1>2, <1>3, H \in SUBSET G, PartEmbeds, Zenon
  <1>5. QED
    BY <1>4 DEF ByFirstId, FirstIdRelation

\* The groups an action section lists when its severity filter is v.
KindGroups(E, f, kind, v) ==
    {g \in human_action_groups({e \in action_window(E, f) : Given(f.message, e.msg)}) :
        Given(v, GroupSeverity(g)) /\ action_attribution_kind(g) = kind}

LEMMA KindGroupsApart ==
    ASSUME NEW E \in SUBSET Events, NEW f, NEW kind, NEW v
    PROVE  /\ Apart(KindGroups(E, f, kind, v))
           /\ \A g \in KindGroups(E, f, kind, v) : g \in SUBSET E
  <1> DEFINE A == {e \in action_window(E, f) : Given(f.message, e.msg)}
  <1>1. A \in SUBSET E
    BY DEF action_window, filtered_action_events
  <1>2. A \in SUBSET Events
    BY <1>1
  <1>3. KindGroups(E, f, kind, v) \subseteq human_action_groups(A)
    BY DEF KindGroups
  <1> HIDE DEF A
  <1>4. Apart(human_action_groups(A))
    BY <1>2, GroupsApart
  <1>5. \A g \in human_action_groups(A) : g \in SUBSET E
    BY <1>1 DEF human_action_groups
  <1>6. QED
    BY <1>3, <1>4, <1>5 DEF Apart

LEMMA RunsListed ==
    ASSUME NEW E \in SUBSET Events, NEW f
    PROVE  Listed(api_group_convergence_runs(E, f))
  <1> DEFINE G == {r \in filtered_convergence_runs(E, f) : convergence_payload_matches_filters(r, f)}
  <1>1. G \subseteq Runs(E)
    BY DEF filtered_convergence_runs
  <1>2. \A r \in Runs(E) : r \in SUBSET E
    BY DEF Runs
  <1>3. Apart(Runs(E))
    BY RunsApart
  <1>4. api_group_convergence_runs(E, f) = ByFirstId(G)
    BY DEF api_group_convergence_runs
  <1> HIDE DEF G
  <1>5. Apart(G) /\ \A r \in G : r \in SUBSET E
    BY <1>1, <1>2, <1>3 DEF Apart
  <1>6. QED
    BY <1>4, <1>5, ListedByFirstId

LEMMA RowsListed ==
    ASSUME NEW E \in SUBSET Events, NEW D, NEW s \in Sections, NEW f
    PROVE  Listed(Rows(E, D, s, f))
  <1>1. CASE s = "delivery"
    <2>1. WantedArtifacts(E, D, f) \in SUBSET Artifacts(E)
      BY DEF WantedArtifacts
    <2>2. Rows(E, D, s, f) = ArtifactOrder(E, WantedArtifacts(E, D, f))
      BY <1>1 DEF Rows, ActionKinds, filtered_delivery_artifacts
    <2>3. QED
      BY <2>1, <2>2, ListedArtifacts
  <1>2. CASE s = "network"
    <2>1. filtered_network_observations(E, f) \in SUBSET Events
      BY DEF filtered_network_observations
    <2>2. Rows(E, D, s, f) = ById(filtered_network_observations(E, f))
      BY <1>2 DEF Rows, ActionKinds, api_group_network
    <2>3. QED
      BY <2>1, <2>2, ListedById
  <1>3. CASE s = "convergence"
    <2>1. Rows(E, D, s, f) = api_group_convergence_runs(E, f)
      BY <1>3 DEF Rows, ActionKinds
    <2>2. QED
      BY <2>1, RunsListed
  <1>4. CASE s = "state"
    <2>1. filtered_state_deltas(E, f) \in SUBSET Events
      BY DEF filtered_state_deltas
    <2>2. Rows(E, D, s, f) = ByEpoch(filtered_state_deltas(E, f))
      BY <1>4 DEF Rows, ActionKinds, api_group_state
    <2>3. QED
      BY <2>1, <2>2, ListedByEpoch
  <1>5. CASE s = "transition"
    <2>1. filtered_epoch_transitions(E, f) \in SUBSET Events
      BY DEF filtered_epoch_transitions
    <2>2. Rows(E, D, s, f) = ById(filtered_epoch_transitions(E, f))
      BY <1>5 DEF Rows, ActionKinds
    <2>3. QED
      BY <2>1, <2>2, ListedById
  <1>6. CASE s = "mode"
    <2>1. filtered_audit_data_mode_changes(E, f) \in SUBSET Events
      BY DEF filtered_audit_data_mode_changes
    <2>2. Rows(E, D, s, f) = ById(filtered_audit_data_mode_changes(E, f))
      BY <1>6 DEF Rows, ActionKinds
    <2>3. QED
      BY <2>1, <2>2, ListedById
  <1>7. CASE s = "evidence"
    <2>1. filtered_evidence_events(E, f) \in SUBSET Events
      BY DEF filtered_evidence_events
    <2>2. Rows(E, D, s, f) = ById(filtered_evidence_events(E, f))
      BY <1>7 DEF Rows, ActionKinds, api_group_evidence
    <2>3. QED
      BY <2>1, <2>2, ListedById
  <1>8. CASE s \in ActionKinds
    <2>1. Rows(E, D, s, f) = action_groups_for_api(E, f, s)
      BY <1>8 DEF Rows, ActionKinds
    <2>2. action_groups_for_api(E, f, s) = ByFirstId(KindGroups(E, f, s, f.severity))
      BY DEF action_groups_for_api, KindGroups
    <2>3. QED
      <3>1. /\ Apart(KindGroups(E, f, s, f.severity))
            /\ \A g \in KindGroups(E, f, s, f.severity) : g \in SUBSET E
        BY KindGroupsApart
      <3>2. Listed(ByFirstId(KindGroups(E, f, s, f.severity)))
        BY ONLY E \in SUBSET Events, <3>1, ListedByFirstId, Zenon
      <3>3. QED
        BY <2>1, <2>2, <3>2
  <1>9. QED
    BY <1>1, <1>2, <1>3, <1>4, <1>5, <1>6, <1>7, <1>8 DEF Sections

\* f asks for what g asks for, but for the severity.
AsksAlike(f, g) ==
    /\ f.engine = g.engine /\ f.account = g.account /\ f.message = g.message
    /\ f.type = g.type /\ f.epoch = g.epoch /\ f.from = g.from /\ f.to = g.to

\* The severity filter is the business of the payloads, but for action groups.
LEMMA SeverityUnread ==
    ASSUME NEW E, NEW D, NEW s \in Sections \ ActionKinds, NEW f, NEW g, AsksAlike(f, g)
    PROVE  Rows(E, D, s, f) = Rows(E, D, s, g)
  <1> USE DEF AsksAlike
  <1>1. \A e : Subject(e, f) = Subject(e, g) /\ InWindow(e, f) = InWindow(e, g)
    BY DEF Subject, InWindow
  <1>2. filtered_network_observations(E, f) = filtered_network_observations(E, g)
    BY <1>1 DEF filtered_network_observations
  <1>3. filtered_state_deltas(E, f) = filtered_state_deltas(E, g)
    BY <1>1 DEF filtered_state_deltas
  <1>4. filtered_epoch_transitions(E, f) = filtered_epoch_transitions(E, g)
    BY <1>1 DEF filtered_epoch_transitions
  <1>5. filtered_audit_data_mode_changes(E, f) = filtered_audit_data_mode_changes(E, g)
    BY <1>1 DEF filtered_audit_data_mode_changes
  <1>6. filtered_evidence_events(E, f) = filtered_evidence_events(E, g)
    BY <1>1 DEF filtered_evidence_events
  <1>7. \A m : Joins(E, D, m, f) = Joins(E, D, m, g)
    BY DEF Joins
  <1>8. WantedArtifacts(E, D, f) = WantedArtifacts(E, D, g)
    BY <1>7 DEF WantedArtifacts
  <1>9. filtered_convergence_runs(E, f) = filtered_convergence_runs(E, g)
    BY <1>1 DEF filtered_convergence_runs
  <1>10. \A r : convergence_payload_matches_filters(r, f) = convergence_payload_matches_filters(r, g)
    BY DEF convergence_payload_matches_filters
  <1>11. api_group_convergence_runs(E, f) = api_group_convergence_runs(E, g)
    BY <1>9, <1>10 DEF api_group_convergence_runs
  <1>12. QED
    BY <1>2, <1>3, <1>4, <1>5, <1>6, <1>8, <1>11
    DEF Rows, Sections, ActionKinds, filtered_delivery_artifacts, api_group_network,
        api_group_state, api_group_evidence

LEMMA WindowAlike ==
    ASSUME NEW E, NEW f, NEW g, AsksAlike(f, g)
    PROVE  action_window(E, f) = action_window(E, g)
  <1> USE DEF AsksAlike
  <1>1. \A e : Subject(e, f) = Subject(e, g) /\ InWindow(e, f) = InWindow(e, g)
    BY DEF Subject, InWindow
  <1>2. filtered_action_events(E, f) = filtered_action_events(E, g)
    BY <1>1 DEF filtered_action_events
  <1>3. QED
    BY <1>2 DEF action_window

\* The rows a filter leaves are those it leaves without a severity, in that order,
\* and every row of the wanted severity is among them.
LEMMA RowsAmong ==
    ASSUME NEW E \in SUBSET Events, NEW D, NEW s \in Sections, NEW f, NEW g,
           AsksAlike(f, g), g.severity = None
    PROVE  /\ Embeds(Rows(E, D, s, f), Rows(E, D, s, g))
           /\ \A x : Has(Rows(E, D, s, f), x) => Has(Rows(E, D, s, g), x)
           /\ \A x : Has(Rows(E, D, s, g), x) /\ Given(f.severity, Severity(E, D, s, x)) =>
                Has(Rows(E, D, s, f), x)
  <1>1. CASE s \notin ActionKinds
    <2>1. Rows(E, D, s, f) = Rows(E, D, s, g)
      BY <1>1, SeverityUnread
    <2>2. Embeds(Rows(E, D, s, f), Rows(E, D, s, f))
      BY DEF Embeds
    <2>3. QED
      BY <2>1, <2>2
  <1>2. CASE s \in ActionKinds
    <2> DEFINE G == KindGroups(E, g, s, None)
               H == KindGroups(E, f, s, f.severity)
    <2>1. action_window(E, f) = action_window(E, g) /\ f.message = g.message
      BY WindowAlike DEF AsksAlike
    <2>2. H \in SUBSET G
      BY <2>1 DEF KindGroups, Given
    <2>3. \A x \in G : Given(f.severity, GroupSeverity(x)) => x \in H
      BY <2>1 DEF KindGroups
    <2>4. Apart(G) /\ \A x \in G : x \in SUBSET E
      BY KindGroupsApart
    <2>5. Apart(H) /\ \A x \in H : x \in SUBSET E
      BY KindGroupsApart
    <2>6. Rows(E, D, s, f) = ByFirstId(H)
      BY <1>2 DEF Rows, ActionKinds, action_groups_for_api, KindGroups
    <2>7. Rows(E, D, s, g) = ByFirstId(G)
      BY <1>2 DEF Rows, ActionKinds, action_groups_for_api, KindGroups
    <2>8. \A x : Severity(E, D, s, x) = GroupSeverity(x)
      BY <1>2 DEF Severity, ActionKinds
    <2> HIDE DEF G, H
    <2>9. Embeds(ByFirstId(H), ByFirstId(G))
      BY <2>2, <2>4, GroupsEmbed
    <2>10. \A x : Has(ByFirstId(H), x) <=> x \in H
      BY <2>5, ListedByFirstId
    <2>11. \A x : Has(ByFirstId(G), x) <=> x \in G
      BY <2>4, ListedByFirstId
    <2>12. QED
      BY <2>2, <2>3, <2>6, <2>7, <2>8, <2>9, <2>10, <2>11
  <1>3. QED
    BY <1>1, <1>2

LEMMA EmbedsThrough ==
    ASSUME NEW p, NEW q, NEW r, Len(q) \in Nat, Len(r) \in Nat, Once(q), Embeds(p, q), Embeds(q, r)
    PROVE  Embeds(p, r)
  <1> SUFFICES ASSUME NEW i \in 1..Len(p), NEW j \in 1..Len(p), i < j
               PROVE  \E k, l \in 1..Len(r) : k < l /\ r[k] = p[i] /\ r[l] = p[j]
    BY DEF Embeds
  <1>1. PICK k \in 1..Len(q), l \in 1..Len(q) : k < l /\ q[k] = p[i] /\ q[l] = p[j]
    BY DEF Embeds
  <1>2. PICK a \in 1..Len(r), b \in 1..Len(r) : a < b /\ r[a] = q[k] /\ r[b] = q[l]
    BY <1>1 DEF Embeds
  <1>3. QED
    BY <1>1, <1>2

\* What the pages are cut from: the wanted rows, once, in the section's order.
LEMMA PayloadsAre ==
    ASSUME NEW E \in SUBSET Events, NEW D, NEW s \in Sections, NEW f, NEW g,
           AsksAlike(f, g), g.severity = None
    PROVE  LET q == Payloads(E, D, s, f)
               rows == Rows(E, D, s, g)
           IN /\ Listed(q) /\ Embeds(q, rows)
              /\ \A x : Has(q, x) <=> Has(rows, x) /\ Given(f.severity, Severity(E, D, s, x))
  <1> DEFINE r == Rows(E, D, s, f)
             W == {x \in ToSet(r) : Given(f.severity, Severity(E, D, s, x))}
             rows == Rows(E, D, s, g)
             q == Payloads(E, D, s, f)
  <1>1. Listed(r) /\ Listed(rows)
    BY RowsListed
  <1>2. q = Selected(r, W)
    BY DEF Payloads
  <1>3. /\ Embeds(r, rows)
        /\ \A x : Has(r, x) => Has(rows, x)
        /\ \A x : Has(rows, x) /\ Given(f.severity, Severity(E, D, s, x)) => Has(r, x)
    BY RowsAmong
  <1>4. PICK X : r \in Seq(X)
    BY <1>1 DEF Listed
  <1>5. \A x : Has(r, x) => x \in ToSet(r)
    BY <1>4 DEF Has, ToSet
  <1>6. \A x : x \in W => Given(f.severity, Severity(E, D, s, x))
    OBVIOUS
  <1>7. \A x : Has(r, x) /\ Given(f.severity, Severity(E, D, s, x)) => x \in W
    BY <1>5
  <1> HIDE DEF r, W, q, rows
  <1>8. /\ Selected(r, W) \in Seq(X) /\ Once(Selected(r, W)) /\ Embeds(Selected(r, W), r)
        /\ \A x : Has(Selected(r, W), x) <=> Has(r, x) /\ x \in W
    BY <1>1, <1>4, SelectedIs DEF Listed
  <1>9. Listed(q)
    BY <1>2, <1>8 DEF Listed
  <1>10. PICK Y : rows \in Seq(Y)
    BY <1>1 DEF Listed
  <1>11. Len(r) \in Nat /\ Len(rows) \in Nat
    BY <1>4, <1>10
  <1>12. Embeds(q, rows)
    BY <1>1, <1>2, <1>3, <1>8, <1>11, EmbedsThrough DEF Listed
  <1>13. \A x : Has(q, x) <=> Has(rows, x) /\ Given(f.severity, Severity(E, D, s, x))
    BY <1>2, <1>3, <1>6, <1>7, <1>8
  <1>14. QED
    BY <1>9, <1>12, <1>13 DEF q, rows

-----------------------------------------------------------------------------
(* A walk through the pages *)

\* What a walk has got is what comes before its offset; it ends at the end.
Walking ==
    LET q == Payloads(Group, observations, walk.section, walk.filter) IN
    /\ DOMAIN walk = DOMAIN NoWalk
    /\ walk.section \in Sections /\ walk.filter \in Filters /\ walk.limit \in Limits
    /\ walk.offset \in 0..Len(q) /\ walk.got = SubSeq(q, 1, walk.offset)
    /\ ~walk.more \/ walk.empty => walk.offset = Len(q)

WalkInv == walk = NoWalk \/ Walking

LEMMA Cut ==
    ASSUME NEW X, NEW q \in Seq(X), NEW o \in 0..Len(q), NEW m \in o..Len(q)
    PROVE  /\ SubSeq(q, 1, o) \o SubSeq(q, o + 1, m) = SubSeq(q, 1, m)
           /\ Len(SubSeq(q, o + 1, m)) = m - o
  <1>1. Len(q) \in Nat
    OBVIOUS
  <1>2. o \in Nat /\ m \in Nat /\ o <= m /\ m <= Len(q)
    BY <1>1
  <1> DEFINE a == SubSeq(q, 1, o)
             b == SubSeq(q, o + 1, m)
             c == SubSeq(q, 1, m)
  <1>3. a \in Seq(X) /\ Len(a) = o /\ \A i \in 1..o : a[i] = q[i]
    BY <1>1, <1>2
  <1>4. b \in Seq(X) /\ Len(b) = m - o /\ \A i \in 1..(m - o) : b[i] = q[o + i]
    BY <1>1, <1>2
  <1>5. c \in Seq(X) /\ Len(c) = m /\ \A i \in 1..m : c[i] = q[i]
    BY <1>1, <1>2
  <1> HIDE DEF a, b, c
  <1>6. a \o b \in Seq(X) /\ Len(a \o b) = m
    BY <1>2, <1>3, <1>4
  <1>7. ASSUME NEW i \in 1..m
        PROVE  (a \o b)[i] = c[i]
    <2> i \in 1..Len(a) + Len(b)
      BY <1>2, <1>3, <1>4
    <2>0. (a \o b)[i] = IF i <= Len(a) THEN a[i] ELSE b[i - Len(a)]
      BY <1>3, <1>4
    <2>1. CASE i <= o
      <3>1. i \in 1..o
        BY <1>2, <2>1
      <3>2. QED
        BY <1>3, <1>5, <2>1, <2>0, <3>1
    <2>2. CASE i > o
      <3>1. (a \o b)[i] = b[i - o]
        BY <1>2, <1>3, <2>2, <2>0
      <3>2. i - o \in 1..(m - o) /\ o + (i - o) = i
        BY <1>2, <2>2
      <3>3. QED
        BY <1>4, <1>5, <3>1, <3>2
    <2>3. QED
      BY <1>2, <2>1, <2>2
  <1>8. a \o b = c
    BY <1>2, <1>5, <1>6, <1>7
  <1>9. QED
    BY <1>4, <1>8 DEF a, b, c

LEMMA LesserOf ==
    ASSUME NEW a \in Nat, NEW b \in Nat
    PROVE  /\ Min({a, b}) \in Nat /\ Min({a, b}) \in {a, b}
           /\ Min({a, b}) <= a /\ Min({a, b}) <= b
  <1>1. {a, b} \subseteq Nat /\ {a, b} # {}
    OBVIOUS
  <1>2. Min({a, b}) \in {a, b} /\ \A t \in {a, b} : Min({a, b}) <= t
    BY <1>1, LeastIsIn
  <1>3. QED
    BY <1>2

LEMMA PayloadsListed ==
    ASSUME NEW E \in SUBSET Events, NEW D, NEW s \in Sections, NEW f
    PROVE  \E X : Payloads(E, D, s, f) \in Seq(X)
  <1> DEFINE r == Rows(E, D, s, f)
             W == {x \in ToSet(r) : Given(f.severity, Severity(E, D, s, x))}
  <1>1. Listed(r)
    BY RowsListed
  <1>2. Payloads(E, D, s, f) = Selected(r, W)
    BY DEF Payloads
  <1> HIDE DEF r, W
  <1>3. PICK X : r \in Seq(X)
    BY <1>1 DEF Listed
  <1>4. Selected(r, W) \in Seq(X)
    BY <1>1, <1>3, SelectedIs DEF Listed
  <1>5. QED
    BY <1>2, <1>4

LEMMA GroupEvents ==
    ASSUME GroupInv
    PROVE  Group \in SUBSET Events
  BY StoredEvents DEF GroupInv, Group

\* A page takes the walk to a later place, and to the end when it is the last.
LEMMA WalkNextPage ==
    ASSUME GroupInv, WalkInv, NextPage
    PROVE  WalkInv'
  <1>1. Walking
    BY DEF WalkInv, NextPage, NoWalk
  <1> DEFINE s == walk.section
             f == walk.filter
             q == Payloads(Group, observations, s, f)
             o == walk.offset
             limit == walk.limit
             m == Min({Len(q), o + limit})
             page == SubSeq(q, o + 1, m)
             more == Len(q) > o + limit \/ (s \in ActionKinds /\ scan_truncated(Group, f))
  <1>2. walk' = [walk EXCEPT !.got = walk.got \o page, !.offset = o + Len(page),
                             !.more = more, !.empty = page = <<>>]
    BY DEF NextPage, paginated_payloads
  <1>3. /\ DOMAIN walk = DOMAIN NoWalk
        /\ s \in Sections /\ f \in Filters /\ limit \in Limits
        /\ o \in 0..Len(q) /\ walk.got = SubSeq(q, 1, o)
    BY <1>1 DEF Walking
  <1>4. Group' = Group /\ observations' = observations
    BY DEF NextPage, Group, Stored, groupVars
  <1>5. /\ walk'.section = s /\ walk'.filter = f /\ walk'.limit = limit
        /\ walk'.got = walk.got \o page /\ walk'.offset = o + Len(page)
        /\ DOMAIN walk' = DOMAIN NoWalk
    BY <1>2, <1>3 DEF NoWalk
  <1>6. walk'.more = more /\ walk'.empty = (page = <<>>)
    BY <1>2, <1>3 DEF NoWalk
  <1>7. Payloads(Group, observations, walk.section, walk.filter)' = q
    BY <1>4, <1>5
  <1>8. Group \in SUBSET Events
    BY GroupEvents
  <1>9. PICK X : q \in Seq(X)
    BY <1>3, <1>8, PayloadsListed
  <1>10. Walking' <=> /\ DOMAIN walk' = DOMAIN NoWalk
                      /\ walk'.section \in Sections /\ walk'.filter \in Filters
                      /\ walk'.limit \in Limits
                      /\ walk'.offset \in 0..Len(q) /\ walk'.got = SubSeq(q, 1, walk'.offset)
                      /\ ~walk'.more \/ walk'.empty => walk'.offset = Len(q)
    BY <1>7 DEF Walking
  <1>11. limit \in Nat /\ limit >= 1
    <2>1. Limits \subseteq Nat \ {0}
      BY ReadsAssumption
    <2>2. limit \in Limits
      BY <1>3
    <2> HIDE DEF limit
    <2>3. QED
      BY <2>1, <2>2
  <1>12. page = <<>> => Len(page) = 0
    <2> HIDE DEF page
    <2>1. QED
      OBVIOUS
  <1>13. ~more => Len(q) <= o + limit
    <2>1. Len(q) \in Nat
      BY <1>9
    <2>2. o + limit \in Nat
      BY <1>3, <1>11, <2>1
    <2>3. QED
      BY <2>1, <2>2
  <1> HIDE DEF s, f, q, o, limit, more
  <1>14. Len(q) \in Nat
    BY <1>9
  <1>15. o \in Nat /\ o <= Len(q)
    BY <1>3, <1>14
  <1>16. /\ m \in Nat /\ m \in {Len(q), o + limit} /\ m <= Len(q) /\ m <= o + limit
    BY <1>11, <1>14, <1>15, LesserOf
  <1> HIDE DEF m
  <1>17. m \in o..Len(q)
    BY <1>11, <1>14, <1>15, <1>16
  <1>18. walk.got \o page = SubSeq(q, 1, m) /\ Len(page) = m - o
    BY <1>3, <1>9, <1>17, Cut
  <1>19. o + Len(page) = m
    BY <1>15, <1>16, <1>18
  <1>20. ~more \/ page = <<>> => m = Len(q)
    <2>1. CASE ~more
      BY <1>13, <1>14, <1>16, <2>1
    <2>2. CASE page = <<>>
      <3>1. Len(page) = 0
        BY <1>12, <2>2
      <3>2. m = o
        BY <1>15, <1>16, <1>18, <3>1
      <3>3. QED
        BY <1>11, <1>15, <1>16, <3>2
    <2>3. QED
      BY <2>1, <2>2
  <1>21. m \in 0..Len(q)
    BY <1>14, <1>16
  <1> HIDE DEF page
  <1>22. ~walk'.more \/ walk'.empty => m = Len(q)
    BY <1>6, <1>20
  <1>23. Walking'
    BY <1>3, <1>5, <1>10, <1>18, <1>19, <1>21, <1>22
  <1>24. QED
    BY <1>23 DEF WalkInv

LEMMA WalkStep == GroupInv /\ WalkInv /\ [Next]_vars => WalkInv'
  <1> SUFFICES ASSUME GroupInv, WalkInv, [Next]_vars
               PROVE  WalkInv'
    OBVIOUS
  <1>1. ASSUME walk = NoWalk, walk' = walk
        PROVE  WalkInv'
    BY <1>1 DEF WalkInv, NoWalk, default_api_filters
  <1>2. ASSUME walk' = walk, UNCHANGED <<contents, stored, stranded, observations>>
        PROVE  WalkInv'
    <2>1. Group' = Group
      BY <1>2 DEF Group, Stored
    <2>2. CASE walk = NoWalk
      BY <1>1, <1>2, <2>2
    <2>3. CASE Walking
      BY <1>2, <2>1, <2>3 DEF Walking, WalkInv
    <2>4. QED
      BY <2>2, <2>3 DEF WalkInv
  <1>3. ASSUME StartWalk
        PROVE  WalkInv'
    <2>1. PICK s \in Sections, f \in Filters, limit \in Limits :
                walk' = [NoWalk EXCEPT !.section = s, !.filter = f, !.limit = limit]
      BY <1>3 DEF StartWalk
    <2>2. /\ walk'.section = s /\ walk'.filter = f /\ walk'.limit = limit
          /\ walk'.offset = 0 /\ walk'.got = <<>> /\ DOMAIN walk' = DOMAIN NoWalk
      BY <2>1 DEF NoWalk
    <2>3. walk'.more /\ ~walk'.empty
      BY <2>1 DEF NoWalk
    <2>4. Group' = Group /\ observations' = observations
      BY <1>3 DEF StartWalk, Group, Stored, groupVars
    <2>5. Payloads(Group, observations, walk.section, walk.filter)' = Payloads(Group, observations, s, f)
      BY <2>2, <2>4
    <2>6. PICK X : Payloads(Group, observations, s, f) \in Seq(X)
      BY GroupEvents, PayloadsListed
    <2>7. 0 \in 0..Len(Payloads(Group, observations, s, f))
      BY <2>6
    <2>8. SubSeq(Payloads(Group, observations, s, f), 1, 0) = <<>>
      BY <2>6
    <2>9. Walking'
      BY <2>2, <2>3, <2>5, <2>7, <2>8 DEF Walking
    <2>10. QED
      BY <2>9 DEF WalkInv
  <1>4. CASE NextPage
    BY <1>4, WalkNextPage
  <1>5. CASE StartExport \/ OpenSection \/ EmitRow \/ Eof \/ ExportFails
    BY <1>2, <1>5 DEF StartExport, OpenSection, EmitRow, Eof, ExportFails, groupVars
  <1>6. ASSUME NEW f \in Files, BeginUpload(f) \/ Prune(f)
        PROVE  WalkInv'
    BY <1>1, <1>6 DEF BeginUpload, Prune, Changed, Busy
  <1>7. CASE CommitUpload \/ Rebuild \/ SwitchUploads \/ PurgeFiles \/ PurgeGroups
    BY <1>1, <1>7 DEF CommitUpload, Rebuild, SwitchUploads, PurgeFiles, PurgeGroups, Changed, Busy
  <1>8. CASE UNCHANGED vars
    BY <1>2, <1>8 DEF vars, groupVars
  <1>9. QED
    BY <1>3, <1>4, <1>5, <1>6, <1>7, <1>8 DEF Next

LEMMA WalkInit == Init => WalkInv
  BY DEF Init, WalkInv

\* A finished walk has got the wanted rows.
LEMMA WalkedExactly ==
    ASSUME GroupInv, WalkInv
    PROVE  PagesExact
  <1> SUFFICES ASSUME ~walk.more \/ walk.empty
               PROVE  LET E == Group
                          D == observations
                          wanted(r) == Given(walk.filter.severity, Severity(E, D, walk.section, r))
                          rows == Rows(E, D, walk.section, [walk.filter EXCEPT !.severity = None])
                      IN /\ IsInjective(walk.got)
                         /\ ToSet(walk.got) = {r \in ToSet(rows) : wanted(r)}
                         /\ \A i, j \in 1..Len(walk.got) : i < j =>
                              \E k, l \in 1..Len(rows) :
                                k < l /\ rows[k] = walk.got[i] /\ rows[l] = walk.got[j]
    BY DEF PagesExact
  <1> DEFINE s == walk.section
             f == walk.filter
             g == [f EXCEPT !.severity = None]
             q == Payloads(Group, observations, s, f)
             rows == Rows(Group, observations, s, g)
  <1>1. NoWalk.more /\ ~NoWalk.empty
    BY DEF NoWalk
  <1>2. Walking
    BY <1>1 DEF WalkInv
  <1>3. s \in Sections /\ f \in Filters /\ walk.got = SubSeq(q, 1, Len(q))
    BY <1>2 DEF Walking
  <1>4. DOMAIN f = DOMAIN default_api_filters
    BY <1>3, FiltersAssumption
  <1>5. AsksAlike(f, g) /\ g.severity = None
    BY <1>4 DEF AsksAlike, default_api_filters
  <1>6. Group \in SUBSET Events
    BY GroupEvents
  <1>7. /\ Listed(q) /\ Embeds(q, rows)
        /\ \A x : Has(q, x) <=> Has(rows, x) /\ Given(f.severity, Severity(Group, observations, s, x))
    BY <1>3, <1>5, <1>6, PayloadsAre
  <1>8. Listed(rows)
    BY <1>3, <1>6, RowsListed
  <1> HIDE DEF s, f, g, q, rows
  <1>9. PICK X : q \in Seq(X)
    BY <1>7 DEF Listed
  <1>10. PICK Y : rows \in Seq(Y)
    BY <1>8 DEF Listed
  <1>11. walk.got = q
    BY <1>3, <1>9
  <1>12. IsInjective(q)
    BY <1>7, <1>9 DEF Listed, Once, IsInjective
  <1>13. \A x : Has(q, x) <=> x \in ToSet(q)
    BY <1>9 DEF Has, ToSet
  <1>14. \A x : Has(rows, x) <=> x \in ToSet(rows)
    BY <1>10 DEF Has, ToSet
  <1>15. ToSet(q) = {r \in ToSet(rows) : Given(f.severity, Severity(Group, observations, s, r))}
    BY <1>7, <1>13, <1>14
  <1>16. \A i, j \in 1..Len(q) : i < j => \E k, l \in 1..Len(rows) :
            k < l /\ rows[k] = q[i] /\ rows[l] = q[j]
    BY <1>7 DEF Embeds
  <1>17. ToSet(walk.got) = {r \in ToSet(rows) : Given(f.severity, Severity(Group, observations, s, r))}
    BY <1>11, <1>15
  <1>18. \A i, j \in 1..Len(walk.got) : i < j => \E k, l \in 1..Len(rows) :
            k < l /\ rows[k] = walk.got[i] /\ rows[l] = walk.got[j]
    BY <1>11, <1>16
  <1>19. IsInjective(walk.got)
    BY <1>11, <1>12
  <1>20. QED
    BY <1>17, <1>18, <1>19, Zenon DEF s, f, g, rows

\* The pages of a section hold every matching row exactly once, in order, by the
\* time that has_more is false or a page is empty (paginated_payloads); of an
\* action section, every matching row of its window.  The inductive invariant
\* WalkInv says that a walk has got the rows before its offset, which every page
\* extends.
THEOREM PagesAlwaysExact == Spec => []PagesExact
  <1>1. GroupInv /\ WalkInv => PagesExact
    BY WalkedExactly
  <1>2. QED
    BY <1>1, GroupInit, GroupStep, WalkInit, WalkStep, PTL DEF Spec
=============================================================================
