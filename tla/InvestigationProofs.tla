------------------------- MODULE InvestigationProofs -------------------------
(***************************************************************************)
(* The investigation command, proved for every log, page size, alphabet,   *)
(* hash length, set of sources and failure: first the evidence reader (the *)
(* inductive invariant of its pagination and of the trie that resolves the *)
(* ties), then what the command publishes and prints.                      *)
(***************************************************************************)
EXTENDS Investigation, FiniteFacts

-----------------------------------------------------------------------------
(* The evidence reader *)


Running == {"page", "tie"}

ReaderTypes ==
    /\ loki \subseteq Entries /\ before \subseteq loki
    /\ stage \in Running \cup {"complete", "incomplete"}
    /\ scope \in {GroupScope} \cup Sessions /\ todo \subseteq Sessions
    /\ cursor \in Nat /\ boundary \in Nat /\ queries \in Nat
    /\ taken \in [Entries -> Nat]
    /\ pending \in Seq(Seq(Nat))

\* The scopes whose retrieve has returned.
Finished ==
    IF stage = "complete" THEN {GroupScope} \cup SessionsFound(taken)
    ELSE IF scope = GroupScope THEN {}
    ELSE ({GroupScope} \cup SessionsFound(taken)) \ ({scope} \cup todo)

\* A body that some prefix still has to ask for.
Awaited(b) == \E k \in 1..Len(pending) : Extends(b, pending[k])

\* What the current retrieve has read of its scope.
Behind(e) ==
    \/ e.at < cursor
    \/ stage = "tie" /\ e.at < boundary
    \/ stage = "tie" /\ e.at = boundary /\ ~ Awaited(e.body)

Done(e) == e.label \in Finished \/ (stage \in Running /\ e.label = scope /\ Behind(e))

\* The sessions are retrieved after the group, each once.
ScopesInOrder ==
    stage \in Running =>
        IF scope = GroupScope THEN todo = {}
        ELSE scope \in SessionsFound(taken) /\ todo \subseteq SessionsFound(taken) \ {scope}

CursorInside ==
    /\ stage \in Running => Start <= cursor
    /\ stage = "tie" => cursor <= boundary /\ boundary < To

\* No body is asked for under two prefixes.
PrefixFree ==
    stage = "tie" =>
        \A k, m \in 1..Len(pending) : \A b \in Bodies :
            Extends(b, pending[k]) /\ Extends(b, pending[m]) => k = m

\* What is taken is where its label says, and its scope was asked for.
TakenBelongs ==
    \A e \in Entries : taken[e] > 0 =>
        ScopeOf[e.body] = e.label /\ e.label \in {GroupScope} \cup SessionsFound(taken)

\* Of the window, exactly what is done is taken; what arrived late may be left out.
DoneTaken ==
    stage # "incomplete" =>
        \A e \in Entries : Covered(e) =>
            /\ taken[e] > 0 => Done(e)
            /\ e \in before /\ Done(e) => taken[e] > 0

ReaderInv ==
    /\ ReaderTypes
    /\ ScopesInOrder /\ CursorInside /\ PrefixFree
    /\ NothingRepeated /\ TakenBelongs /\ DoneTaken
    /\ stage \in Running \cup {"complete"} => why = ""
    /\ TiesRefusedRightly

-----------------------------------------------------------------------------
(* The operators *)

LEMMA EntryTypes ==
    ASSUME NEW e \in Entries
    PROVE  e.at \in Nat /\ e.body \in Bodies /\ e.label \in Scopes
  BY ReaderAssumption

LEMMA StartType == Start \in Nat /\ To \in Nat
  BY ReaderAssumption DEF Start

LEMMA SessionsFoundType == \A T : SessionsFound(T) \subseteq Sessions
  BY ReaderAssumption DEF SessionsFound, Records

\* What is found in fewer entries is found in more.
LEMMA SessionsFoundGrow ==
    ASSUME NEW T \in [Entries -> Nat], NEW U \in [Entries -> Nat], \A e \in Entries : T[e] <= U[e]
    PROVE  SessionsFound(T) \subseteq SessionsFound(U)
  <1>1. Records(T) \subseteq Records(U)
    BY DEF Records
  <1>2. QED
    BY <1>1 DEF SessionsFound

\* Entries of other scopes name no session of the group.
LEMMA SessionsFoundSame ==
    ASSUME NEW T \in [Entries -> Nat], NEW U \in [Entries -> Nat],
           \A e \in Entries : ScopeOf[e.body] = GroupScope => U[e] = T[e]
    PROVE  SessionsFound(T) = SessionsFound(U)
  <1>1. {c \in Records(T) : ScopeOf[c] = GroupScope} = {c \in Records(U) : ScopeOf[c] = GroupScope}
    BY DEF Records
  <1>2. QED
    BY <1>1 DEF SessionsFound

LEMMA LeastIsLeast ==
    ASSUME NEW S, S \subseteq Nat, S # {}
    PROVE  Least(S) \in S
  <1>1. \E m \in S : \A n \in S : m <= n
    BY LeastNumber
  <1>2. QED
    BY <1>1 DEF Least

\* The last timestamp of a page.
LEMMA BoundaryIsLast ==
    ASSUME NEW R, R \subseteq Entries, R # {}, \A e \in R : e.at < To
    PROVE  Boundary(R) \in {e.at : e \in R} /\ \A e \in R : e.at <= Boundary(R)
  <1>1. \A e \in R : e.at \in Nat /\ To - e.at \in Nat /\ To \in Nat
    BY EntryTypes, StartType
  <1>2. {To - e.at : e \in R} \subseteq Nat /\ {To - e.at : e \in R} # {}
    BY <1>1
  <1>3. PICK m \in {To - e.at : e \in R} : \A n \in {To - e.at : e \in R} : m <= n
    BY <1>2, LeastNumber
  <1>4. PICK r \in R : m = To - r.at
    BY <1>3
  <1>5. ASSUME NEW e \in R
        PROVE  e.at <= r.at
    <2>1. To - r.at <= To - e.at
      BY <1>3, <1>4
    <2>2. QED
      BY <1>1, <2>1
  <1>6. \E t \in {e.at : e \in R} : \A e \in R : e.at <= t
    BY <1>5
  <1>7. QED
    BY <1>6 DEF Boundary

LEMMA PagesFinite ==
    ASSUME NEW M, M \subseteq Entries, NEW R \in Pages(M)
    PROVE  /\ R \subseteq M /\ IsFiniteSet(R) /\ Cardinality(R) \in Nat /\ Cardinality(R) <= PageSize
           /\ Cardinality(R) < PageSize => R = M
           /\ Cardinality(R) = PageSize => R # {}
           /\ \A r \in R, e \in M \ R : r.at <= e.at
  <1>1. R \subseteq M /\ R \in SUBSET Entries
    BY DEF Pages
  <1>2. IsFiniteSet(R)
    BY <1>1, FS_Subset, ReaderAssumption
  <1>3. Cardinality(R) \in Nat
    BY <1>2, FS_CardinalityType
  <1>4. R = {} => Cardinality(R) = 0
    BY FS_EmptySet
  <1>5. QED
    BY <1>1, <1>2, <1>3, <1>4, ReaderAssumption DEF Pages

-----------------------------------------------------------------------------
(* The trie of hash prefixes *)

LEMMA ChildrenType ==
    ASSUME NEW prefix \in Seq(Nat)
    PROVE  /\ Children(prefix) \in Seq(Seq(Nat)) /\ Len(Children(prefix)) = Len(Alphabet)
           /\ \A i \in 1..Len(Alphabet) : Children(prefix)[i] = Append(prefix, Alphabet[i])
  BY ReaderAssumption DEF Children

\* A hash extends a child when it extends the prefix and goes on with its digit.
LEMMA ExtendsChild ==
    ASSUME NEW b, NEW prefix \in Seq(Nat), NEW a \in Nat
    PROVE  Extends(b, Append(prefix, a)) <=> Extends(b, prefix) /\ b[Len(prefix) + 1] = a
  <1>1. /\ Len(Append(prefix, a)) = Len(prefix) + 1
        /\ \A i \in 1..Len(prefix) : Append(prefix, a)[i] = prefix[i]
        /\ Append(prefix, a)[Len(prefix) + 1] = a
        /\ Len(prefix) \in Nat
    OBVIOUS
  <1>2. QED
    BY <1>1 DEF Extends

LEMMA DigitExists ==
    ASSUME NEW b \in Bodies, NEW i \in 1..HashLen
    PROVE  \E j \in 1..Len(Alphabet) : b[i] = Alphabet[j]
  BY ReaderAssumption

LEMMA AlphabetType ==
    /\ Alphabet \in Seq(Nat) /\ HashLen \in Nat
    /\ \A i, j \in 1..Len(Alphabet) : Alphabet[i] = Alphabet[j] => i = j
  BY ReaderAssumption

\* Two sequences, one behind the other.
LEMMA Joined ==
    ASSUME NEW X, NEW s \in Seq(X), NEW t \in Seq(X)
    PROVE  /\ s \o t \in Seq(X) /\ Len(s \o t) = Len(s) + Len(t)
           /\ \A k \in 1..Len(s) : (s \o t)[k] = s[k]
           /\ \A k \in 1..Len(t) : (s \o t)[Len(s) + k] = t[k]
  OBVIOUS

\* A prefix that is split stands for the same bodies, each under one child.
LEMMA SplitPrefix ==
    ASSUME NEW prefix \in Seq(Nat), ~ Exhausted(prefix), NEW b \in Bodies
    PROVE  /\ Extends(b, prefix) <=> \E i \in 1..Len(Alphabet) : Extends(b, Children(prefix)[i])
           /\ \A i, j \in 1..Len(Alphabet) :
                 Extends(b, Children(prefix)[i]) /\ Extends(b, Children(prefix)[j]) => i = j
  <1>1. \A i \in 1..Len(Alphabet) : Alphabet[i] \in Nat
    BY AlphabetType
  <1>2. \A i \in 1..Len(Alphabet) :
            Extends(b, Children(prefix)[i]) <=> Extends(b, prefix) /\ b[Len(prefix) + 1] = Alphabet[i]
    <2>1. ASSUME NEW i \in 1..Len(Alphabet)
          PROVE  Extends(b, Children(prefix)[i]) <=> Extends(b, prefix) /\ b[Len(prefix) + 1] = Alphabet[i]
      <3>1. Children(prefix)[i] = Append(prefix, Alphabet[i])
        BY ChildrenType
      <3>2. Alphabet[i] \in Nat
        BY <1>1
      <3>3. Extends(b, Append(prefix, Alphabet[i]))
              <=> Extends(b, prefix) /\ b[Len(prefix) + 1] = Alphabet[i]
        BY <3>2, ExtendsChild
      <3>4. QED
        BY <3>1, <3>3, Zenon
    <2>2. QED
      BY <2>1
  <1>3. Len(prefix) + 1 \in 1..HashLen
    BY AlphabetType DEF Exhausted
  <1>4. \E j \in 1..Len(Alphabet) : b[Len(prefix) + 1] = Alphabet[j]
    BY <1>3, DigitExists
  <1>5. QED
    BY <1>2, <1>4, AlphabetType

\* Two hashes that extend the same whole hash are the same.
LEMMA ExhaustedPrefix ==
    ASSUME NEW prefix \in Seq(Nat), Exhausted(prefix), NEW b \in Bodies, NEW c \in Bodies,
           Extends(b, prefix), Extends(c, prefix)
    PROVE  b = c
  <1>1. b \in [1..HashLen -> Nat] /\ c \in [1..HashLen -> Nat] /\ HashLen \in Nat
    BY ReaderAssumption
  <1>2. \A i \in 1..HashLen : i \in 1..Len(prefix)
    BY <1>1 DEF Exhausted
  <1>3. \A i \in 1..HashLen : b[i] = c[i]
    BY <1>2 DEF Extends
  <1>4. QED
    BY <1>1, <1>3

-----------------------------------------------------------------------------
(* The steps of the reader *)

\* Rows that are not done yet are taken once, and belong to the scope.
LEMMA RowsAbsorbed ==
    ASSUME ReaderInv, stage \in Running, UNCHANGED <<loki, before>>,
           NEW R, R \subseteq loki, Accepted(R), taken' = Counted(R),
           \A e \in R : Covered(e) /\ e.label = scope /\ ~ Done(e)
    PROVE  /\ taken' \in [Entries -> Nat]
           /\ \A e \in Entries : taken'[e] > 0 <=> taken[e] > 0 \/ e \in R
           /\ SessionsFound(taken) \subseteq SessionsFound(taken')
           /\ scope # GroupScope => SessionsFound(taken') = SessionsFound(taken)
           /\ NothingRepeated' /\ TakenBelongs'
  <1>1. taken \in [Entries -> Nat] /\ loki \subseteq Entries
    BY DEF ReaderInv, ReaderTypes
  <1>2. taken' \in [Entries -> Nat]
        /\ \A e \in Entries : taken'[e] = IF e \in R THEN taken[e] + 1 ELSE taken[e]
    BY <1>1 DEF Counted
  <1>3. \A e \in R : taken[e] = 0
    <2>1. \A e \in R : ~ (taken[e] > 0)
      BY <1>1 DEF ReaderInv, DoneTaken, Running
    <2>2. QED
      BY <1>1, <2>1
  <1>4. \A e \in Entries : taken'[e] > 0 <=> taken[e] > 0 \/ e \in R
    BY <1>1, <1>2
  <1>5. SessionsFound(taken) \subseteq SessionsFound(taken')
    BY <1>1, <1>2, SessionsFoundGrow
  <1>6. scope # GroupScope => SessionsFound(taken') = SessionsFound(taken)
    <2>1. scope # GroupScope => \A e \in Entries : ScopeOf[e.body] = GroupScope => taken'[e] = taken[e]
      BY <1>2 DEF Accepted
    <2>2. QED
      BY <1>1, <1>2, <2>1, SessionsFoundSame
  <1>7. NothingRepeated'
    <2>1. \A e \in Entries : Covered(e)' <=> Covered(e)
      BY DEF Covered, Start
    <2>2. \A e \in R : e \in loki /\ Covered(e) /\ taken'[e] = 1
      BY <1>1, <1>2, <1>3
    <2>3. \A e \in Entries \ R : taken'[e] = taken[e]
      BY <1>2
    <2>4. ASSUME NEW e \in Entries
          PROVE  taken'[e] <= (IF e \in loki' /\ Covered(e)' THEN 1 ELSE 0)
      <3>1. CASE e \in R
        BY <2>1, <2>2, <3>1
      <3>2. CASE e \notin R
        <4>1. taken[e] <= (IF e \in loki /\ Covered(e) THEN 1 ELSE 0)
          BY DEF ReaderInv, NothingRepeated
        <4>2. QED
          BY <2>1, <2>3, <3>2, <4>1
      <3>3. QED
        BY <3>1, <3>2
    <2>5. QED
      BY <2>4 DEF NothingRepeated
  <1>8. TakenBelongs'
    <2>1. scope \in {GroupScope} \cup SessionsFound(taken')
      BY <1>5 DEF ReaderInv, ScopesInOrder
    <2>2. \A e \in R : ScopeOf[e.body] = e.label /\ e.label = scope
      BY DEF Accepted
    <2>3. QED
      BY <1>4, <1>5, <2>1, <2>2 DEF ReaderInv, TakenBelongs
  <1>9. QED
    BY <1>2, <1>4, <1>5, <1>6, <1>7, <1>8

\* Nothing of the scope is finished before its retrieve returns.
LEMMA ScopeUnfinished ==
    ASSUME ReaderInv, stage \in Running
    PROVE  scope \notin Finished
  BY DEF Finished, Running

LEMMA WindowFixed == \A e : Covered(e)' <=> Covered(e)
  BY DEF Covered, Start

\* A step within a scope: what it takes is behind it afterwards, and nothing
\* else that Loki had when the investigation began.
LEMMA WithinScope ==
    ASSUME ReaderInv, stage \in Running, stage' \in Running,
           UNCHANGED <<loki, before, scope, todo, why>>,
           cursor' \in Nat, boundary' \in Nat, queries' \in Nat, pending' \in Seq(Seq(Nat)),
           CursorInside', PrefixFree',
           NEW R, R \subseteq loki, Accepted(R), taken' = Counted(R),
           \A e \in R : Covered(e) /\ e.label = scope /\ ~ Done(e),
           \A e \in Entries : Covered(e) /\ e.label = scope =>
                /\ Behind(e) \/ e \in R => Behind(e)'
                /\ e \in before /\ Behind(e)' => Behind(e) \/ e \in R
    PROVE  ReaderInv'
  <1>1. /\ taken' \in [Entries -> Nat]
        /\ \A e \in Entries : taken'[e] > 0 <=> taken[e] > 0 \/ e \in R
        /\ SessionsFound(taken) \subseteq SessionsFound(taken')
        /\ scope # GroupScope => SessionsFound(taken') = SessionsFound(taken)
        /\ NothingRepeated' /\ TakenBelongs'
    BY RowsAbsorbed
  <1>2. ReaderTypes'
    BY <1>1 DEF ReaderInv, ReaderTypes
  <1>3. ScopesInOrder'
    BY <1>1 DEF ReaderInv, ScopesInOrder
  <1>4. Finished' = Finished
    <2>1. CASE scope = GroupScope
      BY <2>1 DEF Finished, Running
    <2>2. CASE scope # GroupScope
      <3>1. SessionsFound(taken)' = SessionsFound(taken)
        BY <1>1, <2>2 DEF SessionsFound, Records
      <3>2. QED
        BY <2>2, <3>1 DEF Finished, Running
    <2>3. QED
      BY <2>1, <2>2
  <1>5. DoneTaken'
    <2>1. ASSUME NEW e \in Entries, Covered(e)
          PROVE  (taken'[e] > 0 => Done(e)') /\ (e \in before /\ Done(e)' => taken'[e] > 0)
      <3>1. Done(e)' <=> e.label \in Finished \/ (e.label = scope /\ Behind(e)')
        BY <1>4 DEF Done
      <3>2. Done(e) <=> e.label \in Finished \/ (e.label = scope /\ Behind(e))
        BY DEF Done
      <3>3. (taken[e] > 0 => Done(e)) /\ (e \in before /\ Done(e) => taken[e] > 0)
        BY <2>1 DEF ReaderInv, DoneTaken, Running
      <3>4. QED
        BY <1>1, <2>1, <3>1, <3>2, <3>3
    <2>2. QED
      BY <2>1, WindowFixed DEF DoneTaken
  <1>6. TiesRefusedRightly' /\ why' = ""
    BY DEF ReaderInv, TiesRefusedRightly
  <1>7. QED
    BY <1>1, <1>2, <1>3, <1>5, <1>6 DEF ReaderInv

\* The end of a retrieve: the scope joins the finished ones.
LEMMA ScopeEnds ==
    ASSUME ReaderInv, stage = "page", UNCHANGED <<loki, before>>, queries' \in Nat,
           taken' \in [Entries -> Nat],
           SessionsFound(taken) \subseteq SessionsFound(taken'),
           scope # GroupScope => SessionsFound(taken') = SessionsFound(taken),
           NothingRepeated', TakenBelongs',
           \A e \in Entries : Covered(e) =>
                /\ taken'[e] > 0 => e.label \in Finished \cup {scope}
                /\ e \in before /\ e.label \in Finished \cup {scope} => taken'[e] > 0,
           NextScope(taken')
    PROVE  ReaderInv'
  <1> DEFINE found == SessionsFound(taken')
             left == IF scope = GroupScope THEN found ELSE todo
  <1>1. found \subseteq Sessions /\ GroupScope \notin found /\ Sessions \subseteq Nat
    BY SessionsFoundType, ReaderAssumption
  <1>2. left \subseteq found /\ (scope # GroupScope => scope \in found /\ scope \notin left)
    BY DEF ReaderInv, ScopesInOrder, Running
  <1>3. Finished \cup {scope} = ({GroupScope} \cup found) \ left
    <2>1. CASE scope = GroupScope
      BY <1>1, <2>1 DEF Finished
    <2>2. CASE scope # GroupScope
      <3>1. Finished = ({GroupScope} \cup found) \ ({scope} \cup todo)
        BY <2>2 DEF Finished
      <3>2. QED
        BY <1>1, <1>2, <2>2, <3>1
    <2>3. QED
      BY <2>1, <2>2
  <1>4. UNCHANGED <<why, boundary, pending>> /\ why = ""
    BY DEF NextScope, ReaderInv, Running
  <1>5. SessionsFound(taken)' = found
    BY DEF SessionsFound, Records
  <1>6. CASE left = {}
    <2>1. stage' = "complete" /\ UNCHANGED <<scope, todo, cursor>>
      BY <1>6 DEF NextScope
    <2>2. Finished' = Finished \cup {scope}
      BY <1>3, <1>5, <1>6, <2>1 DEF Finished
    <2>3. \A e \in Entries : Done(e)' <=> e.label \in Finished \cup {scope}
      BY <2>1, <2>2 DEF Done, Running
    <2>4. DoneTaken'
      BY <2>1, <2>3, WindowFixed DEF DoneTaken
    <2>5. ReaderTypes'
      BY <1>4, <2>1 DEF ReaderInv, ReaderTypes
    <2>6. QED
      BY <1>4, <2>1, <2>4, <2>5 DEF ReaderInv, ScopesInOrder, CursorInside, PrefixFree, Running,
                                     TiesRefusedRightly
  <1>7. CASE left # {}
    <2>1. stage' = "page" /\ scope' = Least(left) /\ todo' = left \ {Least(left)} /\ cursor' = Start
      BY <1>7 DEF NextScope
    <2>2. Least(left) \in left /\ scope' # GroupScope
      BY <1>1, <1>2, <1>7, <2>1, LeastIsLeast
    <2>3. Finished' = Finished \cup {scope}
      BY <1>3, <1>5, <2>1, <2>2 DEF Finished
    <2>4. ASSUME NEW e \in Entries, Covered(e)
          PROVE  Done(e)' <=> e.label \in Finished \cup {scope}
      <3>1. ~ Behind(e)'
        BY <2>1, <2>4, EntryTypes, StartType DEF Behind, Covered
      <3>2. QED
        BY <2>3, <3>1 DEF Done
    <2>5. DoneTaken'
      BY <2>4, WindowFixed DEF DoneTaken
    <2>6. ReaderTypes'
      BY <1>1, <1>2, <1>4, <2>1, <2>2, StartType DEF ReaderInv, ReaderTypes, Running
    <2>7. ScopesInOrder'
      BY <1>2, <1>5, <2>1, <2>2 DEF ScopesInOrder
    <2>8. CursorInside' /\ PrefixFree'
      BY <2>1, StartType DEF CursorInside, PrefixFree, Start
    <2>9. QED
      BY <1>4, <2>5, <2>6, <2>7, <2>8 DEF ReaderInv, TiesRefusedRightly
  <1>8. QED
    BY <1>6, <1>7

\* An investigation that ends incomplete keeps what it took.
LEMMA ReaderFails ==
    ASSUME ReaderInv, stage' = "incomplete", queries' \in Nat,
           UNCHANGED <<loki, before, scope, todo, cursor, boundary, pending, taken>>,
           TiesRefusedRightly'
    PROVE  ReaderInv'
  <1>1. ReaderTypes'
    BY DEF ReaderInv, ReaderTypes
  <1>2. NothingRepeated' /\ TakenBelongs'
    BY WindowFixed DEF ReaderInv, NothingRepeated, TakenBelongs, SessionsFound, Records
  <1>3. QED
    BY <1>1, <1>2 DEF ReaderInv, ScopesInOrder, CursorInside, PrefixFree, DoneTaken, Running

\* Of a page, add_rows takes its rows and goes on, or fails.
LEMMA AddRowsCases ==
    ASSUME ReaderInv, NEW R, NEW ACTION Then, AddRows(R, Then), UNCHANGED <<loki, before>>, queries' \in Nat
    PROVE  ReaderInv' \/ (Accepted(R) /\ taken' = Counted(R) /\ Then)
  <1>1. CASE Accepted(R) /\ taken' = Counted(R) /\ Then
    BY <1>1
  <1>2. CASE /\ stage' = "incomplete" /\ why' # "unresolvable_timestamp_tie"
             /\ UNCHANGED <<scope, todo, cursor, boundary, pending, taken>>
    BY <1>2, ReaderFails DEF TiesRefusedRightly
  <1>3. QED
    BY <1>1, <1>2 DEF AddRows, Fail

LEMMA QueryType == ReaderTypes /\ Query => queries' \in Nat
  BY DEF ReaderTypes, Query

\* One turn of retrieve's loop.
LEMMA PageStep == ReaderInv /\ Page => ReaderInv'
  <1> SUFFICES ASSUME ReaderInv, Page
               PROVE  ReaderInv'
    OBVIOUS
  <1> DEFINE M == {e \in loki : e.label = scope /\ cursor <= e.at /\ e.at < To}
  <1>1. stage = "page" /\ cursor < To /\ queries' \in Nat /\ UNCHANGED <<loki, before>>
    BY QueryType DEF Page, ReaderInv
  <1>2. PICK R \in Pages(M) :
            IF Cardinality(R) < PageSize
            THEN AddRows(R, NextScope(Counted(R)))
            ELSE AddRows({e \in R : e.at < Boundary(R)}, ResolveBoundary(R))
    BY DEF Page
  <1>3. loki \subseteq Entries /\ before \subseteq loki /\ M \subseteq Entries /\ cursor \in Nat
    BY DEF ReaderInv, ReaderTypes
  <1>4. /\ R \subseteq M /\ Cardinality(R) \in Nat /\ Cardinality(R) <= PageSize
        /\ Cardinality(R) < PageSize => R = M
        /\ Cardinality(R) = PageSize => R # {}
        /\ \A r \in R, e \in M \ R : r.at <= e.at
    BY <1>3, PagesFinite
  <1>5. ASSUME NEW e \in M
        PROVE  Covered(e) /\ e.label = scope /\ ~ Done(e) /\ e.at \in Nat /\ cursor <= e.at
    <2>1. e.at \in Nat /\ cursor <= e.at /\ e.at < To /\ e.label = scope
      BY <1>3, EntryTypes
    <2>2. Start <= cursor
      BY <1>1 DEF ReaderInv, CursorInside, Running
    <2>3. ~ Behind(e)
      BY <1>1, <1>3, <2>1 DEF Behind
    <2>4. QED
      BY <1>1, <1>3, <2>1, <2>2, <2>3, ScopeUnfinished, StartType DEF Done, Covered, Running
  <1>6. CASE Cardinality(R) < PageSize
    <2>1. R = M
      BY <1>4, <1>6
    <2>2. AddRows(R, NextScope(Counted(R)))
      BY <1>2, <1>6
    <2>3. CASE Accepted(R) /\ taken' = Counted(R) /\ NextScope(Counted(R))
      <3>1. /\ taken' \in [Entries -> Nat]
            /\ \A e \in Entries : taken'[e] > 0 <=> taken[e] > 0 \/ e \in R
            /\ SessionsFound(taken) \subseteq SessionsFound(taken')
            /\ scope # GroupScope => SessionsFound(taken') = SessionsFound(taken)
            /\ NothingRepeated' /\ TakenBelongs'
        BY <1>1, <1>5, <2>1, <2>3, RowsAbsorbed DEF Running
      <3>2. ASSUME NEW e \in Entries, Covered(e)
            PROVE  /\ taken'[e] > 0 => e.label \in Finished \cup {scope}
                   /\ e \in before /\ e.label \in Finished \cup {scope} => taken'[e] > 0
        <4>1. (taken[e] > 0 => Done(e)) /\ (e \in before /\ Done(e) => taken[e] > 0)
          BY <1>1, <3>2 DEF ReaderInv, DoneTaken
        <4>2. e \in before /\ e.label = scope => e \in R \/ Behind(e)
          BY <1>3, <2>1, <3>2, EntryTypes, StartType DEF Covered, Behind
        <4>3. QED
          BY <1>1, <1>5, <2>1, <3>1, <4>1, <4>2 DEF Done, Running
      <3>3. NextScope(taken')
        BY <2>3
      <3>4. QED
        BY <1>1, <3>1, <3>2, <3>3, ScopeEnds
    <2>4. QED
      BY <1>1, <2>2, <2>3, AddRowsCases
  <1>7. CASE ~ (Cardinality(R) < PageSize)
    <2> DEFINE B == Boundary(R)
               Q == {e \in R : e.at < B}
    <2>1. R # {} /\ R \subseteq Entries /\ \A e \in R : e.at < To
      BY <1>3, <1>4, <1>7, ReaderAssumption
    <2>2. B \in {e.at : e \in R} /\ \A e \in R : e.at <= B
      BY <2>1, BoundaryIsLast
    <2>3. PICK r \in R : r.at = B
      BY <2>2
    <2>4. B \in Nat /\ cursor <= B /\ B < To
      BY <1>4, <1>5, <2>1, <2>3
    <2>5. \A e \in M : e.at < B => e \in Q
      BY <1>4, <1>5, <2>3, <2>4
    <2>6. CASE Accepted(Q) /\ taken' = Counted(Q) /\ ResolveBoundary(R)
      <3>1. stage' = "tie" /\ boundary' = B /\ pending' = << <<>> >>
            /\ UNCHANGED <<why, scope, todo, cursor>>
        BY <2>6 DEF ResolveBoundary
      <3>2. pending' \in Seq(Seq(Nat)) /\ Len(pending') = 1 /\ pending'[1] = <<>> /\ Len(<<>>) = 0
        BY <3>1
      <3>3. \A b : Awaited(b)'
        BY <3>2 DEF Awaited, Extends
      <3>4. PrefixFree'
        BY <3>2 DEF PrefixFree
      <3>5. CursorInside'
        BY <1>1, <2>4, <3>1, StartType DEF ReaderInv, CursorInside, Running, Start
      <3>6. Q \subseteq loki /\ \A e \in Q : Covered(e) /\ e.label = scope /\ ~ Done(e)
        BY <1>4, <1>5
      <3>7. ASSUME NEW e \in Entries, Covered(e), e.label = scope
            PROVE  /\ Behind(e) \/ e \in Q => Behind(e)'
                   /\ e \in before /\ Behind(e)' => Behind(e) \/ e \in Q
        <4>1. e.at \in Nat /\ e.at < To
          BY <3>7, EntryTypes DEF Covered
        <4>2. Behind(e) <=> e.at < cursor
          BY <1>1 DEF Behind
        <4>3. Behind(e)' <=> e.at < cursor \/ e.at < B
          BY <3>1, <3>3 DEF Behind
        <4>4. e \in before /\ ~ (e.at < cursor) /\ e.at < B => e \in Q
          BY <1>3, <2>5, <3>7, <4>1
        <4>5. QED
          BY <4>2, <4>3, <4>4
      <3>8. QED
        BY <1>1, <1>3, <2>4, <2>6, <3>1, <3>2, <3>4, <3>5, <3>6, <3>7, WithinScope DEF Running
    <2>7. QED
      BY <1>1, <1>2, <1>7, <2>6, AddRowsCases
  <1>8. QED
    BY <1>6, <1>7

\* The end of the window ends the retrieve: its cursor has passed everything.
LEMMA WindowReadStep == ReaderInv /\ WindowRead => ReaderInv'
  <1> SUFFICES ASSUME ReaderInv, WindowRead
               PROVE  ReaderInv'
    OBVIOUS
  <1>1. stage = "page" /\ cursor >= To /\ UNCHANGED <<loki, before, taken, queries>> /\ NextScope(taken')
    BY DEF WindowRead
  <1>2. taken' \in [Entries -> Nat] /\ queries' \in Nat /\ cursor \in Nat
    BY <1>1 DEF ReaderInv, ReaderTypes
  <1>3. NothingRepeated' /\ TakenBelongs'
    BY <1>1, WindowFixed DEF ReaderInv, NothingRepeated, TakenBelongs, SessionsFound, Records
  <1>4. ASSUME NEW e \in Entries, Covered(e)
        PROVE  /\ taken'[e] > 0 => e.label \in Finished \cup {scope}
               /\ e \in before /\ e.label \in Finished \cup {scope} => taken'[e] > 0
    <2>1. (taken[e] > 0 => Done(e)) /\ (e \in before /\ Done(e) => taken[e] > 0)
      BY <1>1, <1>4 DEF ReaderInv, DoneTaken
    <2>2. Behind(e)
      BY <1>1, <1>2, <1>4, EntryTypes, StartType DEF Covered, Behind
    <2>3. QED
      BY <1>1, <2>1, <2>2 DEF Done, Running
  <1>5. QED
    BY <1>1, <1>2, <1>3, <1>4, ScopeEnds

\* The entries of the boundary under a pending prefix are not done.
LEMMA AwaitedUndone ==
    ASSUME ReaderInv, stage = "tie", NEW e \in Entries, e.label = scope, e.at = boundary, Awaited(e.body)
    PROVE  Covered(e) /\ ~ Done(e)
  <1>1. /\ Start <= cursor /\ cursor <= boundary /\ boundary < To
        /\ cursor \in Nat /\ boundary \in Nat
    BY DEF ReaderInv, ReaderTypes, CursorInside, Running
  <1>2. ~ Behind(e)
    BY <1>1 DEF Behind
  <1>3. QED
    BY <1>1, <1>2, ScopeUnfinished, StartType DEF Done, Covered, Running

\* A step of the trie that keeps the stage, the boundary and the cursor.
LEMMA TieGoesOn ==
    ASSUME ReaderInv, stage = "tie", UNCHANGED <<loki, before, stage, why, scope, todo, cursor, boundary>>,
           queries' \in Nat, pending' \in Seq(Seq(Nat)), PrefixFree',
           NEW R, R \subseteq loki, Accepted(R), taken' = Counted(R),
           \A e \in R : e.label = scope /\ e.at = boundary /\ Awaited(e.body) /\ ~ Awaited(e.body)',
           \A b \in Bodies : Awaited(b)' => Awaited(b),
           \A e \in before : e.label = scope /\ e.at = boundary /\ Awaited(e.body) =>
                e \in R \/ Awaited(e.body)'
    PROVE  ReaderInv'
  <1>1. loki \subseteq Entries /\ cursor \in Nat /\ boundary \in Nat
    BY DEF ReaderInv, ReaderTypes
  <1>2. \A e \in R : Covered(e) /\ e.label = scope /\ ~ Done(e)
    BY <1>1, AwaitedUndone
  <1>3. CursorInside'
    BY DEF ReaderInv, CursorInside, Start
  <1>4. ASSUME NEW e \in Entries, Covered(e), e.label = scope
        PROVE  /\ Behind(e) \/ e \in R => Behind(e)'
               /\ e \in before /\ Behind(e)' => Behind(e) \/ e \in R
    <2>1. e.body \in Bodies
      BY EntryTypes
    <2>2. Behind(e) <=> e.at < cursor \/ e.at < boundary \/ (e.at = boundary /\ ~ Awaited(e.body))
      BY DEF Behind
    <2>3. Behind(e)' <=> e.at < cursor \/ e.at < boundary \/ (e.at = boundary /\ ~ Awaited(e.body)')
      BY DEF Behind
    <2>4. QED
      BY <1>4, <2>1, <2>2, <2>3
  <1>5. QED
    BY <1>1, <1>2, <1>3, <1>4, WithinScope DEF Running

\* One call of tied.
LEMMA TieStep == ReaderInv /\ Tie => ReaderInv'
  <1> SUFFICES ASSUME ReaderInv, Tie
               PROVE  ReaderInv'
    OBVIOUS
  <1> DEFINE prefix == Head(pending)
             M == {e \in loki : e.label = scope /\ e.at = boundary /\ Extends(e.body, prefix)}
  <1>1. stage = "tie" /\ pending # <<>> /\ queries' \in Nat /\ UNCHANGED <<loki, before>>
    BY QueryType DEF Tie, ReaderInv
  <1>2. PICK R \in Pages(M) :
          \/ /\ Cardinality(R) < PageSize
             /\ AddRows(R, /\ pending' = Tail(pending)
                           /\ UNCHANGED <<stage, why, scope, todo, cursor, boundary>>)
          \/ /\ Cardinality(R) = PageSize /\ Exhausted(prefix)
             /\ Fail("unresolvable_timestamp_tie")
             /\ UNCHANGED <<scope, todo, cursor, boundary, pending, taken>>
          \/ /\ Cardinality(R) = PageSize /\ ~ Exhausted(prefix)
             /\ pending' = Children(prefix) \o Tail(pending)
             /\ UNCHANGED <<stage, why, scope, todo, cursor, boundary, taken>>
    BY DEF Tie
  <1>3. /\ loki \subseteq Entries /\ before \subseteq loki /\ M \subseteq Entries
        /\ pending \in Seq(Seq(Nat)) /\ prefix \in Seq(Nat) /\ Tail(pending) \in Seq(Seq(Nat))
        /\ taken \in [Entries -> Nat]
    <2>1. /\ loki \subseteq Entries /\ before \subseteq loki /\ pending \in Seq(Seq(Nat))
          /\ taken \in [Entries -> Nat]
      BY DEF ReaderInv, ReaderTypes
    <2>2. prefix \in Seq(Nat) /\ Tail(pending) \in Seq(Seq(Nat))
      BY <1>1, <2>1
    <2>3. M \subseteq Entries
      BY <2>1
    <2>4. QED
      BY <2>1, <2>2, <2>3
  <1>4. /\ R \subseteq M /\ Cardinality(R) \in Nat
        /\ Cardinality(R) < PageSize => R = M
        /\ Cardinality(R) = PageSize => R # {}
    BY <1>3, PagesFinite
  <1>5. /\ Len(pending) \in Nat /\ Len(pending) >= 1 /\ Len(Tail(pending)) = Len(pending) - 1
        /\ pending[1] = prefix
        /\ \A k \in 1..Len(Tail(pending)) : Tail(pending)[k] = pending[k + 1]
    BY <1>1, <1>3
  <1> DEFINE Later(b) == \E k \in 1..Len(Tail(pending)) : Extends(b, Tail(pending)[k])
  <1>6. \A b : Awaited(b) <=> Extends(b, prefix) \/ Later(b)
    <2>1. ASSUME NEW b
          PROVE  Awaited(b) <=> Extends(b, prefix) \/ Later(b)
      <3>1. ASSUME Awaited(b)
            PROVE  Extends(b, prefix) \/ Later(b)
        <4>1. PICK k \in 1..Len(pending) : Extends(b, pending[k])
          BY <3>1 DEF Awaited
        <4>2. CASE k = 1
          BY <1>5, <4>1, <4>2
        <4>3. CASE k # 1
          <5>1. k - 1 \in 1..Len(Tail(pending)) /\ Tail(pending)[k - 1] = pending[k]
            BY <1>5, <4>3
          <5>2. QED
            BY <4>1, <5>1
        <4>4. QED
          BY <4>2, <4>3
      <3>2. ASSUME Extends(b, prefix) \/ Later(b)
            PROVE  Awaited(b)
        <4>1. CASE Extends(b, prefix)
          BY <1>5, <4>1 DEF Awaited
        <4>2. CASE Later(b)
          <5>1. PICK k \in 1..Len(Tail(pending)) : Extends(b, Tail(pending)[k])
            BY <4>2
          <5>2. k + 1 \in 1..Len(pending) /\ Extends(b, pending[k + 1])
            BY <1>5, <5>1
          <5>3. QED
            BY <5>2 DEF Awaited
        <4>3. QED
          BY <3>2, <4>1, <4>2
      <3>3. QED
        BY <3>1, <3>2
    <2>2. QED
      BY <2>1
  <1>7. \A b \in Bodies : Extends(b, prefix) => ~ Later(b)
    <2>1. ASSUME NEW b \in Bodies, Extends(b, prefix), NEW k \in 1..Len(Tail(pending)),
                 Extends(b, Tail(pending)[k])
          PROVE  FALSE
      <3>1. 1 \in 1..Len(pending) /\ k + 1 \in 1..Len(pending) /\ k + 1 # 1
        BY <1>5
      <3>2. Extends(b, pending[1]) /\ Extends(b, pending[k + 1])
        BY <1>5, <2>1
      <3>3. QED
        BY <1>1, <3>1, <3>2 DEF ReaderInv, PrefixFree
    <2>2. QED
      BY <2>1
  <1>8. \A k, m \in 1..Len(Tail(pending)) : \A b \in Bodies :
            Extends(b, Tail(pending)[k]) /\ Extends(b, Tail(pending)[m]) => k = m
    <2>1. ASSUME NEW k \in 1..Len(Tail(pending)), NEW m \in 1..Len(Tail(pending)), NEW b \in Bodies,
                 Extends(b, Tail(pending)[k]), Extends(b, Tail(pending)[m])
          PROVE  k = m
      <3>1. k + 1 \in 1..Len(pending) /\ m + 1 \in 1..Len(pending)
        BY <1>5
      <3>2. Extends(b, pending[k + 1]) /\ Extends(b, pending[m + 1])
        BY <1>5, <2>1
      <3>3. k + 1 = m + 1
        BY <1>1, <3>1, <3>2 DEF ReaderInv, PrefixFree
      <3>4. QED
        BY <3>3
    <2>2. QED
      BY <2>1
  <1>9. \A e \in M : e.body \in Bodies
    BY <1>3, EntryTypes
  <1>10. CASE /\ Cardinality(R) < PageSize
              /\ Accepted(R) /\ taken' = Counted(R) /\ pending' = Tail(pending)
              /\ UNCHANGED <<stage, why, scope, todo, cursor, boundary>>
    <2>1. \A b : Awaited(b)' <=> Later(b)
      BY <1>10 DEF Awaited
    <2>2. PrefixFree'
      BY <1>8, <1>10 DEF PrefixFree
    <2>3. R = M
      BY <1>4, <1>10
    <2>4. \A e \in R : e.label = scope /\ e.at = boundary /\ Awaited(e.body) /\ ~ Awaited(e.body)'
      BY <1>6, <1>7, <1>9, <2>1, <2>3
    <2>5. \A e \in before : e.label = scope /\ e.at = boundary /\ Awaited(e.body) =>
                e \in R \/ Awaited(e.body)'
      BY <1>3, <1>6, <2>1, <2>3
    <2>6. QED
      BY <1>1, <1>3, <1>6, <1>10, <2>1, <2>2, <2>3, <2>4, <2>5, TieGoesOn
  <1>11. CASE /\ Cardinality(R) = PageSize /\ Exhausted(prefix)
              /\ Fail("unresolvable_timestamp_tie")
              /\ UNCHANGED <<scope, todo, cursor, boundary, pending, taken>>
    <2>1. PICK e \in R : TRUE
      BY <1>4, <1>11
    <2>2. \A d \in R : d.at = e.at /\ d.body = e.body /\ d \in loki
      <3>1. ASSUME NEW d \in R
            PROVE  d.body = e.body
        BY <1>3, <1>4, <1>9, <1>11, ExhaustedPrefix
      <3>2. QED
        BY <1>4, <3>1
    <2> DEFINE C == {d \in loki : d.at = e.at /\ d.body = e.body}
    <2>3. C \in SUBSET Entries /\ R \in SUBSET C
      BY <1>3, <2>2
    <2>4. IsFiniteSet(C)
      BY <2>3, FS_Subset, ReaderAssumption
    <2>5. Cardinality(R) <= Cardinality(C) /\ Cardinality(C) \in Nat
      BY <2>3, <2>4, FS_Subset, FS_CardinalityType
    <2>6. Cardinality(C) >= PageSize
      BY <1>11, <2>5, ReaderAssumption
    <2>7. TiesRefusedRightly'
      BY <1>1, <2>2, <2>6 DEF TiesRefusedRightly
    <2>8. QED
      BY <1>1, <1>11, <2>7, ReaderFails DEF Fail
  <1>12. CASE /\ Cardinality(R) = PageSize /\ ~ Exhausted(prefix)
              /\ pending' = Children(prefix) \o Tail(pending)
              /\ UNCHANGED <<stage, why, scope, todo, cursor, boundary, taken>>
    <2> DEFINE n == Len(Alphabet)
    <2>1. /\ Children(prefix) \in Seq(Seq(Nat)) /\ Len(Children(prefix)) = n /\ n \in Nat
          /\ pending' \in Seq(Seq(Nat)) /\ Len(pending') = n + Len(Tail(pending))
          /\ \A k \in 1..n : pending'[k] = Children(prefix)[k]
          /\ \A k \in 1..Len(Tail(pending)) : pending'[n + k] = Tail(pending)[k]
      <3>1. Children(prefix) \in Seq(Seq(Nat)) /\ Len(Children(prefix)) = n /\ n \in Nat
        BY <1>3, ChildrenType, AlphabetType
      <3>2. Tail(pending) \in Seq(Seq(Nat)) /\ pending' = Children(prefix) \o Tail(pending)
        BY <1>3, <1>12
      <3>3. PICK s \in Seq(Seq(Nat)) : s = Children(prefix)
        BY <3>1
      <3>4. PICK t \in Seq(Seq(Nat)) : t = Tail(pending)
        BY <3>2
      <3>5. /\ s \o t \in Seq(Seq(Nat)) /\ Len(s \o t) = Len(s) + Len(t)
            /\ \A k \in 1..Len(s) : (s \o t)[k] = s[k]
            /\ \A k \in 1..Len(t) : (s \o t)[Len(s) + k] = t[k]
        BY Joined
      <3>6. pending' = s \o t /\ Len(s) = n
        BY <3>1, <3>2, <3>3, <3>4
      <3>7. QED
        BY ONLY <3>1, <3>3, <3>4, <3>5, <3>6
    <2>2. \A k \in 1..Len(pending') : k \in 1..n \/ (k - n \in 1..Len(Tail(pending)) /\ k = n + (k - n))
      BY <1>5, <2>1
    <2>3. ASSUME NEW b \in Bodies
          PROVE  Awaited(b)' <=> Awaited(b)
      <3>1. Extends(b, prefix) <=> \E i \in 1..n : Extends(b, Children(prefix)[i])
        BY <1>3, <1>12, SplitPrefix
      <3>2. Awaited(b)' <=> \E k \in 1..Len(pending') : Extends(b, pending'[k])
        BY DEF Awaited
      <3>3. ASSUME Awaited(b)'
            PROVE  Awaited(b)
        <4>1. PICK k \in 1..Len(pending') : Extends(b, pending'[k])
          BY <3>2, <3>3
        <4>2. CASE k \in 1..n
          BY <1>6, <2>1, <3>1, <4>1, <4>2
        <4>3. CASE k - n \in 1..Len(Tail(pending)) /\ k = n + (k - n)
          <5>1. Extends(b, Tail(pending)[k - n])
            BY <2>1, <4>1, <4>3
          <5>2. QED
            BY <1>6, <4>3, <5>1
        <4>4. QED
          BY <2>2, <4>2, <4>3
      <3>4. ASSUME Awaited(b)
            PROVE  Awaited(b)'
        <4>1. CASE Extends(b, prefix)
          <5>1. PICK i \in 1..n : Extends(b, Children(prefix)[i])
            BY <3>1, <4>1
          <5>2. i \in 1..Len(pending') /\ Extends(b, pending'[i])
            BY <1>5, <2>1, <5>1
          <5>3. QED
            BY <3>2, <5>2
        <4>2. CASE Later(b)
          <5>1. PICK k \in 1..Len(Tail(pending)) : Extends(b, Tail(pending)[k])
            BY <4>2
          <5>2. n + k \in 1..Len(pending') /\ Extends(b, pending'[n + k])
            BY <1>5, <2>1, <5>1
          <5>3. QED
            BY <3>2, <5>2
        <4>3. QED
          BY <1>6, <3>4, <4>1, <4>2
      <3>5. QED
        BY <3>3, <3>4
    <2>4. PrefixFree'
      <3>1. ASSUME NEW k \in 1..Len(pending'), NEW m \in 1..Len(pending'), NEW b \in Bodies,
                   Extends(b, pending'[k]), Extends(b, pending'[m])
            PROVE  k = m
        <4>1. Extends(b, prefix) <=> \E i \in 1..n : Extends(b, Children(prefix)[i])
          BY <1>3, <1>12, SplitPrefix
        <4>2. \A i, j \in 1..n : Extends(b, Children(prefix)[i]) /\ Extends(b, Children(prefix)[j]) => i = j
          BY <1>3, <1>12, SplitPrefix
        <4>3. CASE k \in 1..n /\ m \in 1..n
          BY <2>1, <3>1, <4>2, <4>3
        <4>4. ASSUME NEW x \in 1..n, NEW y \in 1..Len(Tail(pending)),
                     Extends(b, pending'[x]), Extends(b, pending'[n + y])
              PROVE  FALSE
          <5>1. Extends(b, prefix)
            BY <2>1, <4>1, <4>4
          <5>2. Extends(b, Tail(pending)[y])
            BY <2>1, <4>4
          <5>3. QED
            BY <1>7, <5>1, <5>2
        <4>5. CASE k - n \in 1..Len(Tail(pending)) /\ m - n \in 1..Len(Tail(pending))
                   /\ k = n + (k - n) /\ m = n + (m - n)
          <5>1. Extends(b, Tail(pending)[k - n]) /\ Extends(b, Tail(pending)[m - n])
            BY <2>1, <3>1, <4>5
          <5>2. k - n = m - n
            BY <1>8, <4>5, <5>1
          <5>3. QED
            BY <4>5, <5>2
        <4>6. QED
          BY <2>2, <3>1, <4>3, <4>4, <4>5
      <3>2. QED
        BY <3>1 DEF PrefixFree
    <2>5. taken' = Counted({}) /\ Accepted({})
      BY <1>3, <1>12 DEF Counted, Accepted
    <2>6. \A e \in before : e.body \in Bodies
      BY <1>3, EntryTypes
    <2>7. QED
      BY <1>1, <1>3, <1>12, <2>1, <2>3, <2>4, <2>5, <2>6, TieGoesOn
  <1>13. CASE /\ Cardinality(R) < PageSize
              /\ AddRows(R, /\ pending' = Tail(pending)
                            /\ UNCHANGED <<stage, why, scope, todo, cursor, boundary>>)
    <2>1. \/ ReaderInv'
          \/ /\ Accepted(R) /\ taken' = Counted(R)
             /\ pending' = Tail(pending) /\ UNCHANGED <<stage, why, scope, todo, cursor, boundary>>
      BY <1>1, <1>13, AddRowsCases
    <2>2. QED
      BY <1>10, <1>13, <2>1
  <1>14. QED
    BY <1>2, <1>11, <1>12, <1>13

\* With no prefix left, everything up to the boundary is behind.
LEMMA BoundaryResolvedStep == ReaderInv /\ BoundaryResolved => ReaderInv'
  <1> SUFFICES ASSUME ReaderInv, BoundaryResolved
               PROVE  ReaderInv'
    OBVIOUS
  <1>1. /\ stage = "tie" /\ pending = <<>> /\ cursor' = boundary + 1 /\ stage' = "page"
        /\ UNCHANGED <<loki, before, why, scope, todo, boundary, pending, taken, queries>>
    BY DEF BoundaryResolved
  <1>2. /\ cursor \in Nat /\ boundary \in Nat /\ queries \in Nat /\ pending \in Seq(Seq(Nat))
        /\ taken \in [Entries -> Nat] /\ Start <= cursor /\ cursor <= boundary
    BY <1>1 DEF ReaderInv, ReaderTypes, CursorInside, Running
  <1>3. CursorInside' /\ PrefixFree'
    BY <1>1, <1>2, StartType DEF CursorInside, PrefixFree, Start
  <1>4. taken' = Counted({}) /\ Accepted({})
    BY <1>1, <1>2 DEF Counted, Accepted
  <1>5. ASSUME NEW e \in Entries
        PROVE  Behind(e)' <=> Behind(e)
    <2>1. e.at \in Nat
      BY EntryTypes
    <2>2. ~ Awaited(e.body)
      BY <1>1 DEF Awaited
    <2>3. Behind(e) <=> e.at < cursor \/ e.at < boundary \/ e.at = boundary
      BY <1>1, <2>2 DEF Behind
    <2>4. Behind(e)' <=> e.at < boundary + 1
      BY <1>1 DEF Behind
    <2>5. QED
      BY <1>2, <2>1, <2>3, <2>4
  <1>6. QED
    BY <1>1, <1>2, <1>3, <1>4, <1>5, WithinScope DEF Running

\* A late entry is not taken, and what was taken is still there.
LEMMA ArriveStep == \A e \in Entries : ReaderInv /\ Arrive(e) => ReaderInv'
  <1> SUFFICES ASSUME NEW e \in Entries, ReaderInv, Arrive(e)
               PROVE  ReaderInv'
    OBVIOUS
  <1>1. /\ loki' = loki \cup {e} /\ stage \in Running
        /\ UNCHANGED <<before, stage, why, scope, todo, cursor, boundary, pending, taken, queries>>
    BY DEF Arrive, Running
  <1>2. ReaderTypes'
    BY <1>1 DEF ReaderInv, ReaderTypes
  <1>3. ScopesInOrder' /\ CursorInside' /\ PrefixFree' /\ TakenBelongs'
    BY <1>1 DEF ReaderInv, ScopesInOrder, CursorInside, PrefixFree, TakenBelongs,
                SessionsFound, Records, Start
  <1>4. NothingRepeated'
    <2>1. ASSUME NEW d \in Entries
          PROVE  taken[d] <= (IF d \in loki' /\ Covered(d) THEN 1 ELSE 0)
      <3>1. taken[d] <= (IF d \in loki /\ Covered(d) THEN 1 ELSE 0) /\ taken[d] \in Nat
        BY DEF ReaderInv, NothingRepeated, ReaderTypes
      <3>2. QED
        BY <1>1, <3>1
    <2>2. QED
      BY <1>1, <2>1, WindowFixed DEF NothingRepeated
  <1>5. \A d : Done(d)' <=> Done(d)
    BY <1>1 DEF Done, Behind, Awaited, Finished, SessionsFound, Records
  <1>6. DoneTaken'
    BY <1>1, <1>5, WindowFixed DEF ReaderInv, DoneTaken
  <1>7. why' = "" /\ TiesRefusedRightly'
    BY <1>1 DEF ReaderInv, TiesRefusedRightly
  <1>8. QED
    BY <1>2, <1>3, <1>4, <1>6, <1>7 DEF ReaderInv

\* Every step of the reader, and of Loki under it, preserves the invariant.
LEMMA ReaderStep == ReaderInv /\ (Reader \/ \E e \in Entries : Arrive(e)) => ReaderInv'
  <1> SUFFICES ASSUME ReaderInv, Reader \/ \E e \in Entries : Arrive(e)
               PROVE  ReaderInv'
    OBVIOUS
  <1>1. CASE \E reason \in {"query_budget_exceeded", "loki_request_failed"} : Refused(reason)
    <2>1. /\ stage' = "incomplete" /\ why' # "unresolvable_timestamp_tie"
          /\ UNCHANGED <<loki, before, scope, todo, cursor, boundary, pending, taken, queries>>
      BY <1>1 DEF Refused, Fail
    <2>2. queries' \in Nat /\ TiesRefusedRightly'
      BY <2>1 DEF ReaderInv, ReaderTypes, TiesRefusedRightly
    <2>3. QED
      BY <2>1, <2>2, ReaderFails
  <1>2. QED
    BY <1>1, PageStep, WindowReadStep, TieStep, BoundaryResolvedStep, ArriveStep DEF Reader

LEMMA ReaderInit == LokiInit => ReaderInv
  <1> SUFFICES ASSUME LokiInit
               PROVE  ReaderInv
    OBVIOUS
  <1>1. /\ loki \subseteq Entries /\ before = loki /\ why = "" /\ scope = GroupScope /\ todo = {}
        /\ cursor = Start /\ boundary = Start /\ queries = 0
    BY DEF LokiInit
  <1>2. taken \in [Entries -> Nat] /\ \A e \in Entries : taken[e] = 0
    BY DEF LokiInit
  <1>3. pending \in Seq(Seq(Nat))
    <2>1. pending = <<>>
      BY DEF LokiInit
    <2>2. QED
      BY <2>1
  <1>4. (Start < To => stage = "page") /\ (~ (Start < To) => stage = "complete")
    BY DEF LokiInit
  <1>a. stage \in {"page", "complete"}
    BY <1>4
  <1>b. ReaderTypes
    BY <1>1, <1>2, <1>3, <1>a, StartType DEF ReaderTypes, Running
  <1>c. ScopesInOrder /\ CursorInside /\ PrefixFree /\ TakenBelongs
    <2>1. ScopesInOrder
      BY <1>1 DEF ScopesInOrder
    <2>2. CursorInside
      <3>1. cursor = Start
        BY <1>1
      <3>2. Start <= Start
        BY StartType
      <3>3. QED
        BY <1>a, <3>1, <3>2 DEF CursorInside
    <2>3. PrefixFree
      BY <1>a DEF PrefixFree
    <2>4. TakenBelongs
      BY <1>2 DEF TakenBelongs
    <2>5. QED
      BY <2>1, <2>2, <2>3, <2>4
  <1>d. TiesRefusedRightly
    BY <1>1 DEF TiesRefusedRightly
  <1>5. NothingRepeated
    BY <1>2 DEF NothingRepeated
  <1>6. DoneTaken
    <2>1. ASSUME NEW e \in Entries, Covered(e)
          PROVE  ~ Done(e)
      <3>1. Start <= e.at /\ e.at < To /\ e.at \in Nat
        BY <2>1, EntryTypes DEF Covered
      <3>2. stage = "page"
        BY <1>4, <3>1, StartType
      <3>3. Finished = {}
        BY <1>1, <3>2 DEF Finished
      <3>4. ~ Behind(e)
        <4>1. cursor = Start
          BY <1>1
        <4>2. QED
          BY <3>1, <3>2, <4>1, StartType DEF Behind
      <3>5. QED
        BY <3>3, <3>4 DEF Done
    <2>2. QED
      BY <1>2, <2>1 DEF DoneTaken
  <1>7. QED
    BY <1>1, <1>5, <1>6, <1>b, <1>c, <1>d DEF ReaderInv

\* When the investigation is complete, the scopes done are all the relevant ones.
LEMMA ReaderInvImplies == ReaderInv => NothingMissed /\ NothingForeign
  <1> SUFFICES ASSUME ReaderInv
               PROVE  NothingMissed /\ NothingForeign
    OBVIOUS
  <1>1. ASSUME stage = "complete", NEW e \in before, Relevant(e)
        PROVE  taken[e] > 0
    <2>1. e \in Entries
      BY DEF ReaderInv, ReaderTypes
    <2>2. Done(e) /\ Covered(e)
      BY <1>1 DEF Done, Finished, Relevant
    <2>3. QED
      BY <1>1, <2>1, <2>2 DEF ReaderInv, DoneTaken
  <1>2. NothingForeign
    BY DEF ReaderInv, TakenBelongs, NothingForeign
  <1>3. QED
    BY <1>1, <1>2 DEF NothingMissed

-----------------------------------------------------------------------------
(* The bundle and the command's exit *)


Names == {"target", "temp"}
Contents == {Absent, "mine", "other"}
Reading == {"validate", "loki", "jsonl"}
Preparing == {"emit", "fsync", "link"}

PublishTypes ==
    /\ step \in Reading \cup Preparing \cup {"write", "sync", "rollback", "rollback sync", "cleanup",
                                             "cleanup sync", "exited", "off"}
    /\ report \in {"none", "incomplete", "written", "not written", "uncertain"}
    /\ dir \in [Names -> Contents] /\ disk \in [Names -> Contents]
    /\ synced \in BOOLEAN /\ theirs \in BOOLEAN

\* The name stands for this run's bundle neither now nor after a power loss.
NotMine == dir["target"] # "mine" /\ disk["target"] # "mine"

\* The names before, while and after the bundle is prepared, linked and synced.
NamesByStep ==
    /\ step \in Reading \cup {"write"} =>
        report = "none" /\ NotMine /\ dir["temp"] = Absent /\ disk["temp"] = Absent
    /\ step \in Preparing => report = "none" /\ NotMine
    /\ step \in {"fsync", "link"} => bundle.whole
    /\ step = "link" => synced
    /\ step \in {"sync", "rollback"} =>
        report = "none" /\ dir["target"] = "mine" /\ synced /\ bundle.whole
    /\ step = "rollback sync" => report = "none" /\ dir["target"] # "mine"

\* What the clean-up is going to report.
ReportByStep ==
    step \in {"cleanup", "cleanup sync"} =>
        /\ report \in {"written", "not written", "uncertain"}
        /\ report = "written" => dir["target"] = "mine" /\ disk["target"] = "mine" /\ synced
        /\ report = "not written" => NotMine
        /\ step = "cleanup sync" => dir["temp"] = Absent

PublishInv ==
    /\ PublishTypes
    /\ theirs => dir["target"] = "other"
    /\ ~ NotMine => bundle.whole /\ synced
    /\ NamesByStep
    /\ ReportByStep
    /\ ReportTruthful

LEMMA PublishInit == InvestigationInit => PublishInv
  <1> SUFFICES ASSUME InvestigationInit
               PROVE  PublishInv
    OBVIOUS
  <1>1. theirs \in BOOLEAN /\ (theirs => dir["target"] = "other")
    BY Zenon DEF InvestigationInit
  <1>2. synced \in BOOLEAN /\ step = "validate" /\ report = "none" /\ disk = dir /\ dir["temp"] = Absent
        /\ dir \in [Names -> Contents] /\ dir["target"] # "mine"
    BY DEF InvestigationInit, Names, Contents, Absent
  <1>3. QED
    BY <1>1, <1>2 DEF PublishInv, PublishTypes, NotMine, NamesByStep, ReportByStep,
         ReportTruthful, Names, Contents, Reading, Preparing, Absent

\* The steps before the bundle is written leave all of it alone.
LEMMA PublishReading ==
    ASSUME PublishInv, UNCHANGED <<dir, disk, bundle, synced, theirs>>, step \in Reading,
           \/ step' \in Reading \cup {"write"} /\ report' = report
           \/ step' = "exited" /\ report' = "incomplete"
    PROVE  PublishInv'
  BY DEF PublishInv, PublishTypes, NotMine, NamesByStep, ReportByStep, ReportTruthful,
         Names, Contents, Reading, Preparing, Absent

\* One step per action of the command, the other run and the machine.
LEMMA PublishStep == PublishInv /\ [InvestigationNext]_everything => PublishInv'
  <1> SUFFICES ASSUME PublishInv, [InvestigationNext]_everything
               PROVE  PublishInv'
    OBVIOUS
  <1> USE DEF PublishInv, PublishTypes, NotMine, NamesByStep, ReportByStep, ReportTruthful,
              Names, Contents, Reading, Preparing, Absent, Goto, Exit, Writing, Unlink, Abandon,
              Uncertain, SyncOrElse
  <1>1. CASE Validate
    BY <1>1, PublishReading DEF Validate
  <1>2. CASE ReadLoki
    BY <1>2 DEF ReadLoki, cli
  <1>3. CASE LokiRead
    BY <1>3, PublishReading DEF LokiRead
  <1>4. CASE ReadLine
    BY <1>4, PublishReading DEF ReadLine
  <1>5. CASE NextFile
    BY <1>5, PublishReading DEF NextFile
  <1>6. CASE ReadFails
    BY <1>6, PublishReading DEF ReadFails
  <1>7. CASE \E i \in 1..Len(files), b \in Bodies : RecorderWrites(i, b)
    BY <1>7, PublishReading DEF RecorderWrites
  <1>8. CASE CreateTemp
    BY <1>8 DEF CreateTemp
  <1>9. CASE Emit
    <2>1. step' = "fsync" => bundle'.whole
      BY <1>9 DEF Emit
    <2>2. step = "emit" /\ step' \in {"fsync", "cleanup"} /\ UNCHANGED <<theirs, dir, disk, synced>>
          /\ (step' = "fsync" => report' = report) /\ (step' = "cleanup" => report' = "not written")
      BY <1>9 DEF Emit
    <2>3. QED
      BY <2>1, <2>2
  <1>10. CASE Fsync
    <2>1. step = "fsync" /\ step' \in {"link", "cleanup"} /\ UNCHANGED <<theirs, dir, disk, bundle>>
          /\ (step' = "link" => synced' = TRUE /\ report' = report)
          /\ (step' = "cleanup" => synced' = synced /\ report' = "not written")
      BY <1>10 DEF Fsync
    <2>2. QED
      BY <2>1
  <1>11. CASE Link
    BY <1>11 DEF Link
  <1>12. CASE SyncTarget
    BY <1>12 DEF SyncTarget
  <1>13. CASE Rollback
    BY <1>13 DEF Rollback
  <1>14. CASE SyncRollback
    BY <1>14 DEF SyncRollback
  <1>15. CASE CleanUp
    BY <1>15 DEF CleanUp
  <1>16. CASE SyncCleanUp
    BY <1>16 DEF SyncCleanUp
  <1>17. CASE OtherPublishes
    BY <1>17 DEF OtherPublishes
  <1>18. CASE OtherWithdraws
    BY <1>18 DEF OtherWithdraws
  <1>19. CASE Killed
    BY <1>19 DEF Killed
  <1>20. CASE PowerLoss
    <2>1. theirs' \in BOOLEAN /\ (theirs' => dir'["target"] = "other")
      BY <1>20, Zenon DEF PowerLoss
    <2>2. step' = "off" /\ dir' = disk' /\ dir' \in [Names -> Contents]
          /\ \A n \in Names : dir'[n] \in {disk[n], dir[n]}
      BY <1>20 DEF PowerLoss
    <2>3. (synced => bundle' = bundle) /\ bundle' \in {bundle, Partial} /\ synced' = synced
          /\ ((report' = report /\ step = "exited") \/ report' = "none")
      BY <1>20 DEF PowerLoss
    <2>4. QED
      BY <2>1, <2>2, <2>3
  <1>21. CASE Ended \/ UNCHANGED everything
    <2>1. UNCHANGED <<step, report, dir, disk, bundle, synced, theirs>>
      BY <1>21 DEF Ended, everything, cli
    <2>2. QED
      BY <2>1
  <1>22. QED
    BY <1>1, <1>2, <1>3, <1>4, <1>5, <1>6, <1>7, <1>8, <1>9, <1>10, <1>11, <1>12, <1>13, <1>14,
       <1>15, <1>16, <1>17, <1>18, <1>19, <1>20, <1>21 DEF InvestigationNext

\* What the command prints is true and stays true.
THEOREM ReportsTrue == InvestigationSpec => []ReportTruthful
  <1>1. PublishInv => ReportTruthful
    BY DEF PublishInv
  <1>2. QED
    BY PublishInit, PublishStep, <1>1, PTL DEF InvestigationSpec

-----------------------------------------------------------------------------
(* The lines of the files, and the recorder *)

AnyLine == Bodies \cup {Torn, Blank, Bad}

\* A line is named by its file and its place in it.
LEMMA LineNames ==
    ASSUME NEW fs, NEW l
    PROVE  l \in Lines(fs) <=>
             \E i \in 1..Len(fs) : \E j \in 1..Len(fs[i]) : l = <<i, j>>
  BY DEF Lines

LEMMA LinesFinite ==
    ASSUME NEW fs \in Seq(Seq(AnyLine))
    PROVE  IsFiniteSet(Lines(fs))
  <1> DEFINE row == [i \in 1..Len(fs) |-> {i} \X (1..Len(fs[i]))]
             rows == {{i} \X (1..Len(fs[i])) : i \in 1..Len(fs)}
  <1>1. Len(fs) \in Nat /\ \A i \in 1..Len(fs) : Len(fs[i]) \in Nat
    OBVIOUS
  <1>2. row \in Surjection(1..Len(fs), rows)
    BY DEF Surjection
  <1>3. IsFiniteSet(rows)
    BY <1>1, <1>2, FS_Surjection, FS_Interval
  <1>4. \A i \in 1..Len(fs) : IsFiniteSet({i} \X (1..Len(fs[i])))
    <2>1. ASSUME NEW i \in 1..Len(fs)
          PROVE  IsFiniteSet({i} \X (1..Len(fs[i])))
      <3>1. IsFiniteSet({i})
        BY FS_Singleton
      <3>2. IsFiniteSet(1..Len(fs[i]))
        <4>1. 1 \in Int /\ Len(fs[i]) \in Int
          BY <1>1
        <4>2. QED
          BY ONLY <4>1, FS_Interval, Zenon
      <3>3. QED
        BY <3>1, <3>2, FS_Product
    <2>2. QED
      BY <2>1
  <1>5. \A T \in rows : IsFiniteSet(T)
    BY <1>4
  <1>6. Lines(fs) = UNION rows
    BY DEF Lines
  <1>7. QED
    BY <1>3, <1>5, <1>6, FS_UNION

\* The recorder appends, and changes no line but the one it was writing.
LEMMA RecorderAppends ==
    ASSUME NEW lines \in Seq(AnyLine), NEW b \in Bodies
    PROVE  /\ Written(lines, b) \in Seq(AnyLine)
           /\ Len(lines) <= Len(Written(lines, b))
           /\ \A j \in 1..Len(lines) : lines[j] # Torn => Written(lines, b)[j] = lines[j]
  <1>1. CASE lines # <<>> /\ lines[Len(lines)] = Torn
    BY <1>1 DEF Written, AnyLine
  <1>2. CASE ~ (lines # <<>> /\ lines[Len(lines)] = Torn)
    BY <1>2 DEF Written, AnyLine
  <1>3. QED
    BY <1>1, <1>2

-----------------------------------------------------------------------------
(* What is read *)

LineAt(l) == files[l[1]][l[2]]
Passed(l) == l[1] < place.file \/ (l[1] = place.file /\ l[2] < place.line)

\* R are the lines read: all the lines passed that were there from the start,
\* and of the later ones those the reader still met.
Tally(R) ==
    /\ R \subseteq Lines(files)
    /\ \A l \in R : Passed(l) /\ LineAt(l) # Torn
    /\ \A l \in Lines(given) : Passed(l) => l \in R
    /\ \A b \in Bodies : evidence[b] = Cardinality({l \in R : LineAt(l) = b})

\* The files only grow, and an ended line never changes.
Grown ==
    /\ Len(files) = Len(given)
    /\ \A i \in 1..Len(given) :
        /\ Len(given[i]) <= Len(files[i])
        /\ \A j \in 1..Len(given[i]) : given[i][j] # Torn => files[i][j] = given[i][j]

ReadTypes ==
    /\ files \in Seq(Seq(AnyLine)) /\ given \in Seq(Seq(AnyLine))
    /\ place \in [file : Nat \ {0}, line : Nat \ {0}, total : Nat]
    /\ evidence \in [Bodies -> Nat]

EvidenceWhole == \A b \in Bodies : Count(given, b) <= evidence[b] /\ evidence[b] <= Count(files, b)

\* The second part of PublishedWhole.
HoldsWhole ==
    \A b \in Bodies :
        \/ Count(given, b) <= bundle.holds[b] /\ bundle.holds[b] <= Count(files, b)
        \/ /\ bundle.holds[b] = 0 /\ ScopeOf[b] # GroupScope
           /\ \A c \in Read(bundle.holds) : ScopeOf[c] = GroupScope => SessionOf[c] # ScopeOf[b]

ReadInv ==
    /\ ReadTypes
    /\ Grown
    /\ step = "validate" => place = [file |-> 1, line |-> 1, total |-> 0] /\ evidence = NoEvidence
    /\ step = "loki" => files = <<>>
    /\ step = "jsonl" => \E R : Tally(R)
    /\ step \in Reading \cup {"write", "emit"} => bundle = Partial
    /\ step \in {"write", "emit"} /\ files # <<>> => EvidenceWhole
    /\ bundle = Partial \/ files = <<>> \/ HoldsWhole

LEMMA ReadInit == InvestigationInit => ReadInv
  <1> SUFFICES ASSUME InvestigationInit
               PROVE  ReadInv
    OBVIOUS
  <1>1. files \in Seq(Seq(AnyLine)) /\ given = files
    <2>1. files \in Sources \/ files = <<>>
      BY DEF InvestigationInit
    <2>2. Sources \subseteq Seq(Seq(AnyLine))
      BY InvestigationAssumption DEF AnyLine
    <2>3. <<>> \in Seq(Seq(AnyLine))
      OBVIOUS
    <2>4. QED
      BY <2>1, <2>2, <2>3 DEF InvestigationInit
  <1>2. ReadTypes
    BY <1>1 DEF InvestigationInit, ReadTypes, NoEvidence
  <1>3. Grown
    BY <1>1 DEF Grown
  <1>4. step = "validate" /\ place = [file |-> 1, line |-> 1, total |-> 0] /\ evidence = NoEvidence
        /\ bundle = Partial
    BY DEF InvestigationInit
  <1>5. QED
    BY <1>2, <1>3, <1>4 DEF ReadInv

\* The lines of the start are still there.
LEMMA GivenLines ==
    ASSUME ReadTypes, Grown
    PROVE  Lines(given) \subseteq Lines(files)
  <1>1. ASSUME NEW l \in Lines(given)
        PROVE  l \in Lines(files)
    <2>1. PICK i \in 1..Len(given) : \E j \in 1..Len(given[i]) : l = <<i, j>>
      BY LineNames
    <2>2. PICK j \in 1..Len(given[i]) : l = <<i, j>>
      BY <2>1
    <2>3. i \in 1..Len(files) /\ j \in 1..Len(files[i])
      BY <2>1, <2>2 DEF ReadTypes, Grown
    <2>4. QED
      BY <2>2, <2>3, LineNames
  <1>2. QED
    BY <1>1

\* Before the first line nothing is read.
LEMMA TallyStarts ==
    ASSUME ReadInv, step = "validate"
    PROVE  Tally({})
  <1>1. \A l \in Lines(given) : ~ Passed(l)
    <2>1. ASSUME NEW l \in Lines(given)
          PROVE  ~ Passed(l)
      <3>1. PICK i \in 1..Len(given) : \E j \in 1..Len(given[i]) : l = <<i, j>>
        BY LineNames DEF ReadInv, ReadTypes
      <3>2. PICK j \in 1..Len(given[i]) : l = <<i, j>>
        BY <3>1
      <3>3. place.file = 1 /\ place.line = 1
        BY DEF ReadInv
      <3>4. i \in Nat /\ j \in Nat /\ i >= 1 /\ j >= 1
        BY <3>1, <3>2 DEF ReadInv, ReadTypes
      <3>5. QED
        BY <3>2, <3>3, <3>4 DEF Passed
    <2>2. QED
      BY <2>1
  <1>2. \A b \in Bodies : evidence[b] = 0
    BY DEF ReadInv, NoEvidence
  <1>3. \A b : {l \in {} : LineAt(l) = b} = {}
    OBVIOUS
  <1>4. QED
    BY <1>1, <1>2, <1>3, FS_EmptySet DEF Tally

\* One line more is read: it was not read before, and counts once.
LEMMA TallyReads ==
    ASSUME ReadInv, ReadLine, step' = "jsonl"
    PROVE  (\E R : Tally(R))' /\ ReadTypes'
  <1> DEFINE file == place.file
             row == place.line
             line == files[file][row]
             here == <<file, row>>
  <1>1. /\ step = "jsonl" /\ file \in 1..Len(files) /\ row \in 1..Len(files[file])
        /\ UNCHANGED <<files, given>>
    <2>1. step = "jsonl" /\ file <= Len(files) /\ ~ (row > Len(files[file])) /\ UNCHANGED <<files, given>>
      BY DEF ReadLine, AtEnd
    <2>2. file \in Nat /\ file >= 1 /\ row \in Nat /\ row >= 1
      BY DEF ReadInv, ReadTypes
    <2>3. file \in 1..Len(files)
      BY <2>1, <2>2 DEF ReadInv, ReadTypes
    <2>4. Len(files[file]) \in Nat
      BY <2>3 DEF ReadInv, ReadTypes
    <2>5. QED
      BY <2>1, <2>2, <2>3, <2>4
  <1>2. /\ line # Torn
        /\ place' = [place EXCEPT !.line = @ + 1, !.total = @ + 1]
        /\ evidence' = IF line \in Bodies THEN [evidence EXCEPT ![line] = @ + 1] ELSE evidence
    BY <1>1 DEF ReadLine, Exit
  <1>3. place'.file = file /\ place'.line = row + 1 /\ ReadTypes'
    <2>1. place' \in [file : Nat \ {0}, line : Nat \ {0}, total : Nat]
          /\ place'.file = file /\ place'.line = row + 1
      <3>1. place \in [file : Nat \ {0}, line : Nat \ {0}, total : Nat]
        BY DEF ReadInv, ReadTypes
      <3>2. place.line + 1 \in Nat \ {0} /\ place.total + 1 \in Nat
        BY <3>1
      <3>3. QED
        BY ONLY <1>2, <3>1, <3>2
    <2>2. evidence' \in [Bodies -> Nat]
      BY <1>2 DEF ReadInv, ReadTypes
    <2>3. QED
      BY <1>1, <2>1, <2>2 DEF ReadInv, ReadTypes
  <1>4. PICK R : Tally(R)
    BY <1>1 DEF ReadInv
  <1>5. \A l : LineAt(l)' = LineAt(l)
    BY <1>1 DEF LineAt
  <1>6. here \in Lines(files) /\ here \notin R /\ LineAt(here) = line
    <2>1. here \in Lines(files)
      BY <1>1, LineNames
    <2>2. ~ Passed(here)
      BY <1>1 DEF Passed, ReadInv, ReadTypes
    <2>3. QED
      BY <1>4, <2>1, <2>2 DEF Tally, LineAt
  <1>7. \A l \in Lines(files) : Passed(l)' <=> Passed(l) \/ l = here
    <2>1. ASSUME NEW l \in Lines(files)
          PROVE  Passed(l)' <=> Passed(l) \/ l = here
      <3>1. PICK i \in 1..Len(files) : \E j \in 1..Len(files[i]) : l = <<i, j>>
        BY LineNames
      <3>2. PICK j \in 1..Len(files[i]) : l = <<i, j>>
        BY <3>1
      <3>3. i \in Nat /\ j \in Nat /\ file \in Nat /\ row \in Nat
        BY <1>1, <3>1, <3>2 DEF ReadInv, ReadTypes
      <3>4. QED
        BY <1>3, <3>2, <3>3 DEF Passed
    <2>2. QED
      BY <2>1
  <1>8. Lines(given) \subseteq Lines(files)
    BY GivenLines DEF ReadInv
  <1>0. PICK S : S = R \cup {here}
    OBVIOUS
  <1>9. ASSUME NEW b \in Bodies
        PROVE  evidence'[b] = Cardinality({l \in S : LineAt(l) = b})
    <2> DEFINE Q == {l \in R : LineAt(l) = b}
    <2>1. evidence[b] = Cardinality(Q) /\ evidence[b] \in Nat
      BY <1>4 DEF Tally, ReadInv, ReadTypes
    <2>2. IsFiniteSet(Q)
      <3>1. Q \in SUBSET Lines(files) /\ IsFiniteSet(Lines(files))
        BY <1>4, LinesFinite DEF Tally, ReadInv, ReadTypes
      <3>2. QED
        BY <3>1, FS_Subset
    <2>3. CASE line = b
      <3>1. {l \in S : LineAt(l) = b} = Q \cup {here} /\ here \notin Q
        BY <1>0, <1>6, <2>3
      <3>2. evidence'[b] = evidence[b] + 1
        BY <1>2, <2>3 DEF ReadInv, ReadTypes
      <3>3. Cardinality(Q \cup {here}) = Cardinality(Q) + 1
        BY <2>2, <3>1, FS_AddElement
      <3>4. QED
        BY <2>1, <3>1, <3>2, <3>3
    <2>4. CASE line # b
      <3>1. {l \in S : LineAt(l) = b} = Q
        BY <1>0, <1>6, <2>4
      <3>2. evidence'[b] = evidence[b]
        BY <1>2, <2>4 DEF ReadInv, ReadTypes
      <3>3. QED
        BY <2>1, <3>1, <3>2
    <2>5. QED
      BY <2>3, <2>4
  <1>10. Tally(S)'
    <2>1. S \subseteq Lines(files) /\ \A l \in S : Passed(l)' /\ LineAt(l) # Torn
      BY <1>0, <1>2, <1>4, <1>6, <1>7 DEF Tally
    <2>2. \A l \in Lines(given) : Passed(l)' => l \in S
      BY <1>0, <1>4, <1>7, <1>8 DEF Tally
    <2>3. \A b \in Bodies : {l \in S : LineAt(l)' = b} = {l \in S : LineAt(l) = b}
      BY <1>5
    <2>4. \A b \in Bodies : evidence'[b] = Cardinality({l \in S : LineAt(l)' = b})
      BY <1>9, <2>3
    <2>5. (S \subseteq Lines(files))' /\ (\A l \in S : Passed(l) /\ LineAt(l) # Torn)'
      BY <1>1, <1>5, <2>1
    <2>6. (\A l \in Lines(given) : Passed(l) => l \in S)'
      BY <1>1, <2>2
    <2>7. QED
      BY <2>4, <2>5, <2>6, Zenon DEF Tally
  <1>11. QED
    BY <1>3, <1>10

\* At the end of a file, all of its lines of the start are read.
LEMMA TallyTurns ==
    ASSUME ReadInv, NextFile
    PROVE  (\E R : Tally(R))' /\ ReadTypes' /\ UNCHANGED <<files, given, evidence>>
  <1>1. /\ step = "jsonl" /\ UNCHANGED <<files, given, evidence>>
        /\ place.file <= Len(files) /\ place.line > Len(files[place.file])
        /\ place' = [place EXCEPT !.file = @ + 1, !.line = 1]
    BY DEF NextFile, AtEnd
  <1>2. place \in [file : Nat \ {0}, line : Nat \ {0}, total : Nat]
    BY DEF ReadInv, ReadTypes
  <1>3. place' \in [file : Nat \ {0}, line : Nat \ {0}, total : Nat]
        /\ place'.file = place.file + 1 /\ place'.line = 1
    <2>1. place' = [place EXCEPT !.file = @ + 1, !.line = 1]
      BY <1>1
    <2>2. place.file + 1 \in Nat \ {0} /\ 1 \in Nat \ {0}
      BY <1>2
    <2>3. QED
      BY ONLY <1>2, <2>1, <2>2
  <1>4. PICK R : Tally(R)
    BY <1>1 DEF ReadInv
  <1>5. ASSUME NEW l \in Lines(given)
        PROVE  Passed(l)' <=> Passed(l)
    <2>1. PICK i \in 1..Len(given) : \E j \in 1..Len(given[i]) : l = <<i, j>>
      BY LineNames
    <2>2. PICK j \in 1..Len(given[i]) : l = <<i, j>>
      BY <2>1
    <2>3. i \in Nat /\ j \in Nat /\ j >= 1 /\ Len(given[i]) <= Len(files[i]) /\ j <= Len(given[i])
          /\ Len(given[i]) \in Nat /\ Len(files[i]) \in Nat
      BY <2>1, <2>2 DEF ReadInv, ReadTypes, Grown
    <2>4. Passed(l) <=> i < place.file \/ (i = place.file /\ j < place.line)
      BY <2>2 DEF Passed
    <2>5. Passed(l)' <=> i < place.file + 1 \/ (i = place.file + 1 /\ j < 1)
      BY <1>3, <2>2 DEF Passed
    <2>6. i = place.file => j < place.line
      BY <1>1, <1>2, <2>3
    <2>7. place.file \in Nat
      BY <1>2
    <2>8. QED
      BY <2>3, <2>4, <2>5, <2>6, <2>7
  <1>6. ASSUME NEW l \in R
        PROVE  Passed(l)'
    <2>1. l \in Lines(files) /\ Passed(l)
      BY <1>4 DEF Tally
    <2>2. PICK i \in 1..Len(files) : \E j \in 1..Len(files[i]) : l = <<i, j>>
      BY <2>1, LineNames
    <2>3. PICK j \in 1..Len(files[i]) : l = <<i, j>>
      BY <2>2
    <2>4. QED
      BY <1>2, <1>3, <2>1, <2>3 DEF Passed
  <1>7. \A l : LineAt(l)' = LineAt(l)
    BY <1>1 DEF LineAt
  <1>8. Tally(R)'
    <2>1. (R \subseteq Lines(files))' /\ (\A l \in R : Passed(l) /\ LineAt(l) # Torn)'
      BY <1>1, <1>4, <1>6, <1>7 DEF Tally
    <2>2. (\A l \in Lines(given) : Passed(l) => l \in R)'
      BY <1>1, <1>4, <1>5 DEF Tally
    <2>3. \A b \in Bodies : {l \in R : LineAt(l)' = b} = {l \in R : LineAt(l) = b}
      BY <1>7
    <2>4. (\A b \in Bodies : evidence[b] = Cardinality({l \in R : LineAt(l) = b}))'
      BY <1>1, <1>4, <2>3 DEF Tally
    <2>5. QED
      BY <2>1, <2>2, <2>4, Zenon DEF Tally
  <1>9. QED
    BY <1>1, <1>3, <1>8 DEF ReadInv, ReadTypes

\* When all files are read, every line of the start has been counted.
LEMMA AllRead ==
    ASSUME ReadTypes, Grown, NEW R, Tally(R), place.file = Len(files), AtEnd
    PROVE  EvidenceWhole
  <1>1. IsFiniteSet(Lines(files)) /\ R \in SUBSET Lines(files)
    BY LinesFinite DEF ReadTypes, Tally
  <1>2. Lines(given) \subseteq R
    <2>1. ASSUME NEW l \in Lines(given)
          PROVE  Passed(l)
      <3>1. PICK i \in 1..Len(given) : \E j \in 1..Len(given[i]) : l = <<i, j>>
        BY LineNames
      <3>2. PICK j \in 1..Len(given[i]) : l = <<i, j>>
        BY <3>1
      <3>3. i \in Nat /\ i <= Len(files) /\ j \in Nat /\ j <= Len(files[i]) /\ Len(files[i]) \in Nat
        BY <3>1, <3>2 DEF Grown, ReadTypes
      <3>4. QED
        BY <3>2, <3>3 DEF Passed, ReadTypes, AtEnd
    <2>2. QED
      BY <2>1 DEF Tally
  <1>3. ASSUME NEW b \in Bodies
        PROVE  Count(given, b) <= evidence[b] /\ evidence[b] <= Count(files, b)
    <2> DEFINE G == {l \in Lines(given) : given[l[1]][l[2]] = b}
               Q == {l \in R : LineAt(l) = b}
               F == {l \in Lines(files) : files[l[1]][l[2]] = b}
    <2>1. F \in SUBSET Lines(files) /\ Q \in SUBSET F
      BY <1>1 DEF LineAt
    <2>2. G \in SUBSET Q
      <3>1. ASSUME NEW l \in G
            PROVE  l \in Q
        <4>1. l \in Lines(given) /\ given[l[1]][l[2]] = b /\ l \in R
          BY <1>2
        <4>2. PICK i \in 1..Len(given) : \E j \in 1..Len(given[i]) : l = <<i, j>>
          BY <4>1, LineNames
        <4>3. PICK j \in 1..Len(given[i]) : l = <<i, j>>
          BY <4>2
        <4>4. given[i][j] = b /\ b # Torn
          BY <4>1, <4>3, InvestigationAssumption
        <4>5. files[i][j] = b
          BY <4>4 DEF Grown
        <4>6. QED
          BY <4>1, <4>3, <4>5 DEF LineAt
      <3>2. QED
        BY <3>1
    <2>3. IsFiniteSet(F) /\ IsFiniteSet(Q)
      BY <1>1, <2>1, FS_Subset
    <2>4. Cardinality(G) <= Cardinality(Q) /\ Cardinality(Q) <= Cardinality(F)
      BY <2>1, <2>2, <2>3, FS_Subset
    <2>5. evidence[b] = Cardinality(Q)
      BY DEF Tally
    <2>6. QED
      BY <2>4, <2>5 DEF Count
  <1>4. QED
    BY <1>3 DEF EvidenceWhole

\* The recorder's writes change no line that was read.
LEMMA TallyKept ==
    ASSUME ReadInv, NEW i \in 1..Len(files), NEW b \in Bodies, RecorderWrites(i, b)
    PROVE  (\E R : Tally(R))' /\ ReadTypes' /\ Grown'
  <1>1. /\ step = "jsonl" /\ UNCHANGED <<given, place, evidence>>
        /\ files' = [files EXCEPT ![i] = Written(files[i], b)]
    BY DEF RecorderWrites
  <1>2. files \in Seq(Seq(AnyLine)) /\ files[i] \in Seq(AnyLine)
    BY DEF ReadInv, ReadTypes
  <1>3. Written(files[i], b) \in Seq(AnyLine)
    BY <1>2, RecorderAppends
  <1>4. files' \in Seq(Seq(AnyLine)) /\ Len(files') = Len(files)
    BY <1>1, <1>2, <1>3
  <1>5. ASSUME NEW k \in 1..Len(files)
        PROVE  /\ Len(files[k]) \in Nat /\ Len(files'[k]) \in Nat /\ Len(files[k]) <= Len(files'[k])
               /\ \A j \in 1..Len(files[k]) : files[k][j] # Torn => files'[k][j] = files[k][j]
    <2>1. CASE k = i
      <3>1. files'[k] = Written(files[k], b)
        BY <1>1, <1>2, <2>1
      <3>2. QED
        <4>1. Len(files[k]) <= Len(Written(files[k], b))
              /\ \A j \in 1..Len(files[k]) : files[k][j] # Torn => Written(files[k], b)[j] = files[k][j]
          BY <1>2, <2>1, RecorderAppends
        <4>2. Len(files[k]) \in Nat /\ Len(files'[k]) \in Nat
          BY <1>2, <1>3, <2>1, <3>1
        <4>3. QED
          BY <3>1, <4>1, <4>2
    <2>2. CASE k # i
      <3>1. files'[k] = files[k]
        BY <1>1, <1>2, <2>2
      <3>2. QED
        BY <1>2, <3>1
    <2>3. QED
      BY <2>1, <2>2
  <1>6. ReadTypes'
    BY <1>1, <1>4 DEF ReadInv, ReadTypes
  <1>7. Grown'
    <2>1. Len(files') = Len(given')
      BY <1>1, <1>4 DEF ReadInv, Grown
    <2>2. ASSUME NEW k \in 1..Len(given)
          PROVE  /\ Len(given[k]) <= Len(files'[k])
                 /\ \A j \in 1..Len(given[k]) : given[k][j] # Torn => files'[k][j] = given[k][j]
      <3>1. k \in 1..Len(files) /\ Len(given[k]) <= Len(files[k]) /\ Len(given[k]) \in Nat
            /\ \A j \in 1..Len(given[k]) : given[k][j] # Torn => files[k][j] = given[k][j]
        BY DEF ReadInv, ReadTypes, Grown
      <3>2. QED
        BY <1>5, <3>1
    <2>3. QED
      BY <1>1, <2>1, <2>2 DEF Grown
  <1>8. PICK R : Tally(R)
    BY <1>1 DEF ReadInv
  <1>9. ASSUME NEW l \in Lines(files)
        PROVE  l \in Lines(files') /\ (LineAt(l) # Torn => LineAt(l)' = LineAt(l))
    <2>1. PICK k \in 1..Len(files) : \E j \in 1..Len(files[k]) : l = <<k, j>>
      BY LineNames
    <2>2. PICK j \in 1..Len(files[k]) : l = <<k, j>>
      BY <2>1
    <2>3. k \in 1..Len(files') /\ j \in 1..Len(files'[k])
      <3>1. Len(files[k]) \in Nat /\ Len(files'[k]) \in Nat /\ Len(files[k]) <= Len(files'[k])
        BY <1>5
      <3>2. QED
        BY <1>4, <3>1
    <2>4. l \in Lines(files')
      BY <2>2, <2>3, LineNames
    <2>5. QED
      BY <1>5, <2>2, <2>4 DEF LineAt
  <1>10. \A l \in R : l \in Lines(files) /\ l \in Lines(files') /\ LineAt(l) # Torn /\ LineAt(l)' = LineAt(l)
    BY <1>8, <1>9 DEF Tally
  <1>11. \A l : Passed(l)' <=> Passed(l)
    BY <1>1 DEF Passed
  <1>12. Tally(R)'
    <2>1. (R \subseteq Lines(files))' /\ (\A l \in R : Passed(l) /\ LineAt(l) # Torn)'
      BY <1>8, <1>10, <1>11 DEF Tally
    <2>2. (\A l \in Lines(given) : Passed(l) => l \in R)'
      BY <1>1, <1>8, <1>11 DEF Tally
    <2>3. \A c \in Bodies : {l \in R : LineAt(l)' = c} = {l \in R : LineAt(l) = c}
      BY <1>10
    <2>4. (\A c \in Bodies : evidence[c] = Cardinality({l \in R : LineAt(l) = c}))'
      BY <1>1, <1>8, <2>3 DEF Tally
    <2>5. QED
      BY <2>1, <2>2, <2>4, Zenon DEF Tally
  <1>13. QED
    BY <1>6, <1>7, <1>12

\* The bundle holds the selected bodies, each as often as the evidence: it leaves
\* out only the context of sessions that the group's records do not name.
LEMMA SelectionWhole ==
    ASSUME ReadTypes, EvidenceWhole, UNCHANGED <<files, given>>,
           bundle' = [whole |-> TRUE, holds |->
                        [b \in Bodies |-> IF b \in selected(evidence) THEN evidence[b] ELSE 0]]
    PROVE  HoldsWhole'
  <1> DEFINE holds == [b \in Bodies |-> IF b \in selected(evidence) THEN evidence[b] ELSE 0]
  <1>1. bundle'.holds = holds
    OBVIOUS
  <1>2. ASSUME NEW c \in Bodies, holds[c] > 0
        PROVE  c \in Read(evidence)
    BY <1>2 DEF Read, selected, GroupRows, ReadTypes
  <1>3. ASSUME NEW b \in Bodies
        PROVE  \/ Count(given, b) <= holds[b] /\ holds[b] <= Count(files, b)
               \/ /\ holds[b] = 0 /\ ScopeOf[b] # GroupScope
                  /\ \A c \in Read(holds) : ScopeOf[c] = GroupScope => SessionOf[c] # ScopeOf[b]
    <2>1. CASE b \in selected(evidence)
      BY <2>1 DEF EvidenceWhole
    <2>2. CASE evidence[b] = 0
      BY <2>2 DEF EvidenceWhole
    <2>3. CASE evidence[b] # 0 /\ b \notin selected(evidence)
      <3>1. b \in Read(evidence)
        BY <2>3 DEF Read, ReadTypes
      <3>2. ScopeOf[b] # GroupScope /\ ScopeOf[b] \notin complete_sessions(evidence)
        BY <2>3, <3>1 DEF selected, GroupRows
      <3>3. ASSUME NEW c \in Read(holds), ScopeOf[c] = GroupScope
            PROVE  SessionOf[c] # ScopeOf[b]
        <4>1. c \in GroupRows(evidence)
          BY <1>2, <3>3 DEF Read, GroupRows
        <4>2. SessionOf[c] \in complete_sessions(evidence) \/ SessionOf[c] = NoSession
          BY <4>1 DEF complete_sessions
        <4>3. ScopeOf[b] # NoSession
          BY ReaderAssumption DEF Scopes
        <4>4. QED
          BY <3>2, <4>2, <4>3
      <3>4. QED
        BY <2>3, <3>2, <3>3
    <2>4. QED
      BY <2>1, <2>2, <2>3
  <1>4. QED
    BY <1>1, <1>3 DEF HoldsWhole

\* The steps that write change neither the files nor the evidence.
LEMMA ReadKept ==
    ASSUME ReadInv, UNCHANGED <<files, given, place, evidence>>, bundle' \in {bundle, Partial},
           step \notin Reading, step' \notin Reading, step' \in {"write", "emit"} => step \in {"write", "emit"},
           step' \in {"write", "emit"} => bundle' = bundle
    PROVE  ReadInv'
  <1>1. ReadTypes' /\ Grown'
    BY DEF ReadInv, ReadTypes, Grown
  <1>2. step' # "validate" /\ step' # "loki" /\ step' # "jsonl"
    BY DEF Reading
  <1>3. (step' \in {"write", "emit"} => bundle' = Partial)
        /\ (step' \in {"write", "emit"} /\ files' # <<>> => EvidenceWhole')
    <2>1. EvidenceWhole' <=> EvidenceWhole
      BY DEF EvidenceWhole
    <2>2. QED
      BY <2>1 DEF ReadInv
  <1>4. bundle' = bundle => (HoldsWhole' <=> HoldsWhole)
    BY DEF HoldsWhole
  <1>5. bundle' = Partial' \/ files' = <<>> \/ HoldsWhole'
    BY <1>4 DEF ReadInv, Partial, NoEvidence
  <1>6. Partial' = Partial
    BY DEF Partial, NoEvidence
  <1>7. QED
    BY <1>1, <1>2, <1>3, <1>5, <1>6 DEF ReadInv, Reading

LEMMA ReadStep == ReadInv /\ PublishTypes /\ [InvestigationNext]_everything => ReadInv'
  <1> SUFFICES ASSUME ReadInv, PublishTypes, [InvestigationNext]_everything
               PROVE  ReadInv'
    OBVIOUS
  <1> USE DEF Goto, Exit, Abandon, Uncertain, Unlink, Writing, SyncOrElse
  <1>0. Partial' = Partial /\ NoEvidence' = NoEvidence
    BY DEF Partial, NoEvidence
  <1>a. ASSUME step \in Reading, UNCHANGED <<files, given, bundle>>, ReadTypes',
               step' \in {"loki", "jsonl", "write", "exited"},
               step' = "loki" => files = <<>>,
               step' = "jsonl" => (\E R : Tally(R))',
               step' = "write" /\ files # <<>> => EvidenceWhole'
        PROVE  ReadInv'
    <2>1. Grown'
      BY <1>a DEF ReadInv, Grown
    <2>2. QED
      BY <1>0, <1>a, <2>1 DEF ReadInv
  <1>1. CASE Validate
    <2>1. step = "validate" /\ UNCHANGED <<files, given, place, evidence, bundle>> /\ ReadTypes'
      BY <1>1 DEF Validate, ReadInv, ReadTypes
    <2>2. step' \in {"loki", "jsonl", "exited"} /\ (step' = "loki" => files = <<>>)
      BY <1>1 DEF Validate
    <2>3. Tally({})'
      <3>1. Tally({})
        BY <2>1, TallyStarts
      <3>2. Tally({})' <=> Tally({})
        BY <2>1 DEF Tally, Passed, LineAt
      <3>3. QED
        BY <3>1, <3>2
    <2>4. (\E R : Tally(R))'
      BY <2>3
    <2>5. QED
      BY <1>a, <2>1, <2>2, <2>4 DEF Reading
  <1>2. CASE ReadLoki
    <2>1. UNCHANGED cli
      BY <1>2 DEF ReadLoki
    <2>2. step = "loki" /\ step' = "loki" /\ UNCHANGED <<files, given, place, evidence, bundle>>
      BY <1>2, <2>1 DEF ReadLoki, cli
    <2>3. QED
      BY <1>a, <2>2 DEF Reading, ReadInv, ReadTypes
  <1>3. CASE LokiRead
    <2>1. step = "loki" /\ step' \in {"write", "exited"} /\ UNCHANGED <<files, given, place, bundle>>
      BY <1>3 DEF LokiRead
    <2>2. \A b \in Bodies : Cardinality({e \in Entries : e.body = b /\ taken[e] > 0}) \in Nat
      <3>1. ASSUME NEW b \in Bodies
            PROVE  Cardinality({e \in Entries : e.body = b /\ taken[e] > 0}) \in Nat
        <4>1. {e \in Entries : e.body = b /\ taken[e] > 0} \in SUBSET Entries
          OBVIOUS
        <4>2. IsFiniteSet({e \in Entries : e.body = b /\ taken[e] > 0})
          BY <4>1, FS_Subset, ReaderAssumption
        <4>3. QED
          BY <4>2, FS_CardinalityType
      <3>2. QED
        BY <3>1
    <2>3. evidence' \in [Bodies -> Nat]
      BY <1>3, <2>2 DEF LokiRead, ReadInv, ReadTypes
    <2>4. files = <<>>
      BY <2>1 DEF ReadInv
    <2>5. QED
      BY <1>a, <2>1, <2>3, <2>4 DEF Reading, ReadInv, ReadTypes
  <1>4. CASE ReadLine
    <2>1. step = "jsonl" /\ UNCHANGED <<files, given, bundle>>
      BY <1>4 DEF ReadLine
    <2>2. CASE step' = "jsonl"
      BY <1>a, <1>4, <2>1, <2>2, TallyReads DEF Reading
    <2>3. CASE step' # "jsonl"
      <3>1. step' = "exited" /\ UNCHANGED <<place, evidence>>
        BY <1>4, <2>1, <2>3 DEF ReadLine
      <3>2. QED
        BY <1>a, <2>1, <3>1 DEF Reading, ReadInv, ReadTypes
    <2>4. QED
      BY <2>2, <2>3
  <1>5. CASE NextFile
    <2>1. (\E R : Tally(R))' /\ ReadTypes' /\ UNCHANGED <<files, given, evidence, bundle>>
      BY <1>5, TallyTurns DEF NextFile
    <2>2. step = "jsonl" /\ (step' = "jsonl" \/ (step' = "write" /\ place.file = Len(files)))
      BY <1>5 DEF NextFile
    <2>3. ASSUME step' = "write"
          PROVE  EvidenceWhole'
      <3>1. PICK R : Tally(R)
        BY <2>2 DEF ReadInv
      <3>2. EvidenceWhole
        BY <1>5, <2>2, <2>3, <3>1, AllRead DEF NextFile, ReadInv
      <3>3. QED
        BY <2>1, <3>2 DEF EvidenceWhole
    <2>4. QED
      BY <1>a, <2>1, <2>2, <2>3 DEF Reading
  <1>6. CASE ReadFails
    BY <1>a, <1>6 DEF ReadFails, Reading, ReadInv, ReadTypes
  <1>7. CASE \E i \in 1..Len(files), b \in Bodies : RecorderWrites(i, b)
    <2>1. PICK i \in 1..Len(files), b \in Bodies : RecorderWrites(i, b)
      BY <1>7
    <2>2. (\E R : Tally(R))' /\ ReadTypes' /\ Grown'
      BY <2>1, TallyKept
    <2>3. step = "jsonl" /\ step' = "jsonl" /\ bundle' = bundle
      BY <2>1 DEF RecorderWrites
    <2>4. QED
      BY <1>0, <2>2, <2>3 DEF ReadInv, Reading
  <1>8. CASE CreateTemp
    BY <1>8, ReadKept DEF CreateTemp, Reading
  <1>9. CASE Emit
    <2>1. CASE bundle' = bundle
      BY <1>9, <2>1, ReadKept DEF Emit, Reading
    <2>2. CASE bundle' # bundle
      <3>1. /\ step = "emit" /\ step' = "fsync" /\ UNCHANGED <<files, given, place, evidence>>
            /\ bundle' = [whole |-> TRUE, holds |->
                   [b \in Bodies |-> IF b \in selected(evidence) THEN evidence[b] ELSE 0]]
        BY <1>9, <2>2 DEF Emit
      <3>2. files = <<>> \/ HoldsWhole'
        BY <3>1, SelectionWhole DEF ReadInv
      <3>3. ReadTypes' /\ Grown'
        BY <3>1 DEF ReadInv, ReadTypes, Grown
      <3>4. QED
        BY <3>1, <3>2, <3>3 DEF ReadInv, Reading
    <2>3. QED
      BY <2>1, <2>2
  <1>10. CASE Fsync
    BY <1>10, ReadKept DEF Fsync, Reading
  <1>11. CASE Link
    BY <1>11, ReadKept DEF Link, Reading
  <1>12. CASE SyncTarget
    BY <1>12, ReadKept DEF SyncTarget, Reading
  <1>13. CASE Rollback
    BY <1>13, ReadKept DEF Rollback, Reading
  <1>14. CASE SyncRollback
    BY <1>14, ReadKept DEF SyncRollback, Reading
  <1>15. CASE CleanUp
    BY <1>15, ReadKept DEF CleanUp, Reading
  <1>16. CASE SyncCleanUp
    BY <1>16, ReadKept DEF SyncCleanUp, Reading
  <1>17. CASE OtherPublishes \/ OtherWithdraws
    BY <1>17, ReadKept DEF OtherPublishes, OtherWithdraws, Reading
  <1>18. CASE Killed
    BY <1>18, ReadKept DEF Killed, Reading
  <1>19. CASE PowerLoss
    BY <1>19, ReadKept DEF PowerLoss, Reading
  <1>20. CASE Ended \/ UNCHANGED everything
    <2>1. UNCHANGED <<step, files, given, place, evidence, bundle>>
      BY <1>20 DEF Ended, everything, cli
    <2>2. \A R : Tally(R)' <=> Tally(R)
      BY <2>1 DEF Tally, Passed, LineAt
    <2>3. ReadTypes' /\ Grown' /\ (EvidenceWhole' <=> EvidenceWhole) /\ (HoldsWhole' <=> HoldsWhole)
      BY <2>1 DEF ReadInv, ReadTypes, Grown, EvidenceWhole, HoldsWhole
    <2>4. (\E R : Tally(R))' <=> \E R : Tally(R)
      BY <2>2
    <2>5. QED
      BY <1>0, <2>1, <2>3, <2>4 DEF ReadInv
  <1>21. QED
    BY <1>1, <1>2, <1>3, <1>4, <1>5, <1>6, <1>7, <1>8, <1>9, <1>10, <1>11, <1>12, <1>13, <1>14,
       <1>15, <1>16, <1>17, <1>18, <1>19, <1>20 DEF InvestigationNext

\* The published name only ever stands for a whole bundle, of all the files held
\* when the command started.
THEOREM BundlesWhole == InvestigationSpec => []PublishedWhole
  <1>1. ASSUME PublishInv, ReadInv
        PROVE  PublishedWhole
    <2>1. dir["target"] = "mine" => bundle.whole /\ bundle # Partial
      BY <1>1 DEF PublishInv, NotMine, Partial
    <2>2. bundle # Partial /\ files # <<>> => HoldsWhole
      BY <1>1 DEF ReadInv
    <2>3. QED
      BY <1>1, <2>1, <2>2 DEF PublishedWhole, HoldsWhole, PublishInv
  <1>2. PublishInv => PublishTypes
    BY DEF PublishInv
  <1>3. QED
    BY PublishInit, PublishStep, ReadInit, ReadStep, <1>1, <1>2, PTL DEF InvestigationSpec

-----------------------------------------------------------------------------
(* What is read from Loki *)

\* Outside of the reader's own steps its state stands still, or is put away.
LEMMA InvestigationReads == ReaderInv /\ [InvestigationNext]_everything => ReaderInv'
  <1> SUFFICES ASSUME ReaderInv, [InvestigationNext]_everything
               PROVE  ReaderInv'
    OBVIOUS
  <1>1. CASE ReadLoki
    BY <1>1, ReaderStep DEF ReadLoki
  <1>2. CASE LokiRead
    <2>1. /\ loki' = {} /\ before' = {} /\ cursor' = Start /\ boundary' = Start /\ queries' = 0
          /\ scope' = GroupScope /\ todo' = {} /\ stage' = "complete" /\ why' = ""
      BY <1>2 DEF LokiRead
    <2>2. taken' \in [Entries -> Nat] /\ \A e \in Entries : taken'[e] = 0
      BY <1>2 DEF LokiRead
    <2>3. pending' \in Seq(Seq(Nat))
      <3>1. pending' = <<>>
        BY <1>2 DEF LokiRead
      <3>2. QED
        BY <3>1
    <2>4. ReaderTypes'
      BY <2>1, <2>2, <2>3, StartType DEF ReaderTypes, Running
    <2>5. ScopesInOrder' /\ CursorInside' /\ PrefixFree' /\ TakenBelongs'
      <3>1. ScopesInOrder' /\ CursorInside' /\ PrefixFree'
        BY <2>1 DEF ScopesInOrder, CursorInside, PrefixFree, Running
      <3>2. TakenBelongs'
        BY <2>2 DEF TakenBelongs
      <3>3. QED
        BY <3>1, <3>2
    <2>6. TiesRefusedRightly'
      BY <2>1 DEF TiesRefusedRightly
    <2>7. NothingRepeated' /\ DoneTaken'
      <3>1. NothingRepeated'
        BY <2>2 DEF NothingRepeated
      <3>2. DoneTaken'
        <4>1. before' = {}
          BY <2>1
        <4>2. \A e \in Entries : ~ (taken'[e] > 0)
          BY <2>2
        <4>3. QED
          BY <4>1, <4>2 DEF DoneTaken
      <3>3. QED
        BY <3>1, <3>2
    <2>8. QED
      BY <2>1, <2>4, <2>5, <2>6, <2>7 DEF ReaderInv
  <1>3. CASE UNCHANGED lokiVars
    <2>1. UNCHANGED <<loki, before, stage, why, scope, todo, cursor, boundary, pending, taken, queries>>
      BY <1>3 DEF lokiVars
    <2>2. \A e : Done(e)' <=> Done(e)
      BY <2>1 DEF Done, Behind, Awaited, Finished, SessionsFound, Records
    <2>3. DoneTaken'
      BY <2>1, <2>2, WindowFixed DEF ReaderInv, DoneTaken
    <2>4. NothingRepeated' /\ TakenBelongs' /\ TiesRefusedRightly'
      BY <2>1, WindowFixed DEF ReaderInv, NothingRepeated, TakenBelongs, TiesRefusedRightly,
                               SessionsFound, Records
    <2>5. ReaderTypes' /\ ScopesInOrder' /\ CursorInside' /\ PrefixFree'
      BY <2>1 DEF ReaderInv, ReaderTypes, ScopesInOrder, CursorInside, PrefixFree,
                  SessionsFound, Records, Start
    <2>6. QED
      BY <2>1, <2>3, <2>4, <2>5 DEF ReaderInv
  <1>4. CASE Validate \/ ReadLine \/ NextFile \/ ReadFails
    BY <1>3, <1>4 DEF Validate, ReadLine, NextFile, ReadFails
  <1>5. CASE \E i \in 1..Len(files), b \in Bodies : RecorderWrites(i, b)
    BY <1>3, <1>5 DEF RecorderWrites
  <1>6. CASE CreateTemp \/ Emit \/ Fsync \/ Link \/ SyncTarget
    BY <1>3, <1>6 DEF CreateTemp, Emit, Fsync, Link, SyncTarget, Writing
  <1>7. CASE Rollback \/ SyncRollback \/ CleanUp \/ SyncCleanUp
    BY <1>3, <1>7 DEF Rollback, SyncRollback, CleanUp, SyncCleanUp, Writing
  <1>8. CASE OtherPublishes \/ OtherWithdraws \/ Killed \/ PowerLoss
    BY <1>3, <1>8 DEF OtherPublishes, OtherWithdraws, Killed, PowerLoss
  <1>9. CASE Ended \/ UNCHANGED everything
    BY <1>3, <1>9 DEF Ended, everything
  <1>10. QED
    BY <1>1, <1>2, <1>4, <1>5, <1>6, <1>7, <1>8, <1>9 DEF InvestigationNext

\* The reader's invariant holds throughout the command: everything before its
\* cursor is taken, and what is pending is under a hash prefix (retrieve, tied).
THEOREM ReaderInvariant == InvestigationSpec => []ReaderInv
  <1>1. InvestigationInit => ReaderInv
    BY ReaderInit DEF InvestigationInit
  <1>2. QED
    BY <1>1, InvestigationReads, PTL DEF InvestigationSpec

\* Pagination loses nothing that Loki had when the investigation began.
THEOREM ReaderMissesNothing == InvestigationSpec => []NothingMissed
  BY ReaderInvariant, ReaderInvImplies, PTL

\* Pagination counts no entry twice, and none outside the window.
THEOREM ReaderRepeatsNothing == InvestigationSpec => []NothingRepeated
  <1>1. ReaderInv => NothingRepeated
    BY DEF ReaderInv
  <1>2. QED
    BY <1>1, ReaderInvariant, PTL

\* Only the group's records and the context of their sessions are reported.
THEOREM ReaderTakesNothingForeign == InvestigationSpec => []NothingForeign
  BY ReaderInvariant, ReaderInvImplies, PTL

\* A tie is called unresolvable only when a full page of copies causes it.
THEOREM ReaderRefusesRightly == InvestigationSpec => []TiesRefusedRightly
  <1>1. ReaderInv => TiesRefusedRightly
    BY DEF ReaderInv
  <1>2. QED
    BY <1>1, ReaderInvariant, PTL
=============================================================================
