----------------------------- MODULE LokiReader -----------------------------
(***************************************************************************)
(* The bounded evidence reader (LokiReader in investigation_reader.py):    *)
(* one investigation of a group, page by page, over a log that goes on     *)
(* receiving entries.  Loki itself is external: a page holds at most       *)
(* PageSize of the matching entries, earliest first, and which of several  *)
(* entries with one timestamp make it onto a full page is Loki's choice.   *)
(***************************************************************************)
EXTENDS Integers, Sequences, FiniteSets

CONSTANTS
    Alphabet,    \* the digits of a hash, in the order the trie tries them
    HashLen,     \* digits in a hash: 64 in the code
    Bodies,      \* record bodies, each standing for its own hash
    Sessions,    \* complete recorder sessions, in sorted order
    GroupScope, Elsewhere, NoSession,
    ScopeOf,     \* where a body belongs: the group, a session's context, elsewhere
    SessionOf,   \* the session of a body, or NoSession when it is incomplete
    Entries,     \* the log entries that may be in Loki
    From, To,    \* the requested receipt window
    Cutoff,      \* reader_cutoff_ns
    PageSize, MaxQueries, MaxRecords,
    MaxLate      \* bound on the entries that arrive during the investigation

Scopes == {GroupScope, Elsewhere} \cup Sessions

ASSUME ReaderAssumption ==
    /\ HashLen \in Nat /\ Alphabet \in Seq(Nat)
    /\ Bodies \subseteq [1..HashLen -> Nat]
    /\ \A b \in Bodies : \A i \in 1..HashLen : \E j \in 1..Len(Alphabet) : b[i] = Alphabet[j]
    /\ \A i, j \in 1..Len(Alphabet) : Alphabet[i] = Alphabet[j] => i = j
    /\ Sessions \subseteq Nat /\ {GroupScope, Elsewhere, NoSession} \cap Sessions = {}
    /\ GroupScope # Elsewhere /\ NoSession \notin {GroupScope, Elsewhere}
    /\ ScopeOf \in [Bodies -> Scopes]
    /\ SessionOf \in [Bodies -> Sessions \cup {NoSession}]
    /\ Entries \subseteq [at : Nat, body : Bodies, label : Scopes, copy : Nat]
    /\ IsFiniteSet(Entries)
    /\ From \in Nat /\ To \in Nat /\ From < To /\ Cutoff \in Nat
    /\ PageSize \in Nat \ {0}
    /\ MaxQueries \in Nat /\ MaxRecords \in Nat /\ MaxLate \in Nat

VARIABLES
    loki,     \* the entries Loki can return
    before,   \* those it could return when the investigation began
    stage,    \* "page", "tie" or, at the end, "complete" or "incomplete"
    why,      \* the reason of an IncompleteEvidence
    scope,    \* the group or the session being retrieved
    todo,     \* the sessions still to retrieve
    cursor,   \* where the next page starts
    boundary, \* the timestamp whose entries are being resolved
    pending,  \* the hash prefixes still to query at the boundary
    taken,    \* the entries handed to Evidence.add, with their multiplicity
    queries

lokiVars == <<loki, before, stage, why, scope, todo, cursor, boundary, pending, taken, queries>>

\* Evidence.records: one per distinct body, however often it was added.
Records(T) == {e.body : e \in {d \in Entries : T[d] > 0}}

\* investigate clamps the requested window to the reader's cutoff.
Start == IF From < Cutoff THEN Cutoff ELSE From

LokiInit ==
    /\ loki \in SUBSET Entries
    /\ before = loki
    /\ stage = IF Start < To THEN "page" ELSE "complete"
    /\ why = ""
    /\ scope = GroupScope /\ todo = {}
    /\ cursor = Start /\ boundary = Start /\ pending = <<>>
    /\ taken = [e \in Entries |-> 0]
    /\ queries = 0

-----------------------------------------------------------------------------
(* Loki *)

\* The answers to a query: all of a short result, the earliest of a long one.
Pages(M) ==
    {R \in SUBSET M : /\ Cardinality(R) <= PageSize
                      /\ Cardinality(R) < PageSize => R = M
                      /\ \A r \in R, e \in M \ R : r.at <= e.at}

\* An entry is delivered late, with any receipt timestamp.
Arrive(e) ==
    /\ e \notin loki /\ Cardinality(loki \ before) < MaxLate
    /\ stage \in {"page", "tie"}
    /\ loki' = loki \cup {e}
    /\ UNCHANGED <<before, stage, why, scope, todo, cursor, boundary, pending, taken, queries>>

-----------------------------------------------------------------------------
(* The reader *)

Fail(reason) == stage' = "incomplete" /\ why' = reason

\* Mutant: the labels are believed.
AcceptedByLabel(R) == \A e \in R : e.label = scope

\* The accept predicates of investigate: the body belongs where its labels say.
Accepted(R) == \A e \in R : ScopeOf[e.body] = scope

Counted(R) == [e \in Entries |-> IF e \in R THEN taken[e] + 1 ELSE taken[e]]

\* add_rows and Evidence.add: a mislabelled body, or one body too many, ends
\* the investigation; otherwise it goes on as Then says.
AddRows(R, Then) ==
    \/ /\ Accepted(R) /\ Cardinality(Records(Counted(R))) <= MaxRecords
       /\ taken' = Counted(R)
       /\ Then
    \/ /\ ~Accepted(R)
       /\ Fail("loki_label_mismatch")
       /\ UNCHANGED <<scope, todo, cursor, boundary, pending, taken>>
    \/ /\ Cardinality(Records(Counted(R))) > MaxRecords
       /\ Fail("evidence_budget_exceeded")
       /\ UNCHANGED <<scope, todo, cursor, boundary, pending, taken>>

\* query: one more request, within the budget.
Query == queries < MaxQueries /\ queries' = queries + 1

\* The sessions of the group's records, without the incomplete ones.
SessionsFound(T) == {SessionOf[b] : b \in {c \in Records(T) : ScopeOf[c] = GroupScope}} \ {NoSession}

Least(S) == CHOOSE s \in S : \A t \in S : s <= t

\* The end of one retrieve: the next session in order, or the summary.
NextScope(T) ==
    LET left == IF scope = GroupScope THEN SessionsFound(T) ELSE todo IN
    /\ IF left = {} THEN stage' = "complete" /\ UNCHANGED <<scope, todo, cursor>>
       ELSE /\ stage' = "page"
            /\ scope' = Least(left) /\ todo' = left \ {Least(left)}
            /\ cursor' = Start
    /\ UNCHANGED <<why, boundary, pending>>

\* A full page: its last timestamp may go on behind it, and is resolved apart.
Boundary(R) == CHOOSE t \in {e.at : e \in R} : \A e \in R : e.at <= t

\* Mutant: the boundary is skipped as if the page had held all of it.
SkipBoundary(R) ==
    /\ stage' = "page"
    /\ cursor' = Boundary(R) + 1
    /\ UNCHANGED <<why, scope, todo, boundary, pending>>

ResolveBoundary(R) ==
    /\ stage' = "tie"
    /\ boundary' = Boundary(R) /\ pending' = << <<>> >>
    /\ UNCHANGED <<why, scope, todo, cursor>>

\* One turn of retrieve's loop.
Page ==
    /\ stage = "page" /\ cursor < To /\ Query
    /\ \E R \in Pages({e \in loki : e.label = scope /\ cursor <= e.at /\ e.at < To}) :
          IF Cardinality(R) < PageSize
          THEN AddRows(R, NextScope(Counted(R)))
          ELSE AddRows({e \in R : e.at < Boundary(R)}, ResolveBoundary(R))
    /\ UNCHANGED <<loki, before>>

WindowRead ==
    /\ stage = "page" /\ cursor >= To
    /\ NextScope(taken)
    /\ UNCHANGED <<loki, before, taken, queries>>

Extends(hash, prefix) == \A i \in 1..Len(prefix) : hash[i] = prefix[i]

\* A full answer is asked for again, one more hash digit at a time.
Children(prefix) == [i \in 1..Len(Alphabet) |-> Append(prefix, Alphabet[i])]

\* Mutant: the last digit is not tried.
ExhaustedEarly(prefix) == Len(prefix) >= HashLen - 1

Exhausted(prefix) == Len(prefix) >= HashLen

\* One call of tied, for the first of the pending prefixes.  The query selects by
\* the entry's audit_sha256, assumed to be the hash of its body: query rejects an
\* entry where it is not, but never sees one that no prefix selects.
Tie ==
    LET prefix == Head(pending) IN
    /\ stage = "tie" /\ pending # <<>> /\ Query
    /\ \E R \in Pages({e \in loki : /\ e.label = scope /\ e.at = boundary
                                     /\ Extends(e.body, prefix)}) :
          \/ /\ Cardinality(R) < PageSize
             /\ AddRows(R, /\ pending' = Tail(pending)
                           /\ UNCHANGED <<stage, why, scope, todo, cursor, boundary>>)
          \/ /\ Cardinality(R) = PageSize /\ Exhausted(prefix)
             /\ Fail("unresolvable_timestamp_tie")
             /\ UNCHANGED <<scope, todo, cursor, boundary, pending, taken>>
          \/ /\ Cardinality(R) = PageSize /\ ~Exhausted(prefix)
             /\ pending' = Children(prefix) \o Tail(pending)
             /\ UNCHANGED <<stage, why, scope, todo, cursor, boundary, taken>>
    /\ UNCHANGED <<loki, before>>

\* Mutant: the boundary is read again.
BoundaryAgain ==
    /\ stage = "tie" /\ pending = <<>>
    /\ cursor' = boundary
    /\ stage' = "page"
    /\ UNCHANGED <<loki, before, why, scope, todo, boundary, pending, taken, queries>>

\* retrieve goes on behind the boundary.
BoundaryResolved ==
    /\ stage = "tie" /\ pending = <<>>
    /\ cursor' = boundary + 1
    /\ stage' = "page"
    /\ UNCHANGED <<loki, before, why, scope, todo, boundary, pending, taken, queries>>

\* The query budget or the deadline is used up, or Loki does not answer.
Refused(reason) ==
    /\ stage \in {"page", "tie"}
    /\ reason = "query_budget_exceeded" \/ queries < MaxQueries
    /\ Fail(reason)
    /\ UNCHANGED <<loki, before, scope, todo, cursor, boundary, pending, taken, queries>>

Reader ==
    \/ Page \/ WindowRead \/ Tie \/ BoundaryResolved
    \/ \E reason \in {"query_budget_exceeded", "loki_request_failed"} : Refused(reason)

-----------------------------------------------------------------------------
(* Properties *)

Covered(e) == Start <= e.at /\ e.at < To

\* What a completed investigation is about: the group's entries, and the
\* context of every complete session found in them.
Relevant(e) == Covered(e) /\ e.label \in {GroupScope} \cup SessionsFound(taken)

\* Pagination loses nothing: every relevant entry that Loki had when the
\* investigation began is part of a completed one, however full its pages,
\* many its ties and late its other entries (retrieve, tied).
NothingMissed ==
    stage = "complete" => \A e \in before : Relevant(e) => taken[e] > 0

\* Pagination repeats nothing: an entry is counted once, so Evidence.occurrences
\* counts log entries and duplicate_occurrences real duplicates.
NothingRepeated == \A e \in Entries : taken[e] <= (IF e \in loki /\ Covered(e) THEN 1 ELSE 0)

\* Nothing foreign is reported: only the group's own records and the groupless
\* context of sessions that the group's records name.
NothingForeign ==
    \A e \in Entries : taken[e] > 0 =>
        ScopeOf[e.body] \in {GroupScope} \cup SessionsFound(taken)

\* A tie is called unresolvable only when one timestamp really holds a full
\* page of copies of one body.
TiesRefusedRightly ==
    why = "unresolvable_timestamp_tie" =>
        \E e \in loki : Cardinality({d \in loki : d.at = e.at /\ d.body = e.body}) >= PageSize
=============================================================================
