------------------------------ MODULE MCIngest ------------------------------
(* Small instances of Ingest for TLC. *)
EXTENDS Ingest, TLC

CONSTANTS a, b, c, x, la, lb, lc, ld, lx, e1, e2

\* Two segments of one recorder that overlap in a record without a group, which
\* the second repeats; a second recorder meeting the first one's groups, the
\* referenced and the fallback one, in the other order; a legacy body.
MCFileLines == [f \in Files |->
    CASE f = a -> <<la, lb>>
      [] f = b -> <<lb, lb>>
      [] f = c -> <<lc, ld>>
      [] OTHER -> <<lx>>]
MCEngineOf == [l \in Lines |-> IF l \in {lc, ld} THEN e2 ELSE e1]
MCRefOf == [l \in Lines |-> IF l \in {la, ld} THEN 1 ELSE NoGroup]
MCSlugs == {NoGroup, 3}
MCOneSlug == {3}
WorkerSymmetry == Permutations(Workers)
=============================================================================
