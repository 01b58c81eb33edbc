---------------------------- MODULE MCRetention ----------------------------
(* Small instances of Retention for TLC. *)
EXTENDS Retention, TLC

CONSTANTS a, b, c, x, la, lb, lu, lc, ld, e1, e2

\* Two segments of one recorder that overlap in lb, the second with a record in
\* no group; a file of a second recorder in the same group and in one of its
\* own; an unacceptable body.
MCFileLines == [f \in Files |->
    CASE f = a -> <<la, lb>>
      [] f = b -> <<lb, lu>>
      [] f = c -> <<lc, ld>>
      [] OTHER -> <<>>]
MCEngineOf == [l \in Lines |-> IF l \in {lc, ld} THEN e2 ELSE e1]
MCRefOf == [l \in Lines |-> CASE l = lu -> NoGroup [] l = ld -> 2 [] OTHER -> 1]
MCSlugs == {NoGroup}

\* la and lb frame the second recorder's only sighting of m in time.
MCTimeOf == [l \in Lines |-> CASE l = la -> 1 [] l = lb -> 3 [] OTHER -> 2]
MCMsgsOf == [l \in Lines |-> IF l = lc THEN {"m"} ELSE {}]
=============================================================================
