-------------------------- MODULE MCInvestigation ---------------------------
(* Two-digit ternary hashes: three bodies of the group (of two complete       *)
(* sessions and an incomplete one) and the context of the two sessions, with  *)
(* ties wider than a page, a doubled body, a mislabelled entry and an entry   *)
(* older than the cutoff.  Every subset of them may be in Loki.               *)
EXTENDS Investigation

MCAlphabet == <<0, 1, 2>>
MCBodies == {<<0, 0>>, <<0, 1>>, <<0, 2>>, <<1, 0>>, <<1, 1>>}
MCScopeOf == [b \in MCBodies |-> IF b[1] = 0 THEN GroupScope ELSE b[2] + 1]
MCSessionOf == [b \in MCBodies |-> IF b = <<0, 2>> THEN NoSession ELSE b[2] + 1]
Row(t, b, c) == [at |-> t, body |-> b, label |-> MCScopeOf[b], copy |-> c]
MCEntries ==
    {Row(0, <<0, 0>>, 1), Row(1, <<0, 2>>, 1), Row(2, <<0, 0>>, 1), Row(2, <<0, 1>>, 1),
     Row(2, <<0, 2>>, 1), Row(2, <<0, 2>>, 2), Row(3, <<0, 0>>, 1),
     Row(1, <<1, 0>>, 1), Row(2, <<1, 0>>, 1), Row(1, <<1, 1>>, 1),
     [at |-> 1, body |-> <<1, 1>>, label |-> GroupScope, copy |-> 1]}

\* One file that ends in the middle of a line, and two whole ones.
MCSources ==
    {<< <<b, Blank, <<0, 1>>, Torn>> >> : b \in {<<0, 0>>, Bad}}
    \cup {<< <<<<0, 0>>, <<1, 0>>>>, <<c>> >> : c \in {<<0, 0>>, <<0, 2>>, <<1, 1>>}}
=============================================================================
