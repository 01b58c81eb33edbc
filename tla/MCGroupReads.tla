---------------------------- MODULE MCGroupReads ----------------------------
(* A small instance of GroupReads for TLC. *)
EXTENDS GroupReads

CONSTANTS e1, e2, e3

Event(id, engine, account, key, time, type, msg) ==
    [id |-> id, engine |-> engine, account |-> account, key |-> key, time |-> time,
     type |-> type, msg |-> msg, epoch |-> None, expects |-> None,
     op |-> None, action |-> None, origin |-> None, sev |-> "info"]

Expects(members, keys, count, others) ==
    [members |-> members, keys |-> keys, count |-> count, others |-> others]

\* A sender that expects a member and a legacy recorder, and then a count; an
\* engine that reports the message without account, under the sender's and under
\* the member's, which it also has elsewhere; a legacy recorder; rows of the other
\* sections.
MCEvents ==
    {[Event(1, e1, "a1", None, 1, "sent", 1) EXCEPT
        !.expects = Expects({"a2"}, {"k3"}, 2, TRUE), !.op = "o", !.action = "send",
        !.origin = "local_user"],
     [Event(2, e1, "a1", None, 2, "publish", 1) EXCEPT
        !.expects = Expects({}, {}, 1, TRUE), !.op = "o", !.action = "send", !.sev = "error"],
     [Event(3, e2, None, None, 2, "receipt", 1) EXCEPT !.epoch = 1],
     [Event(4, e2, "a1", None, 3, "transition", 1) EXCEPT
        !.epoch = 1, !.action = "send", !.origin = "system"],
     [Event(5, e3, None, "k3", 3, "receipt", 1) EXCEPT !.sev = "warning"],
     [Event(6, e3, None, "k3", 4, "delta", 2) EXCEPT !.epoch = 2],
     [Event(7, e2, "a2", None, None, "convergence", 1) EXCEPT !.sev = "error"],
     [Event(8, e1, "a1", None, None, "mode", None) EXCEPT !.action = "send"],
     [Event(9, e2, "a2", None, None, "delta", 2) EXCEPT !.epoch = 1]}

Only(f, v) == [default_api_filters EXCEPT ![f] = v]
MCFilters ==
    {default_api_filters, Only("engine", e1), Only("account", "a2"), Only("message", 1),
     Only("type", "receipt"), Only("epoch", 1), Only("from", 2), Only("to", 2),
     Only("severity", "error"), Only("severity", "warning")}
=============================================================================
