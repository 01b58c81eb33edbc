-------------------------- MODULE MCUploadRequest --------------------------
(* Small instances of UploadRequest and, beside it in the same run, of Intake *)
(* for TLC: the two share no state.                                           *)
EXTENDS UploadRequest, Intake, TLC

-----------------------------------------------------------------------------
(* Bodies *)

\* The values of a field: at and beyond the limits of its column.
Values(r) ==
    CASE r.how \in {"str", "text"} ->
            [type : {"str"}, of : {r.field},
             size : {1, MaxLength(r.column), MaxLength(r.column) + 1} \cup
                    (IF r.field = "engine_id" THEN {} ELSE {0})]
      [] r.how = "int" ->
            [type : {"int"}, of : {r.field}, size : {0, MaxBytes(r.column), MaxBytes(r.column) + 1}]
            \cup [type : {"float"}, of : {r.field}, size : {1}]
      [] r.how \in {"first", "welcomes"} ->
            [type : {"plain"}, welcome : UNION {[1..n -> BOOLEAN] : n \in 0..2}]
      [] r.column = "context_source" -> [type : {"plain"}, of : {r.field}, ref : {"", "x", "y"}]
      [] OTHER -> [type : {"plain"}, of : {r.field}]

Usual(r) == CHOOSE v \in Values(r) : v.type = "str" => v.size = 1
Required(R) == {r \in R : r.presence = "required"}
Base(R) == [f \in {r.field : r \in Required(R)} |-> Usual(CHOOSE r \in R : r.field = f)]

\* Each part of a record varies in the values of two fields, and is there or not.
Varied(R) ==
    LET with(p, r, v) == (r.field :> v) @@ p IN
    {Base(R)} \cup
    {with(with(Base(R), r, v), q, w) : <<r, v>> \in UNION {{r} \X Values(r) : r \in R},
                                       <<q, w>> \in UNION {{r} \X Values(r) : r \in R}}

Record(kind) ==
    [shape |-> "v4", kind |-> kind, envelope |-> Base(envelope_rules), context |-> <<>>,
     action |-> <<>>, fields |-> Base(kind_rules(kind))]

\* The context that meets a kind: everything that both may set.
Full(R) == [f \in {r.field : r \in R} |-> Usual(CHOOSE r \in R : r.field = f)]

Singles ==
    UNION {{<<[Record(k) EXCEPT !.fields = p]>>,
            <<[Record(k) EXCEPT !.fields = p, !.context = Full(context_rules),
                                !.action = Full(human_action_rules)]>>} :
        <<k, p>> \in UNION {{k} \X Varied(kind_rules(k)) : k \in Kinds}}
    \cup {<<[Record("sync_drain") EXCEPT !.shape = s]>> : s \in {"nested", "member twice"}}
    \cup {<<[Record("sync_drain") EXCEPT !.envelope = p]>> : p \in Varied(envelope_rules)}
    \cup {<<[Record("sync_drain") EXCEPT !.context = p]>> : p \in Varied(context_rules)}
    \cup {<<[Record("sync_drain") EXCEPT !.action = p]>> : p \in Varied(human_action_rules)}

Source(ref) == [source |-> [type |-> "plain", of |-> "source", ref |-> ref]]
Shape(s) == [Record("sync_drain") EXCEPT !.shape = s]
Few == {Shape(s) : s \in {"no utf8", "long", "blank", "malformed", "no object", "other version", "no v4"}} \cup
       {[Record("source_context") EXCEPT !.fields = Source(ref)] : ref \in {"", "x", "y"}} \cup
       {[Record("sync_drain") EXCEPT !.envelope["engine_id"].of = "other"],
        [Record("sync_drain") EXCEPT !.envelope["engine_id"].size = 65]}

MCUploads == Singles \cup UNION {[1..n -> Few] : n \in 0..4}

-----------------------------------------------------------------------------
(* Requests are served, or one body is taken in. *)

Idle ==
    /\ body = <<>> /\ place = 1 /\ parsed = <<>> /\ verdict = "idle" /\ blamed = 0
    /\ member = "" /\ inserted = <<>> /\ statements = <<>>

MCInit ==
    /\ Init
    /\ Idle \/ (IntakeInit /\ \A t \in Tokens : ~Exists(t))

MCNext ==
    \/ verdict = "idle" /\ Next /\ UNCHANGED intakeVars
    \/ IntakeNext /\ UNCHANGED vars

MCSpec == MCInit /\ [][MCNext]_<<vars, intakeVars>> /\ Fairness
=============================================================================
