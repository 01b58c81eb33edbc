------------------------------- MODULE Intake -------------------------------
(***************************************************************************)
(* From a body to event rows (ingest.py): parse_jsonl line by line,        *)
(* normalize_event on each record, validate_upload on the whole, the       *)
(* metadata of the file and the batches of the bulk insert.                *)
(*                                                                         *)
(* A value is its type and its size: the length of a string, the bytes an  *)
(* integer needs.  Records that reach normalize_event satisfy the v4       *)
(* schema (docs/schemas), so kinds and fields that only older schemas had  *)
(* are left out, and ids, digests, enumerations, lists and objects, which  *)
(* the schema checks as strictly as the code does, are "plain" values.     *)
(***************************************************************************)
EXTENDS Integers, Sequences, FiniteSets

CONSTANTS
    Uploads,      \* the bodies that are uploaded: sequences of lines
    MaxRecords,   \* GOGGLES_MAX_DUMP_RECORDS
    EventColumns, \* columns bound per AuditEvent row
    MaxBind       \* POSTGRES_MAX_BIND_PARAMS

ASSUME IntakeAssumption ==
    /\ {MaxRecords, MaxBind} \subseteq Nat
    /\ EventColumns \in 1..MaxBind

-----------------------------------------------------------------------------
(* What the columns of AuditEvent hold *)

\* string_exceeds_model_limit; a TextField has no limit, and a group_ref must
\* fit the column of AuditGroup.
MaxLength(c) ==
    CASE c = "engine_id" -> 64
      [] c \in {"human_action_origin", "human_action_phase"} -> 80
      [] c \in {"human_action_action", "target_kind", "envelope_kind", "outcome", "outcome_kind",
                "decision", "winner", "new_state", "pending_kind", "intent_kind", "result_kind",
                "proposal_kind"} -> 120
      [] c \in {"recorder_session_id", "context_operation_id", "stale_reason"} -> 160
      [] c = "reason" -> 240
      [] c \in {"snapshot_name", "selected_branch_id"} -> 256
      [] c = "group_ref" -> 512
      [] OTHER -> 1000000

\* model_int_field_max, in bytes; MAX_WALL_TIME_MS needs six.
MaxBytes(c) ==
    CASE c \in {"human_action_target_count", "required_acks"} -> 4
      [] c = "wall_time_ms" -> 6
      [] OTHER -> 8

Fits(c, v) ==
    CASE v.type = "str" -> v.size <= MaxLength(c)
      [] v.type = "int" -> v.size <= MaxBytes(c)
      [] v.type = "float" -> FALSE
      [] v.type = "plain" -> TRUE

-----------------------------------------------------------------------------
(* The copy rules: a field of a record, how it is copied, to which column, and *)
(* whether the schema requires it.  Str is copy_str; Text copy_optional_str    *)
(* and its siblings for contexts and human actions; Number copy_int and        *)
(* copy_optional_int; Plain the copies of plain values.                        *)

Rule(how, f) == [how |-> how, field |-> f, column |-> f, presence |-> "required"]
Str(f) == Rule("str", f)
Text(f) == Rule("text", f)
Number(f) == Rule("int", f)
Plain(f) == Rule("plain", f)
To(r, column) == [r EXCEPT !.column = column]
Optional(R) == {[r EXCEPT !.presence = "optional"] : r \in R}

envelope_rules ==
    {Number("seq"), Number("wall_time_ms"), Text("engine_id")} \cup
    Optional({Text("recorder_session_id"), Plain("account_ref"), Text("group_ref")})

human_action_rules ==
    {To(Text("action"), "human_action_action"), To(Text("origin"), "human_action_origin")} \cup
    Optional({To(Plain("fields"), "human_action_fields"),
              To(Plain("component_ids"), "human_action_component_ids"),
              To(Number("target_count"), "human_action_target_count")})

context_rules ==
    Optional({To(Text("operation_id"), "context_operation_id"),
              To(Plain("transport"), "context_transport"), To(Plain("engine"), "context_engine"),
              To(Plain("group"), "context_group"), To(Plain("source"), "context_source"),
              To(Plain("convergence"), "context_convergence")})

MsgId == Plain("msg_id")
error_rules == {To(Str("error_kind"), "outcome_kind")} \cup Optional({Text("detail")})

\* copy_publish_fields: relay_url alone counts as a list of one.
publish_rules ==
    {MsgId, Text("target_kind")} \cup Optional({To(Rule("relay", "relay_url"), "relay_urls")})

\* copy_outbound_messages: the first message that is no welcome, and the welcomes.
outbound_rules ==
    Optional({To(Rule("first", "outbound_messages"), "outbound_msg_id"),
              To(Rule("welcomes", "outbound_messages"), "outbound_welcome_msg_ids")})

origin_rules == Optional({To(Plain("origin_commit_id"), "outbound_msg_id")})

\* The kinds normalize_kind has a case for; sync_drain stands for the others.
Kinds ==
    {"recorder_started", "source_context", "engine_context", "group_context", "human_action",
     "transport_received", "ingest_entry", "ingest_outcome", "ingest_error",
     "recipient_expectation", "send_entry", "send_outcome", "send_error", "create_group_entry",
     "create_group_outcome", "create_group_error", "publish_attempt", "publish_outcome",
     "publish_failure", "epoch_state_changed", "group_state_changed", "epoch_confirmed",
     "epoch_rolled_back", "snapshot_created", "fork_resolution", "convergence_run_state",
     "convergence_decision", "peeler_outcome", "auto_commit_decision", "message_state_changed",
     "rejection", "sync_drain"}

kind_rules(kind) ==
    CASE kind = "recorder_started" -> {To(Text("recorder"), "detail")}
      [] kind = "source_context" -> {To(Plain("source"), "context_source")}
      [] kind = "engine_context" -> {To(Plain("context"), "context_engine")}
      [] kind = "group_context" -> {To(Plain("context"), "context_group"), Text("reason")}
      [] kind = "human_action" ->
            human_action_rules \cup {To(Text("phase"), "human_action_phase")} \cup
            Optional({To(Plain("message_ids"), "human_action_message_ids"),
                      Number("from_epoch"), Number("to_epoch")})
      [] kind = "transport_received" ->
            {Number("payload_len"), Plain("payload_digest")} \cup Optional({MsgId})
      [] kind = "ingest_entry" ->
            {MsgId, Str("envelope_kind"), Number("payload_len"), Plain("payload_digest")}
      [] kind = "ingest_outcome" ->
            {MsgId, Str("outcome_kind")} \cup Optional({Text("stale_reason"), Number("epoch")})
      [] kind = "ingest_error" -> error_rules \cup {MsgId}
      [] kind = "recipient_expectation" -> {MsgId, To(Plain("artifact_kind"), "target_kind")}
      [] kind = "send_entry" -> {Str("intent_kind")}
      [] kind = "send_outcome" -> outbound_rules \cup {Str("intent_kind"), Str("result_kind")}
      [] kind = "send_error" -> error_rules \cup {Str("intent_kind")}
      [] kind = "create_group_entry" -> {To(Number("member_count"), "human_action_target_count")}
      [] kind = "create_group_outcome" -> outbound_rules \cup {Str("result_kind")}
      [] kind = "create_group_error" -> error_rules
      [] kind = "publish_attempt" ->
            publish_rules \cup {Number("required_acks")} \cup Optional({Plain("relay_urls")})
      [] kind = "publish_outcome" ->
            publish_rules \cup {Number("required_acks"), Plain("met_required_acks")} \cup
            Optional({Plain("accepted_relay_urls"), Plain("failed_relays")})
      [] kind = "publish_failure" ->
            publish_rules \cup {To(Text("stage"), "outcome_kind"), Text("reason")} \cup
            Optional({Number("required_acks"), Text("detail"), Plain("relay_urls")})
      [] kind = "epoch_state_changed" ->
            {Str("new_state"), Number("epoch"), Str("reason")} \cup
            Optional({To(Text("previous_state"), "outcome"), To(Number("pending_ref"), "pending_epoch"),
                      Text("pending_kind")})
      [] kind = "group_state_changed" ->
            origin_rules \cup {Number("epoch"), To(Plain("change_kind"), "outcome_kind")} \cup
            Optional({To(Plain("value.digest"), "payload_digest"), To(Number("value.len"), "payload_len")})
      [] kind = "epoch_confirmed" ->
            origin_rules \cup {Number("from_epoch"), Number("to_epoch"), Str("pending_kind")}
      [] kind = "epoch_rolled_back" ->
            {Number("pending_epoch"), Number("restored_epoch"), Str("pending_kind")}
      [] kind = "snapshot_created" -> {Str("snapshot_name"), Number("source_epoch"), Str("reason")}
      [] kind = "fork_resolution" ->
            {Number("source_epoch"), Plain("candidate_digest"), Plain("winner")} \cup
            Optional({Plain("incumbent_digest"), Plain("invalidated_msg_id")})
      [] kind = "convergence_run_state" ->
            {To(Plain("phase"), "outcome")} \cup
            Optional({Number("current_tip_epoch"), Text("reason"), To(Text("error_kind"), "outcome_kind")})
      [] kind = "convergence_decision" ->
            {Number("current_tip_epoch"), Number("max_rewind_commits"),
             To(Plain("candidates"), "candidate_count"), To(Plain("candidates"), "eligible_count")}
            \cup Optional({Text("selected_branch_id"), Number("selected_fork_epoch"),
                           Number("selected_tip_epoch")})
      [] kind = "peeler_outcome" ->
            {MsgId, Plain("outcome"), Plain("fallback_snapshot_used")} \cup Optional({Text("detail")})
      [] kind = "auto_commit_decision" ->
            {Str("proposal_kind"), Str("decision")} \cup Optional({Text("reason")})
      [] kind = "message_state_changed" -> {MsgId, Str("new_state"), Str("reason")}
      [] kind = "rejection" -> {MsgId, Str("reason")}
      [] kind = "sync_drain" -> {}

-----------------------------------------------------------------------------
(* normalize_event.  The parts of a record are functions from the fields that *)
(* are present to their values; an absent human action is the empty function. *)

\* Whether a value raises an error under a rule; wrong types and missing fields
\* do not pass the schema, an integer written as 1.0 does.
Refused(r, v) == ~Fits(r.column, v) \/ (r.how = "str" /\ v.size = 0)

\* What a rule takes of the fields of a part: nothing, or a column's value.
Copied(r, part) ==
    IF r.field \notin DOMAIN part THEN {}
    ELSE LET v == part[r.field] IN
         CASE r.how = "relay" -> IF "relay_urls" \in DOMAIN part THEN {} ELSE {v}
           [] r.how = "first" -> {i \in DOMAIN v.welcome : /\ ~v.welcome[i]
                                                           /\ \A j \in 1..(i - 1) : v.welcome[j]}
           [] r.how = "welcomes" ->
                LET ids == {i \in DOMAIN v.welcome : v.welcome[i]} IN IF ids = {} THEN {} ELSE {ids}
           [] OTHER -> IF Refused(r, v) THEN {} ELSE {v}

\* Every column the rules set from a part.
Columns(R, part) ==
    [c \in {r.column : r \in {q \in R : Copied(q, part) # {}}} |->
        CHOOSE v \in UNION {Copied(r, part) : r \in {q \in R : q.column = c}} : TRUE]

Errors(R, part) == {r \in R : r.field \in DOMAIN part /\ Refused(r, part[r.field])}

\* The columns of f, and those of g that f leaves alone.
Overlay(f, g) == [c \in DOMAIN f \cup DOMAIN g |-> IF c \in DOMAIN f THEN f[c] ELSE g[c]]

\* normalize_context: the context's own fields and its human action.
normalize_context(line) ==
    Overlay(Columns(context_rules, line.context), Columns(human_action_rules, line.action))

\* Mutant: the context is copied after the kind.
NormalizedContextLast(line) ==
    Overlay(normalize_context(line),
            Overlay(Columns(kind_rules(line.kind), line.fields),
                    Columns(envelope_rules, line.envelope)))

\* The kind's fields are copied last, over those of the context.
Normalized(line) ==
    Overlay(Columns(kind_rules(line.kind), line.fields),
            Overlay(normalize_context(line), Columns(envelope_rules, line.envelope)))

StorageErrors(line) ==
    Errors(envelope_rules, line.envelope) \cup Errors(context_rules, line.context) \cup
    Errors(human_action_rules, line.action) \cup Errors(kind_rules(line.kind), line.fields)

-----------------------------------------------------------------------------
(* A line is no UTF-8, too long, blank, malformed JSON, nested too deep, with a *)
(* member twice, JSON that is no object, of another schema version, in breach   *)
(* of the schema, or a v4 record.                                               *)

\* loads_audit_json measures the nesting before it parses.
loads_audit_json(line) == line.shape \notin {"malformed", "nested", "member twice"}

\* parse_jsonl's own codes, those of schema_error_code, and the storage limits.
LineError(line) ==
    CASE ~loads_audit_json(line) -> "invalid_json"
      [] line.shape = "no object" -> "invalid_json_object"
      [] line.shape = "other version" -> "unsupported_schema"
      [] line.shape = "no v4" -> "invalid_v4_schema"
      [] line.shape = "v4" -> IF StorageErrors(line) = {} THEN "none" ELSE "storage_limit_exceeded"

Shapes == {"no utf8", "long", "blank", "malformed", "nested", "member twice", "no object",
           "other version", "no v4", "v4"}

\* What the schema has established of a v4 record when normalize_event sees it: a
\* kind, of the fields that are read none but the kind's own, and text where
\* copy_str wants a word.
WellFormed(line) ==
    /\ line.shape \in Shapes
    /\ line.shape = "v4" =>
        /\ line.kind \in Kinds
        /\ DOMAIN line.fields \subseteq {r.field : r \in kind_rules(line.kind)}
        /\ \A r \in kind_rules(line.kind) :
            r.how = "str" /\ r.field \in DOMAIN line.fields => line.fields[r.field].type = "str"

ASSUME UploadsAssumption ==
    \A lines \in Uploads : Len(lines) \in Nat /\ \A n \in 1..Len(lines) : WellFormed(lines[n])

VARIABLES
    body,      \* the lines of the body
    place,     \* the next line to read
    parsed,    \* parsed_lines: line number, error and columns
    verdict,   \* "received", "reading", "accepted", "stored" or a rejection code
    blamed,    \* the line number a rejection gives, or 0
    member,    \* AuditFile.source_local_member_ref
    inserted,  \* the event rows inserted
    statements \* the parameters of each INSERT

intakeVars == <<body, place, parsed, verdict, blamed, member, inserted, statements>>

IntakeInit ==
    /\ body \in Uploads
    /\ place = 1 /\ parsed = <<>> /\ verdict = "received" /\ blamed = 0
    /\ member = "" /\ inserted = <<>> /\ statements = <<>>

Give(v, n) == verdict' = v /\ blamed' = n

\* The start of validate_upload: the body is text or nothing is read of it.  Its
\* size is bounded before (module UploadRequest).
Decode ==
    /\ verdict = "received"
    /\ Give(IF \E i \in 1..Len(body) : body[i].shape = "no utf8" THEN "invalid_utf8" ELSE "reading", 0)
    /\ UNCHANGED <<body, place, parsed, member, inserted, statements>>

\* parse_jsonl, one line: the length is checked before blank lines are skipped,
\* the count before the record is looked at.
ReadLine ==
    /\ verdict = "reading" /\ place <= Len(body)
    /\ LET line == body[place] IN
        \/ /\ line.shape = "long" \/ (line.shape # "blank" /\ Len(parsed) >= MaxRecords)
           /\ Give("processing_limit", 0)
           /\ UNCHANGED <<place, parsed>>
        \/ /\ line.shape = "blank"
           /\ place' = place + 1
           /\ UNCHANGED <<parsed, verdict, blamed>>
        \/ /\ line.shape \notin {"long", "blank"} /\ Len(parsed) < MaxRecords
           /\ place' = place + 1
           /\ parsed' = Append(parsed,
                [number |-> place, error |-> LineError(line),
                 columns |-> IF line.shape = "v4" THEN Normalized(line) ELSE <<>>])
           /\ UNCHANGED <<verdict, blamed>>
    /\ UNCHANGED <<body, member, inserted, statements>>

Bad == {i \in 1..Len(parsed) : parsed[i].error # "none"}

\* Mutant: the rejection names the last error.
LastBad(i) == i \in Bad /\ \A j \in Bad : j <= i

FirstBad(i) == i \in Bad /\ \A j \in Bad : i <= j

Carried(c) == {parsed[i].columns[c] : i \in {j \in 1..Len(parsed) : c \in DOMAIN parsed[j].columns}}

\* An empty account_ref does not occur; an engine_id is never empty.
has_inconsistent_identity == \E c \in {"engine_id", "account_ref"} : Cardinality(Carried(c)) > 1

\* file_local_member_ref: disagreeing refs stay unknown.
MemberRefs == {v.ref : v \in Carried("context_source")} \ {""}
file_local_member_ref ==
    IF Cardinality(MemberRefs) = 1 THEN CHOOSE r \in MemberRefs : TRUE ELSE ""

\* The rest of validate_upload, and the metadata of an accepted file.
Judge ==
    /\ verdict = "reading" /\ place > Len(body)
    /\ \/ parsed = <<>> /\ Give("empty_upload", 0) /\ UNCHANGED member
       \/ \E i \in 1..Len(parsed) :
            FirstBad(i) /\ Give(parsed[i].error, parsed[i].number) /\ UNCHANGED member
       \/ /\ parsed # <<>> /\ Bad = {} /\ has_inconsistent_identity
          /\ Give("inconsistent_file_identity", 0) /\ UNCHANGED member
       \/ /\ parsed # <<>> /\ Bad = {} /\ ~has_inconsistent_identity
          /\ Give("accepted", 0)
          /\ member' = file_local_member_ref
    /\ UNCHANGED <<body, place, parsed, inserted, statements>>

audit_event_batch_size ==
    LET half == MaxBind \div (EventColumns * 2) IN IF half < 1 THEN 1 ELSE half

Smaller(a, b) == IF a < b THEN a ELSE b

\* bulk_create, one statement; which lines are duplicates is the subject of
\* module Ingest, here none is.
InsertBatch ==
    /\ verdict = "accepted"
    /\ LET n == Smaller(audit_event_batch_size, Len(parsed) - Len(inserted)) IN
        /\ inserted' = inserted \o SubSeq(parsed, Len(inserted) + 1, Len(inserted) + n)
        /\ statements' = Append(statements, n * EventColumns)
    /\ verdict' = IF Len(inserted') = Len(parsed) THEN "stored" ELSE "accepted"
    /\ UNCHANGED <<body, place, parsed, blamed, member>>

IntakeNext == Decode \/ ReadLine \/ Judge \/ InsertBatch

IntakeSpec == IntakeInit /\ [][IntakeNext]_intakeVars

-----------------------------------------------------------------------------
(* Properties *)

Records == {i \in 1..Len(body) : body[i].shape = "v4"}

\* Every column of a row fits, and it holds what the record's kind says, or what
\* its context says where the kind says nothing (normalize_event).
Holds(row, line) ==
    /\ \A r \in kind_rules(line.kind) :
        r.field \in DOMAIN line.fields /\ r.how \notin {"relay", "first", "welcomes"} =>
            row[r.column] = line.fields[r.field] /\ Fits(r.column, row[r.column])
    /\ \A r \in context_rules \cup human_action_rules :
        LET part == IF r \in context_rules THEN line.context ELSE line.action IN
        r.field \in DOMAIN part =>
            /\ r.column \in DOMAIN row /\ Fits(r.column, row[r.column])
            /\ \/ row[r.column] = part[r.field]
               \/ \E q \in kind_rules(line.kind) :
                    q.column = r.column /\ q.field \in DOMAIN line.fields
    /\ "relay_url" \in DOMAIN line.fields => "relay_urls" \in DOMAIN row

\* A body is stored whole or not at all: one row per record, in order and with
\* its line number, in statements PostgreSQL accepts (audit_event_batch_size).
\* Every column of a row fits, and it holds what the record's kind says, or what
\* its context says where the kind says nothing; the file speaks for a member
\* only if every source context of its rows does (normalize_event, event_values,
\* file_local_member_ref).
StoredWhole ==
    /\ \A i \in 1..Len(statements) : statements[i] <= MaxBind
    /\ verdict = "stored" =>
        /\ {inserted[i].number : i \in 1..Len(inserted)} = Records
        /\ \A i, j \in 1..Len(inserted) : i < j => inserted[i].number < inserted[j].number
        /\ \A i \in 1..Len(inserted) : Holds(inserted[i].columns, body[inserted[i].number])
        /\ member # "" => \A i \in 1..Len(inserted) :
            "context_source" \in DOMAIN inserted[i].columns =>
                inserted[i].columns["context_source"].ref \in {"", member}

\* The parts of a record, each with the rules that copy it.
Parts(line) ==
    {<<envelope_rules, line.envelope>>, <<context_rules, line.context>>,
     <<human_action_rules, line.action>>, <<kind_rules(line.kind), line.fields>>}

\* A value that exceeds the limit of its column, in length or in range.
Exceeds(r, v) == v.type # "float" /\ ~Fits(r.column, v)

Unstorable(line) ==
    \E q \in Parts(line) : \E r \in q[1] :
        r.field \in DOMAIN q[2] /\ Exceeds(r, q[2][r.field])

\* A value within every limit that the schema lets through and the code does not:
\* an integer written with a fraction, an empty string where copy_str wants a word.
Unwelcome(r, v) == v.type = "float" \/ (r.how = "str" /\ v.size = 0)

Unwanted(line) ==
    \E q \in Parts(line) : \E r \in q[1] :
        r.field \in DOMAIN q[2] /\ Unwelcome(r, q[2][r.field])

\* What each code that blames a line says of it.
LineCodes == {"invalid_json", "invalid_json_object", "unsupported_schema", "invalid_v4_schema",
              "storage_limit_exceeded"}

Faulty(line, code) ==
    \/ code = "invalid_json" /\ line.shape \in {"malformed", "nested", "member twice"}
    \/ code = "invalid_json_object" /\ line.shape = "no object"
    \/ code = "unsupported_schema" /\ line.shape = "other version"
    \/ code = "invalid_v4_schema" /\ line.shape = "no v4"
    \/ /\ code = "storage_limit_exceeded" /\ line.shape = "v4"
       /\ Unstorable(line) \/ Unwanted(line)

FaultlessBefore(lines, n) == \A i \in 1..(n - 1) : \A c \in LineCodes : ~Faulty(lines[i], c)

NotBlank(lines) == {i \in 1..Len(lines) : lines[i].shape # "blank"}

\* The verdict v is right for a body, and n the first line to blame for it.
Deserved(lines, v, n) ==
    CASE v \in {"idle", "received", "reading"} -> TRUE
      [] v = "invalid_utf8" -> \E i \in NotBlank(lines) : lines[i].shape = "no utf8"
      [] v \in {"accepted", "stored"} ->
            /\ NotBlank(lines) # {} /\ FaultlessBefore(lines, Len(lines) + 1)
            /\ Cardinality(NotBlank(lines)) <= MaxRecords
            /\ \A i \in NotBlank(lines) : lines[i].shape = "v4"
      [] v = "processing_limit" ->
            \/ Cardinality(NotBlank(lines)) > MaxRecords
            \/ \E i \in NotBlank(lines) : lines[i].shape = "long"
      [] v = "empty_upload" -> NotBlank(lines) = {}
      [] v = "inconsistent_file_identity" ->
            /\ FaultlessBefore(lines, Len(lines) + 1)
            /\ Cardinality({lines[i].envelope : i \in NotBlank(lines)}) > 1
      [] OTHER ->
            /\ v \in LineCodes /\ n \in NotBlank(lines)
            /\ Faulty(lines[n], v) /\ FaultlessBefore(lines, n)

\* A rejection is deserved and points at the first line that deserves it: no
\* code is given for a fault the body does not have, and a fault in an earlier
\* line is not hidden by a later one (validate_upload, parse_jsonl).  What
\* storage_limit_exceeded means here is what the code uses it for, the empty words
\* and fractions of Unwelcome included; StorageLimitsAsDocumented holds it to the
\* narrower meaning of docs/api-v1.md.
RejectedRightly == Deserved(body, verdict, blamed)

\* storage_limit_exceeded says that a schema-valid value exceeds a Goggles storage
\* or display limit (docs/api-v1.md:359).  Not so: copy_str and copy_int give it
\* for an empty string and for an integer written 1.0 too.
StorageLimitsAsDocumented ==
    verdict = "storage_limit_exceeded" => Unstorable(body[blamed])
=============================================================================
