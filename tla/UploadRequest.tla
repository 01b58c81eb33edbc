---------------------------- MODULE UploadRequest ----------------------------
(***************************************************************************)
(* The upload endpoint around ingestion: authentication, the transfer of   *)
(* the body through ProgressInput under the transfer deadline, the idle    *)
(* timeout and gunicorn's watchdog, the verification of what arrived, and  *)
(* the answer.  Bytes are counted in units; the transaction itself is the  *)
(* subject of module Ingest and is one step here.                          *)
(***************************************************************************)
EXTENDS Tokens

CONSTANTS
    MaxDump,     \* GOGGLES_MAX_DUMP_BYTES
    ChunkSize,   \* ProgressInput.CHUNK_SIZE
    Transfer,    \* GOGGLES_INGEST_TRANSFER_TIMEOUT_SECONDS
    Watchdog,    \* gunicorn's timeout: the heartbeat and the idle deadline
    MaxFileSize, \* bound on the file a client sends
    MaxRequests  \* bound on the requests

ASSUME UploadAssumption ==
    /\ {MaxDump, MaxRequests} \subseteq Nat /\ MaxFileSize \in Nat \ {0}
    /\ {ChunkSize, Transfer, Watchdog} \subseteq Nat \ {0} \* IngestWorker.init_process

\* The answers of UploadRefused.
Reasons == {"length_required", "too_large", "too_many_parts", "malformed_body",
            "incomplete_body"}

\* No length, time or reason stands for the absence of one.
ASSUME AbsenceAssumption == None \notin Nat \cup Reasons

\* What a client commits to: a raw body or a multipart form with files parts of
\* size each, whose framing takes a unit before each part and one at the end.
Bodies == {b \in [kind : {"raw", "multipart"}, size : 0..MaxFileSize, files : 0..2,
                  broken : BOOLEAN, length : BOOLEAN] :
             b.kind = "raw" => b.files = 0 /\ ~b.broken}

SmallBody == [kind |-> "raw", size |-> 1, files |-> 0, broken |-> FALSE, length |-> TRUE]

\* A request as its worker sees it.
Request(b) ==
    [body |-> b,
     got |-> 0,          \* bytes handed to the application (CountingInput.bytes_read)
     part |-> 0,         \* bytes of the chunk being read
     limit |-> None,     \* the socket timeout of that chunk
     wait |-> 0,         \* time since the chunk's last byte
     spent |-> 0,        \* time since the first read
     deadline |-> None,  \* ProgressInput.deadline
     beat |-> 0,         \* time since the last heartbeat
     hungUp |-> FALSE,   \* whether the client closed its side
     reason |-> None]    \* the refusal that was raised

VARIABLES
    req,      \* per ingest worker: the request it serves
    recorded, \* the reasons UploadRejection rows were written for
    requests  \* how many so far

uploadVars == <<req, recorded, requests>>
vars == <<tokenVars, uploadVars>>

Init ==
    /\ TokensInit
    /\ req = [p \in IngestWorkers |-> Request(SmallBody)]
    /\ recorded = {}
    /\ requests = 0

\* A process moves on to step, with nothing else of the tokens changed.
Go(p, step) ==
    /\ at' = [at EXCEPT ![p] = step]
    /\ UNCHANGED <<config, settings, late, owner, tokens, form, bearer, ops>>

\* Worker p raises UploadRefused.
Refuse(p, why) ==
    /\ req' = [req EXCEPT ![p].reason = why]
    /\ Go(p, "reject")

\* The step changes only where worker p is and its request.
OnlyRequest == UNCHANGED <<recorded, requests>>

-----------------------------------------------------------------------------
(* The request up to its body *)

\* The client's Content-Length: None stands for an absent or invalid header.
declared_content_length(b) ==
    IF ~b.length THEN None
    ELSE IF b.kind = "raw" THEN b.size
    ELSE b.files * (b.size + 1) + 1

Declared(p) == declared_content_length(req[p].body)
Multipart(p) == req[p].body.kind = "multipart"

Arrive(p, t, b) ==
    /\ at[p] = "idle" /\ requests < MaxRequests
    /\ b = SmallBody \/ (ops = 0 /\ requests = 0)
    /\ authenticate(p, t, UploadTokens, "enabled")
    /\ req' = [req EXCEPT ![p] = Request(b)]
    /\ requests' = requests + 1
    /\ UNCHANGED recorded

\* A raw body is judged by its header alone; broken framing shows before any
\* part is read.
CheckHeader(p) ==
    /\ at[p] = "enabled"
    /\ IF ~settings[p].uploads THEN Go(p, "disabled") /\ UNCHANGED req
       ELSE IF Declared(p) = None THEN Refuse(p, "length_required")
       ELSE IF ~Multipart(p) /\ Declared(p) > MaxDump THEN Refuse(p, "too_large")
       ELSE IF req[p].body.broken THEN Refuse(p, "malformed_body")
       ELSE Go(p, "receive") /\ UNCHANGED req
    /\ OnlyRequest

-----------------------------------------------------------------------------
(* ProgressInput._read, chunk by chunk, and the multipart parser behind it *)

\* The bytes of the file that are among the first n of a multipart body.
FileBytes(b, n) == IF n = 0 \/ b.files = 0 THEN 0
                   ELSE IF n - 1 < b.size THEN n - 1 ELSE b.size

\* MaxDumpSizeUploadHandler: what it raises on the first n bytes.
TooManyFiles(b, n) == b.files > 1 /\ n >= b.size + 2

\* Mutant: the cap is compared with the whole form.
TooMuchInForm(b, n) == n > MaxDump

TooMuchData(b, n) == FileBytes(b, n) > MaxDump

InChunk(p) == at[p] = "receive" /\ req[p].limit # None
BetweenChunks(p) == at[p] = "receive" /\ req[p].limit = None
ChunkFull(p) == \/ req[p].part = ChunkSize
                \/ req[p].got + req[p].part = Declared(p)

\* The time the socket may stay silent while the chunk is read.
ChunkLimit(remaining) == IF remaining < Watchdog THEN remaining ELSE Watchdog

\* Mutant: every read starts the transfer's clock again.
DeadlinePerRead(r) == r.spent + Transfer

\* The transfer's deadline, set when the body is first read.
DeadlineFor(r) == IF r.deadline = None THEN r.spent + Transfer ELSE r.deadline

BeginChunk(p) ==
    /\ BetweenChunks(p) /\ req[p].got < Declared(p)
    /\ LET deadline == DeadlineFor(req[p])
           remaining == deadline - req[p].spent IN
        IF remaining <= 0 THEN Refuse(p, "incomplete_body")
        ELSE /\ req' = [req EXCEPT ![p] =
                    [@ EXCEPT !.deadline = deadline, !.limit = ChunkLimit(remaining),
                              !.part = 0, !.wait = 0]]
             /\ UNCHANGED tokenVars
    /\ OnlyRequest

\* gunicorn goes on receiving until the chunk is full, without a heartbeat.
Receive(p) ==
    /\ InChunk(p) /\ ~ChunkFull(p) /\ ~req[p].hungUp
    /\ req' = [req EXCEPT ![p].part = @ + 1, ![p].wait = 0]
    /\ UNCHANGED tokenVars
    /\ OnlyRequest

\* The client is killed or loses its link: a clean close, or a reset, which
\* discards the chunk.
HangUp(p) ==
    /\ at[p] = "receive" /\ ~req[p].hungUp
    /\ req' = [req EXCEPT ![p].hungUp = TRUE]
    /\ UNCHANGED tokenVars
    /\ OnlyRequest

Reset(p) ==
    /\ InChunk(p) /\ ~ChunkFull(p)
    /\ Refuse(p, "incomplete_body")
    /\ OnlyRequest

SocketTimeout(p) ==
    /\ InChunk(p) /\ ~ChunkFull(p) /\ ~req[p].hungUp
    /\ req[p].wait >= req[p].limit
    /\ Refuse(p, "incomplete_body")
    /\ OnlyRequest

\* The chunk is handed over: a late one is a timeout, an empty one the end of
\* the body, any other one a heartbeat and input for the parser.
EndChunk(p) ==
    /\ InChunk(p)
    /\ ChunkFull(p) \/ req[p].hungUp
    /\ LET r == req[p]
           n == r.got + r.part
           late_chunk == r.spent > r.deadline
           why == IF late_chunk THEN "incomplete_body"
                  ELSE IF Multipart(p) /\ TooMuchData(r.body, n) THEN "too_large"
                  ELSE IF Multipart(p) /\ TooManyFiles(r.body, n) THEN "too_many_parts"
                  ELSE None
           next == IF why # None THEN "reject" ELSE IF r.part = 0 THEN "verify" ELSE "receive"
       IN /\ req' = [req EXCEPT ![p] =
                [r EXCEPT !.limit = None, !.reason = why,
                          !.got = IF late_chunk THEN r.got ELSE n,
                          !.beat = IF late_chunk \/ r.part = 0 THEN r.beat ELSE 0]]
          /\ Go(p, next)
    /\ OnlyRequest

\* Everything declared was read.
BodyRead(p) ==
    /\ BetweenChunks(p) /\ req[p].got = Declared(p)
    /\ Go(p, "verify")
    /\ UNCHANGED req
    /\ OnlyRequest

-----------------------------------------------------------------------------
(* verified_audit_bytes once the body was read, and the answer *)

\* The size of what audit_bytes_from_request returns.
audit_bytes(p) == IF Multipart(p) THEN FileBytes(req[p].body, req[p].got) ELSE req[p].got

\* Mutant: no counter, so that only a raw body can be measured.
MeasuredByView(p) == IF Multipart(p) THEN Declared(p) ELSE audit_bytes(p)

received_body_bytes(p) == req[p].got

Verify(p) ==
    /\ at[p] = "verify"
    /\ IF audit_bytes(p) > MaxDump THEN Refuse(p, "too_large")
       ELSE IF received_body_bytes(p) < Declared(p) THEN Refuse(p, "incomplete_body")
       ELSE Go(p, "ingest") /\ UNCHANGED req
    /\ OnlyRequest

\* ingest_audit_log_bytes stores the file or raises UploadRejected.
IngestReturns(p) ==
    /\ at[p] = "ingest"
    /\ Go(p, "stored") \/ Go(p, "ingest_rejected")
    /\ UNCHANGED req
    /\ OnlyRequest

\* reject_upload: the row is written if the database lets it be; it cites the
\* token, so never for one deleted meanwhile.
Reject(p) ==
    /\ at[p] = "reject"
    /\ \/ tokens[bearer[p]].status # "deleted" /\ recorded' = recorded \cup {req[p].reason}
       \/ UNCHANGED recorded
    /\ Go(p, "rejected")
    /\ UNCHANGED <<req, requests>>

\* Where a request is over: the answers 401, 503, 500, 411/413/400, those of
\* UploadRejected, 201/200 and, for a reader, the data.
Answered == {"refused", "disabled", "failed", "rejected", "ingest_rejected", "accepted", "granted"}

Release(p) ==
    /\ at' = [at EXCEPT ![p] = "idle"]
    /\ bearer' = [bearer EXCEPT ![p] = None]
    /\ req' = [q \in IngestWorkers |-> IF q = p THEN Request(SmallBody) ELSE req[q]]
    /\ UNCHANGED <<config, settings, late, owner, tokens, form, ops>>
    /\ OnlyRequest

Answer(p) == at[p] \in Answered /\ Release(p)

-----------------------------------------------------------------------------
(* Time and gunicorn's arbiter *)

\* The deadline runs from the first read of the body.
Reading(p) == InChunk(p) \/ (BetweenChunks(p) /\ req[p].got \in 1..(Declared(p) - 1))

\* Where a worker may be kept waiting: by its client, or by the transaction.
Waiting(p) == at[p] \in {"receive", "ingest"}

\* Mutant: a timer thread sends the heartbeat.
TickWithHeartbeat(p) ==
    /\ Waiting(p)
    /\ InChunk(p) => req[p].wait < req[p].limit \/ ChunkFull(p)
    /\ req' = [req EXCEPT ![p].spent = IF Reading(p) THEN @ + 1 ELSE @,
                          ![p].wait = IF InChunk(p) THEN @ + 1 ELSE @]
    /\ UNCHANGED tokenVars
    /\ OnlyRequest

\* A unit of time passes.  Socket timeouts and the arbiter's kill are prompt:
\* time stops at them, and they race what else is possible at that moment.
Tick(p) ==
    /\ Waiting(p) /\ req[p].beat < Watchdog
    /\ InChunk(p) => req[p].wait < req[p].limit \/ ChunkFull(p)
    /\ req' = [req EXCEPT ![p].beat = @ + 1,
                          ![p].spent = IF Reading(p) THEN @ + 1 ELSE @,
                          ![p].wait = IF InChunk(p) THEN @ + 1 ELSE @]
    /\ UNCHANGED tokenVars
    /\ OnlyRequest

\* The arbiter replaces a worker that sent no heartbeat in time.
Kill(p) == Waiting(p) /\ req[p].beat >= Watchdog /\ Release(p)

-----------------------------------------------------------------------------
\* What the server does of its own accord.
Upload(p) ==
    \/ Rekey(p, "enabled") /\ UNCHANGED uploadVars
    \/ CheckHeader(p) \/ BeginChunk(p) \/ SocketTimeout(p) \/ EndChunk(p) \/ BodyRead(p)
    \/ Verify(p) \/ Reject(p)
    \/ at[p] = "stored" /\ mark_used(p, "accepted") /\ UNCHANGED uploadVars
    \/ Answer(p)

Reader(p) ==
    \/ Reads(p) /\ UNCHANGED uploadVars
    \/ Answer(p)

\* Bounds: an unusual body is the first request and nobody else acts meanwhile;
\* nobody acts in the middle of a transfer, which reads none of their state.
Quiet == \A p \in IngestWorkers : req[p].body = SmallBody /\ at[p] # "receive"

BeginRead(p, t) ==
    /\ Quiet /\ requests < MaxRequests
    /\ Read(p, t)
    /\ requests' = requests + 1
    /\ UNCHANGED <<req, recorded>>

Operate ==
    /\ Administration
    /\ Quiet
    /\ UNCHANGED uploadVars

Next ==
    \/ Operate
    \/ \E p \in WebWorkers : \/ \E t \in Tokens : BeginRead(p, t)
                             \/ Reader(p)
    \/ \E p \in IngestWorkers :
        \/ \E t \in Tokens, b \in Bodies : Arrive(p, t, b)
        \/ Receive(p) \/ HangUp(p) \/ Reset(p) \/ IngestReturns(p)
        \/ Upload(p) \/ Tick(p) \/ Kill(p)

\* The clock and the arbiter go on, and so does the server: a statement of its own
\* that hangs (the rekeying, mark_used, the rejection) is cut off by the arbiter
\* like a transfer, which ends the request as its answer does.  Clients, operators
\* and the transaction of ingestion owe nothing.
Fairness ==
    /\ \A p \in WebWorkers : WF_vars(Reader(p))
    /\ \A p \in IngestWorkers : WF_vars(Upload(p)) /\ WF_vars(Tick(p)) /\ WF_vars(Kill(p))

Spec == Init /\ [][Next]_vars /\ Fairness

-----------------------------------------------------------------------------
(* What the endpoint promises *)

\* Ingestion starts only with a body that arrived in full: the declared length
\* was received, and the bytes handed over are those of the one file the client
\* sent, within the ceiling (verified_audit_bytes).
OnlyWholeBodies ==
    \A p \in IngestWorkers : at[p] \in {"ingest", "stored"} =>
        /\ req[p].got = Declared(p)
        /\ ~req[p].body.broken /\ req[p].body.files < 2
        /\ audit_bytes(p) = (IF Multipart(p) /\ req[p].body.files = 0 THEN 0 ELSE req[p].body.size)
        /\ audit_bytes(p) <= MaxDump

\* A refusal says what was wrong with the request: a complete, well-formed body
\* of one file within the ceiling is never refused (reject_upload).
RefusedRightly ==
    \A p \in IngestWorkers : at[p] = "reject" =>
        CASE req[p].reason = "length_required" -> Declared(p) = None
          [] req[p].reason = "too_large" -> req[p].body.size > MaxDump
          [] req[p].reason = "too_many_parts" -> req[p].body.files > 1
          [] req[p].reason = "malformed_body" -> req[p].body.broken
          [] req[p].reason = "incomplete_body" -> req[p].got < Declared(p)

\* However slowly a client sends, its body occupies the worker for no more than
\* the transfer deadline and one heartbeat interval (ProgressInput._read).
TransferBounded ==
    \A p \in IngestWorkers : Reading(p) => req[p].spent <= Transfer + Watchdog

\* Through the migration to a dedicated hash key, in any order of restarts,
\* issues, rekeyings and edits, every token that exists verifies under the
\* current configuration, if the operator keeps to the sequence the README
\* prescribes (legacy_hash_keys).  A process that still runs with older settings
\* may refuse a token that was rekeyed meanwhile.
TokensKeepWorking ==
    \A t \in Tokens : Exists(t) => Verifies(config, tokens[t].key)

\* Nothing a request writes undoes a revocation, a deletion or a rekeying that
\* happened since it read the row: only the admin's form does.
OnlyAdministratorsUndo ==
    [][form' = form => \A t \in Tokens :
        /\ tokens[t].status \in {"disabled", "deleted"} => tokens'[t].status # "active"
        /\ Exists(t) /\ tokens[t].key = Dedicated => tokens'[t].key = Dedicated]_vars

\* Every request ends: answered, or cut off by the arbiter, whether the client
\* stalls, the transfer trickles or the database hangs.
EveryRequestEnds ==
    \A p \in Processes : at[p] # "idle" ~> at[p] = "idle"
=============================================================================
