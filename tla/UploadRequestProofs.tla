------------------------- MODULE UploadRequestProofs -------------------------
(***************************************************************************)
(* Proofs about UploadRequest and Tokens, for any number of workers and    *)
(* tokens, any ceiling, chunk size and timeouts, and bodies of any size.   *)
(***************************************************************************)
EXTENDS UploadRequest, TLAPS

-----------------------------------------------------------------------------
(* The inductive invariant: tokens *)

Settings == [secret : {"secret", "rotated"}, dedicated : {Unset, Dedicated},
             uploads : BOOLEAN]

Row == [status : {"unissued", "active", "disabled", "deleted"},
        key : {"secret", Dedicated}, expires : {"never", "soon"}, used : BOOLEAN]

TokenTypes ==
    /\ config \in Settings
    /\ settings \in [Processes -> Settings]
    /\ tokens \in [Tokens -> Row]
    /\ form # None => form \in [token : Tokens, row : Row]
    /\ DOMAIN at = Processes
    /\ bearer \in [Processes -> Tokens \cup {None}]

\* A request has a token, and only a process with the dedicated key finds a
\* hash to be a legacy one.
Bearers ==
    \A p \in Processes :
        /\ at[p] # "idle" => bearer[p] \in Tokens
        /\ at[p] = "rekey" => settings[p].dedicated = Dedicated

\* Before the dedicated key is configured nothing was made with it.
BeforeCutover ==
    config.dedicated = Unset =>
        /\ config.secret = "secret"
        /\ \A p \in Processes : settings[p].dedicated = Unset
        /\ \A t \in Tokens : tokens[t].key = "secret"
        /\ form # None => form.row.key = "secret"

\* After the signing key was rotated nothing was made with the old one, and
\* nothing more will be.
AfterRotation ==
    config.secret = "rotated" =>
        /\ \A p \in Processes : settings[p].dedicated = Dedicated
        /\ \A t \in Tokens : Exists(t) => tokens[t].key = Dedicated
        /\ form # None => form.row.key = Dedicated

\* A process that knows the rotated key knows the dedicated one.
CutoverFirst ==
    \A p \in Processes : settings[p].secret = "rotated" => settings[p].dedicated = Dedicated

TokenInv == TokenTypes /\ Bearers /\ BeforeCutover /\ AfterRotation /\ CutoverFirst

-----------------------------------------------------------------------------
(* The inductive invariant: requests *)

RequestType ==
    [body : Bodies, got : Nat, part : Nat, limit : Nat \cup {None}, wait : Nat, spent : Nat,
     deadline : Nat \cup {None}, beat : Nat, hungUp : BOOLEAN, reason : Reasons \cup {None}]

\* Before the header is checked, nothing was read.
Fresh(p) == at[p] \in {"rekey", "enabled"} => req[p] = Request(req[p].body)

\* What the header lets through.
HeaderPassed(p) ==
    at[p] \in {"receive", "verify"} =>
        /\ req[p].body.length /\ ~req[p].body.broken
        /\ ~Multipart(p) => req[p].body.size <= MaxDump

\* What was handed to the parser so far: no more than was declared, and nothing
\* the parser refuses.
Parsed(p) ==
    at[p] \in {"receive", "verify"} =>
        /\ req[p].got <= Declared(p)
        /\ Multipart(p) => /\ ~TooMuchData(req[p].body, req[p].got)
                           /\ ~TooManyFiles(req[p].body, req[p].got)

\* A chunk is begun while something is missing, and stops at the declared end.
Chunk(p) ==
    InChunk(p) => /\ req[p].got < Declared(p)
                  /\ req[p].got + req[p].part <= Declared(p)

\* One deadline is set for the transfer, and it is overrun by no more than the
\* time since the last heartbeat, which the arbiter bounds.
Clock(p) ==
    at[p] = "receive" =>
        /\ req[p].deadline \in {None, Transfer}
        /\ req[p].deadline = None => req[p].spent = 0 /\ req[p].got = 0 /\ req[p].limit = None
        /\ req[p].spent <= Transfer + req[p].beat
        /\ req[p].beat <= Watchdog

WholeBody(p) ==
    at[p] \in {"ingest", "stored"} =>
        /\ req[p].got = Declared(p)
        /\ ~req[p].body.broken /\ req[p].body.files < 2
        /\ audit_bytes(p) = (IF Multipart(p) /\ req[p].body.files = 0 THEN 0 ELSE req[p].body.size)
        /\ audit_bytes(p) <= MaxDump

Refused(p) ==
    at[p] = "reject" =>
        /\ req[p].reason \in Reasons
        /\ req[p].reason = "length_required" => Declared(p) = None
        /\ req[p].reason = "too_large" => req[p].body.size > MaxDump
        /\ req[p].reason = "too_many_parts" => req[p].body.files > 1
        /\ req[p].reason = "malformed_body" => req[p].body.broken
        /\ req[p].reason = "incomplete_body" => req[p].got < Declared(p)

WorkerInv(p) ==
    /\ Fresh(p) /\ HeaderPassed(p) /\ Parsed(p) /\ Chunk(p) /\ Clock(p)
    /\ WholeBody(p) /\ Refused(p)

RequestInv ==
    /\ req \in [IngestWorkers -> RequestType]
    /\ \A p \in IngestWorkers : WorkerInv(p)

\* The inductive invariant of the endpoint.
EndpointInv == TokenInv /\ RequestInv

-----------------------------------------------------------------------------
(* Tokens *)

\* A hash made under settings that know the dedicated key, or the original
\* signing key, has one of the two known keys.
LEMMA HashKeyFacts ==
    ASSUME NEW s \in Settings, s.secret = "rotated" => s.dedicated = Dedicated
    PROVE  /\ HashKey(s) \in {"secret", Dedicated}
           /\ s.dedicated = Dedicated => HashKey(s) = Dedicated
           /\ s.dedicated = Unset => HashKey(s) = "secret"
  BY TokensAssumption DEF HashKey, Settings

\* The settings a hash may be made under, in any state of the invariant.
LEMMA KnownSettings ==
    ASSUME TokenInv
    PROVE  /\ config.secret = "rotated" => config.dedicated = Dedicated
           /\ \A s \in {config} \cup {settings[p] : p \in Processes} :
                 /\ s \in Settings
                 /\ HashKey(s) \in {"secret", Dedicated}
                 /\ config.dedicated = Unset => HashKey(s) = "secret"
                 /\ config.secret = "rotated" => HashKey(s) = Dedicated
  <1> USE DEF TokenInv
  <1>1. config.secret = "rotated" => config.dedicated = Dedicated
    BY DEF TokenTypes, BeforeCutover, Settings
  <1>2. ASSUME NEW s \in {config} \cup {settings[p] : p \in Processes}
        PROVE  /\ s \in Settings
               /\ s.secret = "rotated" => s.dedicated = Dedicated
               /\ config.dedicated = Unset => s.dedicated = Unset
               /\ config.secret = "rotated" => s.dedicated = Dedicated
    <2>1. CASE s = config
      BY <1>1, <2>1 DEF TokenTypes
    <2>2. CASE s \in {settings[p] : p \in Processes}
      BY <2>2 DEF TokenTypes, BeforeCutover, AfterRotation, CutoverFirst
    <2>3. QED
      BY <2>1, <2>2
  <1>3. QED
    BY <1>1, <1>2, HashKeyFacts

\* A process that moves on changes nothing the invariant says of the others.
LEMMA ProcessMoves ==
    ASSUME TokenInv, UNCHANGED <<config, settings, tokens, form>>,
           NEW p \in Processes, NEW step, NEW b \in Tokens \cup {None},
           at' = [at EXCEPT ![p] = step], bearer' = [bearer EXCEPT ![p] = b],
           step # "idle" => b \in Tokens,
           step = "rekey" => settings[p].dedicated = Dedicated
    PROVE  TokenInv'
  <1> USE DEF TokenInv
  <1>1. TokenTypes'
    BY DEF TokenTypes
  <1>2. Bearers'
    BY DEF TokenTypes, Bearers
  <1>3. (BeforeCutover /\ AfterRotation /\ CutoverFirst)'
    BY DEF BeforeCutover, AfterRotation, CutoverFirst, Exists
  <1>4. QED
    BY <1>1, <1>2, <1>3

\* A row may be written whose hash was made with a key of the present phase.
LEMMA RowWritten ==
    ASSUME TokenInv, UNCHANGED <<config, settings, form>>,
           NEW t \in Tokens, NEW row \in Row, tokens' = [tokens EXCEPT ![t] = row],
           config.dedicated = Unset => row.key = "secret",
           config.secret = "rotated" /\ row.status \in {"active", "disabled"} => row.key = Dedicated,
           NEW p \in Processes, NEW step, at' = [at EXCEPT ![p] = step], bearer' = bearer,
           at[p] # "idle", step # "rekey"
    PROVE  TokenInv'
  <1> USE DEF TokenInv
  <1>1. TokenTypes'
    BY DEF TokenTypes
  <1>2. Bearers'
    BY DEF TokenTypes, Bearers
  <1>3. BeforeCutover'
    BY DEF TokenTypes, BeforeCutover
  <1>4. AfterRotation'
    BY DEF TokenTypes, AfterRotation, Exists
  <1>5. CutoverFirst'
    BY DEF CutoverFirst
  <1>6. QED
    BY <1>1, <1>2, <1>3, <1>4, <1>5

\* Operators, owners and the clock preserve the tokens' part.
LEMMA AdministrationStep ==
    ASSUME TokenInv, Administration
    PROVE  TokenInv'
  <1> USE DEF TokenInv
  <1>1. ASSUME NEW t \in Tokens, NEW e \in {"never", "soon"},
               NEW s \in {config} \cup {settings[p] : p \in Processes}, issue(t, s, e)
        PROVE  TokenInv'
    <2> DEFINE row == [status |-> "active", key |-> HashKey(s), expires |-> e, used |-> FALSE]
    <2>1. row \in Row /\ row.key = HashKey(s)
      BY KnownSettings DEF Row
    <2> HIDE DEF row
    <2>2. TokenTypes' /\ tokens' = [tokens EXCEPT ![t] = row]
          /\ UNCHANGED <<config, settings, form, at, bearer>>
      BY <1>1, <2>1 DEF issue, TokenTypes, row
    <2>3. Bearers' /\ CutoverFirst'
      BY <2>2 DEF Bearers, CutoverFirst
    <2>4. BeforeCutover'
      BY <2>1, <2>2, KnownSettings DEF BeforeCutover, TokenTypes
    <2>5. AfterRotation'
      BY <2>1, <2>2, KnownSettings DEF AfterRotation, TokenTypes, Exists
    <2>6. QED
      BY <2>2, <2>3, <2>4, <2>5
  <1>2. ASSUME NEW t \in Tokens, create_upload_token(t) \/ create_access_token(t)
        PROVE  TokenInv'
    BY <1>1, <1>2 DEF create_upload_token, create_access_token, Processes
  <1>3. ASSUME NEW t \in Tokens, NEW status \in {"disabled", "deleted"},
               Exists(t), tokens' = [tokens EXCEPT ![t].status = status],
               UNCHANGED <<config, settings, form, at, bearer>>
        PROVE  TokenInv'
    <2>1. TokenTypes'
      BY <1>3 DEF TokenTypes, Row
    <2>2. Bearers' /\ CutoverFirst'
      BY <1>3 DEF Bearers, CutoverFirst
    <2>3. BeforeCutover' /\ AfterRotation'
      BY <1>3 DEF BeforeCutover, AfterRotation, TokenTypes, Row, Exists
    <2>4. QED
      BY <2>1, <2>2, <2>3
  <1>4. ASSUME NEW t \in Tokens, revoke_access_token(t) \/ AdminDelete(t)
        PROVE  TokenInv'
    BY <1>3, <1>4 DEF revoke_access_token, AdminDelete
  <1>5. ASSUME NEW t \in Tokens, AdminLoad(t)
        PROVE  TokenInv'
    <2>1. PICK status \in {"active", "disabled"} :
              form' = [token |-> t, row |-> [tokens[t] EXCEPT !.status = status]]
      BY <1>5 DEF AdminLoad
    <2>2. Exists(t) /\ UNCHANGED <<config, settings, tokens, at, bearer>>
      BY <1>5 DEF AdminLoad
    <2>3. form'.row \in Row /\ form'.row.key = tokens[t].key
      BY <2>1 DEF TokenTypes, Row
    <2>4. TokenTypes' /\ Bearers' /\ CutoverFirst'
      BY <2>1, <2>2, <2>3 DEF TokenTypes, Bearers, CutoverFirst
    <2>5. BeforeCutover' /\ AfterRotation'
      BY <2>2, <2>3 DEF BeforeCutover, AfterRotation, Exists
    <2>6. QED
      BY <2>4, <2>5
  <1>6. CASE AdminSave
    <2>1. TokenTypes' /\ Bearers' /\ CutoverFirst'
      BY <1>6 DEF AdminSave, TokenTypes, Bearers, CutoverFirst
    <2>2. BeforeCutover' /\ AfterRotation'
      BY <1>6 DEF AdminSave, TokenTypes, BeforeCutover, AfterRotation, Exists
    <2>3. QED
      BY <2>1, <2>2
  <1>7. CASE OwnerSwitched \/ TimePasses
    BY <1>7 DEF OwnerSwitched, TimePasses, TokenTypes, Bearers, BeforeCutover, AfterRotation,
                CutoverFirst, Exists
  <1>8. CASE SetDedicatedKey
    <2>1. config' = [config EXCEPT !.dedicated = Dedicated] /\ config.secret = "secret"
          /\ UNCHANGED <<settings, tokens, form, at, bearer>>
      BY <1>8 DEF SetDedicatedKey, BeforeCutover
    <2>2. config' \in Settings /\ config'.dedicated # Unset /\ config'.secret = "secret"
      BY <2>1, TokensAssumption DEF TokenTypes, Settings
    <2>3. QED
      BY <2>1, <2>2 DEF TokenTypes, Bearers, BeforeCutover, AfterRotation, CutoverFirst, Exists
  <1>9. CASE SwitchUploads
    <2>1. config' \in Settings /\ config'.dedicated = config.dedicated
          /\ config'.secret = config.secret /\ UNCHANGED <<settings, tokens, form, at, bearer>>
      BY <1>9 DEF SwitchUploads, TokenTypes, Settings
    <2>2. QED
      BY <2>1 DEF TokenTypes, Bearers, BeforeCutover, AfterRotation, CutoverFirst, Exists
  <1>10. CASE RotateSecretKey
    <2>1. /\ config' \in Settings /\ config'.dedicated = Dedicated
          /\ config.dedicated = Dedicated /\ UNCHANGED <<settings, tokens, form, at, bearer>>
          /\ \A p \in Processes : settings[p].dedicated = Dedicated
          /\ \A t \in Tokens : Exists(t) => tokens[t].key = Dedicated
          /\ form = None
      BY <1>10 DEF RotateSecretKey, TokenTypes, Settings
    <2>2. QED
      BY <2>1, TokensAssumption
      DEF TokenTypes, Bearers, BeforeCutover, AfterRotation, CutoverFirst, Exists
  <1>11. ASSUME NEW p \in Processes, Restart(p)
         PROVE  TokenInv'
    <2>1. /\ settings' = [settings EXCEPT ![p] = config] /\ at[p] = "idle"
          /\ UNCHANGED <<config, tokens, form, at, bearer>>
      BY <1>11 DEF Restart
    <2>2. TokenTypes' /\ Bearers'
      BY <2>1 DEF TokenTypes, Bearers
    <2>3. BeforeCutover' /\ AfterRotation' /\ CutoverFirst'
      BY <2>1, KnownSettings DEF TokenTypes, BeforeCutover, AfterRotation, CutoverFirst, Exists
    <2>4. QED
      BY <2>2, <2>3
  <1>12. QED
    BY <1>2, <1>4, <1>5, <1>6, <1>7, <1>8, <1>9, <1>10, <1>11 DEF Administration

\* Looking a token up leaves the tables alone.
LEMMA AuthenticateStep ==
    ASSUME TokenInv, NEW p \in Processes, NEW t \in Tokens, NEW family, NEW next,
           next \notin {"idle", "rekey"}, authenticate(p, t, family, next)
    PROVE  TokenInv'
  <1> DEFINE step == IF ~Matches(p, t, family) THEN "refused"
                     ELSE IF tokens[t].key # HashKey(settings[p]) THEN "rekey" ELSE next
  <1>1. step = "rekey" => settings[p].dedicated = Dedicated
    <2> SUFFICES ASSUME step = "rekey"
                 PROVE  settings[p].dedicated = Dedicated
      OBVIOUS
    <2>1. tokens[t].key # HashKey(settings[p]) /\ Verifies(settings[p], tokens[t].key)
      BY DEF Matches
    <2>2. settings[p] \in Settings
      BY DEF TokenInv, TokenTypes
    <2>3. QED
      BY <2>1, <2>2 DEF Verifies, legacy_hash_keys, HashKey, Settings
  <1>2. /\ at' = [at EXCEPT ![p] = step] /\ bearer' = [bearer EXCEPT ![p] = t]
        /\ UNCHANGED <<config, settings, tokens, form>>
    BY DEF authenticate
  <1> HIDE DEF step
  <1>3. QED
    BY <1>1, <1>2, ProcessMoves

\* A save by a request changes the row's key or its use.
LEMMA SaveStep ==
    ASSUME TokenInv, NEW p \in Processes, NEW next, next \notin {"idle", "rekey"},
           at[p] # "idle",
           \/ at[p] = "rekey" /\ Rekey(p, next)
           \/ mark_used(p, next)
    PROVE  TokenInv'
  <1> DEFINE t == bearer[p]
  <1>1. t \in Tokens /\ tokens[t] \in Row /\ settings[p] \in Settings
    BY DEF TokenInv, TokenTypes, Bearers
  <1>2. PICK row : SaveFields(p, row, next)
                   /\ \/ row = [tokens[t] EXCEPT !.key = HashKey(settings[p])]
                      \/ row = [tokens[t] EXCEPT !.used = TRUE]
    BY DEF Rekey, mark_used
  <1>3. /\ row \in Row
        /\ row.status = tokens[t].status
        /\ config.dedicated = Unset => row.key = "secret"
        /\ config.secret = "rotated" /\ row.status \in {"active", "disabled"} => row.key = Dedicated
    <2>1. CASE row = [tokens[t] EXCEPT !.key = HashKey(settings[p])]
      BY <1>1, <2>1, KnownSettings DEF Row
    <2>2. CASE row = [tokens[t] EXCEPT !.used = TRUE]
      BY <1>1, <2>2 DEF Row, TokenInv, BeforeCutover, AfterRotation, Exists
    <2>3. QED
      BY <1>2, <2>1, <2>2
  <1>4. CASE tokens[t].status = "deleted"
    <2>1. /\ at' = [at EXCEPT ![p] = "failed"] /\ bearer' = [bearer EXCEPT ![p] = t]
          /\ UNCHANGED <<config, settings, tokens, form>>
      BY <1>2, <1>4 DEF SaveFields, TokenInv, TokenTypes
    <2>2. QED
      BY <1>1, <2>1, ProcessMoves
  <1>5. CASE tokens[t].status # "deleted"
    <2>1. /\ tokens' = [tokens EXCEPT ![t] = row] /\ at' = [at EXCEPT ![p] = next]
          /\ UNCHANGED <<config, settings, form, bearer>>
      BY <1>2, <1>5 DEF SaveFields
    <2>2. QED
      BY <1>1, <1>3, <2>1, RowWritten
  <1>6. QED
    BY <1>4, <1>5

\* A worker that goes on with its request, or lets it go.
LEMMA GoStep ==
    ASSUME TokenInv, NEW p \in Processes, NEW step, at[p] # "idle",
           step \notin {"idle", "rekey"}, Go(p, step)
    PROVE  TokenInv'
  <1>1. bearer[p] \in Tokens /\ bearer' = [bearer EXCEPT ![p] = bearer[p]]
    BY DEF TokenInv, TokenTypes, Bearers, Go
  <1>2. QED
    BY <1>1, ProcessMoves DEF Go

LEMMA ReleaseStep ==
    ASSUME TokenInv, NEW p \in Processes, Release(p)
    PROVE  TokenInv'
  BY ProcessMoves DEF Release

\* A step of an ingest worker is one of these: it only looks a token up, saves
\* one, moves on, stays where it is, or lets its request go.
LEMMA WorkerTokens ==
    ASSUME TokenInv, NEW p \in IngestWorkers,
           \/ \E t \in Tokens, b \in Bodies : Arrive(p, t, b)
           \/ Receive(p) \/ HangUp(p) \/ Reset(p) \/ IngestReturns(p)
           \/ Upload(p) \/ Tick(p) \/ Kill(p)
    PROVE  TokenInv'
  <1>0. p \in Processes
    BY DEF Processes
  <1>1. ASSUME NEW t \in Tokens, NEW b \in Bodies, Arrive(p, t, b)
        PROVE  TokenInv'
    BY <1>0, <1>1, AuthenticateStep DEF Arrive
  <1>2. CASE UNCHANGED tokenVars
    BY <1>2 DEF tokenVars, TokenInv, TokenTypes, Bearers, BeforeCutover, AfterRotation,
                CutoverFirst, Exists
  <1>3. CASE Receive(p) \/ HangUp(p) \/ Tick(p)
    BY <1>2, <1>3 DEF Receive, HangUp, Tick
  <1>4. CASE Reset(p) \/ SocketTimeout(p)
    BY <1>0, <1>4, GoStep DEF Reset, SocketTimeout, InChunk, Refuse
  <1>5. CASE IngestReturns(p)
    BY <1>0, <1>5, GoStep DEF IngestReturns
  <1>6. CASE Kill(p)
    BY <1>0, <1>6, ReleaseStep DEF Kill
  <1>7. CASE Answer(p)
    BY <1>0, <1>7, ReleaseStep DEF Answer
  <1>8. CASE Rekey(p, "enabled") \/ (at[p] = "stored" /\ mark_used(p, "accepted"))
    BY <1>0, <1>8, SaveStep DEF Rekey
  <1>9. CASE CheckHeader(p)
    BY <1>0, <1>9, GoStep DEF CheckHeader, Refuse
  <1>10. CASE BeginChunk(p)
    BY <1>0, <1>2, <1>10, GoStep DEF BeginChunk, BetweenChunks, Refuse
  <1>11. CASE EndChunk(p)
    <2>1. \E step \in {"reject", "verify", "receive"} : Go(p, step)
      BY <1>11 DEF EndChunk
    <2>2. QED
      BY <1>0, <1>11, <2>1, GoStep DEF EndChunk, InChunk
  <1>12. CASE BodyRead(p) \/ Verify(p) \/ Reject(p)
    BY <1>0, <1>12, GoStep DEF BodyRead, BetweenChunks, Verify, Reject, Refuse
  <1>13. QED
    BY <1>1, <1>3, <1>4, <1>5, <1>6, <1>7, <1>8, <1>9, <1>10, <1>11, <1>12 DEF Upload

LEMMA TokenStep ==
    ASSUME TokenInv, [Next]_vars
    PROVE  TokenInv'
  <1>1. CASE Operate
    BY <1>1, AdministrationStep DEF Operate
  <1>2. ASSUME NEW p \in WebWorkers, NEW t \in Tokens, BeginRead(p, t)
        PROVE  TokenInv'
    BY <1>2, AuthenticateStep DEF BeginRead, Read, Processes
  <1>3. ASSUME NEW p \in WebWorkers, Reader(p)
        PROVE  TokenInv'
    <2>0. p \in Processes
      BY DEF Processes
    <2>1. CASE Rekey(p, "owner") \/ (at[p] = "marking" /\ mark_used(p, "granted"))
      BY <2>0, <2>1, SaveStep DEF Rekey
    <2>2. CASE OwnerCheck(p)
      <3>1. PICK step \in {"marking", "refused"} : at' = [at EXCEPT ![p] = step]
        BY <2>2 DEF OwnerCheck
      <3>2. bearer[p] \in Tokens /\ bearer' = [bearer EXCEPT ![p] = bearer[p]]
            /\ UNCHANGED <<config, settings, tokens, form>>
        BY <2>0, <2>2 DEF OwnerCheck, TokenInv, TokenTypes, Bearers
      <3>3. QED
        BY <2>0, <3>1, <3>2, ProcessMoves
    <2>3. CASE Answer(p)
      BY <2>0, <2>3, ReleaseStep DEF Answer
    <2>4. QED
      BY <1>3, <2>1, <2>2, <2>3 DEF Reader, Reads
  <1>4. CASE UNCHANGED vars
    BY <1>4 DEF vars, tokenVars, TokenInv, TokenTypes, Bearers, BeforeCutover, AfterRotation,
                CutoverFirst, Exists
  <1>5. QED
    BY <1>1, <1>2, <1>3, <1>4, WorkerTokens DEF Next

-----------------------------------------------------------------------------
(* Requests *)

\* What a declared length is, by the form of the body.
LEMMA DeclaredFacts ==
    ASSUME NEW b \in Bodies
    PROVE  /\ ~b.length => declared_content_length(b) = None
           /\ b.length => declared_content_length(b) \in Nat
           /\ b.length /\ b.kind = "raw" => declared_content_length(b) = b.size
           /\ b.length /\ b.kind = "multipart" =>
                 /\ b.files = 0 => declared_content_length(b) = 1
                 /\ b.files = 1 => declared_content_length(b) = b.size + 2
                 /\ b.files = 2 => declared_content_length(b) = 2 * b.size + 3
  <1>1. /\ b.size \in Nat /\ b.files \in {0, 1, 2} /\ b.kind \in {"raw", "multipart"}
        /\ b.length \in BOOLEAN
    BY UploadAssumption DEF Bodies
  <1>2. CASE b.files = 0
    BY <1>1, <1>2 DEF declared_content_length
  <1>3. CASE b.files = 1
    BY <1>1, <1>3 DEF declared_content_length
  <1>4. CASE b.files = 2
    BY <1>1, <1>4 DEF declared_content_length
  <1>5. QED
    BY <1>1, <1>2, <1>3, <1>4

\* The parser never sees more of a file than there is, and all of it at the end.
LEMMA FileBytesFacts ==
    ASSUME NEW b \in Bodies, NEW n \in Nat
    PROVE  /\ FileBytes(b, n) \in Nat /\ FileBytes(b, n) <= b.size
           /\ b.files = 0 => FileBytes(b, n) = 0
           /\ b.files = 1 /\ n = b.size + 2 => FileBytes(b, n) = b.size
  BY UploadAssumption DEF Bodies, FileBytes

\* A step that leaves a worker and its request alone.
LEMMA WorkerKept ==
    ASSUME NEW p \in IngestWorkers, WorkerInv(p), at'[p] = at[p], req'[p] = req[p]
    PROVE  WorkerInv(p)'
  BY DEF WorkerInv, Fresh, HeaderPassed, Parsed, Chunk, Clock, WholeBody, Refused, InChunk,
         Multipart, Declared, audit_bytes

\* A request between the steps the invariant speaks of.
LEMMA WorkerElsewhere ==
    ASSUME NEW p \in IngestWorkers,
           at'[p] \notin {"rekey", "enabled", "receive", "verify", "ingest", "stored", "reject"}
    PROVE  WorkerInv(p)'
  BY DEF WorkerInv, Fresh, HeaderPassed, Parsed, Chunk, Clock, WholeBody, Refused, InChunk

\* What Go and Refuse do to the worker that takes the step.
LEMMA Moved ==
    ASSUME NEW p \in IngestWorkers, TokenTypes, req \in [IngestWorkers -> RequestType]
    PROVE  /\ \A step : Go(p, step) =>
                 /\ at'[p] = step
                 /\ \A q \in Processes \ {p} : at'[q] = at[q]
           /\ \A why \in Reasons : Refuse(p, why) =>
                 /\ at'[p] = "reject" /\ req'[p] = [req[p] EXCEPT !.reason = why]
                 /\ req' \in [IngestWorkers -> RequestType]
                 /\ \A q \in IngestWorkers \ {p} : at'[q] = at[q] /\ req'[q] = req[q]
  <1>1. p \in Processes /\ DOMAIN at = Processes /\ IngestWorkers \subseteq Processes
    BY DEF TokenTypes, Processes
  <1>2. ASSUME NEW step, Go(p, step)
        PROVE  at'[p] = step /\ \A q \in Processes \ {p} : at'[q] = at[q]
    BY <1>1, <1>2 DEF Go
  <1>3. ASSUME NEW why \in Reasons, Refuse(p, why)
        PROVE  /\ req'[p] = [req[p] EXCEPT !.reason = why]
               /\ req' \in [IngestWorkers -> RequestType]
               /\ \A q \in IngestWorkers \ {p} : req'[q] = req[q]
    <2>1. req' = [req EXCEPT ![p] = [req[p] EXCEPT !.reason = why]]
      BY <1>3 DEF Refuse
    <2>2. [req[p] EXCEPT !.reason = why] \in RequestType
      BY DEF RequestType
    <2>3. QED
      BY <2>1, <2>2
  <1>4. QED
    BY <1>1, <1>2, <1>3 DEF Refuse

\* A refusal that is right preserves what the invariant says of the worker.
LEMMA RefuseStep ==
    ASSUME NEW p \in IngestWorkers, TokenTypes, RequestInv, NEW why \in Reasons,
           Refuse(p, why),
           why = "length_required" => Declared(p) = None,
           why = "too_large" => req[p].body.size > MaxDump,
           why = "too_many_parts" => req[p].body.files > 1,
           why = "malformed_body" => req[p].body.broken,
           why = "incomplete_body" => req[p].got < Declared(p)
    PROVE  RequestInv'
  <1>1. /\ at'[p] = "reject" /\ req'[p] = [req[p] EXCEPT !.reason = why]
        /\ req' \in [IngestWorkers -> RequestType]
        /\ \A q \in IngestWorkers \ {p} : at'[q] = at[q] /\ req'[q] = req[q]
    BY Moved DEF RequestInv
  <1>2. /\ req'[p].reason = why /\ req'[p].body = req[p].body /\ req'[p].got = req[p].got
    BY <1>1 DEF RequestInv, RequestType
  <1>3. WorkerInv(p)'
    BY <1>1, <1>2 DEF WorkerInv, Fresh, HeaderPassed, Parsed, Chunk, Clock, WholeBody, Refused,
                      InChunk, Multipart, Declared
  <1>4. QED
    BY <1>1, <1>3, WorkerKept DEF RequestInv

\* A step that changes one worker and its request only.
LEMMA OneWorker ==
    ASSUME NEW p \in IngestWorkers, RequestInv, WorkerInv(p)',
           req' \in [IngestWorkers -> RequestType],
           \A q \in IngestWorkers \ {p} : at'[q] = at[q] /\ req'[q] = req[q]
    PROVE  RequestInv'
  BY WorkerKept DEF RequestInv

\* The request is taken, and what its header says is judged.
LEMMA HeaderSteps ==
    ASSUME NEW p \in IngestWorkers, TokenTypes, RequestInv,
           \/ \E t \in Tokens, b \in Bodies : Arrive(p, t, b)
           \/ CheckHeader(p)
    PROVE  RequestInv'
  <1>0. p \in Processes /\ IngestWorkers \subseteq Processes /\ req[p] \in RequestType
    BY DEF Processes, RequestInv
  <1>1. ASSUME NEW t \in Tokens, NEW b \in Bodies, Arrive(p, t, b)
        PROVE  RequestInv'
    <2>1. Request(b) \in RequestType /\ Request(b).body = b
      BY DEF Request, RequestType
    <2>2. req' = [req EXCEPT ![p] = Request(b)]
      BY <1>1 DEF Arrive
    <2>3. /\ req' \in [IngestWorkers -> RequestType] /\ req'[p] = Request(b)
          /\ \A q \in IngestWorkers \ {p} : req'[q] = req[q]
      BY <2>1, <2>2 DEF RequestInv
    <2>4. /\ at'[p] \in {"refused", "rekey", "enabled"}
          /\ \A q \in IngestWorkers \ {p} : at'[q] = at[q]
      BY <1>0, <1>1 DEF Arrive, authenticate, TokenTypes
    <2>5. WorkerInv(p)'
      BY <2>1, <2>3, <2>4 DEF WorkerInv, Fresh, HeaderPassed, Parsed, Chunk, Clock, WholeBody,
                              Refused, InChunk
    <2>6. QED
      BY <2>3, <2>4, <2>5, OneWorker
  <1>2. CASE CheckHeader(p)
    <2> DEFINE b == req[p].body
    <2>1. /\ b \in Bodies /\ b.size \in Nat /\ b.length \in BOOLEAN /\ b.broken \in BOOLEAN
          /\ b.kind \in {"raw", "multipart"}
      BY <1>0, UploadAssumption DEF RequestType, Bodies
    <2>2. req[p] = Request(b)
      BY <1>2 DEF RequestInv, WorkerInv, Fresh, CheckHeader
    <2>3. ASSUME NEW step, step \in {"disabled", "receive"}, Go(p, step), UNCHANGED req,
                 WorkerInv(p)'
          PROVE  RequestInv'
      BY <1>0, <2>3, Moved, OneWorker DEF RequestInv
    <2>4. CASE Go(p, "disabled") /\ UNCHANGED req
      <3>1. WorkerInv(p)'
        BY <2>4, Moved, WorkerElsewhere DEF RequestInv
      <3>2. QED
        BY <2>3, <2>4, <3>1
    <2>5. CASE Declared(p) = None /\ Refuse(p, "length_required")
      BY <2>5, RefuseStep DEF Reasons
    <2>6. CASE b.length /\ ~Multipart(p) /\ Declared(p) > MaxDump /\ Refuse(p, "too_large")
      BY <2>1, <2>6, DeclaredFacts, RefuseStep DEF Reasons, Multipart, Declared
    <2>7. CASE b.broken /\ Refuse(p, "malformed_body")
      BY <2>7, RefuseStep DEF Reasons
    <2>8. CASE /\ b.length /\ ~b.broken /\ ~(~Multipart(p) /\ Declared(p) > MaxDump)
               /\ Go(p, "receive") /\ UNCHANGED req
      <3>1. at'[p] = "receive" /\ req'[p] = req[p]
        BY <2>8, Moved DEF RequestInv
      <3>2. /\ req[p].got = 0 /\ req[p].limit = None /\ req[p].spent = 0 /\ req[p].beat = 0
            /\ req[p].deadline = None
        BY <2>2 DEF Request
      <3>3. Declared(p) \in Nat /\ (~Multipart(p) => Declared(p) = b.size)
        BY <2>1, <2>8, DeclaredFacts DEF Declared, Multipart
      <3>4. ~TooMuchData(b, 0) /\ ~TooManyFiles(b, 0)
        BY <2>1, UploadAssumption DEF TooMuchData, FileBytes, TooManyFiles
      <3>5. (HeaderPassed(p) /\ Parsed(p))'
        BY <2>1, <2>8, <3>1, <3>2, <3>3, <3>4, UploadAssumption
        DEF HeaderPassed, Parsed, Multipart, Declared
      <3>6. (Fresh(p) /\ Chunk(p) /\ Clock(p) /\ WholeBody(p) /\ Refused(p))'
        BY <3>1, <3>2, UploadAssumption DEF Fresh, Chunk, Clock, WholeBody, Refused, InChunk
      <3>7. QED
        BY <2>3, <2>8, <3>5, <3>6 DEF WorkerInv
    <2>9. ~b.length <=> Declared(p) = None
      BY <2>1, DeclaredFacts, AbsenceAssumption DEF Declared
    <2>10. QED
      BY <1>2, <2>4, <2>5, <2>6, <2>7, <2>8, <2>9 DEF CheckHeader
  <1>3. QED
    BY <1>1, <1>2

\* The worker that reads a body: what the invariant and the types say of it.
LEMMA Receiving ==
    ASSUME NEW p \in IngestWorkers, RequestInv, at[p] \in {"receive", "verify"}
    PROVE  /\ req[p] \in RequestType /\ req[p].body \in Bodies
           /\ req[p].body.size \in Nat /\ req[p].body.files \in {0, 1, 2}
           /\ req[p].body.kind \in {"raw", "multipart"}
           /\ req[p].body.length /\ Declared(p) \in Nat
           /\ ~Multipart(p) => Declared(p) = req[p].body.size
           /\ WorkerInv(p)
  <1>1. req[p] \in RequestType /\ WorkerInv(p)
    BY DEF RequestInv
  <1>2. /\ req[p].body \in Bodies /\ req[p].body.size \in Nat
        /\ req[p].body.files \in {0, 1, 2} /\ req[p].body.kind \in {"raw", "multipart"}
    BY <1>1, UploadAssumption DEF RequestType, Bodies
  <1>3. req[p].body.length
    BY <1>1 DEF WorkerInv, HeaderPassed
  <1>4. QED
    BY <1>1, <1>2, <1>3, DeclaredFacts DEF Declared, Multipart

\* A step inside a transfer that hands nothing over.
LEMMA TransferSteps ==
    ASSUME NEW p \in IngestWorkers, TokenTypes, RequestInv,
           BeginChunk(p) \/ Receive(p) \/ HangUp(p) \/ Tick(p)
    PROVE  RequestInv'
  <1> DEFINE r == req[p]
  <1>0. r \in RequestType /\ WorkerInv(p)
    BY DEF RequestInv
  <1>1. ASSUME NEW s \in RequestType, req' = [req EXCEPT ![p] = s], UNCHANGED tokenVars,
               s.body = r.body, s.got = r.got,
               at[p] = "receive" => Chunk(p)' /\ Clock(p)',
               at[p] \in {"receive", "ingest"}
        PROVE  RequestInv'
    <2>1. /\ req' \in [IngestWorkers -> RequestType] /\ req'[p] = s
          /\ \A q \in IngestWorkers \ {p} : at'[q] = at[q] /\ req'[q] = req[q]
          /\ at'[p] = at[p]
      BY <1>1 DEF RequestInv, tokenVars
    <2>2. (Fresh(p) /\ HeaderPassed(p) /\ Parsed(p) /\ WholeBody(p) /\ Refused(p))'
      BY <1>0, <1>1, <2>1 DEF WorkerInv, Fresh, HeaderPassed, Parsed, WholeBody, Refused,
                              Multipart, Declared, audit_bytes
    <2>3. (Chunk(p) /\ Clock(p))'
      BY <1>1, <2>1 DEF Chunk, Clock, InChunk
    <2>4. QED
      BY <2>1, <2>2, <2>3, OneWorker DEF WorkerInv
  <1>2. CASE BeginChunk(p)
    <2> DEFINE d == DeadlineFor(r)
    <2>1. at[p] = "receive" /\ r.limit = None /\ r.got < Declared(p)
      BY <1>2 DEF BeginChunk, BetweenChunks
    <2>2. d = Transfer
      BY <1>0, <2>1, UploadAssumption DEF DeadlineFor, WorkerInv, Clock
    <2>3. CASE d - r.spent <= 0
      BY <1>2, <2>1, <2>3, RefuseStep DEF BeginChunk, Reasons
    <2>4. CASE ~(d - r.spent <= 0)
      <3> DEFINE s == [r EXCEPT !.deadline = d, !.limit = ChunkLimit(d - r.spent),
                                !.part = 0, !.wait = 0]
      <3>1. ChunkLimit(d - r.spent) \in Nat
        BY <1>0, <2>2, <2>4, UploadAssumption DEF ChunkLimit, RequestType
      <3>2. s \in RequestType
        BY <1>0, <2>2, <3>1, UploadAssumption DEF RequestType
      <3>3. /\ s.body = r.body /\ s.got = r.got /\ s.part = 0 /\ s.spent = r.spent
            /\ s.beat = r.beat /\ s.deadline = Transfer /\ s.limit \in Nat
        BY <1>0, <2>2, <3>1 DEF RequestType
      <3>4. req' = [req EXCEPT ![p] = s] /\ UNCHANGED tokenVars
        BY <1>2, <2>4 DEF BeginChunk
      <3> HIDE DEF s
      <3>5. req'[p] = s /\ at'[p] = "receive"
        BY <2>1, <3>4 DEF RequestInv, tokenVars
      <3>6. (Chunk(p) /\ Clock(p))'
        BY <1>0, <2>1, <3>3, <3>5, AbsenceAssumption, UploadAssumption, Receiving
        DEF Chunk, Clock, InChunk, WorkerInv, Declared, RequestType
      <3>7. QED
        BY <1>1, <2>1, <3>2, <3>3, <3>4, <3>6
    <2>5. QED
      BY <2>3, <2>4
  <1>3. CASE Receive(p)
    <2> DEFINE s == [r EXCEPT !.part = @ + 1, !.wait = 0]
    <2>1. /\ InChunk(p) /\ ~ChunkFull(p) /\ req' = [req EXCEPT ![p] = s]
          /\ UNCHANGED tokenVars
      BY <1>0, <1>3 DEF Receive, RequestInv
    <2>2. /\ s \in RequestType /\ s.body = r.body /\ s.got = r.got /\ s.part = r.part + 1
          /\ s.spent = r.spent /\ s.beat = r.beat /\ s.deadline = r.deadline
          /\ s.limit = r.limit
      <3>1. r.part + 1 \in Nat
        BY <1>0 DEF RequestType
      <3>2. QED
        BY <1>0, <3>1 DEF RequestType
    <2> HIDE DEF s
    <2>3. req'[p] = s /\ at'[p] = "receive" /\ at[p] = "receive"
      BY <2>1 DEF RequestInv, tokenVars, InChunk
    <2>4. Chunk(p)'
      BY <1>0, <2>1, <2>2, <2>3, Receiving
      DEF Chunk, InChunk, ChunkFull, WorkerInv, Declared, RequestType
    <2>5. Clock(p)'
      BY <1>0, <2>2, <2>3 DEF Clock, WorkerInv
    <2>6. QED
      BY <1>1, <2>1, <2>2, <2>3, <2>4, <2>5
  <1>4. CASE HangUp(p)
    <2> DEFINE s == [r EXCEPT !.hungUp = TRUE]
    <2>1. at[p] = "receive" /\ req' = [req EXCEPT ![p] = s] /\ UNCHANGED tokenVars
      BY <1>0, <1>4 DEF HangUp, RequestInv
    <2>2. /\ s \in RequestType /\ s.body = r.body /\ s.got = r.got /\ s.part = r.part
          /\ s.spent = r.spent /\ s.beat = r.beat /\ s.deadline = r.deadline
          /\ s.limit = r.limit
      BY <1>0 DEF RequestType
    <2> HIDE DEF s
    <2>3. req'[p] = s /\ at'[p] = "receive"
      BY <2>1 DEF RequestInv, tokenVars
    <2>4. Chunk(p)' /\ Clock(p)'
      BY <1>0, <2>1, <2>2, <2>3 DEF Chunk, Clock, InChunk, WorkerInv, Declared
    <2>5. QED
      BY <1>1, <2>1, <2>2, <2>4
  <1>5. CASE Tick(p)
    <2> DEFINE beat == r.beat + 1
               spent == IF Reading(p) THEN r.spent + 1 ELSE r.spent
               wait == IF InChunk(p) THEN r.wait + 1 ELSE r.wait
               s == [r EXCEPT !.beat = beat, !.spent = spent, !.wait = wait]
    <2>1. /\ at[p] \in {"receive", "ingest"} /\ r.beat < Watchdog
          /\ req' = [req EXCEPT ![p] = s] /\ UNCHANGED tokenVars
      BY <1>0, <1>5 DEF Tick, Waiting, RequestInv
    <2>2. /\ s \in RequestType /\ s.body = r.body /\ s.got = r.got /\ s.part = r.part
          /\ s.spent = spent /\ s.beat = beat /\ s.deadline = r.deadline /\ s.limit = r.limit
      <3>1. beat \in Nat /\ spent \in Nat /\ wait \in Nat
        BY <1>0 DEF RequestType
      <3> HIDE DEF beat, spent, wait
      <3>2. QED
        BY <1>0, <3>1 DEF RequestType
    <2> HIDE DEF s
    <2>3. req'[p] = s /\ at'[p] = at[p]
      BY <2>1 DEF RequestInv, tokenVars
    <2>4. Chunk(p)'
      BY <1>0, <2>2, <2>3 DEF Chunk, InChunk, WorkerInv, Declared
    <2>5. at[p] = "receive" => Clock(p)'
      BY <1>0, <2>1, <2>2, <2>3, Receiving, UploadAssumption
      DEF Clock, WorkerInv, Reading, InChunk, BetweenChunks, RequestType
    <2>6. QED
      BY <1>1, <2>1, <2>2, <2>4, <2>5
  <1>6. QED
    BY <1>2, <1>3, <1>4, <1>5

\* The chunk ends: it is handed over, or the request is refused for what it
\* brought.
LEMMA EndChunkStep ==
    ASSUME NEW p \in IngestWorkers, TokenTypes, RequestInv, EndChunk(p)
    PROVE  RequestInv'
  <1> DEFINE r == req[p]
             n == r.got + r.part
             late_chunk == r.spent > r.deadline
             why == IF late_chunk THEN "incomplete_body"
                    ELSE IF Multipart(p) /\ TooMuchData(r.body, n) THEN "too_large"
                    ELSE IF Multipart(p) /\ TooManyFiles(r.body, n) THEN "too_many_parts"
                    ELSE None
             got == IF late_chunk THEN r.got ELSE n
             beat == IF late_chunk \/ r.part = 0 THEN r.beat ELSE 0
             next == IF why # None THEN "reject" ELSE IF r.part = 0 THEN "verify" ELSE "receive"
             s == [r EXCEPT !.limit = None, !.reason = why, !.got = got, !.beat = beat]
  <1>1. at[p] = "receive" /\ r.limit # None /\ InChunk(p)
    BY DEF EndChunk, InChunk
  <1>2. /\ r \in RequestType /\ r.body \in Bodies /\ WorkerInv(p) /\ Declared(p) \in Nat
        /\ r.body.size \in Nat /\ r.body.files \in {0, 1, 2}
    BY <1>1, Receiving
  <1>3. r.got \in Nat /\ r.part \in Nat /\ n \in Nat /\ r.spent \in Nat /\ r.beat \in Nat
    BY <1>2 DEF RequestType
  <1>4. r.got < Declared(p) /\ n <= Declared(p) /\ r.deadline = Transfer
    BY <1>1, <1>2 DEF WorkerInv, Chunk, Clock
  <1>5. req' = [req EXCEPT ![p] = s] /\ Go(p, next)
    BY DEF EndChunk
  <1>6. /\ got \in Nat /\ got <= Declared(p) /\ beat \in Nat
        /\ why \in Reasons \cup {None}
    BY <1>2, <1>3, <1>4 DEF Reasons
  <1> HIDE DEF got, beat, why
  <1>7. /\ s \in RequestType /\ s.body = r.body /\ s.got = got /\ s.limit = None
        /\ s.reason = why /\ s.spent = r.spent /\ s.beat = beat /\ s.deadline = r.deadline
    BY <1>2, <1>6 DEF RequestType
  <1> HIDE DEF s
  <1>8. /\ req'[p] = s /\ req' \in [IngestWorkers -> RequestType] /\ at'[p] = next
        /\ \A q \in IngestWorkers \ {p} : at'[q] = at[q] /\ req'[q] = req[q]
    BY <1>5, <1>7, Moved DEF RequestInv, Processes
  <1>9. Multipart(p)' = Multipart(p) /\ Declared(p)' = Declared(p)
    BY <1>7, <1>8 DEF Multipart, Declared
  <1>10. CASE why # None
    <2>1. at'[p] = "reject" /\ req'[p].reason = why /\ why \in Reasons
      BY <1>6, <1>7, <1>8, <1>10
    <2>2. /\ why = "incomplete_body" => got < Declared(p)
          /\ why = "too_large" => r.body.size > MaxDump
          /\ why = "too_many_parts" => r.body.files > 1
          /\ why \notin {"length_required", "malformed_body"}
      <3>1. why = "incomplete_body" => got < Declared(p)
        BY <1>4, AbsenceAssumption DEF why, got, Reasons
      <3>2. why = "too_large" => r.body.size > MaxDump
        BY <1>2, <1>3, FileBytesFacts, AbsenceAssumption, UploadAssumption
        DEF why, TooMuchData, Reasons
      <3>3. why = "too_many_parts" => r.body.files > 1
        BY AbsenceAssumption DEF why, TooManyFiles, Reasons
      <3>4. why \notin {"length_required", "malformed_body"}
        BY AbsenceAssumption DEF why, Reasons
      <3>5. QED
        BY <3>1, <3>2, <3>3, <3>4
    <2>3. WorkerInv(p)'
      BY <1>7, <1>8, <1>9, <2>1, <2>2
      DEF WorkerInv, Fresh, HeaderPassed, Parsed, Chunk, Clock, WholeBody, Refused, InChunk
    <2>4. QED
      BY <1>8, <2>3, OneWorker
  <1>11. CASE why = None
    <2>1. /\ ~late_chunk /\ got = n
          /\ Multipart(p) => ~TooMuchData(r.body, n) /\ ~TooManyFiles(r.body, n)
      BY <1>11, AbsenceAssumption DEF why, got, Reasons
    <2>2. at'[p] = (IF r.part = 0 THEN "verify" ELSE "receive")
      BY <1>8, <1>11
    <2>3. (HeaderPassed(p) /\ Parsed(p))'
      BY <1>1, <1>2, <1>4, <1>7, <1>8, <1>9, <2>1
      DEF WorkerInv, HeaderPassed, Parsed
    <2>4. Clock(p)'
      <3>1. CASE r.part = 0
        BY <2>2, <3>1 DEF Clock
      <3>2. CASE r.part # 0
        BY <1>3, <1>4, <1>7, <1>8, <2>1, <3>2, AbsenceAssumption, UploadAssumption
        DEF Clock, beat
      <3>3. QED
        BY <3>1, <3>2
    <2>5. (Fresh(p) /\ Chunk(p) /\ WholeBody(p) /\ Refused(p))'
      BY <1>7, <1>8, <2>2 DEF Fresh, Chunk, InChunk, WholeBody, Refused
    <2>6. QED
      BY <1>8, <2>3, <2>4, <2>5, OneWorker DEF WorkerInv
  <1>12. QED
    BY <1>10, <1>11

\* The transfer fails, or its end is reached.
LEMMA EndOfBodySteps ==
    ASSUME NEW p \in IngestWorkers, TokenTypes, RequestInv,
           Reset(p) \/ SocketTimeout(p) \/ BodyRead(p) \/ Verify(p)
    PROVE  RequestInv'
  <1> DEFINE r == req[p]
  <1>0. IngestWorkers \subseteq Processes
    BY DEF Processes
  <1>1. CASE Reset(p) \/ SocketTimeout(p)
    <2>1. InChunk(p) /\ Refuse(p, "incomplete_body")
      BY <1>1 DEF Reset, SocketTimeout
    <2>2. r.got < Declared(p)
      BY <2>1 DEF RequestInv, WorkerInv, Chunk
    <2>3. QED
      BY <2>1, <2>2, RefuseStep DEF Reasons
  <1>2. CASE BodyRead(p)
    <2>1. at[p] = "receive" /\ at'[p] = "verify" /\ req' = req
          /\ \A q \in IngestWorkers \ {p} : at'[q] = at[q]
      BY <1>0, <1>2, Moved DEF BodyRead, BetweenChunks, RequestInv
    <2>2. WorkerInv(p)'
      BY <2>1, Receiving DEF WorkerInv, Fresh, HeaderPassed, Parsed, Chunk, Clock, WholeBody,
                             Refused, InChunk, Multipart, Declared
    <2>3. QED
      BY <2>1, <2>2, OneWorker DEF RequestInv
  <1>3. CASE Verify(p)
    <2>1. /\ at[p] = "verify" /\ r \in RequestType /\ r.body \in Bodies /\ WorkerInv(p)
          /\ r.body.size \in Nat /\ r.body.files \in {0, 1, 2} /\ Declared(p) \in Nat
          /\ r.body.kind \in {"raw", "multipart"} /\ r.body.length
          /\ ~Multipart(p) => Declared(p) = r.body.size
      BY <1>3, Receiving DEF Verify
    <2>2. /\ r.got \in Nat /\ r.got <= Declared(p) /\ ~r.body.broken
          /\ Multipart(p) => ~TooManyFiles(r.body, r.got)
      BY <2>1 DEF RequestType, WorkerInv, Parsed, HeaderPassed
    <2>3. /\ audit_bytes(p) \in Nat /\ audit_bytes(p) <= r.body.size
      BY <2>1, <2>2, FileBytesFacts DEF audit_bytes
    <2>4. CASE audit_bytes(p) > MaxDump /\ Refuse(p, "too_large")
      BY <2>1, <2>3, <2>4, RefuseStep, UploadAssumption DEF Reasons
    <2>5. CASE r.got < Declared(p) /\ Refuse(p, "incomplete_body")
      BY <2>5, RefuseStep DEF Reasons
    <2>6. CASE /\ ~(audit_bytes(p) > MaxDump) /\ ~(r.got < Declared(p))
               /\ Go(p, "ingest") /\ UNCHANGED req
      <3>1. at'[p] = "ingest" /\ req' = req /\ \A q \in IngestWorkers \ {p} : at'[q] = at[q]
        BY <1>0, <2>6, Moved DEF RequestInv
      <3>2. r.got = Declared(p) /\ audit_bytes(p) <= MaxDump
        BY <2>1, <2>2, <2>3, <2>6, UploadAssumption
      <3>3. Multipart(p) => /\ r.body.files < 2
                            /\ r.body.files = 0 => audit_bytes(p) = 0
                            /\ r.body.files = 1 => audit_bytes(p) = r.body.size
        BY <2>1, <2>2, <3>2, DeclaredFacts, FileBytesFacts
        DEF TooManyFiles, Declared, Multipart, audit_bytes
      <3>4. ~Multipart(p) => r.body.files = 0 /\ audit_bytes(p) = r.body.size
        BY <2>1, <3>2 DEF Multipart, Bodies, audit_bytes
      <3>5. WholeBody(p)'
        BY <2>1, <2>2, <3>1, <3>2, <3>3, <3>4 DEF WholeBody, Multipart, Declared, audit_bytes
      <3>6. WorkerInv(p)'
        BY <3>1, <3>5 DEF WorkerInv, Fresh, HeaderPassed, Parsed, Chunk, Clock, Refused, InChunk
      <3>7. QED
        BY <3>1, <3>6, OneWorker DEF RequestInv
    <2>7. QED
      BY <1>3, <2>4, <2>5, <2>6 DEF Verify, received_body_bytes
  <1>4. QED
    BY <1>1, <1>2, <1>3

LEMMA SmallBodyType == SmallBody \in Bodies /\ Request(SmallBody) \in RequestType
  <1>1. SmallBody \in Bodies
    BY UploadAssumption DEF SmallBody, Bodies
  <1>2. QED
    BY <1>1 DEF Request, RequestType

\* The request is answered, its token saved, or its worker replaced.
LEMMA AnswerSteps ==
    ASSUME NEW p \in IngestWorkers, TokenTypes, RequestInv,
           \/ Rekey(p, "enabled") /\ UNCHANGED uploadVars
           \/ at[p] = "stored" /\ mark_used(p, "accepted") /\ UNCHANGED uploadVars
           \/ IngestReturns(p) \/ Reject(p) \/ Answer(p) \/ Kill(p)
    PROVE  RequestInv'
  <1>0. p \in Processes /\ IngestWorkers \subseteq Processes /\ WorkerInv(p)
    BY DEF Processes, RequestInv
  <1>1. CASE IngestReturns(p) \/ Reject(p) \/ (at[p] = "stored" /\ mark_used(p, "accepted"))
    <2>1. /\ at'[p] \in {"stored", "ingest_rejected", "rejected", "accepted", "failed"}
          /\ \A q \in IngestWorkers \ {p} : at'[q] = at[q]
          /\ req' = req
          /\ at'[p] = "stored" => at[p] = "ingest"
      <3>1. CASE IngestReturns(p)
        BY <1>0, <3>1, Moved DEF IngestReturns, RequestInv
      <3>2. CASE Reject(p)
        BY <1>0, <3>2, Moved DEF Reject, RequestInv
      <3>3. CASE at[p] = "stored" /\ mark_used(p, "accepted") /\ UNCHANGED uploadVars
        BY <1>0, <3>3 DEF mark_used, SaveFields, uploadVars, TokenTypes
      <3>4. QED
        BY <1>1, <3>1, <3>2, <3>3 DEF IngestReturns, Reject, Rekey, Answer, Answered, Kill, Waiting
    <2>2. WorkerInv(p)'
      <3>1. CASE at'[p] = "stored"
        BY <1>0, <2>1, <3>1 DEF WorkerInv, Fresh, HeaderPassed, Parsed, Chunk, Clock, WholeBody,
                                Refused, InChunk, Multipart, Declared, audit_bytes
      <3>2. CASE at'[p] # "stored"
        BY <2>1, <3>2, WorkerElsewhere
      <3>3. QED
        BY <3>1, <3>2
    <2>3. QED
      BY <2>1, <2>2, OneWorker DEF RequestInv
  <1>2. CASE Rekey(p, "enabled") /\ UNCHANGED uploadVars
    <2>1. /\ at[p] = "rekey" /\ at'[p] \in {"enabled", "failed"} /\ req' = req
          /\ \A q \in IngestWorkers \ {p} : at'[q] = at[q]
      BY <1>0, <1>2 DEF Rekey, SaveFields, uploadVars, TokenTypes
    <2>2. WorkerInv(p)'
      BY <1>0, <2>1 DEF WorkerInv, Fresh, HeaderPassed, Parsed, Chunk, Clock, WholeBody, Refused,
                        InChunk
    <2>3. QED
      BY <2>1, <2>2, OneWorker DEF RequestInv
  <1>3. CASE Answer(p) \/ Kill(p)
    <2>1. Release(p)
      BY <1>3 DEF Answer, Kill
    <2>2. /\ at'[p] = "idle" /\ \A q \in IngestWorkers \ {p} : at'[q] = at[q]
          /\ req' \in [IngestWorkers -> RequestType]
          /\ \A q \in IngestWorkers \ {p} : req'[q] = req[q]
      BY <1>0, <2>1, SmallBodyType DEF Release, TokenTypes, RequestInv
    <2>3. QED
      BY <2>2, WorkerElsewhere, OneWorker
  <1>4. QED
    BY <1>1, <1>2, <1>3

\* Every step preserves what the invariant says of requests.
LEMMA RequestStep ==
    ASSUME TokenTypes, RequestInv, [Next]_vars
    PROVE  RequestInv'
  <1>1. ASSUME \A q \in IngestWorkers : at'[q] = at[q] /\ req'[q] = req[q], req' = req
        PROVE  RequestInv'
    BY <1>1, WorkerKept DEF RequestInv
  <1>2. CASE Operate
    <2>1. UNCHANGED <<at, req>>
      BY <1>2 DEF Operate, Administration, create_upload_token, create_access_token, issue,
           revoke_access_token, AdminLoad, AdminDelete, AdminSave, OwnerSwitched,
           SetDedicatedKey, SwitchUploads, RotateSecretKey, Restart, TimePasses, uploadVars
    <2>2. QED
      BY <1>1, <2>1
  <1>3. ASSUME NEW p \in WebWorkers, \/ \E t \in Tokens : BeginRead(p, t)
                                     \/ Reader(p)
        PROVE  RequestInv'
    <2>1. p \in Processes /\ p \notin IngestWorkers /\ IngestWorkers \subseteq Processes
      BY TokensAssumption DEF Processes
    <2>2. \E step : at' = [at EXCEPT ![p] = step]
      <3>1. CASE \E t \in Tokens : BeginRead(p, t)
        BY <3>1 DEF BeginRead, Read, authenticate
      <3>2. CASE Reads(p)
        BY <3>2 DEF Reads, Rekey, mark_used, SaveFields, OwnerCheck
      <3>3. CASE Answer(p)
        BY <3>3 DEF Answer, Release
      <3>4. QED
        BY <1>3, <3>1, <3>2, <3>3 DEF Reader
    <2>3. req' = req
      <3>1. CASE Answer(p)
        BY <2>1, <3>1 DEF Answer, Release, RequestInv
      <3>2. QED
        BY <1>3, <3>1 DEF BeginRead, Reader, uploadVars
    <2>4. QED
      BY <1>1, <2>1, <2>2, <2>3 DEF TokenTypes
  <1>4. CASE UNCHANGED vars
    BY <1>1, <1>4 DEF vars, tokenVars, uploadVars
  <1>5. QED
    BY <1>2, <1>3, <1>4, HeaderSteps, TransferSteps, EndChunkStep, EndOfBodySteps, AnswerSteps
    DEF Next, Upload

LEMMA EndpointInit == Init => EndpointInv
  <1> SUFFICES ASSUME Init
               PROVE  EndpointInv
    OBVIOUS
  <1>1. TokenInv
    <2>1. config \in Settings /\ config.secret = "secret" /\ config.dedicated = Unset
          /\ settings = [p \in Processes |-> config]
      BY DEF Init, TokensInit, Settings
    <2>2. /\ tokens \in [Tokens -> Row] /\ \A t \in Tokens : tokens[t].key = "secret"
          /\ form = None
      BY DEF Init, TokensInit, Row
    <2>3. at = [p \in Processes |-> "idle"] /\ bearer = [p \in Processes |-> None]
      BY DEF Init, TokensInit
    <2>4. QED
      BY <2>1, <2>2, <2>3, TokensAssumption
      DEF TokenInv, TokenTypes, Bearers, BeforeCutover, AfterRotation, CutoverFirst
  <1>2. RequestInv
    <2>1. req \in [IngestWorkers -> RequestType]
      BY SmallBodyType DEF Init
    <2>2. \A p \in IngestWorkers : at[p] = "idle"
      BY DEF Init, TokensInit, Processes
    <2>3. QED
      BY <2>1, <2>2 DEF RequestInv, WorkerInv, Fresh, HeaderPassed, Parsed, Chunk, Clock,
                        WholeBody, Refused, InChunk
  <1>3. QED
    BY <1>1, <1>2 DEF EndpointInv

-----------------------------------------------------------------------------
(* The theorems *)

\* The invariant of the upload endpoint and the token tables holds in every
\* reachable state: it ties each step of a request (authenticate, ProgressInput,
\* verified_audit_bytes) to what was read and when, and each phase of the key
\* migration to the keys in use.
THEOREM EndpointInvariant == Spec => []EndpointInv
  <1>1. EndpointInv /\ [Next]_vars => EndpointInv'
    BY TokenStep, RequestStep DEF EndpointInv, TokenInv
  <1>2. QED
    BY <1>1, EndpointInit, PTL DEF Spec

\* Ingestion starts only with a body that arrived in full, is that of at most
\* one file, and is within the ceiling (verified_audit_bytes).
THEOREM WholeBodiesOnly == Spec => []OnlyWholeBodies
  <1>1. EndpointInv => OnlyWholeBodies
    BY DEF EndpointInv, RequestInv, WorkerInv, WholeBody, OnlyWholeBodies
  <1>2. QED
    BY <1>1, EndpointInvariant, PTL

\* Every refusal is for what was wrong with the request (reject_upload).
THEOREM RefusalsRight == Spec => []RefusedRightly
  <1>1. EndpointInv => RefusedRightly
    BY DEF EndpointInv, RequestInv, WorkerInv, Refused, RefusedRightly, Reasons
  <1>2. QED
    BY <1>1, EndpointInvariant, PTL

\* A transfer occupies its worker no longer than its deadline and one heartbeat
\* interval, for any deadline, interval and chunk size (ProgressInput._read).
THEOREM TransfersBounded == Spec => []TransferBounded
  <1>1. EndpointInv => TransferBounded
    <2> SUFFICES ASSUME EndpointInv, NEW p \in IngestWorkers, Reading(p)
                 PROVE  req[p].spent <= Transfer + Watchdog
      BY DEF TransferBounded
    <2>1. at[p] = "receive" /\ Clock(p) /\ req[p] \in RequestType
      BY DEF Reading, InChunk, BetweenChunks, EndpointInv, RequestInv, WorkerInv
    <2>2. QED
      BY <2>1, UploadAssumption DEF Clock, RequestType
  <1>2. QED
    BY <1>1, EndpointInvariant, PTL

\* No token that exists stops to verify during the migration of hash keys
\* (legacy_hash_keys).
THEOREM TokensAlwaysWork == Spec => []TokensKeepWorking
  <1>1. EndpointInv => TokensKeepWorking
    <2> SUFFICES ASSUME EndpointInv, NEW t \in Tokens, Exists(t)
                 PROVE  Verifies(config, tokens[t].key)
      BY DEF TokensKeepWorking
    <2>1. config \in Settings /\ tokens[t].key \in {"secret", Dedicated}
      BY DEF EndpointInv, TokenInv, TokenTypes, Row
    <2>2. CASE config.dedicated = Unset
      BY <2>1, <2>2 DEF EndpointInv, TokenInv, BeforeCutover, Verifies, HashKey
    <2>3. CASE config.dedicated = Dedicated
      BY <2>1, <2>3, TokensAssumption
      DEF EndpointInv, TokenInv, AfterRotation, Verifies, HashKey, legacy_hash_keys, Settings,
          Dedicated
    <2>4. QED
      BY <2>1, <2>2, <2>3 DEF Settings
  <1>2. QED
    BY <1>1, EndpointInvariant, PTL

\* No request undoes what an administrator or another request did to a token
\* since it read the row (save with update_fields).
THEOREM RequestsUndoNothing == Spec => OnlyAdministratorsUndo
  <1> DEFINE Kept(t) ==
        /\ tokens[t].status \in {"disabled", "deleted"} => tokens'[t].status # "active"
        /\ Exists(t) /\ tokens[t].key = Dedicated => tokens'[t].key = Dedicated
      Undo == form' = form => \A t \in Tokens : Kept(t)
  <1>1. ASSUME EndpointInv, [Next]_vars
        PROVE  [Undo]_vars
    <2>1. tokens \in [Tokens -> Row] /\ TokenInv
      BY <1>1 DEF EndpointInv, TokenInv, TokenTypes
    <2>2. CASE UNCHANGED tokens
      BY <2>2 DEF Exists
    <2>3. ASSUME NEW p \in Processes, NEW next,
                 Rekey(p, next) \/ (at[p] # "idle" /\ mark_used(p, next))
          PROVE  Undo
      <3>1. CASE UNCHANGED tokens
        BY <2>2, <3>1
      <3>2. CASE ~UNCHANGED tokens
        <4>1. bearer[p] \in Tokens /\ tokens[bearer[p]] \in Row
          BY <2>1, <2>3 DEF TokenInv, Bearers, Rekey
        <4>2. PICK row : /\ tokens' = [tokens EXCEPT ![bearer[p]] = row]
                         /\ row.status = tokens[bearer[p]].status
                         /\ row.key = Dedicated \/ row.key = tokens[bearer[p]].key
          <5>1. CASE Rekey(p, next)
            <6>1. HashKey(settings[p]) = Dedicated
              BY <2>1, <5>1, TokensAssumption DEF TokenInv, Bearers, Rekey, HashKey
            <6>2. QED
              BY <3>2, <4>1, <5>1, <6>1 DEF Rekey, SaveFields, Row
          <5>2. CASE mark_used(p, next)
            BY <3>2, <4>1, <5>2 DEF mark_used, SaveFields, Row
          <5>3. QED
            BY <2>3, <5>1, <5>2
        <4>3. QED
          BY <2>1, <4>1, <4>2 DEF Exists
      <3>3. QED
        BY <3>1, <3>2
    <2>4. CASE Operate
      <3>1. ASSUME NEW t \in Tokens, NEW s, NEW e, issue(t, s, e)
            PROVE  Undo
        BY <2>1, <3>1 DEF issue, Exists
      <3>2. ASSUME NEW t \in Tokens, revoke_access_token(t) \/ AdminDelete(t)
            PROVE  Undo
        BY <2>1, <3>2 DEF revoke_access_token, AdminDelete, Exists, Row
      <3>3. CASE AdminSave
        BY <3>3 DEF AdminSave
      <3>4. QED
        BY <2>2, <2>4, <3>1, <3>2, <3>3
        DEF Operate, Administration, create_upload_token, create_access_token, AdminLoad,
            OwnerSwitched, SetDedicatedKey, SwitchUploads, RotateSecretKey, Restart, TimePasses
    <2>5. ASSUME NEW p \in WebWorkers, \/ \E t \in Tokens : BeginRead(p, t)
                                       \/ Reader(p)
          PROVE  Undo
      BY <2>2, <2>3, <2>5 DEF Processes, BeginRead, Read, authenticate, Reader, Reads, OwnerCheck,
                              Answer, Release
    <2>6. ASSUME NEW p \in IngestWorkers,
                 \/ \E t \in Tokens, b \in Bodies : Arrive(p, t, b)
                 \/ Receive(p) \/ HangUp(p) \/ Reset(p) \/ IngestReturns(p)
                 \/ Upload(p) \/ Tick(p) \/ Kill(p)
          PROVE  Undo
      <3>1. CASE \E next : Rekey(p, next) \/ (at[p] = "stored" /\ mark_used(p, next))
        BY <2>3, <3>1 DEF Processes
      <3>2. CASE UNCHANGED tokens
        BY <2>2, <3>2
      <3>3. QED
        BY <2>6, <3>1, <3>2
        DEF Arrive, authenticate, Receive, HangUp, Reset, IngestReturns, Upload, Tick, Kill,
            CheckHeader, BeginChunk, SocketTimeout, EndChunk, BodyRead, Verify, Reject, Answer,
            Release, Refuse, Go, tokenVars
    <2>7. QED
      BY <1>1, <2>4, <2>5, <2>6 DEF Next
  <1>2. QED
    BY <1>1, EndpointInvariant, PTL DEF Spec, OnlyAdministratorsUndo
=============================================================================
