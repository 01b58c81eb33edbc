------------------------------- MODULE Tokens -------------------------------
(***************************************************************************)
(* Upload tokens and personal access tokens: how they are issued, checked, *)
(* rekeyed, revoked, edited and deleted, by processes whose settings may   *)
(* be older than the deployment's configuration.  Each database statement  *)
(* is a step, so a request acts on a row that others change meanwhile.     *)
(***************************************************************************)
EXTENDS Integers, FiniteSets

CONSTANTS
    UploadTokens, AccessTokens, \* raw tokens, by the family of their type prefix
    IngestWorkers, WebWorkers,  \* the processes that serve requests
    Unset,                      \* no GOGGLES_TOKEN_HASH_KEY
    None,
    MaxOperations               \* bound on what operators, owners and the clock do

Tokens == UploadTokens \cup AccessTokens
Processes == IngestWorkers \cup WebWorkers

\* The dedicated value; DJANGO_SECRET_KEY is "secret" or, later, "rotated".
Dedicated == "dedicated"

ASSUME TokensAssumption ==
    /\ UploadTokens \cap AccessTokens = {}
    /\ IngestWorkers \cap WebWorkers = {}
    /\ None \notin Tokens
    /\ Unset # Dedicated
    /\ MaxOperations \in Nat

VARIABLES
    config,   \* the environment a process reads when it starts
    settings, \* what each running process read
    late,     \* whether the time "soon" has passed
    owner,    \* is_active of the user who owns the access tokens
    tokens,   \* the token tables: status, the key token_hash was made with,
              \* when the token expires ("never", "soon") and whether it was used
    form,     \* an admin change request between its read and its write
    at,       \* what each process is doing
    bearer,   \* the token its request presented
    ops

tokenVars == <<config, settings, late, owner, tokens, form, at, bearer, ops>>

\* settings.py: the dedicated key, or the signing key when it is unset.
HashKey(s) == IF s.dedicated = Unset THEN s.secret ELSE s.dedicated

\* Mutant: the cutover forgets the hashes made before it.
NoLegacyKeys(s) == {}

legacy_hash_keys(s) == IF s.secret # HashKey(s) THEN {s.secret} ELSE {}

Verifies(s, key) == key = HashKey(s) \/ key \in legacy_hash_keys(s)

is_expired(row) == row.expires = "soon" /\ late

Exists(t) == tokens[t].status \in {"active", "disabled"}

TokensInit ==
    /\ config = [secret |-> "secret", dedicated |-> Unset, uploads |-> TRUE]
    /\ settings = [p \in Processes |-> config]
    /\ late = FALSE /\ owner = TRUE
    /\ \E s \in {"unissued", "active"} :
        tokens = [t \in Tokens |-> [status |-> s, key |-> "secret", expires |-> "soon",
                                    used |-> FALSE]]
    /\ form = None
    /\ at = [p \in Processes |-> "idle"]
    /\ bearer = [p \in Processes |-> None]
    /\ ops = 0

-----------------------------------------------------------------------------
(* Operators, token owners and the clock *)

Operation == ops < MaxOperations /\ ops' = ops + 1

\* A management command hashes under the configuration, a profile page under
\* the settings of the process that serves it.
issue(t, s, expires) ==
    /\ Operation
    /\ tokens[t].status = "unissued"
    /\ tokens' = [tokens EXCEPT ![t] = [status |-> "active", key |-> HashKey(s),
                                        expires |-> expires, used |-> FALSE]]
    /\ UNCHANGED <<config, settings, late, owner, form, at, bearer>>

create_upload_token(t) ==
    t \in UploadTokens /\ \E e \in {"never", "soon"} : issue(t, config, e)

create_access_token(t) ==
    /\ t \in AccessTokens
    /\ \E e \in {"never", "soon"} :
        \/ issue(t, config, e)
        \/ \E p \in WebWorkers : at[p] = "idle" /\ issue(t, settings[p], e)

\* The owner's button: an update of is_active alone.
revoke_access_token(t) ==
    /\ Operation
    /\ t \in AccessTokens /\ Exists(t)
    /\ tokens' = [tokens EXCEPT ![t].status = "disabled"]
    /\ UNCHANGED <<config, settings, late, owner, form, at, bearer>>

\* The admin's change request reads the row; the operator's choice of
\* is_active is part of the request.
AdminLoad(t) ==
    /\ Operation
    /\ form = None /\ Exists(t)
    /\ \E status \in {"active", "disabled"} :
        form' = [token |-> t, row |-> [tokens[t] EXCEPT !.status = status]]
    /\ UNCHANGED <<config, settings, late, owner, tokens, at, bearer>>

\* It writes back every column, and inserts the row again if it is gone.
AdminSave ==
    /\ form # None
    /\ tokens' = [tokens EXCEPT ![form.token] = form.row]
    /\ form' = None
    /\ UNCHANGED <<config, settings, late, owner, at, bearer, ops>>

AdminDelete(t) ==
    /\ Operation
    /\ Exists(t)
    /\ tokens' = [tokens EXCEPT ![t].status = "deleted"]
    /\ UNCHANGED <<config, settings, late, owner, form, at, bearer>>

OwnerSwitched ==
    /\ Operation
    /\ owner' = ~owner
    /\ UNCHANGED <<config, settings, late, tokens, form, at, bearer>>

SetDedicatedKey ==
    /\ Operation
    /\ config.dedicated = Unset
    /\ config' = [config EXCEPT !.dedicated = Dedicated]
    /\ UNCHANGED <<settings, late, owner, tokens, form, at, bearer>>

\* GOGGLES_UPLOADS_ENABLED.
SwitchUploads ==
    /\ Operation
    /\ config' = [config EXCEPT !.uploads = ~@]
    /\ UNCHANGED <<settings, late, owner, tokens, form, at, bearer>>

\* The documented last step of the migration.  The code enforces none of its
\* conditions: that every process runs with the dedicated key, that every token
\* was rekeyed and that no form is open is for the operator to see to.
RotateSecretKey ==
    /\ Operation
    /\ config.secret = "secret" /\ config.dedicated = Dedicated
    /\ \A p \in Processes : settings[p] = config
    /\ \A t \in Tokens : Exists(t) => tokens[t].key = Dedicated
    /\ form = None
    /\ config' = [config EXCEPT !.secret = "rotated"]
    /\ UNCHANGED <<settings, late, owner, tokens, form, at, bearer>>

\* A process restarts between requests and reads the configuration.
Restart(p) ==
    /\ at[p] = "idle" /\ settings[p] # config
    /\ settings' = [settings EXCEPT ![p] = config]
    /\ UNCHANGED <<config, late, owner, tokens, form, at, bearer, ops>>

TimePasses ==
    /\ Operation
    /\ ~late
    /\ late' = TRUE
    /\ UNCHANGED <<config, settings, owner, tokens, form, at, bearer>>

Administration ==
    \/ \E t \in Tokens : \/ create_upload_token(t) \/ create_access_token(t)
                         \/ revoke_access_token(t)
                         \/ AdminLoad(t) \/ AdminDelete(t)
    \/ AdminSave \/ OwnerSwitched \/ SetDedicatedKey \/ SwitchUploads \/ RotateSecretKey
    \/ \E p \in Processes : Restart(p)
    \/ TimePasses

-----------------------------------------------------------------------------
(* authenticate: the lookup, and the rekeying of a legacy hash.  A process   *)
(* whose token is accepted goes on at next, a refused one at "refused".      *)

Matches(p, t, family) ==
    /\ t \in family
    /\ tokens[t].status = "active"
    /\ Verifies(settings[p], tokens[t].key)
    /\ ~is_expired(tokens[t])

authenticate(p, t, family, next) ==
    /\ bearer' = [bearer EXCEPT ![p] = t]
    /\ at' = [at EXCEPT ![p] =
                IF ~Matches(p, t, family) THEN "refused"
                ELSE IF tokens[t].key # HashKey(settings[p]) THEN "rekey"
                ELSE next]
    /\ UNCHANGED <<config, settings, late, owner, tokens, form, ops>>

\* save(update_fields=...) writes its columns if the row is there; Django
\* raises, and the request fails, if it is not.
SaveFields(p, row, next) ==
    /\ IF tokens[bearer[p]].status = "deleted"
       THEN /\ at' = [at EXCEPT ![p] = "failed"]
            /\ UNCHANGED tokens
       ELSE /\ tokens' = [tokens EXCEPT ![bearer[p]] = row]
            /\ at' = [at EXCEPT ![p] = next]
    /\ UNCHANGED <<config, settings, late, owner, form, bearer, ops>>

Rekey(p, next) ==
    /\ at[p] = "rekey"
    /\ SaveFields(p, [tokens[bearer[p]] EXCEPT !.key = HashKey(settings[p])], next)

\* Mutant: the whole row is written, as it was when it was read.
MarkUsedSavesRow(p, next) ==
    /\ tokens' = [tokens EXCEPT ![bearer[p]] =
                    [@ EXCEPT !.status = "active", !.key = HashKey(settings[p]), !.used = TRUE]]
    /\ at' = [at EXCEPT ![p] = next]
    /\ UNCHANGED <<config, settings, late, owner, form, bearer, ops>>

mark_used(p, next) == SaveFields(p, [tokens[bearer[p]] EXCEPT !.used = TRUE], next)

-----------------------------------------------------------------------------
(* A reader's request with an access token (authenticate_reader) *)

Read(p, t) ==
    /\ at[p] = "idle"
    /\ authenticate(p, t, AccessTokens, "owner")

OwnerCheck(p) ==
    /\ at[p] = "owner"
    /\ at' = [at EXCEPT ![p] = IF owner THEN "marking" ELSE "refused"]
    /\ UNCHANGED <<config, settings, late, owner, tokens, form, bearer, ops>>

Reads(p) ==
    \/ Rekey(p, "owner")
    \/ OwnerCheck(p)
    \/ at[p] = "marking" /\ mark_used(p, "granted")
=============================================================================
