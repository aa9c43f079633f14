---------------------------- MODULE Configuration ----------------------------
(* The settings and the three schedules (services/config_service.py,              *)
(* services/admin_config_service.py, scheduler.py, main.py): PATCH requests       *)
(* rewrite one settings document, then move the jobs of the running process; a    *)
(* process that starts builds its jobs from the document.                         *)
EXTENDS Integers, FiniteSets, Functions

CONSTANTS Requests,    \* PATCH requests that may arrive
          Bodies,      \* what a request may carry: keys -> values
          Secrets,     \* values of CONFIG_ENCRYPTION_KEY; None when it is not set
          Overrides,   \* what the environment of a process may set: keys -> values
          None

VARIABLES stored,      \* app_configuration.settings_json, or None before the first PATCH
          token,       \* the secret the stored token was encrypted with, or None
          process,     \* [up, secret, env] of the backend process
          triggers,    \* the trigger of each job of the running process
          request,     \* each PATCH request: [at, body, read]
          wanted,      \* history: what the committed requests ask for, per key
          raced        \* history: requests overlapped since the process started

vars == <<stored, token, process, triggers, request, wanted, raced>>

After == [nightly |-> "hrworks", hrworks |-> "jira", jira |-> "done"]  \* the order jobs are moved in
KeyOf == [nightly |-> "hour", hrworks |-> "day", jira |-> "analytics"]
Keys == {"hour", "day", "analytics", "paths", "webhook"}
Defaults == [k \in Keys |-> "default"]
Ignored == {"day"}                                    \* null in a PATCH leaves these alone
Optional == {"webhook"}                               \* null is a value of these

Waiting == [at |-> "new", body |-> <<>>, read |-> None]
Down == [up |-> FALSE, secret |-> None, env |-> <<>>]
Told(doc) == [k \in Keys |-> IF doc = None THEN None ELSE IF k \in DOMAIN doc THEN doc[k] ELSE None]
Flying == {r \in Requests : request[r].at \notin {"new", "done", "failed"}}

Init == /\ stored = None /\ token = None
        /\ process = Down /\ triggers = <<>>
        /\ request = [r \in Requests |-> Waiting]
        /\ wanted = Told(None) /\ raced = FALSE
-----------------------------------------------------------------------------
(* Defaults under the document under the environment; an empty list of project    *)
(* paths means "not set".                                                         *)
MergeDict(base, over) == [k \in DOMAIN base |-> IF k \in DOMAIN over THEN over[k] ELSE base[k]]

ApplyDbOverrides(base, doc) ==
  LET given == IF doc = None THEN <<>> ELSE doc
  IN  MergeDict(base, Restrict(given, {k \in DOMAIN given : given[k] # "empty"}))

ApplyEnvOverrides(config, env) == MergeDict(config, env)

(* The document is validated before the environment is laid over it, and a stored *)
(* token is decrypted even when the environment has one.                          *)
Validates(doc) == \A k \in Keys \ Optional : ApplyDbOverrides(Defaults, doc)[k] # "null"
Decrypts(secret, tok) == tok = None \/ tok = secret
Loads(p) == Validates(stored) /\ Decrypts(p.secret, token)

LoadRuntimeConfig(p) == ApplyEnvOverrides(ApplyDbOverrides(Defaults, stored), p.env)
TriggerOf(job, config) == config[KeyOf[job]]
IsCron(trigger) == trigger # "bad"                    \* CronTrigger rejects other days of the week
-----------------------------------------------------------------------------
(* lifespan: load, then build and start all three jobs; any error and the process *)
(* does not come up.                                                              *)
Start == LET config == LoadRuntimeConfig(process')
             all == [j \in DOMAIN KeyOf |-> TriggerOf(j, config)]
         IN  /\ ~process.up
             /\ \E s \in Secrets, e \in Overrides : process' = [up |-> TRUE, secret |-> s, env |-> e]
             /\ Loads(process')
             /\ \A j \in DOMAIN all : IsCron(all[j])
             /\ triggers' = all /\ wanted' = Told(stored)
             /\ UNCHANGED <<stored, token, request, raced>>

(* stop_scheduler, or a crash: requests that have not committed are rolled back.  *)
Stop == /\ process.up
        /\ process' = Down /\ triggers' = <<>> /\ raced' = FALSE
        /\ request' = [r \in Requests |-> IF r \in Flying THEN [Waiting EXCEPT !.at = "failed"] ELSE request[r]]
        /\ UNCHANGED <<stored, token, wanted>>
-----------------------------------------------------------------------------
(* A request reads the whole document ...                                         *)
BeginPatch(r) ==
  /\ process.up /\ request[r].at = "new"
  /\ \E b \in Bodies : request' = [request EXCEPT ![r] = [at |-> "read", body |-> b, read |-> stored]]
  /\ raced' = (raced \/ Flying # {})
  /\ UNCHANGED <<stored, token, process, triggers, wanted>>

(* Mutant of Patched: the keys that a request does not name are dropped. *)
PatchedOnly(read, body) ==
  [k \in {k \in DOMAIN body \cap Keys : ~(k \in Ignored /\ body[k] = "null")} |-> body[k]]

(* ... lays its keys over what it read ...                                        *)
Patched(read, body) ==
  LET given == {k \in DOMAIN body \cap Keys : ~(k \in Ignored /\ body[k] = "null")}
      old == IF read = None THEN <<>> ELSE read
  IN  [k \in DOMAIN old \cup given |-> IF k \in given THEN body[k] ELSE old[k]]

Answer(r, outcome) == request' = [request EXCEPT ![r] = [Waiting EXCEPT !.at = outcome]]
Fail(r) == Answer(r, "failed")

Asked(body) ==
  [k \in Keys |-> IF k \in DOMAIN body /\ (body[k] = "null" => k \notin Ignored) THEN body[k] ELSE wanted[k]]

(* ... and writes the document back whole when it differs from the one it read.   *)
(* Without a secret a token cannot be stored; two first requests both insert row  *)
(* 1 and the second fails.                                                        *)
CommitPatch(r) ==
  LET q == request[r]
      doc == Patched(q.read, q.body)
      tokens == "token" \in DOMAIN q.body
      refused == (tokens /\ process.secret = None) \/ (q.read = None /\ stored # None)
  IN  /\ q.at = "read"
      /\ IF refused
         THEN Fail(r) /\ UNCHANGED <<stored, token, wanted>>
         ELSE /\ request' = [request EXCEPT ![r].at = "saved"]
              /\ stored' = IF doc = q.read THEN stored ELSE doc
              /\ token' = IF tokens THEN process.secret ELSE token
              /\ wanted' = Asked(q.body)
      /\ UNCHANGED <<process, triggers, raced>>

(* The saved settings are loaded again ...                                        *)
LoadSaved(r) ==
  /\ request[r].at = "saved"
  /\ IF Loads(process)
     THEN request' = [request EXCEPT ![r] = [at |-> "nightly", body |-> LoadRuntimeConfig(process), read |-> None]]
     ELSE Fail(r)
  /\ UNCHANGED <<stored, token, process, triggers, wanted, raced>>

(* ... and the jobs are moved one after the other; the first trigger that cannot  *)
(* be built ends the request.                                                     *)
Reschedule(r) ==
  LET job == request[r].at
      trigger == TriggerOf(job, request[r].body)
  IN  /\ job \in DOMAIN After
      /\ IF IsCron(trigger)
         THEN /\ triggers' = [triggers EXCEPT ![job] = trigger]
              /\ IF After[job] = "done" THEN Answer(r, "done")
                 ELSE request' = [request EXCEPT ![r].at = After[job]]
         ELSE Fail(r) /\ UNCHANGED triggers
      /\ UNCHANGED <<stored, token, process, wanted, raced>>

Next == \/ Start \/ Stop
        \/ \E r \in Requests : BeginPatch(r) \/ CommitPatch(r) \/ LoadSaved(r) \/ Reschedule(r)

Spec == Init /\ [][Next]_vars
-----------------------------------------------------------------------------
TypeOK ==
  /\ DOMAIN triggers = (IF process.up THEN DOMAIN KeyOf ELSE {})
  /\ process.secret \in Secrets \cup {None} /\ token \in Secrets
  /\ \A r \in Requests : request[r].at \in {"new", "read", "saved", "done", "failed"} \cup DOMAIN After
  /\ raced \in BOOLEAN

Quiet == process.up /\ Flying = {} /\ ~raced

(* Requests that came one after the other leave the document they asked for.      *)
DocumentIsWanted == Quiet => Told(stored) = wanted

(* The jobs of the running process follow the saved settings, also after a        *)
(* request that ended in an error: all of them, unless the settings do not load   *)
(* or name a day of the week that is none; then the nightly job alone does.       *)
TriggersFollow ==
  (Quiet /\ Loads(process)) =>
    LET config == LoadRuntimeConfig(process)
        moved == IF IsCron(TriggerOf("hrworks", config)) THEN DOMAIN KeyOf ELSE {"nightly"}
    IN  \A j \in moved : triggers[j] = TriggerOf(j, config)

(* Only a request that was answered with an error leaves settings with which the  *)
(* process would not come up again.                                               *)
ErrorsAreTold ==
  (Quiet /\ \A r \in Requests : request[r].at # "failed") =>
    /\ \A k \in Keys \ Optional : Told(stored)[k] # "null"
    /\ token \in {None, process.secret}
    /\ "bad" \notin {TriggerOf(j, LoadRuntimeConfig(process)) : j \in DOMAIN KeyOf}

ConfigurationApplies == DocumentIsWanted /\ TriggersFollow /\ ErrorsAreTold
=============================================================================
