-------------------------- MODULE ReferenceDataProofs --------------------------
(***************************************************************************)
(* The data that the syncs and the reports refer to: the settings, who     *)
(* belongs to which role and team, features and their families, and which  *)
(* issue belongs to which feature.  PATCH requests that come one after the *)
(* other leave the settings they asked for and jobs that follow them, for  *)
(* any bodies, secrets and environments, however often the process stops   *)
(* and starts (Configuration).  Assignments of users neither overlap nor   *)
(* get lost, for any requests and days (UserAssignments, as Staff).  The   *)
(* reports of features and families count every hour once, for any effort  *)
(* and any edits (FeatureReports, as Report).  After a rebuild an issue    *)
(* belongs to the right feature, for any links and types                   *)
(* (FeatureMembership, as Member).  The days that issues waited add up,    *)
(* for any transitions and any days asked for (StatusAnalysis, as Times).  *)
(***************************************************************************)
EXTENDS Configuration, NaturalSets, FiniteSetTheorems, SequenceTheorems, TLAPS

CONSTANTS Users, Puts, Roles, Teams, NoTeam, Done, LastDay
VARIABLES known, excluded, rows, today, put

Staff == INSTANCE UserAssignments WITH Requests <- Puts, request <- put
-----------------------------------------------------------------------------
(* Configuration: the inductive invariant *)

(* Values that a request or the environment of a process may carry. *)
Values == UNION {{b[k] : k \in DOMAIN b} : b \in Bodies \cup Overrides}

Settings == UNION {[K -> Values] : K \in SUBSET Keys}
Configs == [Keys -> Values \cup {"default"}]

(* The hours in a body or an environment can be used: only the day of the week, which
   requests are not checked for, may be one that is none. *)
Usable(b) == \A k \in DOMAIN b \cap {"hour", "analytics"} : b[k] # "bad"

(* None is no document and no value, the secret may be unset, and AdminConfigPatch
   admits hours from 0 to 23. *)
Sound == None \notin Settings /\ None # "null" /\ None \in Secrets /\ \A b \in Bodies : Usable(b)

Labels == {"new", "read", "saved", "done", "failed"} \cup DOMAIN After

PatchRequest == [at : Labels, body : Bodies \cup Configs \cup {<<>>}, read : Settings \cup {None}]

(* A document as PATCH requests leave it *)
Fine(doc) == /\ doc \in Settings \cup {None}
             /\ doc # None => Usable(doc)

Typed ==
    /\ TypeOK
    /\ request \in [Requests -> PatchRequest]
    /\ Fine(stored)
    /\ \A r \in Requests : request[r].at = "read" => request[r].body \in Bodies /\ Fine(request[r].read)
    /\ process.up \in BOOLEAN
    /\ process.up => process.env \in Overrides /\ Usable(process.env)

(* While requests come one after the other, one at most is open, and it has read what
   is stored. *)
OneByOne ==
    /\ ~process.up => Flying = {} /\ ~raced
    /\ ~raced => /\ \A r, q \in Flying : r = q
                 /\ \A r \in Requests : request[r].at = "read" => request[r].read = stored
                 /\ process.up => wanted = Told(stored)

(* A request that moves the jobs moves them to the settings that are stored, in order. *)
Moved == [nightly |-> {}, hrworks |-> {"nightly"}, jira |-> {"nightly", "hrworks"}]
MovesJobs ==
    \A r \in Requests : ~raced /\ request[r].at \in DOMAIN After =>
        /\ Loads(process) /\ request[r].body = LoadRuntimeConfig(process)
        /\ \A j \in Moved[request[r].at] :
              /\ triggers[j] = TriggerOf(j, request[r].body)
              /\ IsCron(triggers[j])

(* What TriggersFollow and ErrorsAreTold say between requests holds until one commits. *)
Undisturbed == process.up /\ ~raced /\ \A r \in Flying : request[r].at = "read"
JobsFollow ==
    Loads(process) =>
        LET config == LoadRuntimeConfig(process)
            moved == IF IsCron(TriggerOf("hrworks", config)) THEN DOMAIN KeyOf ELSE {"nightly"}
        IN  \A j \in moved : triggers[j] = TriggerOf(j, config)
Restartable ==
    /\ \A k \in Keys \ Optional : Told(stored)[k] # "null"
    /\ token \in {None, process.secret}
    /\ \A j \in DOMAIN KeyOf : IsCron(TriggerOf(j, LoadRuntimeConfig(process)))
Settled ==
    Undisturbed => JobsFollow /\ ((\A r \in Requests : request[r].at # "failed") => Restartable)

ConfigurationInv == Typed /\ OneByOne /\ MovesJobs /\ Settled

-----------------------------------------------------------------------------
(* The settings document *)

LEMMA Jobs ==
  /\ DOMAIN KeyOf = {"nightly", "hrworks", "jira"} /\ DOMAIN After = {"nightly", "hrworks", "jira"}
  /\ KeyOf["nightly"] = "hour" /\ KeyOf["hrworks"] = "day" /\ KeyOf["jira"] = "analytics"
  /\ After["nightly"] = "hrworks" /\ After["hrworks"] = "jira" /\ After["jira"] = "done"
  /\ Moved["nightly"] = {} /\ Moved["hrworks"] = {"nightly"} /\ Moved["jira"] = {"nightly", "hrworks"}
  BY DEF KeyOf, After, Moved

(* Patching keeps the keys, the values and the form of a document. *)
LEMMA PatchedFine ==
  ASSUME Sound, NEW read, Fine(read), NEW body \in Bodies
  PROVE  Fine(Patched(read, body)) /\ Patched(read, body) # None
<1> DEFINE given == {k \in DOMAIN body \cap Keys : ~(k \in Ignored /\ body[k] = "null")}
           old == IF read = None THEN <<>> ELSE read
           all == DOMAIN old \cup given
           doc == Patched(read, body)
<1>1. DOMAIN old \subseteq Keys /\ \A k \in DOMAIN old : old[k] \in Values
  <2>1. CASE read = None
    BY <2>1
  <2>2. CASE read # None
    <3>1. PICK K \in SUBSET Keys : read \in [K -> Values]
      BY <2>2 DEF Fine, Settings
    <3> QED BY <2>2, <3>1
  <2> QED BY <2>1, <2>2
<1>2. doc = [k \in all |-> IF k \in given THEN body[k] ELSE old[k]]
  BY DEF Patched
<1>3. \A k \in given : body[k] \in Values
  BY DEF Values
<1>4. doc \in [all -> Values]
  <2> HIDE DEF given, old
  <2> QED BY <1>1, <1>2, <1>3
<1>5. doc \in Settings
  BY <1>1, <1>4 DEF Settings
<1>6. \A k \in DOMAIN old \cap {"hour", "analytics"} : old[k] # "bad"
  BY DEF Fine, Usable
<1>7. \A k \in given \cap {"hour", "analytics"} : body[k] # "bad"
  BY DEF Sound, Usable
<1>8. \A k \in DOMAIN doc \cap {"hour", "analytics"} : doc[k] # "bad"
  <2> HIDE DEF given, old
  <2> QED BY <1>2, <1>4, <1>6, <1>7
<1>9. Fine(doc) /\ doc # None
  <2> HIDE DEF doc
  <2> QED BY <1>5, <1>8 DEF Sound, Fine, Usable
<1> QED BY <1>9

(* Laid over what was told before, a body tells what was asked for. *)
LEMMA PatchedTells ==
  ASSUME Sound, Fine(stored), wanted = Told(stored), NEW body \in Bodies
  PROVE  Told(Patched(stored, body)) = Asked(body)
<1> DEFINE given == {k \in DOMAIN body \cap Keys : ~(k \in Ignored /\ body[k] = "null")}
           old == IF stored = None THEN <<>> ELSE stored
           doc == Patched(stored, body)
<1>1. doc # None
  BY PatchedFine
<1>2. doc = [k \in DOMAIN old \cup given |-> IF k \in given THEN body[k] ELSE old[k]]
  BY DEF Patched
<1>3. ASSUME NEW k \in Keys
      PROVE  Told(doc)[k] = Asked(body)[k]
  <2>1. Told(doc)[k] = IF k \in DOMAIN old \cup given THEN doc[k] ELSE None
    <3> HIDE DEF doc, given, old
    <3> QED BY <1>1, <1>2 DEF Told
  <2>2. Asked(body)[k] = IF k \in given THEN body[k] ELSE wanted[k]
    BY DEF Asked
  <2>3. wanted[k] = IF k \in DOMAIN old THEN old[k] ELSE None
    BY DEF Told
  <2> HIDE DEF doc, given, old
  <2> QED BY <1>2, <2>1, <2>2, <2>3
<1>4. DOMAIN Told(doc) = Keys /\ DOMAIN Asked(body) = Keys
  BY DEF Told, Asked
<1>5. Told(doc) = [k \in Keys |-> Told(doc)[k]] /\ Asked(body) = [k \in Keys |-> Asked(body)[k]]
  <2> HIDE DEF doc
  <2> QED BY DEF Told, Asked
<1>6. Told(doc) = Asked(body)
  <2> HIDE DEF doc
  <2> QED BY <1>3, <1>5
<1> QED BY <1>6

(* Settings, defaults and environment give a value to every key, and hours and
   numbers of days that can be used. *)
LEMMA LoadedValues ==
  ASSUME Sound, Fine(stored), NEW p, p.env \in Overrides, Usable(p.env)
  PROVE  /\ LoadRuntimeConfig(p) \in Configs
         /\ IsCron(TriggerOf("nightly", LoadRuntimeConfig(p)))
         /\ IsCron(TriggerOf("jira", LoadRuntimeConfig(p)))
<1> DEFINE given == IF stored = None THEN <<>> ELSE stored
           kept == {k \in DOMAIN given : given[k] # "empty"}
           base == ApplyDbOverrides(Defaults, stored)
           config == LoadRuntimeConfig(p)
<1>1. DOMAIN given \subseteq Keys /\ \A k \in DOMAIN given : given[k] \in Values
  <2>1. CASE stored = None
    BY <2>1
  <2>2. CASE stored # None
    <3>1. PICK K \in SUBSET Keys : stored \in [K -> Values]
      BY <2>2 DEF Fine, Settings
    <3> QED BY <2>2, <3>1
  <2> QED BY <2>1, <2>2
<1>2. \A k \in DOMAIN given \cap {"hour", "analytics"} : given[k] # "bad"
  BY DEF Fine, Usable
<1>3. base = [k \in Keys |-> IF k \in kept THEN given[k] ELSE "default"]
  BY DEF ApplyDbOverrides, MergeDict, Restrict, Defaults
<1>4. config = [k \in Keys |-> IF k \in DOMAIN p.env THEN p.env[k] ELSE base[k]]
  <2>1. config = MergeDict(base, p.env)
    BY DEF LoadRuntimeConfig, ApplyEnvOverrides
  <2> HIDE DEF config, base, kept
  <2> QED BY <1>3, <2>1 DEF MergeDict
<1>5. \A k \in DOMAIN p.env : p.env[k] \in Values /\ (k \in {"hour", "analytics"} => p.env[k] # "bad")
  BY DEF Values, Usable
<1>6. \A k \in Keys : base[k] \in Values \cup {"default"} /\ (k \in {"hour", "analytics"} => base[k] # "bad")
  <2> HIDE DEF given, base
  <2> QED BY <1>1, <1>2, <1>3
<1>7. \A k \in Keys : config[k] \in Values \cup {"default"} /\ (k \in {"hour", "analytics"} => config[k] # "bad")
  <2> HIDE DEF base, config
  <2> QED BY <1>4, <1>5, <1>6
<1>8. config \in Configs
  <2> HIDE DEF base, config
  <2> QED BY <1>4, <1>7 DEF Configs
<1>9. IsCron(TriggerOf("nightly", config)) /\ IsCron(TriggerOf("jira", config))
  <2> HIDE DEF config
  <2> QED BY <1>7, Jobs DEF TriggerOf, IsCron, Keys
<1> QED BY <1>8, <1>9
(* Settings that load name no missing value. *)
LEMMA LoadedTells ==
  ASSUME Sound, Fine(stored), NEW p, Loads(p)
  PROVE  /\ \A k \in Keys \ Optional : Told(stored)[k] # "null"
         /\ token \in {None, p.secret}
<1> DEFINE given == IF stored = None THEN <<>> ELSE stored
           base == ApplyDbOverrides(Defaults, stored)
<1>1. DOMAIN given \subseteq Keys
  <2>1. CASE stored = None
    BY <2>1
  <2>2. CASE stored # None
    <3>1. PICK K \in SUBSET Keys : stored \in [K -> Values]
      BY <2>2 DEF Fine, Settings
    <3> QED BY <2>2, <3>1
  <2> QED BY <2>1, <2>2
<1>2. base = [k \in Keys |-> IF k \in DOMAIN given /\ given[k] # "empty" THEN given[k] ELSE "default"]
  BY DEF ApplyDbOverrides, MergeDict, Restrict, Defaults
<1>3. \A k \in Keys \ Optional : base[k] # "null"
  BY DEF Loads, Validates
<1>4. ASSUME NEW k \in Keys \ Optional
      PROVE  Told(stored)[k] # "null"
  <2>1. Told(stored)[k] = IF k \in DOMAIN given THEN given[k] ELSE None
    BY DEF Told
  <2> HIDE DEF base, given
  <2> QED BY <1>2, <1>3, <2>1 DEF Sound
<1> QED BY <1>4 DEF Loads, Decrypts

-----------------------------------------------------------------------------
(* The process starts and stops *)

LEMMA StartStep == ASSUME Sound, ConfigurationInv, Start PROVE ConfigurationInv'
<1> DEFINE config == LoadRuntimeConfig(process')
           all == [j \in DOMAIN KeyOf |-> TriggerOf(j, config)]
<1>1. /\ ~process.up /\ Flying = {} /\ ~raced
      /\ UNCHANGED <<stored, token, request, raced>>
      /\ triggers' = all /\ wanted' = Told(stored)
      /\ Loads(process') /\ \A j \in DOMAIN all : IsCron(all[j])
  BY DEF Start, ConfigurationInv, OneByOne
<1>2. PICK s \in Secrets, e \in Overrides : process' = [up |-> TRUE, secret |-> s, env |-> e]
  BY DEF Start
<1>3. process'.up /\ process'.secret = s /\ process'.env = e
  BY <1>2
<1>4. LoadRuntimeConfig(process)' = config /\ (Loads(process))' /\ Flying' = {}
  BY <1>1 DEF LoadRuntimeConfig, Loads, Validates, Decrypts, Flying
<1>5. \A j \in DOMAIN KeyOf : all[j] = TriggerOf(j, config) /\ IsCron(TriggerOf(j, config))
  BY <1>1
<1>6. Usable(e)
  <2>1. ASSUME NEW k \in DOMAIN e, k \in Keys
        PROVE  config[k] = e[k]
    <3> DEFINE base == ApplyDbOverrides(Defaults, stored)
    <3>1. config = [x \in DOMAIN base |-> IF x \in DOMAIN e THEN e[x] ELSE base[x]]
      BY <1>3 DEF LoadRuntimeConfig, ApplyEnvOverrides, MergeDict
    <3>2. DOMAIN base = Keys
      BY DEF ApplyDbOverrides, MergeDict, Defaults
    <3> HIDE DEF base, config
    <3> QED BY <2>1, <3>1, <3>2
  <2>2. config["hour"] # "bad" /\ config["analytics"] # "bad"
    <3> HIDE DEF config, all
    <3> QED BY <1>5, Jobs DEF TriggerOf, IsCron
  <2> HIDE DEF config, all
  <2> QED BY <2>1, <2>2 DEF Usable, Keys
<1>7. Typed'
  <2>1. DOMAIN triggers' = DOMAIN KeyOf
    BY <1>1
  <2>2. /\ process'.secret \in Secrets \cup {None} /\ token' \in Secrets
        /\ process'.up \in BOOLEAN /\ process'.env \in Overrides
    BY <1>1, <1>3 DEF ConfigurationInv, Typed, TypeOK
  <2>3. TypeOK'
    BY <1>1, <1>3, <2>1, <2>2 DEF ConfigurationInv, Typed, TypeOK
  <2> QED BY <1>1, <1>3, <1>6, <2>2, <2>3 DEF ConfigurationInv, Typed, Fine
<1>8. OneByOne'
  BY <1>1, <1>3, <1>4 DEF ConfigurationInv, OneByOne, Told
<1>9. MovesJobs'
  BY <1>1, Jobs DEF MovesJobs, Flying
<1>10. Settled'
  <2>1. JobsFollow'
    BY <1>1, <1>4, <1>5, Jobs DEF JobsFollow
  <2>2. Restartable'
    <3>1. Fine(stored)
      BY DEF ConfigurationInv, Typed
    <3>2. (\A k \in Keys \ Optional : Told(stored)[k] # "null") /\ token \in {None, s}
      BY <1>1, <1>3, <3>1, LoadedTells
    <3> QED BY <1>1, <1>3, <1>4, <1>5, <3>2 DEF Restartable, Told
  <2> QED BY <2>1, <2>2 DEF Settled
<1> QED BY <1>7, <1>8, <1>9, <1>10 DEF ConfigurationInv

LEMMA StopStep == ASSUME Sound, ConfigurationInv, Stop PROVE ConfigurationInv'
<1>1. /\ process' = Down /\ triggers' = <<>> /\ raced' = FALSE
      /\ UNCHANGED <<stored, token, wanted>>
  BY DEF Stop
<1>2. process'.up = FALSE /\ process'.secret = None
  BY <1>1 DEF Down
<1>3. ASSUME NEW r \in Requests
      PROVE  /\ request'[r] \in PatchRequest
             /\ request'[r].at \in {"new", "done", "failed"}
  <2>1. request[r] \in PatchRequest
    BY DEF ConfigurationInv, Typed
  <2>2. CASE r \in Flying
    <3>1. request'[r] = [at |-> "failed", body |-> <<>>, read |-> None]
      BY <2>2 DEF Stop, Waiting
    <3> QED BY <3>1 DEF Labels, PatchRequest
  <2>3. CASE r \notin Flying
    <3>1. request'[r] = request[r]
      BY <2>3 DEF Stop
    <3> QED BY <2>1, <2>3, <3>1 DEF Flying
  <2> QED BY <2>2, <2>3
<1>4. DOMAIN triggers' = {}
  BY <1>1
<1>5. Typed'
  <2>1. request' = [r \in Requests |-> request'[r]]
    BY DEF Stop
  <2>2. TypeOK'
    <3>1. \A r \in Requests : request'[r].at \in {"new", "read", "saved", "done", "failed"} \cup DOMAIN After
      BY <1>3
    <3>2. token' \in Secrets
      BY <1>1 DEF ConfigurationInv, Typed, TypeOK
    <3> QED BY <1>1, <1>2, <1>4, <3>1, <3>2 DEF TypeOK
  <2> QED BY <1>1, <1>2, <1>3, <2>1, <2>2 DEF ConfigurationInv, Typed, Fine
<1>6. Flying' = {}
  BY <1>3 DEF Flying
<1>7. OneByOne'
  BY <1>1, <1>2, <1>3, <1>6 DEF OneByOne
<1>8. MovesJobs'
  BY <1>3, Jobs DEF MovesJobs
<1>9. Settled'
  BY <1>2 DEF Settled, Undisturbed
<1> QED BY <1>5, <1>7, <1>8, <1>9 DEF ConfigurationInv

-----------------------------------------------------------------------------
(* A request moves *)

LEMMA RequestMoves ==
  ASSUME Typed, NEW r \in Requests, request' = [request EXCEPT ![r] = request'[r]],
         request'[r] \in PatchRequest
  PROVE  /\ request' \in [Requests -> PatchRequest]
         /\ \A o \in Requests \ {r} : request'[o] = request[o]
         /\ Flying' \ {r} = Flying \ {r}
         /\ r \in Flying' <=> request'[r].at \notin {"new", "done", "failed"}
<1>1. /\ request' \in [Requests -> PatchRequest]
      /\ \A o \in Requests \ {r} : request'[o] = request[o]
  BY DEF Typed
<1> QED BY <1>1 DEF Flying

LEMMA AnswerMoves ==
  ASSUME Typed, NEW r \in Requests, NEW outcome \in {"done", "failed"}, Answer(r, outcome)
  PROVE  /\ request' \in [Requests -> PatchRequest]
         /\ request'[r].at = outcome
         /\ \A o \in Requests \ {r} : request'[o] = request[o]
         /\ Flying' = Flying \ {r}
<1> DEFINE q == [at |-> outcome, body |-> <<>>, read |-> None]
<1>1. [Waiting EXCEPT !.at = outcome] = q
  BY DEF Waiting
<1>2. q \in PatchRequest /\ q.at = outcome
  BY DEF PatchRequest, Labels
<1> HIDE DEF q
<1>3. request' = [request EXCEPT ![r] = q]
  BY <1>1 DEF Answer
<1>4. request'[r] = q
  BY <1>3 DEF Typed
<1> QED BY <1>2, <1>3, <1>4, RequestMoves

(* As long as requests come one by one no other is open. *)
LEMMA AloneStep ==
  ASSUME ConfigurationInv, NEW r \in Flying, ~raced, NEW o \in Requests, o # r
  PROVE  o \notin Flying
  BY DEF ConfigurationInv, OneByOne, Flying

LEMMA BeginStep ==
  ASSUME Sound, ConfigurationInv, NEW r \in Requests, BeginPatch(r)
  PROVE  ConfigurationInv'
<1>1. PICK b \in Bodies : request' = [request EXCEPT ![r] = [at |-> "read", body |-> b, read |-> stored]]
  BY DEF BeginPatch
<1> DEFINE q == [at |-> "read", body |-> b, read |-> stored]
<1>2. /\ process.up /\ request[r].at = "new" /\ raced' = (raced \/ Flying # {})
      /\ UNCHANGED <<stored, token, process, triggers, wanted>>
  BY DEF BeginPatch
<1>3. q \in PatchRequest /\ q.at = "read" /\ q.body = b /\ q.read = stored
  BY DEF PatchRequest, Labels, ConfigurationInv, Typed, Fine
<1>4. /\ request' \in [Requests -> PatchRequest] /\ request'[r] = q
      /\ \A o \in Requests \ {r} : request'[o] = request[o]
      /\ Flying' \ {r} = Flying \ {r} /\ r \in Flying'
  <2> HIDE DEF q
  <2>1. request' = [request EXCEPT ![r] = q]
    BY <1>1 DEF q
  <2>2. request'[r] = q
    BY <2>1 DEF ConfigurationInv, Typed
  <2>3. Typed
    BY DEF ConfigurationInv
  <2> QED BY <1>3, <2>1, <2>2, <2>3, RequestMoves
<1> HIDE DEF q
<1>5. Typed'
  <2>1. TypeOK'
    <3>1. raced' \in BOOLEAN
      BY <1>2
    <3>2. \A o \in Requests : request'[o].at \in {"new", "read", "saved", "done", "failed"} \cup DOMAIN After
      BY <1>3, <1>4 DEF ConfigurationInv, Typed, TypeOK
    <3> QED BY <1>2, <3>1, <3>2 DEF ConfigurationInv, Typed, TypeOK
  <2>2. \A o \in Requests : request'[o].at = "read" => request'[o].body \in Bodies /\ Fine(request'[o].read)
    BY <1>3, <1>4 DEF ConfigurationInv, Typed
  <2> QED BY <1>2, <1>4, <2>1, <2>2 DEF ConfigurationInv, Typed, Fine
<1>6. ~raced' => ~raced /\ Flying = {} /\ Flying' = {r}
  BY <1>2, <1>4
<1>7. OneByOne'
  BY <1>2, <1>3, <1>4, <1>6 DEF ConfigurationInv, OneByOne, Told, Flying
<1>8. MovesJobs'
  BY <1>3, <1>4, <1>6, Jobs DEF MovesJobs, Flying
<1>9. Settled'
  <2>1. CASE raced'
    BY <2>1 DEF Settled, Undisturbed
  <2>2. CASE ~raced'
    <3>1. Undisturbed
      BY <1>2, <1>6, <2>2 DEF Undisturbed
    <3>2. (\A o \in Requests : request'[o].at # "failed") => \A o \in Requests : request[o].at # "failed"
      BY <1>2, <1>4
    <3>3. JobsFollow' = JobsFollow /\ Restartable' = Restartable
      BY <1>2 DEF JobsFollow, Restartable, Loads, LoadRuntimeConfig, Validates, Decrypts, Told
    <3> QED BY <3>1, <3>2, <3>3 DEF ConfigurationInv, Settled
  <2> QED BY <2>1, <2>2
<1> QED BY <1>5, <1>7, <1>8, <1>9 DEF ConfigurationInv

LEMMA FineCommit ==
  ASSUME Sound, ConfigurationInv, NEW r \in Requests, CommitPatch(r)
  PROVE  Fine(stored)' /\ token' \in Secrets
<1> DEFINE q == request[r]
           doc == Patched(q.read, q.body)
<1>1. q.body \in Bodies /\ Fine(q.read) /\ Fine(stored)
  BY DEF CommitPatch, ConfigurationInv, Typed
<1>2. Fine(doc)
  <2> HIDE DEF q
  <2> QED BY <1>1, PatchedFine
<1>3. stored' \in {stored, doc}
  <2> HIDE DEF doc
  <2> QED BY DEF CommitPatch, doc
<1>4. token' \in Secrets
  BY DEF CommitPatch, ConfigurationInv, Typed, TypeOK
<1> HIDE DEF doc
<1> QED BY <1>1, <1>2, <1>3, <1>4 DEF Fine

LEMMA CommitStep ==
  ASSUME Sound, ConfigurationInv, NEW r \in Requests, CommitPatch(r)
  PROVE  ConfigurationInv'
<1> DEFINE q == request[r]
           doc == Patched(q.read, q.body)
           tokens == "token" \in DOMAIN q.body
           refused == (tokens /\ process.secret = None) \/ (q.read = None /\ stored # None)
<1>1. /\ request[r].at = "read" /\ r \in Flying
      /\ UNCHANGED <<process, triggers, raced>>
  BY DEF CommitPatch, Flying
<1>2. process.up
  BY <1>1 DEF ConfigurationInv, OneByOne
<1>3. /\ request' \in [Requests -> PatchRequest]
      /\ \A o \in Requests \ {r} : request'[o] = request[o]
      /\ \/ /\ request'[r].at = "failed" /\ Flying' = Flying \ {r}
            /\ UNCHANGED <<stored, token, wanted>>
         \/ /\ request'[r].at = "saved"
            /\ stored' = (IF doc = q.read THEN stored ELSE doc)
            /\ wanted' = Asked(q.body) /\ Flying' = Flying
  <2>1. CASE refused
    <3>1. Answer(r, "failed") /\ UNCHANGED <<stored, token, wanted>>
      BY <2>1 DEF CommitPatch, Fail
    <3> QED BY <3>1, AnswerMoves DEF ConfigurationInv
  <2>2. CASE ~refused
    <3>1. /\ request' = [request EXCEPT ![r].at = "saved"]
          /\ stored' = (IF doc = q.read THEN stored ELSE doc) /\ wanted' = Asked(q.body)
      BY <2>2 DEF CommitPatch
    <3>2. /\ request' = [request EXCEPT ![r] = request'[r]]
          /\ request'[r] \in PatchRequest /\ request'[r].at = "saved"
      BY <3>1 DEF ConfigurationInv, Typed, PatchRequest, Labels
    <3>3. Typed
      BY DEF ConfigurationInv
    <3>4. /\ request' \in [Requests -> PatchRequest]
          /\ \A o \in Requests \ {r} : request'[o] = request[o]
          /\ Flying' \ {r} = Flying \ {r} /\ r \in Flying'
      <4> HIDE DEF q, doc, refused
      <4> QED BY <3>2, <3>3, RequestMoves
    <3> HIDE DEF q, doc, refused
    <3> QED BY <1>1, <3>1, <3>2, <3>4
  <2> QED BY <2>1, <2>2
<1>4. Typed'
  <2>1. TypeOK'
    <3>1. \A o \in Requests : request'[o].at \in {"new", "read", "saved", "done", "failed"} \cup DOMAIN After
      BY <1>3 DEF ConfigurationInv, Typed, TypeOK
    <3> QED BY <1>1, <3>1, FineCommit DEF ConfigurationInv, Typed, TypeOK
  <2>2. \A o \in Requests : request'[o].at = "read" => request'[o].body \in Bodies /\ Fine(request'[o].read)
    BY <1>3 DEF ConfigurationInv, Typed
  <2> QED BY <1>1, <1>3, <2>1, <2>2, FineCommit DEF ConfigurationInv, Typed
<1>5. ~raced => Flying = {r} /\ \A o \in Requests \ {r} : o \notin Flying
  BY <1>1, AloneStep DEF Flying
<1>6. ~raced => q.read = stored /\ wanted = Told(stored)
  BY <1>1, <1>2 DEF ConfigurationInv, OneByOne
<1>7. OneByOne'
  <2>1. CASE raced
    BY <1>1, <1>2, <2>1 DEF OneByOne
  <2>2. CASE ~raced
    <3>1. \A x, y \in Flying' : x = y
      BY <1>3, <1>5, <2>2
    <3>2. \A o \in Requests : request'[o].at # "read"
      BY <1>3, <1>5, <2>2 DEF Flying
    <3>3. wanted' = Told(stored)'
      <4>1. CASE UNCHANGED <<stored, wanted>>
        BY <1>6, <2>2, <4>1 DEF Told
      <4>2. CASE stored' = (IF doc = q.read THEN stored ELSE doc) /\ wanted' = Asked(q.body)
        <5>1. stored' = Patched(stored, q.body)
          BY <1>6, <2>2, <4>2
        <5>2. q.body \in Bodies /\ Fine(stored)
          BY <1>1 DEF ConfigurationInv, Typed
        <5>3. Told(Patched(stored, q.body)) = Asked(q.body)
          BY <1>6, <2>2, <5>2, PatchedTells
        <5>4. Told(stored)' = Told(stored')
          OBVIOUS
        <5>5. Told(stored') = Told(Patched(stored, q.body))
          BY <5>1
        <5> QED BY <4>2, <5>3, <5>4, <5>5
      <4> QED BY <1>3, <4>1, <4>2
    <3> QED BY <1>1, <1>2, <3>1, <3>2, <3>3 DEF OneByOne
  <2> QED BY <2>1, <2>2
<1>8. MovesJobs'
  BY <1>1, <1>3, <1>5, Jobs DEF MovesJobs, Flying
<1>9. Settled'
  <2>1. CASE raced
    BY <1>1, <2>1 DEF Settled, Undisturbed
  <2>2. CASE ~raced /\ request'[r].at = "saved"
    <3>1. r \in Flying'
      BY <2>2 DEF Flying
    <3> QED BY <2>2, <3>1 DEF Settled, Undisturbed
  <2>3. CASE ~raced /\ request'[r].at = "failed"
    <3>1. Undisturbed
      BY <1>1, <1>2, <1>5, <2>3 DEF Undisturbed
    <3>2. UNCHANGED <<stored, token, process, triggers>>
      BY <1>1, <1>3, <2>3
    <3>3. JobsFollow' = JobsFollow
      BY <3>2 DEF JobsFollow, Loads, LoadRuntimeConfig, Validates, Decrypts
    <3> QED BY <2>3, <3>1, <3>3 DEF ConfigurationInv, Settled
  <2> QED BY <1>3, <2>1, <2>2, <2>3
<1> QED BY <1>4, <1>7, <1>8, <1>9 DEF ConfigurationInv

LEMMA LoadStep ==
  ASSUME Sound, ConfigurationInv, NEW r \in Requests, LoadSaved(r)
  PROVE  ConfigurationInv'
<1> DEFINE config == LoadRuntimeConfig(process)
<1>1. /\ request[r].at = "saved" /\ r \in Flying
      /\ UNCHANGED <<stored, token, process, triggers, wanted, raced>>
  BY DEF LoadSaved, Flying
<1>2. process.up /\ process.env \in Overrides /\ Usable(process.env) /\ Fine(stored)
  BY <1>1 DEF ConfigurationInv, OneByOne, Typed
<1>3. /\ request' \in [Requests -> PatchRequest]
      /\ \A o \in Requests \ {r} : request'[o] = request[o]
      /\ \/ request'[r].at = "failed" /\ Flying' = Flying \ {r} /\ ~Loads(process)
         \/ /\ request'[r].at = "nightly" /\ request'[r].body = config
            /\ Flying' = Flying /\ Loads(process)
  <2>1. CASE ~Loads(process)
    <3>1. Answer(r, "failed")
      BY <2>1 DEF LoadSaved, Fail
    <3> QED BY <2>1, <3>1, AnswerMoves DEF ConfigurationInv
  <2>2. CASE Loads(process)
    <3>1. config \in Configs
      BY <1>2, LoadedValues
    <3> HIDE DEF config
    <3>2. request' = [request EXCEPT ![r] = [at |-> "nightly", body |-> config, read |-> None]]
      BY <2>2 DEF LoadSaved, config
    <3>3. /\ request' = [request EXCEPT ![r] = request'[r]]
          /\ request'[r] = [at |-> "nightly", body |-> config, read |-> None]
      BY <3>2 DEF ConfigurationInv, Typed
    <3>4. request'[r] \in PatchRequest /\ request'[r].at = "nightly" /\ request'[r].body = config
      BY <3>1, <3>3, Jobs DEF PatchRequest, Labels
    <3>5. Typed
      BY DEF ConfigurationInv
    <3> QED BY <1>1, <2>2, <3>3, <3>4, <3>5, RequestMoves
  <2> QED BY <2>1, <2>2
<1> HIDE DEF config
<1>4. Typed'
  <2>1. TypeOK'
    <3>1. \A o \in Requests : request'[o].at \in {"new", "read", "saved", "done", "failed"} \cup DOMAIN After
      BY <1>3, Jobs DEF ConfigurationInv, Typed, TypeOK
    <3> QED BY <1>1, <3>1 DEF ConfigurationInv, Typed, TypeOK
  <2>2. \A o \in Requests : request'[o].at = "read" => request'[o].body \in Bodies /\ Fine(request'[o].read)
    BY <1>3 DEF ConfigurationInv, Typed
  <2> QED BY <1>1, <1>3, <2>1, <2>2 DEF ConfigurationInv, Typed, Fine
<1>5. ~raced => Flying = {r} /\ \A o \in Requests \ {r} : o \notin Flying
  BY <1>1, AloneStep DEF Flying
<1>6. OneByOne'
  <2>1. ~raced => /\ \A x, y \in Flying' : x = y
                  /\ \A o \in Requests : request'[o].at # "read"
    BY <1>1, <1>3, <1>5 DEF Flying
  <2>2. ~raced => wanted = Told(stored)
    BY <1>2 DEF ConfigurationInv, OneByOne
  <2> QED BY <1>1, <1>2, <2>1, <2>2 DEF OneByOne, Told
<1>7. MovesJobs'
  <2>1. SUFFICES ASSUME NEW o \in Requests, ~raced, request'[o].at \in DOMAIN After
                 PROVE  /\ Loads(process)' /\ request'[o].body = LoadRuntimeConfig(process)'
                        /\ \A j \in Moved[request'[o].at] :
                              triggers'[j] = TriggerOf(j, request'[o].body) /\ IsCron(triggers'[j])
    BY <1>1 DEF MovesJobs, TriggerOf
  <2>2. o = r /\ request'[r].at = "nightly"
    BY <1>3, <1>5, <2>1, Jobs DEF Flying
  <2>3. Loads(process)' /\ LoadRuntimeConfig(process)' = config
    BY <1>1, <1>3, <2>2 DEF Loads, LoadRuntimeConfig, Validates, Decrypts, config
  <2> QED BY <1>3, <2>2, <2>3, Jobs
<1>8. Settled'
  <2>1. CASE raced
    BY <1>1, <2>1 DEF Settled, Undisturbed
  <2>2. CASE request'[r].at = "nightly"
    <3>1. r \in Flying'
      BY <2>2 DEF Flying
    <3> QED BY <2>2, <3>1 DEF Settled, Undisturbed
  <2>3. CASE request'[r].at = "failed"
    <3>1. ~Loads(process)'
      BY <1>1, <1>3, <2>3 DEF Loads, Validates, Decrypts
    <3> QED BY <2>3, <3>1 DEF Settled, JobsFollow
  <2> QED BY <1>3, <2>1, <2>2, <2>3
<1> QED BY <1>4, <1>6, <1>7, <1>8 DEF ConfigurationInv

(* The next job is moved, or the request ends in an error at the day of the week. *)
LEMMA JobMoves ==
  ASSUME Sound, ConfigurationInv, NEW r \in Requests, Reschedule(r)
  PROVE  LET job == request[r].at
             trigger == TriggerOf(job, request[r].body)
         IN  /\ job \in DOMAIN After /\ r \in Flying
             /\ UNCHANGED <<stored, token, process, wanted, raced>>
             /\ request' \in [Requests -> PatchRequest]
             /\ \A o \in Requests \ {r} : request'[o] = request[o]
             /\ \/ /\ ~IsCron(trigger) /\ request'[r].at = "failed"
                   /\ Flying' = Flying \ {r} /\ UNCHANGED triggers
                \/ /\ IsCron(trigger) /\ triggers' = [triggers EXCEPT ![job] = trigger]
                   /\ \/ job = "jira" /\ request'[r].at = "done" /\ Flying' = Flying \ {r}
                      \/ /\ job # "jira" /\ request'[r].at = After[job]
                         /\ request'[r].body = request[r].body /\ Flying' = Flying
<1> DEFINE job == request[r].at
           trigger == TriggerOf(job, request[r].body)
<1>1. /\ job \in {"nightly", "hrworks", "jira"} /\ r \in Flying
      /\ UNCHANGED <<stored, token, process, wanted, raced>>
  BY Jobs DEF Reschedule, Flying
<1>2. Typed
  BY DEF ConfigurationInv
<1>3. CASE ~IsCron(trigger)
  <2>1. Answer(r, "failed") /\ UNCHANGED triggers
    BY <1>3 DEF Reschedule, Fail
  <2> HIDE DEF trigger
  <2> QED BY <1>1, <1>2, <1>3, <2>1, AnswerMoves, Jobs DEF trigger
<1>4. CASE IsCron(trigger) /\ job = "jira"
  <2>1. Answer(r, "done") /\ triggers' = [triggers EXCEPT ![job] = trigger]
    BY <1>4, Jobs DEF Reschedule
  <2> QED BY <1>1, <1>2, <1>4, <2>1, AnswerMoves, Jobs
<1>5. CASE IsCron(trigger) /\ job # "jira"
  <2>1. request' = [request EXCEPT ![r].at = After[job]] /\ triggers' = [triggers EXCEPT ![job] = trigger]
    BY <1>1, <1>5, Jobs DEF Reschedule
  <2>2. After[job] \in {"hrworks", "jira"}
    BY <1>1, <1>5, Jobs
  <2>3. /\ request' = [request EXCEPT ![r] = request'[r]]
        /\ request'[r] \in PatchRequest /\ request'[r].at = After[job] /\ request'[r].body = request[r].body
    <3> DEFINE label == After[job]
    <3>1. label \in Labels /\ request' = [request EXCEPT ![r].at = label]
      BY <2>1, <2>2, Jobs DEF Labels
    <3> HIDE DEF label, job
    <3>2. /\ request' = [request EXCEPT ![r] = request'[r]]
          /\ request'[r] \in PatchRequest /\ request'[r].at = label /\ request'[r].body = request[r].body
      BY <1>2, <3>1 DEF Typed, PatchRequest
    <3> QED BY <3>2 DEF label
  <2>4. /\ request' \in [Requests -> PatchRequest]
        /\ \A o \in Requests \ {r} : request'[o] = request[o]
        /\ Flying' \ {r} = Flying \ {r} /\ r \in Flying'
    <3> HIDE DEF job
    <3> QED BY <1>2, <2>2, <2>3, RequestMoves
  <2> HIDE DEF job, trigger
  <2>5. Flying' = Flying
    BY <1>1, <2>4
  <2> QED BY <1>1, <1>5, <2>1, <2>3, <2>4, <2>5, Jobs DEF job, trigger
<1> QED BY <1>1, <1>3, <1>4, <1>5

LEMMA RescheduleStep ==
  ASSUME Sound, ConfigurationInv, NEW r \in Requests, Reschedule(r)
  PROVE  ConfigurationInv'
<1> DEFINE job == request[r].at
           config == request[r].body
           trigger == TriggerOf(job, config)
<1>1. /\ job \in {"nightly", "hrworks", "jira"} /\ r \in Flying
      /\ UNCHANGED <<stored, token, process, wanted, raced>>
      /\ request' \in [Requests -> PatchRequest]
      /\ \A o \in Requests \ {r} : request'[o] = request[o]
  BY JobMoves, Jobs
<1>2. \/ ~IsCron(trigger) /\ request'[r].at = "failed" /\ Flying' = Flying \ {r} /\ UNCHANGED triggers
      \/ /\ IsCron(trigger) /\ triggers' = [triggers EXCEPT ![job] = trigger]
         /\ \/ job = "jira" /\ request'[r].at = "done" /\ Flying' = Flying \ {r}
            \/ /\ job # "jira" /\ request'[r].at = After[job]
               /\ request'[r].body = config /\ Flying' = Flying
  BY JobMoves
<1>3. /\ process.up /\ process.env \in Overrides /\ Usable(process.env) /\ Fine(stored)
      /\ DOMAIN triggers = DOMAIN KeyOf
  BY <1>1 DEF ConfigurationInv, OneByOne, Typed, TypeOK
<1>4. ~raced => Flying = {r} /\ \A o \in Requests \ {r} : o \notin Flying
  BY <1>1, AloneStep DEF Flying
<1>5. ~raced => /\ Loads(process) /\ config = LoadRuntimeConfig(process)
                /\ \A j \in Moved[job] : triggers[j] = TriggerOf(j, config) /\ IsCron(triggers[j])
  BY <1>1, Jobs DEF ConfigurationInv, MovesJobs
<1>6. ~raced => /\ IsCron(TriggerOf("nightly", config)) /\ IsCron(TriggerOf("jira", config))
  BY <1>3, <1>5, LoadedValues
<1>7. Loads(process)' = Loads(process) /\ LoadRuntimeConfig(process)' = LoadRuntimeConfig(process)
  BY <1>1 DEF Loads, LoadRuntimeConfig, Validates, Decrypts
<1>8. \/ triggers' = triggers
      \/ /\ triggers'[job] = trigger /\ DOMAIN triggers' = DOMAIN triggers
         /\ \A j \in DOMAIN triggers \ {job} : triggers'[j] = triggers[j]
  <2> HIDE DEF trigger, config, job
  <2> QED BY <1>1, <1>2, <1>3, Jobs
<1>9. request'[r].at \in {"failed", "done", "hrworks", "jira"}
  <2> HIDE DEF trigger, config, job
  <2> QED BY <1>1, <1>2, Jobs
<1>10. Typed'
  <2>1. TypeOK'
    <3>1. \A o \in Requests : request'[o].at \in {"new", "read", "saved", "done", "failed"} \cup DOMAIN After
      BY <1>1, <1>9, Jobs DEF ConfigurationInv, Typed, TypeOK
    <3>2. DOMAIN triggers' = DOMAIN triggers
      BY <1>8
    <3> QED BY <1>1, <3>1, <3>2 DEF ConfigurationInv, Typed, TypeOK
  <2>2. \A o \in Requests : request'[o].at = "read" => request'[o].body \in Bodies /\ Fine(request'[o].read)
    BY <1>1, <1>9 DEF ConfigurationInv, Typed
  <2> QED BY <1>1, <2>1, <2>2 DEF ConfigurationInv, Typed, Fine
<1>11. OneByOne'
  <2>1. ~raced => /\ \A x, y \in Flying' : x = y
                  /\ \A o \in Requests : request'[o].at # "read"
    BY <1>1, <1>2, <1>4, <1>9 DEF Flying
  <2>2. ~raced => wanted = Told(stored)
    BY <1>3 DEF ConfigurationInv, OneByOne
  <2> QED BY <1>1, <1>3, <2>1, <2>2 DEF OneByOne, Told
<1>12. MovesJobs'
  <2>1. SUFFICES ASSUME NEW o \in Requests, ~raced, request'[o].at \in DOMAIN After
                 PROVE  /\ Loads(process)' /\ request'[o].body = LoadRuntimeConfig(process)'
                        /\ \A j \in Moved[request'[o].at] :
                              triggers'[j] = TriggerOf(j, request'[o].body) /\ IsCron(triggers'[j])
    BY <1>1 DEF MovesJobs, TriggerOf
  <2>2. o = r /\ request'[r].at \in {"hrworks", "jira"}
    BY <1>1, <1>4, <1>9, <2>1, Jobs DEF Flying
  <2>3. /\ IsCron(trigger) /\ triggers'[job] = trigger
        /\ job # "jira" /\ request'[r].at = After[job] /\ request'[r].body = config
        /\ \A j \in DOMAIN triggers \ {job} : triggers'[j] = triggers[j]
    <3> HIDE DEF trigger, config, job
    <3> QED BY <1>1, <1>2, <1>3, <2>2, Jobs
  <2>4. \A j \in Moved[After[job]] : triggers'[j] = TriggerOf(j, config) /\ IsCron(triggers'[j])
    <3>1. \A j \in Moved[After[job]] : j = job \/ (j \in Moved[job] /\ j \in DOMAIN triggers \ {job})
      <4> HIDE DEF job
      <4> QED BY <1>1, <1>3, <2>3, Jobs
    <3> QED BY <1>5, <2>1, <2>3, <3>1
  <2> QED BY <1>5, <1>7, <2>1, <2>2, <2>3, <2>4
<1>13. Settled'
  <2>1. CASE raced
    BY <1>1, <2>1 DEF Settled, Undisturbed
  <2>2. CASE request'[r].at \in {"hrworks", "jira"}
    <3>1. r \in Flying'
      BY <2>2 DEF Flying
    <3> QED BY <2>2, <3>1 DEF Settled, Undisturbed
  <2>3. CASE ~raced /\ request'[r].at = "failed"
    <3>1. job = "hrworks" /\ ~IsCron(TriggerOf("hrworks", config)) /\ UNCHANGED triggers
      BY <1>1, <1>2, <1>6, <2>3, Jobs
    <3>2. triggers["nightly"] = TriggerOf("nightly", config)
      BY <1>5, <2>3, <3>1, Jobs
    <3>3. JobsFollow'
      BY <1>5, <1>7, <2>3, <3>1, <3>2 DEF JobsFollow, TriggerOf
    <3> QED BY <2>3, <3>3 DEF Settled
  <2>4. CASE ~raced /\ request'[r].at = "done"
    <3>1. job = "jira" /\ IsCron(TriggerOf("jira", config)) /\ triggers'["jira"] = TriggerOf("jira", config)
      <4> HIDE DEF config
      <4> QED BY <1>1, <1>2, <1>3, <2>4, Jobs
    <3>2. \A j \in {"nightly", "hrworks"} :
             triggers'[j] = triggers[j] /\ triggers[j] = TriggerOf(j, config) /\ IsCron(TriggerOf(j, config))
      <4>1. \A j \in {"nightly", "hrworks"} : triggers[j] = TriggerOf(j, config) /\ IsCron(triggers[j])
        BY <1>5, <2>4, <3>1, Jobs
      <4> QED BY <1>3, <1>8, <3>1, <4>1, Jobs
    <3>3. \A j \in DOMAIN KeyOf : triggers'[j] = TriggerOf(j, config) /\ IsCron(TriggerOf(j, config))
      BY <3>1, <3>2, Jobs
    <3>4. JobsFollow'
      BY <1>5, <1>7, <2>4, <3>3, Jobs DEF JobsFollow, TriggerOf
    <3>5. Restartable'
      <4>1. (\A k \in Keys \ Optional : Told(stored)[k] # "null") /\ token \in {None, process.secret}
        BY <1>3, <1>5, <2>4, LoadedTells
      <4> QED BY <1>1, <1>5, <1>7, <2>4, <3>3, <4>1 DEF Restartable, Told, TriggerOf
    <3> QED BY <3>4, <3>5 DEF Settled
  <2> QED BY <1>9, <2>1, <2>2, <2>3, <2>4
<1> QED BY <1>10, <1>11, <1>12, <1>13 DEF ConfigurationInv

-----------------------------------------------------------------------------
(* The theorems *)

LEMMA ConfigurationInit == ASSUME Sound, Init PROVE ConfigurationInv
<1> DEFINE w == [at |-> "new", body |-> <<>>, read |-> None]
<1>1. /\ stored = None /\ token = None /\ process = Down /\ triggers = <<>>
      /\ wanted = Told(None) /\ raced = FALSE
  BY DEF Init
<1>2. w \in PatchRequest /\ w.at = "new"
  BY DEF PatchRequest, Labels
<1>3. \A r \in Requests : request[r] = w
  BY DEF Init, Waiting
<1>4. request = [r \in Requests |-> w]
  BY DEF Init, Waiting
<1> HIDE DEF w
<1>5. request \in [Requests -> PatchRequest]
  BY <1>2, <1>4
<1>6. process.up = FALSE /\ process.secret = None /\ DOMAIN triggers = {}
  BY <1>1 DEF Down
<1>7. TypeOK
  <2>1. token \in Secrets
    BY <1>1 DEF Sound
  <2>2. \A r \in Requests : request[r].at \in {"new", "read", "saved", "done", "failed"} \cup DOMAIN After
    BY <1>2, <1>3
  <2> QED BY <1>1, <1>6, <2>1, <2>2 DEF TypeOK
<1>8. Typed
  BY <1>1, <1>2, <1>3, <1>5, <1>6, <1>7 DEF Typed, Fine
<1>9. Flying = {}
  BY <1>2, <1>3 DEF Flying
<1> QED BY <1>1, <1>2, <1>3, <1>6, <1>8, <1>9, Jobs DEF ConfigurationInv, OneByOne, MovesJobs, Settled, Undisturbed

LEMMA ConfigurationStep == ASSUME Sound, ConfigurationInv, [Next]_vars PROVE ConfigurationInv'
<1>1. CASE Start
  BY <1>1, StartStep
<1>2. CASE Stop
  BY <1>2, StopStep
<1>3. ASSUME NEW r \in Requests, BeginPatch(r) \/ CommitPatch(r) \/ LoadSaved(r) \/ Reschedule(r)
      PROVE  ConfigurationInv'
  BY <1>3, BeginStep, CommitStep, LoadStep, RescheduleStep
<1>4. CASE UNCHANGED vars
  <2>1. UNCHANGED <<stored, token, process, triggers, request, wanted, raced>>
    BY <1>4 DEF vars
  <2>2. Typed' /\ OneByOne' /\ MovesJobs'
    BY <2>1 DEF ConfigurationInv, Typed, TypeOK, Fine, OneByOne, MovesJobs, Flying, Told, Loads, LoadRuntimeConfig,
                Validates, Decrypts, TriggerOf, IsCron
  <2>3. Settled'
    BY <2>1 DEF ConfigurationInv, Settled, Undisturbed, Flying, JobsFollow, Restartable, Told, Loads,
                LoadRuntimeConfig, Validates, Decrypts
  <2> QED BY <2>2, <2>3 DEF ConfigurationInv
<1> QED BY <1>1, <1>2, <1>3, <1>4 DEF Next

LEMMA ConfigurationFollows == ASSUME Sound, ConfigurationInv PROVE ConfigurationApplies
<1>1. DocumentIsWanted
  BY DEF ConfigurationInv, OneByOne, DocumentIsWanted, Quiet
<1>2. Quiet => Undisturbed
  BY DEF Quiet, Undisturbed
<1>3. TriggersFollow
  BY <1>2 DEF ConfigurationInv, Settled, JobsFollow, TriggersFollow, Quiet
<1>4. ErrorsAreTold
  BY <1>2 DEF ConfigurationInv, Settled, Restartable, ErrorsAreTold, IsCron
<1> QED BY <1>1, <1>3, <1>4 DEF ConfigurationApplies

LEMMA ConfigurationInvariant == ASSUME Sound PROVE Spec => []ConfigurationInv
<1>1. Init => ConfigurationInv
  BY ConfigurationInit
<1>2. ConfigurationInv /\ [Next]_vars => ConfigurationInv'
  BY ConfigurationStep
<1> QED BY <1>1, <1>2, PTL DEF Spec

(* Each job of the running process has a trigger, whichever requests, starts and
   stops there were, and the token is encrypted with a secret that was set. *)
THEOREM ConfigurationTyped == ASSUME Sound PROVE Spec => []TypeOK
<1>1. ConfigurationInv => TypeOK
  BY DEF ConfigurationInv, Typed
<1> QED BY <1>1, ConfigurationInvariant, PTL

(* PATCH requests that come one after the other leave the document they asked for and
   jobs that follow it, and only one that was answered with an error leaves settings
   with which the process would not come up again. *)
THEOREM SettingsApply == ASSUME Sound PROVE Spec => []ConfigurationApplies
<1>1. ConfigurationInv => ConfigurationApplies
  BY ConfigurationFollows
<1> QED BY <1>1, ConfigurationInvariant, PTL

-----------------------------------------------------------------------------
(* UserAssignments: the inductive invariant *)

RowType == [id : Nat, user : Users, role : DOMAIN Roles, team : Teams, from : Staff!Days,
            to : Staff!Days \cup {0, None}, overlapped : BOOLEAN]
PutType == [user : Users, role : DOMAIN Roles, team : Teams, current : RowType \cup {None},
            day : Staff!Days, overlapped : BOOLEAN]

(* None and Done are no numbers, rows or requests. *)
Apart == None \notin Nat \cup RowType \cup PutType /\ Done \notin PutType /\ None # Done /\ LastDay \in Nat \ {0}

StaffTyped ==
    /\ known \in SUBSET Users /\ excluded \in SUBSET Users /\ today \in Staff!Days
    /\ rows \in SUBSET RowType /\ IsFiniteSet(rows)
    /\ put \in [Puts -> PutType \cup {None, Done}]

(* Ids are those of the sequence of the table. *)
Numbered ==
    /\ \A row \in rows : row.id \in 1..Cardinality(rows)
    /\ \A p, q \in rows : p.id = q.id => p = q

(* Nothing begins in the future, and the row that an open request has read is still
   in the table, perhaps rewritten. *)
Begun ==
    /\ \A row \in rows : row.from <= today /\ row.user \in known
    /\ \A r \in Staff!Open :
          /\ put[r].day <= today /\ put[r].user \in known
          /\ put[r].current # None =>
                /\ put[r].current.user = put[r].user /\ put[r].current.from <= today
                /\ \E row \in rows : row.id = put[r].current.id /\ row.user = put[r].user

(* What a request has read holds until another for the same user is open. *)
Fresh ==
    \A r \in Staff!Open : ~put[r].overlapped =>
        /\ \A o \in Staff!Open : o # r => put[o].user # put[r].user
        /\ put[r].current = None => Staff!Of(put[r].user, rows) = {}
        /\ put[r].current # None => put[r].current \in Staff!Picks(rows, put[r].user, put[r].day)
        /\ \A row \in Staff!Of(put[r].user, rows) : row.from <= put[r].day

(* Rows of a user whose requests never overlapped follow each other, and the last
   one is open. *)
Clean(u, table) == \A row \in Staff!Of(u, table) : ~row.overlapped
Chained ==
    \A u \in Users : Clean(u, rows) =>
        /\ \A p, q \in Staff!Of(u, rows) : \A day \in Staff!Days :
              Staff!ValidOn(p, day) /\ Staff!ValidOn(q, day) => p = q
        /\ Staff!Of(u, rows) # {} => \E row \in Staff!Of(u, rows) : row.to = None

StaffInv == StaffTyped /\ Numbered /\ Begun /\ Fresh /\ Chained

-----------------------------------------------------------------------------
(* Rows of a user *)

LEMMA DaysAreNumbers ==
  ASSUME Apart
  PROVE  Staff!Days \subseteq Nat /\ 1 \in Staff!Days
  BY DEF Apart, Staff!Days

LEMMA RowFields ==
  ASSUME NEW row \in RowType
  PROVE  /\ row.id \in Nat /\ row.user \in Users /\ row.role \in DOMAIN Roles /\ row.team \in Teams
         /\ row.from \in Staff!Days /\ row.to \in Staff!Days \cup {0, None} /\ row.overlapped \in BOOLEAN
  BY DEF RowType

LEMMA PutFields ==
  ASSUME StaffTyped, Apart, NEW r \in Staff!Open
  PROVE  /\ r \in Puts /\ put[r] \in PutType
         /\ put[r].user \in Users /\ put[r].role \in DOMAIN Roles /\ put[r].team \in Teams
         /\ put[r].current \in RowType \cup {None} /\ put[r].day \in Staff!Days /\ put[r].overlapped \in BOOLEAN
<1>1. r \in Puts /\ put[r] \in PutType
  BY DEF StaffTyped, Staff!Open
<1> QED BY <1>1 DEF PutType

(* A reader finds rows of the user, and the latest of those that are valid. *)
LEMMA PickedRows ==
  ASSUME NEW table, NEW u, NEW day
  PROVE  LET valid == {row \in Staff!Of(u, table) : Staff!ValidOn(row, day)}
         IN  /\ Staff!Picks(table, u, day) \subseteq Staff!Of(u, table)
             /\ valid # {} => Staff!Picks(table, u, day) = Staff!Latest(valid)
  BY DEF Staff!Picks, Staff!Latest, Staff!Best

(* One row is valid on a day since when no row has begun, and is what readers find. *)
LEMMA CleanRow ==
  ASSUME Apart, StaffTyped, Chained, NEW u \in Users, Clean(u, rows), Staff!Of(u, rows) # {},
         NEW day \in Staff!Days, \A row \in Staff!Of(u, rows) : row.from <= day
  PROVE  \E last \in Staff!Of(u, rows) :
            /\ last.to = None
            /\ {row \in Staff!Of(u, rows) : Staff!ValidOn(row, day)} = {last}
            /\ Staff!Picks(rows, u, day) = {last}
<1>1. PICK last \in Staff!Of(u, rows) : last.to = None
  BY DEF Chained
<1> DEFINE valid == {row \in Staff!Of(u, rows) : Staff!ValidOn(row, day)}
<1>2. Staff!ValidOn(last, day)
  BY <1>1 DEF Staff!ValidOn
<1>3. \A row \in valid : row = last
  BY <1>2 DEF Chained
<1>4. valid = {last}
  BY <1>2, <1>3
<1>5. last.from <= last.from
  <2>1. last \in RowType
    BY DEF StaffTyped, Staff!Of
  <2> QED BY <2>1, RowFields, DaysAreNumbers
<1>6. Staff!Latest(valid) = {last}
  <2> HIDE DEF valid
  <2> QED BY <1>4, <1>5 DEF Staff!Latest
<1>7. Staff!Picks(rows, u, day) = Staff!Latest(valid)
  BY <1>4, PickedRows
<1> QED BY <1>1, <1>4, <1>6, <1>7

-----------------------------------------------------------------------------
(* A commit closes one row at most and adds one *)

NewRow(r) == Staff!Row(put[r])
ClosedRow(r) == Staff!Closed(put[r].current, put[r].day)

(* The instance has the operators of the library under names of its own. *)
LEMMA SameCardinality ==
  ASSUME NEW S
  PROVE  Staff!Cardinality(S) = Cardinality(S)
  BY DEF Cardinality, Staff!Cardinality

LEMMA NewRowFields ==
  ASSUME Apart, StaffTyped, NEW r \in Staff!Open
  PROVE  /\ NewRow(r) \in RowType
         /\ NewRow(r).id = Cardinality(rows) + 1 /\ NewRow(r).user = put[r].user
         /\ NewRow(r).role = put[r].role /\ NewRow(r).team = put[r].team
         /\ NewRow(r).from = put[r].day /\ NewRow(r).to = None
         /\ NewRow(r).overlapped = put[r].overlapped
<1>1. Cardinality(rows) \in Nat
  BY FS_CardinalityType DEF StaffTyped
<1>2. NewRow(r) = [id |-> Cardinality(rows) + 1, user |-> put[r].user, role |-> put[r].role, team |-> put[r].team,
                   from |-> put[r].day, to |-> None, overlapped |-> put[r].overlapped]
  BY SameCardinality DEF NewRow, Staff!Row, Staff!NextId
<1> QED BY <1>1, <1>2, PutFields DEF RowType

LEMMA ClosedRowFields ==
  ASSUME Apart, StaffTyped, NEW r \in Staff!Open, put[r].current # None
  PROVE  LET current == put[r].current
             closed == ClosedRow(r)
         IN  /\ closed \in RowType
             /\ closed.id = current.id /\ closed.user = current.user
             /\ closed.role = current.role /\ closed.team = current.team
             /\ closed.from = current.from /\ closed.overlapped = current.overlapped
             /\ closed.to \in Nat /\ closed.to < put[r].day
             /\ \A day \in Staff!Days :
                   Staff!ValidOn(closed, day) <=> Staff!ValidOn(current, day) /\ day < put[r].day
<1> DEFINE current == put[r].current
           d == put[r].day
           closed == ClosedRow(r)
<1>1. current \in RowType /\ d \in Staff!Days /\ d \in Nat /\ d - 1 \in Nat
  BY PutFields, DaysAreNumbers DEF Staff!Days, Apart
<1>2. /\ current.id \in Nat /\ current.user \in Users /\ current.role \in DOMAIN Roles /\ current.team \in Teams
      /\ current.from \in Staff!Days /\ current.to \in Staff!Days \cup {0, None} /\ current.overlapped \in BOOLEAN
  BY <1>1, RowFields
<1>3. closed = IF current.to = None \/ current.to >= d THEN [current EXCEPT !.to = d - 1] ELSE current
  BY DEF ClosedRow, Staff!Closed
<1>4. d - 1 \in Staff!Days \cup {0}
  BY <1>1 DEF Staff!Days, Apart
<1>5. current.to # None => current.to \in Nat
  BY <1>2, DaysAreNumbers
<1>6. CASE current.to = None \/ current.to >= d
  <2> DEFINE cut == [current EXCEPT !.to = d - 1]
  <2>1. closed = cut
    BY <1>3, <1>6
  <2> HIDE DEF current, d, closed
  <2>2. /\ cut \in RowType /\ cut.to = d - 1
        /\ cut.id = current.id /\ cut.user = current.user
        /\ cut.role = current.role /\ cut.team = current.team
        /\ cut.from = current.from /\ cut.overlapped = current.overlapped
    BY <1>1, <1>4 DEF RowType
  <2> HIDE DEF cut
  <2>3. \A day \in Staff!Days :
           Staff!ValidOn(cut, day) <=> Staff!ValidOn(current, day) /\ day < d
    BY <1>1, <1>2, <1>5, <1>6, <2>2, DaysAreNumbers DEF Staff!ValidOn, Apart
  <2>4. d - 1 < d
    BY <1>1
  <2>5. closed \in RowType /\ closed.to \in Nat /\ closed.to < d
    BY <1>1, <2>1, <2>2, <2>4
  <2> QED BY <2>1, <2>2, <2>3, <2>5 DEF current, d, closed
<1>7. CASE ~(current.to = None \/ current.to >= d)
  <2>1. closed = current
    BY <1>3, <1>7
  <2>2. current.to \in Nat /\ current.to < d
    BY <1>1, <1>5, <1>7
  <2>3. \A day \in Staff!Days : Staff!ValidOn(current, day) => day < d
    BY <1>1, <1>7, <2>2, DaysAreNumbers DEF Staff!ValidOn
  <2> HIDE DEF current, d, closed
  <2> QED BY <1>1, <2>1, <2>2, <2>3 DEF current, d, closed
<1> QED BY <1>6, <1>7

(* The three outcomes of a commit *)
LEMMA CommitRows ==
  ASSUME Apart, StaffInv, NEW r \in Puts, Staff!CommitPut(r)
  PROVE  /\ r \in Staff!Open /\ put' = [put EXCEPT ![r] = Done]
         /\ UNCHANGED <<known, excluded, today>>
         /\ LET p == put[r] IN
            \/ /\ rows' = rows
               /\ p.current # None /\ p.current.role = p.role /\ p.current.team = p.team
            \/ p.current = None /\ rows' = rows \cup {NewRow(r)}
            \/ /\ p.current # None
               /\ \E row \in rows : /\ row.id = p.current.id /\ row.user = p.user
                                    /\ rows' = (rows \ {row}) \cup {ClosedRow(r)} \cup {NewRow(r)}
<1> DEFINE p == put[r]
<1>1. /\ r \in Staff!Open /\ put' = [put EXCEPT ![r] = Done]
      /\ UNCHANGED <<known, excluded, today>> /\ rows' = Staff!Upserted(put[r])
  BY DEF Staff!CommitPut
<1>2. CASE p.current # None /\ p.current.role = p.role /\ p.current.team = p.team
  BY <1>1, <1>2 DEF Staff!Upserted
<1>3. CASE p.current = None
  <2>1. rows' = {row \in rows : p.current = None \/ row.id # p.current.id} \cup {} \cup {NewRow(r)}
    BY <1>1, <1>3 DEF Staff!Upserted, NewRow
  <2> QED BY <1>1, <1>3, <2>1
<1>4. CASE p.current # None /\ ~(p.current.role = p.role /\ p.current.team = p.team)
  <2>1. rows' = {row \in rows : p.current = None \/ row.id # p.current.id} \cup {ClosedRow(r)} \cup {NewRow(r)}
    BY <1>1, <1>4 DEF Staff!Upserted, NewRow, ClosedRow
  <2>2. PICK row \in rows : row.id = p.current.id /\ row.user = p.user
    BY <1>1, <1>4 DEF StaffInv, Begun
  <2>3. {q \in rows : p.current = None \/ q.id # p.current.id} = rows \ {row}
    BY <1>4, <2>2 DEF StaffInv, Numbered
  <2> QED BY <1>1, <1>4, <2>1, <2>2, <2>3
<1> QED BY <1>2, <1>3, <1>4

LEMMA CommitTyped ==
  ASSUME Apart, StaffInv, NEW r \in Puts, Staff!CommitPut(r)
  PROVE  StaffTyped' /\ Numbered'
<1> DEFINE p == put[r]
           n == Cardinality(rows)
<1>1. /\ r \in Staff!Open /\ put' = [put EXCEPT ![r] = Done]
      /\ UNCHANGED <<known, excluded, today>>
  BY CommitRows
<1>2. StaffTyped /\ Numbered
  BY DEF StaffInv
<1>3. /\ NewRow(r) \in RowType /\ NewRow(r).id = n + 1 /\ n \in Nat
      /\ \A row \in rows : row.id \in 1..n /\ row # NewRow(r)
  <2>1. NewRow(r) \in RowType /\ NewRow(r).id = n + 1
    BY <1>1, <1>2, NewRowFields
  <2>2. n \in Nat
    BY <1>2, FS_CardinalityType DEF StaffTyped
  <2>3. \A row \in rows : row.id \in 1..n
    BY <1>2 DEF Numbered
  <2> HIDE DEF n
  <2> QED BY <2>1, <2>2, <2>3
<1>4. CASE rows' = rows
  BY <1>1, <1>2, <1>4 DEF StaffTyped, Numbered
<1>5. CASE rows' = rows \cup {NewRow(r)}
  <2>1. IsFiniteSet(rows') /\ Cardinality(rows') = n + 1
    BY <1>2, <1>3, <1>5, FS_AddElement DEF StaffTyped
  <2> HIDE DEF n
  <2>2. Numbered'
    BY <1>2, <1>3, <1>5, <2>1 DEF Numbered
  <2>3. rows' \in SUBSET RowType
    BY <1>2, <1>3, <1>5 DEF StaffTyped
  <2> QED BY <1>1, <1>2, <2>1, <2>2, <2>3 DEF StaffTyped
<1>6. ASSUME p.current # None, NEW row \in rows, row.id = p.current.id,
             rows' = (rows \ {row}) \cup {ClosedRow(r)} \cup {NewRow(r)}
      PROVE  StaffTyped' /\ Numbered'
  <2> DEFINE rest == rows \ {row}
             middle == rest \cup {ClosedRow(r)}
  <2>1. ClosedRow(r) \in RowType /\ ClosedRow(r).id = row.id
    BY <1>1, <1>2, <1>6, ClosedRowFields
  <2>2. \A q \in rest : q.id # row.id
    BY <1>2, <1>6 DEF Numbered
  <2>3. IsFiniteSet(rest) /\ Cardinality(rest) = n - 1
    BY <1>2, <1>6, FS_RemoveElement DEF StaffTyped
  <2>4. ClosedRow(r) \notin rest
    BY <2>1, <2>2
  <2>5. IsFiniteSet(middle) /\ Cardinality(middle) = Cardinality(rest) + 1
    <3> HIDE DEF rest
    <3> QED BY <2>3, <2>4, FS_AddElement
  <2>6. NewRow(r) \notin middle
    <3>1. row.id \in 1..n
      BY <1>3
    <3>2. ClosedRow(r) # NewRow(r)
      <4> HIDE DEF n
      <4> QED BY <1>3, <2>1, <3>1
    <3> QED BY <1>3, <3>2
  <2>7. IsFiniteSet(rows') /\ Cardinality(rows') = Cardinality(middle) + 1
    <3>1. rows' = middle \cup {NewRow(r)}
      BY <1>6
    <3> HIDE DEF middle
    <3> QED BY <2>5, <2>6, <3>1, FS_AddElement
  <2>8. Cardinality(rows') = n + 1
    <3> HIDE DEF rest, middle, n
    <3> QED BY <1>3, <2>3, <2>5, <2>7
  <2> HIDE DEF n
  <2>9. \A q \in rows' : q.id \in 1..(n + 1)
    BY <1>3, <1>6, <2>1
  <2>10. \A q \in rows' : q = NewRow(r) \/ (q.id \in 1..n /\ (q = ClosedRow(r) \/ q \in rest))
    BY <1>3, <1>6, <2>1
  <2>11. \A x, y \in rows' : x.id = y.id => x = y
    <3> HIDE DEF rest
    <3>1. \A x, y \in rest : x.id = y.id => x = y
      BY <1>2 DEF Numbered, rest
    <3> QED BY <1>3, <2>1, <2>2, <2>10, <3>1
  <2>12. rows' \in SUBSET RowType
    BY <1>2, <1>3, <1>6, <2>1 DEF StaffTyped
  <2> QED BY <1>1, <1>2, <2>7, <2>8, <2>9, <2>11, <2>12 DEF StaffTyped, Numbered
<1> QED BY <1>4, <1>5, <1>6, CommitRows

(* What a request that never overlapped has read is what it closes. *)
LEMMA AloneRead ==
  ASSUME Apart, StaffInv, NEW r \in Staff!Open, ~put[r].overlapped, put[r].current # None
  PROVE  /\ put[r].current \in Staff!Of(put[r].user, rows)
         /\ \A row \in rows : row.id = put[r].current.id => row = put[r].current
<1>1. put[r].current \in Staff!Of(put[r].user, rows)
  BY PickedRows DEF StaffInv, Fresh
<1> QED BY <1>1 DEF StaffInv, Numbered, Staff!Of

(* Rows of other users stay, and those of the user get at most one more and one that
   ends earlier. *)
LEMMA CommittedRows ==
  ASSUME Apart, StaffInv, NEW r \in Puts, Staff!CommitPut(r), rows' # rows
  PROVE  /\ NewRow(r) \in rows'
         /\ \A u \in Users \ {put[r].user} : Staff!Of(u, rows') = Staff!Of(u, rows)
         /\ \A row \in rows' : row \in rows \/ row = NewRow(r) \/ (put[r].current # None /\ row = ClosedRow(r))
         /\ \A row \in rows : row \in rows' \/ (put[r].current # None /\ row.id = put[r].current.id)
         /\ put[r].current # None => ClosedRow(r) \in rows'
<1>1. r \in Staff!Open /\ StaffTyped
  BY CommitRows DEF StaffInv
<1>2. NewRow(r).user = put[r].user
  BY <1>1, NewRowFields
<1>3. CASE put[r].current = None /\ rows' = rows \cup {NewRow(r)}
  BY <1>2, <1>3 DEF Staff!Of
<1>4. ASSUME put[r].current # None, NEW row \in rows, row.id = put[r].current.id, row.user = put[r].user,
             rows' = (rows \ {row}) \cup {ClosedRow(r)} \cup {NewRow(r)}
      PROVE  /\ NewRow(r) \in rows'
             /\ \A u \in Users \ {put[r].user} : Staff!Of(u, rows') = Staff!Of(u, rows)
             /\ \A q \in rows' : q \in rows \/ q = NewRow(r) \/ (put[r].current # None /\ q = ClosedRow(r))
             /\ \A q \in rows : q \in rows' \/ (put[r].current # None /\ q.id = put[r].current.id)
             /\ put[r].current # None => ClosedRow(r) \in rows'
  <2>1. ClosedRow(r).user = put[r].current.user
    BY <1>1, <1>4, ClosedRowFields
  <2>2. put[r].current.user = put[r].user
    BY <1>1, <1>4 DEF StaffInv, Begun
  <2> QED BY <1>2, <1>4, <2>1, <2>2 DEF Staff!Of
<1> QED BY <1>3, <1>4, CommitRows

LEMMA OpenAfterCommit ==
  ASSUME Apart, StaffInv, NEW r \in Puts, Staff!CommitPut(r)
  PROVE  Staff!Open' = Staff!Open \ {r} /\ \A o \in Staff!Open' : put'[o] = put[o]
<1>1. r \in Staff!Open /\ put' = [put EXCEPT ![r] = Done]
  BY CommitRows
<1>2. put'[r] = Done /\ \A o \in Puts \ {r} : put'[o] = put[o]
  BY <1>1 DEF StaffInv, StaffTyped
<1> QED BY <1>1, <1>2 DEF Staff!Open

LEMMA CommitBegun ==
  ASSUME Apart, StaffInv, NEW r \in Puts, Staff!CommitPut(r)
  PROVE  Begun' /\ Fresh'
<1>1. /\ r \in Staff!Open /\ StaffTyped /\ Begun /\ Fresh /\ UNCHANGED <<known, excluded, today>>
      /\ Staff!Open' = Staff!Open \ {r} /\ \A o \in Staff!Open' : put'[o] = put[o]
  BY CommitRows, OpenAfterCommit DEF StaffInv
<1>2. CASE rows' = rows
  <2>1. Begun'
    BY <1>1, <1>2 DEF Begun
  <2>2. Fresh'
    BY <1>1, <1>2 DEF Fresh
  <2> QED BY <2>1, <2>2
<1>3. CASE rows' # rows
  <2>1. /\ \A row \in rows' : row \in rows \/ row = NewRow(r) \/ (put[r].current # None /\ row = ClosedRow(r))
        /\ \A row \in rows : row \in rows' \/ (put[r].current # None /\ row.id = put[r].current.id)
        /\ put[r].current # None => ClosedRow(r) \in rows'
        /\ \A u \in Users \ {put[r].user} : Staff!Of(u, rows') = Staff!Of(u, rows)
    BY <1>3, CommittedRows
  <2>2. NewRow(r).from = put[r].day /\ NewRow(r).user = put[r].user
    BY <1>1, NewRowFields
  <2>3. put[r].current # None => /\ ClosedRow(r).from = put[r].current.from
                                 /\ ClosedRow(r).user = put[r].current.user
                                 /\ ClosedRow(r).id = put[r].current.id
    BY <1>1, ClosedRowFields
  <2>4. \A row \in rows' : row.from <= today' /\ row.user \in known'
    <3>1. put[r].day <= today /\ put[r].user \in known
      BY <1>1 DEF Begun
    <3>2. put[r].current # None => put[r].current.from <= today /\ put[r].current.user \in known
      BY <1>1 DEF Begun
    <3> QED BY <1>1, <2>1, <2>2, <2>3, <3>1, <3>2 DEF Begun
  <2>5. ASSUME NEW o \in Staff!Open', put[o].current # None
        PROVE  \E row \in rows' : row.id = put[o].current.id /\ row.user = put[o].user
    <3>1. PICK row \in rows : row.id = put[o].current.id /\ row.user = put[o].user
      BY <1>1, <2>5 DEF Begun
    <3>2. CASE row \in rows'
      BY <3>1, <3>2
    <3>3. CASE row \notin rows'
      <4>1. put[r].current # None /\ row.id = put[r].current.id
        BY <2>1, <3>3
      <4>2. PICK q \in rows : q.id = put[r].current.id /\ q.user = put[r].user
        BY <1>1, <4>1 DEF Begun
      <4>3. q = row
        BY <4>1, <4>2 DEF StaffInv, Numbered
      <4>4. put[r].current.user = put[r].user
        BY <1>1, <4>1 DEF Begun
      <4> QED BY <2>1, <2>3, <3>1, <4>1, <4>2, <4>3, <4>4
    <3> QED BY <3>2, <3>3
  <2>6. Begun'
    BY <1>1, <2>4, <2>5 DEF Begun
  <2>7. Fresh'
    <3>1. SUFFICES ASSUME NEW o \in Staff!Open', ~put[o].overlapped
                   PROVE  /\ \A x \in Staff!Open' : x # o => put[x].user # put[o].user
                          /\ put[o].current = None => Staff!Of(put[o].user, rows') = {}
                          /\ put[o].current # None =>
                                put[o].current \in Staff!Picks(rows', put[o].user, put[o].day)
                          /\ \A row \in Staff!Of(put[o].user, rows') : row.from <= put[o].day
      BY <1>1 DEF Fresh
    <3>2. put[o].user # put[r].user /\ put[o].user \in Users
      BY <1>1, <3>1, PutFields DEF Fresh
    <3>3. Staff!Of(put[o].user, rows') = Staff!Of(put[o].user, rows)
      BY <2>1, <3>2
    <3>4. Staff!Picks(rows', put[o].user, put[o].day) = Staff!Picks(rows, put[o].user, put[o].day)
      BY <3>3 DEF Staff!Picks
    <3> QED BY <1>1, <3>1, <3>3, <3>4 DEF Fresh
  <2> QED BY <2>6, <2>7
<1> QED BY <1>2, <1>3

(* The row that was read is gone unless it was closed already. *)
LEMMA CommitDrops ==
  ASSUME Apart, StaffInv, NEW r \in Puts, Staff!CommitPut(r), rows' # rows,
         put[r].current # None, put[r].current \in rows,
         NEW row \in rows', row = put[r].current
  PROVE  row = NewRow(r) \/ row = ClosedRow(r)
<1>1. PICK old \in rows : /\ old.id = put[r].current.id
                         /\ rows' = (rows \ {old}) \cup {ClosedRow(r)} \cup {NewRow(r)}
  BY CommitRows
<1>2. old = put[r].current
  BY <1>1 DEF StaffInv, Numbered
<1> QED BY <1>1, <1>2

(* Once the current row of a clean user is closed, only the new one is open. *)
LEMMA CommitChained ==
  ASSUME Apart, StaffInv, NEW r \in Puts, Staff!CommitPut(r)
  PROVE  Chained'
<1>1. r \in Staff!Open /\ StaffTyped /\ Chained /\ Fresh
  BY CommitRows DEF StaffInv
<1>2. CASE rows' = rows
  BY <1>1, <1>2 DEF Chained, Clean
<1>3. CASE rows' # rows
  <2> DEFINE u == put[r].user
             d == put[r].day
             current == put[r].current
  <2>1. /\ \A row \in rows' : row \in rows \/ row = NewRow(r) \/ (current # None /\ row = ClosedRow(r))
        /\ \A row \in rows : row \in rows' \/ (current # None /\ row.id = current.id)
        /\ current # None => ClosedRow(r) \in rows'
        /\ \A o \in Users \ {u} : Staff!Of(o, rows') = Staff!Of(o, rows)
        /\ NewRow(r) \in rows'
    BY <1>3, CommittedRows
  <2>2. /\ NewRow(r).from = d /\ NewRow(r).user = u /\ NewRow(r).to = None
        /\ NewRow(r).overlapped = put[r].overlapped
    BY <1>1, NewRowFields
  <2>3. u \in Users /\ d \in Staff!Days /\ current \in RowType \cup {None}
    BY <1>1, PutFields
  <2>4. ASSUME NEW o \in Users, o # u, Clean(o, rows')
        PROVE  /\ \A p, q \in Staff!Of(o, rows') : \A day \in Staff!Days :
                     Staff!ValidOn(p, day) /\ Staff!ValidOn(q, day) => p = q
               /\ Staff!Of(o, rows') # {} => \E row \in Staff!Of(o, rows') : row.to = None
    BY <1>1, <2>1, <2>4 DEF Chained, Clean
  <2>5. ASSUME Clean(u, rows')
        PROVE  /\ \A p, q \in Staff!Of(u, rows') : \A day \in Staff!Days :
                     Staff!ValidOn(p, day) /\ Staff!ValidOn(q, day) => p = q
               /\ \E row \in Staff!Of(u, rows') : row.to = None
    <3>1. ~put[r].overlapped
      BY <2>1, <2>2, <2>5 DEF Clean, Staff!Of
    <3>2. \E row \in Staff!Of(u, rows') : row.to = None
      BY <2>1, <2>2 DEF Staff!Of
    <3>3. \A day \in Staff!Days : Staff!ValidOn(NewRow(r), day) => d <= day
      BY <2>2 DEF Staff!ValidOn
    <3>4. CASE current = None
      <4>1. Staff!Of(u, rows) = {}
        BY <1>1, <3>1, <3>4 DEF Fresh
      <4>2. Staff!Of(u, rows') = {NewRow(r)}
        BY <2>1, <2>2, <3>4, <4>1 DEF Staff!Of
      <4> QED BY <3>2, <4>2
    <3>5. CASE current # None
      <4>1. /\ current \in Staff!Of(u, rows)
            /\ \A row \in rows : row.id = current.id => row = current
        BY <1>1, <3>1, <3>5, AloneRead
      <4>2. /\ ClosedRow(r).user = u /\ ClosedRow(r).overlapped = current.overlapped
            /\ \A day \in Staff!Days :
                  Staff!ValidOn(ClosedRow(r), day) <=> Staff!ValidOn(current, day) /\ day < d
        BY <1>1, <3>5, <4>1, ClosedRowFields DEF Staff!Of
      <4>3. Clean(u, rows)
        <5>1. \A row \in Staff!Of(u, rows) : row \in Staff!Of(u, rows') \/ row = current
          BY <2>1, <4>1 DEF Staff!Of
        <5>2. ~current.overlapped
          BY <2>1, <2>5, <3>5, <4>2 DEF Clean, Staff!Of
        <5> QED BY <2>5, <5>1, <5>2 DEF Clean
      <4>4. \A row \in Staff!Of(u, rows) : row.from <= d
        BY <1>1, <3>1 DEF Fresh
      <4>5. current \in Staff!Picks(rows, u, d)
        BY <1>1, <3>1, <3>5 DEF Fresh
      <4>6. \A row \in Staff!Of(u, rows) : Staff!ValidOn(row, d) => row = current
        BY <1>1, <2>3, <4>1, <4>3, <4>4, <4>5, CleanRow
      <4>7. ASSUME NEW q \in Staff!Of(u, rows), q # current, NEW day \in Staff!Days, Staff!ValidOn(q, day)
            PROVE  day < d
        <5>1. q \in RowType /\ q.to # None /\ q.to \in Nat /\ q.from \in Nat /\ day \in Nat /\ d \in Nat
          <6>1. q \in RowType
            BY <1>1 DEF StaffTyped, Staff!Of
          <6>2. q.to # None
            BY <4>4, <4>6, <4>7 DEF Staff!ValidOn
          <6> QED BY <2>3, <6>1, <6>2, RowFields, DaysAreNumbers
        <5>2. q.to < d
          BY <4>4, <4>6, <4>7, <5>1 DEF Staff!ValidOn
        <5>3. q.to >= day
          BY <4>7, <5>1 DEF Staff!ValidOn
        <5> QED BY <5>1, <5>2, <5>3
      <4> DEFINE others == Staff!Of(u, rows) \ {current}
      <4>8. \A row \in Staff!Of(u, rows') : row \in others \/ row = NewRow(r) \/ row = ClosedRow(r)
        <5>1. ASSUME NEW row \in rows', row = current
              PROVE  row = NewRow(r) \/ row = ClosedRow(r)
          <6>1. put[r].current # None /\ put[r].current \in rows /\ row = put[r].current
            BY <3>5, <4>1, <5>1 DEF Staff!Of
          <6> HIDE DEF current, u, d
          <6> QED BY ONLY Apart, StaffInv, r \in Puts, Staff!CommitPut(r), <1>3, <6>1, row \in rows', CommitDrops
        <5> QED BY <2>1, <5>1 DEF Staff!Of
      <4>9. \A p, q \in Staff!Of(u, rows) : \A day \in Staff!Days :
               Staff!ValidOn(p, day) /\ Staff!ValidOn(q, day) => p = q
        BY <1>1, <2>3, <4>3 DEF Chained
      <4>10. ASSUME NEW p \in Staff!Of(u, rows'), NEW q \in Staff!Of(u, rows'), NEW day \in Staff!Days,
                    Staff!ValidOn(p, day), Staff!ValidOn(q, day)
             PROVE  p = q
        <5>1. day \in Nat /\ d \in Nat
          BY <2>3, DaysAreNumbers
        <5>2. ASSUME p = NewRow(r) \/ q = NewRow(r)
              PROVE  p = NewRow(r) /\ q = NewRow(r)
          BY <3>3, <4>2, <4>7, <4>8, <4>10, <5>1, <5>2
        <5>3. CASE p # NewRow(r) /\ q # NewRow(r)
          BY <4>1, <4>2, <4>8, <4>9, <4>10, <5>3
        <5> QED BY <5>2, <5>3
      <4> QED BY <3>2, <4>10
    <3> QED BY <3>4, <3>5
  <2> QED BY <2>4, <2>5 DEF Chained, Clean
<1> QED BY <1>2, <1>3

-----------------------------------------------------------------------------
(* A request reads; the other steps move no row *)

LEMMA BeginFields ==
  ASSUME Apart, StaffInv, NEW r \in Puts, Staff!BeginPut(r)
  PROVE  /\ r \notin Staff!Open /\ Staff!Open' = Staff!Open \cup {r}
         /\ UNCHANGED <<known, excluded, rows, today>>
         /\ put' \in [Puts -> PutType \cup {None, Done}]
         /\ put'[r].user \in known /\ put'[r].day = today
         /\ put'[r].current \in Staff!Current(put'[r].user)
         /\ put'[r].overlapped = (\E o \in Staff!Open : put[o].user = put'[r].user)
         /\ \A o \in Staff!Open : /\ put'[o].user = put[o].user /\ put'[o].day = put[o].day
                                  /\ put'[o].current = put[o].current
                                  /\ IF put[o].user = put'[r].user THEN put'[o].overlapped ELSE put'[o] = put[o]
<1>1. /\ put[r] = None /\ UNCHANGED <<known, excluded, rows, today>> /\ StaffTyped
      /\ \E u \in known, role \in DOMAIN Roles, team \in Teams : \E current \in Staff!Current(u) :
            put' = [q \in Puts |->
                      IF q = r THEN Staff!Put(u, role, team, current)
                      ELSE IF q \in Staff!Open /\ put[q].user = u
                           THEN [put[q] EXCEPT !.overlapped = TRUE] ELSE put[q]]
  BY DEF Staff!BeginPut, StaffInv
<1>2. PICK u \in known, role \in DOMAIN Roles, team \in Teams : \E current \in Staff!Current(u) :
            put' = [q \in Puts |->
                      IF q = r THEN Staff!Put(u, role, team, current)
                      ELSE IF q \in Staff!Open /\ put[q].user = u
                           THEN [put[q] EXCEPT !.overlapped = TRUE] ELSE put[q]]
  BY <1>1
<1>3. PICK current \in Staff!Current(u) :
            put' = [q \in Puts |->
                      IF q = r THEN Staff!Put(u, role, team, current)
                      ELSE IF q \in Staff!Open /\ put[q].user = u
                           THEN [put[q] EXCEPT !.overlapped = TRUE] ELSE put[q]]
  BY <1>2
<1> DEFINE p == Staff!Put(u, role, team, current)
           busy == \E o \in Staff!Open : put[o].user = u
<1>4. p = [user |-> u, role |-> role, team |-> team, current |-> current, day |-> today, overlapped |-> busy]
  BY DEF Staff!Put
<1>5. current \in RowType \cup {None}
  <2>1. CASE Staff!Of(u, rows) = {}
    BY <2>1 DEF Staff!Current
  <2>2. CASE Staff!Of(u, rows) # {}
    <3>1. current \in Staff!Of(u, rows)
      BY <2>2, PickedRows DEF Staff!Current
    <3> QED BY <1>1, <3>1 DEF Staff!Of, StaffTyped
  <2> QED BY <2>1, <2>2
<1>6. p \in PutType
  BY <1>1, <1>4, <1>5 DEF PutType, StaffTyped
<1>7. put'[r] = p
  BY <1>3
<1>8. ASSUME NEW o \in Staff!Open
      PROVE  /\ o \in Puts /\ o # r /\ put[o] \in PutType
             /\ put'[o] = IF put[o].user = u THEN [put[o] EXCEPT !.overlapped = TRUE] ELSE put[o]
  BY <1>1, <1>3, PutFields DEF Staff!Open
<1>9. ASSUME NEW o \in Staff!Open
      PROVE  /\ put'[o] \in PutType
             /\ put'[o].user = put[o].user /\ put'[o].day = put[o].day /\ put'[o].current = put[o].current
             /\ IF put[o].user = u THEN put'[o].overlapped ELSE put'[o] = put[o]
  BY <1>8 DEF PutType
<1>10. \A q \in Puts \ {r} : q \notin Staff!Open => put'[q] = put[q] /\ put[q] \in {None, Done}
  BY <1>3 DEF Staff!Open
<1>11. put' \in [Puts -> PutType \cup {None, Done}]
  <2>1. \A q \in Puts : put'[q] \in PutType \cup {None, Done}
    BY <1>6, <1>7, <1>9, <1>10
  <2>2. DOMAIN put' = Puts /\ put' = [q \in Puts |-> put'[q]]
    BY <1>3
  <2> HIDE DEF p
  <2> QED BY <2>1, <2>2
<1>12. r \notin Staff!Open /\ Staff!Open' = Staff!Open \cup {r}
  <2>1. put'[r] \notin {None, Done}
    BY <1>6, <1>7 DEF Apart
  <2>2. \A o \in Staff!Open : put'[o] \notin {None, Done}
    BY <1>9 DEF Apart
  <2> QED BY <1>1, <1>8, <1>10, <2>1, <2>2 DEF Staff!Open
<1>13. p.user = u /\ p.day = today /\ p.current = current /\ p.overlapped = busy
  BY <1>4
<1> HIDE DEF p
<1>14. /\ put'[r].user = u /\ put'[r].day = today /\ put'[r].current = current
       /\ put'[r].overlapped = (\E o \in Staff!Open : put[o].user = u)
  BY <1>7, <1>13
<1>15. \A o \in Staff!Open : /\ put'[o].user = put[o].user /\ put'[o].day = put[o].day
                             /\ put'[o].current = put[o].current
                             /\ IF put[o].user = u THEN put'[o].overlapped ELSE put'[o] = put[o]
  BY <1>9
<1> QED BY <1>1, <1>11, <1>12, <1>14, <1>15

LEMMA BeginStaff ==
  ASSUME Apart, StaffInv, NEW r \in Puts, Staff!BeginPut(r)
  PROVE  StaffInv'
<1> DEFINE u == put'[r].user
<1>1. /\ r \notin Staff!Open /\ Staff!Open' = Staff!Open \cup {r}
      /\ UNCHANGED <<known, excluded, rows, today>>
      /\ put' \in [Puts -> PutType \cup {None, Done}]
      /\ u \in known /\ put'[r].day = today
      /\ put'[r].current \in Staff!Current(u)
      /\ put'[r].overlapped = (\E o \in Staff!Open : put[o].user = u)
      /\ \A o \in Staff!Open : /\ put'[o].user = put[o].user /\ put'[o].day = put[o].day
                               /\ put'[o].current = put[o].current
                               /\ IF put[o].user = u THEN put'[o].overlapped ELSE put'[o] = put[o]
  BY BeginFields
<1> HIDE DEF u
<1>2. StaffTyped /\ Numbered /\ Begun /\ Fresh /\ Chained
  BY DEF StaffInv
<1>3. StaffTyped' /\ Numbered' /\ Chained'
  <2>1. StaffTyped'
    BY <1>1, <1>2 DEF StaffTyped
  <2>2. Numbered'
    BY <1>1, <1>2 DEF Numbered
  <2>3. Chained'
    BY <1>1, <1>2 DEF Chained, Clean
  <2> QED BY <2>1, <2>2, <2>3
<1>4. /\ put'[r].current = None => Staff!Of(u, rows) = {}
      /\ put'[r].current # None => put'[r].current \in Staff!Picks(rows, u, today)
  <2>1. CASE Staff!Of(u, rows) = {}
    BY <1>1, <2>1 DEF Staff!Current
  <2>2. CASE Staff!Of(u, rows) # {}
    <3>1. put'[r].current \in Staff!Picks(rows, u, today)
      BY <1>1, <2>2 DEF Staff!Current
    <3>2. put'[r].current \in RowType
      BY <1>2, <3>1, PickedRows DEF Staff!Of, StaffTyped
    <3> QED BY <3>1, <3>2 DEF Apart
  <2> QED BY <2>1, <2>2
<1>5. put'[r].current # None => put'[r].current \in rows /\ put'[r].current.user = u
  <2>1. Staff!Picks(rows, u, today) \subseteq Staff!Of(u, rows)
    BY PickedRows
  <2> QED BY <1>4, <2>1 DEF Staff!Of
<1>6. Begun'
  <2>1. ASSUME NEW o \in Staff!Open'
        PROVE  /\ put'[o].day <= today /\ put'[o].user \in known
               /\ put'[o].current # None =>
                     /\ put'[o].current.user = put'[o].user /\ put'[o].current.from <= today
                     /\ \E row \in rows : row.id = put'[o].current.id /\ row.user = put'[o].user
    <3>1. CASE o = r
      <4>1. today <= today
        BY <1>2, DaysAreNumbers DEF StaffTyped
      <4>2. put'[r].current # None => put'[r].current.from <= today
        BY <1>2, <1>5 DEF Begun
      <4> QED BY <1>1, <1>5, <3>1, <4>1, <4>2 DEF u
    <3>2. CASE o \in Staff!Open
      BY <1>1, <1>2, <3>2 DEF Begun
    <3> QED BY <1>1, <3>1, <3>2
  <2> QED BY <1>1, <1>2, <2>1 DEF Begun
<1>7. Fresh'
  <2>1. ASSUME NEW o \in Staff!Open', ~put'[o].overlapped
        PROVE  /\ \A x \in Staff!Open' : x # o => put'[x].user # put'[o].user
               /\ put'[o].current = None => Staff!Of(put'[o].user, rows) = {}
               /\ put'[o].current # None =>
                     put'[o].current \in Staff!Picks(rows, put'[o].user, put'[o].day)
               /\ \A row \in Staff!Of(put'[o].user, rows) : row.from <= put'[o].day
    <3>1. CASE o = r
      <4>1. \A x \in Staff!Open : put'[x].user # u
        BY <1>1, <2>1, <3>1
      <4>2. \A row \in Staff!Of(u, rows) : row.from <= today
        BY <1>2 DEF Begun, Staff!Of
      <4> QED BY <1>1, <1>4, <3>1, <4>1, <4>2 DEF u
    <3>2. CASE o \in Staff!Open
      <4>1. put'[o] = put[o] /\ put[o].user # u /\ ~put[o].overlapped
        BY <1>1, <2>1, <3>2
      <4> QED BY <1>1, <1>2, <3>2, <4>1 DEF Fresh, u
    <3> QED BY <1>1, <3>1, <3>2
  <2> QED BY <1>1, <2>1 DEF Fresh
<1> QED BY <1>3, <1>6, <1>7 DEF StaffInv

LEMMA OtherStaffSteps ==
  ASSUME Apart, StaffInv, UNCHANGED <<known, rows, put>>,
         excluded' \in SUBSET Users, today' \in Staff!Days, today' >= today
  PROVE  StaffInv'
<1>1. Staff!Open' = Staff!Open
  BY DEF Staff!Open
<1>2. StaffTyped' /\ Numbered' /\ Chained' /\ Fresh'
  <2>1. StaffTyped'
    BY DEF StaffInv, StaffTyped
  <2>2. Numbered'
    BY DEF StaffInv, Numbered
  <2>3. Chained'
    BY DEF StaffInv, Chained, Clean
  <2>4. Fresh'
    BY <1>1 DEF StaffInv, Fresh
  <2> QED BY <2>1, <2>2, <2>3, <2>4
<1>3. Begun'
  <2>1. today \in Nat /\ today' \in Nat
    BY DaysAreNumbers DEF StaffInv, StaffTyped
  <2>2. \A row \in rows : row.from \in Nat
    BY RowFields, DaysAreNumbers DEF StaffInv, StaffTyped
  <2>3. ASSUME NEW r \in Staff!Open
        PROVE  /\ put[r].day \in Nat
               /\ put[r].current # None => put[r].current.from \in Nat
    <3>1. put[r].day \in Nat /\ put[r].current \in RowType \cup {None}
      BY PutFields, DaysAreNumbers DEF StaffInv
    <3> QED BY <3>1, RowFields, DaysAreNumbers
  <2>4. \A row \in rows : row.from <= today'
    BY <2>1, <2>2 DEF StaffInv, Begun
  <2>5. ASSUME NEW r \in Staff!Open
        PROVE  put[r].day <= today' /\ (put[r].current # None => put[r].current.from <= today')
    BY <2>1, <2>3 DEF StaffInv, Begun
  <2> QED BY <1>1, <2>4, <2>5 DEF StaffInv, Begun
<1> QED BY <1>2, <1>3 DEF StaffInv

LEMMA StaffInit == ASSUME Apart, Staff!Init PROVE StaffInv
<1>1. known \in SUBSET Users /\ excluded = {} /\ rows = {} /\ today = 1 /\ put = [r \in Puts |-> None]
  BY DEF Staff!Init
<1>2. Staff!Open = {}
  BY <1>1 DEF Staff!Open
<1>3. StaffTyped
  BY <1>1, FS_EmptySet, DaysAreNumbers DEF StaffTyped
<1>4. Numbered /\ Begun /\ Fresh /\ Chained
  BY <1>1, <1>2 DEF Numbered, Begun, Fresh, Chained, Staff!Of
<1> QED BY <1>3, <1>4 DEF StaffInv

LEMMA StaffStep == ASSUME Apart, StaffInv, [Staff!Next]_Staff!vars PROVE StaffInv'
<1>1. today \in Staff!Days /\ today \in Nat /\ excluded \in SUBSET Users
  BY DaysAreNumbers DEF StaffInv, StaffTyped
<1>2. CASE \E r \in Puts : Staff!BeginPut(r)
  BY <1>2, BeginStaff
<1>3. ASSUME NEW r \in Puts, Staff!CommitPut(r) PROVE StaffInv'
  BY <1>3, CommitTyped, CommitBegun, CommitChained DEF StaffInv
<1>4. ASSUME NEW u \in Users, Staff!PatchUser(u) PROVE StaffInv'
  <2>1. UNCHANGED <<known, rows, put>> /\ today' = today /\ excluded' \in SUBSET Users
    BY <1>1, <1>4 DEF Staff!PatchUser
  <2>2. today' >= today
    BY <1>1, <2>1
  <2> QED BY <1>1, <2>1, <2>2, OtherStaffSteps
<1>5. CASE Staff!NextDay
  <2>1. UNCHANGED <<known, excluded, rows, put>> /\ today < LastDay /\ today' = today + 1
    BY <1>5 DEF Staff!NextDay
  <2>2. today' \in Staff!Days /\ today' >= today
    BY <1>1, <2>1 DEF Staff!Days, Apart
  <2> QED BY <1>1, <2>1, <2>2, OtherStaffSteps
<1>6. CASE UNCHANGED Staff!vars
  <2>1. UNCHANGED <<known, excluded, rows, today, put>>
    BY <1>6 DEF Staff!vars
  <2>2. today' >= today
    BY <1>1, <2>1
  <2> QED BY <1>1, <2>1, <2>2, OtherStaffSteps
<1> QED BY <1>2, <1>3, <1>4, <1>5, <1>6 DEF Staff!Next

LEMMA StaffInvariant == ASSUME Apart PROVE Staff!Spec => []StaffInv
<1>1. Staff!Init => StaffInv
  BY StaffInit
<1>2. StaffInv /\ [Staff!Next]_Staff!vars => StaffInv'
  BY StaffStep
<1> QED BY <1>1, <1>2, PTL DEF Staff!Spec

-----------------------------------------------------------------------------
(* What holds of the table *)

(* Types *)
THEOREM AssignmentsTyped == ASSUME Apart PROVE Staff!Spec => []Staff!TypeOK
<1>1. StaffInv => Staff!TypeOK
  BY DEF StaffInv, StaffTyped, Begun, RowType, Staff!TypeOK
<1> QED BY <1>1, StaffInvariant, PTL

(* For all users, requests and days: two rows of a user are valid on one day only
   when requests for that user overlapped, and both readers of the table otherwise
   find the same row for today. *)
THEOREM AssignmentsAreSound == ASSUME Apart PROVE Staff!Spec => []Staff!AssignmentsSound
<1>1. ASSUME StaffInv PROVE Staff!OneRowPerDay
  <2>1. SUFFICES ASSUME NEW day \in Staff!Days, NEW p \in rows, NEW q \in rows, p # q, p.user = q.user,
                        Staff!ValidOn(p, day), Staff!ValidOn(q, day)
                 PROVE  \E row \in Staff!Of(p.user, rows) : row.overlapped
    BY DEF Staff!OneRowPerDay
  <2>2. p.user \in Users
    BY <1>1, RowFields DEF StaffInv, StaffTyped
  <2>3. ~Clean(p.user, rows)
    BY <1>1, <2>1, <2>2 DEF StaffInv, Chained, Staff!Of
  <2> QED BY <2>3 DEF Clean
<1>2. ASSUME StaffInv PROVE Staff!ReadersAgree
  <2>1. SUFFICES ASSUME NEW u \in Users \ excluded, Staff!Of(u, rows) # {}, Clean(u, rows)
                 PROVE  Staff!ByAccount(u, today) = Staff!Resolve(u, today)
    BY DEF Staff!ReadersAgree, Clean
  <2>2. today \in Staff!Days /\ \A row \in Staff!Of(u, rows) : row.from <= today
    BY <1>2 DEF StaffInv, StaffTyped, Begun, Staff!Of
  <2>3. PICK last \in Staff!Of(u, rows) :
          /\ {row \in Staff!Of(u, rows) : Staff!ValidOn(row, today)} = {last}
          /\ Staff!Picks(rows, u, today) = {last}
    BY <1>2, <2>1, <2>2, CleanRow DEF StaffInv
  <2>4. Staff!Of(u, Staff!ListWorklogAssignments(today)) = {last}
    BY <2>1, <2>3 DEF Staff!Of, Staff!ListWorklogAssignments
  <2>5. last.id <= last.id
    BY <1>2, <2>3, RowFields DEF StaffInv, StaffTyped, Staff!Of
  <2> QED BY <2>1, <2>3, <2>4, <2>5 DEF Staff!ByAccount, Staff!Resolve
<1>3. StaffInv => Staff!AssignmentsSound
  BY <1>1, <1>2 DEF Staff!AssignmentsSound
<1> QED BY <1>3, StaffInvariant, PTL

-----------------------------------------------------------------------------
(* What one step may do to the answers *)

(* Rows that say the same from the same day on give the same answer. *)
LEMMA SameLatest ==
  ASSUME NEW A, NEW B,
         \A a \in A : \E b \in B : a.from = b.from /\ a.role = b.role /\ a.team = b.team,
         \A b \in B : \E a \in A : a.from = b.from /\ a.role = b.role /\ a.team = b.team
  PROVE  {<<row.role, row.team>> : row \in Staff!Latest(A)}
         = {<<row.role, row.team>> : row \in Staff!Latest(B)}
<1>1. ASSUME NEW a \in Staff!Latest(A)
      PROVE  \E b \in Staff!Latest(B) : <<a.role, a.team>> = <<b.role, b.team>>
  <2>1. a \in A /\ \A other \in A : other.from <= a.from
    BY DEF Staff!Latest
  <2>2. PICK b \in B : a.from = b.from /\ a.role = b.role /\ a.team = b.team
    BY <2>1
  <2>3. b \in Staff!Latest(B)
    BY <2>1, <2>2 DEF Staff!Latest
  <2> QED BY <2>2, <2>3
<1>2. ASSUME NEW b \in Staff!Latest(B)
      PROVE  \E a \in Staff!Latest(A) : <<b.role, b.team>> = <<a.role, a.team>>
  <2>1. b \in B /\ \A other \in B : other.from <= b.from
    BY DEF Staff!Latest
  <2>2. PICK a \in A : a.from = b.from /\ a.role = b.role /\ a.team = b.team
    BY <2>1
  <2>3. a \in Staff!Latest(A)
    BY <2>1, <2>2 DEF Staff!Latest
  <2> QED BY <2>2, <2>3
<1> QED BY <1>1, <1>2

LEMMA CommitKeepsHistory ==
  ASSUME Apart, StaffInv, NEW r \in Puts, Staff!CommitPut(r), ~put[r].overlapped,
         NEW u \in Users, NEW day \in 1..(put[r].day - 1),
         \E row \in Staff!Of(u, rows) : Staff!ValidOn(row, day)
  PROVE  Staff!Answer(rows', u, day) = Staff!Answer(rows, u, day)
<1> DEFINE valid(table) == {row \in Staff!Of(u, table) : Staff!ValidOn(row, day)}
           current == put[r].current
<1>1. r \in Staff!Open /\ StaffTyped /\ Fresh
  BY CommitRows DEF StaffInv
<1>2. day \in Staff!Days /\ day \in Nat /\ put[r].day \in Nat /\ day < put[r].day
  <2>1. put[r].day \in 1..LastDay
    BY <1>1, PutFields DEF Staff!Days
  <2> QED BY <2>1 DEF Staff!Days, Apart
<1>3. CASE Staff!Of(u, rows') = Staff!Of(u, rows)
  BY <1>3 DEF Staff!Answer, Staff!Picks
<1>4. CASE Staff!Of(u, rows') # Staff!Of(u, rows)
  <2>1. /\ rows' # rows /\ put[r].user = u
        /\ \A row \in rows' : row \in rows \/ row = NewRow(r) \/ (current # None /\ row = ClosedRow(r))
        /\ \A row \in rows : row \in rows' \/ (current # None /\ row.id = current.id)
        /\ current # None => ClosedRow(r) \in rows'
    <3>1. rows' # rows
      BY <1>4 DEF Staff!Of
    <3> QED BY <1>4, <3>1, CommittedRows
  <2>2. current # None
    BY <1>1, <2>1 DEF Fresh
  <2>3. /\ current \in Staff!Of(u, rows)
        /\ \A row \in rows : row.id = current.id => row = current
    BY <1>1, <2>1, <2>2, AloneRead
  <2>4. /\ ClosedRow(r).user = current.user /\ ClosedRow(r).from = current.from
        /\ ClosedRow(r).role = current.role /\ ClosedRow(r).team = current.team
        /\ Staff!ValidOn(ClosedRow(r), day) <=> Staff!ValidOn(current, day)
    BY <1>1, <1>2, <2>2, ClosedRowFields
  <2>5. ~Staff!ValidOn(NewRow(r), day)
    <3>1. NewRow(r).from = put[r].day
      BY <1>1, NewRowFields
    <3> QED BY <1>2, <3>1 DEF Staff!ValidOn
  <2>6. ASSUME NEW a \in valid(rows')
        PROVE  \E b \in valid(rows) : a.from = b.from /\ a.role = b.role /\ a.team = b.team
    <3>1. a \in rows' /\ a.user = u /\ Staff!ValidOn(a, day)
      BY DEF Staff!Of
    <3>2. CASE a \in rows
      BY <3>1, <3>2 DEF Staff!Of
    <3>3. CASE a = ClosedRow(r)
      <4>1. current \in valid(rows)
        BY <2>3, <2>4, <3>1, <3>3
      <4> QED BY <2>4, <3>3, <4>1
    <3> QED BY <2>1, <2>5, <3>1, <3>2, <3>3
  <2>7. ASSUME NEW b \in valid(rows)
        PROVE  \E a \in valid(rows') : a.from = b.from /\ a.role = b.role /\ a.team = b.team
    <3>1. b \in rows /\ b.user = u /\ Staff!ValidOn(b, day)
      BY DEF Staff!Of
    <3>2. CASE b \in rows'
      BY <3>1, <3>2 DEF Staff!Of
    <3>3. CASE b = current
      <4>1. ClosedRow(r) \in valid(rows')
        BY <2>1, <2>2, <2>4, <3>1, <3>3 DEF Staff!Of
      <4> QED BY <2>4, <3>3, <4>1
    <3> QED BY <2>1, <2>3, <3>1, <3>2, <3>3
  <2>8. valid(rows) # {} /\ valid(rows') # {}
    <3>1. PICK row \in Staff!Of(u, rows) : Staff!ValidOn(row, day)
      OBVIOUS
    <3>2. row \in valid(rows)
      BY <3>1
    <3> QED BY <2>7, <3>2
  <2>9. Staff!Picks(rows, u, day) = Staff!Latest(valid(rows))
    BY <2>8, PickedRows
  <2>10. Staff!Picks(rows', u, day) = Staff!Latest(valid(rows'))
    BY <2>8, PickedRows
  <2>11. {<<row.role, row.team>> : row \in Staff!Latest(valid(rows'))}
         = {<<row.role, row.team>> : row \in Staff!Latest(valid(rows))}
    <3> HIDE DEF valid
    <3> QED BY <2>6, <2>7, SameLatest
  <2> HIDE DEF valid
  <2> QED BY <2>9, <2>10, <2>11 DEF Staff!Answer
<1> QED BY <1>3, <1>4

LEMMA CommitCounts ==
  ASSUME Apart, StaffInv, NEW r \in Puts, Staff!CommitPut(r), ~put[r].overlapped,
         put[r].day = today, Clean(put[r].user, rows)
  PROVE  Staff!Answer(rows', put[r].user, today) = {<<put[r].role, put[r].team>>}
<1> DEFINE u == put[r].user
           current == put[r].current
           valid == {row \in Staff!Of(u, rows') : Staff!ValidOn(row, today)}
<1>1. r \in Staff!Open /\ StaffTyped /\ Fresh /\ Chained
  BY CommitRows DEF StaffInv
<1>2. u \in Users /\ today \in Staff!Days /\ today \in Nat
  BY <1>1, PutFields, DaysAreNumbers DEF StaffTyped
<1>3. CASE rows' = rows
  <2>1. current # None /\ current.role = put[r].role /\ current.team = put[r].team
    <3>1. current = None => rows' # rows
      <4>1. current = None => Staff!Of(u, rows) = {}
        BY <1>1 DEF Fresh
      <4>2. current = None => NewRow(r) \in rows' /\ NewRow(r).user = u
        <5>1. NewRow(r).user = u
          BY <1>1, NewRowFields
        <5> QED BY <5>1, CommitRows
      <4> QED BY <4>1, <4>2 DEF Staff!Of
    <3>2. \A row \in rows : rows' = (rows \ {row}) \cup {ClosedRow(r)} \cup {NewRow(r)} => rows' # rows
      <4>1. NewRow(r) \notin rows
        <5>1. NewRow(r).id = Cardinality(rows) + 1 /\ Cardinality(rows) \in Nat
          BY <1>1, NewRowFields, FS_CardinalityType DEF StaffTyped
        <5>2. \A row \in rows : row.id \in 1..Cardinality(rows)
          BY DEF StaffInv, Numbered
        <5> DEFINE n == Cardinality(rows)
        <5> HIDE DEF n
        <5>3. NewRow(r).id = n + 1 /\ n \in Nat /\ \A row \in rows : row.id \in 1..n
          BY <5>1, <5>2 DEF n
        <5> QED BY <5>3
      <4> QED BY <4>1
    <3> QED BY <1>3, <3>1, <3>2, CommitRows
  <2>2. current \in Staff!Picks(rows, u, today) /\ Staff!Of(u, rows) # {}
        /\ \A row \in Staff!Of(u, rows) : row.from <= today
    <3>1. current \in Staff!Picks(rows, u, today) /\ \A row \in Staff!Of(u, rows) : row.from <= today
      BY <1>1, <2>1 DEF Fresh
    <3>2. current \in Staff!Of(u, rows)
      BY <3>1, PickedRows
    <3> QED BY <3>1, <3>2
  <2>3. PICK last \in Staff!Of(u, rows) : Staff!Picks(rows, u, today) = {last}
    BY <1>1, <1>2, <2>2, CleanRow
  <2>4. Staff!Picks(rows', u, today) = {current}
    BY <1>3, <2>2, <2>3
  <2> HIDE DEF current
  <2>5. current.role = put[r].role /\ current.team = put[r].team
    BY <2>1 DEF current
  <2> QED BY <2>4, <2>5 DEF Staff!Answer
<1>4. CASE rows' # rows
  <2>1. NewRow(r) \in rows' /\ NewRow(r).user = u /\ NewRow(r).from = today /\ NewRow(r).to = None
        /\ NewRow(r).role = put[r].role /\ NewRow(r).team = put[r].team /\ ~NewRow(r).overlapped
    BY <1>1, <1>4, NewRowFields, CommittedRows
  <2>2. Clean(u, rows')
    <3>1. current # None => current \in Staff!Of(u, rows) /\ ClosedRow(r).overlapped = current.overlapped
      BY <1>1, AloneRead, ClosedRowFields
    <3>2. ASSUME NEW row \in rows', row.user = u PROVE ~row.overlapped
      <4>1. row \in rows \/ row = NewRow(r) \/ (current # None /\ row = ClosedRow(r))
        BY <1>4, CommittedRows
      <4> QED BY <2>1, <3>1, <3>2, <4>1 DEF Clean, Staff!Of
    <3> QED BY <3>2 DEF Clean, Staff!Of
  <2>3. Staff!ValidOn(NewRow(r), today)
    BY <1>2, <2>1 DEF Staff!ValidOn
  <2>4. valid = {NewRow(r)}
    <3>1. NewRow(r) \in valid
      BY <2>1, <2>3 DEF Staff!Of
    <3>2. \A row \in valid : row = NewRow(r)
      BY <1>2, <2>2, <2>3, <3>1, CommitChained DEF Chained
    <3> QED BY <3>1, <3>2
  <2>5. Staff!Picks(rows', u, today) = Staff!Latest(valid)
    BY <2>4, PickedRows
  <2> HIDE DEF valid
  <2>6. NewRow(r).from <= NewRow(r).from
    BY <1>2, <2>1
  <2>7. Staff!Picks(rows', u, today) = {NewRow(r)}
    BY <2>4, <2>5, <2>6 DEF Staff!Latest
  <2> QED BY <2>1, <2>7 DEF Staff!Answer
<1> QED BY <1>3, <1>4

(* Only a commit answers a request. *)
LEMMA OneCommits ==
  ASSUME Apart, StaffInv, [Staff!Next]_Staff!vars, NEW r \in Staff!Committed
  PROVE  r \in Puts /\ Staff!CommitPut(r)
<1>1. r \in Staff!Open /\ put'[r] = Done /\ put[r] \in PutType /\ r \in Puts
  BY PutFields DEF Staff!Committed, StaffInv
<1>2. ASSUME NEW b \in Puts, Staff!BeginPut(b) PROVE FALSE
  <2>1. r \in Staff!Open'
    BY <1>1, <1>2, BeginFields
  <2> QED BY <1>1, <2>1 DEF Staff!Open
<1>3. ASSUME put' = put PROVE FALSE
  BY <1>1, <1>3 DEF Apart
<1>4. ASSUME NEW c \in Puts, Staff!CommitPut(c) PROVE c = r
  <2>1. c # r => put'[r] = put[r]
    BY <1>1, <1>4, CommitRows DEF StaffInv, StaffTyped
  <2> QED BY <1>1, <2>1 DEF Apart
<1>5. (\E u \in Users : Staff!PatchUser(u)) \/ Staff!NextDay \/ UNCHANGED Staff!vars => put' = put
  BY DEF Staff!PatchUser, Staff!NextDay, Staff!vars
<1> QED BY <1>1, <1>2, <1>3, <1>4, <1>5 DEF Staff!Next

(* For all users, requests and days, of every step: a request that was alone leaves
   the role and team of earlier days as they were, and gives what counts today. *)
THEOREM AssignmentsAreKept == ASSUME Apart PROVE Staff!Spec => Staff!AssignmentsKept
<1>1. ASSUME StaffInv, [Staff!Next]_Staff!vars PROVE Staff!KeepsHistory /\ Staff!LatestCounts
  <2>1. Staff!KeepsHistory
    BY <1>1, OneCommits, CommitKeepsHistory DEF Staff!KeepsHistory
  <2>2. Staff!LatestCounts
    BY <1>1, OneCommits, CommitCounts DEF Staff!LatestCounts, Clean
  <2> QED BY <2>1, <2>2
<1>2. StaffInv /\ [Staff!Next]_Staff!vars => [Staff!KeepsHistory /\ Staff!LatestCounts]_Staff!vars
  BY <1>1
<1> QED BY <1>2, StaffInvariant, PTL DEF Staff!Spec, Staff!AssignmentsKept

-----------------------------------------------------------------------------
(* Features and families, as the admin keeps them, and their reports (Report)       *)

CONSTANTS Families, Roots, Tokens, Effort, Excluded, RootIssue, Epics, Above, MemberIssues,
          Title, Implementers, Buckets, Filters, MaxEdits
VARIABLES family, memberOf, decisions, shown, activeRoots, progress, edits

Report == INSTANCE FeatureReports

(* Families, features and the three lines of the rest have ids of their own, a row of
   effort names a feature or none, and None is no progress. *)
ProgressTold == {"done", "in preparation", "in progress"}
Identified ==
    /\ Families \cap Roots = {} /\ Families \cap Report!Others = {} /\ Roots \cap Report!Others = {}
    /\ None \notin Roots \cup ProgressTold
    /\ \A row \in Effort : row.root \in Roots \cup {None}

(* A suggestion that the admin has listed may be overtaken by later requests, yet no
   request removes its family: it is a family still when it is accepted. *)
FamilyInv ==
    /\ Report!TypeOK
    /\ family \in [DOMAIN family -> [active : BOOLEAN, words : SUBSET Tokens]]
    /\ \A s \in shown : s.family \in DOMAIN family /\ s.root \in Roots

LEMMA FamilyInit == ASSUME Report!Init PROVE FamilyInv
  BY DEF Report!Init, FamilyInv, Report!TypeOK, Report!Statuses

LEMMA ListedStand ==
  ASSUME FamilyInv, NEW s \in Report!Suggestions
  PROVE  s.family \in DOMAIN family /\ s.root \in Roots
<1>1. PICK f \in Report!ActiveFamilies, r \in Report!Unassigned : s = Report!Suggestion(f, r)
  BY DEF Report!Suggestions
<1>2. s.family = f /\ s.root = r
  BY <1>1 DEF Report!Suggestion
<1> QED BY <1>1, <1>2 DEF Report!ActiveFamilies, Report!Unassigned, FamilyInv, Report!TypeOK

LEMMA FamilyStep == ASSUME FamilyInv, [Report!Next]_Report!vars PROVE FamilyInv'
<1> USE DEF FamilyInv, Report!TypeOK
<1>1. CASE Report!ListSuggestions
  BY <1>1, ListedStand DEF Report!ListSuggestions
<1>2. ASSUME NEW s \in shown, Report!Accept(s) PROVE FamilyInv'
  BY <1>2 DEF Report!Accept
<1>3. ASSUME NEW s \in shown, Report!Reject(s) PROVE FamilyInv'
  BY <1>3, ListedStand DEF Report!Reject
<1>4. ASSUME NEW f \in Families, NEW words \in SUBSET Tokens, Report!CreateFamily(f, words) PROVE FamilyInv'
  BY <1>4 DEF Report!CreateFamily
<1>5. ASSUME NEW f \in Families, Report!PatchFamily(f) PROVE FamilyInv'
  <2>1. CASE family' = [family EXCEPT ![f].active = ~family[f].active]
    <3> DEFINE off == ~family[f].active
    <3>0. off \in BOOLEAN /\ family' = [family EXCEPT ![f].active = off]
      BY <2>1
    <3> HIDE DEF off
    <3>3. [family[f] EXCEPT !.active = off] \in [active : BOOLEAN, words : SUBSET Tokens]
      <4>1. family[f] \in [active : BOOLEAN, words : SUBSET Tokens]
        BY <1>5 DEF Report!PatchFamily
      <4> QED BY <3>0, <4>1, Zenon
    <3>1. family' \in [DOMAIN family -> [active : BOOLEAN, words : SUBSET Tokens]] /\ DOMAIN family' = DOMAIN family
      BY <3>0, <3>3
    <3> QED BY <1>5, <3>1 DEF Report!PatchFamily
  <2>2. ASSUME NEW words \in SUBSET Tokens, family' = [family EXCEPT ![f].words = words] PROVE FamilyInv'
    <3>1. [family[f] EXCEPT !.words = words] \in [active : BOOLEAN, words : SUBSET Tokens]
      <4>1. family[f] \in [active : BOOLEAN, words : SUBSET Tokens]
        BY <1>5 DEF Report!PatchFamily
      <4> QED BY <2>2, <4>1, Zenon
    <3>2. family' \in [DOMAIN family -> [active : BOOLEAN, words : SUBSET Tokens]] /\ DOMAIN family' = DOMAIN family
      BY <2>2, <3>1
    <3> QED BY <1>5, <3>2 DEF Report!PatchFamily
  <2> QED BY <1>5, <2>1, <2>2 DEF Report!PatchFamily
<1>6. ASSUME NEW f \in Families, NEW roots \in SUBSET Roots, Report!PutMembers(f, roots) PROVE FamilyInv'
  BY <1>6 DEF Report!PutMembers
<1>7. CASE Report!Collect
  BY <1>7 DEF Report!Collect
<1>8. CASE UNCHANGED Report!vars
  BY <1>8 DEF Report!vars, Report!AllImplementers
<1> QED BY <1>1, <1>2, <1>3, <1>4, <1>5, <1>6, <1>7, <1>8 DEF Report!Next

LEMMA FamilyInvariant == Report!Spec => []FamilyInv
  BY FamilyInit, FamilyStep, PTL DEF Report!Spec

(* For all families, features, words and requests: a member is a feature, in a family
   that there is. *)
THEOREM FamiliesTyped == Report!Spec => []Report!TypeOK
<1>1. FamilyInv => Report!TypeOK
  BY DEF FamilyInv
<1> QED BY <1>1, FamilyInvariant, PTL

-----------------------------------------------------------------------------
(* Where a row is counted *)

LEMMA SameCount == ASSUME NEW S PROVE Report!Cardinality(S) = Cardinality(S)
  BY DEF Cardinality, Report!Cardinality

LEMMA OnlyLine ==
  ASSUME NEW S, NEW b, b \in S, \A c \in S : c = b
  PROVE  Report!Cardinality(S) = 1
<1>1. S = {b}
  OBVIOUS
<1> QED BY <1>1, FS_Singleton, SameCount

LEMMA NoLine ==
  ASSUME NEW S, S = {}
  PROVE  Report!Cardinality(S) = 0
  BY FS_EmptySet, SameCount

LEMMA ClassifiedAsOther == ASSUME NEW row PROVE Report!Classify(row) \in Report!Others
  BY DEF Report!Classify, Report!Others

LineOf(row) == IF row.root \in activeRoots THEN row.root ELSE Report!Classify(row)

LEMMA FeatureLine ==
  ASSUME NEW filter
  PROVE  LET features == Report!FeatureMatrix(filter)
         IN  /\ DOMAIN features = activeRoots \cup Report!Others
             /\ \A b \in DOMAIN features : features[b] = {row \in Report!Passing(filter) : b = LineOf(row)}
  BY DEF Report!FeatureMatrix, LineOf

FamilyLineOf(row) == IF row.root \in DOMAIN memberOf THEN memberOf[row.root] ELSE row.root

LEMMA FamilyLine ==
  ASSUME NEW filter
  PROVE  LET families == Report!FamilyMatrix(filter)
         IN  /\ DOMAIN families = Report!ActiveFamilies \cup Report!Unassigned
             /\ \A b \in DOMAIN families :
                  families[b] = {row \in Report!Passing(filter) : row.root \in activeRoots /\ b = FamilyLineOf(row)}
  BY DEF Report!FamilyMatrix, FamilyLineOf

LEMMA CountedOnce ==
  ASSUME NEW filter, NEW row \in Report!Passing(filter)
  PROVE  Report!Cardinality(Report!CountedIn(Report!FeatureMatrix(filter), row)) = 1
<1> DEFINE features == Report!FeatureMatrix(filter)
<1>1. DOMAIN features = activeRoots \cup Report!Others
  BY FeatureLine
<1>2. \A b \in DOMAIN features : features[b] = {q \in Report!Passing(filter) : b = LineOf(q)}
  BY FeatureLine
<1>3. LineOf(row) \in DOMAIN features
  BY <1>1, ClassifiedAsOther DEF LineOf
<1> HIDE DEF features
<1>4. \A b \in DOMAIN features : row \in features[b] <=> b = LineOf(row)
  BY <1>2
<1>5. LineOf(row) \in Report!CountedIn(features, row) /\ \A c \in Report!CountedIn(features, row) : c = LineOf(row)
  BY <1>3, <1>4 DEF Report!CountedIn
<1>6. Report!Cardinality(Report!CountedIn(features, row)) = 1
  BY <1>5, OnlyLine
<1> QED BY <1>6 DEF features

Reported(row) == /\ row.root \in activeRoots
                 /\ row.root \in DOMAIN memberOf => family[memberOf[row.root]].active

LEMMA CountedWithFamily ==
  ASSUME Identified, FamilyInv, NEW filter, NEW row \in Report!Passing(filter)
  PROVE  Report!Cardinality(Report!CountedIn(Report!FamilyMatrix(filter), row)) = IF Reported(row) THEN 1 ELSE 0
<1> DEFINE families == Report!FamilyMatrix(filter)
           counted == Report!CountedIn(families, row)
<1>1. DOMAIN families = Report!ActiveFamilies \cup Report!Unassigned
  BY FamilyLine
<1>2. \A b \in DOMAIN families :
        families[b] = {q \in Report!Passing(filter) : q.root \in activeRoots /\ b = FamilyLineOf(q)}
  BY FamilyLine
<1> HIDE DEF families
<1>3. \A b \in DOMAIN families : row \in families[b] <=> row.root \in activeRoots /\ b = FamilyLineOf(row)
  BY <1>2
<1>4. row.root \in activeRoots => (FamilyLineOf(row) \in DOMAIN families <=> Reported(row))
  <2>1. CASE row.root \in DOMAIN memberOf
    <3>1. memberOf[row.root] \in DOMAIN family /\ memberOf[row.root] \in Families
      BY <2>1 DEF FamilyInv, Report!TypeOK
    <3>2. memberOf[row.root] \notin Report!Unassigned
      BY <3>1 DEF Report!Unassigned, FamilyInv, Report!TypeOK, Identified
    <3> QED BY <1>1, <2>1, <3>1, <3>2 DEF FamilyLineOf, Reported, Report!ActiveFamilies
  <2>2. CASE row.root \notin DOMAIN memberOf
    BY <1>1, <2>2 DEF FamilyLineOf, Reported, Report!Unassigned
  <2> QED BY <2>1, <2>2
<1>5. CASE Reported(row)
  <2>1. FamilyLineOf(row) \in counted /\ \A c \in counted : c = FamilyLineOf(row)
    BY <1>3, <1>4, <1>5 DEF Report!CountedIn, Reported
  <2>2. Report!Cardinality(counted) = 1
    <3> HIDE DEF counted
    <3> QED BY <2>1, OnlyLine
  <2> QED BY <1>5, <2>2 DEF families
<1>6. CASE ~Reported(row)
  <2>1. counted = {}
    BY <1>3, <1>4, <1>6 DEF Report!CountedIn
  <2>2. Report!Cardinality(counted) = 0
    <3> HIDE DEF counted
    <3> QED BY <2>1, NoLine
  <2> QED BY <1>6, <2>2 DEF families
<1> QED BY <1>5, <1>6

LEMMA HoursKept == ASSUME Identified, FamilyInv PROVE Report!HoursAreKept
  BY CountedOnce, CountedWithFamily DEF Report!HoursAreKept, Reported

-----------------------------------------------------------------------------
(* What the drill-downs show *)

LEMMA OtherLine ==
  ASSUME Identified, FamilyInv, NEW filter, NEW b \in Report!Others
  PROVE  LET line == {row \in Report!Passing(filter) : b = LineOf(row)}
         IN  /\ Report!OtherDrilldown(b, filter) \subseteq line
             /\ Report!LeftOut(line \ Report!OtherDrilldown(b, filter), filter)
<1>1. b \notin activeRoots
  BY DEF Identified, FamilyInv, Report!TypeOK
<1>2. \A row \in Report!Passing(filter) : row.root \in Roots \cup {None}
  BY DEF Report!Passing, Report!Fetched, Identified
<1>3. None \notin activeRoots
  BY DEF Identified, FamilyInv, Report!TypeOK
<1> QED BY <1>1, <1>2, <1>3 DEF LineOf, Report!OtherDrilldown, Report!LeftOut

LEMMA FeatureLineShown ==
  ASSUME FamilyInv, NEW filter, NEW r \in activeRoots
  PROVE  /\ Report!FeatureDrilldown(r, filter) \subseteq {row \in Report!Passing(filter) : row.root = r}
         /\ \A row \in Report!Passing(filter) :
              row.root = r => \/ row \in Report!FeatureDrilldown(r, filter)
                              \/ row.issue = None \/ row.issue = RootIssue[row.root]
  BY DEF Report!FeatureDrilldown

LEMMA FeatureLineLeaves ==
  ASSUME Identified, FamilyInv, NEW filter, NEW r \in activeRoots
  PROVE  LET line == {row \in Report!Passing(filter) : r = LineOf(row)}
         IN  /\ Report!FeatureDrilldown(r, filter) \subseteq line
             /\ Report!LeftOut(line \ Report!FeatureDrilldown(r, filter), filter)
<1>1. r \in Roots /\ r \notin Report!Others
  BY DEF Identified, FamilyInv, Report!TypeOK
<1>2. \A row \in Report!Passing(filter) : r = LineOf(row) <=> row.root = r
  BY <1>1, ClassifiedAsOther DEF LineOf
<1> QED BY <1>1, <1>2, FeatureLineShown DEF Report!LeftOut

LEMMA FeatureDrilldownsAgree ==
  ASSUME Identified, FamilyInv, NEW filter, NEW b \in DOMAIN Report!FeatureMatrix(filter)
  PROVE  LET line == Report!FeatureMatrix(filter)[b]
             drilldown == IF b \in Report!Others THEN Report!OtherDrilldown(b, filter)
                                                 ELSE Report!FeatureDrilldown(b, filter)
         IN  drilldown \subseteq line /\ Report!LeftOut(line \ drilldown, filter)
<1>1. b \in activeRoots \cup Report!Others
  BY FeatureLine
<1>2. Report!FeatureMatrix(filter)[b] = {row \in Report!Passing(filter) : b = LineOf(row)}
  BY FeatureLine
<1>3. CASE b \in Report!Others
  BY <1>2, <1>3, OtherLine
<1>4. CASE b \notin Report!Others
  BY <1>1, <1>2, <1>4, FeatureLineLeaves
<1> QED BY <1>3, <1>4

(* The features whose rows a line of the matrix of families counts *)
Counted(b) == IF b \in Roots THEN {b} ELSE Report!MembersOf(b) \cap activeRoots

LEMMA CountedFeatures ==
  ASSUME Identified, FamilyInv, NEW b \in Report!ActiveFamilies \cup Report!Unassigned
  PROVE  /\ Counted(b) \subseteq activeRoots
         /\ \A row : row.root \in activeRoots => (b = FamilyLineOf(row) <=> row.root \in Counted(b))
<1>1. CASE b \in Report!Unassigned
  <2>1. b \in activeRoots /\ b \notin DOMAIN memberOf /\ b \in Roots /\ b \notin Families
    BY <1>1 DEF Report!Unassigned, FamilyInv, Report!TypeOK, Identified
  <2>2. \A r \in DOMAIN memberOf : memberOf[r] \in Families
    BY DEF FamilyInv, Report!TypeOK
  <2> QED BY <2>1, <2>2 DEF Counted, FamilyLineOf
<1>2. CASE b \in Report!ActiveFamilies
  <2>1. b \in Families /\ b \notin Roots
    BY <1>2 DEF Report!ActiveFamilies, FamilyInv, Report!TypeOK, Identified
  <2>2. activeRoots \subseteq Roots
    BY DEF FamilyInv, Report!TypeOK
  <2> QED BY <2>1, <2>2 DEF Counted, FamilyLineOf, Report!MembersOf
<1> QED BY <1>1, <1>2

LEMMA FamilyDrilldownsAgree ==
  ASSUME Identified, FamilyInv, NEW filter, NEW b \in DOMAIN Report!FamilyMatrix(filter)
  PROVE  LET line == Report!FamilyMatrix(filter)[b]
         IN  /\ Report!FamilyDrilldown(b, filter) \subseteq line
             /\ Report!LeftOut(line \ Report!FamilyDrilldown(b, filter), filter)
<1>1. b \in Report!ActiveFamilies \cup Report!Unassigned
  BY FamilyLine
<1>2. Report!FamilyMatrix(filter)[b] =
        {row \in Report!Passing(filter) : row.root \in activeRoots /\ b = FamilyLineOf(row)}
  BY FamilyLine
<1>3. Report!FamilyMatrix(filter)[b] = {row \in Report!Passing(filter) : row.root \in Counted(b)}
  BY <1>1, <1>2, CountedFeatures
<1>4. Report!FamilyDrilldown(b, filter) = UNION {Report!FeatureDrilldown(r, filter) : r \in Counted(b)}
  BY DEF Report!FamilyDrilldown, Counted
<1>5. Counted(b) \subseteq activeRoots /\ activeRoots \subseteq Roots
  BY <1>1, CountedFeatures DEF FamilyInv, Report!TypeOK
<1>6. Report!FamilyDrilldown(b, filter) \subseteq Report!FamilyMatrix(filter)[b]
  BY <1>3, <1>4, <1>5, FeatureLineShown
<1>7. ASSUME NEW row \in Report!FamilyMatrix(filter)[b] \ Report!FamilyDrilldown(b, filter)
      PROVE  row.issue = None \/ (row.root \in Roots /\ row.issue = RootIssue[row.root])
  <2>1. row \in Report!Passing(filter) /\ row.root \in Counted(b) /\ row.root \in activeRoots /\ row.root \in Roots
    BY <1>3, <1>5, <1>7
  <2>2. row \notin Report!FeatureDrilldown(row.root, filter)
    BY <1>4, <1>7, <2>1
  <2> QED BY <2>1, <2>2 DEF Report!FeatureDrilldown
<1> QED BY <1>6, <1>7 DEF Report!LeftOut

(* Whatever an issue's epics are, it is in the one section that they give it. *)
LEMMA SectionedOnce ==
  ASSUME NEW filter, NEW r, NEW row \in Report!FeatureDrilldown(r, filter)
  PROVE  Report!Cardinality(Report!CountedIn(Report!Sections(r, filter), row)) = 1
<1> DEFINE shownRows == Report!FeatureDrilldown(r, filter)
           SectionOf(q) == Report!Section(q.issue, r)
           sections == Report!Sections(r, filter)
<1>1. sections = [e \in {SectionOf(q) : q \in shownRows} |-> {q \in shownRows : SectionOf(q) = e}]
  BY DEF Report!Sections
<1> HIDE DEF shownRows, SectionOf, sections
<1>2. row \in shownRows
  BY DEF shownRows
<1>3. SectionOf(row) \in Report!CountedIn(sections, row) /\ \A e \in Report!CountedIn(sections, row) : e = SectionOf(row)
  BY <1>1, <1>2 DEF Report!CountedIn
<1>4. Report!Cardinality(Report!CountedIn(sections, row)) = 1
  BY <1>3, OnlyLine
<1> QED BY <1>4 DEF sections

LEMMA DrilldownsTold == ASSUME Identified, FamilyInv PROVE Report!DrilldownsAgree
  BY FeatureDrilldownsAgree, FamilyDrilldownsAgree, SectionedOnce DEF Report!DrilldownsAgree

LEMMA FeatureDone ==
  ASSUME Identified, NEW r, Report!DeliveryProgress(r) \in {"done", None}, NEW i \in Implementers[r]
  PROVE  progress[i] = "done"
<1> DEFINE all == {progress[j] : j \in Implementers[r]}
<1>1. progress[i] \in all
  OBVIOUS
<1>2. all # {} => \/ all = {"done"}
                  \/ Report!DeliveryProgress(r) \in {"in preparation", "in progress"}
  BY DEF Report!DeliveryProgress
<1>3. all = {"done"}
  BY <1>1, <1>2 DEF Identified, ProgressTold
<1> QED BY <1>1, <1>3

LEMMA FamilyDone == ASSUME Identified PROVE Report!DoneIsDone
<1>1. SUFFICES ASSUME NEW f \in DOMAIN family, Report!RollupProgress(f) = "done",
                      NEW r \in Report!MembersOf(f) \cap activeRoots, NEW i \in Implementers[r]
               PROVE  progress[i] = "done"
  BY DEF Report!DoneIsDone
<1> DEFINE all == {Report!DeliveryProgress(q) : q \in Report!MembersOf(f) \cap activeRoots} \ {None}
<1>2. all = {"done"}
  BY <1>1 DEF Report!RollupProgress, Identified, ProgressTold
<1>3. Report!DeliveryProgress(r) \in {"done", None}
  BY <1>2
<1> QED BY <1>3, FeatureDone

(* For all families, features, rows of effort and filters, whatever the admin has
   suggested to him, accepts, rejects or edits: no hour is counted twice or lost, a
   drill-down shows hours of its line only, and done means that all is done. *)
THEOREM HoursAreCounted == ASSUME Identified PROVE Report!Spec => []Report!HoursAndProgress
<1>1. FamilyInv => Report!HoursAndProgress
  BY HoursKept, DrilldownsTold, FamilyDone DEF Report!HoursAndProgress
<1> QED BY <1>1, FamilyInvariant, PTL

-----------------------------------------------------------------------------
(* Which feature an issue belongs to (Member): the walk from a feature finds what  *)
(* is near it, and of what was found for an issue one is stored                    *)

CONSTANTS Issues, Pmgt, Sources, Key, MaxDepth
VARIABLES kind, archived, parent, links, root, member, fresh

Member == INSTANCE FeatureMembership

(* Issues are finitely many, those of the root project among them; every relation but
   that to a subtask is walked in both directions. *)
Related ==
    /\ IsFiniteSet(Issues) /\ Pmgt \subseteq Issues /\ None \notin Issues
    /\ Sources \subseteq Member!Reversed \cup {"subtask"}
    /\ Key \in [Issues -> Int] /\ MaxDepth \in Nat

LinksTyped ==
    /\ IsFiniteSet(links)
    /\ \A l \in links : l.from \in Issues /\ l.to \in Issues /\ l.source \in Member!Reversed \cup {"subtask"}

Cands == [issue : Issues, root : Issues, depth : Nat, strength : Nat, weakest : Nat]

Collected ==
    /\ kind \in [Pmgt -> {"project", "idea", "task"}]
    /\ archived \subseteq Pmgt
    /\ parent \in [Issues -> Issues \cup {None}]
    /\ LinksTyped

(* Issues and links as they were collected, and the roots of the last rebuild *)
RootsTyped ==
    /\ DOMAIN root \subseteq Pmgt
    /\ root \in [DOMAIN root -> [active : BOOLEAN, kind : Member!RootTypes]]

LEMMA StrengthTyped == ASSUME NEW s, NEW t PROVE Member!Strength(s, t) \in Nat /\ Member!Strength(s, t) <= 100
  BY DEF Member!Strength

LEMMA EdgesTyped ==
  ASSUME Related, Collected
  PROVE  /\ \A e \in Member!Edges : e.from \in Issues /\ e.to \in Issues /\ e.strength \in Nat
         /\ \A i, j \in Issues : Member!Linked(i, j) <=> \E e \in Member!Edges : e.from = i /\ e.to = j
<1> USE DEF Related, Collected, LinksTyped
<1>1. \A e \in Member!Edges : e.from \in Issues /\ e.to \in Issues /\ e.strength \in Nat
  BY StrengthTyped DEF Member!Edges, Member!Edge
<1>2. ASSUME NEW i \in Issues, NEW j \in Issues, Member!Linked(i, j)
      PROVE  \E e \in Member!Edges : e.from = i /\ e.to = j
  <2>1. CASE parent[j] = i
    <3>1. Member!Edge(parent[j], j, "parent") \in Member!Edges
      BY <2>1 DEF Member!Edges
    <3> QED BY <2>1, <3>1 DEF Member!Edge
  <2>2. ASSUME NEW l \in links, l.from = i, l.to = j PROVE \E e \in Member!Edges : e.from = i /\ e.to = j
    <3>1. Member!Edge(l.from, l.to, l.source) \in Member!Edges
      BY DEF Member!Edges
    <3> QED BY <2>2, <3>1 DEF Member!Edge
  <2>3. ASSUME NEW l \in links, l.from = j, l.to = i, l.source # "subtask"
        PROVE  \E e \in Member!Edges : e.from = i /\ e.to = j
    <3>1. Member!Edge(l.to, l.from, l.source) \in Member!Edges
      BY <2>3 DEF Member!Edges
    <3> QED BY <2>3, <3>1 DEF Member!Edge
  <2> QED BY <1>2, <2>1, <2>2, <2>3 DEF Member!Linked
<1>3. ASSUME NEW e \in Member!Edges PROVE Member!Linked(e.from, e.to)
  <2>1. CASE \E l \in links : e = Member!Edge(l.from, l.to, l.source)
    BY <2>1 DEF Member!Edge, Member!Linked
  <2>2. CASE \E l \in links : l.source \in Member!Reversed /\ e = Member!Edge(l.to, l.from, l.source)
    BY <2>2 DEF Member!Edge, Member!Linked, Member!Reversed
  <2>3. CASE \E i \in Issues : parent[i] # None /\ e = Member!Edge(parent[i], i, "parent")
    BY <2>3 DEF Member!Edge, Member!Linked
  <2> QED BY <2>1, <2>2, <2>3 DEF Member!Edges
<1> QED BY <1>1, <1>2, <1>3

-----------------------------------------------------------------------------
(* What is near a root *)

Grown(some) == some \cup {j \in Issues : \E i \in some : Member!Linked(i, j)}

IsBall(ball, r) ==
    /\ ball \in [0..MaxDepth -> SUBSET Issues]
    /\ ball[0] = {r}
    /\ \A n \in 1..MaxDepth : ball[n] = Grown(ball[n - 1])

LEMMA BallExists ==
  ASSUME Related, NEW r \in Issues
  PROVE  \E ball : IsBall(ball, r)
<1> DEFINE V == SUBSET Issues
           start == {r}
           step == [n \in 1..MaxDepth |-> [some \in V |-> Grown(some)]]
<1>1. start \in V /\ MaxDepth \in Nat
  BY DEF Related
<1>2. ASSUME NEW n \in 1..MaxDepth, NEW v \in V PROVE step[n][v] = Grown(v) /\ Grown(v) \in V
  BY DEF Grown
<1> HIDE DEF V, start, step
<1>3. StepsKeep(step, V, MaxDepth)
  BY <1>2 DEF StepsKeep
<1>4. \E ball : StepsFollow(ball, start, step, V, MaxDepth)
  BY <1>1, <1>3, StepsExist
<1>5. PICK ball : /\ ball \in [0..MaxDepth -> V] /\ ball[0] = start
                  /\ \A n \in 1..MaxDepth : ball[n] = step[n][ball[n - 1]]
  BY <1>4 DEF StepsFollow
<1>6. ASSUME NEW n \in 1..MaxDepth PROVE ball[n] = Grown(ball[n - 1])
  <2>1. n - 1 \in 0..MaxDepth
    BY <1>1
  <2> QED BY <1>2, <1>5, <2>1
<1>7. IsBall(ball, r)
  BY <1>5, <1>6 DEF IsBall, V, start
<1> QED BY <1>7

LEMMA Rest == ASSUME NEW n \in Nat, n # 0 PROVE Member!Max(1..n) = n /\ (1..n) \ {n} = 1..(n - 1)
<1>1. n \in 1..n /\ \A y \in 1..n : n >= y
  OBVIOUS
<1>2. Member!Max(1..n) = n
  BY <1>1 DEF Member!Max
<1> QED BY <1>2

LEMMA NearIsBall ==
  ASSUME Related, NEW r \in Issues, NEW ball, IsBall(ball, r)
  PROVE  Member!Near(r) = ball[MaxDepth]
<1> DEFINE seq == [n \in 1..MaxDepth |-> n]
           Body(g, s) == IF s = {} THEN {r}
                         ELSE g[s \ {Member!Max(s)}]
                              \cup {j \in Issues : \E i \in g[s \ {Member!Max(s)}] : Member!Linked(i, j)}
           Fix(g) == g = [s \in SUBSET (1..MaxDepth) |-> Body(g, s)]
           near == CHOOSE g : Fix(g)
<1>1. Member!Near(r) = near[1..MaxDepth]
  <2>1. DOMAIN seq = 1..MaxDepth
    OBVIOUS
  <2> QED BY <2>1 DEF Member!Near, Member!FoldLeft, Member!MapThenFoldSet
<1>2. \E g : Fix(g)
  <2> DEFINE w == [s \in SUBSET (1..MaxDepth) |-> ball[Cardinality(s)]]
  <2>1. ASSUME NEW s \in SUBSET (1..MaxDepth) PROVE w[s] = Body(w, s)
    <3>1. CASE s = {}
      BY <3>1, FS_EmptySet DEF IsBall
    <3>2. CASE s # {}
      <4> DEFINE x == Member!Max(s)
                 n == Cardinality(s)
      <4>1. IsFiniteSet(s) /\ IsFiniteSet(1..MaxDepth) /\ Cardinality(1..MaxDepth) = MaxDepth
        <5>1. MaxDepth \in Int /\ MaxDepth >= 0
          BY DEF Related
        <5>2. IsFiniteSet(1..MaxDepth) /\ Cardinality(1..MaxDepth) = MaxDepth
          BY <5>1, FS_Interval
        <5> QED BY <5>2, FS_Subset
      <4>2. x \in s
        <5>1. s \in SUBSET Nat
          OBVIOUS
        <5> QED BY <3>2, <4>1, <5>1, GreatestExists DEF Member!Max
      <4>3. n \in 1..MaxDepth /\ Cardinality(s \ {x}) = n - 1
        <5> HIDE DEF x
        <5>1. Cardinality(s) \in Nat /\ Cardinality(s) <= MaxDepth
          BY <4>1, FS_CardinalityType, FS_Subset
        <5>2. Cardinality(s) # 0
          BY <3>2, <4>1, FS_EmptySet
        <5>3. Cardinality(s \ {x}) = Cardinality(s) - 1
          BY <4>1, <4>2, FS_RemoveElement
        <5> QED BY <5>1, <5>2, <5>3 DEF Related
      <4>4. s \ {x} \in SUBSET (1..MaxDepth)
        OBVIOUS
      <4>5. w[s] = ball[n] /\ w[s \ {x}] = ball[n - 1]
        BY <4>3, <4>4
      <4>6. ball[n] = Grown(ball[n - 1])
        BY <4>3 DEF IsBall
      <4>7. Body(w, s) = Grown(w[s \ {x}])
        <5> HIDE DEF w
        <5> QED BY <3>2 DEF Grown
      <4> HIDE DEF w, x, n
      <4> QED BY <4>5, <4>6, <4>7
    <3> QED BY <3>1, <3>2
  <2>2. Fix(w)
    <3> HIDE DEF Body
    <3> QED BY <2>1
  <2> QED BY <2>2
<1>3. Fix(near)
  <2> HIDE DEF Fix
  <2> QED BY <1>2
<1>4. ASSUME NEW n \in 0..MaxDepth PROVE near[1..n] = Body(near, 1..n)
  <2>1. 1..n \in SUBSET (1..MaxDepth)
    BY DEF Related
  <2> HIDE DEF near, Body
  <2> QED BY <1>3, <2>1
<1> DEFINE agree == {n \in 0..MaxDepth : near[1..n] = ball[n]}
<1> HIDE DEF near, Fix
<1>5. 0 \in agree
  <2>1. 1..0 = {} /\ 0 \in 0..MaxDepth
    BY DEF Related
  <2> QED BY <1>4, <2>1 DEF IsBall
<1>6. ASSUME NEW n \in 1..MaxDepth, n - 1 \in agree PROVE n \in agree
  <2>1. n \in 0..MaxDepth /\ n \in Nat /\ n # 0 /\ 1..n # {}
    BY DEF Related
  <2>2. Body(near, 1..n) = Grown(near[1..(n - 1)])
    BY <2>1, Rest DEF Grown
  <2>3. near[1..n] = Grown(ball[n - 1])
    BY <1>4, <1>6, <2>1, <2>2
  <2> QED BY <2>1, <2>3 DEF IsBall
<1>7. 0..MaxDepth \subseteq agree
  <2> HIDE DEF agree
  <2> QED BY <1>5, <1>6, Climbs DEF Related
<1>8. MaxDepth \in agree
  BY <1>7 DEF Related
<1> QED BY <1>1, <1>8
-----------------------------------------------------------------------------
(* What the walk from a root finds *)

Out(before) == {e \in Member!Edges : e.from \in Member!IssuesOf(before) /\ e.to \notin Member!IssuesOf(before)}
Ends(e, r, n, before) ==
    {Member!Candidate(e.to, r, n, e.strength, Member!Min({c.weakest, e.strength})) : c \in Member!Of(e.from, before)}
Farther(r, before, n) == before \cup UNION {Ends(e, r, n, before) : e \in Out(before)}

IsWalk(g, r) ==
    /\ g \in [0..MaxDepth -> SUBSET Cands]
    /\ g[0] = {Member!Candidate(r, r, 0, 100, 100)}
    /\ \A n \in 1..MaxDepth : g[n] = Farther(r, g[n - 1], n)

LEMMA WeakestTyped == ASSUME NEW a \in Nat, NEW b \in Nat PROVE Member!Min({a, b}) \in Nat
<1>1. {a, b} \in SUBSET Nat /\ {a, b} # {}
  OBVIOUS
<1>2. PICK z \in {a, b} : \A y \in {a, b} : z =< y
  BY <1>1, LeastExists
<1>3. Member!Min({a, b}) \in {a, b}
  BY <1>2 DEF Member!Min
<1> QED BY <1>1, <1>3

LEMMA FartherTyped ==
  ASSUME Related, Collected, NEW r \in Issues, NEW n \in Nat, NEW before \in SUBSET Cands
  PROVE  Farther(r, before, n) \in SUBSET Cands
<1>1. ASSUME NEW e \in Out(before), NEW d \in Ends(e, r, n, before) PROVE d \in Cands
  <2>1. PICK c \in Member!Of(e.from, before) :
          d = Member!Candidate(e.to, r, n, e.strength, Member!Min({c.weakest, e.strength}))
    BY <1>1 DEF Ends
  <2>2. c \in Cands /\ e \in Member!Edges
    BY DEF Member!Of, Out
  <2>3. c.weakest \in Nat /\ e.strength \in Nat /\ e.to \in Issues
    BY <2>2, EdgesTyped DEF Cands
  <2>4. Member!Min({c.weakest, e.strength}) \in Nat
    BY <2>3, WeakestTyped
  <2> QED BY <2>1, <2>3, <2>4 DEF Member!Candidate, Cands
<1> QED BY <1>1 DEF Farther

LEMMA WalkExists ==
  ASSUME Related, Collected, NEW r \in Issues
  PROVE  \E g : IsWalk(g, r)
<1> DEFINE V == SUBSET Cands
           start == {Member!Candidate(r, r, 0, 100, 100)}
           step == [n \in 1..MaxDepth |-> [some \in V |-> Farther(r, some, n)]]
<1>1. start \in V /\ MaxDepth \in Nat
  BY DEF Related, Member!Candidate, Cands
<1>2. ASSUME NEW n \in 1..MaxDepth, NEW v \in V PROVE step[n][v] = Farther(r, v, n) /\ Farther(r, v, n) \in V
  BY FartherTyped DEF Related
<1> HIDE DEF V, start, step
<1>3. StepsKeep(step, V, MaxDepth)
  BY <1>2 DEF StepsKeep
<1>4. \E g : StepsFollow(g, start, step, V, MaxDepth)
  BY <1>1, <1>3, StepsExist
<1>5. PICK g : /\ g \in [0..MaxDepth -> V] /\ g[0] = start
               /\ \A n \in 1..MaxDepth : g[n] = step[n][g[n - 1]]
  BY <1>4 DEF StepsFollow
<1>6. ASSUME NEW n \in 1..MaxDepth PROVE g[n] = Farther(r, g[n - 1], n)
  <2>1. n - 1 \in 0..MaxDepth
    BY <1>1
  <2> QED BY <1>2, <1>5, <2>1
<1>7. IsWalk(g, r)
  BY <1>5, <1>6 DEF IsWalk, V, start
<1> QED BY <1>7

LEMMA WalkedIsWalk ==
  ASSUME Related, Collected, NEW r \in Issues
  PROVE  \E g : IsWalk(g, r) /\ Member!Walked(r, Member!Edges) = g[MaxDepth]
<1> DEFINE Body(g, n) == IF n = 0 THEN {Member!Candidate(r, r, 0, 100, 100)} ELSE Farther(r, g[n - 1], n)
           Fix(g) == g = [n \in 0..MaxDepth |-> Body(g, n)]
           found == CHOOSE g : Fix(g)
<1>1. Member!Walked(r, Member!Edges) = found[MaxDepth]
  BY DEF Member!Walked, Farther, Out, Ends
<1>2. PICK g : IsWalk(g, r)
  BY WalkExists
<1>3. Fix(g)
  <2>1. \A n \in 0..MaxDepth : g[n] = Body(g, n)
    BY <1>2 DEF IsWalk, Related
  <2> HIDE DEF Body
  <2> QED BY <1>2, <2>1 DEF IsWalk
<1>4. Fix(found)
  <2> HIDE DEF Fix
  <2> QED BY <1>3
<1> HIDE DEF found
<1>5. ASSUME NEW n \in 0..MaxDepth PROVE found[n] = Body(found, n)
  <2> HIDE DEF Body
  <2> QED BY <1>4
<1> DEFINE agree == {n \in 0..MaxDepth : found[n] = g[n]}
<1> HIDE DEF Fix
<1>6. 0 \in agree
  <2>1. 0 \in 0..MaxDepth
    BY DEF Related
  <2> QED BY <1>2, <1>5, <2>1 DEF IsWalk
<1>7. ASSUME NEW n \in 1..MaxDepth, n - 1 \in agree PROVE n \in agree
  <2>1. n \in 0..MaxDepth /\ n # 0
    BY DEF Related
  <2>2. found[n] = Farther(r, found[n - 1], n)
    BY <1>5, <2>1
  <2> QED BY <1>2, <1>7, <2>1, <2>2 DEF IsWalk
<1>8. 0..MaxDepth \subseteq agree
  <2> HIDE DEF agree
  <2> QED BY <1>6, <1>7, Climbs DEF Related
<1>9. MaxDepth \in agree
  BY <1>8 DEF Related
<1> QED BY <1>1, <1>2, <1>9

(* After n steps the walk has found the issues that are near, and as many at least as
   there are steps unless it has come to its end. *)
Spread(b, n) == n < Cardinality(b) \/ Grown(b) = b

WalkSound(r, b, some, n) ==
    /\ b \in SUBSET Issues /\ r \in b
    /\ some \in SUBSET Cands /\ IsFiniteSet(some)
    /\ Member!IssuesOf(some) = b
    /\ \A c \in some : c.root = r /\ c.depth < Cardinality(b)
    /\ Spread(b, n)

LEMMA EdgesFinite == ASSUME Related, Collected PROVE IsFiniteSet(Member!Edges)
<1> USE DEF Related, Collected, LinksTyped
<1> DEFINE back == {k \in links : k.source \in Member!Reversed}
           children == {j \in Issues : parent[j] # None}
           f == [l \in links |-> Member!Edge(l.from, l.to, l.source)]
           g == [l \in links |-> Member!Edge(l.to, l.from, l.source)]
           h == [i \in Issues |-> Member!Edge(parent[i], i, "parent")]
<1>1. Member!Edges = {f[l] : l \in links} \cup {g[l] : l \in back} \cup {h[i] : i \in children}
  BY DEF Member!Edges
<1>2. IsFiniteSet(links) /\ IsFiniteSet(back) /\ IsFiniteSet(children)
  BY FS_Subset
<1> HIDE DEF back, children, f, g, h
<1>3. IsFiniteSet({f[l] : l \in links})
  BY <1>2, ValuesFinite
<1>4. IsFiniteSet({g[l] : l \in back})
  BY <1>2, ValuesFinite
<1>5. IsFiniteSet({h[i] : i \in children})
  BY <1>2, ValuesFinite
<1> QED BY <1>1, <1>3, <1>4, <1>5, FS_Union

LEMMA FartherFinite ==
  ASSUME Related, Collected, NEW r, NEW n, NEW before, IsFiniteSet(before)
  PROVE  IsFiniteSet(Farther(r, before, n))
<1>1. ASSUME NEW e \in Out(before) PROVE IsFiniteSet(Ends(e, r, n, before))
  <2>1. IsFiniteSet(Member!Of(e.from, before))
    BY FS_Subset DEF Member!Of
  <2> DEFINE f == [c \in Member!Of(e.from, before) |->
                     Member!Candidate(e.to, r, n, e.strength, Member!Min({c.weakest, e.strength}))]
  <2>2. Ends(e, r, n, before) = {f[c] : c \in Member!Of(e.from, before)}
    BY DEF Ends
  <2> HIDE DEF f
  <2> QED BY <2>1, <2>2, ValuesFinite
<1>2. IsFiniteSet(Out(before))
  BY EdgesFinite, FS_Subset DEF Out
<1> DEFINE all == {Ends(e, r, n, before) : e \in Out(before)}
           ends == [e \in Out(before) |-> Ends(e, r, n, before)]
<1>3. IsFiniteSet(all)
  <2>1. all = {ends[e] : e \in Out(before)}
    OBVIOUS
  <2> HIDE DEF all, ends
  <2> QED BY <1>2, <2>1, ValuesFinite
<1>4. \A s \in all : IsFiniteSet(s)
  BY <1>1
<1>5. IsFiniteSet(UNION all)
  <2> HIDE DEF all
  <2> QED BY <1>3, <1>4, FS_UNION
<1> QED BY <1>5, FS_Union DEF Farther

LEMMA EndsAre ==
  ASSUME NEW e, NEW r, NEW n, NEW before, NEW d \in Ends(e, r, n, before)
  PROVE  d.issue = e.to /\ d.root = r /\ d.depth = n
<1>1. PICK c \in Member!Of(e.from, before) :
        d = Member!Candidate(e.to, r, n, e.strength, Member!Min({c.weakest, e.strength}))
  BY DEF Ends
<1> QED BY <1>1 DEF Member!Candidate

LEMMA FartherFinds ==
  ASSUME Related, Collected, NEW r \in Issues, NEW n \in Nat, NEW b \in SUBSET Issues,
         NEW before \in SUBSET Cands, Member!IssuesOf(before) = b
  PROVE  Member!IssuesOf(Farther(r, before, n)) = Grown(b)
<1>1. ASSUME NEW e \in Out(before), NEW d \in Ends(e, r, n, before) PROVE d.issue \in Grown(b)
  <2>1. d.issue = e.to /\ e \in Member!Edges /\ e.from \in b
    BY EndsAre DEF Out
  <2>2. e.to \in Issues /\ Member!Linked(e.from, e.to)
    BY <2>1, EdgesTyped
  <2> QED BY <2>1, <2>2 DEF Grown
<1>2. ASSUME NEW d \in Farther(r, before, n) PROVE d.issue \in Grown(b)
  <2>1. CASE d \in before
    BY <2>1 DEF Member!IssuesOf, Grown
  <2>2. CASE d \notin before
    BY <1>1, <2>2 DEF Farther
  <2> QED BY <2>1, <2>2
<1>3. ASSUME NEW j \in Grown(b) PROVE \E d \in Farther(r, before, n) : d.issue = j
  <2>1. CASE j \in b
    BY <2>1 DEF Member!IssuesOf, Farther
  <2>2. CASE j \notin b
    <3>1. PICK i \in b : j \in Issues /\ Member!Linked(i, j)
      BY <1>3, <2>2 DEF Grown
    <3>2. PICK e \in Member!Edges : e.from = i /\ e.to = j
      BY <3>1, EdgesTyped
    <3>3. e \in Out(before)
      BY <2>2, <3>2 DEF Out
    <3>4. PICK c \in before : c.issue = i
      BY DEF Member!IssuesOf
    <3>5. Member!Candidate(e.to, r, n, e.strength, Member!Min({c.weakest, e.strength})) \in Ends(e, r, n, before)
      BY <3>2, <3>4 DEF Ends, Member!Of
    <3> QED BY <3>2, <3>3, <3>5 DEF Farther, Member!Candidate
  <2> QED BY <2>1, <2>2
<1> QED BY <1>2, <1>3 DEF Member!IssuesOf

LEMMA FartherSound ==
  ASSUME Related, Collected, NEW r \in Issues, NEW n \in Nat, n # 0, NEW b, NEW before,
         WalkSound(r, b, before, n - 1)
  PROVE  WalkSound(r, Grown(b), Farther(r, before, n), n)
<1> DEFINE after == Farther(r, before, n)
<1>1. before \in SUBSET Cands /\ IsFiniteSet(before) /\ Member!IssuesOf(before) = b /\ b \in SUBSET Issues /\ r \in b
  BY DEF WalkSound
<1>2. after \in SUBSET Cands /\ IsFiniteSet(after) /\ Member!IssuesOf(after) = Grown(b)
  BY <1>1, FartherTyped, FartherFinite, FartherFinds
<1>3. Grown(b) \in SUBSET Issues /\ b \subseteq Grown(b)
  BY <1>1 DEF Grown
<1>4. /\ IsFiniteSet(b) /\ IsFiniteSet(Grown(b)) /\ Cardinality(b) \in Nat /\ Cardinality(Grown(b)) \in Nat
      /\ Cardinality(b) <= Cardinality(Grown(b)) /\ (Cardinality(b) = Cardinality(Grown(b)) => b = Grown(b))
  BY <1>1, <1>3, FS_Subset, FS_CardinalityType DEF Related
<1>5. Grown(b) # b => n < Cardinality(Grown(b))
  <2>1. Grown(b) # b => n - 1 < Cardinality(b)
    BY DEF WalkSound, Spread
  <2> QED BY <1>4, <2>1
<1>6. Spread(Grown(b), n)
  BY <1>5 DEF Spread
<1>7. ASSUME NEW c \in after PROVE c.root = r /\ c.depth < Cardinality(Grown(b))
  <2>1. CASE c \in before
    <3>1. c.root = r /\ c.depth < Cardinality(b) /\ c.depth \in Nat
      BY <1>1, <2>1 DEF WalkSound, Cands
    <3> QED BY <1>4, <3>1
  <2>2. CASE c \notin before
    <3>1. PICK e \in Out(before) : c \in Ends(e, r, n, before)
      BY <2>2 DEF Farther
    <3>2. c.root = r /\ c.depth = n /\ c.issue = e.to
      BY <3>1, EndsAre
    <3>3. e.to \in Grown(b) /\ e.to \notin b
      BY <1>1, <1>2, <3>1, <3>2 DEF Out, Member!IssuesOf
    <3> QED BY <1>5, <3>2, <3>3
  <2> QED BY <2>1, <2>2
<1> QED BY <1>1, <1>2, <1>3, <1>6, <1>7 DEF WalkSound

(* What a walk finds: the issues that are near its root. *)
LEMMA WalkedSound ==
  ASSUME Related, Collected, NEW r \in Issues
  PROVE  WalkSound(r, Member!Near(r), Member!Walked(r, Member!Edges), MaxDepth)
<1>1. PICK ball : IsBall(ball, r)
  BY BallExists
<1>2. PICK g : IsWalk(g, r) /\ Member!Walked(r, Member!Edges) = g[MaxDepth]
  BY WalkedIsWalk
<1> DEFINE sound == {n \in 0..MaxDepth : WalkSound(r, ball[n], g[n], n)}
<1>3. 0 \in sound
  <2>1. 0 \in 0..MaxDepth
    BY DEF Related
  <2>2. ball[0] = {r} /\ g[0] = {Member!Candidate(r, r, 0, 100, 100)}
    BY <1>1, <1>2 DEF IsBall, IsWalk
  <2>3. Cardinality({r}) = 1 /\ IsFiniteSet({Member!Candidate(r, r, 0, 100, 100)})
    BY FS_Singleton
  <2>4. WalkSound(r, {r}, {Member!Candidate(r, r, 0, 100, 100)}, 0)
    BY <2>3 DEF WalkSound, Spread, Member!IssuesOf, Member!Candidate, Cands
  <2> QED BY <2>1, <2>2, <2>4
<1>4. ASSUME NEW n \in 1..MaxDepth, n - 1 \in sound PROVE n \in sound
  <2>1. n \in Nat /\ n # 0 /\ n \in 0..MaxDepth
    BY DEF Related
  <2>2. WalkSound(r, Grown(ball[n - 1]), Farther(r, g[n - 1], n), n)
    BY <1>4, <2>1, FartherSound
  <2>3. ball[n] = Grown(ball[n - 1]) /\ g[n] = Farther(r, g[n - 1], n)
    BY <1>1, <1>2 DEF IsBall, IsWalk
  <2> QED BY <2>1, <2>2, <2>3
<1>5. 0..MaxDepth \subseteq sound
  <2> HIDE DEF sound
  <2> QED BY <1>3, <1>4, Climbs DEF Related
<1>6. MaxDepth \in sound
  BY <1>5 DEF Related
<1> QED BY <1>1, <1>2, <1>6, NearIsBall

-----------------------------------------------------------------------------
(* The roots, and what an issue itself names *)

LEMMA RootsDetected ==
  ASSUME Related, Collected, RootsTyped
  PROVE  LET table == Member!DetectRoots
         IN  /\ DOMAIN table \subseteq Pmgt
             /\ table \in [DOMAIN table -> [active : BOOLEAN, kind : Member!RootTypes]]
             /\ Member!ActiveRoots(table) = Member!Features
             /\ \A i \in Member!Features : table[i].kind = kind[i]
<1> DEFINE table == Member!DetectRoots
           seen == Member!Features
<1>1. DOMAIN table = DOMAIN root \cup seen
  BY DEF Member!DetectRoots, Member!Features
<1>2. \A i \in seen : table[i] = [active |-> TRUE, kind |-> kind[i]]
  BY DEF Member!DetectRoots, Member!Features
<1>3. \A i \in DOMAIN root \ seen : table[i] = [root[i] EXCEPT !.active = FALSE]
  BY DEF Member!DetectRoots, Member!Features
<1>4. seen \subseteq Pmgt /\ \A i \in seen : kind[i] \in Member!RootTypes
  BY DEF Member!Features
<1>5. \A b, k : [active |-> b, kind |-> k].active = b /\ [active |-> b, kind |-> k].kind = k
  OBVIOUS
<1>6. table = [i \in DOMAIN table |-> table[i]]
  BY DEF Member!DetectRoots
<1> HIDE DEF table, seen
<1>7. ASSUME NEW i \in DOMAIN table
      PROVE  table[i] \in [active : BOOLEAN, kind : Member!RootTypes] /\ (table[i].active <=> i \in seen)
  <2>1. CASE i \in seen
    <3>1. table[i] = [active |-> TRUE, kind |-> kind[i]] /\ kind[i] \in Member!RootTypes
      BY <1>2, <1>4, <2>1
    <3>2. table[i].active = TRUE
      BY <1>5, <3>1, Zenon
    <3>3. table[i] \in [active : BOOLEAN, kind : Member!RootTypes]
      <4>1. \A b \in BOOLEAN, k \in Member!RootTypes : [active |-> b, kind |-> k] \in [active : BOOLEAN, kind : Member!RootTypes]
        OBVIOUS
      <4> QED BY <3>1, <4>1, Zenon
    <3> QED BY <2>1, <3>2, <3>3, Zenon
  <2>2. CASE i \notin seen
    <3>1. root[i] \in [active : BOOLEAN, kind : Member!RootTypes] /\ i \in DOMAIN root
      BY <1>1, <1>7, <2>2 DEF RootsTyped
    <3>2. table[i] = [root[i] EXCEPT !.active = FALSE]
      BY <1>3, <2>2, <3>1
    <3>3. table[i].active = FALSE
      <4>1. "active" \in DOMAIN root[i]
        BY <3>1
      <4> QED BY <3>2, <4>1, Zenon
    <3>4. table[i] \in [active : BOOLEAN, kind : Member!RootTypes]
      BY <3>1, <3>2
    <3> QED BY <2>2, <3>3, <3>4, Zenon
  <2> QED BY <2>1, <2>2
<1>8. Member!ActiveRoots(table) = seen
  BY <1>1, <1>7 DEF Member!ActiveRoots
<1>9. DOMAIN table \subseteq Pmgt
  BY <1>1, <1>4 DEF RootsTyped
<1>10. table \in [DOMAIN table -> [active : BOOLEAN, kind : Member!RootTypes]]
  BY <1>6, <1>7
<1>11. ASSUME NEW i \in seen PROVE table[i].kind = kind[i]
  <2>1. table[i] = [active |-> TRUE, kind |-> kind[i]]
    BY <1>2
  <2>2. [active |-> TRUE, kind |-> kind[i]].kind = kind[i]
    BY SMT
  <2> QED BY <2>1, <2>2, Zenon
<1> QED BY <1>8, <1>9, <1>10, <1>11 DEF table, seen

LEMMA AboveIs ==
  ASSUME NEW i, NEW roots
  PROVE  \E up : LET steps == {n \in 1..Member!Cardinality(Issues) : up[n] \in roots}
                 IN  Member!Above(i, roots) = IF steps = {} THEN {}
                                              ELSE {[root |-> up[Member!Min(steps)], steps |-> Member!Min(steps)]}
<1> DEFINE up == CHOOSE up : up = [n \in 1..Member!Cardinality(Issues) |->
                                     IF n = 1 THEN parent[i]
                                     ELSE IF up[n - 1] \in roots \cup {None} THEN up[n - 1] ELSE parent[up[n - 1]]]
           steps == {n \in 1..Member!Cardinality(Issues) : up[n] \in roots}
<1>1. Member!Above(i, roots) = IF steps = {} THEN {}
                               ELSE {[root |-> up[Member!Min(steps)], steps |-> Member!Min(steps)]}
  BY DEF Member!Above
<1> HIDE DEF up
<1> QED BY <1>1

LEMMA SameIssuesCount == ASSUME NEW S PROVE Member!Cardinality(S) = Cardinality(S)
  BY DEF Cardinality, Member!Cardinality

LEMMA AboveSound ==
  ASSUME Related, NEW i, NEW roots
  PROVE  /\ \A a \in Member!Above(i, roots) : a.root \in roots /\ a.steps \in 1..Cardinality(Issues)
         /\ IsFiniteSet(Member!Above(i, roots))
<1>1. PICK up : LET steps == {n \in 1..Member!Cardinality(Issues) : up[n] \in roots}
                IN  Member!Above(i, roots) = IF steps = {} THEN {}
                                             ELSE {[root |-> up[Member!Min(steps)], steps |-> Member!Min(steps)]}
  BY AboveIs
<1> DEFINE steps == {n \in 1..Member!Cardinality(Issues) : up[n] \in roots}
<1>2. Member!Cardinality(Issues) = Cardinality(Issues) /\ Cardinality(Issues) \in Nat
  BY SameIssuesCount, FS_CardinalityType DEF Related
<1>3. CASE steps = {}
  BY <1>1, <1>3, FS_EmptySet
<1>4. CASE steps # {}
  <2>1. steps \in SUBSET Nat
    BY <1>2
  <2>2. Member!Min(steps) \in steps
    <3> HIDE DEF steps
    <3>1. PICK z \in steps : \A y \in steps : z =< y
      BY <1>4, <2>1, LeastExists
    <3> QED BY <3>1 DEF Member!Min
  <2>3. Member!Above(i, roots) = {[root |-> up[Member!Min(steps)], steps |-> Member!Min(steps)]}
    BY <1>1, <1>4
  <2>4. IsFiniteSet(Member!Above(i, roots))
    BY <2>3, FS_Singleton
  <2> QED BY <1>2, <2>2, <2>3, <2>4
<1> QED BY <1>3, <1>4

LEMMA DirectAre ==
  ASSUME Related, Collected, NEW i \in Issues, NEW roots \in SUBSET Issues
  PROVE  /\ \A c \in Member!Direct(i, roots) :
              c \in Cands /\ c.issue = i /\ c.root \in roots /\ c.depth <= Cardinality(Issues)
         /\ IsFiniteSet(Member!Direct(i, roots))
<1> DEFINE own == {k \in links : k.from = i /\ k.to \in roots}
           f == [l \in own |-> Member!Candidate(i, l.to, 1, Member!Strength(l.source, l.to), Member!Strength(l.source, l.to))]
           above == Member!Above(i, roots)
           g == [a \in above |-> Member!Candidate(i, a.root, a.steps, 80, 80)]
<1>1. Member!Direct(i, roots) = {f[l] : l \in own} \cup {g[a] : a \in above}
  BY DEF Member!Direct
<1>2. IsFiniteSet(own) /\ IsFiniteSet(above)
  BY FS_Subset, AboveSound DEF Collected, LinksTyped
<1>3. 1 <= Cardinality(Issues) /\ Cardinality(Issues) \in Nat
  <2>1. Cardinality(Issues) # 0
    BY FS_EmptySet DEF Related
  <2> QED BY <2>1, FS_CardinalityType DEF Related
<1>4. ASSUME NEW l \in own
      PROVE  f[l] \in Cands /\ f[l].issue = i /\ f[l].root \in roots /\ f[l].depth <= Cardinality(Issues)
  BY <1>3, StrengthTyped DEF Member!Candidate, Cands
<1>5. ASSUME NEW a \in above
      PROVE  g[a] \in Cands /\ g[a].issue = i /\ g[a].root \in roots /\ g[a].depth <= Cardinality(Issues)
  <2>1. a.root \in roots /\ a.steps \in 1..Cardinality(Issues)
    BY AboveSound
  <2> QED BY <1>3, <2>1 DEF Member!Candidate, Cands
<1> HIDE DEF own, f, above, g
<1>6. IsFiniteSet({f[l] : l \in own})
  BY <1>2, ValuesFinite
<1>7. IsFiniteSet({g[a] : a \in above})
  BY <1>2, ValuesFinite
<1> QED BY <1>1, <1>4, <1>5, <1>6, <1>7, FS_Union

-----------------------------------------------------------------------------
(* Which of several candidates is stored *)

LEMMA BetterOrders ==
  ASSUME Related
  PROVE  /\ \A c, d \in Cands : Member!Better(c, d) \/ Member!Better(d, c)
         /\ \A c, d, e \in Cands : Member!Better(c, d) /\ Member!Better(d, e) => Member!Better(c, e)
         /\ \A c, d \in Cands : Member!Better(c, d) => c.strength >= d.strength
<1>1. \A c \in Cands : c.strength \in Nat /\ c.weakest \in Nat /\ c.depth \in Nat /\ Key[c.root] \in Int
  BY DEF Cands, Related
<1> QED BY <1>1 DEF Member!Better

LEMMA BestPicked ==
  ASSUME Related, NEW S \in SUBSET Cands, IsFiniteSet(S), S # {}
  PROVE  LET best == CHOOSE c \in S : \A d \in S : Member!Better(c, d)
         IN  best \in S /\ \A d \in S : best.strength >= d.strength
<1> DEFINE R == {p \in S \X S : Member!Better(p[1], p[2])}
<1>1. \A x, y \in S : <<x, y>> \in R <=> Member!Better(x, y)
  OBVIOUS
<1> HIDE DEF R
<1>2. \A x, y \in S : <<x, y>> \in R \/ <<y, x>> \in R
  BY <1>1, BetterOrders
<1>3. \A x, y, z \in S : <<x, y>> \in R /\ <<y, z>> \in R => <<x, z>> \in R
  BY <1>1, BetterOrders
<1>4. \E z \in S : \A y \in S : <<z, y>> \in R
  BY <1>2, <1>3, BestExists
<1>5. \E z \in S : \A y \in S : Member!Better(z, y)
  BY <1>1, <1>4
<1> DEFINE best == CHOOSE c \in S : \A d \in S : Member!Better(c, d)
<1>6. best \in S /\ \A d \in S : Member!Better(best, d)
  BY <1>5
<1> HIDE DEF best
<1>7. \A d \in S : best.strength >= d.strength
  BY <1>6, BetterOrders
<1> QED BY <1>6, <1>7 DEF best

(* A live root is preferred to an archived one, a live project to any other, and a
   live project by a path as strong. *)
Live(c) == c.root \notin archived
Project(c, table) == table[c.root].kind = "project"

Chosen(w, some, table) ==
    /\ w \in some
    /\ (\E c \in some : Live(c)) => Live(w)
    /\ (\E c \in some : Live(c) /\ Project(c, table)) => Project(w, table)
    /\ \A c \in some : Live(c) /\ Project(c, table) => w.strength >= c.strength

Pick(some, narrow) == IF narrow = {} THEN some ELSE narrow

LEMMA PickKeeps ==
  ASSUME NEW some, some # {}, NEW narrow \in SUBSET some
  PROVE  Pick(some, narrow) \subseteq some /\ Pick(some, narrow) # {}
  BY DEF Pick

LEMMA OneRoot ==
  ASSUME NEW some, IsFiniteSet(some), ~(Member!Cardinality({c.root : c \in some}) > 1)
  PROVE  \A c, d \in some : c.root = d.root
<1> DEFINE f == [c \in some |-> c.root]
           roots == {c.root : c \in some}
<1>1. roots = {f[c] : c \in some}
  OBVIOUS
<1>2. IsFiniteSet(roots)
  <2> HIDE DEF f, roots
  <2> QED BY <1>1, ValuesFinite
<1>3. SUFFICES ASSUME NEW c \in some, NEW d \in some, c.root # d.root PROVE FALSE
  OBVIOUS
<1>4. c.root \in roots /\ d.root \in roots
  OBVIOUS
<1>5. Cardinality(roots) \in Nat /\ ~(Cardinality(roots) > 1)
  BY <1>2, FS_CardinalityType, SameIssuesCount
<1> HIDE DEF roots
<1>6. Cardinality(roots) # 0
  BY <1>2, <1>4, FS_EmptySet
<1>7. Cardinality(roots) = 1
  BY <1>5, <1>6
<1>8. \E r : roots = {r}
  BY <1>2, <1>7, FS_Singleton
<1> QED BY <1>3, <1>4, <1>8

LEMMA ResolveSound ==
  ASSUME Related, NEW some \in SUBSET Cands, IsFiniteSet(some), some # {}, NEW table
  PROVE  Chosen(Member!Resolve(some, table), some, table)
<1> DEFINE several == Member!Cardinality({c.root : c \in some}) > 1
           live == IF several THEN Pick(some, {c \in some : Live(c)}) ELSE some
           pool == IF several THEN Pick(live, {c \in live : Project(c, table)}) ELSE live
           strong == Pick(pool, {c \in pool : c.strength >= Member!StrongThreshold})
           w == CHOOSE c \in strong : \A d \in strong : Member!Better(c, d)
<1>1. Member!Resolve(some, table) = w
  BY DEF Member!Resolve, Member!Prefer, Pick, Live, Project, Member!RootIsArchived
<1>2. live \subseteq some /\ live # {} /\ pool \subseteq live /\ pool # {} /\ strong \subseteq pool /\ strong # {}
  BY DEF Pick
<1>3. several => \A c \in some : Live(c) => c \in live
  BY DEF Pick
<1>4. several => ((\E c \in some : Live(c)) => \A d \in live : Live(d))
  BY DEF Pick
<1>5. several => \A c \in live : Project(c, table) => c \in pool
  BY DEF Pick
<1>6. several => ((\E c \in live : Project(c, table)) => \A d \in pool : Project(d, table))
  BY DEF Pick
<1>7. ~several => live = some /\ pool = some
  OBVIOUS
<1>8. \A c \in pool : c \in strong \/ \A d \in strong : d.strength >= c.strength
  <2>1. \A c \in pool : c.strength \in Nat
    BY <1>2 DEF Cands
  <2> HIDE DEF pool
  <2> DEFINE narrow == {c \in pool : c.strength >= Member!StrongThreshold}
  <2>2. CASE narrow = {}
    BY <2>2 DEF Pick
  <2>3. ASSUME NEW c \in pool, c \notin narrow, NEW d \in narrow PROVE d.strength >= c.strength
    BY <2>1, <2>3 DEF Member!StrongThreshold
  <2>4. CASE narrow # {}
    <3>1. strong = narrow
      BY <2>4 DEF Pick
    <3> HIDE DEF narrow, strong
    <3> QED BY <2>3, <3>1
  <2> QED BY <2>2, <2>4
<1>9. ~several => \A c, d \in some : c.root = d.root
  BY OneRoot
<1>10. IsFiniteSet(strong) /\ strong \in SUBSET Cands
  <2> HIDE DEF live, pool, strong
  <2> QED BY <1>2, FS_Subset
<1> HIDE DEF several, live, pool, strong
<1>11. w \in strong /\ \A d \in strong : w.strength >= d.strength
  BY <1>2, <1>10, BestPicked
<1> HIDE DEF w
<1>12. w \in some /\ w \in pool /\ w \in live
  BY <1>2, <1>11
<1>13. (\E c \in some : Live(c)) => Live(w)
  <2>1. CASE several
    BY <1>4, <1>12, <2>1
  <2>2. CASE ~several
    BY <1>9, <1>12, <2>2 DEF Live
  <2> QED BY <2>1, <2>2
<1>14. (\E c \in some : Live(c) /\ Project(c, table)) => Project(w, table)
  <2>1. CASE several
    BY <1>3, <1>6, <1>12, <2>1
  <2>2. CASE ~several
    BY <1>9, <1>12, <2>2 DEF Project
  <2> QED BY <2>1, <2>2
<1>15. ASSUME NEW c \in some, Live(c), Project(c, table) PROVE w.strength >= c.strength
  <2>1. c \in pool
    BY <1>3, <1>5, <1>7, <1>15
  <2> QED BY <1>8, <1>11, <2>1
<1> QED BY <1>1, <1>12, <1>13, <1>14, <1>15 DEF Chosen

-----------------------------------------------------------------------------
(* What a rebuild stores *)

AllWalked == UNION {Member!Walked(r, Member!Edges) : r \in Member!Features}

LEMMA AllWalkedSound ==
  ASSUME Related, Collected
  PROVE  /\ AllWalked \in SUBSET Cands /\ IsFiniteSet(AllWalked)
         /\ \A c \in AllWalked : /\ c.root \in Member!Features /\ c.issue \in Member!Near(c.root)
                                 /\ c.depth <= Cardinality(Issues)
         /\ \A r \in Member!Features : \A i \in Member!Near(r) : \E c \in AllWalked : c.issue = i /\ c.root = r
         /\ \A r \in Member!Features : r \in Member!Near(r) /\ Member!Near(r) \subseteq Issues
<1>1. Member!Features \subseteq Issues /\ IsFiniteSet(Member!Features) /\ IsFiniteSet(Issues)
  BY FS_Subset DEF Member!Features, Related
<1>2. \A r \in Member!Features : WalkSound(r, Member!Near(r), Member!Walked(r, Member!Edges), MaxDepth)
  BY <1>1, WalkedSound
<1>3. AllWalked \in SUBSET Cands
  BY <1>2 DEF AllWalked, WalkSound
<1>4. IsFiniteSet(AllWalked)
  <2> DEFINE walks == [r \in Member!Features |-> Member!Walked(r, Member!Edges)]
             all == {walks[r] : r \in Member!Features}
  <2>1. AllWalked = UNION all
    BY DEF AllWalked
  <2>2. \A s \in all : IsFiniteSet(s)
    BY <1>2 DEF WalkSound
  <2>3. IsFiniteSet(all)
    <3> HIDE DEF walks
    <3> QED BY <1>1, ValuesFinite
  <2> HIDE DEF all
  <2> QED BY <2>1, <2>2, <2>3, FS_UNION
<1>5. ASSUME NEW c \in AllWalked
      PROVE  c.root \in Member!Features /\ c.issue \in Member!Near(c.root) /\ c.depth <= Cardinality(Issues)
  <2>1. PICK r \in Member!Features : c \in Member!Walked(r, Member!Edges)
    BY DEF AllWalked
  <2>2. c.root = r /\ c.issue \in Member!Near(r) /\ c.depth < Cardinality(Member!Near(r)) /\ c.depth \in Nat
    BY <1>2, <2>1 DEF WalkSound, Member!IssuesOf, Cands
  <2>3. Member!Near(r) \in SUBSET Issues
    BY <1>2 DEF WalkSound
  <2>4. Cardinality(Member!Near(r)) <= Cardinality(Issues)
    BY <1>1, <2>3, FS_Subset
  <2>5. Cardinality(Member!Near(r)) \in Nat /\ Cardinality(Issues) \in Nat
    BY <1>1, <2>3, FS_Subset, FS_CardinalityType
  <2> QED BY <2>1, <2>2, <2>4, <2>5
<1>6. ASSUME NEW r \in Member!Features, NEW i \in Member!Near(r)
      PROVE  \E c \in AllWalked : c.issue = i /\ c.root = r
  <2>1. PICK c \in Member!Walked(r, Member!Edges) : c.issue = i
    BY <1>2 DEF WalkSound, Member!IssuesOf
  <2> QED BY <1>2, <2>1 DEF WalkSound, AllWalked
<1>7. \A r \in Member!Features : r \in Member!Near(r) /\ Member!Near(r) \subseteq Issues
  BY <1>2 DEF WalkSound
<1> QED BY <1>3, <1>4, <1>5, <1>6, <1>7

RowTyped(m) == m.issue \in Issues /\ m.root \in Pmgt /\ m.depth \in 0..Cardinality(Issues)

(* A stored row is what MembershipsAreRight asks of it. *)
Fits(m) ==
    /\ m.root \in Member!ReachedBy(m.issue) \cup {c.root : c \in Member!Direct(m.issue, Member!Features)}
    /\ m.issue \in Member!Features => m.root = m.issue
    /\ m.issue \notin Member!Features =>
         /\ m.root \in archived => Member!ReachedBy(m.issue) \subseteq archived
         /\ kind[m.root] = "idea" => \A r \in Member!ReachedBy(m.issue) \ archived : kind[r] = "idea"
         /\ \A c \in Member!Direct(m.issue, Member!Features) :
              c.root \notin archived /\ kind[c.root] = "project" => m.strength >= c.strength

LEMMA RootWins ==
  ASSUME Related, Collected, NEW i \in Member!Features, NEW w \in AllWalked, w.issue = i, w.root = i
  PROVE  RowTyped(w) /\ Fits(w)
<1>1. w.root \in Member!Features /\ w.issue \in Member!Near(w.root) /\ w.depth <= Cardinality(Issues) /\ w \in Cands
  BY AllWalkedSound
<1>2. Member!Features \subseteq Pmgt /\ Pmgt \subseteq Issues /\ Cardinality(Issues) \in Nat
  BY FS_CardinalityType DEF Member!Features, Related
<1>3. RowTyped(w)
  BY <1>1, <1>2 DEF RowTyped, Cands
<1>4. Fits(w)
  BY <1>1 DEF Fits, Member!ReachedBy
<1> QED BY <1>3, <1>4

LEMMA OtherWins ==
  ASSUME Related, Collected, RootsTyped, NEW i \in Issues, i \notin Member!Features,
         NEW pick \in SUBSET AllWalked, \A c \in pick : c.issue = i,
         \A r \in Member!ReachedBy(i) : \E c \in pick : c.root = r, pick # {},
         NEW w, w = Member!Resolve(pick \cup Member!Direct(i, Member!Features), Member!DetectRoots)
  PROVE  w.issue = i /\ RowTyped(w) /\ Fits(w)
<1> DEFINE direct == Member!Direct(i, Member!Features)
           table == Member!DetectRoots
           some == pick \cup direct
<1>1. Member!Features \in SUBSET Issues /\ Member!Features \subseteq Pmgt
  BY DEF Member!Features, Related
<1>2. \A c \in direct : c \in Cands /\ c.issue = i /\ c.root \in Member!Features /\ c.depth <= Cardinality(Issues)
  BY <1>1, DirectAre
<1>3. \A c \in pick : /\ c \in Cands /\ c.issue = i /\ c.root \in Member!Features /\ c.depth <= Cardinality(Issues)
                      /\ c.root \in Member!ReachedBy(i)
  BY AllWalkedSound DEF Member!ReachedBy
<1>4. some \in SUBSET Cands /\ some # {}
  BY <1>2, <1>3
<1>5. IsFiniteSet(some)
  <2>1. IsFiniteSet(pick)
    BY AllWalkedSound, FS_Subset
  <2>2. IsFiniteSet(direct)
    BY <1>1, DirectAre
  <2> HIDE DEF direct
  <2> QED BY <2>1, <2>2, FS_Union
<1>6. Chosen(w, some, table)
  <2> HIDE DEF direct
  <2>1. some \in SUBSET Cands /\ IsFiniteSet(some) /\ some # {} /\ w = Member!Resolve(some, table)
    BY <1>4, <1>5 DEF direct
  <2> HIDE DEF some, table
  <2> QED BY <2>1, ResolveSound
<1>7. w \in some
  BY <1>6 DEF Chosen
<1>8. w \in Cands /\ w.issue = i /\ w.root \in Member!Features /\ w.depth <= Cardinality(Issues)
  BY <1>2, <1>3, <1>7
<1>9. Cardinality(Issues) \in Nat
  BY FS_CardinalityType DEF Related
<1>10. RowTyped(w)
  BY <1>1, <1>8, <1>9 DEF RowTyped, Cands
<1>11. w.root \in Member!ReachedBy(i) \cup {c.root : c \in direct}
  BY <1>3, <1>7
<1>12. \A r \in Member!Features : table[r].kind = kind[r]
  BY RootsDetected
<1>13. \A c \in some : Project(c, table) <=> kind[c.root] = "project"
  BY <1>2, <1>3, <1>12 DEF Project
<1>14. \A r \in Member!ReachedBy(i) : \E c \in some : c.root = r
  OBVIOUS
<1>15. \A r \in Member!ReachedBy(i) : kind[r] \in {"project", "idea"}
  BY DEF Member!ReachedBy, Member!Features, Member!RootTypes
<1>16. direct \subseteq some
  OBVIOUS
<1> HIDE DEF some, table, direct
<1>17. w.root \in archived => Member!ReachedBy(i) \subseteq archived
  BY <1>6, <1>14 DEF Chosen, Live
<1>18. kind[w.root] = "idea" => \A r \in Member!ReachedBy(i) \ archived : kind[r] = "idea"
  <2>1. SUFFICES ASSUME kind[w.root] = "idea", NEW r \in Member!ReachedBy(i) \ archived, kind[r] = "project" PROVE FALSE
    BY <1>15
  <2>2. PICK c \in some : c.root = r
    BY <1>14
  <2>3. Project(w, table)
    BY <1>6, <1>13, <2>1, <2>2 DEF Chosen, Live
  <2> QED BY <1>7, <1>13, <2>1, <2>3
<1>19. \A c \in direct : c.root \notin archived /\ kind[c.root] = "project" => w.strength >= c.strength
  BY <1>6, <1>13, <1>16 DEF Chosen, Live
<1>20. Fits(w)
  BY <1>8, <1>11, <1>17, <1>18, <1>19 DEF Fits, direct
<1> QED BY <1>8, <1>10, <1>20

LEMMA CountedIsThere == ASSUME NEW S, Member!Cardinality(S) = 1 PROVE S # {}
  BY SameIssuesCount, FS_EmptySet

LEMMA WinnersFit ==
  ASSUME Related, Collected, RootsTyped, NEW i \in Member!IssuesOf(AllWalked),
         NEW w \in Member!Winners(i, Member!Of(i, AllWalked), Member!DetectRoots)
  PROVE  w.issue = i /\ RowTyped(w) /\ Fits(w)
<1> DEFINE found == Member!Of(i, AllWalked)
           table == Member!DetectRoots
           picks == {pick \in SUBSET found :
                       \A r \in {c.root : c \in found} : Member!Cardinality({c \in pick : c.root = r}) = 1}
<1>1. Member!ActiveRoots(table) = Member!Features
  BY RootsDetected
<1>2. \A c \in found : c \in AllWalked /\ c.issue = i
  BY DEF Member!Of
<1>3. PICK c0 \in found : TRUE
  BY DEF Member!IssuesOf, Member!Of
<1>4. i \in Issues
  BY <1>2, <1>3, AllWalkedSound DEF Cands
<1>5. CASE i \in Member!Features
  <2>1. w \in found /\ w.root = i
    BY <1>1, <1>5 DEF Member!Winners
  <2> QED BY <1>2, <1>5, <2>1, RootWins
<1>6. CASE i \notin Member!Features
  <2>1. PICK pick \in picks : w = Member!Resolve(pick \cup Member!Direct(i, Member!Features), table)
    BY <1>1, <1>6 DEF Member!Winners
  <2>2. ASSUME NEW r \in {c.root : c \in found} PROVE \E c \in pick : c.root = r
    <3>1. Member!Cardinality({c \in pick : c.root = r}) = 1
      BY <2>1, <2>2
    <3>2. {c \in pick : c.root = r} # {}
      <4> HIDE DEF picks
      <4> QED BY <3>1, CountedIsThere
    <3> QED BY <3>2
  <2>3. ASSUME NEW r \in Member!ReachedBy(i) PROVE \E c \in pick : c.root = r
    <3>1. PICK c \in AllWalked : c.issue = i /\ c.root = r
      BY AllWalkedSound DEF Member!ReachedBy
    <3>2. c \in found
      BY <3>1 DEF Member!Of
    <3> QED BY <2>2, <3>1, <3>2
  <2>4. pick # {}
    BY <1>3, <2>2
  <2>5. pick \in SUBSET AllWalked /\ \A c \in pick : c.issue = i
    BY <1>2, <2>1
  <2> QED BY <1>4, <1>6, <2>1, <2>3, <2>4, <2>5, OtherWins
<1> QED BY <1>5, <1>6

RowsFit(table) ==
    /\ \A m \in table : RowTyped(m) /\ Fits(m)
    /\ \A i \in Issues : Member!Cardinality(Member!Of(i, table)) = IF Member!ReachedBy(i) = {} THEN 0 ELSE 1

LEMMA RefreshFits ==
  ASSUME Related, Collected, RootsTyped, Member!Refresh
  PROVE  RowsFit(member')
<1> DEFINE Wins(i) == Member!Winners(i, Member!Of(i, AllWalked), Member!DetectRoots)
           winners == UNION {Wins(i) : i \in Member!IssuesOf(AllWalked)}
<1>1. UNION {Member!Walked(r, Member!Edges) : r \in Member!ActiveRoots(Member!DetectRoots)} = AllWalked
  BY RootsDetected DEF AllWalked
<1>2. /\ member' \in SUBSET winners
      /\ \A i \in Member!IssuesOf(AllWalked) : Member!Cardinality(Member!Of(i, member')) = 1
  BY <1>1 DEF Member!Refresh
<1>3. \A i \in Member!IssuesOf(AllWalked) : \A w \in Wins(i) : w.issue = i /\ RowTyped(w) /\ Fits(w)
  BY WinnersFit
<1> HIDE DEF Wins
<1>4. ASSUME NEW m \in member' PROVE m.issue \in Member!IssuesOf(AllWalked) /\ RowTyped(m) /\ Fits(m)
  BY <1>2, <1>3
<1>5. ASSUME NEW i \in Issues PROVE i \in Member!IssuesOf(AllWalked) <=> Member!ReachedBy(i) # {}
  BY AllWalkedSound DEF Member!IssuesOf, Member!ReachedBy
<1>6. ASSUME NEW i \in Issues
      PROVE  Member!Cardinality(Member!Of(i, member')) = IF Member!ReachedBy(i) = {} THEN 0 ELSE 1
  <2>1. CASE Member!ReachedBy(i) # {}
    BY <1>2, <1>5, <2>1
  <2>2. CASE Member!ReachedBy(i) = {}
    <3>1. Member!Of(i, member') = {}
      BY <1>4, <1>5, <2>2 DEF Member!Of
    <3> QED BY <2>2, <3>1, SameIssuesCount, FS_EmptySet
  <2> QED BY <2>1, <2>2
<1> QED BY <1>4, <1>6 DEF RowsFit

(* The inductive invariant: issues, links and roots have their types, and what a rebuild
   has stored fits until something changes. *)
MemberInv == Collected /\ RootsTyped /\ Member!TypeOK /\ Member!MembershipsAreRight

LEMMA SameCollection ==
  ASSUME UNCHANGED <<kind, archived, parent, links>>
  PROVE  /\ Member!Features' = Member!Features
         /\ \A i : Member!ReachedBy(i)' = Member!ReachedBy(i)
         /\ \A i : Member!Direct(i, Member!Features)' = Member!Direct(i, Member!Features)
<1>1. Member!Features' = Member!Features
  BY DEF Member!Features
<1>2. \A r : Member!Near(r)' = Member!Near(r)
  BY DEF Member!Near, Member!FoldLeft, Member!MapThenFoldSet, Member!Linked
<1>3. ASSUME NEW i, NEW roots PROVE Member!Above(i, roots)' = Member!Above(i, roots)
  BY DEF Member!Above
<1>4. \A i : Member!ReachedBy(i)' = Member!ReachedBy(i)
  BY <1>1, <1>2 DEF Member!ReachedBy
<1>5. ASSUME NEW i PROVE Member!Direct(i, Member!Features)' = Member!Direct(i, Member!Features)
  BY <1>1, <1>3 DEF Member!Direct
<1> QED BY <1>1, <1>4, <1>5

LEMMA MemberInit == ASSUME Related, Member!Init PROVE MemberInv
<1>1. Collected
  BY FS_EmptySet DEF Member!Init, Collected, LinksTyped, Related, Member!RootTypes
<1> QED BY <1>1 DEF Member!Init, MemberInv, RootsTyped, Member!TypeOK, Member!MembershipsAreRight

LEMMA RefreshStep == ASSUME Related, MemberInv, Member!Refresh PROVE MemberInv'
<1>1. UNCHANGED <<kind, archived, parent, links>> /\ root' = Member!DetectRoots
  BY DEF Member!Refresh
<1>2. Collected' /\ RootsTyped'
  BY <1>1, RootsDetected DEF MemberInv, Collected, LinksTyped, RootsTyped
<1>3. RowsFit(member')
  BY RefreshFits DEF MemberInv
<1>4. Member!TypeOK'
  BY <1>2, <1>3, SameIssuesCount DEF Member!TypeOK, RowsFit, RowTyped, RootsTyped
<1>5. Member!EveryReachedHasOne'
  BY <1>1, <1>3, SameCollection DEF Member!EveryReachedHasOne, RowsFit, Fits
<1>6. Member!LesserYield'
  BY <1>1, <1>3, SameCollection DEF Member!LesserYield, Member!Attached, RowsFit, Fits
<1>7. Member!OwnLinksHold'
  BY <1>1, <1>3, SameCollection DEF Member!OwnLinksHold, Member!Attached, RowsFit, Fits
<1> QED BY <1>2, <1>4, <1>5, <1>6, <1>7 DEF MemberInv, Member!MembershipsAreRight

LEMMA EditStep == ASSUME Related, MemberInv, Member!Retype \/ Member!Archive \/ Member!Link PROVE MemberInv'
<1>1. Member!Edit
  BY DEF Member!Retype, Member!Archive, Member!Link
<1>2. UNCHANGED <<root, member>> /\ fresh' = FALSE
  BY <1>1 DEF Member!Edit
<1>3. Collected'
  <2>1. CASE Member!Retype
    BY <2>1 DEF Member!Retype, MemberInv, Collected, LinksTyped
  <2>2. CASE Member!Archive
    BY <2>2 DEF Member!Archive, MemberInv, Collected, LinksTyped
  <2>3. CASE Member!Link
    <3>1. PICK i \in Issues, j \in Issues, s \in Sources :
            /\ parent' = IF s = "parent" THEN [parent EXCEPT ![i] = j] ELSE parent
            /\ links' = {l \in links : s # "parent" \/ l.from # i \/ l.source # "parent"}
                        \cup {[from |-> i, to |-> j,
                               source |-> IF s = "issue_link" /\ {i, j} \cap Pmgt # {} THEN "connected" ELSE s]}
      BY <2>3 DEF Member!Link
    <3>2. parent' \in [Issues -> Issues \cup {None}]
      BY <3>1 DEF MemberInv, Collected
    <3> DEFINE t == IF s = "issue_link" /\ {i, j} \cap Pmgt # {} THEN "connected" ELSE s
               kept == {l \in links : s # "parent" \/ l.from # i \/ l.source # "parent"}
    <3>3. t \in Member!Reversed \cup {"subtask"}
      BY DEF Related, Member!Reversed
    <3>4. kept \subseteq links /\ links' = kept \cup {[from |-> i, to |-> j, source |-> t]}
      BY <3>1
    <3> HIDE DEF t, kept
    <3>5. IsFiniteSet(kept) /\ IsFiniteSet({[from |-> i, to |-> j, source |-> t]})
      <4>1. IsFiniteSet(links)
        BY DEF MemberInv, Collected, LinksTyped
      <4> QED BY <3>4, <4>1, FS_Subset, FS_Singleton
    <3>6. IsFiniteSet(links')
      BY <3>4, <3>5, FS_Union
    <3>7. LinksTyped'
      BY <3>3, <3>4, <3>6 DEF LinksTyped, MemberInv, Collected
    <3>8. UNCHANGED <<kind, archived>>
      BY <2>3 DEF Member!Link
    <3> QED BY <3>2, <3>7, <3>8 DEF MemberInv, Collected
  <2> QED BY <2>1, <2>2, <2>3
<1> QED BY <1>2, <1>3 DEF MemberInv, RootsTyped, Member!TypeOK, Member!MembershipsAreRight

LEMMA MemberStep == ASSUME Related, MemberInv, [Member!Next]_Member!vars PROVE MemberInv'
<1>1. CASE Member!Refresh
  BY <1>1, RefreshStep
<1>2. CASE Member!Retype \/ Member!Archive \/ Member!Link
  BY <1>2, EditStep
<1>3. CASE UNCHANGED Member!vars
  <2>1. UNCHANGED <<kind, archived, parent, links, root, member, fresh>>
    BY <1>3 DEF Member!vars
  <2>2. Collected' /\ RootsTyped' /\ Member!TypeOK'
    BY <2>1 DEF MemberInv, Collected, LinksTyped, RootsTyped, Member!TypeOK
  <2>3. Member!MembershipsAreRight'
    BY <2>1, SameCollection DEF MemberInv, Member!MembershipsAreRight, Member!EveryReachedHasOne, Member!LesserYield,
                                Member!OwnLinksHold, Member!Attached, Member!Of
  <2> QED BY <2>2, <2>3 DEF MemberInv
<1> QED BY <1>1, <1>2, <1>3 DEF Member!Next

LEMMA MemberInvariant == ASSUME Related PROVE Member!Spec => []MemberInv
  BY MemberInit, MemberStep, PTL DEF Member!Spec

(* For all issues, links, types, orders of keys and depths of the walk, and however they
   change between rebuilds: stored table name issues and roots, no farther apart than
   there are issues. *)
THEOREM MembershipsTyped == ASSUME Related PROVE Member!Spec => []Member!TypeOK
<1>1. MemberInv => Member!TypeOK
  BY DEF MemberInv
<1> QED BY <1>1, MemberInvariant, PTL

(* For all of these: after a rebuild exactly the issues near a feature have one row, of a
   feature that reaches them or that they name; archived ones and ideas yield to live
   projects, and a link of their own to a live project is not beaten by a weaker path. *)
THEOREM MembershipsAreRight == ASSUME Related PROVE Member!Spec => []Member!MembershipsAreRight
<1>1. MemberInv => Member!MembershipsAreRight
  BY DEF MemberInv
<1> QED BY <1>1, MemberInvariant, PTL

-----------------------------------------------------------------------------
(* Days per status *)

CONSTANTS Priority, Columns, Statuses, Display, Closed, Declared, Rank
VARIABLES history, resolved, now

Times == INSTANCE StatusAnalysis

(* No day is the missing one. *)
Dated == LastDay \in Nat /\ None \notin 0..LastDay /\ IsFiniteSet(Issues)

Transition == [from : Statuses \cup {None}, to : Statuses, at : Times!Calendar]
(* An issue has at most one transition a day, and what is resolved has been moved. *)
InOrder(h) == \A m, n \in DOMAIN h : m < n => h[m].at < h[n].at
Before(h, day) == \A n \in DOMAIN h : h[n].at < day
Chronicle ==
    /\ history \in [Issues -> Seq(Transition)]
    /\ resolved \in [Issues -> Times!Calendar \cup {None}]
    /\ now \in Times!Calendar
    /\ \A i \in Issues : /\ InOrder(history[i]) /\ Before(history[i], now)
                         /\ resolved[i] # None => history[i] # <<>>

LEMMA DatesKnown ==
  ASSUME Dated, NEW h \in Seq(Transition)
  PROVE  /\ Len(h) \in Nat /\ DOMAIN h = 1..Len(h)
         /\ \A n \in DOMAIN h : h[n] \in Transition /\ h[n].at \in Nat
<1>1. /\ Len(h) \in Nat /\ DOMAIN h = 1..Len(h)
      /\ \A n \in DOMAIN h : h[n] \in Transition
  BY ElementOfSeq
<1>2. \A t \in Transition : t.at \in Nat
  BY DEF Transition, Times!Calendar, Dated
<1> QED BY <1>1, <1>2

(* A history that goes on with a transition of today *)
LEMMA HistoryGoesOn ==
  ASSUME Dated, NEW h \in Seq(Transition), NEW day \in Nat, InOrder(h), Before(h, day), NEW t \in Transition, t.at = day
  PROVE  /\ Append(h, t) \in Seq(Transition) /\ Append(h, t) # <<>>
         /\ InOrder(Append(h, t)) /\ Before(Append(h, t), day + 1)
<1> DEFINE g == Append(h, t)
<1>1. /\ g \in Seq(Transition) /\ Len(h) \in Nat /\ DOMAIN h = 1..Len(h) /\ DOMAIN g = 1..(Len(h) + 1)
      /\ \A n \in 1..Len(h) : g[n] = h[n]
      /\ g[Len(h) + 1] = t
  OBVIOUS
<1>2. \A n \in 1..Len(h) : h[n].at \in Nat
  BY DatesKnown
<1>3. g # <<>>
  BY AppendProperties
<1> HIDE DEF g
<1>4. InOrder(g)
  BY <1>1, <1>2 DEF InOrder, Before
<1>5. Before(g, day + 1)
  BY <1>1, <1>2 DEF Before
<1> QED BY <1>1, <1>3, <1>4, <1>5 DEF g

LEMMA ChronicleGoesOn ==
  ASSUME Dated, Chronicle, [Times!Next]_(Times!vars)
  PROVE  Chronicle'
<1>1. CASE UNCHANGED Times!vars
  BY <1>1 DEF Chronicle, Times!vars
<1>2. CASE Times!Next
  <2>1. now < LastDay /\ now' = now + 1 /\ now \in Nat /\ now' \in Times!Calendar
    BY <1>2 DEF Times!Next, Dated, Chronicle, Times!Calendar
  <2>2. ASSUME NEW i \in Issues PROVE Before(history[i], now')
    <3>1. history[i] \in Seq(Transition) /\ Before(history[i], now)
      BY DEF Chronicle
    <3>2. \A n \in DOMAIN history[i] : history[i][n].at \in Nat
      BY <3>1, DatesKnown
    <3> QED BY <2>1, <3>1, <3>2 DEF Before
  <2>3. CASE Times!Rest
    BY <2>1, <2>2, <2>3 DEF Times!Rest, Chronicle
  <2>4. ASSUME NEW i \in Issues, NEW s \in Statuses, Times!Move(i, s) PROVE Chronicle'
    <3> DEFINE t == [from |-> Times!Status(i), to |-> s, at |-> now]
    <3>1. history' = [history EXCEPT ![i] = Append(history[i], t)]
      BY <2>4 DEF Times!Move, Chronicle
    <3>2. t \in Transition /\ t.at = now
      <4>1. Times!Status(i) \in Statuses \cup {None}
        <5>1. CASE history[i] = <<>>
          BY <5>1 DEF Times!Status
        <5>2. CASE history[i] # <<>>
          <6>1. /\ history[i] \in Seq(Transition) /\ Len(history[i]) \in DOMAIN history[i]
            BY <5>2 DEF Chronicle
          <6>2. Times!Last(history[i]) \in Transition
            BY <6>1 DEF Times!Last
          <6> QED BY <5>2, <6>2 DEF Times!Status, Transition
        <5> QED BY <5>1, <5>2
      <4> QED BY <4>1 DEF Transition, Chronicle
    <3> HIDE DEF t
    <3> DEFINE g == Append(history[i], t)
    <3>3. /\ g \in Seq(Transition) /\ g # <<>> /\ InOrder(g) /\ Before(g, now')
      BY <2>1, <3>2, HistoryGoesOn DEF Chronicle
    <3> HIDE DEF g
    <3>4. history' \in [Issues -> Seq(Transition)] /\ \A k \in Issues : history'[k] = IF k = i THEN g ELSE history[k]
      BY <3>1, <3>3 DEF Chronicle, g
    <3>5. resolved' \in [Issues -> Times!Calendar \cup {None}] /\ \A k \in Issues \ {i} : resolved'[k] = resolved[k]
      BY <2>4 DEF Times!Move, Chronicle
    <3>6. ASSUME NEW k \in Issues
          PROVE  /\ InOrder(history'[k]) /\ Before(history'[k], now')
                 /\ resolved'[k] # None => history'[k] # <<>>
      BY <2>2, <3>3, <3>4, <3>5, Zenon DEF Chronicle
    <3> QED BY <2>1, <3>4, <3>5, <3>6 DEF Chronicle
  <2> QED BY <1>2, <2>3, <2>4 DEF Times!Next
<1> QED BY <1>1, <1>2

(* Transitions are recorded in the order of time, whoever moves which issue when. *)
THEOREM HistoriesTyped == ASSUME Dated PROVE Times!Spec => []Times!TypeOK
<1>1. Times!Init => Chronicle
  BY DEF Times!Init, Chronicle, Dated, Times!Calendar, InOrder, Before
<1>2. Chronicle /\ [Times!Next]_(Times!vars) => Chronicle'
  BY ChronicleGoesOn
<1>3. Chronicle => Times!TypeOK
  BY DEF Chronicle, Times!TypeOK, Transition
<1> QED BY <1>1, <1>2, <1>3, PTL DEF Times!Spec

-----------------------------------------------------------------------------
(* Intervals and their days in a range *)

Final(i) == IF resolved[i] # None THEN resolved[i] ELSE now

(* n is followed by m in a set of places, or it is the last *)
Follows(places, n, m) == m \in places /\ n < m /\ \A k \in places : n < k => m =< k
LastOf(places, n) == \A k \in places : k =< n

LEMMA LeastLater ==
  ASSUME NEW places \in SUBSET Nat, NEW n \in Nat
  PROVE  LET later == {m \in places : m > n}
         IN  IF later # {} THEN Follows(places, n, Times!Min(later)) ELSE LastOf(places, n)
<1> DEFINE later == {m \in places : m > n}
<1>1. CASE later # {}
  <2>1. \E z \in later : \A y \in later : z =< y
    <3> later \in SUBSET Nat
      OBVIOUS
    <3> HIDE DEF later
    <3> QED BY <1>1, LeastExists
  <2>2. Times!Min(later) \in later /\ \A y \in later : Times!Min(later) =< y
    <3> HIDE DEF later
    <3> QED BY <2>1 DEF Times!Min
  <2> QED BY <1>1, <2>2 DEF Follows
<1>2. CASE later = {}
  BY <1>2 DEF LastOf
<1> QED BY <1>1, <1>2

LEMMA IntervalsKnown ==
  ASSUME Dated, Chronicle, NEW i \in Issues, NEW r
  PROVE  LET places == Times!Loaded(i, r)
             all == Times!Intervals(i, r)
         IN  /\ DOMAIN all = places /\ places \subseteq DOMAIN history[i] /\ places \subseteq Nat
             /\ \A n \in places :
                  /\ all[n].status = history[i][n].to /\ all[n].start = history[i][n].at
                  /\ \/ \E m \in places : Follows(places, n, m) /\ all[n].end = history[i][m].at
                     \/ LastOf(places, n) /\ all[n].end = Final(i)
                  /\ all[n].start \in Nat /\ all[n].end \in Nat
<1> DEFINE places == Times!Loaded(i, r)
           all == Times!Intervals(i, r)
           h == history[i]
           Later(n) == {m \in places : m > n}
           End(n) == IF Later(n) # {} THEN h[Times!Min(Later(n))].at ELSE Final(i)
<1>1. places \subseteq DOMAIN h
  BY DEF Times!Loaded
<1>2. DOMAIN h \subseteq Nat /\ \A n \in DOMAIN h : h[n].at \in Nat
  BY DatesKnown DEF Chronicle
<1>3. Final(i) \in Nat
  BY DEF Final, Chronicle, Times!Calendar, Dated
<1>4. all = [n \in places |-> [status |-> h[n].to, start |-> h[n].at, end |-> End(n)]]
  BY DEF Times!Intervals, Final
<1>5. ASSUME NEW n \in places
      PROVE  \/ \E m \in places : Follows(places, n, m) /\ End(n) = h[m].at /\ End(n) \in Nat
             \/ LastOf(places, n) /\ End(n) = Final(i)
  <2>1. IF Later(n) # {} THEN Follows(places, n, Times!Min(Later(n))) ELSE LastOf(places, n)
    <3>1. places \in SUBSET Nat /\ n \in Nat
      BY <1>1, <1>2
    <3> HIDE DEF places
    <3> QED BY <3>1, LeastLater
  <2> HIDE DEF places
  <2>2. CASE Later(n) # {}
    <3>1. Follows(places, n, Times!Min(Later(n))) /\ End(n) = h[Times!Min(Later(n))].at
      BY <2>1, <2>2
    <3>2. Times!Min(Later(n)) \in places
      BY <3>1 DEF Follows
    <3> QED BY <3>1, <3>2, <1>1, <1>2
  <2>3. CASE Later(n) = {}
    BY <2>1, <2>3
  <2> QED BY <2>2, <2>3
<1> HIDE DEF End, places, all
<1>6. DOMAIN all = places /\ \A n \in places : all[n].status = h[n].to /\ all[n].start = h[n].at /\ all[n].end = End(n)
  BY <1>4
<1>7. ASSUME NEW n \in places
      PROVE  /\ all[n].status = h[n].to /\ all[n].start = h[n].at
             /\ \/ \E m \in places : Follows(places, n, m) /\ all[n].end = h[m].at
                \/ LastOf(places, n) /\ all[n].end = Final(i)
             /\ all[n].start \in Nat /\ all[n].end \in Nat
  BY <1>1, <1>2, <1>3, <1>5, <1>6
<1> QED BY <1>1, <1>2, <1>6, <1>7 DEF places, all

(* The days from start to end that are in a range *)
Within(start, end, from, to) ==
  LET first == IF start >= from THEN start ELSE from
      last == IF end =< to + 1 THEN end ELSE to + 1
  IN  IF last >= first THEN last - first ELSE 0

LEMMA ClipKnown ==
  ASSUME NEW v, v.start \in Int, v.end \in Int, NEW r, r.from \in Int, r.to \in Int, None \notin {r.from, r.to}
  PROVE  Times!Clip(v, r) = Within(v.start, v.end, r.from, r.to)
<1> DEFINE start == IF v.start >= r.from THEN v.start ELSE r.from
           end == IF v.end =< r.to + 1 THEN v.end ELSE r.to + 1
<1>1. \A a, b \in Int : Times!Max({a, b}) = IF a >= b THEN a ELSE b
  BY DEF Times!Max
<1>2. \A a, b \in Int : Times!Min({a, b}) = IF a =< b THEN a ELSE b
  BY DEF Times!Min
<1>3. Times!Max({v.start, r.from}) = start /\ Times!Min({v.end, r.to + 1}) = end
  BY <1>1, <1>2
<1>4. start \in Int /\ end \in Int
  OBVIOUS
<1> HIDE DEF start, end
<1>5. Times!Clip(v, r) = Times!Max({0, end - start})
  BY <1>3 DEF Times!Clip
<1> QED BY <1>1, <1>4, <1>5 DEF start, end, Within

Whole(i) == Times!Intervals(i, Times!Ever)

(* The whole history: an interval lasts until the transition at the next place. *)
LEMMA WholeKnown ==
  ASSUME Dated, Chronicle, NEW i \in Issues
  PROVE  LET h == history[i]
         IN  /\ Len(h) \in Nat /\ DOMAIN Whole(i) = 1..Len(h) /\ DOMAIN h = 1..Len(h)
             /\ \A n \in 1..Len(h) :
                  /\ Whole(i)[n].status = h[n].to /\ Whole(i)[n].start = h[n].at
                  /\ h[n].at \in Nat /\ Whole(i)[n].end \in Nat
                  /\ n < Len(h) => Whole(i)[n].end = h[n + 1].at
                  /\ n = Len(h) => Whole(i)[n].end = Final(i)
<1> DEFINE h == history[i]
           places == Times!Loaded(i, Times!Ever)
           all == Whole(i)
<1>1. Len(h) \in Nat /\ DOMAIN h = 1..Len(h) /\ \A n \in DOMAIN h : h[n].at \in Nat
  BY DatesKnown DEF Chronicle
<1>2. places = 1..Len(h)
  BY <1>1 DEF Times!Loaded, Times!InScope, Times!Ever
<1>3. /\ DOMAIN all = places
      /\ \A n \in places :
           /\ all[n].status = h[n].to /\ all[n].start = h[n].at
           /\ \/ \E m \in places : Follows(places, n, m) /\ all[n].end = h[m].at
              \/ LastOf(places, n) /\ all[n].end = Final(i)
           /\ all[n].end \in Nat
  BY IntervalsKnown DEF Whole
<1> HIDE DEF places, all
<1>4. ASSUME NEW n \in 1..Len(h), n < Len(h)
      PROVE  all[n].end = h[n + 1].at
  <2>1. n \in Int /\ n + 1 \in places /\ \A k \in places : k \in Int
    BY <1>1, <1>2, <1>4
  <2>2. ~LastOf(places, n)
    BY <2>1 DEF LastOf
  <2>3. ASSUME NEW m \in places, Follows(places, n, m) PROVE m = n + 1
    BY <2>1, <2>3 DEF Follows
  <2> QED BY <1>2, <1>3, <2>2, <2>3
<1>5. ASSUME NEW n \in 1..Len(h), n = Len(h)
      PROVE  all[n].end = Final(i)
  <2>1. \A m \in places : ~Follows(places, n, m)
    BY <1>1, <1>2, <1>5 DEF Follows
  <2> QED BY <1>2, <1>3, <2>1
<1> QED BY <1>1, <1>2, <1>3, <1>4, <1>5 DEF all

(* An issue that rests since its resolution *)
LEMMA SettledLasts ==
  ASSUME Dated, Chronicle, NEW i \in Issues, Times!Settled(i)
  PROVE  /\ Final(i) \in Nat
         /\ \A n \in 1..Len(history[i]) : history[i][n].at =< Final(i)
         /\ resolved[i] = None => \A n \in 1..Len(history[i]) : history[i][n].at < Final(i)
         /\ resolved[i] # None => resolved[i] \in Nat /\ Final(i) = resolved[i]
<1> DEFINE h == history[i]
<1>1. h \in Seq(Transition) /\ InOrder(h) /\ Before(h, now) /\ (resolved[i] # None => h # <<>>)
  BY DEF Chronicle
<1>2. Len(h) \in Nat /\ DOMAIN h = 1..Len(h) /\ \A n \in DOMAIN h : h[n].at \in Nat
  BY <1>1, DatesKnown
<1>3. now \in Nat /\ (resolved[i] # None => resolved[i] \in Nat)
  BY DEF Chronicle, Times!Calendar, Dated
<1>4. CASE resolved[i] = None
  BY <1>1, <1>2, <1>3, <1>4 DEF Final, Before
<1>5. CASE resolved[i] # None
  <2>1. Len(h) \in DOMAIN h
    BY <1>1, <1>2, <1>5
  <2>2. h[Len(h)].at = resolved[i]
    BY <1>5 DEF Times!Settled, Times!Last
  <2>3. \A n \in 1..Len(h) : h[n].at =< h[Len(h)].at
    BY <1>1, <1>2, <2>1 DEF InOrder
  <2> QED BY <1>3, <1>5, <2>2, <2>3 DEF Final
<1> QED BY <1>4, <1>5

RangeKnown(r) == r.from \in Nat /\ r.to \in Nat /\ r.from =< r.to /\ None \notin {r.from, r.to}
LEMMA RangesKnown ==
  ASSUME Dated, NEW r \in Times!Ranges
  PROVE  RangeKnown(r)
  BY DEF RangeKnown, Times!Ranges, Times!Calendar, Dated

(* The days in a range of the interval at a place, none if it is not loaded *)
Part(i, r, n) == IF n \in Times!Loaded(i, r) THEN Times!Clip(Times!Intervals(i, r)[n], r) ELSE 0
Ending(b, final, to) == IF b =< to THEN b ELSE final
Share(a, b, final, from, to) == IF a >= from \/ final >= from THEN Within(a, Ending(b, final, to), from, to) ELSE 0

(* The interval ends at the next transition if that is one before the end of the range,
   otherwise where the last one would. *)
LEMMA PartKnown ==
  ASSUME Dated, Chronicle, NEW i \in Issues, NEW r, RangeKnown(r), NEW n \in 1..Len(history[i])
  PROVE  LET a == history[i][n].at
             b == Whole(i)[n].end
         IN  /\ a \in Nat /\ b \in Nat /\ Final(i) \in Nat
             /\ Part(i, r, n) = Share(a, b, Final(i), r.from, r.to)
             /\ Times!Clip(Whole(i)[n], r) = Within(a, b, r.from, r.to)
             /\ n \in Times!Loaded(i, r) => Times!Intervals(i, r)[n].status = Whole(i)[n].status
<1> DEFINE h == history[i]
           places == Times!Loaded(i, r)
           some == Times!Intervals(i, r)
           all == Whole(i)
           a == h[n].at
           b == all[n].end
           F == Final(i)
<1>1. Len(h) \in Nat /\ DOMAIN h = 1..Len(h) /\ \A m \in DOMAIN h : h[m].at \in Nat
  BY DatesKnown DEF Chronicle
<1>2. /\ DOMAIN all = 1..Len(h)
      /\ \A m \in 1..Len(h) :
           /\ all[m].status = h[m].to /\ all[m].start = h[m].at /\ all[m].end \in Nat
           /\ m < Len(h) => all[m].end = h[m + 1].at
           /\ m = Len(h) => all[m].end = F
  BY WholeKnown
<1>3. /\ places \subseteq DOMAIN h
      /\ \A m \in places :
           /\ some[m].status = h[m].to /\ some[m].start = h[m].at
           /\ \/ \E k \in places : Follows(places, m, k) /\ some[m].end = h[k].at
              \/ LastOf(places, m) /\ some[m].end = F
           /\ some[m].end \in Nat
  BY IntervalsKnown
<1>4. places = {m \in DOMAIN h : h[m].at =< r.to /\ (h[m].at >= r.from \/ resolved[i] = None \/ resolved[i] >= r.from)}
  BY DEF Times!Loaded, Times!InScope, RangeKnown
<1>5. InOrder(h) /\ Before(h, now) /\ now \in Nat /\ (resolved[i] # None => resolved[i] \in Nat)
  BY DEF Chronicle, Times!Calendar, Dated
<1>6. /\ F \in Nat /\ (resolved[i] # None => F = resolved[i])
      /\ resolved[i] = None => \A m \in DOMAIN h : h[m].at < F
  BY <1>1, <1>5 DEF Final, Before
<1>7. n \in DOMAIN h /\ a \in Nat /\ b \in Nat /\ all[n].start = a
  BY <1>1, <1>2
<1>8. Times!Clip(all[n], r) = Within(a, b, r.from, r.to)
  <2> HIDE DEF all, h
  <2>1. Times!Clip(all[n], r) = Within(all[n].start, all[n].end, r.from, r.to)
    BY <1>7, ClipKnown DEF RangeKnown
  <2> QED BY <1>7, <2>1
<1> HIDE DEF places, some, all, F
<1>9. ASSUME n \in places PROVE some[n].end = Ending(b, F, r.to) \/ (some[n].end > r.to /\ Ending(b, F, r.to) > r.to)
  <2>1. \A m \in DOMAIN h : n =< m => (m \in places <=> h[m].at =< r.to)
    <3>1. ASSUME NEW m \in DOMAIN h, n =< m PROVE h[n].at =< h[m].at
      BY <1>1, <1>5, <1>7, <3>1 DEF InOrder
    <3> HIDE DEF h
    <3> QED BY <1>1, <1>4, <1>5, <1>7, <1>9, <3>1 DEF RangeKnown
  <2>2. CASE n = Len(h)
    <3>1. some[n].end = F
      BY <1>1, <1>3, <1>9, <2>2 DEF Follows
    <3>2. b = F
      BY <1>2, <2>2
    <3> QED BY <3>1, <3>2 DEF Ending
  <2>3. CASE n < Len(h) /\ n + 1 \in places
    <3>1. ~LastOf(places, n) /\ \A m \in places : Follows(places, n, m) => m = n + 1
      BY <1>1, <1>3, <2>3 DEF LastOf, Follows
    <3>2. some[n].end = h[n + 1].at /\ b = h[n + 1].at
      BY <1>2, <1>3, <1>9, <2>3, <3>1
    <3>3. h[n + 1].at =< r.to
      BY <1>3, <1>4, <2>3
    <3> QED BY <3>2, <3>3 DEF Ending
  <2>4. CASE n < Len(h) /\ n + 1 \notin places
    <3>1. n + 1 \in DOMAIN h /\ b = h[n + 1].at /\ b > r.to
      BY <1>1, <1>2, <1>7, <2>1, <2>4 DEF RangeKnown
    <3>2. ASSUME NEW m \in places PROVE ~Follows(places, n, m)
      <4>1. SUFFICES ASSUME n < m PROVE FALSE
        BY DEF Follows
      <4>2. m \in DOMAIN h /\ h[m].at =< r.to
        BY <1>3, <1>4
      <4>3. m > n + 1
        BY <1>1, <1>7, <2>4, <4>1, <4>2
      <4>4. h[n + 1].at < h[m].at
        BY <1>5, <3>1, <4>2, <4>3 DEF InOrder
      <4> QED BY <1>1, <1>7, <3>1, <4>2, <4>4 DEF RangeKnown
    <3>3. some[n].end = F
      BY <1>3, <1>9, <3>2
    <3> QED BY <1>7, <3>1, <3>3 DEF Ending, RangeKnown
  <2> QED BY <1>1, <1>7, <2>2, <2>3, <2>4
<1>10. ASSUME n \in places
       PROVE  Part(i, r, n) = Within(a, Ending(b, F, r.to), r.from, r.to) /\ some[n].status = all[n].status
  <2>1. some[n].start = a /\ some[n].end \in Nat /\ some[n].status = all[n].status
    BY <1>2, <1>3, <1>10
  <2> HIDE DEF a, b
  <2>2. Times!Clip(some[n], r) = Within(some[n].start, some[n].end, r.from, r.to)
    BY <1>7, <2>1, ClipKnown DEF RangeKnown
  <2>3. Within(a, some[n].end, r.from, r.to) = Within(a, Ending(b, F, r.to), r.from, r.to)
    <3>1. Ending(b, F, r.to) \in Nat
      BY <1>6, <1>7 DEF Ending
    <3>2. \A x, y \in Nat : x = y \/ (x > r.to /\ y > r.to) => Within(a, x, r.from, r.to) = Within(a, y, r.from, r.to)
      BY <1>7 DEF Within, RangeKnown
    <3> QED BY <1>9, <1>10, <2>1, <3>1, <3>2
  <2>4. Part(i, r, n) = Times!Clip(some[n], r)
    BY <1>10 DEF Part, places, some
  <2> QED BY <2>1, <2>2, <2>3, <2>4
<1>11. n \in places => a >= r.from \/ F >= r.from \/ Within(a, Ending(b, F, r.to), r.from, r.to) = 0
  <2>1. SUFFICES ASSUME n \in places, ~(a >= r.from), ~(F >= r.from) PROVE Within(a, Ending(b, F, r.to), r.from, r.to) = 0
    OBVIOUS
  <2>2. resolved[i] = None
    BY <1>4, <1>6, <2>1
  <2>3. \A m \in DOMAIN h : h[m].at < F
    BY <1>6, <2>2
  <2>4. b =< F
    <3>1. CASE n = Len(h)
      BY <1>2, <1>6, <3>1
    <3>2. CASE n < Len(h)
      <4>1. n + 1 \in DOMAIN h /\ b = h[n + 1].at
        BY <1>1, <1>2, <3>2
      <4> QED BY <1>1, <1>6, <2>3, <4>1
    <3> QED BY <1>1, <1>7, <3>1, <3>2
  <2> HIDE DEF a, b
  <2> QED BY <1>6, <1>7, <2>1, <2>4 DEF Within, Ending, RangeKnown
<1>12. n \notin places => Part(i, r, n) = 0 /\ (a >= r.from \/ F >= r.from => a > r.to)
  <2>1. n \notin places => Part(i, r, n) = 0
    BY DEF Part, places
  <2>2. ASSUME n \notin places, a >= r.from \/ F >= r.from PROVE a > r.to
    <3>1. ~(a =< r.to) \/ (~(a >= r.from) /\ resolved[i] # None /\ ~(resolved[i] >= r.from))
      BY <1>4, <1>7, <2>2
    <3> QED BY <1>5, <1>6, <1>7, <2>2, <3>1 DEF RangeKnown
  <2> QED BY <2>1, <2>2
<1>13. a > r.to => Within(a, Ending(b, F, r.to), r.from, r.to) = 0
  <2> HIDE DEF a, b
  <2> QED BY <1>6, <1>7 DEF Within, Ending, RangeKnown
<1> HIDE DEF a, b
<1>14. Part(i, r, n) = Share(a, b, F, r.from, r.to)
  <2>1. CASE n \in places
    BY <1>10, <1>11, <2>1, Zenon DEF Share
  <2>2. CASE n \notin places
    BY <1>12, <1>13, <2>2, Zenon DEF Share
  <2> QED BY <2>1, <2>2
<1> QED BY <1>6, <1>7, <1>8, <1>10, <1>14 DEF a, b, F, all, some, places

(* Whether an interval ends by the end of the range or beyond *)
ShareFits(a, b, F, f, t) ==
  /\ Share(a, b, F, f, t) \in Nat /\ Within(a, b, f, t) \in Nat
  /\ Share(a, b, F, f, t) =< Within(a, b, f, t)
  /\ (a =< F /\ b =< F) \/ t < F => Share(a, b, F, f, t) = Within(a, b, f, t)
ShareSplits(a, b, F, f, d, t) ==
  /\ Share(a, b, F, f, t) \in Nat /\ Share(a, b, F, f, d) \in Nat /\ Share(a, b, F, d + 1, t) \in Nat
  /\ Share(a, b, F, f, d) + Share(a, b, F, d + 1, t) =< Share(a, b, F, f, t)
  /\ (a =< F /\ b =< F) \/ t < F => Share(a, b, F, f, d) + Share(a, b, F, d + 1, t) = Share(a, b, F, f, t)

LEMMA Shares ==
  ASSUME NEW a \in Nat, NEW b \in Nat, NEW F \in Nat, NEW f \in Nat, NEW t \in Nat, f =< t
  PROVE  ShareFits(a, b, F, f, t)
  BY DEF Within, Ending, Share, ShareFits

LEMMA SharesSplit ==
  ASSUME NEW a \in Nat, NEW b \in Nat, NEW F \in Nat, NEW f \in Nat, NEW t \in Nat, NEW d \in Nat, f =< d, d < t
  PROVE  ShareSplits(a, b, F, f, d, t)
<1> DEFINE e == Ending(b, F, t)
           c == Ending(b, F, d)
<1>1. e \in Nat /\ c \in Nat
  BY DEF Ending
<1>2. c = e \/ e > d
  BY DEF Ending
<1>3. t < F \/ b =< F => c = e \/ c > d
  BY DEF Ending
<1>8. a =< F /\ b =< F /\ ~(a >= d + 1 \/ F >= d + 1) => Within(a, e, d + 1, t) = 0
  BY <1>1 DEF Within, Ending
<1>9. /\ Share(a, b, F, f, t) = IF a >= f \/ F >= f THEN Within(a, e, f, t) ELSE 0
      /\ Share(a, b, F, f, d) = IF a >= f \/ F >= f THEN Within(a, c, f, d) ELSE 0
      /\ Share(a, b, F, d + 1, t) = IF a >= d + 1 \/ F >= d + 1 THEN Within(a, e, d + 1, t) ELSE 0
  BY DEF Share
<1> HIDE DEF e, c
<1>4. Within(a, e, f, t) = Within(a, e, f, d) + Within(a, e, d + 1, t)
  BY <1>1 DEF Within
<1>5. Within(a, e, f, t) \in Nat /\ Within(a, e, d + 1, t) \in Nat /\ Within(a, c, f, d) \in Nat /\ Within(a, e, f, d) \in Nat
  BY <1>1 DEF Within
<1>6. Within(a, c, f, d) =< Within(a, e, f, d)
  BY <1>1, <1>2 DEF Within
<1>7. c = e \/ (c > d /\ e > d) => Within(a, c, f, d) = Within(a, e, f, d)
  BY <1>1 DEF Within
<1> QED BY <1>1, <1>2, <1>3, <1>4, <1>5, <1>6, <1>7, <1>8, <1>9 DEF ShareSplits

(* A range that is complete sees all intervals as they are. *)
LEMMA CompleteKnown ==
  ASSUME Dated, Chronicle, NEW i \in Issues, NEW r, RangeKnown(r), Times!Complete(i, r), NEW n \in 1..Len(history[i])
  PROVE  (history[i][n].at =< Final(i) /\ Whole(i)[n].end =< Final(i)) \/ r.to < Final(i)
<1>1. /\ Len(history[i]) \in Nat /\ history[i][n].at \in Nat
      /\ n < Len(history[i]) => Whole(i)[n].end = history[i][n + 1].at
      /\ n = Len(history[i]) => Whole(i)[n].end = Final(i)
  BY WholeKnown
<1>2. CASE Times!Settled(i)
  <2>1. Final(i) \in Nat /\ \A m \in 1..Len(history[i]) : history[i][m].at =< Final(i)
    BY <1>2, SettledLasts
  <2>2. n < Len(history[i]) => n + 1 \in 1..Len(history[i])
    BY <1>1
  <2> QED BY <1>1, <2>1, <2>2
<1>3. CASE ~Times!Settled(i)
  <2>1. resolved[i] # None /\ r.to < resolved[i]
    BY <1>3 DEF Times!Complete, Times!Settled
  <2> QED BY <2>1 DEF Final
<1> QED BY <1>2, <1>3

LEMMA PartsLess ==
  ASSUME Dated, Chronicle, NEW i \in Issues, NEW r, RangeKnown(r), NEW n \in 1..Len(history[i])
  PROVE  /\ Part(i, r, n) \in Nat /\ Times!Clip(Whole(i)[n], r) \in Nat
         /\ Part(i, r, n) =< Times!Clip(Whole(i)[n], r)
         /\ Times!Complete(i, r) => Part(i, r, n) = Times!Clip(Whole(i)[n], r)
<1> DEFINE a == history[i][n].at
           b == Whole(i)[n].end
           F == Final(i)
<1>1. /\ a \in Nat /\ b \in Nat /\ F \in Nat
      /\ Part(i, r, n) = Share(a, b, F, r.from, r.to)
      /\ Times!Clip(Whole(i)[n], r) = Within(a, b, r.from, r.to)
  BY PartKnown
<1>2. Times!Complete(i, r) => (a =< F /\ b =< F) \/ r.to < F
  BY CompleteKnown
<1> HIDE DEF a, b, F
<1>3. r.from \in Nat /\ r.to \in Nat /\ r.from =< r.to
  BY DEF RangeKnown
<1>4. ShareFits(a, b, F, r.from, r.to)
  BY <1>1, <1>3, Shares
<1> QED BY <1>1, <1>2, <1>4 DEF ShareFits

LEMMA DaysSum ==
  ASSUME NEW f
  PROVE  Times!SumFunction(f) = SumFunctionOnSet(f, DOMAIN f)
  BY DEF Times!SumFunction, Times!SumFunctionOnSet, Times!FoldFunctionOnSet, Times!MapThenFoldSet,
         SumFunctionOnSet, FoldFunctionOnSet, MapThenFoldSet

LEMMA DaysSummed ==
  ASSUME NEW points, IsFiniteSet(points), NEW f, \A q \in points : f[q] = q.days
  PROVE  Times!Days(points) = SumFunctionOnSet(f, points)
<1> DEFINE g == [q \in points |-> q.days]
<1>1. Times!Days(points) = SumFunctionOnSet(g, DOMAIN g)
  BY DaysSum DEF Times!Days
<1>2. DOMAIN g = points /\ \A q \in points : g[q] = f[q]
  OBVIOUS
<1> HIDE DEF g
<1>3. SumFunctionOnSet(g, points) = SumFunctionOnSet(f, points)
  BY <1>2, SumSame
<1> QED BY <1>1, <1>2, <1>3

CutOf(i, all, r, n) == [issue |-> i, place |-> n, status |-> Display[all[n].status], days |-> Times!Clip(all[n], r)]
CutsAt(i, all, r, K) == {CutOf(i, all, r, n) : n \in K}

Measures(v, all, r, K) == IsFiniteSet(K) /\ \A n \in K : v[n] = Times!Clip(all[n], r) /\ v[n] \in Int

(* Points have places, so that no two days of an issue are one in the sum. *)
LEMMA CutsSummed ==
  ASSUME NEW i, NEW all, NEW r, NEW K, NEW v, Measures(v, all, r, K)
  PROVE  /\ IsFiniteSet(CutsAt(i, all, r, K))
         /\ Times!Days(CutsAt(i, all, r, K)) = SumFunctionOnSet(v, K)
<1> DEFINE c == [n \in K |-> CutOf(i, all, r, n)]
           points == CutsAt(i, all, r, K)
           f == [q \in points |-> q.days]
<1> USE DEF Measures
<1>1. points = {c[n] : n \in K}
  BY DEF CutsAt
<1>2. \A n \in K : c[n].place = n /\ c[n].days = v[n] /\ c[n] \in points
  BY DEF CutOf, CutsAt
<1>3. \A n \in K : f[c[n]] = c[n].days
  BY <1>2
<1>4. \A q \in points : f[q] = q.days
  OBVIOUS
<1> HIDE DEF c, points, f
<1>5. IsFiniteSet(points)
  BY <1>1, ValuesFinite
<1>6. Times!Days(points) = SumFunctionOnSet(f, points)
  BY <1>4, <1>5, DaysSummed
<1>7. \A k, l \in K : c[k] = c[l] => k = l
  BY <1>2
<1>8. \A k \in K : v[k] = f[c[k]] /\ v[k] \in Int
  BY <1>2, <1>3
<1>9. SumFunctionOnSet(f, {c[k] : k \in K}) = SumFunctionOnSet(v, K)
  BY <1>7, <1>8, SumImage
<1> QED BY <1>1, <1>5, <1>6, <1>9 DEF points

LEMMA CutsFound ==
  ASSUME NEW i, NEW all, NEW r
  PROVE  /\ Times!Cut(i, all, r) = CutsAt(i, all, r, DOMAIN all)
         /\ \A s : Times!In(s, Times!Cut(i, all, r)) = CutsAt(i, all, r, {n \in DOMAIN all : Display[all[n].status] = s})
<1>1. Times!Cut(i, all, r) = CutsAt(i, all, r, DOMAIN all)
  BY DEF Times!Cut, CutsAt, CutOf
<1>2. ASSUME NEW s
      PROVE  Times!In(s, Times!Cut(i, all, r)) = CutsAt(i, all, r, {n \in DOMAIN all : Display[all[n].status] = s})
  <2>1. \A n \in DOMAIN all : CutOf(i, all, r, n).status = Display[all[n].status]
    BY DEF CutOf
  <2> QED BY <1>1, <2>1 DEF Times!In, CutsAt
<1> QED BY <1>1, <1>2

(* The days of an issue in a range, for all names or for one *)
Named(i, s) == {n \in DOMAIN Whole(i) : Display[Whole(i)[n].status] = s}

LEMMA PartsSummed ==
  ASSUME Dated, Chronicle, NEW i \in Issues, NEW r, RangeKnown(r),
         NEW v, \A n \in 1..Len(history[i]) : v[n] = Part(i, r, n)
  PROVE  /\ IsFiniteSet(1..Len(history[i])) /\ DOMAIN Whole(i) = 1..Len(history[i])
         /\ Times!Days(Times!Cuts(i, r)) = SumFunctionOnSet(v, 1..Len(history[i]))
         /\ \A s : Times!Days(Times!In(s, Times!Cuts(i, r))) = SumFunctionOnSet(v, Named(i, s))
<1> DEFINE places == Times!Loaded(i, r)
           some == Times!Intervals(i, r)
           all == Whole(i)
           N == Len(history[i])
<1>1. N \in Nat /\ DOMAIN all = 1..N /\ DOMAIN history[i] = 1..N
  BY WholeKnown
<1>2. DOMAIN some = places /\ places \subseteq 1..N
  BY <1>1, IntervalsKnown
<1>3. ASSUME NEW n \in 1..N
      PROVE  /\ v[n] \in Nat /\ (n \notin places => v[n] = 0)
             /\ n \in places => v[n] = Times!Clip(some[n], r) /\ some[n].status = all[n].status
  <2>1. v[n] = Part(i, r, n) /\ Part(i, r, n) \in Nat
    BY PartsLess
  <2>2. n \in places => some[n].status = all[n].status
    BY PartKnown
  <2> QED BY <2>1, <2>2 DEF Part
<1> HIDE DEF places, some, all, N
<1>4. IsFiniteSet(1..N)
  <2>1. 1 \in Int /\ N \in Int
    BY <1>1
  <2> QED BY <2>1, FS_Interval, Zenon
<1>5. ASSUME NEW K \in SUBSET (1..N)
      PROVE  Times!Days(CutsAt(i, some, r, K \cap places)) = SumFunctionOnSet(v, K)
  <2>1. IsFiniteSet(K) /\ IsFiniteSet(K \cap places)
    BY <1>4, FS_Subset
  <2>2. Times!Days(CutsAt(i, some, r, K \cap places)) = SumFunctionOnSet(v, K \cap places)
    <3>1. Measures(v, some, r, K \cap places)
      BY <1>3, <2>1 DEF Measures
    <3> QED BY <3>1, CutsSummed
  <2>3. SumFunctionOnSet(v, K \cap places) = SumFunctionOnSet(v, K)
    <3>1. \A n \in K \ (K \cap places) : v[n] = 0
      BY <1>3
    <3>2. Summable(v, K)
      BY <1>3, <2>1 DEF Summable
    <3> QED BY <3>1, <3>2, SumRest
  <2> QED BY <2>2, <2>3
<1>6. Times!Days(Times!Cuts(i, r)) = SumFunctionOnSet(v, 1..N)
  <2>1. Times!Cuts(i, r) = CutsAt(i, some, r, places)
    BY <1>2, CutsFound DEF Times!Cuts, some
  <2>2. (1..N) \cap places = places
    BY <1>2
  <2> QED BY <1>5, <2>1, <2>2
<1>7. ASSUME NEW s PROVE Times!Days(Times!In(s, Times!Cuts(i, r))) = SumFunctionOnSet(v, Named(i, s))
  <2> DEFINE K == Named(i, s)
             L == {n \in places : Display[some[n].status] = s}
  <2>1. K \in SUBSET (1..N)
    BY <1>1 DEF Named, all
  <2>2. L = K \cap places
    BY <1>1, <1>2, <1>3 DEF Named, all
  <2>3. Times!In(s, Times!Cuts(i, r)) = CutsAt(i, some, r, L)
    BY <1>2, CutsFound DEF Times!Cuts, some
  <2> HIDE DEF K, L
  <2> QED BY <1>5, <2>1, <2>2, <2>3 DEF K
<1> QED BY <1>1, <1>4, <1>6, <1>7 DEF all, N

LEMMA WholeSummed ==
  ASSUME Dated, Chronicle, NEW i \in Issues, NEW r, RangeKnown(r),
         NEW v, \A n \in 1..Len(history[i]) : v[n] = Times!Clip(Whole(i)[n], r), NEW s
  PROVE  Times!Days(Times!In(s, Times!Cut(i, Whole(i), r))) = SumFunctionOnSet(v, Named(i, s))
<1> DEFINE all == Whole(i)
           N == Len(history[i])
           K == Named(i, s)
<1>1. N \in Nat /\ DOMAIN all = 1..N
  BY WholeKnown
<1>2. \A n \in 1..N : v[n] = Times!Clip(all[n], r) /\ v[n] \in Nat
  BY PartsLess
<1>3. Times!In(s, Times!Cut(i, all, r)) = CutsAt(i, all, r, K)
  BY CutsFound DEF Named
<1>4. K \subseteq 1..N
  BY <1>1 DEF Named
<1> HIDE DEF all, N, K
<1>5. IsFiniteSet(K)
  <2>1. 1 \in Int /\ N \in Int
    BY <1>1
  <2>2. IsFiniteSet(1..N)
    BY <2>1, FS_Interval, Zenon
  <2> QED BY <1>4, <2>2, FS_Subset
<1>6. Measures(v, all, r, K)
  BY <1>2, <1>4, <1>5 DEF Measures
<1>7. Times!Days(CutsAt(i, all, r, K)) = SumFunctionOnSet(v, K)
  BY <1>6, CutsSummed
<1> QED BY <1>3, <1>7 DEF all, K

LEMMA LosesNothing ==
  ASSUME Dated, Chronicle
  PROVE  Times!RangeLosesNothing
<1> SUFFICES ASSUME NEW i \in Issues, NEW r \in Times!Ranges, NEW s \in Times!DisplayNames
             PROVE  LET some == Times!Days(Times!In(s, Times!Cuts(i, r)))
                        whole == Times!Days(Times!In(s, Times!Cut(i, Whole(i), r)))
                    IN  some =< whole /\ (Times!Complete(i, r) => some = whole)
  BY DEF Times!RangeLosesNothing, Whole
<1> DEFINE N == Len(history[i])
           part == [n \in 1..N |-> Part(i, r, n)]
           v == [n \in 1..N |-> Times!Clip(Whole(i)[n], r)]
<1>1. RangeKnown(r)
  BY RangesKnown
<1>2. /\ \A n \in 1..N : part[n] = Part(i, r, n)
      /\ \A n \in 1..N : v[n] = Times!Clip(Whole(i)[n], r)
  OBVIOUS
<1> HIDE DEF part, v
<1>3. /\ IsFiniteSet(1..N) /\ DOMAIN Whole(i) = 1..N
      /\ Times!Days(Times!In(s, Times!Cuts(i, r))) = SumFunctionOnSet(part, Named(i, s))
  BY <1>1, <1>2, PartsSummed
<1>4. Times!Days(Times!In(s, Times!Cut(i, Whole(i), r))) = SumFunctionOnSet(v, Named(i, s))
  BY <1>1, <1>2, WholeSummed
<1>5. \A n \in 1..N : /\ part[n] \in Nat /\ v[n] \in Nat /\ part[n] =< v[n]
                      /\ Times!Complete(i, r) => part[n] = v[n]
  BY <1>1, <1>2, PartsLess
<1>6. IsFiniteSet(Named(i, s)) /\ Named(i, s) \subseteq 1..N
  BY <1>3, FS_Subset DEF Named
<1> HIDE DEF N
<1>7. SumFunctionOnSet(part, Named(i, s)) =< SumFunctionOnSet(v, Named(i, s))
  BY <1>5, <1>6, SumLess
<1>8. ASSUME Times!Complete(i, r) PROVE SumFunctionOnSet(part, Named(i, s)) = SumFunctionOnSet(v, Named(i, s))
  <2>1. \A n \in Named(i, s) : part[n] = v[n]
    BY <1>5, <1>6, <1>8
  <2> QED BY <1>6, <2>1, SumSame
<1> QED BY <1>3, <1>4, <1>7, <1>8

(* Two ranges that follow each other *)
Until(r, d) == [from |-> r.from, to |-> d]
Since(r, d) == [from |-> d + 1, to |-> r.to]
LEMMA Halves ==
  ASSUME Dated, NEW r \in Times!Ranges, NEW d \in r.from..(r.to - 1)
  PROVE  RangeKnown(r) /\ RangeKnown(Until(r, d)) /\ RangeKnown(Since(r, d)) /\ d \in Nat /\ r.from =< d /\ d < r.to
  BY DEF RangeKnown, Until, Since, Times!Ranges, Times!Calendar, Dated

LEMMA DaysAdd ==
  ASSUME Dated, Chronicle, NEW i \in Issues, NEW r \in Times!Ranges, NEW d \in r.from..(r.to - 1)
  PROVE  LET sum == Times!Days(Times!Cuts(i, Until(r, d))) + Times!Days(Times!Cuts(i, Since(r, d)))
             total == Times!Days(Times!Cuts(i, r))
         IN  sum =< total /\ (Times!Complete(i, r) => sum = total)
<1> DEFINE N == Len(history[i])
           v == [n \in 1..N |-> Part(i, r, n)]
           before == [n \in 1..N |-> Part(i, Until(r, d), n)]
           after == [n \in 1..N |-> Part(i, Since(r, d), n)]
           both == [n \in 1..N |-> before[n] + after[n]]
<1>1. RangeKnown(r) /\ RangeKnown(Until(r, d)) /\ RangeKnown(Since(r, d)) /\ d \in Nat /\ r.from =< d /\ d < r.to
  BY Halves
<1>2. ASSUME NEW n \in 1..N
      PROVE  /\ v[n] \in Nat /\ before[n] \in Nat /\ after[n] \in Nat /\ both[n] = before[n] + after[n]
             /\ both[n] =< v[n]
             /\ Times!Complete(i, r) => both[n] = v[n]
  <2> DEFINE a == history[i][n].at
             b == Whole(i)[n].end
             F == Final(i)
             part == Share(a, b, F, r.from, r.to)
             until == Share(a, b, F, r.from, d)
             since == Share(a, b, F, d + 1, r.to)
  <2>1. a \in Nat /\ b \in Nat /\ F \in Nat /\ Part(i, r, n) = part
    BY <1>1, PartKnown
  <2>2. Part(i, Until(r, d), n) = until
    <3>1. Until(r, d).from = r.from /\ Until(r, d).to = d
      BY DEF Until
    <3>2. Part(i, Until(r, d), n) = Share(a, b, F, Until(r, d).from, Until(r, d).to)
      BY <1>1, PartKnown
    <3> QED BY <3>1, <3>2, Zenon
  <2>3. Part(i, Since(r, d), n) = since
    <3>1. Since(r, d).from = d + 1 /\ Since(r, d).to = r.to
      BY DEF Since
    <3>2. Part(i, Since(r, d), n) = Share(a, b, F, Since(r, d).from, Since(r, d).to)
      BY <1>1, PartKnown
    <3> QED BY <3>1, <3>2, Zenon
  <2>4. Times!Complete(i, r) => (a =< F /\ b =< F) \/ r.to < F
    BY <1>1, CompleteKnown
  <2>5. v[n] = Part(i, r, n) /\ before[n] = Part(i, Until(r, d), n) /\ after[n] = Part(i, Since(r, d), n)
        /\ both[n] = before[n] + after[n]
    OBVIOUS
  <2> HIDE DEF a, b, F, v, before, after, both
  <2>6. ShareSplits(a, b, F, r.from, d, r.to)
    <3>1. r.from \in Nat /\ r.to \in Nat
      BY <1>1 DEF RangeKnown
    <3> QED BY <1>1, <2>1, <3>1, SharesSplit
  <2> QED BY <2>1, <2>2, <2>3, <2>4, <2>5, <2>6 DEF ShareSplits
<1>3. /\ \A n \in 1..N : v[n] = Part(i, r, n)
      /\ \A n \in 1..N : before[n] = Part(i, Until(r, d), n)
      /\ \A n \in 1..N : after[n] = Part(i, Since(r, d), n)
  OBVIOUS
<1> HIDE DEF v, before, after, both
<1>4. IsFiniteSet(1..N) /\ Times!Days(Times!Cuts(i, r)) = SumFunctionOnSet(v, 1..N)
  BY <1>1, <1>3, PartsSummed
<1>5. Times!Days(Times!Cuts(i, Until(r, d))) = SumFunctionOnSet(before, 1..N)
  BY <1>1, <1>3, PartsSummed
<1>6. Times!Days(Times!Cuts(i, Since(r, d))) = SumFunctionOnSet(after, 1..N)
  BY <1>1, <1>3, PartsSummed
<1> DEFINE D == 1..N
<1> HIDE DEF N, D
<1>7. Summable(before, D) /\ Summable(after, D)
  BY <1>2, <1>4 DEF Summable, D
<1>8. SumFunctionOnSet(both, D) = SumFunctionOnSet(before, D) + SumFunctionOnSet(after, D)
  <2>1. \A n \in D : both[n] = before[n] + after[n]
    BY <1>2 DEF D
  <2> QED BY <1>7, <2>1, SumPlus
<1>9. SumFunctionOnSet(both, D) =< SumFunctionOnSet(v, D)
  <2>1. \A n \in D : both[n] \in Nat /\ v[n] \in Nat /\ both[n] =< v[n]
    BY <1>2 DEF D
  <2>2. IsFiniteSet(D)
    BY <1>4 DEF D
  <2> QED BY <2>1, <2>2, SumLess
<1>10. Times!Complete(i, r) => SumFunctionOnSet(both, D) = SumFunctionOnSet(v, D)
  <2>1. IsFiniteSet(D) /\ (Times!Complete(i, r) => \A n \in D : both[n] = v[n])
    BY <1>2, <1>4 DEF D
  <2> QED BY <2>1, SumSame
<1> QED BY <1>4, <1>5, <1>6, <1>8, <1>9, <1>10 DEF D

LEMMA SizeKept == ASSUME NEW S PROVE Times!Cardinality(S) = Cardinality(S)
  BY DEF Cardinality, Times!Cardinality

Parts(a, b, c) == a \cap b = {} /\ a \cup b \subseteq c

LEMMA ScoresAdd ==
  ASSUME Dated, Chronicle, NEW i \in Issues, NEW r \in Times!Ranges, NEW d \in r.from..(r.to - 1)
  PROVE  Times!Thrash(i, Until(r, d)) + Times!Thrash(i, Since(r, d)) =< Times!Thrash(i, r)
<1> DEFINE h == history[i]
           Rows(from, to) == {n \in DOMAIN h : h[n].at \in from..to}
           Reopens(from, to) == {n \in Rows(from, to) : h[n].from \in Closed /\ h[n].to \notin Closed}
           Pingpong(from, to) == {n \in Rows(from, to) : {n - 2, n - 1} \subseteq Rows(from, to)
                                                         /\ h[n].to = h[n - 2].to /\ h[n].to # h[n - 1].to}
<1>1. RangeKnown(r) /\ d \in Nat /\ r.from =< d /\ d < r.to
  BY Halves
<1>2. IsFiniteSet(DOMAIN h) /\ \A n \in DOMAIN h : h[n].at \in Nat
  <2>1. Len(h) \in Nat /\ DOMAIN h = 1..Len(h) /\ \A n \in DOMAIN h : h[n].at \in Nat
    BY DatesKnown DEF Chronicle
  <2>2. 1 \in Int /\ Len(h) \in Int
    BY <2>1
  <2>3. IsFiniteSet(1..Len(h))
    BY <2>2, FS_Interval, Zenon
  <2> QED BY <2>1, <2>3
<1>3. /\ Rows(r.from, r.to) = Rows(r.from, d) \cup Rows(d + 1, r.to)
      /\ Rows(r.from, d) \cap Rows(d + 1, r.to) = {}
      /\ \A f, t \in Nat : Rows(f, t) \subseteq DOMAIN h
  BY <1>1, <1>2 DEF RangeKnown
<1> DEFINE Score(from, to) == Cardinality(Rows(from, to)) + 3 * Cardinality(Reopens(from, to))
                              + 2 * Cardinality(Pingpong(from, to))
<1>4. /\ Times!Thrash(i, r) = Score(r.from, r.to)
      /\ Times!Thrash(i, Until(r, d)) = Score(r.from, d)
      /\ Times!Thrash(i, Since(r, d)) = Score(d + 1, r.to)
  <2>1. ASSUME NEW q PROVE Times!Thrash(i, q) = Score(q.from, q.to)
    BY SizeKept DEF Times!Thrash
  <2>2. Until(r, d).from = r.from /\ Until(r, d).to = d /\ Since(r, d).from = d + 1 /\ Since(r, d).to = r.to
    BY DEF Until, Since
  <2> HIDE DEF Score
  <2>3. Times!Thrash(i, Until(r, d)) = Score(Until(r, d).from, Until(r, d).to)
    BY <2>1
  <2>4. Times!Thrash(i, Since(r, d)) = Score(Since(r, d).from, Since(r, d).to)
    BY <2>1
  <2> QED BY <2>1, <2>2, <2>3, <2>4, Zenon
<1>5. ASSUME NEW a, NEW b, NEW c, Parts(a, b, c), c \subseteq DOMAIN h
      PROVE  /\ Cardinality(a) \in Nat /\ Cardinality(b) \in Nat /\ Cardinality(c) \in Nat
             /\ Cardinality(a) + Cardinality(b) =< Cardinality(c)
  <2> USE DEF Parts
  <2>1. IsFiniteSet(a) /\ IsFiniteSet(b) /\ IsFiniteSet(c)
    BY <1>2, <1>5, FS_Subset
  <2>2. Cardinality(a \cup b) = Cardinality(a) + Cardinality(b) - Cardinality(a \cap b) /\ Cardinality(a \cap b) = 0
    BY <1>5, <2>1, FS_Union, FS_EmptySet
  <2>3. Cardinality(a \cup b) =< Cardinality(c)
    BY <1>5, <2>1, FS_Subset
  <2> QED BY <2>1, <2>2, <2>3, FS_CardinalityType
<1>6. Parts(Reopens(r.from, d), Reopens(d + 1, r.to), Reopens(r.from, r.to)) /\ Reopens(r.from, r.to) \subseteq DOMAIN h
  BY <1>3 DEF Parts
<1>7. Parts(Pingpong(r.from, d), Pingpong(d + 1, r.to), Pingpong(r.from, r.to)) /\ Pingpong(r.from, r.to) \subseteq DOMAIN h
  BY <1>3 DEF Parts
<1>8. Parts(Rows(r.from, d), Rows(d + 1, r.to), Rows(r.from, r.to)) /\ Rows(r.from, r.to) \subseteq DOMAIN h
  BY <1>3 DEF Parts
<1> HIDE DEF Rows, Reopens, Pingpong
<1>9. /\ Cardinality(Rows(r.from, d)) \in Nat /\ Cardinality(Rows(d + 1, r.to)) \in Nat
      /\ Cardinality(Rows(r.from, r.to)) \in Nat
      /\ Cardinality(Rows(r.from, d)) + Cardinality(Rows(d + 1, r.to)) =< Cardinality(Rows(r.from, r.to))
  BY <1>3, <1>5, <1>8
<1>10. /\ Cardinality(Reopens(r.from, d)) \in Nat /\ Cardinality(Reopens(d + 1, r.to)) \in Nat
       /\ Cardinality(Reopens(r.from, r.to)) \in Nat
       /\ Cardinality(Reopens(r.from, d)) + Cardinality(Reopens(d + 1, r.to)) =< Cardinality(Reopens(r.from, r.to))
  BY <1>5, <1>6
<1>11. /\ Cardinality(Pingpong(r.from, d)) \in Nat /\ Cardinality(Pingpong(d + 1, r.to)) \in Nat
       /\ Cardinality(Pingpong(r.from, r.to)) \in Nat
       /\ Cardinality(Pingpong(r.from, d)) + Cardinality(Pingpong(d + 1, r.to)) =< Cardinality(Pingpong(r.from, r.to))
  BY <1>5, <1>7
<1> QED BY <1>4, <1>9, <1>10, <1>11

Upto(places, n) == {k \in places : k =< n}
LEMMA UptoKnown ==
  ASSUME NEW N \in Nat, NEW places \in SUBSET (1..N)
  PROVE  /\ Upto(places, 0) = {} /\ Upto(places, N) = places
         /\ \A n \in 0..N : Upto(places, n) \subseteq places
         /\ \A n \in 1..N : /\ n \notin places => Upto(places, n) = Upto(places, n - 1)
                            /\ n \in places => Upto(places, n) = Upto(places, n - 1) \cup {n} /\ n \notin Upto(places, n - 1)
<1>0. \A k \in places : k \in Int /\ 1 =< k /\ k =< N
  OBVIOUS
<1>1. Upto(places, 0) = {} /\ Upto(places, N) = places /\ \A n \in 0..N : Upto(places, n) \subseteq places
  <2>1. \A k \in places : ~(k =< 0)
    BY <1>0
  <2>2. Upto(places, 0) = {}
    BY <2>1 DEF Upto
  <2>3. Upto(places, N) = places
    BY <1>0 DEF Upto
  <2>4. \A n \in 0..N : Upto(places, n) \subseteq places
    BY DEF Upto
  <2> QED BY <2>2, <2>3, <2>4
<1>2. ASSUME NEW n \in 1..N
      PROVE  /\ n \notin places => Upto(places, n) = Upto(places, n - 1)
             /\ n \in places => Upto(places, n) = Upto(places, n - 1) \cup {n} /\ n \notin Upto(places, n - 1)
  <2>1. \A k \in places : k =< n <=> k =< n - 1 \/ k = n
    BY <1>0
  <2>2. ~(n =< n - 1)
    OBVIOUS
  <2> QED BY <2>1, <2>2 DEF Upto
<1> QED BY <1>1, <1>2

(* The days up to a place are no more than those before the next transition, nor those
   of the range. *)
Room(a, from) == IF a >= from THEN a - from ELSE 0
FitsBefore(days, places, h, r, n) == days =< r.to - r.from + 1 /\ \A m \in places : n < m => days =< Room(h[m].at, r.from)

LEMMA Fitting ==
  ASSUME NEW S \in Nat, NEW a \in Nat, NEW e \in Nat, NEW f \in Nat, NEW t \in Nat, f =< t,
         S =< t - f + 1, S =< Room(a, f)
  PROVE  /\ Within(a, e, f, t) \in Nat
         /\ S + Within(a, e, f, t) =< t - f + 1
         /\ \A b \in Nat : a =< b /\ e =< b => S + Within(a, e, f, t) =< Room(b, f)
  BY DEF Within, Room

LEMMA DaysBounded ==
  ASSUME Dated, Chronicle, NEW i \in Issues, NEW r \in Times!Ranges
  PROVE  Times!Days(Times!Cuts(i, r)) =< r.to - r.from + 1
<1> DEFINE h == history[i]
           places == Times!Loaded(i, r)
           some == Times!Intervals(i, r)
           v == [n \in places |-> Times!Clip(some[n], r)]
           N == Len(h)
           Days(n) == SumFunctionOnSet(v, Upto(places, n))
           fit == {n \in 0..N : FitsBefore(Days(n), places, h, r, n)}
<1>1. RangeKnown(r)
  BY RangesKnown
<1>2. N \in Nat /\ DOMAIN h = 1..N /\ \A n \in DOMAIN h : h[n].at \in Nat
  BY DatesKnown DEF Chronicle
<1>3. InOrder(h)
  BY DEF Chronicle
<1>4. /\ DOMAIN some = places /\ places \subseteq 1..N
      /\ \A n \in places : /\ some[n].start = h[n].at
                           /\ \A m \in places : n < m => some[n].end =< h[m].at
                           /\ some[n].start \in Nat /\ some[n].end \in Nat
  <2>1. /\ DOMAIN some = places /\ places \subseteq DOMAIN h
        /\ \A n \in places : /\ some[n].start = h[n].at
                             /\ \/ \E m \in places : Follows(places, n, m) /\ some[n].end = h[m].at
                                \/ LastOf(places, n) /\ some[n].end = Final(i)
                             /\ some[n].start \in Nat /\ some[n].end \in Nat
    BY IntervalsKnown
  <2> HIDE DEF some, places, h
  <2>2. ASSUME NEW n \in places, NEW m \in places, n < m PROVE some[n].end =< h[m].at
    <3>1. n \in 1..N /\ m \in 1..N /\ h[m].at \in Nat
      BY <1>2, <2>1
    <3>2. PICK l \in places : Follows(places, n, l) /\ some[n].end = h[l].at
      BY <2>1, <2>2, <3>1 DEF LastOf
    <3>3. l =< m /\ l \in 1..N
      BY <1>2, <2>1, <2>2, <3>2 DEF Follows
    <3>4. h[l].at =< h[m].at
      BY <1>2, <1>3, <3>1, <3>3 DEF InOrder
    <3> QED BY <3>2, <3>4
  <2> QED BY <1>2, <2>1, <2>2
<1>5. \A n \in places : v[n] = Within(h[n].at, some[n].end, r.from, r.to)
  <2>1. ASSUME NEW n \in places PROVE Times!Clip(some[n], r) = Within(some[n].start, some[n].end, r.from, r.to)
    <3> HIDE DEF some, places
    <3> QED BY <1>1, <1>4, ClipKnown DEF RangeKnown
  <2> QED BY <1>4, <2>1
<1>6. \A n \in places : v[n] \in Nat
  <2>1. \A a, b \in Nat : Within(a, b, r.from, r.to) \in Nat
    BY <1>1 DEF Within, RangeKnown
  <2> HIDE DEF v, some, places, h
  <2> QED BY <1>2, <1>4, <1>5, <2>1
<1>7. Measures(v, some, r, places)
  <2>1. 1 \in Int /\ N \in Int
    BY <1>2
  <2>2. IsFiniteSet(1..N)
    BY <2>1, FS_Interval, Zenon
  <2>3. IsFiniteSet(places)
    BY <1>4, <2>2, FS_Subset
  <2> QED BY <1>6, <2>3 DEF Measures
<1>8. Times!Days(Times!Cuts(i, r)) = SumFunctionOnSet(v, places)
  <2>1. Times!Cuts(i, r) = CutsAt(i, some, r, places)
    BY <1>4, CutsFound DEF Times!Cuts
  <2> HIDE DEF v, some, places
  <2> QED BY <1>7, <2>1, CutsSummed
<1> HIDE DEF v, some, places, h, N
<1>9. /\ Upto(places, 0) = {} /\ Upto(places, N) = places
      /\ \A n \in 0..N : Upto(places, n) \subseteq places
      /\ \A n \in 1..N : /\ n \notin places => Upto(places, n) = Upto(places, n - 1)
                         /\ n \in places => Upto(places, n) = Upto(places, n - 1) \cup {n} /\ n \notin Upto(places, n - 1)
  BY <1>2, <1>4, UptoKnown
<1>10. ASSUME NEW n \in 0..N PROVE Summable(v, Upto(places, n)) /\ Days(n) \in Nat
  <2>1. IsFiniteSet(Upto(places, n)) /\ \A k \in Upto(places, n) : v[k] \in Nat
    BY <1>6, <1>7, <1>9, FS_Subset DEF Measures
  <2> QED BY <2>1, SumNatural DEF Summable
<1>11. 0 \in fit
  <2>1. Days(0) = 0
    BY <1>9, SumNone
  <2>2. \A m \in places : 0 =< Room(h[m].at, r.from)
    BY <1>1, <1>2, <1>4 DEF Room, RangeKnown
  <2>3. FitsBefore(0, places, h, r, 0)
    BY <1>1, <2>2 DEF FitsBefore, RangeKnown
  <2> HIDE DEF Days
  <2> QED BY <1>2, <2>1, <2>3
<1>12. ASSUME NEW n \in 1..N, n - 1 \in fit PROVE n \in fit
  <2>1. n - 1 \in 0..N /\ n \in 0..N /\ n - 1 < n
    BY <1>2
  <2>2. FitsBefore(Days(n - 1), places, h, r, n - 1) /\ Days(n - 1) \in Nat
    BY <1>10, <1>12, <2>1
  <2>3. CASE n \notin places
    <3>1. Days(n) = Days(n - 1)
      BY <1>9, <2>3
    <3>2. \A m \in places : n < m => n - 1 < m
      BY <1>2, <1>4
    <3> HIDE DEF Days
    <3>3. FitsBefore(Days(n), places, h, r, n)
      BY <2>2, <3>1, <3>2 DEF FitsBefore
    <3> QED BY <2>1, <3>3
  <2>4. CASE n \in places
    <3>1. Days(n) = v[n] + Days(n - 1)
      <4>1. Upto(places, n) = Upto(places, n - 1) \cup {n} /\ n \notin Upto(places, n - 1)
        BY <1>9, <2>4
      <4>2. Summable(v, Upto(places, n - 1) \cup {n})
        BY <1>10, <2>1, <4>1
      <4> QED BY <4>1, <4>2, SumAdd
    <3> HIDE DEF Days
    <3> DEFINE S == Days(n - 1)
               a == h[n].at
               e == some[n].end
    <3>2. a \in Nat /\ e \in Nat /\ v[n] = Within(a, e, r.from, r.to)
      BY <1>2, <1>4, <1>5, <2>4
    <3>3. S \in Nat /\ S =< r.to - r.from + 1 /\ S =< Room(a, r.from)
      BY <2>1, <2>2, <2>4 DEF FitsBefore
    <3>4. ASSUME NEW m \in places, n < m PROVE h[m].at \in Nat /\ a =< h[m].at /\ e =< h[m].at
      BY <1>2, <1>3, <1>4, <2>4, <3>4 DEF InOrder
    <3> HIDE DEF S, a, e
    <3>5. /\ v[n] \in Nat /\ S + v[n] =< r.to - r.from + 1
          /\ \A b \in Nat : a =< b /\ e =< b => S + v[n] =< Room(b, r.from)
      <4>1. r.from \in Nat /\ r.to \in Nat /\ r.from =< r.to
        BY <1>1 DEF RangeKnown
      <4>2. /\ Within(a, e, r.from, r.to) \in Nat
            /\ S + Within(a, e, r.from, r.to) =< r.to - r.from + 1
            /\ \A b \in Nat : a =< b /\ e =< b => S + Within(a, e, r.from, r.to) =< Room(b, r.from)
        BY <3>2, <3>3, <4>1, Fitting
      <4> QED BY <3>2, <4>2
    <3>6. FitsBefore(S + v[n], places, h, r, n)
      BY <3>4, <3>5 DEF FitsBefore
    <3>7. Days(n) = S + v[n]
      BY <3>1, <3>3, <3>5 DEF S
    <3> QED BY <2>1, <3>6, <3>7
  <2> QED BY <2>3, <2>4
<1>13. 0..N \subseteq fit
  <2> HIDE DEF fit
  <2> QED BY <1>2, <1>11, <1>12, Climbs
<1>14. FitsBefore(Days(N), places, h, r, N)
  BY <1>2, <1>13
<1> QED BY <1>8, <1>9, <1>14 DEF FitsBefore

LEMMA PointsKnown ==
  ASSUME Dated, Chronicle, NEW r \in Times!Ranges
  PROVE  IsFiniteSet(Times!Points(r)) /\ \A q \in Times!Points(r) : q.days \in Nat
<1> DEFINE cuts == [i \in Issues |-> {q \in Times!Cut(i, Times!Intervals(i, r), r) : q.status \notin Excluded /\ q.days > 0}]
<1>1. Times!Points(r) = UNION {cuts[i] : i \in Issues}
  BY DEF Times!Points
<1>2. ASSUME NEW i \in Issues
      PROVE  IsFiniteSet(cuts[i]) /\ \A q \in cuts[i] : q.days \in Nat
  <2> DEFINE some == Times!Intervals(i, r)
             places == Times!Loaded(i, r)
             v == [n \in places |-> Times!Clip(some[n], r)]
             N == Len(history[i])
  <2>1. RangeKnown(r)
    BY RangesKnown
  <2>2. N \in Nat /\ DOMAIN history[i] = 1..N
    BY DatesKnown DEF Chronicle
  <2>3. /\ DOMAIN some = places /\ places \subseteq DOMAIN history[i]
        /\ \A n \in places : some[n].start \in Nat /\ some[n].end \in Nat
    BY IntervalsKnown
  <2>4. cuts[i] \subseteq CutsAt(i, some, r, places)
    BY <2>3, CutsFound
  <2> HIDE DEF some, places, N, cuts
  <2>5. \A n \in places : Times!Clip(some[n], r) = Within(some[n].start, some[n].end, r.from, r.to)
    BY <2>1, <2>3, ClipKnown DEF RangeKnown
  <2>6. \A a, b \in Nat : Within(a, b, r.from, r.to) \in Nat
    BY <2>1 DEF Within, RangeKnown
  <2>7. \A n \in places : v[n] = Times!Clip(some[n], r) /\ v[n] \in Nat
    BY <2>3, <2>5, <2>6
  <2>8. IsFiniteSet(places)
    <3>1. 1 \in Int /\ N \in Int
      BY <2>2
    <3>2. IsFiniteSet(1..N)
      BY <3>1, FS_Interval, Zenon
    <3> QED BY <2>2, <2>3, <3>2, FS_Subset
  <2> HIDE DEF v
  <2>9. IsFiniteSet(CutsAt(i, some, r, places))
    <3>1. Measures(v, some, r, places)
      BY <2>7, <2>8 DEF Measures
    <3> QED BY <3>1, CutsSummed
  <2>10. \A q \in CutsAt(i, some, r, places) : q.days \in Nat
    BY <2>7 DEF CutsAt, CutOf
  <2> QED BY <2>4, <2>9, <2>10, FS_Subset
<1> HIDE DEF cuts
<1>3. IsFiniteSet({cuts[i] : i \in Issues})
  BY ValuesFinite DEF Dated
<1>4. IsFiniteSet(UNION {cuts[i] : i \in Issues})
  BY <1>2, <1>3, FS_UNION
<1> QED BY <1>1, <1>2, <1>4

(* The points of a row by the priorities of their issues, and those of the columns *)
Columned(points) == {q \in points : Priority[q.issue] \in Columns}
Others(points) == {q \in points : Priority[q.issue] \notin Columns}
IssuesIn(points) == {q.issue : q \in points}

LEMMA DaysOfColumns ==
  ASSUME NEW points, IsFiniteSet(points), \A q \in points : q.days \in Nat,
         NEW K, K = Columns \cap {Priority[q.issue] : q \in points},
         NEW v, \A p \in K : v[p] = Times!Days({q \in points : Priority[q.issue] = p})
  PROVE  Times!Days(points) = SumFunctionOnSet(v, K) + Times!Days(Others(points))
<1> DEFINE f == [q \in points |-> q.days]
           key == [q \in points |-> Priority[q.issue]]
           c == Columned(points)
           o == Others(points)
<1>1. \A q \in points : f[q] = q.days /\ f[q] \in Nat /\ key[q] = Priority[q.issue]
  OBVIOUS
<1>2. points = c \cup o /\ c \cap o = {}
  BY DEF Columned, Others
<1>3. \A p \in K : {q \in points : Priority[q.issue] = p} = Group(c, key, p)
  BY DEF Group, Columned
<1>4. \A q \in c : key[q] \in K
  BY DEF Columned
<1> HIDE DEF f, key, c
<1>5. IsFiniteSet(c) /\ IsFiniteSet(o)
  BY <1>2, FS_Subset
<1>6. /\ Times!Days(points) = SumFunctionOnSet(f, points)
      /\ Times!Days(o) = SumFunctionOnSet(f, o)
  BY <1>1, <1>2, <1>5, DaysSummed
<1>7. ASSUME NEW p \in K PROVE v[p] = SumFunctionOnSet(f, Group(c, key, p))
  <2>1. Group(c, key, p) \subseteq points
    BY <1>2 DEF Group
  <2>2. IsFiniteSet(Group(c, key, p)) /\ \A q \in Group(c, key, p) : f[q] = q.days
    BY <1>1, <2>1, FS_Subset
  <2> QED BY <1>3, <2>2, DaysSummed
<1>8. IsFiniteSet(K)
  <2>1. IsFiniteSet({key[q] : q \in points})
    BY ValuesFinite
  <2>2. K \subseteq {key[q] : q \in points}
    BY <1>1
  <2> QED BY <2>1, <2>2, FS_Subset
<1>9. Summable(f, points) /\ Summable(f, c)
  BY <1>1, <1>2, <1>5 DEF Summable
<1>10. SumFunctionOnSet(v, K) = SumFunctionOnSet(f, c)
  BY <1>4, <1>7, <1>8, <1>9, SumGroups
<1>11. SumFunctionOnSet(f, c \cup o) = SumFunctionOnSet(f, c) + SumFunctionOnSet(f, o)
  <2>1. Summable(f, c \cup o)
    BY <1>2, <1>9
  <2> QED BY <1>2, <2>1, SumUnion
<1> QED BY <1>2, <1>6, <1>10, <1>11 DEF o

LEMMA IssuesOfColumns ==
  ASSUME NEW points, IsFiniteSet(points),
         NEW K, K = Columns \cap {Priority[q.issue] : q \in points},
         NEW v, \A p \in K : v[p] = Cardinality(IssuesIn({q \in points : Priority[q.issue] = p}))
  PROVE  Cardinality(IssuesIn(points)) = SumFunctionOnSet(v, K) + Cardinality(IssuesIn(Others(points)))
<1> DEFINE I == IssuesIn(points)
           c == IssuesIn(Columned(points))
           o == IssuesIn(Others(points))
           one == [i \in I |-> 1]
           key == [i \in I |-> Priority[i]]
<1>1. IsFiniteSet(I)
  <2> DEFINE of == [q \in points |-> q.issue]
  <2>1. I = {of[q] : q \in points}
    BY DEF IssuesIn
  <2> HIDE DEF of, I
  <2> QED BY <2>1, ValuesFinite
<1>2. I = c \cup o /\ c \cap o = {}
  BY DEF IssuesIn, Columned, Others
<1>3. \A p \in K : IssuesIn({q \in points : Priority[q.issue] = p}) = Group(c, key, p)
  BY DEF IssuesIn, Group, Columned
<1>4. \A i \in c : key[i] \in K
  BY DEF IssuesIn, Columned
<1>5. \A i \in I : one[i] = 1
  OBVIOUS
<1>13. K \subseteq {key[i] : i \in I}
  BY DEF IssuesIn
<1> HIDE DEF I, c, o, one, key
<1>6. IsFiniteSet(c) /\ IsFiniteSet(o)
  BY <1>1, <1>2, FS_Subset
<1>7. Cardinality(c \cup o) = Cardinality(c) + Cardinality(o)
  <2>1. Cardinality(c \cup o) = Cardinality(c) + Cardinality(o) - Cardinality(c \cap o)
    BY <1>6, FS_Union
  <2>2. Cardinality(c \cap o) = 0
    BY <1>2, FS_EmptySet
  <2>3. Cardinality(c) \in Nat /\ Cardinality(o) \in Nat
    BY <1>6, FS_CardinalityType
  <2> QED BY <2>1, <2>2, <2>3
<1>8. SumFunctionOnSet(one, c) = Cardinality(c)
  BY <1>2, <1>5, <1>6, SumOnes
<1>9. ASSUME NEW p \in K PROVE v[p] = SumFunctionOnSet(one, Group(c, key, p))
  <2>1. Group(c, key, p) \subseteq c
    BY DEF Group
  <2>2. IsFiniteSet(Group(c, key, p)) /\ \A i \in Group(c, key, p) : one[i] = 1
    BY <1>2, <1>5, <1>6, <2>1, FS_Subset
  <2>3. SumFunctionOnSet(one, Group(c, key, p)) = Cardinality(Group(c, key, p))
    BY <2>2, SumOnes
  <2> QED BY <1>3, <2>3
<1>10. IsFiniteSet(K)
  <2>1. IsFiniteSet({key[i] : i \in I})
    BY <1>1, ValuesFinite
  <2> QED BY <1>13, <2>1, FS_Subset
<1>11. Summable(one, c)
  BY <1>2, <1>5, <1>6 DEF Summable
<1>12. SumFunctionOnSet(v, K) = SumFunctionOnSet(one, c)
  BY <1>4, <1>9, <1>10, <1>11, SumGroups
<1> QED BY <1>2, <1>7, <1>8, <1>12 DEF I, o

LEMMA AverageKnown ==
  ASSUME NEW points
  PROVE  /\ Times!Average(points) = [days |-> Times!Days(points), issues |-> Cardinality(IssuesIn(points))]
         /\ Times!Average(points).days = Times!Days(points)
         /\ Times!Average(points).issues = Cardinality(IssuesIn(points))
  BY SizeKept DEF Times!Average, IssuesIn

LEMMA PriorityAdds ==
  ASSUME NEW s, NEW points, IsFiniteSet(points), \A q \in points : q.days \in Nat
  PROVE  LET by == Times!RowOf(s, points).average_by_priority
             others == Times!Average(Others(points))
         IN  Times!RowOf(s, points).average_days_all_priorities =
               [days |-> Times!SumFunction([p \in DOMAIN by |-> by[p].days]) + others.days,
                issues |-> Times!SumFunction([p \in DOMAIN by |-> by[p].issues]) + others.issues]
<1> DEFINE K == Columns \cap {Priority[q.issue] : q \in points}
           Of(p) == {q \in points : Priority[q.issue] = p}
           by == Times!RowOf(s, points).average_by_priority
           days == [p \in DOMAIN by |-> by[p].days]
           issues == [p \in DOMAIN by |-> by[p].issues]
<1>1. Times!RowOf(s, points).average_days_all_priorities = Times!Average(points)
      /\ by = [p \in K |-> Times!Average(Of(p))]
  BY DEF Times!RowOf
<1>2. DOMAIN by = K /\ \A p \in K : by[p] = Times!Average(Of(p))
  BY <1>1
<1>3. /\ DOMAIN days = K /\ \A p \in K : days[p] = Times!Average(Of(p)).days
      /\ DOMAIN issues = K /\ \A p \in K : issues[p] = Times!Average(Of(p)).issues
  BY <1>2
<1> HIDE DEF days, issues, by
<1>4. /\ \A p \in K : days[p] = Times!Days(Of(p))
      /\ \A p \in K : issues[p] = Cardinality(IssuesIn(Of(p)))
  BY <1>3, AverageKnown
<1>5. Times!Days(points) = SumFunctionOnSet(days, K) + Times!Days(Others(points))
  BY <1>4, DaysOfColumns
<1>6. Cardinality(IssuesIn(points)) = SumFunctionOnSet(issues, K) + Cardinality(IssuesIn(Others(points)))
  BY <1>4, IssuesOfColumns
<1>7. Times!SumFunction(days) = SumFunctionOnSet(days, K) /\ Times!SumFunction(issues) = SumFunctionOnSet(issues, K)
  BY <1>3, DaysSum
<1>8. Times!Average(points) = [days |-> Times!Days(points), issues |-> Cardinality(IssuesIn(points))]
      /\ Times!Average(Others(points)).days = Times!Days(Others(points))
      /\ Times!Average(Others(points)).issues = Cardinality(IssuesIn(Others(points)))
  BY AverageKnown
<1> QED BY <1>1, <1>5, <1>6, <1>7, <1>8 DEF days, issues, by

LEMMA PrioritiesAdd == ASSUME Dated, Chronicle PROVE Times!RowsByPriority
<1> SUFFICES ASSUME NEW r \in Times!Ranges, NEW n \in DOMAIN Times!Rows(Times!Points(r))
             PROVE  LET row == Times!Rows(Times!Points(r))[n]
                        by == row.average_by_priority
                        others == Times!Average(Others(Times!In(row.status, Times!Points(r))))
                    IN  row.average_days_all_priorities =
                          [days |-> Times!SumFunction([p \in DOMAIN by |-> by[p].days]) + others.days,
                           issues |-> Times!SumFunction([p \in DOMAIN by |-> by[p].issues]) + others.issues]
  BY DEF Times!RowsByPriority, Others
<1> DEFINE points == Times!Points(r)
           s == Times!OrderStatuses(points)[n]
<1>1. Times!Rows(points)[n] = Times!RowOf(s, Times!In(s, points)) /\ Times!RowOf(s, Times!In(s, points)).status = s
  BY DEF Times!Rows, Times!RowOf
<1>2. IsFiniteSet(points) /\ \A q \in points : q.days \in Nat
  BY PointsKnown
<1> HIDE DEF s, points
<1>3. IsFiniteSet(Times!In(s, points)) /\ \A q \in Times!In(s, points) : q.days \in Nat
  BY <1>2, FS_Subset DEF Times!In
<1> QED BY <1>1, <1>3, PriorityAdds DEF points

(* The days that a report says issues waited add up, for any transitions and days asked
   for: leaving out transitions adds no day, and loses none of an issue that rests once it
   is resolved or was resolved after the range; an issue has no more days than the range;
   ranges that follow each other never make up more than the whole, nor their scores; and
   the averages by priority make up that of all, with the issues that have no column. *)
THEOREM DaysAddUp ==
  ASSUME Dated
  PROVE  Times!Spec => [](Times!RangeLosesNothing /\ Times!RangesAddUp /\ Times!RowsByPriority)
<1>1. Times!Init => Chronicle
  BY DEF Times!Init, Chronicle, Dated, Times!Calendar, InOrder, Before
<1>2. Chronicle /\ [Times!Next]_(Times!vars) => Chronicle'
  BY ChronicleGoesOn
<1>3. Chronicle => Times!RangeLosesNothing /\ Times!RowsByPriority
  BY LosesNothing, PrioritiesAdd
<1>4. Chronicle => Times!RangesAddUp
  BY DaysBounded, DaysAdd, ScoresAdd DEF Times!RangesAddUp, Until, Since
<1> QED BY <1>1, <1>2, <1>3, <1>4, PTL DEF Times!Spec
=============================================================================
