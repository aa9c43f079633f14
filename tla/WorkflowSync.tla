----------------------------- MODULE WorkflowSync -----------------------------
(* Which workflow an issue goes through (jira_analytics/workflow/workflow_sync.py,  *)
(* workflow_resolution.py): the nightly sync reads the workflow schemes of the      *)
(* projects in chunks and rewrites the mapping of project and issue type; without   *)
(* access to the schemes it guesses the workflows from their statuses.              *)
EXTENDS Integers, FiniteSets, Functions

CONSTANTS Projects,     \* projects that are not excluded
          Types,        \* issue types, without Default
          Default,      \* the key of the default workflow of a project
          Workflows,
          Chunks,       \* the projects as the schemes are asked for
          Batches,      \* the workflows as they are asked for
          Refs,         \* workflow -> its statuses
          TypeStatuses, \* issue type -> statuses of its issues
          Named,        \* workflow -> <<project, type>> in its name, or None
          None, MaxSteps

VARIABLES scheme,    \* Jira: project -> (type or Default -> workflow)
          table,     \* table jira_workflow
          mapping,   \* table jira_project_workflow_mapping: <<project, type>> -> workflow
          last,      \* the last sync: [kind, lost projects, lost workflows]
          steps

vars == <<scheme, table, mapping, last, steps>>
Keys == Types \cup {Default}
Nothing == [kind |-> None, projects |-> {}, workflows |-> {}]

Init == /\ scheme \in [Projects -> {[t \in {Default} |-> w] : w \in Workflows}]
        /\ table = {} /\ mapping = <<>> /\ last = Nothing /\ steps = 0
-----------------------------------------------------------------------------
(* Another scheme, or types of their own. *)
ChangeScheme ==
  /\ steps < MaxSteps
  /\ steps' = steps + 1
  /\ \E p \in Projects, t \in Keys, w \in Workflows :
       scheme' = [scheme EXCEPT ![p] = [k \in DOMAIN scheme[p] \cup {t} |-> IF k = t THEN w ELSE scheme[p][k]]]
  /\ last' = Nothing
  /\ UNCHANGED <<table, mapping>>

Uses(projects) == UNION {Range(scheme[p]) : p \in projects}

(* The schemes, of the chunks that answer.  A chunk that fails is left out with a    *)
(* warning; the mapping is deleted as a whole.                                       *)
SyncSchemes(answered, found) ==
  LET read == UNION answered
      named == Uses(read)
      known == named \cap UNION found
  IN  /\ named # {}
      /\ table' = table \cup known
      /\ mapping' = [k \in {e \in read \X Keys : e[2] \in DOMAIN scheme[e[1]] /\ scheme[e[1]][e[2]] \in known}
                      |-> scheme[k[1]][k[2]]]
      /\ last' = [kind |-> "schemes", projects |-> Projects \ read, workflows |-> named \ known]

(* The smallest workflow that has all the statuses of the issue type. *)
Best(type) ==
  LET fits == {w \in Workflows : TypeStatuses[type] # {} /\ TypeStatuses[type] \subseteq Refs[w]}
  IN  {w \in fits : \A v \in fits : Cardinality(Refs[w]) <= Cardinality(Refs[v])}
NamedFor(p, t) == {w \in Workflows : Named[w] = <<p, t>>}

(* Without schemes: for the projects whose statuses are read.  A workflow named for  *)
(* a project and type counts where no other fits.                                    *)
SyncSearch(answered) ==
  LET Guess(k) == IF Best(k[2]) # {} THEN Best(k[2]) ELSE NamedFor(k[1], k[2])
      keys == {k \in answered \X Types : Guess(k) # {}}
  IN  /\ table' = Workflows
      /\ mapping' \in {m \in [keys -> Workflows] : \A k \in keys : m[k] \in Guess(k)}
      /\ last' = [kind |-> "search", projects |-> Projects \ answered, workflows |-> {}]

(* No workflow at all: nothing is mapped any more; no answer: everything stays.      *)
SearchIsEmpty == mapping' = <<>> /\ last' = [Nothing EXCEPT !.kind = "empty"] /\ UNCHANGED table
SearchFails == last' = [Nothing EXCEPT !.kind = "failed"] /\ UNCHANGED <<table, mapping>>

Sync ==
  /\ steps < MaxSteps
  /\ steps' = steps + 1
  /\ UNCHANGED scheme
  /\ \/ \E answered \in (SUBSET Chunks) \ {{}}, found \in SUBSET Batches : SyncSchemes(answered, found)
     \/ \E answered \in SUBSET Projects : SyncSearch(answered)
     \/ SearchIsEmpty
     \/ SearchFails

Next == ChangeScheme \/ Sync
Spec == Init /\ [][Next]_vars
-----------------------------------------------------------------------------
Lookup(p, t) == IF <<p, t>> \in DOMAIN mapping THEN mapping[<<p, t>>]
                ELSE IF <<p, Default>> \in DOMAIN mapping THEN mapping[<<p, Default>>] ELSE None

(* The workflow of an issue: by its project and type, for a sub-task as for its       *)
(* parent, for a type that the parent's project knows, else by the default.          *)
Resolve(issue, parent) ==
  LET own == Lookup(issue.project, issue.type)
      above == IF parent = None THEN <<>>
               ELSE <<Lookup(parent.project, parent.type), Lookup(parent.project, issue.type)>>
  IN  IF own # None THEN own
      ELSE IF \E n \in DOMAIN above : above[n] # None
      THEN above[IF above[1] # None THEN 1 ELSE 2]
      ELSE Lookup(issue.project, Default)

TypeOK == /\ table \subseteq Workflows
          /\ DOMAIN mapping \subseteq Projects \X Keys /\ \A k \in DOMAIN mapping : mapping[k] \in table
          /\ steps \in 0..MaxSteps

(* After a sync from the schemes an entry of Jira is missing only when the call for  *)
(* its chunk of projects or its workflow failed, and there is no other entry.        *)
MappingFollowsSchemes ==
  last.kind = "schemes" =>
    /\ \A k \in DOMAIN mapping : k[2] \in DOMAIN scheme[k[1]] /\ scheme[k[1]][k[2]] = mapping[k]
    /\ \A p \in Projects \ last.projects : \A t \in DOMAIN scheme[p] :
         scheme[p][t] \in last.workflows \/ <<p, t>> \in DOMAIN mapping

(* A guess never gives a type a workflow that lacks one of its statuses, unless the   *)
(* workflow is named for it.                                                         *)
GuessesFit ==
  last.kind = "search" =>
    \A k \in DOMAIN mapping : \/ TypeStatuses[k[2]] \subseteq Refs[mapping[k]]
                              \/ Named[mapping[k]] = k

(* A sub-task without a mapping of its own goes through a workflow of its parent's    *)
(* project, and every issue of a project with a default has a workflow.              *)
Issues == [project : Projects, type : Types]
ResolutionIsTotal ==
  \A issue \in Issues, parent \in Issues \cup {None} :
    LET w == Resolve(issue, parent)
    IN  /\ <<issue.project, Default>> \in DOMAIN mapping => w # None
        /\ w # None => \E k \in DOMAIN mapping :
             mapping[k] = w /\ k[1] \in {issue.project} \cup (IF parent = None THEN {} ELSE {parent.project})

WorkflowsSound == MappingFollowsSchemes /\ GuessesFit /\ ResolutionIsTotal

(* Only a sync that read the schemes without the project, or the statuses without it, *)
(* or found no workflows, takes a mapping away.                                      *)
KeepsMappings ==
  \A k \in DOMAIN mapping \ DOMAIN mapping' :
    \/ last'.kind = "empty" \/ last'.kind = "search"
    \/ k[1] \in last'.projects \/ k[2] \notin DOMAIN scheme[k[1]]
    \/ scheme[k[1]][k[2]] \in last'.workflows
MappingsKept == [][KeepsMappings]_vars
=============================================================================
