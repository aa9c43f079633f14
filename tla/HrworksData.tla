---------------------------- MODULE HrworksData ----------------------------
(* The cached roster of HRworks persons and the monthly hours of Jira users, as     *)
(* the runs of the HRworks collector keep them while HRworks, the Jira users and    *)
(* the list of denied persons change (hrworks/roster.py, person_mapping.py,         *)
(* collector.py).  Each action is one transaction.                                  *)
EXTENDS Integers, FiniteSets, FiniteSetsExt

CONSTANTS Persons,     \* persons of HRworks
          Mails,       \* Persons -> [id, business]: mail addresses, business may be None
          Users,       \* ids of Jira users
          MailOf,      \* Users -> mail address
          Months,      \* months of a run, numbers
          None,
          MaxChanges   \* bound on changes outside the collector

VARIABLES hr,      \* HRworks: person -> months of employment, or None if not listed
          users,   \* table jira_users: ids with an account and a mail address
          denied,  \* setting denied_person_ids
          changes,
          roster,  \* table: person -> [user, months], or None
          stale,   \* the roster is older than roster_refresh_hours
          hours,   \* table: <<user, month>> -> person whose hours are stored, or None
          run      \* the running collector, or None

vars == <<hr, users, denied, changes, roster, stale, hours, run>>

Init == /\ hr \in [Persons -> {Months}]
        /\ users \in SUBSET Users
        /\ denied \in SUBSET Persons
        /\ changes = 0
        /\ roster = [p \in Persons |-> None]
        /\ stale = FALSE
        /\ hours = [c \in Users \X Months |-> None]
        /\ run = None

Listed(table) == {p \in Persons : table[p] # None}
-----------------------------------------------------------------------------
(* Persons come and go in HRworks, Jira users are added, the admin edits the list   *)
(* of denied persons, and time passes.                                             *)
Changed == changes < MaxChanges /\ changes' = changes + 1

EditPerson(p) == /\ Changed
                 /\ \E e \in ((SUBSET Months) \cup {None}) \ {hr[p]} : hr' = [hr EXCEPT ![p] = e]
                 /\ UNCHANGED <<users, denied, roster, stale, hours, run>>
AddUser(u) == /\ Changed
              /\ u \notin users
              /\ users' = users \cup {u}
              /\ UNCHANGED <<hr, denied, roster, stale, hours, run>>
EditDenied(p) == /\ Changed
                 /\ denied' = IF p \in denied THEN denied \ {p} ELSE denied \cup {p}
                 /\ UNCHANGED <<hr, users, roster, stale, hours, run>>
RosterAges == /\ ~stale
              /\ stale' = TRUE
              /\ UNCHANGED <<hr, users, denied, changes, roster, hours, run>>
-----------------------------------------------------------------------------
(* The configuration is loaded once, at the start of a run. *)
StartRun == /\ run = None
            /\ run' = [at |-> "roster", denied |-> denied, month |-> 0, todo |-> {}, asked |-> {}]
            /\ UNCHANGED <<hr, users, denied, changes, roster, stale, hours>>

RosterIsStale == stale \/ Listed(roster) = {}

(* One user per mail address, and of several the one with the lowest id. *)
Lookup(mail) == LET matching == {u \in users : MailOf[u] = mail}
                IN  IF matching = {} THEN None ELSE Min(matching)

(* The person id is tried first, then the business address. *)
ResolveJiraUser(p) ==
  IF Lookup(Mails[p].id) # None \/ Mails[p].business = None THEN Lookup(Mails[p].id)
  ELSE Lookup(Mails[p].business)

(* Persons that were not seen are removed, unless none was seen.  Without a person  *)
(* the roster keeps its age as well.                                               *)
Refreshed(seen) == [p \in Persons |->
                      IF p \in seen THEN [user |-> ResolveJiraUser(p), months |-> hr[p]]
                      ELSE IF seen = {} THEN roster[p] ELSE None]

RefreshRoster ==
  /\ run # None /\ run.at = "roster"
  /\ IF RosterIsStale
     THEN LET seen == Listed(hr) \ run.denied
          IN  /\ roster' = Refreshed(seen)
              /\ stale' = IF seen = {} THEN stale ELSE FALSE
     ELSE UNCHANGED <<roster, stale>>
  /\ run' = [run EXCEPT !.at = "month"]
  /\ UNCHANGED <<hr, users, denied, changes, hours>>

Eligible(p, month) == month \in roster[p].months

(* Mutant of SyncTargets: the roster alone says who is synchronised. *)
SyncTargetsOfRoster(month) == {p \in Listed(roster) : roster[p].user # None /\ Eligible(p, month)}

(* Persons of the roster with a Jira user who are employed in the month, without    *)
(* those that are denied by now: the roster may be older than the list.             *)
SyncTargets(month) == {p \in Listed(roster) : /\ p \notin run.denied
                                              /\ roster[p].user # None
                                              /\ Eligible(p, month)}

LaterMonths == {m \in Months : m > run.month}

BeginMonth == /\ run # None /\ run.at = "month" /\ run.todo = {}
              /\ IF LaterMonths = {} THEN run' = None
                 ELSE run' = [run EXCEPT !.month = Min(LaterMonths),
                                         !.todo = {<<p, roster[p].user>> :
                                                     p \in SyncTargets(Min(LaterMonths))}]
              /\ UNCHANGED <<hr, users, denied, changes, roster, stale, hours>>

(* The answer holds entries under the address of a person, which for one who has    *)
(* left carries a suffix; entries of other persons are put aside.                   *)
Answers == SUBSET Persons
Matching(answer, p) == answer \cap {p}

(* Of several entries the last one stays. *)
SyncPerson == /\ run # None
              /\ \E t \in run.todo, answer \in Answers :
                   /\ hours' = IF Matching(answer, t[1]) = {} THEN hours
                               ELSE [hours EXCEPT ![<<t[2], run.month>>] =
                                                    CHOOSE p \in Matching(answer, t[1]) : TRUE]
                   /\ run' = [run EXCEPT !.todo = @ \ {t}, !.asked = @ \cup {t[1]}]
              /\ UNCHANGED <<hr, users, denied, changes, roster, stale>>

(* A request that fails is noted, and the next person follows. *)
FetchFails == /\ run # None
              /\ \E t \in run.todo : run' = [run EXCEPT !.todo = @ \ {t}, !.asked = @ \cup {t[1]}]
              /\ UNCHANGED <<hr, users, denied, changes, roster, stale, hours>>

(* A fault of the database, a failed fetch of the roster, or the end of the process. *)
RunFails == /\ run # None
            /\ run' = None
            /\ UNCHANGED <<hr, users, denied, changes, roster, stale, hours>>

Outside == \/ \E p \in Persons : EditPerson(p) \/ EditDenied(p)
           \/ \E u \in Users : AddUser(u)
           \/ RosterAges

Next == \/ Outside
        \/ StartRun \/ RefreshRoster \/ BeginMonth \/ SyncPerson \/ FetchFails \/ RunFails

Spec == Init /\ [][Next]_vars
-----------------------------------------------------------------------------
TypeOK == /\ users \in SUBSET Users /\ denied \in SUBSET Persons /\ stale \in BOOLEAN
          /\ \A p \in Listed(roster) : /\ roster[p].user \in Users \cup {None}
                                       /\ roster[p].months \in SUBSET Months
          /\ hours \in [Users \X Months -> Persons \cup {None}]

(* Whatever the cached roster says, a run asks HRworks for no person that was       *)
(* denied when it started.                                                         *)
DeniedAreNotAsked == run # None => run.asked \cap run.denied = {}

(* However roster, users and answers change, the hours stored for a Jira user are   *)
(* those of a person with an address of that user.                                  *)
HoursBelong == \A u \in Users, m \in Months :
                 LET p == hours[<<u, m>>]
                 IN  p # None => MailOf[u] \in {Mails[p].id, Mails[p].business}

HrworksSafe == DeniedAreNotAsked /\ HoursBelong

(* No refresh empties a roster that had persons, not even when HRworks sends only   *)
(* denied ones or none.                                                             *)
KeepsRoster == Listed(roster) # {} => Listed(roster') # {}
RosterNeverEmptied == [][KeepsRoster]_vars
=============================================================================
