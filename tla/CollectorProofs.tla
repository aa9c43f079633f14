-------------------------- MODULE CollectorProofs --------------------------
(***************************************************************************)
(* What the collectors keep.  The hours stored for a Jira user are those   *)
(* of a person with an address of that user, a run asks for no person it   *)
(* knows to be denied, and no refresh empties the roster: for any persons, *)
(* users, addresses and months, whatever changes in HRworks, in Jira and   *)
(* in the settings while a cached roster is in use (HrworksData).  The     *)
(* tables of Jira issues stay whole and consistent, for any issues and     *)
(* keys, whatever is created, moved to another key, linked and deleted in  *)
(* Jira and whatever fails (JiraIngest, as Ingest).  A collection that is  *)
(* read page by page while it changes loses no more items than were        *)
(* removed from it, for any collection, page size and number of attempts   *)
(* (PagedFetch, as Fetch).  Workflows are found for every project and type *)
(* that Jira could be asked for, for any projects, schemes and chunks      *)
(* (WorkflowSync, as Flow), and a bug is judged on its evidence, whatever  *)
(* it carries (BugHealth, as Health).  A run covers the months it was      *)
(* asked for, over any turn of the year (HrworksPeriods, as Period).       *)
(***************************************************************************)
EXTENDS HrworksData, NaturalSets, SequenceTheorems

CONSTANTS Ids, Keys, Parents, First, MaxRuns, MaxEdits
VARIABLES jira, edits, table, session, ingest

Ingest == INSTANCE JiraIngest WITH run <- ingest

CONSTANTS Items, Kinds, PageSize, Caps, Attempts
VARIABLES kind, list, cap, base, inserted, touched, removed, offset, got, attempt, login, token, calls, outcome

Fetch == INSTANCE PagedFetch

CONSTANTS Projects, Types, Default, Workflows, Chunks, Batches, Refs, TypeStatuses, Named, MaxSteps
VARIABLES scheme, flows, mapping, last, steps

Flow == INSTANCE WorkflowSync WITH table <- flows

CONSTANTS Bugs, NextMinor, Plunet
VARIABLES bug, judged

Health == INSTANCE BugHealth

CONSTANTS Dates, Backs, Forecasts, FullYears, Forecast, Longest
VARIABLES today, mode, back, ahead, windows

Period == INSTANCE HrworksPeriods
-----------------------------------------------------------------------------
(* HRworks: the inductive invariant *)

Entry == [user : Users \cup {None}, months : SUBSET Months]

(* Users have numbers for ids, months are numbered, and no entry of the roster is
   the missing one. *)
Numbered == Users \subseteq Nat /\ Months \subseteq Nat
Distinct == None \notin Entry

Run == [at : {"roster", "month"}, denied : SUBSET Persons, month : Nat,
        todo : SUBSET (Persons \X Users), asked : SUBSET Persons]

TablesOK ==
    /\ hr \in [Persons -> (SUBSET Months) \cup {None}]
    /\ users \in SUBSET Users
    /\ denied \in SUBSET Persons
    /\ stale \in BOOLEAN
    /\ roster \in [Persons -> Entry \cup {None}]
    /\ hours \in [Users \X Months -> Persons \cup {None}]
    /\ run \in Run \cup {None}

(* The user has an address of the person. *)
SharesAddress(u, p) == MailOf[u] \in {Mails[p].id, Mails[p].business}

(* The roster maps persons to users with one of their addresses, however old it is. *)
RosterBelongs ==
    \A p \in Listed(roster) : roster[p].user # None => SharesAddress(roster[p].user, p)

(* So do the pairs a run has still to ask for, none of them denied at its start. *)
TodoBelongs ==
    run # None => \A t \in run.todo : t[1] \notin run.denied /\ SharesAddress(t[2], t[1])

HrworksInv == TablesOK /\ RosterBelongs /\ TodoBelongs /\ HrworksSafe

-----------------------------------------------------------------------------
(* Finding the Jira user of a person *)

LEMMA LookupFinds ==
  ASSUME Numbered, TablesOK, NEW mail
  PROVE  Lookup(mail) = None \/ (Lookup(mail) \in users /\ MailOf[Lookup(mail)] = mail)
<1> DEFINE matching == {u \in users : MailOf[u] = mail}
<1>1. matching \in SUBSET Nat
  BY DEF Numbered, TablesOK
<1>2. CASE matching = {}
  BY <1>2 DEF Lookup
<1>3. CASE matching # {}
  <2>1. Min(matching) \in matching
    <3> HIDE DEF matching
    <3> QED BY <1>1, <1>3, LeastNatural
  <2>2. Lookup(mail) = Min(matching)
    BY <1>3 DEF Lookup
  <2> QED BY <2>1, <2>2
<1> QED BY <1>2, <1>3

(* Whoever is found, along either address, has an address of the person. *)
LEMMA ResolvedBelongs ==
  ASSUME Numbered, TablesOK, NEW p \in Persons
  PROVE  /\ ResolveJiraUser(p) \in Users \cup {None}
         /\ ResolveJiraUser(p) # None => SharesAddress(ResolveJiraUser(p), p)
<1>1. \A mail \in {Mails[p].id, Mails[p].business} :
         Lookup(mail) = None \/ (Lookup(mail) \in users /\ MailOf[Lookup(mail)] = mail)
  BY LookupFinds
<1>2. ResolveJiraUser(p) \in {Lookup(Mails[p].id), Lookup(Mails[p].business)}
  BY DEF ResolveJiraUser
<1> QED BY <1>1, <1>2 DEF SharesAddress, TablesOK

-----------------------------------------------------------------------------
(* The steps *)

LEMMA RefreshedEntries ==
  ASSUME Numbered, TablesOK, RosterBelongs,
         NEW seen \in SUBSET Listed(hr), roster' = Refreshed(seen)
  PROVE  roster' \in [Persons -> Entry \cup {None}] /\ RosterBelongs'
<1>1. ASSUME NEW p \in Persons
      PROVE  /\ roster'[p] \in Entry \cup {None}
             /\ p \in Listed(roster') /\ roster'[p].user # None => SharesAddress(roster'[p].user, p)
  <2>1. CASE p \in seen
    <3>1. roster'[p] = [user |-> ResolveJiraUser(p), months |-> hr[p]]
      BY <2>1 DEF Refreshed
    <3>2. hr[p] \in SUBSET Months
      BY <2>1 DEF TablesOK, Listed
    <3>3. /\ ResolveJiraUser(p) \in Users \cup {None}
          /\ ResolveJiraUser(p) # None => SharesAddress(ResolveJiraUser(p), p)
      BY ResolvedBelongs
    <3>4. roster'[p].user = ResolveJiraUser(p)
      BY <3>1
    <3> QED BY <3>1, <3>2, <3>3, <3>4 DEF Entry
  <2>2. CASE p \notin seen /\ seen = {}
    <3>1. roster'[p] = roster[p]
      BY <2>2 DEF Refreshed
    <3> QED BY <3>1 DEF RosterBelongs, Listed, TablesOK
  <2>3. CASE p \notin seen /\ seen # {}
    BY <2>3 DEF Refreshed, Listed
  <2> QED BY <2>1, <2>2, <2>3
<1>2. roster' = [p \in Persons |-> roster'[p]]
  BY DEF Refreshed
<1> QED BY <1>1, <1>2 DEF RosterBelongs, Listed

LEMMA RunFields ==
  ASSUME TablesOK, run # None
  PROVE  /\ run \in Run
         /\ run.at \in {"roster", "month"} /\ run.denied \in SUBSET Persons /\ run.month \in Nat
         /\ run.todo \in SUBSET (Persons \X Users) /\ run.asked \in SUBSET Persons
  BY DEF TablesOK, Run

LEMMA TargetPairs ==
  ASSUME TablesOK, RosterBelongs, run # None, NEW m
  PROVE  \A t \in {<<p, roster[p].user>> : p \in SyncTargets(m)} :
            /\ t \in Persons \X Users
            /\ t[1] \notin run.denied /\ SharesAddress(t[2], t[1])
<1> SUFFICES ASSUME NEW p \in SyncTargets(m)
             PROVE  /\ <<p, roster[p].user>> \in Persons \X Users
                    /\ p \notin run.denied /\ SharesAddress(roster[p].user, p)
  OBVIOUS
<1>1. p \in Persons /\ roster[p] # None /\ p \notin run.denied /\ roster[p].user # None
  BY DEF SyncTargets, Listed
<1>2. roster[p] \in Entry
  BY <1>1 DEF TablesOK
<1> QED BY <1>1, <1>2 DEF Entry, RosterBelongs, Listed

LEMMA StartRunStep ==
  ASSUME HrworksInv, StartRun
  PROVE  HrworksInv'
<1>1. run' \in Run /\ run'.todo = {} /\ run'.asked = {}
  BY DEF HrworksInv, TablesOK, StartRun, Run
<1>2. UNCHANGED <<hr, users, denied, roster, stale, hours>>
  BY DEF StartRun
<1>3. TablesOK' /\ RosterBelongs' /\ HoursBelong'
  BY <1>1, <1>2 DEF HrworksInv, HrworksSafe, TablesOK, RosterBelongs, HoursBelong, Listed
<1> QED BY <1>1, <1>3 DEF HrworksInv, HrworksSafe, TodoBelongs, DeniedAreNotAsked

LEMMA RefreshRosterStep ==
  ASSUME Numbered, HrworksInv, RefreshRoster
  PROVE  HrworksInv'
<1>1. UNCHANGED <<hr, users, denied, hours>> /\ run # None /\ run' = [run EXCEPT !.at = "month"]
  BY DEF RefreshRoster
<1>2. /\ run' \in Run /\ run'.todo = run.todo /\ run'.asked = run.asked /\ run'.denied = run.denied
  BY <1>1, RunFields DEF HrworksInv, Run
<1>3. roster' \in [Persons -> Entry \cup {None}] /\ RosterBelongs' /\ stale' \in BOOLEAN
  <2>1. CASE RosterIsStale
    <3> DEFINE seen == Listed(hr) \ run.denied
    <3>1. seen \in SUBSET Listed(hr) /\ roster' = Refreshed(seen) /\ stale' = IF seen = {} THEN stale ELSE FALSE
      BY <2>1 DEF RefreshRoster
    <3> HIDE DEF seen
    <3> QED BY <3>1, RefreshedEntries DEF HrworksInv, TablesOK
  <2>2. CASE ~RosterIsStale
    BY <2>2 DEF RefreshRoster, HrworksInv, TablesOK, RosterBelongs, Listed
  <2> QED BY <2>1, <2>2
<1>4. TablesOK'
  BY <1>1, <1>2, <1>3 DEF HrworksInv, TablesOK
<1> QED BY <1>1, <1>2, <1>3, <1>4
        DEF HrworksInv, HrworksSafe, TodoBelongs, DeniedAreNotAsked, HoursBelong

LEMMA BeginMonthStep ==
  ASSUME Numbered, HrworksInv, BeginMonth
  PROVE  HrworksInv'
<1>1. UNCHANGED <<hr, users, denied, roster, stale, hours>> /\ run # None
  BY DEF BeginMonth
<1>2. RosterBelongs' /\ HoursBelong'
  BY <1>1 DEF HrworksInv, HrworksSafe, RosterBelongs, HoursBelong, Listed
<1>3. CASE LaterMonths = {}
  BY <1>1, <1>2, <1>3 DEF BeginMonth, HrworksInv, HrworksSafe, TablesOK, TodoBelongs, DeniedAreNotAsked
<1>4. CASE LaterMonths # {}
  <2> DEFINE m == Min(LaterMonths)
             pairs == {<<p, roster[p].user>> : p \in SyncTargets(m)}
  <2>1. m \in Nat
    BY <1>4, LeastNatural DEF LaterMonths, Numbered
  <2>2. run' = [run EXCEPT !.month = m, !.todo = pairs]
    BY <1>4 DEF BeginMonth
  <2>3. \A t \in pairs : t \in Persons \X Users /\ t[1] \notin run.denied /\ SharesAddress(t[2], t[1])
    BY <1>1, TargetPairs DEF HrworksInv
  <2> HIDE DEF m, pairs
  <2>4. pairs \in SUBSET (Persons \X Users)
    BY <2>3
  <2>5. run' \in Run /\ run'.todo = pairs /\ run'.denied = run.denied /\ run'.asked = run.asked
    BY <1>1, <2>1, <2>2, <2>4, RunFields DEF HrworksInv, Run
  <2>6. TablesOK'
    BY <1>1, <2>5 DEF HrworksInv, TablesOK
  <2>7. TodoBelongs' /\ DeniedAreNotAsked'
    BY <1>1, <2>3, <2>5 DEF HrworksInv, HrworksSafe, TodoBelongs, DeniedAreNotAsked, SharesAddress
  <2> QED BY <1>2, <2>6, <2>7 DEF HrworksInv, HrworksSafe
<1> QED BY <1>3, <1>4

(* One pair is done: the person is asked for, and is not denied. *)
LEMMA PairDone ==
  ASSUME HrworksInv, run # None, NEW t \in run.todo,
         run' = [run EXCEPT !.todo = @ \ {t}, !.asked = @ \cup {t[1]}]
  PROVE  run' \in Run /\ TodoBelongs' /\ DeniedAreNotAsked'
<1>1. t \in Persons \X Users /\ t[1] \in Persons
  BY RunFields DEF HrworksInv
<1>2. /\ run' \in Run /\ run'.todo = run.todo \ {t} /\ run'.denied = run.denied
      /\ run'.asked = run.asked \cup {t[1]}
  BY <1>1, RunFields DEF HrworksInv, Run
<1> QED BY <1>2 DEF HrworksInv, HrworksSafe, TodoBelongs, DeniedAreNotAsked, SharesAddress

LEMMA SyncPersonStep ==
  ASSUME HrworksInv, SyncPerson
  PROVE  HrworksInv'
<1>1. PICK t \in run.todo, answer \in Answers :
         /\ hours' = IF Matching(answer, t[1]) = {} THEN hours
                     ELSE [hours EXCEPT ![<<t[2], run.month>>] =
                                          CHOOSE p \in Matching(answer, t[1]) : TRUE]
         /\ run' = [run EXCEPT !.todo = @ \ {t}, !.asked = @ \cup {t[1]}]
  BY DEF SyncPerson
<1>2. UNCHANGED <<hr, users, denied, roster, stale>> /\ run # None
  BY DEF SyncPerson
<1>3. run' \in Run /\ TodoBelongs' /\ DeniedAreNotAsked'
  BY <1>1, <1>2, PairDone
<1>4. t[1] \in Persons /\ t[2] \in Users /\ SharesAddress(t[2], t[1])
  BY <1>2, RunFields DEF HrworksInv, TodoBelongs
<1>5. hours' = hours \/ hours' = [hours EXCEPT ![<<t[2], run.month>>] = t[1]]
  BY <1>1 DEF Matching
<1>6. hours' \in [Users \X Months -> Persons \cup {None}]
  BY <1>4, <1>5 DEF HrworksInv, TablesOK
<1>7. HoursBelong'
  <2> SUFFICES ASSUME NEW u \in Users, NEW m \in Months, hours'[<<u, m>>] # None
               PROVE  SharesAddress(u, hours'[<<u, m>>])
    BY DEF HoursBelong, SharesAddress
  <2>1. hours'[<<u, m>>] = hours[<<u, m>>] \/ (u = t[2] /\ hours'[<<u, m>>] = t[1])
    BY <1>5 DEF HrworksInv, TablesOK
  <2> QED BY <1>4, <2>1 DEF HrworksInv, HrworksSafe, HoursBelong, SharesAddress
<1>8. TablesOK' /\ RosterBelongs'
  BY <1>2, <1>3, <1>6 DEF HrworksInv, TablesOK, RosterBelongs, Listed
<1> QED BY <1>3, <1>7, <1>8 DEF HrworksInv, HrworksSafe

LEMMA FetchFailsStep ==
  ASSUME HrworksInv, FetchFails
  PROVE  HrworksInv'
<1>1. PICK t \in run.todo : run' = [run EXCEPT !.todo = @ \ {t}, !.asked = @ \cup {t[1]}]
  BY DEF FetchFails
<1>2. UNCHANGED <<hr, users, denied, roster, stale, hours>> /\ run # None
  BY DEF FetchFails
<1>3. run' \in Run /\ TodoBelongs' /\ DeniedAreNotAsked'
  BY <1>1, <1>2, PairDone
<1> QED BY <1>2, <1>3
        DEF HrworksInv, HrworksSafe, TablesOK, RosterBelongs, HoursBelong, Listed

LEMMA RunFailsStep ==
  ASSUME HrworksInv, RunFails
  PROVE  HrworksInv'
  BY DEF HrworksInv, HrworksSafe, RunFails, TablesOK, RosterBelongs, TodoBelongs,
         DeniedAreNotAsked, HoursBelong, Listed

(* What changes outside the collector touches neither the roster nor a run. *)
LEMMA OutsideStep ==
  ASSUME HrworksInv, Outside
  PROVE  HrworksInv'
<1>1. UNCHANGED <<roster, hours, run>>
  BY DEF Outside, EditPerson, EditDenied, AddUser, RosterAges
<1>2. /\ hr' \in [Persons -> (SUBSET Months) \cup {None}]
      /\ users' \in SUBSET Users /\ denied' \in SUBSET Persons /\ stale' \in BOOLEAN
  <2>1. ASSUME NEW p \in Persons, EditPerson(p) PROVE <1>2
    BY <2>1 DEF EditPerson, HrworksInv, TablesOK
  <2>2. ASSUME NEW p \in Persons, EditDenied(p) PROVE <1>2
    BY <2>2 DEF EditDenied, HrworksInv, TablesOK
  <2>3. ASSUME NEW u \in Users, AddUser(u) PROVE <1>2
    BY <2>3 DEF AddUser, HrworksInv, TablesOK
  <2>4. CASE RosterAges
    BY <2>4 DEF RosterAges, HrworksInv, TablesOK
  <2> QED BY <2>1, <2>2, <2>3, <2>4 DEF Outside
<1> QED BY <1>1, <1>2
        DEF HrworksInv, HrworksSafe, TablesOK, RosterBelongs, TodoBelongs, DeniedAreNotAsked,
            HoursBelong, Listed

LEMMA HrworksInvHolds ==
  ASSUME Numbered
  PROVE  Spec => []HrworksInv
<1>1. Init => HrworksInv
  BY DEF Init, HrworksInv, HrworksSafe, TablesOK, RosterBelongs, TodoBelongs,
         DeniedAreNotAsked, HoursBelong, Listed
<1>2. HrworksInv /\ [Next]_vars => HrworksInv'
  <2> SUFFICES ASSUME HrworksInv, [Next]_vars
               PROVE  HrworksInv'
    OBVIOUS
  <2>1. CASE UNCHANGED vars
    BY <2>1 DEF vars, HrworksInv, HrworksSafe, TablesOK, RosterBelongs, TodoBelongs,
                DeniedAreNotAsked, HoursBelong, Listed
  <2> QED BY <2>1, OutsideStep, StartRunStep, RefreshRosterStep, BeginMonthStep, SyncPersonStep,
             FetchFailsStep, RunFailsStep DEF Next
<1> QED BY <1>1, <1>2, PTL DEF Spec

-----------------------------------------------------------------------------
(* The roster, the settings and the hours keep their types: users of the roster are
   users or missing, hours are those of a person (roster.py, collector.py). *)
THEOREM HrworksTyped ==
  ASSUME Numbered
  PROVE  Spec => []TypeOK
<1>1. HrworksInv => TypeOK
  BY DEF HrworksInv, TablesOK, TypeOK, Listed, Entry
<1> QED BY <1>1, HrworksInvHolds, PTL

(* Whatever the cached roster says and however it ages, hours go to a Jira user who
   shares an address with their person, and no run asks for a person who was denied
   when it started (roster.py, person_mapping.py, collector.py). *)
THEOREM HoursAreOwn ==
  ASSUME Numbered
  PROVE  Spec => []HrworksSafe
<1>1. HrworksInv => HrworksSafe
  BY DEF HrworksInv
<1> QED BY <1>1, HrworksInvHolds, PTL

(* No refresh empties a roster that had persons, whatever HRworks sends and whoever
   is denied (refresh_hrworks_person_roster in roster.py). *)
THEOREM RosterStays ==
  ASSUME Numbered, Distinct
  PROVE  Spec => RosterNeverEmptied
<1>1. HrworksInv /\ [Next]_vars => [KeepsRoster]_vars
  <2> SUFFICES ASSUME HrworksInv, Next, Listed(roster) # {}
               PROVE  Listed(roster') # {}
    BY DEF KeepsRoster
  <2>1. CASE UNCHANGED roster
    BY <2>1 DEF Listed
  <2>2. CASE RefreshRoster /\ RosterIsStale
    <3> DEFINE seen == Listed(hr) \ run.denied
    <3>1. roster' = Refreshed(seen)
      BY <2>2 DEF RefreshRoster
    <3>2. CASE seen = {}
      BY <3>1, <3>2 DEF Refreshed, Listed
    <3>3. CASE seen # {}
      <4>1. PICK p \in seen : TRUE
        BY <3>3
      <4>2. p \in Persons /\ hr[p] \in SUBSET Months
        BY <4>1 DEF HrworksInv, TablesOK, Listed
      <4>3. roster'[p] = [user |-> ResolveJiraUser(p), months |-> hr[p]]
        BY <3>1, <4>1, <4>2 DEF Refreshed
      <4>4. roster'[p] \in Entry
        BY <4>2, <4>3, ResolvedBelongs DEF HrworksInv, Entry
      <4> QED BY <4>2, <4>4 DEF Listed, Distinct
    <3> QED BY <3>2, <3>3
  <2> QED BY <2>1, <2>2 DEF Next, Outside, EditPerson, EditDenied, AddUser, RosterAges, StartRun,
                            RefreshRoster, BeginMonth, SyncPerson, FetchFails, RunFails
<1> QED BY <1>1, HrworksInvHolds, PTL DEF Spec, RosterNeverEmptied
-----------------------------------------------------------------------------
(* Jira issues: databases *)

Issue == [id : Ids, key : Keys, up : Parents \cup {None}, parent : Ingest!Pks \cup {None},
          core : Nat, kids : [Ingest!Parts -> Nat], since : Nat]
Relation == [source : Ingest!Pks, key : Parents, target : Ingest!Pks \cup {None}]
Db == [issue : [Ingest!Pks -> Issue \cup {None}], relation : SUBSET Relation]

Remote == [key : Keys, up : Parents \cup {None}]
Fetched == [id : Ids, key : Keys, up : Parents \cup {None}]
Ingesting == [number : Nat, todo : SUBSET Fetched, seen : SUBSET Fetched, at : Fetched \cup {None},
              errors : BOOLEAN]

KeysDiffer(j) == \A a, b \in Ids : j[a] # None /\ j[b] # None /\ j[a].key = j[b].key => a = b

(* Jira begins with issues of different keys, and a missing value is none of the
   others. *)
Searchable == /\ IsFiniteSet(Ids)
              /\ \A j \in First : j \in [Ids -> Remote \cup {None}] /\ KeysDiffer(j)
              /\ None \notin Ingest!Pks \cup Issue \cup Db \cup Fetched

Unique(db) == \A p, q \in Ingest!Rows(db) : p # q => /\ db.issue[p].id # db.issue[q].id
                                                     /\ db.issue[p].key # db.issue[q].key
Refers(db) == /\ \A r \in db.relation : /\ r.source \in Ingest!Rows(db)
                                        /\ r.target \in Ingest!Rows(db) \cup {None}
              /\ \A pk \in Ingest!Rows(db) : db.issue[pk].parent \in Ingest!Rows(db) \cup {None}
Follows(db) == \A p, c \in Ingest!Rows(db) :
                  /\ db.issue[c].up = db.issue[p].key
                  /\ db.issue[p].since < db.issue[c].core
                  => db.issue[c].parent = p
Dated(db, n) == \A pk \in Ingest!Rows(db) : db.issue[pk].core <= n
Sane(db, n) == db \in Db /\ Unique(db) /\ Refers(db) /\ Follows(db) /\ Dated(db, n)

(* The issue is stored under its key, with its relation. *)
Linked(db, raw) ==
  \E pk \in Ingest!ById(db, raw.id) :
     /\ db.issue[pk].key = raw.key
     /\ raw.up # None => \E r \in db.relation : r.source = pk /\ r.key = raw.up

(* But for the reference to its parent, a row is as it was. *)
Alike(a, b) == a.id = b.id /\ a.key = b.key /\ a.up = b.up /\ a.core = b.core /\ a.kids = b.kids /\ a.since = b.since

LEMMA IssueFields ==
  ASSUME NEW row \in Issue
  PROVE  /\ row.id \in Ids /\ row.key \in Keys /\ row.up \in Parents \cup {None}
         /\ row.parent \in Ingest!Pks \cup {None} /\ row.core \in Nat
         /\ row.kids \in [Ingest!Parts -> Nat] /\ row.since \in Nat
  BY DEF Issue

LEMMA DbFields ==
  ASSUME NEW db \in Db
  PROVE  /\ db.issue \in [Ingest!Pks -> Issue \cup {None}] /\ db.relation \in SUBSET Relation
         /\ Ingest!Rows(db) \subseteq Ingest!Pks
         /\ \A pk \in Ingest!Rows(db) : db.issue[pk] \in Issue
  BY DEF Db, Ingest!Rows

(* The row of a key, when there is one *)
LEMMA TargetFound ==
  ASSUME Searchable, NEW db \in Db, Unique(db), NEW k
  PROVE  /\ Ingest!Target(db, k) \in Ingest!Rows(db) \cup {None}
         /\ \A p \in Ingest!Rows(db) : db.issue[p].key = k => Ingest!Target(db, k) = p
         /\ Ingest!Target(db, k) = None => Ingest!ByKey(db, k) = {}
         /\ Ingest!Target(db, k) # None => db.issue[Ingest!Target(db, k)].key = k
<1>1. CASE Ingest!ByKey(db, k) = {}
  BY <1>1 DEF Ingest!Target, Ingest!ByKey
<1>2. CASE Ingest!ByKey(db, k) # {}
  <2>1. Ingest!Target(db, k) \in Ingest!ByKey(db, k)
    BY <1>2 DEF Ingest!Target
  <2>2. Ingest!Target(db, k) \in Ingest!Rows(db) /\ db.issue[Ingest!Target(db, k)].key = k
    BY <2>1 DEF Ingest!ByKey
  <2>3. Ingest!Target(db, k) # None
    BY <2>2, DbFields DEF Searchable
  <2> QED BY <2>2, <2>3 DEF Unique
<1> QED BY <1>1, <1>2

-----------------------------------------------------------------------------
(* Deleting a row *)

LEMMA DeletedRows ==
  ASSUME Searchable, NEW db \in Db, NEW h \in Ingest!Rows(db), Refers(db)
  PROVE  LET new == Ingest!Deleted(db, h)
         IN  /\ new \in Db
             /\ Ingest!Rows(new) = Ingest!Rows(db) \ {h}
             /\ \A p \in Ingest!Rows(new) :
                   /\ Alike(new.issue[p], db.issue[p])
                   /\ new.issue[p].parent = IF db.issue[p].parent = h THEN None ELSE db.issue[p].parent
             /\ \A r \in new.relation : \E s \in db.relation :
                   /\ s.source # h /\ r.source = s.source /\ r.key = s.key
                   /\ r.target = IF s.target = h THEN None ELSE s.target
             /\ \A s \in db.relation : s.source # h =>
                   \E r \in new.relation : r.source = s.source /\ r.key = s.key
<1> DEFINE new == Ingest!Deleted(db, h)
           issue == [p \in Ingest!Pks |-> IF p = h THEN None ELSE Ingest!Orphaned(db.issue[p], h)]
           cut(r) == [r EXCEPT !.target = IF r.target = h THEN None ELSE r.target]
           relation == {cut(r) : r \in {r \in db.relation : r.source # h}}
<1>1. new.issue = issue /\ new.relation = relation /\ new = [issue |-> issue, relation |-> relation]
  BY DEF Ingest!Deleted
<1>2. /\ db.issue \in [Ingest!Pks -> Issue \cup {None}] /\ db.relation \in SUBSET Relation
      /\ Ingest!Rows(db) \subseteq Ingest!Pks
  BY DbFields
<1>3. ASSUME NEW p \in Ingest!Pks
      PROVE  LET row == Ingest!Orphaned(db.issue[p], h)
             IN  /\ db.issue[p] = None => row = None
                 /\ db.issue[p] \in Issue =>
                       /\ row \in Issue /\ Alike(row, db.issue[p])
                       /\ row.parent = IF db.issue[p].parent = h THEN None ELSE db.issue[p].parent
  <2> DEFINE old == db.issue[p]
             row == Ingest!Orphaned(old, h)
  <2>1. row = IF old = None \/ old.parent # h THEN old ELSE [old EXCEPT !.parent = None]
    BY DEF Ingest!Orphaned
  <2>2. CASE old = None \/ old.parent # h
    <3>1. row = old
      BY <2>1, <2>2
    <3>2. old = None => row = None
      BY <3>1
    <3>3. old \in Issue => old # None
      BY DEF Searchable
    <3>4. old \in Issue => Alike(row, old) /\ row \in Issue
      BY <3>1 DEF Alike
    <3>5. old \in Issue => row.parent = IF old.parent = h THEN None ELSE old.parent
      BY <2>2, <3>1, <3>3
    <3> QED BY <3>2, <3>4, <3>5
  <2>3. CASE ~(old = None \/ old.parent # h)
    <3>1. row = [old EXCEPT !.parent = None]
      BY <2>1, <2>3
    <3> HIDE DEF old, row
    <3>2. old \in Issue => Alike(row, old) /\ row \in Issue /\ row.parent = None
      BY <3>1 DEF Issue, Alike
    <3> QED BY <2>3, <3>2 DEF old, row
  <2> QED BY <2>2, <2>3
<1>4. issue \in [Ingest!Pks -> Issue \cup {None}]
  <2>1. \A p \in Ingest!Pks : Ingest!Orphaned(db.issue[p], h) \in Issue \cup {None}
    BY <1>2, <1>3
  <2> QED BY <2>1
<1>5. ASSUME NEW r \in Relation
      PROVE  /\ cut(r) \in Relation /\ cut(r).source = r.source /\ cut(r).key = r.key
             /\ cut(r).target = IF r.target = h THEN None ELSE r.target
  BY DEF Relation
<1>6. relation \in SUBSET Relation
  BY <1>2, <1>5
<1>7. new \in Db
  <2> HIDE DEF issue, relation, new
  <2> QED BY <1>1, <1>4, <1>6 DEF Db
<1>8. Ingest!Rows(new) = Ingest!Rows(db) \ {h}
  <2>1. \A p \in Ingest!Pks : issue[p] # None <=> p # h /\ db.issue[p] # None
    BY <1>2, <1>3 DEF Searchable
  <2> HIDE DEF issue
  <2> QED BY <1>1, <2>1 DEF Ingest!Rows
<1>9. ASSUME NEW p \in Ingest!Rows(new)
      PROVE  /\ Alike(new.issue[p], db.issue[p])
             /\ new.issue[p].parent = IF db.issue[p].parent = h THEN None ELSE db.issue[p].parent
  <2>1. p \in Ingest!Pks /\ p # h /\ db.issue[p] \in Issue
    BY <1>8, DbFields
  <2>2. new.issue[p] = Ingest!Orphaned(db.issue[p], h)
    BY <1>1, <2>1
  <2> QED BY <1>3, <2>1, <2>2
<1>10. \A r \in relation : \E s \in db.relation : s.source # h /\ r = cut(s)
  OBVIOUS
<1>11. \A s \in db.relation : s.source # h => cut(s) \in relation
  OBVIOUS
<1> HIDE DEF issue, relation, cut
<1> QED BY <1>1, <1>2, <1>5, <1>7, <1>8, <1>9, <1>10, <1>11

LEMMA DeletedSane ==
  ASSUME Searchable, NEW n \in Nat, NEW db, Sane(db, n), NEW h \in Ingest!Rows(db)
  PROVE  Sane(Ingest!Deleted(db, h), n)
<1> DEFINE new == Ingest!Deleted(db, h)
<1>1. /\ new \in Db
      /\ Ingest!Rows(new) = Ingest!Rows(db) \ {h}
      /\ \A p \in Ingest!Rows(new) :
            /\ Alike(new.issue[p], db.issue[p])
            /\ new.issue[p].parent = IF db.issue[p].parent = h THEN None ELSE db.issue[p].parent
      /\ \A r \in new.relation : \E s \in db.relation :
            /\ s.source # h /\ r.source = s.source /\ r.key = s.key
            /\ r.target = IF s.target = h THEN None ELSE s.target
  BY DeletedRows DEF Sane
<1> HIDE DEF new
<1>2. Unique(new)
  BY <1>1 DEF Sane, Unique, Alike
<1>3. Refers(new)
  BY <1>1 DEF Sane, Refers
<1>4. Follows(new)
  <2>1. SUFFICES ASSUME NEW p \in Ingest!Rows(new), NEW c \in Ingest!Rows(new),
                        new.issue[c].up = new.issue[p].key, new.issue[p].since < new.issue[c].core
                 PROVE  new.issue[c].parent = p
    BY DEF Follows
  <2>2. db.issue[c].parent = p
    BY <1>1, <2>1 DEF Sane, Follows, Alike
  <2> QED BY <1>1, <2>2
<1>5. Dated(new, n)
  BY <1>1 DEF Sane, Dated, Alike
<1> QED BY <1>1, <1>2, <1>3, <1>4, <1>5 DEF Sane, new

-----------------------------------------------------------------------------
(* Storing an issue *)

(* Rows are as they were but for one that held the key. *)
Cleared(new, db, raw) ==
  /\ Ingest!Rows(new) \subseteq Ingest!Rows(db)
  /\ \A p \in Ingest!Rows(new) : Alike(new.issue[p], db.issue[p])
  /\ \A p \in Ingest!Rows(db) \ Ingest!Rows(new) : db.issue[p].key = raw.key
  /\ \A s \in db.relation : s.source \in Ingest!Rows(new) =>
        \E r \in new.relation : r.source = s.source /\ r.key = s.key

(* The issue, once stored, has the key alone. *)
Alone(db, raw) ==
  Ingest!ById(db, raw.id) # {} =>
     \A p \in Ingest!Rows(db) : db.issue[p].key = raw.key => db.issue[p].id = raw.id

LEMMA HolderGoes ==
  ASSUME Searchable, NEW n \in Nat, NEW db, Sane(db, n), NEW raw \in Fetched
  PROVE  LET new == Ingest!WithoutHolder(db, raw)
         IN  Sane(new, n) /\ Cleared(new, db, raw) /\ Alone(new, raw)
<1> DEFINE new == Ingest!WithoutHolder(db, raw)
           h == Ingest!Target(db, raw.key)
<1>1. CASE Ingest!ById(db, raw.id) # {} /\ Ingest!ByKey(db, raw.key) \ Ingest!ById(db, raw.id) # {}
  <2>1. new = Ingest!Deleted(db, h)
    BY <1>1 DEF Ingest!WithoutHolder
  <2>2. h \in Ingest!Rows(db) /\ db.issue[h].key = raw.key /\ db.issue[h].id # raw.id
    <3>1. PICK p \in Ingest!Rows(db) : db.issue[p].key = raw.key /\ db.issue[p].id # raw.id
      BY <1>1 DEF Ingest!ByKey, Ingest!ById
    <3> QED BY <3>1, TargetFound DEF Sane
  <2> HIDE DEF h, new
  <2>3. Sane(new, n)
    BY <2>1, <2>2, DeletedSane
  <2>4. /\ Ingest!Rows(new) = Ingest!Rows(db) \ {h}
        /\ \A p \in Ingest!Rows(new) : Alike(new.issue[p], db.issue[p])
        /\ \A s \in db.relation : s.source # h =>
             \E r \in new.relation : r.source = s.source /\ r.key = s.key
    BY <2>1, <2>2, DeletedRows DEF Sane
  <2>5. \A p \in Ingest!Rows(new) : new.issue[p].key # raw.key
    BY <2>2, <2>4 DEF Sane, Unique, Alike
  <2> QED BY <2>2, <2>3, <2>4, <2>5 DEF new, Cleared, Alone
<1>2. CASE ~(Ingest!ById(db, raw.id) # {} /\ Ingest!ByKey(db, raw.key) \ Ingest!ById(db, raw.id) # {})
  <2>1. new = db
    BY <1>2 DEF Ingest!WithoutHolder
  <2>2. \A p \in Ingest!Rows(db) : Alike(db.issue[p], db.issue[p])
    BY DEF Alike
  <2>3. Ingest!ById(db, raw.id) # {} =>
           \A p \in Ingest!Rows(db) : db.issue[p].key = raw.key => db.issue[p].id = raw.id
    BY <1>2 DEF Ingest!ByKey, Ingest!ById
  <2> HIDE DEF new
  <2> QED BY <2>1, <2>2, <2>3 DEF new, Cleared, Alone
<1> QED BY <1>1, <1>2

LEMMA SameLeast ==
  ASSUME NEW S
  PROVE  Ingest!Min(S) = Min(S)
  BY DEF Min, Ingest!Min

LEMMA PrimaryKeys ==
  ASSUME Searchable
  PROVE  /\ Ingest!Pks = 1..(Cardinality(Ids) + 1) /\ Cardinality(Ids) \in Nat
         /\ IsFiniteSet(Ingest!Pks) /\ Cardinality(Ingest!Pks) = Cardinality(Ids) + 1
<1>1. Ingest!Cardinality(Ids) = Cardinality(Ids)
  BY DEF Cardinality, Ingest!Cardinality
<1>2. Ingest!Pks = 1..(Cardinality(Ids) + 1) /\ Cardinality(Ids) \in Nat
  BY <1>1, FS_CardinalityType DEF Ingest!Pks, Searchable
<1> DEFINE m == Cardinality(Ids) + 1
<1>3. m \in Int /\ m >= 1
  BY <1>2
<1> HIDE DEF m
<1>4. IsFiniteSet(1..m) /\ Cardinality(1..m) = IF 1 > m THEN 0 ELSE m - 1 + 1
  BY <1>3, FS_Interval
<1> QED BY <1>2, <1>3, <1>4 DEF m

(* There are more primary keys than issues. *)
LEMMA FreeKey ==
  ASSUME Searchable, NEW db \in Db, Unique(db)
  PROVE  Ingest!Pks \ Ingest!Rows(db) # {} /\ Ingest!Min(Ingest!Pks \ Ingest!Rows(db)) \in Ingest!Pks \ Ingest!Rows(db)
<1>1. ASSUME Ingest!Pks \ Ingest!Rows(db) = {} PROVE FALSE
  <2> DEFINE f == [pk \in Ingest!Pks |-> db.issue[pk].id]
  <2>1. \A pk \in Ingest!Pks : pk \in Ingest!Rows(db) /\ db.issue[pk].id \in Ids
    BY <1>1, DbFields, IssueFields
  <2>2. f \in [Ingest!Pks -> Ids]
    BY <2>1
  <2>3. Cardinality(Ids) < Cardinality(Ingest!Pks)
    BY PrimaryKeys
  <2>4. \E x, y \in Ingest!Pks : x # y /\ f[x] = f[y]
    <3> HIDE DEF f
    <3> QED BY <2>2, <2>3, PrimaryKeys, FS_PigeonHole DEF Searchable
  <2> QED BY <2>1, <2>4 DEF Unique
<1>2. Ingest!Pks \ Ingest!Rows(db) \in SUBSET Nat
  BY PrimaryKeys
<1>3. Min(Ingest!Pks \ Ingest!Rows(db)) \in Ingest!Pks \ Ingest!Rows(db)
  <2> DEFINE free == Ingest!Pks \ Ingest!Rows(db)
  <2>1. free \in SUBSET Nat /\ free # {}
    BY <1>1, <1>2
  <2> HIDE DEF free
  <2>2. Min(free) \in free
    BY <2>1, LeastNatural
  <2> QED BY <2>2 DEF free
<1> QED BY <1>1, <1>3, SameLeast

(* The row that is written holds the issue, its key, or nothing. *)
LEMMA RowFound ==
  ASSUME Searchable, NEW db \in Db, Unique(db), NEW raw \in Fetched, Alone(db, raw)
  PROVE  LET pk == Ingest!IssueRow(db, raw)
         IN  /\ pk \in Ingest!Pks
             /\ pk \in Ingest!Rows(db) => db.issue[pk].id = raw.id \/ db.issue[pk].key = raw.key
             /\ \A q \in Ingest!Rows(db) \ {pk} : db.issue[q].id # raw.id /\ db.issue[q].key # raw.key
<1> DEFINE pk == Ingest!IssueRow(db, raw)
<1>1. CASE Ingest!ById(db, raw.id) # {}
  <2>1. pk \in Ingest!ById(db, raw.id)
    BY <1>1 DEF Ingest!IssueRow
  <2> HIDE DEF pk
  <2>2. pk \in Ingest!Rows(db) /\ db.issue[pk].id = raw.id
    BY <2>1 DEF Ingest!ById
  <2>3. \A q \in Ingest!Rows(db) \ {pk} : db.issue[q].id # raw.id /\ db.issue[q].key # raw.key
    BY <1>1, <2>2 DEF Unique, Alone
  <2> QED BY <2>2, <2>3, DbFields DEF pk
<1>2. CASE Ingest!ById(db, raw.id) = {} /\ Ingest!ByKey(db, raw.key) # {}
  <2>1. pk = Ingest!Target(db, raw.key)
    BY <1>2 DEF Ingest!IssueRow
  <2>2. pk \in Ingest!Rows(db) /\ db.issue[pk].key = raw.key
    BY <1>2, <2>1, TargetFound
  <2> HIDE DEF pk
  <2>3. \A q \in Ingest!Rows(db) \ {pk} : db.issue[q].id # raw.id /\ db.issue[q].key # raw.key
    BY <1>2, <2>2 DEF Unique, Ingest!ById
  <2> QED BY <2>2, <2>3, DbFields DEF pk
<1>3. CASE Ingest!ById(db, raw.id) = {} /\ Ingest!ByKey(db, raw.key) = {}
  <2>1. pk = Ingest!Min(Ingest!Pks \ Ingest!Rows(db))
    BY <1>3 DEF Ingest!IssueRow
  <2>2. pk \in Ingest!Pks \ Ingest!Rows(db)
    BY <2>1, FreeKey
  <2> HIDE DEF pk
  <2>3. \A q \in Ingest!Rows(db) \ {pk} : db.issue[q].id # raw.id /\ db.issue[q].key # raw.key
    BY <1>3 DEF Ingest!ById, Ingest!ByKey
  <2> QED BY <2>2, <2>3 DEF pk
<1> QED BY <1>1, <1>2, <1>3

(* The row that is written, but for its parent, and the other rows *)
LEMMA IssueWritten ==
  ASSUME Searchable, ingest \in Ingesting, NEW db, Sane(db, ingest.number), NEW raw \in Fetched
  PROVE  LET cleared == Ingest!WithoutHolder(db, raw)
             pk == Ingest!IssueRow(cleared, raw)
             before == cleared.issue[pk]
             new == Ingest!UpsertedIssue(db, raw)
         IN  /\ new \in Db /\ new.relation = cleared.relation /\ pk \in Ingest!Pks
             /\ Ingest!Rows(new) = Ingest!Rows(cleared) \cup {pk}
             /\ \A q \in Ingest!Pks \ {pk} : new.issue[q] = cleared.issue[q]
             /\ new.issue[pk].id = raw.id /\ new.issue[pk].key = raw.key /\ new.issue[pk].up = raw.up
             /\ new.issue[pk].core = ingest.number
             /\ new.issue[pk].since = ingest.number
                  \/ (pk \in Ingest!Rows(cleared) /\ before.key = raw.key /\ new.issue[pk].since = before.since)
             /\ new.issue[pk].parent \in Ingest!Rows(new) \cup {None}
             /\ \A p \in Ingest!Rows(new) :
                   new.issue[p].key = raw.up /\ (p # pk \/ pk \notin Ingest!Rows(cleared) \/ before.key = raw.key)
                     => new.issue[pk].parent = p
<1> DEFINE n == ingest.number
           cleared == Ingest!WithoutHolder(db, raw)
           pk == Ingest!IssueRow(cleared, raw)
           before == cleared.issue[pk]
           since == IF before # None THEN IF before.key = raw.key THEN before.since ELSE n ELSE n
           kids == IF before = None THEN Ingest!NoKids ELSE before.kids
           named == [id |-> raw.id, key |-> raw.key, up |-> raw.up, parent |-> None,
                     core |-> n, kids |-> kids, since |-> since]
           stored == [cleared EXCEPT !.issue[pk] = named]
           parent == Ingest!Target(IF before = None THEN stored ELSE cleared, raw.up)
           new == [stored EXCEPT !.issue[pk].parent = parent]
<1>1. Ingest!UpsertedIssue(db, raw) = new
  BY DEF Ingest!UpsertedIssue
<1>2. /\ n \in Nat /\ raw.id \in Ids /\ raw.key \in Keys /\ raw.up \in Parents \cup {None}
  BY DEF Ingesting, Fetched
<1>3. cleared \in Db /\ Unique(cleared) /\ Alone(cleared, raw)
  BY <1>2, HolderGoes DEF Sane
<1> HIDE DEF cleared
<1>4. /\ pk \in Ingest!Pks
      /\ \A q \in Ingest!Rows(cleared) \ {pk} : cleared.issue[q].id # raw.id /\ cleared.issue[q].key # raw.key
  BY <1>3, RowFound
<1> HIDE DEF pk
<1>5. /\ before \in Issue \cup {None} /\ (before # None <=> pk \in Ingest!Rows(cleared))
      /\ cleared.issue \in [Ingest!Pks -> Issue \cup {None}]
      /\ cleared = [issue |-> cleared.issue, relation |-> cleared.relation]
  BY <1>3, <1>4 DEF Db, Ingest!Rows
<1>6. since \in Nat /\ kids \in [Ingest!Parts -> Nat]
  BY <1>2, <1>5, IssueFields DEF Ingest!NoKids
<1>7. since = n \/ (pk \in Ingest!Rows(cleared) /\ before.key = raw.key /\ since = before.since)
  BY <1>5
<1> HIDE DEF since, kids, before, n
<1>8. /\ named \in Issue /\ named.id = raw.id /\ named.key = raw.key /\ named.up = raw.up
      /\ named.core = n /\ named.since = since
  BY <1>2, <1>6 DEF Issue
<1> HIDE DEF named
<1>9. stored.issue = [cleared.issue EXCEPT ![pk] = named] /\ stored.relation = cleared.relation
      /\ stored = [issue |-> stored.issue, relation |-> stored.relation]
  BY <1>5
<1> HIDE DEF stored
<1>10. /\ stored \in Db /\ stored.issue[pk] = named
       /\ \A q \in Ingest!Pks \ {pk} : stored.issue[q] = cleared.issue[q]
  <2>1. stored.issue \in [Ingest!Pks -> Issue \cup {None}]
    BY <1>4, <1>5, <1>8, <1>9
  <2>2. cleared.relation \in SUBSET Relation
    BY <1>3, DbFields
  <2>3. stored \in Db
    BY <1>9, <2>1, <2>2 DEF Db
  <2> QED BY <1>4, <1>5, <1>9, <2>3
<1>11. Ingest!Rows(stored) = Ingest!Rows(cleared) \cup {pk}
  BY <1>4, <1>8, <1>10 DEF Ingest!Rows, Searchable
<1>12. Unique(stored)
  BY <1>3, <1>4, <1>8, <1>10, <1>11, DbFields DEF Unique
<1>13. /\ parent \in Ingest!Rows(stored) \cup {None}
       /\ \A p \in Ingest!Rows(stored) :
             stored.issue[p].key = raw.up /\ (p # pk \/ pk \notin Ingest!Rows(cleared) \/ before.key = raw.key)
               => parent = p
  <2>1. CASE before = None
    BY <1>10, <1>12, <2>1, TargetFound
  <2>2. CASE before # None
    <3>1. parent = Ingest!Target(cleared, raw.up) /\ pk \in Ingest!Rows(cleared)
      BY <1>5, <2>2
    <3>2. /\ parent \in Ingest!Rows(cleared) \cup {None}
          /\ \A p \in Ingest!Rows(cleared) : cleared.issue[p].key = raw.up => parent = p
      BY <1>3, <3>1, TargetFound
    <3>3. ASSUME NEW p \in Ingest!Rows(stored), stored.issue[p].key = raw.up, p # pk \/ before.key = raw.key
          PROVE  p \in Ingest!Rows(cleared) /\ cleared.issue[p].key = raw.up
      <4>1. CASE p # pk
        BY <1>10, <1>11, <3>3, <4>1, DbFields
      <4>2. CASE p = pk
        BY <1>8, <1>10, <3>1, <3>3, <4>2 DEF before
      <4> QED BY <4>1, <4>2
    <3> QED BY <1>11, <3>1, <3>2, <3>3
  <2> QED BY <2>1, <2>2
<1> HIDE DEF parent
<1> DEFINE row == [named EXCEPT !.parent = parent]
<1>14. /\ row \in Issue /\ row.id = raw.id /\ row.key = raw.key /\ row.up = raw.up
       /\ row.core = n /\ row.since = since /\ row.parent = parent
  <2>1. parent \in Ingest!Pks \cup {None}
    BY <1>10, <1>13, DbFields
  <2> QED BY <1>8, <2>1 DEF Issue
<1>15. new.issue = [stored.issue EXCEPT ![pk] = row] /\ new.relation = stored.relation
       /\ new = [issue |-> new.issue, relation |-> new.relation]
  BY <1>4, <1>9, <1>10, DbFields
<1> HIDE DEF new, row
<1>16. /\ new \in Db /\ new.issue[pk] = row
       /\ \A q \in Ingest!Pks \ {pk} : new.issue[q] = stored.issue[q]
  <2>1. stored.issue \in [Ingest!Pks -> Issue \cup {None}] /\ stored.relation \in SUBSET Relation
    BY <1>10, DbFields
  <2>2. new.issue \in [Ingest!Pks -> Issue \cup {None}]
    BY <1>4, <1>14, <1>15, <2>1
  <2>3. new \in Db
    BY <1>15, <2>1, <2>2 DEF Db
  <2> QED BY <1>4, <1>15, <2>1, <2>3
<1>17. Ingest!Rows(new) = Ingest!Rows(stored)
  BY <1>4, <1>8, <1>10, <1>14, <1>16 DEF Ingest!Rows, Searchable
<1>18. ASSUME NEW p \in Ingest!Rows(new), new.issue[p].key = raw.up,
              p # pk \/ pk \notin Ingest!Rows(cleared) \/ before.key = raw.key
       PROVE  parent = p
  <2>1. stored.issue[p].key = new.issue[p].key
    BY <1>8, <1>10, <1>14, <1>16, <1>17, DbFields
  <2> QED BY <1>13, <1>17, <1>18, <2>1
<1>19. /\ new \in Db /\ new.relation = cleared.relation /\ pk \in Ingest!Pks
       /\ Ingest!Rows(new) = Ingest!Rows(cleared) \cup {pk}
       /\ \A q \in Ingest!Pks \ {pk} : new.issue[q] = cleared.issue[q]
  BY <1>4, <1>9, <1>10, <1>11, <1>15, <1>16, <1>17
<1>20. new.issue[pk].parent = parent /\ parent \in Ingest!Rows(new) \cup {None}
  BY <1>13, <1>14, <1>16, <1>17
<1>21. /\ new.issue[pk].id = raw.id /\ new.issue[pk].key = raw.key /\ new.issue[pk].up = raw.up
       /\ new.issue[pk].core = n
       /\ new.issue[pk].since = n
            \/ (pk \in Ingest!Rows(cleared) /\ before.key = raw.key /\ new.issue[pk].since = before.since)
  BY <1>7, <1>14, <1>16
<1> QED BY <1>1, <1>18, <1>19, <1>20, <1>21 DEF n, before, pk, cleared

(* What stays true of the database, and that no other issue of different id and key
   loses its row or relation *)
LEMMA IssueStored ==
  ASSUME Searchable, ingest \in Ingesting, NEW db, Sane(db, ingest.number), NEW raw \in Fetched
  PROVE  LET new == Ingest!UpsertedIssue(db, raw)
         IN  /\ Sane(new, ingest.number)
             /\ \E pk \in Ingest!ById(new, raw.id) : new.issue[pk].key = raw.key /\ new.issue[pk].core = ingest.number
             /\ \A q \in Ingest!Rows(new) :
                   new.issue[q].id = raw.id \/ (q \in Ingest!Rows(db) /\ Alike(new.issue[q], db.issue[q]))
             /\ \A other \in Fetched :
                   other.id # raw.id /\ other.key # raw.key /\ Linked(db, other) => Linked(new, other)
<1> DEFINE n == ingest.number
           cleared == Ingest!WithoutHolder(db, raw)
           pk == Ingest!IssueRow(cleared, raw)
           before == cleared.issue[pk]
           new == Ingest!UpsertedIssue(db, raw)
<1>1. n \in Nat
  BY DEF Ingesting
<1>2. /\ new \in Db /\ new.relation = cleared.relation /\ pk \in Ingest!Pks
      /\ Ingest!Rows(new) = Ingest!Rows(cleared) \cup {pk}
      /\ \A q \in Ingest!Pks \ {pk} : new.issue[q] = cleared.issue[q]
      /\ new.issue[pk].id = raw.id /\ new.issue[pk].key = raw.key /\ new.issue[pk].up = raw.up
      /\ new.issue[pk].core = n
      /\ new.issue[pk].since = n
           \/ (pk \in Ingest!Rows(cleared) /\ before.key = raw.key /\ new.issue[pk].since = before.since)
      /\ new.issue[pk].parent \in Ingest!Rows(new) \cup {None}
      /\ \A p \in Ingest!Rows(new) :
            new.issue[p].key = raw.up /\ (p # pk \/ pk \notin Ingest!Rows(cleared) \/ before.key = raw.key)
              => new.issue[pk].parent = p
  BY IssueWritten
<1>3. Sane(cleared, n) /\ Cleared(cleared, db, raw) /\ Alone(cleared, raw)
  BY <1>1, HolderGoes
<1> HIDE DEF cleared, new, n
<1>4. /\ cleared \in Db /\ Unique(cleared) /\ Refers(cleared) /\ Follows(cleared) /\ Dated(cleared, n)
  BY <1>3 DEF Sane
<1>5. /\ pk \in Ingest!Rows(cleared) => before.id = raw.id \/ before.key = raw.key
      /\ \A q \in Ingest!Rows(cleared) \ {pk} : cleared.issue[q].id # raw.id /\ cleared.issue[q].key # raw.key
  BY <1>3, <1>4, RowFound
<1> HIDE DEF pk
<1>6. /\ Ingest!Rows(cleared) \subseteq Ingest!Pks /\ Ingest!Rows(new) \subseteq Ingest!Pks
      /\ \A q \in Ingest!Rows(cleared) : cleared.issue[q] \in Issue
      /\ \A q \in Ingest!Rows(new) : new.issue[q] \in Issue
  BY <1>2, <1>4, DbFields
<1>7. \A q \in Ingest!Rows(new) : q = pk \/ (q \in Ingest!Rows(cleared) /\ new.issue[q] = cleared.issue[q])
  BY <1>2, <1>6
<1>8. Unique(new)
  BY <1>2, <1>4, <1>5, <1>7 DEF Unique
<1>9. Refers(new)
  <2>1. \A q \in Ingest!Rows(new) : new.issue[q].parent \in Ingest!Rows(new) \cup {None}
    BY <1>2, <1>4, <1>7 DEF Refers
  <2>2. \A r \in new.relation : r.source \in Ingest!Rows(new) /\ r.target \in Ingest!Rows(new) \cup {None}
    BY <1>2, <1>4 DEF Refers
  <2> QED BY <2>1, <2>2 DEF Refers
<1>10. Dated(new, n)
  BY <1>1, <1>2, <1>4, <1>7 DEF Dated
<1>11. Follows(new)
  <2>1. SUFFICES ASSUME NEW p \in Ingest!Rows(new), NEW c \in Ingest!Rows(new),
                        new.issue[c].up = new.issue[p].key, new.issue[p].since < new.issue[c].core
                 PROVE  new.issue[c].parent = p
    BY DEF Follows
  <2>2. new.issue[p].since \in Nat /\ new.issue[c].core \in Nat /\ new.issue[c].core <= n
    BY <1>6, <1>10, IssueFields DEF Dated
  <2>3. CASE p = pk
    <3>1. pk \in Ingest!Rows(cleared) /\ before.key = raw.key /\ new.issue[pk].since = before.since
      BY <1>1, <1>2, <2>1, <2>2, <2>3
    <3>2. CASE c = pk
      BY <1>2, <2>1, <2>3, <3>1, <3>2
    <3>3. CASE c # pk
      <4>1. c \in Ingest!Rows(cleared) /\ new.issue[c] = cleared.issue[c]
        BY <1>7, <3>3
      <4>2. cleared.issue[c].up = cleared.issue[pk].key /\ cleared.issue[pk].since < cleared.issue[c].core
        BY <1>2, <2>1, <2>3, <3>1, <4>1
      <4> QED BY <1>4, <2>3, <3>1, <4>1, <4>2 DEF Follows
    <3> QED BY <3>2, <3>3
  <2>4. CASE p # pk
    <3>1. p \in Ingest!Rows(cleared) /\ new.issue[p] = cleared.issue[p]
      BY <1>7, <2>4
    <3>2. CASE c = pk
      BY <1>2, <2>1, <2>4, <3>2
    <3>3. CASE c # pk
      <4>1. c \in Ingest!Rows(cleared) /\ new.issue[c] = cleared.issue[c]
        BY <1>7, <3>3
      <4> QED BY <1>4, <2>1, <3>1, <4>1 DEF Follows
    <3> QED BY <3>2, <3>3
  <2> QED BY <2>3, <2>4
<1>12. Sane(new, n)
  BY <1>2, <1>8, <1>9, <1>10, <1>11 DEF Sane
<1>13. pk \in Ingest!ById(new, raw.id)
  BY <1>2 DEF Ingest!ById
<1>14. \A q \in Ingest!Rows(new) :
          new.issue[q].id = raw.id \/ (q \in Ingest!Rows(db) /\ Alike(new.issue[q], db.issue[q]))
  BY <1>2, <1>3, <1>7 DEF Cleared
<1>15. ASSUME NEW other \in Fetched, other.id # raw.id, other.key # raw.key, Linked(db, other)
       PROVE  Linked(new, other)
  <2>1. PICK q \in Ingest!ById(db, other.id) :
           /\ db.issue[q].key = other.key
           /\ other.up # None => \E r \in db.relation : r.source = q /\ r.key = other.up
    BY <1>15 DEF Linked
  <2>2. q \in Ingest!Rows(db) /\ db.issue[q].id = other.id
    BY DEF Ingest!ById
  <2>3. q \in Ingest!Rows(cleared) /\ cleared.issue[q].id = other.id /\ cleared.issue[q].key = other.key
    BY <1>3, <1>15, <2>1, <2>2 DEF Alike, Cleared
  <2>4. q # pk
    BY <1>5, <1>15, <2>3 DEF before
  <2>5. q \in Ingest!ById(new, other.id) /\ new.issue[q].key = other.key
    BY <1>2, <1>6, <2>3, <2>4 DEF Ingest!ById
  <2>6. other.up # None => \E r \in new.relation : r.source = q /\ r.key = other.up
    BY <1>2, <1>3, <2>1, <2>3 DEF Cleared
  <2> QED BY <2>5, <2>6 DEF Linked
<1>16. \E row \in Ingest!ById(new, raw.id) : new.issue[row].key = raw.key /\ new.issue[row].core = n
  BY <1>2, <1>13
<1> QED BY <1>12, <1>14, <1>15, <1>16 DEF n, new

-----------------------------------------------------------------------------
(* Storing what belongs to an issue *)

OnlyKids(new, db, pk) ==
  /\ new \in Db /\ new.relation = db.relation /\ Ingest!Rows(new) = Ingest!Rows(db)
  /\ \A q \in Ingest!Pks \ {pk} : new.issue[q] = db.issue[q]
  /\ new.issue[pk].id = db.issue[pk].id /\ new.issue[pk].key = db.issue[pk].key
  /\ new.issue[pk].up = db.issue[pk].up /\ new.issue[pk].parent = db.issue[pk].parent
  /\ new.issue[pk].core = db.issue[pk].core /\ new.issue[pk].since = db.issue[pk].since

LEMMA PartStored ==
  ASSUME Searchable, ingest \in Ingesting, NEW db \in Db, NEW pk \in Ingest!Rows(db), NEW part \in Ingest!Parts
  PROVE  LET new == Ingest!With(db, pk, part)
         IN  /\ OnlyKids(new, db, pk)
             /\ new.issue[pk].kids = [db.issue[pk].kids EXCEPT ![part] = ingest.number]
<1> DEFINE new == Ingest!With(db, pk, part)
           row == [db.issue[pk] EXCEPT !.kids[part] = ingest.number]
<1>1. /\ ingest.number \in Nat /\ pk \in Ingest!Pks /\ db.issue[pk] \in Issue
      /\ db.issue \in [Ingest!Pks -> Issue \cup {None}] /\ db.relation \in SUBSET Relation
      /\ db = [issue |-> db.issue, relation |-> db.relation]
  BY DbFields DEF Ingesting, Db
<1>2. new.issue = [db.issue EXCEPT ![pk] = row] /\ new.relation = db.relation
      /\ new = [issue |-> new.issue, relation |-> new.relation]
  BY <1>1 DEF Ingest!With
<1>3. /\ row \in Issue /\ row.id = db.issue[pk].id /\ row.key = db.issue[pk].key
      /\ row.up = db.issue[pk].up /\ row.parent = db.issue[pk].parent
      /\ row.core = db.issue[pk].core /\ row.since = db.issue[pk].since
      /\ row.kids = [db.issue[pk].kids EXCEPT ![part] = ingest.number]
  BY <1>1 DEF Issue
<1> HIDE DEF row, new
<1>4. new.issue \in [Ingest!Pks -> Issue \cup {None}] /\ new.issue[pk] = row
      /\ \A q \in Ingest!Pks \ {pk} : new.issue[q] = db.issue[q]
  BY <1>1, <1>2, <1>3
<1>5. new \in Db
  BY <1>1, <1>2, <1>4 DEF Db
<1>6. Ingest!Rows(new) = Ingest!Rows(db)
  BY <1>1, <1>3, <1>4 DEF Ingest!Rows, Searchable
<1> QED BY <1>2, <1>3, <1>4, <1>5, <1>6 DEF OnlyKids, new

LEMMA KidsTransitive ==
  ASSUME NEW a, NEW b, NEW c, NEW pk, OnlyKids(b, a, pk), OnlyKids(c, b, pk)
  PROVE  OnlyKids(c, a, pk)
  BY DEF OnlyKids

LEMMA KidsSane ==
  ASSUME Searchable, NEW n, NEW db, NEW new, NEW pk \in Ingest!Rows(db), Sane(db, n), OnlyKids(new, db, pk)
  PROVE  Sane(new, n) /\ \A q \in Ingest!Rows(db) : new.issue[q].id = db.issue[q].id /\ new.issue[q].key = db.issue[q].key
<1>1. /\ new \in Db /\ new.relation = db.relation /\ Ingest!Rows(new) = Ingest!Rows(db)
      /\ \A q \in Ingest!Rows(db) :
           /\ new.issue[q].id = db.issue[q].id /\ new.issue[q].key = db.issue[q].key
           /\ new.issue[q].up = db.issue[q].up /\ new.issue[q].parent = db.issue[q].parent
           /\ new.issue[q].core = db.issue[q].core /\ new.issue[q].since = db.issue[q].since
  <2>1. db \in Db
    BY DEF Sane
  <2> QED BY <2>1, DbFields DEF OnlyKids
<1>2. Unique(new)
  BY <1>1 DEF Sane, Unique
<1>3. Refers(new)
  BY <1>1 DEF Sane, Refers
<1>4. Follows(new)
  BY <1>1 DEF Sane, Follows
<1>5. Dated(new, n)
  BY <1>1 DEF Sane, Dated
<1> QED BY <1>1, <1>2, <1>3, <1>4, <1>5 DEF Sane

(* The five parts *)
LEMMA PartsStored ==
  ASSUME Searchable, ingest \in Ingesting, NEW db \in Db, NEW pk \in Ingest!Rows(db)
  PROVE  LET new == Ingest!UpsertTransitions(Ingest!UpsertWorklogs(Ingest!UpsertSprints(
                      Ingest!UpsertFieldValues(Ingest!UpsertDetail(db, pk), pk), pk), pk), pk)
         IN  /\ OnlyKids(new, db, pk)
             /\ \A part \in Ingest!Parts : new.issue[pk].kids[part] = ingest.number
<1> DEFINE a == Ingest!UpsertDetail(db, pk)
           b == Ingest!UpsertFieldValues(a, pk)
           c == Ingest!UpsertSprints(b, pk)
           d == Ingest!UpsertWorklogs(c, pk)
           e == Ingest!UpsertTransitions(d, pk)
           n == ingest.number
<1>1. {"detail", "fields", "sprints", "worklogs", "transitions"} = Ingest!Parts
  BY DEF Ingest!Parts
<1>2. OnlyKids(a, db, pk) /\ a.issue[pk].kids = [db.issue[pk].kids EXCEPT !["detail"] = n]
  BY <1>1, PartStored DEF Ingest!UpsertDetail
<1> HIDE DEF a
<1>3. a \in Db /\ pk \in Ingest!Rows(a)
  BY <1>2 DEF OnlyKids
<1>4. OnlyKids(b, a, pk) /\ b.issue[pk].kids = [a.issue[pk].kids EXCEPT !["fields"] = n]
  BY <1>1, <1>3, PartStored DEF Ingest!UpsertFieldValues
<1> HIDE DEF b
<1>5. b \in Db /\ pk \in Ingest!Rows(b)
  BY <1>3, <1>4 DEF OnlyKids
<1>6. OnlyKids(c, b, pk) /\ c.issue[pk].kids = [b.issue[pk].kids EXCEPT !["sprints"] = n]
  BY <1>1, <1>5, PartStored DEF Ingest!UpsertSprints
<1> HIDE DEF c
<1>7. c \in Db /\ pk \in Ingest!Rows(c)
  BY <1>5, <1>6 DEF OnlyKids
<1>8. OnlyKids(d, c, pk) /\ d.issue[pk].kids = [c.issue[pk].kids EXCEPT !["worklogs"] = n]
  BY <1>1, <1>7, PartStored DEF Ingest!UpsertWorklogs
<1> HIDE DEF d
<1>9. d \in Db /\ pk \in Ingest!Rows(d)
  BY <1>7, <1>8 DEF OnlyKids
<1>10. OnlyKids(e, d, pk) /\ e.issue[pk].kids = [d.issue[pk].kids EXCEPT !["transitions"] = n]
  BY <1>1, <1>9, PartStored DEF Ingest!UpsertTransitions
<1> HIDE DEF e
<1>11. OnlyKids(e, db, pk)
  <2>1. OnlyKids(b, db, pk)
    BY <1>2, <1>4, KidsTransitive
  <2>2. OnlyKids(c, db, pk)
    BY <1>6, <2>1, KidsTransitive
  <2>3. OnlyKids(d, db, pk)
    BY <1>8, <2>2, KidsTransitive
  <2> QED BY <1>10, <2>3, KidsTransitive
<1>12. \A part \in Ingest!Parts : e.issue[pk].kids[part] = n
  <2>1. db.issue[pk].kids \in [Ingest!Parts -> Nat]
    BY DbFields, IssueFields
  <2> HIDE DEF n
  <2>2. ASSUME NEW part \in {"detail", "fields", "sprints", "worklogs", "transitions"}
        PROVE  e.issue[pk].kids[part] = n
    BY <1>1, <1>2, <1>4, <1>6, <1>8, <1>10, <2>1
  <2> QED BY <1>1, <2>2
<1> QED BY <1>11, <1>12 DEF a, b, c, d, e

(* The relation of an issue is replaced, those of others stay. *)
LEMMA RelationsStored ==
  ASSUME Searchable, NEW n \in Nat, NEW db, Sane(db, n), NEW pk \in Ingest!Rows(db), NEW raw \in Fetched
  PROVE  LET new == Ingest!UpsertRelations(db, pk, raw)
         IN  /\ Sane(new, n) /\ new.issue = db.issue /\ Ingest!Rows(new) = Ingest!Rows(db)
             /\ \A r \in db.relation : r.source # pk => r \in new.relation
             /\ raw.up # None => \E r \in new.relation : r.source = pk /\ r.key = raw.up
<1> DEFINE new == Ingest!UpsertRelations(db, pk, raw)
           named == Ingest!ExtractRelations(raw)
           old == UNION {Ingest!FindRelation(db, pk, k) : k \in named}
           link(k) == [source |-> pk, key |-> k, target |-> Ingest!Target(db, k)]
           fresh == {link(k) : k \in named}
           relation == (db.relation \ old) \cup fresh
<1>1. db \in Db /\ Unique(db) /\ Refers(db) /\ pk \in Ingest!Pks /\ Ingest!Rows(db) \subseteq Ingest!Pks
  BY DbFields DEF Sane
<1>2. /\ db.issue \in [Ingest!Pks -> Issue \cup {None}] /\ db.relation \in SUBSET Relation
      /\ db = [issue |-> db.issue, relation |-> db.relation]
  BY <1>1 DEF Db
<1>3. new.issue = db.issue /\ new.relation = relation /\ new = [issue |-> new.issue, relation |-> new.relation]
  <2>1. new = [db EXCEPT !.relation = relation]
    BY DEF Ingest!UpsertRelations
  <2> HIDE DEF new, relation
  <2> QED BY <1>2, <2>1
<1>4. named \subseteq Parents /\ (raw.up # None => raw.up \in named)
  BY DEF Fetched, Ingest!ExtractRelations
<1>5. ASSUME NEW k \in named
      PROVE  /\ link(k) \in Relation /\ link(k).source = pk /\ link(k).key = k
             /\ link(k).target \in Ingest!Rows(db) \cup {None}
  <2>1. Ingest!Target(db, k) \in Ingest!Rows(db) \cup {None}
    BY <1>1, TargetFound
  <2> QED BY <1>1, <1>4, <2>1 DEF Relation
<1>6. (\A k \in named : link(k) \in fresh) /\ \A r \in fresh : \E k \in named : r = link(k)
  OBVIOUS
<1>7. /\ raw.up # None => \E r \in fresh : r.source = pk /\ r.key = raw.up
      /\ \A r \in fresh : r \in Relation /\ r.source = pk /\ r.target \in Ingest!Rows(db) \cup {None}
  <2> HIDE DEF link, fresh, named
  <2> QED BY <1>4, <1>5, <1>6
<1>8. \A r \in old : r.source = pk
  BY DEF Ingest!FindRelation
<1> HIDE DEF named, old, fresh, new
<1>9. new \in Db
  BY <1>2, <1>3, <1>7 DEF Db
<1>10. Ingest!Rows(new) = Ingest!Rows(db)
  BY <1>3 DEF Ingest!Rows
<1>11. Sane(new, n)
  <2>1. Unique(new) /\ Follows(new) /\ Dated(new, n)
    BY <1>3, <1>10 DEF Sane, Unique, Follows, Dated
  <2>2. Refers(new)
    BY <1>1, <1>3, <1>7, <1>10 DEF Refers
  <2> QED BY <1>9, <2>1, <2>2 DEF Sane
<1> QED BY <1>3, <1>7, <1>8, <1>10, <1>11 DEF new

LEMMA ChildrenStored ==
  ASSUME Searchable, ingest \in Ingesting, NEW db, Sane(db, ingest.number), NEW raw \in Fetched,
         NEW row \in Ingest!ById(db, raw.id), db.issue[row].key = raw.key, db.issue[row].core = ingest.number
  PROVE  LET new == Ingest!UpsertedChildren(db, raw)
         IN  /\ Sane(new, ingest.number) /\ Ingest!Rows(new) = Ingest!Rows(db)
             /\ \A q \in Ingest!Rows(new) \ {row} : new.issue[q] = db.issue[q]
             /\ \A part \in Ingest!Parts : new.issue[row].kids[part] = new.issue[row].core
             /\ Linked(new, raw)
             /\ \A other \in Fetched : other.id # raw.id /\ Linked(db, other) => Linked(new, other)
<1> DEFINE n == ingest.number
           pk == CHOOSE pk \in Ingest!ById(db, raw.id) : TRUE
           logged == Ingest!UpsertTransitions(Ingest!UpsertWorklogs(Ingest!UpsertSprints(
                       Ingest!UpsertFieldValues(Ingest!UpsertDetail(db, pk), pk), pk), pk), pk)
           new == Ingest!UpsertedChildren(db, raw)
<1>1. new = Ingest!UpsertRelations(logged, pk, raw)
  BY DEF Ingest!UpsertedChildren
<1>2. n \in Nat /\ db \in Db /\ Unique(db)
  BY DEF Ingesting, Sane
<1>3. pk = row /\ row \in Ingest!Rows(db) /\ db.issue[row].id = raw.id
  <2>1. pk \in Ingest!ById(db, raw.id)
    OBVIOUS
  <2> HIDE DEF pk
  <2> QED BY <1>2, <2>1 DEF Ingest!ById, Unique
<1> HIDE DEF pk
<1>4. OnlyKids(logged, db, pk) /\ \A part \in Ingest!Parts : logged.issue[pk].kids[part] = n
  BY <1>2, <1>3, PartsStored
<1> HIDE DEF logged, n
<1>5. /\ Sane(logged, n) /\ Ingest!Rows(logged) = Ingest!Rows(db) /\ logged.relation = db.relation
      /\ \A q \in Ingest!Pks \ {pk} : logged.issue[q] = db.issue[q]
      /\ logged.issue[pk].id = raw.id /\ logged.issue[pk].key = raw.key /\ logged.issue[pk].core = n
  <2>1. Sane(db, n)
    BY DEF n
  <2>2. Sane(logged, n)
    BY <1>3, <1>4, <2>1, KidsSane
  <2> QED BY <1>3, <1>4, <2>2 DEF OnlyKids, n
<1>6. /\ Sane(new, n) /\ new.issue = logged.issue /\ Ingest!Rows(new) = Ingest!Rows(logged)
      /\ \A r \in logged.relation : r.source # pk => r \in new.relation
      /\ raw.up # None => \E r \in new.relation : r.source = pk /\ r.key = raw.up
  BY <1>1, <1>2, <1>3, <1>5, RelationsStored
<1> HIDE DEF new
<1>7. Linked(new, raw)
  <2>1. pk \in Ingest!ById(new, raw.id)
    BY <1>3, <1>5, <1>6 DEF Ingest!ById
  <2> QED BY <1>5, <1>6, <2>1 DEF Linked
<1>8. Ingest!Rows(db) \subseteq Ingest!Pks
  BY <1>2, DbFields
<1>9. ASSUME NEW other \in Fetched, other.id # raw.id, Linked(db, other)
      PROVE  Linked(new, other)
  <2>1. PICK q \in Ingest!ById(db, other.id) :
           /\ db.issue[q].key = other.key
           /\ other.up # None => \E r \in db.relation : r.source = q /\ r.key = other.up
    BY <1>9 DEF Linked
  <2>2. q # pk /\ q \in Ingest!Rows(db) /\ q \in Ingest!Pks /\ db.issue[q].id = other.id
    BY <1>3, <1>8, <1>9 DEF Ingest!ById
  <2>3. q \in Ingest!ById(new, other.id) /\ new.issue[q].key = other.key
    BY <1>5, <1>6, <2>1, <2>2 DEF Ingest!ById
  <2>4. other.up # None => \E r \in new.relation : r.source = q /\ r.key = other.up
    BY <1>5, <1>6, <2>1, <2>2
  <2> QED BY <2>3, <2>4 DEF Linked
<1>10. \A q \in Ingest!Rows(new) \ {row} : new.issue[q] = db.issue[q]
  BY <1>3, <1>5, <1>6, <1>8
<1>11. \A part \in Ingest!Parts : new.issue[row].kids[part] = new.issue[row].core
  BY <1>3, <1>4, <1>5, <1>6
<1> QED BY <1>5, <1>6, <1>7, <1>9, <1>10, <1>11 DEF new, n

-----------------------------------------------------------------------------
(* References that are still open are looked up once more *)

LEMMA TargetsResolved ==
  ASSUME Searchable, NEW n \in Nat, NEW db, Sane(db, n)
  PROVE  LET new == Ingest!ResolveTargets(db)
         IN  /\ Sane(new, n) /\ new.issue = db.issue /\ Ingest!Rows(new) = Ingest!Rows(db)
             /\ \A r \in new.relation : r.target = None => Ingest!ByKey(new, r.key) = {}
             /\ \A raw \in Fetched : Linked(db, raw) => Linked(new, raw)
<1> DEFINE new == Ingest!ResolveTargets(db)
           looked(r) == [r EXCEPT !.target = IF r.target = None THEN Ingest!Target(db, r.key) ELSE r.target]
           relation == {looked(r) : r \in db.relation}
<1>1. db \in Db /\ Unique(db) /\ Refers(db)
  BY DEF Sane
<1>2. /\ db.issue \in [Ingest!Pks -> Issue \cup {None}] /\ db.relation \in SUBSET Relation
      /\ db = [issue |-> db.issue, relation |-> db.relation]
  BY <1>1 DEF Db
<1>3. new.issue = db.issue /\ new.relation = relation /\ new = [issue |-> new.issue, relation |-> new.relation]
  <2>1. new = [db EXCEPT !.relation = relation]
    BY DEF Ingest!ResolveTargets
  <2> HIDE DEF new, relation
  <2> QED BY <1>2, <2>1
<1>4. ASSUME NEW r \in db.relation
      PROVE  /\ looked(r) \in Relation /\ looked(r).source = r.source /\ looked(r).key = r.key
             /\ looked(r).source \in Ingest!Rows(db) /\ looked(r).target \in Ingest!Rows(db) \cup {None}
             /\ looked(r).target = None => Ingest!ByKey(db, r.key) = {}
  <2> DEFINE t == IF r.target = None THEN Ingest!Target(db, r.key) ELSE r.target
  <2>1. /\ r \in Relation /\ r.source \in Ingest!Rows(db) /\ r.target \in Ingest!Rows(db) \cup {None}
    BY <1>1, <1>2 DEF Refers
  <2>2. /\ Ingest!Target(db, r.key) \in Ingest!Rows(db) \cup {None}
        /\ Ingest!Target(db, r.key) = None => Ingest!ByKey(db, r.key) = {}
    BY <1>1, TargetFound
  <2>3. t \in Ingest!Rows(db) \cup {None} /\ (t = None => Ingest!ByKey(db, r.key) = {})
    BY <2>1, <2>2
  <2>4. Ingest!Rows(db) \subseteq Ingest!Pks
    BY <1>1, DbFields
  <2> HIDE DEF t
  <2>5. looked(r) = [r EXCEPT !.target = t]
    BY DEF t
  <2>6. /\ [r EXCEPT !.target = t] \in Relation
        /\ [r EXCEPT !.target = t].source = r.source /\ [r EXCEPT !.target = t].key = r.key
        /\ [r EXCEPT !.target = t].target = t
    BY <2>1, <2>3, <2>4 DEF Relation
  <2> QED BY <2>1, <2>3, <2>5, <2>6
<1>5. \A s \in relation : \E r \in db.relation : s = looked(r)
  OBVIOUS
<1>6. \A r \in db.relation : looked(r) \in relation
  OBVIOUS
<1> HIDE DEF new, looked, relation
<1>7. relation \in SUBSET Relation
  BY <1>4, <1>5
<1>8. new \in Db
  BY <1>2, <1>3, <1>7 DEF Db
<1>9. Ingest!Rows(new) = Ingest!Rows(db)
  BY <1>3 DEF Ingest!Rows
<1>10. \A k : Ingest!ByKey(new, k) = Ingest!ByKey(db, k)
  BY <1>3, <1>9 DEF Ingest!ByKey
<1>11. Sane(new, n)
  <2>1. Unique(new) /\ Follows(new) /\ Dated(new, n)
    BY <1>3, <1>9 DEF Sane, Unique, Follows, Dated
  <2>2. Refers(new)
    BY <1>1, <1>3, <1>4, <1>5, <1>9 DEF Refers
  <2> QED BY <1>8, <2>1, <2>2 DEF Sane
<1>12. \A r \in new.relation : r.target = None => Ingest!ByKey(new, r.key) = {}
  BY <1>3, <1>4, <1>5, <1>10
<1>13. \A raw \in Fetched : Linked(db, raw) => Linked(new, raw)
  <2>1. \A i : Ingest!ById(new, i) = Ingest!ById(db, i)
    BY <1>3, <1>9 DEF Ingest!ById
  <2>2. \A q, k : (\E r \in db.relation : r.source = q /\ r.key = k)
                     => \E r \in new.relation : r.source = q /\ r.key = k
    BY <1>3, <1>4, <1>6
  <2> QED BY <1>3, <2>1, <2>2 DEF Linked
<1> QED BY <1>3, <1>9, <1>11, <1>12, <1>13 DEF new

-----------------------------------------------------------------------------
(* Jira issues: the inductive invariant *)

Whole(db, pk) == \A part \in Ingest!Parts : db.issue[pk].kids[part] = db.issue[pk].core

(* What a run has seen are different issues under different keys. *)
IngestTyped ==
    /\ jira \in [Ids -> Remote \cup {None}] /\ KeysDiffer(jira)
    /\ ingest \in Ingesting /\ session \in Db \cup {None}
    /\ ingest.todo \subseteq ingest.seen /\ ingest.at \in ingest.seen \cup {None}
    /\ \A a, b \in ingest.seen : a.id = b.id \/ a.key = b.key => a = b
    /\ ingest.at # None => session # None

TableKept ==
    /\ Sane(table, ingest.number)
    /\ \A pk \in Ingest!Rows(table) : Whole(table, pk)
    /\ \A r \in table.relation : r.target = None => Ingest!ByKey(table, r.key) = {}

(* The open transaction holds every issue of the run that was done, and all of each
   issue but that at work. *)
SessionKept ==
    session # None =>
       /\ Sane(session, ingest.number)
       /\ ingest.at # None => \E pk \in Ingest!ById(session, ingest.at.id) :
             session.issue[pk].key = ingest.at.key /\ session.issue[pk].core = ingest.number
       /\ \A pk \in Ingest!Rows(session) :
             Whole(session, pk) \/ (ingest.at # None /\ session.issue[pk].id = ingest.at.id)
       /\ ~ingest.errors => \A raw \in ingest.seen \ (ingest.todo \cup {ingest.at}) : Linked(session, raw)

SeenKept == session = None /\ ~ingest.errors => \A raw \in ingest.seen : Linked(table, raw)

IngestInv == IngestTyped /\ TableKept /\ SessionKept /\ SeenKept

LEMMA SaneLater ==
  ASSUME NEW db, NEW m \in Nat, NEW n \in Nat, m <= n, Sane(db, m)
  PROVE  Sane(db, n)
<1>1. \A pk \in Ingest!Rows(db) : db.issue[pk].core \in Nat
  BY DbFields, IssueFields DEF Sane
<1> QED BY <1>1 DEF Sane, Dated

LEMMA IngestInit == ASSUME Searchable, Ingest!Init PROVE IngestInv
<1>1. /\ jira \in First /\ session = None
      /\ table = [issue |-> Ingest!Absent, relation |-> {}]
      /\ ingest = [number |-> 0, todo |-> {}, seen |-> {}, at |-> None, errors |-> FALSE]
  BY DEF Ingest!Init
<1>2. table \in Db /\ table.issue = Ingest!Absent /\ table.relation = {}
  BY <1>1 DEF Db, Ingest!Absent
<1>3. Ingest!Rows(table) = {}
  BY <1>2 DEF Ingest!Rows, Ingest!Absent
<1>4. TableKept
  BY <1>2, <1>3 DEF TableKept, Sane, Unique, Refers, Follows, Dated
<1>5. IngestTyped
  BY <1>1 DEF IngestTyped, Ingesting, Searchable
<1>6. SessionKept /\ SeenKept
  BY <1>1 DEF SessionKept, SeenKept
<1> QED BY <1>4, <1>5, <1>6 DEF IngestInv

LEMMA EditStep == ASSUME Searchable, IngestInv, NEW i \in Ids, Ingest!EditJira(i) PROVE IngestInv'
<1>1. UNCHANGED <<table, session, ingest>>
  BY DEF Ingest!EditJira
<1>2. jira' \in [Ids -> Remote \cup {None}] /\ KeysDiffer(jira')
  <2>1. jira \in [Ids -> Remote \cup {None}] /\ KeysDiffer(jira)
    BY DEF IngestInv, IngestTyped
  <2>2. CASE jira' = [jira EXCEPT ![i] = None]
    BY <2>1, <2>2 DEF KeysDiffer
  <2>3. ASSUME NEW k \in Keys \ Ingest!Taken, NEW u \in Parents \cup {None},
               jira' = [jira EXCEPT ![i] = [key |-> k, up |-> u]]
        PROVE  jira' \in [Ids -> Remote \cup {None}] /\ KeysDiffer(jira')
    <3> DEFINE moved == [key |-> k, up |-> u]
    <3>1. moved \in Remote /\ moved.key = k
      BY DEF Remote
    <3> HIDE DEF moved
    <3>2. jira'[i] = moved /\ \A j \in Ids \ {i} : jira'[j] = jira[j]
      BY <2>1, <2>3 DEF moved
    <3>3. \A j \in Ids : jira[j] # None => jira[j].key # k
      BY DEF Ingest!Taken
    <3>4. KeysDiffer(jira')
      BY <2>1, <3>1, <3>2, <3>3 DEF KeysDiffer
    <3>5. jira' = [jira EXCEPT ![i] = moved]
      BY <2>3 DEF moved
    <3> QED BY <2>1, <3>1, <3>4, <3>5
  <2> QED BY <2>2, <2>3 DEF Ingest!EditJira
<1> QED BY <1>1, <1>2 DEF IngestInv, IngestTyped, TableKept, SessionKept, SeenKept

LEMMA SearchStep == ASSUME Searchable, IngestInv, Ingest!SearchIssues PROVE IngestInv'
<1>1. PICK found \in Ingest!Updated :
         ingest' = [number |-> ingest.number + 1, todo |-> {Ingest!Raw(i) : i \in found},
                    seen |-> {Ingest!Raw(i) : i \in found}, at |-> None, errors |-> FALSE]
  BY DEF Ingest!SearchIssues
<1> DEFINE seen == {Ingest!Raw(i) : i \in found}
           n == ingest.number
<1>2. /\ session = None /\ session' = table /\ UNCHANGED <<jira, table>>
      /\ table \in Db /\ Sane(table, n) /\ n \in Nat /\ n + 1 \in Nat /\ table # None
  BY DEF Ingest!SearchIssues, IngestInv, IngestTyped, TableKept, Sane, Ingesting, Searchable
<1>3. ASSUME NEW i \in found
      PROVE  /\ i \in Ids /\ Ingest!Raw(i) \in Fetched /\ jira[i] # None
             /\ Ingest!Raw(i).id = i /\ Ingest!Raw(i).key = jira[i].key
  <2>1. i \in Ids /\ jira[i] # None
    BY DEF Ingest!Updated
  <2>2. jira[i] \in Remote
    BY <2>1 DEF IngestInv, IngestTyped
  <2>3. jira[i].key \in Keys /\ jira[i].up \in Parents \cup {None}
    BY <2>2 DEF Remote
  <2> QED BY <2>1, <2>3 DEF Ingest!Raw, Fetched
<1>4. seen \in SUBSET Fetched /\ \A a, b \in seen : a.id = b.id \/ a.key = b.key => a = b
  <2>1. seen \in SUBSET Fetched
    BY <1>3
  <2>2. ASSUME NEW i \in found, NEW j \in found,
               Ingest!Raw(i).id = Ingest!Raw(j).id \/ Ingest!Raw(i).key = Ingest!Raw(j).key
        PROVE  i = j
    BY <1>3, <2>2 DEF IngestInv, IngestTyped, KeysDiffer
  <2> QED BY <2>1, <2>2
<1> HIDE DEF seen
<1>5. /\ ingest'.number = n + 1 /\ ingest'.todo = seen /\ ingest'.seen = seen /\ ingest'.at = None
      /\ ingest'.errors = FALSE /\ ingest' \in Ingesting
  BY <1>1, <1>2, <1>4 DEF Ingesting, seen
<1>6. Sane(table, n + 1)
  BY <1>2, SaneLater
<1>7. IngestTyped'
  BY <1>2, <1>4, <1>5 DEF IngestInv, IngestTyped
<1>8. TableKept'
  BY <1>2, <1>5, <1>6 DEF IngestInv, TableKept
<1>9. SessionKept' /\ SeenKept'
  BY <1>2, <1>5, <1>6 DEF IngestInv, TableKept, SessionKept, SeenKept
<1> QED BY <1>7, <1>8, <1>9 DEF IngestInv

LEMMA UpsertStep == ASSUME Searchable, IngestInv, Ingest!UpsertIssue PROVE IngestInv'
<1>1. PICK raw \in ingest.todo :
         /\ session' = Ingest!UpsertedIssue(session, raw)
         /\ ingest' = [ingest EXCEPT !.todo = @ \ {raw}, !.at = raw]
  BY DEF Ingest!UpsertIssue
<1> DEFINE n == ingest.number
<1>2. /\ session # None /\ ingest.at = None /\ UNCHANGED <<jira, table>>
      /\ raw \in ingest.seen /\ raw \in Fetched /\ ingest.seen \in SUBSET Fetched /\ ingest \in Ingesting
      /\ Sane(session, n) /\ raw # None /\ ingest.errors \in BOOLEAN
  BY DEF Ingest!UpsertIssue, IngestInv, IngestTyped, SessionKept, Ingesting, Searchable
<1>3. /\ ingest' \in Ingesting /\ ingest'.number = n /\ ingest'.todo = ingest.todo \ {raw}
      /\ ingest'.seen = ingest.seen /\ ingest'.at = raw /\ ingest'.errors = ingest.errors
  BY <1>1, <1>2 DEF Ingesting
<1>4. /\ Sane(session', n)
      /\ \E pk \in Ingest!ById(session', raw.id) : session'.issue[pk].key = raw.key /\ session'.issue[pk].core = n
      /\ \A q \in Ingest!Rows(session') : session'.issue[q].id = raw.id
            \/ (q \in Ingest!Rows(session) /\ Alike(session'.issue[q], session.issue[q]))
      /\ \A other \in Fetched :
            other.id # raw.id /\ other.key # raw.key /\ Linked(session, other) => Linked(session', other)
  BY <1>1, <1>2, IssueStored
<1> HIDE DEF n
<1>5. session' \in Db /\ session' # None
  BY <1>4 DEF Sane, Searchable
<1>6. IngestTyped'
  BY <1>2, <1>3, <1>5 DEF IngestInv, IngestTyped
<1>7. TableKept'
  BY <1>2, <1>3 DEF IngestInv, TableKept, n
<1>8. \A pk \in Ingest!Rows(session') : Whole(session', pk) \/ session'.issue[pk].id = raw.id
  BY <1>2, <1>4 DEF IngestInv, SessionKept, Whole, Alike
<1>9. ASSUME ~ingest.errors, NEW other \in ingest.seen \ (ingest'.todo \cup {raw})
      PROVE  Linked(session', other)
  <2>1. other \in ingest.seen \ (ingest.todo \cup {None}) /\ other # raw /\ other \in Fetched
    BY <1>2, <1>3, <1>9 DEF Searchable
  <2>2. Linked(session, other)
    BY <1>2, <1>9, <2>1 DEF IngestInv, SessionKept
  <2>3. other.id # raw.id /\ other.key # raw.key
    BY <1>2, <2>1 DEF IngestInv, IngestTyped
  <2> QED BY <1>4, <2>1, <2>2, <2>3
<1>10. SessionKept'
  BY <1>2, <1>3, <1>4, <1>8, <1>9 DEF SessionKept
<1>11. SeenKept'
  BY <1>5 DEF SeenKept
<1> QED BY <1>6, <1>7, <1>10, <1>11 DEF IngestInv

LEMMA ChildrenStep == ASSUME Searchable, IngestInv, Ingest!UpsertChildren PROVE IngestInv'
<1> DEFINE n == ingest.number
           raw == ingest.at
<1>1. /\ raw # None /\ session' = Ingest!UpsertedChildren(session, raw)
      /\ ingest' = [ingest EXCEPT !.at = None] /\ UNCHANGED <<jira, table>>
  BY DEF Ingest!UpsertChildren
<1>2. /\ session # None /\ raw \in ingest.seen /\ raw \in Fetched /\ ingest.seen \in SUBSET Fetched
      /\ ingest \in Ingesting /\ Sane(session, n)
  BY <1>1 DEF IngestInv, IngestTyped, SessionKept, Ingesting
<1>3. /\ ingest' \in Ingesting /\ ingest'.number = n /\ ingest'.todo = ingest.todo
      /\ ingest'.seen = ingest.seen /\ ingest'.at = None /\ ingest'.errors = ingest.errors
  BY <1>1, <1>2 DEF Ingesting
<1>4. PICK row \in Ingest!ById(session, raw.id) : session.issue[row].key = raw.key /\ session.issue[row].core = n
  BY <1>1, <1>2 DEF IngestInv, SessionKept
<1>5. /\ Sane(session', n) /\ Ingest!Rows(session') = Ingest!Rows(session)
      /\ \A q \in Ingest!Rows(session') \ {row} : session'.issue[q] = session.issue[q]
      /\ \A part \in Ingest!Parts : session'.issue[row].kids[part] = session'.issue[row].core
      /\ Linked(session', raw)
      /\ \A other \in Fetched : other.id # raw.id /\ Linked(session, other) => Linked(session', other)
  BY <1>1, <1>2, <1>4, ChildrenStored
<1> HIDE DEF n, raw
<1>6. session' \in Db /\ session' # None
  BY <1>5 DEF Sane, Searchable
<1>7. IngestTyped'
  BY <1>1, <1>2, <1>3, <1>6 DEF IngestInv, IngestTyped
<1>8. TableKept'
  BY <1>1, <1>3 DEF IngestInv, TableKept, n
<1>9. ASSUME NEW q \in Ingest!Rows(session') PROVE Whole(session', q)
  <2>1. CASE q = row
    BY <1>5, <2>1 DEF Whole
  <2>2. CASE q # row
    <3>1. session.issue[q].id # raw.id
      BY <1>2, <1>4, <1>5, <2>2 DEF Sane, Unique, Ingest!ById
    <3>2. Whole(session, q)
      BY <1>2, <1>5, <3>1 DEF IngestInv, SessionKept, raw
    <3> QED BY <1>5, <2>2, <3>2 DEF Whole
  <2> QED BY <2>1, <2>2
<1>10. ASSUME ~ingest.errors, NEW other \in ingest.seen \ (ingest.todo \cup {None})
       PROVE  Linked(session', other)
  <2>1. CASE other = raw
    BY <1>5, <2>1
  <2>2. CASE other # raw
    <3>1. Linked(session, other)
      BY <1>2, <1>10, <2>2 DEF IngestInv, SessionKept, raw
    <3>2. other.id # raw.id /\ other \in Fetched
      BY <1>2, <2>2 DEF IngestInv, IngestTyped
    <3> QED BY <1>5, <3>1, <3>2
  <2> QED BY <2>1, <2>2
<1>11. SessionKept'
  BY <1>3, <1>5, <1>9, <1>10 DEF SessionKept
<1>12. SeenKept'
  BY <1>6 DEF SeenKept
<1> QED BY <1>7, <1>8, <1>11, <1>12 DEF IngestInv

LEMMA IssueFailsStep == ASSUME Searchable, IngestInv, Ingest!IssueFails PROVE IngestInv'
<1> DEFINE n == ingest.number
<1>1. /\ session # None /\ session' = table /\ UNCHANGED <<jira, table>>
      /\ ingest \in Ingesting /\ Sane(table, n) /\ table \in Db /\ table # None
  BY DEF Ingest!IssueFails, IngestInv, IngestTyped, TableKept, Sane, Searchable
<1>2. /\ ingest' \in Ingesting /\ ingest'.number = n /\ ingest'.todo \subseteq ingest.todo
      /\ ingest'.seen = ingest.seen /\ ingest'.at = None /\ ingest'.errors
  <2>1. CASE ingest.at # None /\ ingest' = [ingest EXCEPT !.at = None, !.errors = TRUE]
    BY <1>1, <2>1 DEF Ingesting
  <2>2. ASSUME ingest.at = None, NEW raw \in ingest.todo,
               ingest' = [ingest EXCEPT !.todo = @ \ {raw}, !.errors = TRUE]
        PROVE  /\ ingest' \in Ingesting /\ ingest'.number = n /\ ingest'.todo \subseteq ingest.todo
               /\ ingest'.seen = ingest.seen /\ ingest'.at = None /\ ingest'.errors
    BY <1>1, <2>2 DEF Ingesting
  <2> QED BY <2>1, <2>2 DEF Ingest!IssueFails
<1> HIDE DEF n
<1>3. IngestTyped'
  BY <1>1, <1>2 DEF IngestInv, IngestTyped
<1>4. TableKept'
  BY <1>1, <1>2 DEF IngestInv, TableKept, n
<1>5. SessionKept' /\ SeenKept'
  BY <1>1, <1>2 DEF IngestInv, TableKept, SessionKept, SeenKept
<1> QED BY <1>3, <1>4, <1>5 DEF IngestInv

LEMMA CommitTableStep == ASSUME Searchable, IngestInv, Ingest!Commit PROVE IngestInv'
<1> DEFINE n == ingest.number
<1>1. /\ session # None /\ ingest.todo = {} /\ ingest.at = None
      /\ table' = Ingest!ResolveTargets(session) /\ session' = None /\ UNCHANGED <<jira, ingest>>
  BY DEF Ingest!Commit
<1>2. /\ Sane(session, n) /\ n \in Nat /\ ingest.seen \in SUBSET Fetched
      /\ \A pk \in Ingest!Rows(session) : Whole(session, pk)
      /\ ~ingest.errors => \A raw \in ingest.seen : raw # None => Linked(session, raw)
  BY <1>1 DEF IngestInv, IngestTyped, SessionKept, Ingesting
<1>3. /\ Sane(table', n) /\ table'.issue = session.issue /\ Ingest!Rows(table') = Ingest!Rows(session)
      /\ \A r \in table'.relation : r.target = None => Ingest!ByKey(table', r.key) = {}
      /\ \A raw \in Fetched : Linked(session, raw) => Linked(table', raw)
  BY <1>1, <1>2, TargetsResolved
<1>4. TableKept'
  BY <1>1, <1>2, <1>3 DEF TableKept, Whole
<1>5. IngestTyped'
  BY <1>1 DEF IngestInv, IngestTyped
<1>6. SessionKept' /\ SeenKept'
  BY <1>1, <1>2, <1>3 DEF SessionKept, SeenKept, Searchable
<1> QED BY <1>4, <1>5, <1>6 DEF IngestInv

LEMMA EndStep == ASSUME Searchable, IngestInv, Ingest!RunFails PROVE IngestInv'
<1> DEFINE n == ingest.number
<1>1. /\ session # None /\ session' = None /\ UNCHANGED <<jira, table>> /\ ingest \in Ingesting
      /\ ingest' = [ingest EXCEPT !.todo = {}, !.seen = {}, !.at = None, !.errors = TRUE]
  BY DEF Ingest!RunFails, IngestInv, IngestTyped
<1>2. /\ ingest' \in Ingesting /\ ingest'.number = n /\ ingest'.todo = {}
      /\ ingest'.seen = {} /\ ingest'.at = None /\ ingest'.errors
  BY <1>1 DEF Ingesting
<1>3. IngestTyped'
  BY <1>1, <1>2 DEF IngestInv, IngestTyped
<1>4. TableKept'
  BY <1>1, <1>2 DEF IngestInv, TableKept
<1>5. SessionKept' /\ SeenKept'
  BY <1>1, <1>2 DEF SessionKept, SeenKept
<1> QED BY <1>3, <1>4, <1>5 DEF IngestInv

LEMMA IngestStep == ASSUME Searchable, IngestInv, [Ingest!Next]_Ingest!vars PROVE IngestInv'
<1>1. CASE UNCHANGED Ingest!vars
  <2>1. UNCHANGED <<jira, table, session, ingest>>
    BY <1>1 DEF Ingest!vars
  <2> QED BY <2>1 DEF IngestInv, IngestTyped, TableKept, SessionKept, SeenKept
<1> QED BY <1>1, EditStep, SearchStep, UpsertStep, ChildrenStep, IssueFailsStep, CommitTableStep, EndStep
           DEF Ingest!Next

LEMMA IngestInvariant == ASSUME Searchable PROVE Ingest!Spec => []IngestInv
<1>1. Ingest!Init => IngestInv
  BY IngestInit
<1>2. IngestInv /\ [Ingest!Next]_Ingest!vars => IngestInv'
  BY IngestStep
<1> QED BY <1>1, <1>2, PTL DEF Ingest!Spec

(* Types *)
THEOREM IssuesTyped == ASSUME Searchable PROVE Ingest!Spec => []Ingest!TypeOK
<1>1. ASSUME IngestInv PROVE Ingest!TypeOK
  <2>1. table \in Db
    BY <1>1 DEF IngestInv, TableKept, Sane
  <2>2. \A r \in table.relation : r.source \in Ingest!Pks /\ r.target \in Ingest!Pks \cup {None}
    BY <2>1, DbFields DEF Relation
  <2> QED BY <2>1, <2>2, DbFields, IssueFields DEF Ingest!TypeOK
<1> QED BY <1>1, IngestInvariant, PTL

(* For any issues, keys, runs and changes in Jira, whatever fails: ids and keys stay
   unique, in the open transaction as well, references lead to rows, and a run
   without errors has stored every issue that it saw whole, with its relation
   (collector.py, _upsert_issue and what it calls). *)
THEOREM IssuesAreConsistent == ASSUME Searchable PROVE Ingest!Spec => []Ingest!JiraConsistent
<1>1. ASSUME IngestInv PROVE Ingest!JiraConsistent
  <2>1. Sane(table, ingest.number) /\ (session # None => Sane(session, ingest.number))
    BY <1>1 DEF IngestInv, TableKept, SessionKept
  <2>2. Ingest!RowsUnique
    BY <2>1 DEF Ingest!RowsUnique, Sane, Unique
  <2>3. Ingest!LinksResolved
    BY <1>1, <2>1 DEF Ingest!LinksResolved, IngestInv, TableKept, Sane, Refers
  <2>4. Ingest!ParentsResolved
    BY <2>1 DEF Ingest!ParentsResolved, Sane, Follows
  <2>5. Ingest!IssuesAreWhole
    BY <1>1 DEF Ingest!IssuesAreWhole, IngestInv, TableKept, Whole
  <2>6. Ingest!SeenAreStored
    BY <1>1 DEF Ingest!SeenAreStored, IngestInv, SeenKept, Linked
  <2> QED BY <2>2, <2>3, <2>4, <2>5, <2>6 DEF Ingest!JiraConsistent
<1> QED BY <1>1, IngestInvariant, PTL

-----------------------------------------------------------------------------
(* Pages: lists *)

Sized == /\ IsFiniteSet(Items) /\ Kinds \subseteq Fetch!AllKinds
         /\ PageSize \in Nat /\ Caps \subseteq Nat /\ Attempts \in Nat \ {0}

IsAt(s, y, i) == i \in 1..Len(s) /\ s[i] = y

LEMMA Removed ==
  ASSUME NEW S, NEW s \in Seq(S), NEW i \in 1..Len(s)
  PROVE  LET new == Fetch!RemoveAt(s, i)
         IN  /\ new \in Seq(S) /\ Len(new) = Len(s) - 1
             /\ \A k \in 1..(Len(s) - 1) : new[k] = IF k < i THEN s[k] ELSE s[k + 1]
<1> DEFINE a == SubSeq(s, 1, i - 1)
           b == SubSeq(s, i + 1, Len(s))
<1>1. Len(s) \in Nat /\ \A k \in 1..Len(s) : s[k] \in S
  BY LenProperties
<1>2. a \in Seq(S) /\ Len(a) = i - 1 /\ \A k \in 1..(i - 1) : a[k] = s[k]
  <2>1. 1 \in Int /\ i - 1 \in Int /\ \A k \in 1..(i - 1) : s[k] \in S
    BY <1>1
  <2>2. /\ a \in Seq(S) /\ Len(a) = IF 1 <= i - 1 THEN i - 1 - 1 + 1 ELSE 0
        /\ \A k \in 1..(i - 1 - 1 + 1) : a[k] = s[1 + k - 1]
    BY <2>1, SubSeqProperties
  <2> HIDE DEF a
  <2> QED BY <1>1, <2>2
<1>3. b \in Seq(S) /\ Len(b) = Len(s) - i /\ \A k \in 1..(Len(s) - i) : b[k] = s[i + k]
  <2>1. i + 1 \in Int /\ Len(s) \in Int /\ \A k \in (i + 1)..Len(s) : s[k] \in S
    BY <1>1
  <2>2. /\ b \in Seq(S) /\ Len(b) = IF i + 1 <= Len(s) THEN Len(s) - (i + 1) + 1 ELSE 0
        /\ \A k \in 1..(Len(s) - (i + 1) + 1) : b[k] = s[i + 1 + k - 1]
    BY <2>1, SubSeqProperties
  <2> HIDE DEF b
  <2> QED BY <1>1, <2>2
<1> HIDE DEF a, b
<1>4. /\ a \o b \in Seq(S) /\ Len(a \o b) = Len(a) + Len(b)
      /\ \A k \in 1..Len(a) + Len(b) : (a \o b)[k] = IF k <= Len(a) THEN a[k] ELSE b[k - Len(a)]
  BY <1>2, <1>3, ConcatProperties
<1> DEFINE c == a \o b
<1> HIDE DEF c
<1>5. /\ c \in Seq(S) /\ Len(c) = Len(s) - 1
      /\ \A k \in 1..(Len(s) - 1) : c[k] = IF k < i THEN s[k] ELSE s[k + 1]
  <2>1. c \in Seq(S) /\ Len(c) = Len(s) - 1
    BY <1>1, <1>2, <1>3, <1>4 DEF c
  <2>2. ASSUME NEW k \in 1..(Len(s) - 1)
        PROVE  c[k] = IF k < i THEN s[k] ELSE s[k + 1]
    <3>1. c[k] = IF k <= i - 1 THEN a[k] ELSE b[k - (i - 1)]
      BY <1>1, <1>2, <1>3, <1>4 DEF c
    <3>2. CASE k < i
      BY <1>1, <1>2, <3>1, <3>2
    <3>3. CASE k >= i
      <4>1. k - (i - 1) \in 1..(Len(s) - i) /\ i + (k - (i - 1)) = k + 1
        BY <1>1, <3>3
      <4> QED BY <1>1, <1>3, <3>1, <3>3, <4>1
    <3> QED BY <1>1, <3>2, <3>3
  <2> QED BY <2>1, <2>2
<1>6. Fetch!RemoveAt(s, i) = c
  BY DEF Fetch!RemoveAt, a, b, c
<1> QED BY <1>5, <1>6

(* An item in front of others *)
LEMMA InFront ==
  ASSUME NEW S, NEW s \in Seq(S), NEW x \in S
  PROVE  /\ <<x>> \o s \in Seq(S) /\ Len(<<x>> \o s) = Len(s) + 1
         /\ (<<x>> \o s)[1] = x /\ \A k \in 1..Len(s) : (<<x>> \o s)[k + 1] = s[k]
<1> DEFINE one == <<x>>
<1>1. one \in Seq(S) /\ Len(one) = 1 /\ one[1] = x /\ Len(s) \in Nat
  BY LenProperties
<1> HIDE DEF one
<1>2. /\ one \o s \in Seq(S) /\ Len(one \o s) = Len(one) + Len(s)
      /\ \A k \in 1..Len(one) + Len(s) : (one \o s)[k] = IF k <= Len(one) THEN one[k] ELSE s[k - Len(one)]
  BY <1>1, ConcatProperties
<1> DEFINE c == one \o s
<1> HIDE DEF c
<1>3. /\ c \in Seq(S) /\ Len(c) = Len(s) + 1 /\ c[1] = x /\ \A k \in 1..Len(s) : c[k + 1] = s[k]
  <2>1. \A k \in 1..(1 + Len(s)) : c[k] = IF k <= 1 THEN one[k] ELSE s[k - 1]
    BY <1>1, <1>2 DEF c
  <2>2. c[1] = x
    BY <1>1, <2>1
  <2>3. ASSUME NEW k \in 1..Len(s) PROVE c[k + 1] = s[k]
    BY <1>1, <2>1
  <2> QED BY <1>1, <1>2, <2>2, <2>3 DEF c
<1> QED BY <1>3 DEF c, one

(* No item is there twice. *)
OncePerItem(s) == \A y : \A i, j : IsAt(s, y, i) /\ IsAt(s, y, j) => i = j

LEMMA InjectiveIsDistinct ==
  ASSUME NEW S, NEW s \in Seq(S)
  PROVE  Fetch!IsInjective(s) <=> OncePerItem(s)
<1>1. DOMAIN s = 1..Len(s)
  BY LenProperties
<1> QED BY <1>1 DEF Fetch!IsInjective, OncePerItem, IsAt

LEMMA InRange ==
  ASSUME NEW S, NEW s \in Seq(S)
  PROVE  \A y : y \in Fetch!Range(s) <=> \E i : IsAt(s, y, i)
<1>1. DOMAIN s = 1..Len(s)
  BY LenProperties
<1> QED BY <1>1 DEF Fetch!Range, IsAt

-----------------------------------------------------------------------------
(* Pages: how a change of the collection moves its items *)

(* A list without one item, whose followers move up. *)
Without(new, s, x, p) ==
  /\ new \in Seq(Items) /\ OncePerItem(new)
  /\ \A y, i : IsAt(new, y, i) => y # x /\ IsAt(s, y, IF i < p THEN i ELSE i + 1)
  /\ \A y, i : IsAt(s, y, i) /\ y # x => \E j : IsAt(new, y, j)

(* A list behind a new item. *)
Behind(new, s, x) ==
  /\ new \in Seq(Items) /\ OncePerItem(new)
  /\ \A y, i : IsAt(new, y, i) => (y = x /\ i = 1) \/ IsAt(s, y, i - 1)
  /\ \A y, i : IsAt(s, y, i) => IsAt(new, y, i + 1)
  /\ IsAt(new, x, 1)

(* A list before a new item. *)
Before(new, s, x) ==
  /\ new \in Seq(Items) /\ OncePerItem(new)
  /\ \A y, i : IsAt(new, y, i) => y = x \/ IsAt(s, y, i)
  /\ \A y, i : IsAt(s, y, i) => IsAt(new, y, i)
  /\ IsAt(new, x, Len(s) + 1)

LEMMA RemovedIsWithout ==
  ASSUME NEW s \in Seq(Items), OncePerItem(s), NEW x, NEW p, IsAt(s, x, p)
  PROVE  Without(Fetch!RemoveAt(s, p), s, x, p)
<1> DEFINE new == Fetch!RemoveAt(s, p)
<1>1. Len(s) \in Nat /\ p \in 1..Len(s) /\ s[p] = x
  BY LenProperties DEF IsAt
<1>2. /\ new \in Seq(Items) /\ Len(new) = Len(s) - 1
      /\ \A k \in 1..(Len(s) - 1) : new[k] = IF k < p THEN s[k] ELSE s[k + 1]
  BY <1>1, Removed
<1> HIDE DEF new
<1>3. ASSUME NEW y, NEW i, IsAt(new, y, i)
      PROVE  y # x /\ IsAt(s, y, IF i < p THEN i ELSE i + 1)
  <2>1. i \in 1..(Len(s) - 1) /\ new[i] = y
    BY <1>2, <1>3 DEF IsAt
  <2>2. CASE i < p
    <3>1. IsAt(s, y, i) /\ i # p
      BY <1>1, <1>2, <2>1, <2>2 DEF IsAt
    <3> QED BY <2>2, <3>1 DEF OncePerItem
  <2>3. CASE ~(i < p)
    <3>1. IsAt(s, y, i + 1) /\ i + 1 # p
      BY <1>1, <1>2, <2>1, <2>3 DEF IsAt
    <3> QED BY <2>3, <3>1 DEF OncePerItem
  <2> QED BY <2>2, <2>3
<1>4. ASSUME NEW y, NEW i, IsAt(s, y, i), y # x
      PROVE  \E j : IsAt(new, y, j)
  <2>1. i \in 1..Len(s) /\ s[i] = y /\ i # p
    BY <1>1, <1>4 DEF IsAt
  <2>2. CASE i < p
    <3>1. IsAt(new, y, i)
      BY <1>1, <1>2, <2>1, <2>2 DEF IsAt
    <3> QED BY <3>1
  <2>3. CASE i > p
    <3>1. i - 1 \in 1..(Len(s) - 1) /\ ~(i - 1 < p) /\ (i - 1) + 1 = i
      BY <1>1, <2>1, <2>3
    <3>2. IsAt(new, y, i - 1)
      BY <1>2, <2>1, <3>1 DEF IsAt
    <3> QED BY <3>2
  <2> QED BY <1>1, <2>1, <2>2, <2>3
<1>5. OncePerItem(new)
  <2> SUFFICES ASSUME NEW y, NEW i, NEW j, IsAt(new, y, i), IsAt(new, y, j)
               PROVE  i = j
    BY DEF OncePerItem
  <2>1. (IF i < p THEN i ELSE i + 1) = (IF j < p THEN j ELSE j + 1)
    BY <1>3 DEF OncePerItem
  <2>2. i \in Nat /\ j \in Nat
    BY <1>1, <1>2 DEF IsAt
  <2> QED BY <1>1, <2>1, <2>2
<1>6. Without(new, s, x, p)
  BY <1>2, <1>3, <1>4, <1>5 DEF Without
<1> QED BY <1>6 DEF new

LEMMA FrontIsBehind ==
  ASSUME NEW s \in Seq(Items), OncePerItem(s), NEW x \in Items, \A i : ~IsAt(s, x, i)
  PROVE  Behind(<<x>> \o s, s, x)
<1> DEFINE new == <<x>> \o s
<1>1. Len(s) \in Nat
  BY LenProperties
<1>2. /\ new \in Seq(Items) /\ Len(new) = Len(s) + 1
      /\ new[1] = x /\ \A k \in 1..Len(s) : new[k + 1] = s[k]
  BY InFront
<1> HIDE DEF new
<1>3. ASSUME NEW y, NEW i, IsAt(new, y, i)
      PROVE  (y = x /\ i = 1) \/ IsAt(s, y, i - 1)
  <2>1. i \in 1..(Len(s) + 1) /\ new[i] = y
    BY <1>2, <1>3 DEF IsAt
  <2>2. CASE i = 1
    BY <1>2, <2>1, <2>2
  <2>3. CASE i # 1
    <3>1. i - 1 \in 1..Len(s) /\ (i - 1) + 1 = i
      BY <1>1, <2>1, <2>3
    <3> QED BY <1>2, <2>1, <3>1 DEF IsAt
  <2> QED BY <2>2, <2>3
<1>4. ASSUME NEW y, NEW i, IsAt(s, y, i)
      PROVE  IsAt(new, y, i + 1)
  BY <1>1, <1>2, <1>4 DEF IsAt
<1>5. IsAt(new, x, 1)
  BY <1>1, <1>2 DEF IsAt
<1>6. OncePerItem(new)
  <2> SUFFICES ASSUME NEW y, NEW i, NEW j, IsAt(new, y, i), IsAt(new, y, j)
               PROVE  i = j
    BY DEF OncePerItem
  <2>1. i \in Nat /\ j \in Nat
    BY <1>1, <1>2 DEF IsAt
  <2>2. CASE y = x
    BY <1>3, <2>2
  <2>3. CASE y # x
    <3>1. i - 1 = j - 1
      BY <1>3, <2>3 DEF OncePerItem
    <3> QED BY <2>1, <3>1
  <2> QED BY <2>2, <2>3
<1>7. Behind(new, s, x)
  BY <1>2, <1>3, <1>4, <1>5, <1>6 DEF Behind
<1> QED BY <1>7 DEF new

LEMMA EndIsBefore ==
  ASSUME NEW s \in Seq(Items), OncePerItem(s), NEW x \in Items, \A i : ~IsAt(s, x, i)
  PROVE  Before(Append(s, x), s, x)
<1> DEFINE new == Append(s, x)
<1>1. Len(s) \in Nat
  BY LenProperties
<1>2. /\ new \in Seq(Items) /\ Len(new) = Len(s) + 1
      /\ new[Len(s) + 1] = x /\ \A k \in 1..Len(s) : new[k] = s[k]
  BY AppendProperties
<1> HIDE DEF new
<1>3. ASSUME NEW y, NEW i, IsAt(new, y, i)
      PROVE  (y = x /\ i = Len(s) + 1) \/ IsAt(s, y, i)
  <2>1. i \in 1..(Len(s) + 1) /\ new[i] = y
    BY <1>2, <1>3 DEF IsAt
  <2>2. CASE i = Len(s) + 1
    BY <1>2, <2>1, <2>2
  <2>3. CASE i # Len(s) + 1
    <3>1. i \in 1..Len(s)
      BY <1>1, <2>1, <2>3
    <3> QED BY <1>2, <2>1, <3>1 DEF IsAt
  <2> QED BY <2>2, <2>3
<1>4. ASSUME NEW y, NEW i, IsAt(s, y, i)
      PROVE  IsAt(new, y, i)
  BY <1>1, <1>2, <1>4 DEF IsAt
<1>5. IsAt(new, x, Len(s) + 1)
  BY <1>1, <1>2 DEF IsAt
<1>6. OncePerItem(new)
  <2> SUFFICES ASSUME NEW y, NEW i, NEW j, IsAt(new, y, i), IsAt(new, y, j)
               PROVE  i = j
    BY DEF OncePerItem
  <2>1. CASE y = x
    BY <1>3, <2>1
  <2>2. CASE y # x
    BY <1>3, <2>2 DEF OncePerItem
  <2> QED BY <2>1, <2>2
<1>7. Before(new, s, x)
  BY <1>2, <1>3, <1>4, <1>5, <1>6 DEF Before
<1> QED BY <1>7 DEF new

-----------------------------------------------------------------------------
(* Pages: the inductive invariant *)

(* No item is there twice, none was removed, and all that did not change are there. *)
CollectionKept ==
  /\ kind \in Kinds /\ cap \in Caps /\ list \in Seq(Items) /\ OncePerItem(list)
  /\ base \subseteq Items /\ inserted \subseteq Items /\ touched \subseteq Items
  /\ removed \subseteq base \cup inserted
  /\ \A y, i : IsAt(list, y, i) => y \in (base \cup inserted) \ removed
  /\ \A y \in Fetch!Constant : \E i : IsAt(list, y, i)

ClientKept ==
  /\ offset \in Nat /\ got \in Seq(Items)
  /\ attempt \in 0..(Attempts - 1) /\ login \in 0..(Attempts - 1)
  /\ token \in BOOLEAN /\ calls \in Nat /\ outcome \in {"open", "done", "failed"}

(* Items before the offset that did not change and were not received: those that
   moved up over the offset, one for each item removed before it.  A reader that
   stops short has asked for one page or none. *)
Missed == {y \in Fetch!Constant : y \notin Fetch!Range(got) /\ \E i \in 1..offset : IsAt(list, y, i)}

LossKept == /\ Cardinality(Missed) <= Cardinality(removed)
            /\ outcome = "done" /\ ~Fetch!StopsShort => offset >= Len(list)
            /\ Fetch!StopsShort => offset = IF outcome = "done" THEN cap ELSE 0

(* What was received of a collection that did not change is its beginning. *)
Begins(s, whole, n) == Len(s) = Fetch!Lesser(n, Len(whole)) /\ \A i \in 1..Len(s) : s[i] = whole[i]
OrderKept == inserted = {} /\ touched = {} /\ removed = {} => Begins(got, list, offset)

(* Calls are counted by the attempts that were used up. *)
CallsKept ==
  /\ kind # "persons" => login = 0 /\ calls <= IF outcome = "open" THEN attempt ELSE Attempts
  /\ kind = "persons" =>
       calls <= CASE outcome # "open" -> Attempts * Attempts + 1
                  [] outcome = "open" /\ token -> attempt * Attempts + Attempts
                  [] outcome = "open" /\ ~token -> attempt * Attempts + login

FetchInv == CollectionKept /\ ClientKept /\ LossKept /\ OrderKept /\ CallsKept

-----------------------------------------------------------------------------
(* Pages: the collection changes *)

LEMMA MissedIsSmall ==
  ASSUME Sized, CollectionKept
  PROVE  IsFiniteSet(Missed) /\ IsFiniteSet(removed) /\ Cardinality(Missed) \in Nat /\ Cardinality(removed) \in Nat
<1>1. removed \in SUBSET Items /\ Missed \in SUBSET Items
  BY DEF CollectionKept, Missed, Fetch!Constant
<1> QED BY <1>1, FS_Subset, FS_CardinalityType DEF Sized

LEMMA NoneMissedAnew ==
  ASSUME Sized, CollectionKept, Cardinality(Missed) <= Cardinality(removed),
         Missed' \subseteq Missed, removed' = removed
  PROVE  Cardinality(Missed') <= Cardinality(removed')
<1> DEFINE new == Missed'
<1>1. new \in SUBSET Missed
  OBVIOUS
<1> HIDE DEF new
<1>2. Cardinality(new) <= Cardinality(Missed) /\ IsFiniteSet(new)
  BY <1>1, MissedIsSmall, FS_Subset
<1>3. Cardinality(new) \in Nat
  BY <1>2, FS_CardinalityType
<1>4. Cardinality(new) <= Cardinality(removed')
  BY <1>2, <1>3, MissedIsSmall
<1> QED BY <1>4 DEF new

LEMMA OneMissedAnew ==
  ASSUME Sized, CollectionKept, Cardinality(Missed) <= Cardinality(removed),
         NEW y, Missed' \subseteq Missed \cup {y}, NEW x, x \notin removed, removed' = removed \cup {x}
  PROVE  Cardinality(Missed') <= Cardinality(removed')
<1> DEFINE new == Missed'
           more == Missed \cup {y}
<1>1. IsFiniteSet(more) /\ Cardinality(more) <= Cardinality(Missed) + 1 /\ Cardinality(more) \in Nat
  <2>1. IsFiniteSet(more) /\ Cardinality(more) = IF y \in Missed THEN Cardinality(Missed) ELSE Cardinality(Missed) + 1
    BY MissedIsSmall, FS_AddElement
  <2> HIDE DEF more
  <2> QED BY <2>1, MissedIsSmall
<1>2. Cardinality(removed') = Cardinality(removed) + 1
  BY MissedIsSmall, FS_AddElement
<1>3. new \in SUBSET more
  OBVIOUS
<1> HIDE DEF new, more
<1>4. Cardinality(new) <= Cardinality(more) /\ IsFiniteSet(new)
  BY <1>1, <1>3, FS_Subset
<1>5. Cardinality(new) \in Nat
  BY <1>4, FS_CardinalityType
<1>6. Cardinality(new) <= Cardinality(removed')
  BY <1>1, <1>2, <1>4, <1>5, MissedIsSmall
<1> QED BY <1>6 DEF new

LEMMA InsertStep ==
  ASSUME Sized, FetchInv, NEW x \in Items, Fetch!Insert(x)
  PROVE  FetchInv'
<1>1. /\ outcome = "open" /\ x \notin base \cup inserted /\ inserted' = inserted \cup {x}
      /\ UNCHANGED <<kind, cap, base, touched, removed, offset, got, attempt, login, token, calls, outcome>>
  BY DEF Fetch!Insert, Fetch!Changing, Fetch!Client
<1>2. ClientKept' /\ CallsKept'
  BY <1>1 DEF FetchInv, ClientKept, CallsKept
<1>3. \A i : ~IsAt(list, x, i)
  BY <1>1 DEF FetchInv, CollectionKept
<1>4. Behind(list', list, x) \/ Before(list', list, x)
  <2>1. list' = <<x>> \o list \/ list' = Append(list, x)
    BY DEF Fetch!Insert
  <2>2. list \in Seq(Items) /\ OncePerItem(list)
    BY DEF FetchInv, CollectionKept
  <2>3. Behind(<<x>> \o list, list, x) /\ Before(Append(list, x), list, x)
    BY <1>3, <2>2, FrontIsBehind, EndIsBefore
  <2> QED BY <2>1, <2>3
<1>5. /\ list' \in Seq(Items) /\ OncePerItem(list')
      /\ \A y, i : IsAt(list', y, i) => y = x \/ \E j : IsAt(list, y, j) /\ (i \in Nat => j <= i)
      /\ \A y, i : IsAt(list, y, i) => \E j : IsAt(list', y, j)
  <2>1. CASE Behind(list', list, x)
    <3>1. ASSUME NEW y, NEW i, IsAt(list', y, i), y # x
          PROVE  \E j : IsAt(list, y, j) /\ (i \in Nat => j <= i)
      <4>1. IsAt(list, y, i - 1) /\ (i \in Nat => i - 1 <= i)
        BY <2>1, <3>1 DEF Behind
      <4> QED BY <4>1
    <3> QED BY <2>1, <3>1 DEF Behind
  <2>2. CASE Before(list', list, x)
    BY <2>2 DEF Before
  <2> QED BY <1>4, <2>1, <2>2
<1>6. Fetch!Constant' = Fetch!Constant
  BY <1>1 DEF Fetch!Constant
<1>7. CollectionKept'
  <2>1. \A y, i : IsAt(list', y, i) => y \in (base' \cup inserted') \ removed'
    BY <1>1, <1>5 DEF FetchInv, CollectionKept
  <2>2. \A y \in Fetch!Constant' : \E i : IsAt(list', y, i)
    BY <1>5, <1>6 DEF FetchInv, CollectionKept
  <2> QED BY <1>1, <1>5, <2>1, <2>2 DEF FetchInv, CollectionKept
<1>8. LossKept'
  <2>1. Missed' \subseteq Missed
    <3> SUFFICES ASSUME NEW y \in Fetch!Constant, y \notin Fetch!Range(got),
                        NEW i \in 1..offset, IsAt(list', y, i)
                 PROVE  \E j \in 1..offset : IsAt(list, y, j)
      <4> QED BY <1>1, <1>6 DEF Missed, Fetch!Range
    <3>1. y # x
      BY <1>1 DEF Fetch!Constant
    <3>2. i \in Nat /\ offset \in Nat
      BY DEF FetchInv, ClientKept
    <3>3. PICK j : IsAt(list, y, j) /\ j <= i
      BY <1>5, <3>1, <3>2
    <3>4. Len(list) \in Nat
      BY LenProperties DEF FetchInv, CollectionKept
    <3> QED BY <3>2, <3>3, <3>4 DEF IsAt
  <2> QED BY <1>1, <2>1, NoneMissedAnew DEF FetchInv, LossKept, Fetch!StopsShort
<1>9. OrderKept'
  BY <1>1 DEF OrderKept
<1> QED BY <1>2, <1>7, <1>8, <1>9 DEF FetchInv

LEMMA PlaceOfItem ==
  ASSUME CollectionKept, NEW x, Fetch!Contains(list, x)
  PROVE  IsAt(list, x, Fetch!Place(x)) /\ Without(Fetch!Others(x), list, x, Fetch!Place(x))
<1>1. list \in Seq(Items) /\ OncePerItem(list) /\ DOMAIN list = 1..Len(list)
  BY LenProperties DEF CollectionKept
<1>2. \E i \in DOMAIN list : list[i] = x
  BY <1>1 DEF Fetch!Contains
<1>3. IsAt(list, x, Fetch!Place(x))
  BY <1>1, <1>2 DEF Fetch!Place, IsAt
<1> QED BY <1>1, <1>3, RemovedIsWithout DEF Fetch!Others

LEMMA TouchStep ==
  ASSUME Sized, FetchInv, NEW x \in Items, Fetch!Touch(x)
  PROVE  FetchInv'
<1> DEFINE rest == Fetch!Others(x)
           p == Fetch!Place(x)
<1>1. /\ outcome = "open" /\ Fetch!Contains(list, x) /\ list' = <<x>> \o rest /\ touched' = touched \cup {x}
      /\ UNCHANGED <<kind, cap, base, inserted, removed, offset, got, attempt, login, token, calls, outcome>>
  BY DEF Fetch!Touch, Fetch!Changing, Fetch!Client
<1>2. ClientKept' /\ CallsKept'
  BY <1>1 DEF FetchInv, ClientKept, CallsKept
<1>3. IsAt(list, x, p) /\ Without(rest, list, x, p)
  BY <1>1, PlaceOfItem DEF FetchInv
<1> HIDE DEF rest, p
<1>4. \A i : ~IsAt(rest, x, i)
  BY <1>3 DEF Without
<1>5. Behind(list', rest, x)
  BY <1>1, <1>3, <1>4, FrontIsBehind DEF Without
<1>6. p \in Nat
  BY <1>3 DEF IsAt
<1>7. ASSUME NEW y, NEW i, IsAt(list', y, i), y # x
      PROVE  \E j : IsAt(list, y, j) /\ (i \in Nat => j <= i)
  <2>1. IsAt(rest, y, i - 1)
    BY <1>5, <1>7 DEF Behind
  <2>2. IsAt(list, y, IF i - 1 < p THEN i - 1 ELSE i - 1 + 1)
    BY <1>3, <2>1 DEF Without
  <2>3. i \in Nat => (IF i - 1 < p THEN i - 1 ELSE i - 1 + 1) <= i
    BY <1>6
  <2> QED BY <2>2, <2>3
<1>8. \A y, i : IsAt(list, y, i) => \E j : IsAt(list', y, j)
  <2> SUFFICES ASSUME NEW y, NEW i, IsAt(list, y, i)
               PROVE  \E j : IsAt(list', y, j)
    OBVIOUS
  <2>1. CASE y = x
    BY <1>5, <2>1 DEF Behind
  <2>2. CASE y # x
    BY <1>3, <1>5, <2>2 DEF Without, Behind
  <2> QED BY <2>1, <2>2
<1>9. Fetch!Constant' = Fetch!Constant \ {x}
  BY <1>1 DEF Fetch!Constant
<1>10. CollectionKept'
  <2>1. \A y, i : IsAt(list', y, i) => y \in (base' \cup inserted') \ removed'
    BY <1>1, <1>3, <1>7 DEF FetchInv, CollectionKept
  <2>2. \A y \in Fetch!Constant' : \E i : IsAt(list', y, i)
    BY <1>8, <1>9 DEF FetchInv, CollectionKept
  <2>3. list' \in Seq(Items) /\ OncePerItem(list')
    BY <1>5 DEF Behind
  <2> QED BY <1>1, <2>1, <2>2, <2>3 DEF FetchInv, CollectionKept
<1>11. LossKept'
  <2>1. Missed' \subseteq Missed
    <3> SUFFICES ASSUME NEW y \in Fetch!Constant \ {x}, y \notin Fetch!Range(got),
                        NEW i \in 1..offset, IsAt(list', y, i)
                 PROVE  \E j \in 1..offset : IsAt(list, y, j)
      <4> QED BY <1>1, <1>9 DEF Missed, Fetch!Range
    <3>1. i \in Nat /\ offset \in Nat
      BY DEF FetchInv, ClientKept
    <3>2. PICK j : IsAt(list, y, j) /\ j <= i
      BY <1>7, <3>1
    <3>3. Len(list) \in Nat
      BY LenProperties DEF FetchInv, CollectionKept
    <3> QED BY <3>1, <3>2, <3>3 DEF IsAt
  <2> QED BY <1>1, <2>1, NoneMissedAnew DEF FetchInv, LossKept, Fetch!StopsShort
<1>12. OrderKept'
  BY <1>1 DEF OrderKept
<1> QED BY <1>2, <1>10, <1>11, <1>12 DEF FetchInv

(* The item that moves up over the offset is missed; no other is. *)
LEMMA DeleteStep ==
  ASSUME Sized, FetchInv, NEW x \in Items, Fetch!Delete(x)
  PROVE  FetchInv'
<1> DEFINE p == Fetch!Place(x)
<1>1. /\ outcome = "open" /\ Fetch!Contains(list, x) /\ list' = Fetch!Others(x) /\ removed' = removed \cup {x}
      /\ UNCHANGED <<kind, cap, base, inserted, touched, offset, got, attempt, login, token, calls, outcome>>
  BY DEF Fetch!Delete, Fetch!Changing, Fetch!Client
<1>2. ClientKept' /\ CallsKept'
  BY <1>1 DEF FetchInv, ClientKept, CallsKept
<1>3. IsAt(list, x, p) /\ Without(list', list, x, p)
  BY <1>1, PlaceOfItem DEF FetchInv
<1> HIDE DEF p
<1>4. p \in Nat
  BY <1>3 DEF IsAt
<1>5. x \in (base \cup inserted) \ removed
  BY <1>3 DEF FetchInv, CollectionKept
<1>6. Fetch!Constant' = Fetch!Constant \ {x}
  BY <1>1 DEF Fetch!Constant
<1>7. CollectionKept'
  <2>1. \A y, i : IsAt(list', y, i) => y \in (base' \cup inserted') \ removed'
    BY <1>1, <1>3 DEF FetchInv, CollectionKept, Without
  <2>2. \A y \in Fetch!Constant' : \E i : IsAt(list', y, i)
    BY <1>3, <1>6 DEF FetchInv, CollectionKept, Without
  <2>3. list' \in Seq(Items) /\ OncePerItem(list')
    BY <1>3 DEF Without
  <2> QED BY <1>1, <1>5, <2>1, <2>2, <2>3 DEF FetchInv, CollectionKept
<1>8. LossKept'
  <2>1. Missed' \subseteq Missed \cup {list[offset + 1]}
    <3> SUFFICES ASSUME NEW y \in Fetch!Constant \ {x}, y \notin Fetch!Range(got),
                        NEW i \in 1..offset, IsAt(list', y, i)
                 PROVE  y = list[offset + 1] \/ \E j \in 1..offset : IsAt(list, y, j)
      <4> QED BY <1>1, <1>6 DEF Missed, Fetch!Range
    <3>1. i \in Nat /\ offset \in Nat
      BY DEF FetchInv, ClientKept
    <3>2. IsAt(list, y, IF i < p THEN i ELSE i + 1)
      BY <1>3 DEF Without
    <3>3. CASE i < p \/ i + 1 <= offset
      BY <1>4, <3>1, <3>2, <3>3
    <3>4. CASE ~(i < p) /\ i = offset
      BY <3>2, <3>4 DEF IsAt
    <3> QED BY <1>4, <3>1, <3>3, <3>4
  <2>2. Cardinality(Missed') <= Cardinality(removed')
    BY <1>1, <1>5, <2>1, OneMissedAnew DEF FetchInv, LossKept
  <2> QED BY <1>1, <2>2 DEF FetchInv, LossKept, Fetch!StopsShort
<1>9. OrderKept'
  BY <1>1 DEF OrderKept
<1> QED BY <1>2, <1>7, <1>8, <1>9 DEF FetchInv

-----------------------------------------------------------------------------
(* Pages: the answers *)

(* The items of the collection from the offset on, at most so many. *)
PageOf(page, size) ==
  /\ page \in Seq(Items) /\ \A i \in 1..Len(page) : page[i] = list[offset + i]
  /\ Len(page) = IF offset < Len(list) THEN Fetch!Lesser(offset + size, Len(list)) - offset ELSE 0

LEMMA PageIsSent ==
  ASSUME FetchInv, NEW size \in Nat
  PROVE  PageOf(Fetch!Page(size), size)
<1> DEFINE n == Fetch!Lesser(offset + size, Len(list))
           page == SubSeq(list, offset + 1, n)
<1>1. offset \in Nat /\ list \in Seq(Items) /\ Len(list) \in Nat /\ \A k \in 1..Len(list) : list[k] \in Items
  BY LenProperties DEF FetchInv, ClientKept, CollectionKept
<1>2. n \in Nat /\ n <= Len(list) /\ n <= offset + size /\ n = IF offset + size < Len(list) THEN offset + size ELSE Len(list)
  BY <1>1 DEF Fetch!Lesser
<1> HIDE DEF n
<1>3. offset + 1 \in Int /\ n \in Int /\ \A k \in (offset + 1)..n : list[k] \in Items
  BY <1>1, <1>2
<1>4. /\ page \in Seq(Items) /\ Len(page) = IF offset + 1 <= n THEN n - (offset + 1) + 1 ELSE 0
      /\ \A k \in 1..(n - (offset + 1) + 1) : page[k] = list[offset + 1 + k - 1]
  BY <1>3, SubSeqProperties
<1> HIDE DEF page
<1>5. Len(page) = IF offset < Len(list) THEN n - offset ELSE 0
  BY <1>1, <1>2, <1>4
<1>6. ASSUME NEW i \in 1..Len(page) PROVE page[i] = list[offset + i]
  <2>1. i \in 1..(n - (offset + 1) + 1) /\ offset + 1 + i - 1 = offset + i
    BY <1>1, <1>2, <1>4
  <2> QED BY <1>4, <2>1
<1>7. Fetch!Page(size) = page
  BY DEF Fetch!Page, page, n
<1> QED BY <1>4, <1>5, <1>6, <1>7 DEF PageOf, n

(* The offset moves to the end of the page, or past the end of the collection. *)
Moves(next, final, size) ==
  /\ next \in Nat /\ next <= offset + size
  /\ Fetch!Lesser(next, Len(list)) = Fetch!Lesser(offset + size, Len(list))
  /\ final /\ ~Fetch!StopsShort => next >= Len(list)
  /\ Fetch!StopsShort => final /\ next = cap

LEMMA RetriesMultiply ==
  ASSUME Sized, NEW n \in 0..(Attempts - 1)
  PROVE  /\ n * Attempts \in Nat /\ Attempts * Attempts \in Nat
         /\ n * Attempts + Attempts <= Attempts * Attempts /\ (n + 1) * Attempts = n * Attempts + Attempts
<1>1. Attempts \in Nat /\ Attempts > 0 /\ n \in Nat /\ n + 1 <= Attempts
  BY DEF Sized
<1>2. n * Attempts \in Nat /\ Attempts * Attempts \in Nat /\ (n + 1) * Attempts = n * Attempts + Attempts
  BY <1>1
<1>3. (n + 1) * Attempts <= Attempts * Attempts
  BY <1>1
<1> QED BY <1>2, <1>3

LEMMA AnsweredStep ==
  ASSUME Sized, FetchInv, Fetch!Asking, NEW page, NEW size \in Nat, PageOf(page, size),
         NEW next, NEW final \in BOOLEAN, Moves(next, final, size), Fetch!Answered(page, next, final)
  PROVE  FetchInv'
<1>1. /\ got' = got \o page /\ offset' = next /\ outcome' = IF final THEN "done" ELSE "open"
      /\ attempt' = 0 /\ login' = 0 /\ calls' = IF final THEN calls + 1 ELSE 0
      /\ UNCHANGED <<kind, cap, base, list, inserted, touched, removed, token>>
  BY DEF Fetch!Answered, Fetch!world
<1>2. outcome = "open" /\ (kind = "persons" => token) /\ token \in BOOLEAN
  BY DEF Fetch!Asking, Fetch!NeedsLogin, FetchInv, ClientKept
<1>3. /\ page \in Seq(Items) /\ got \in Seq(Items) /\ list \in Seq(Items) /\ offset \in Nat /\ calls \in Nat
      /\ Len(page) \in Nat /\ Len(got) \in Nat /\ Len(list) \in Nat
  BY LenProperties DEF PageOf, FetchInv, ClientKept, CollectionKept
<1>4. /\ got' \in Seq(Items) /\ Len(got') = Len(got) + Len(page)
      /\ \A i \in 1..Len(got') : got'[i] = IF i <= Len(got) THEN got[i] ELSE page[i - Len(got)]
  <2> DEFINE all == got \o page
  <2>1. /\ all \in Seq(Items) /\ Len(all) = Len(got) + Len(page)
        /\ \A i \in 1..(Len(got) + Len(page)) : all[i] = IF i <= Len(got) THEN got[i] ELSE page[i - Len(got)]
    BY <1>3, ConcatProperties
  <2>2. got' = all
    BY <1>1
  <2> HIDE DEF all
  <2>3. ASSUME NEW i \in 1..Len(all)
        PROVE  all[i] = IF i <= Len(got) THEN got[i] ELSE page[i - Len(got)]
    <3>1. i \in 1..(Len(got) + Len(page))
      BY <2>1
    <3> QED BY <2>1, <3>1
  <2> QED BY <2>1, <2>2, <2>3
<1>5. CollectionKept'
  BY <1>1 DEF FetchInv, CollectionKept, Fetch!Constant
<1>6. ClientKept'
  BY <1>1, <1>3, <1>4 DEF FetchInv, ClientKept, Moves, Sized
<1>7. \A y : y \in Fetch!Range(got) => y \in Fetch!Range(got')
  <2> SUFFICES ASSUME NEW y \in Fetch!Range(got)
               PROVE  y \in Fetch!Range(got')
    OBVIOUS
  <2>1. PICK i : IsAt(got, y, i)
    BY <1>3, InRange
  <2>2. i \in 1..Len(got') /\ i <= Len(got) /\ got[i] = y
    BY <1>3, <1>4, <2>1 DEF IsAt
  <2>3. got'[i] = IF i <= Len(got) THEN got[i] ELSE page[i - Len(got)]
    BY <1>4, <2>2, Zenon
  <2>4. IsAt(got', y, i)
    BY <2>2, <2>3, Zenon DEF IsAt
  <2>5. \A z : z \in Fetch!Range(got') <=> \E j : IsAt(got', z, j)
    BY <1>4, InRange
  <2> QED BY <2>4, <2>5
<1>8. ASSUME NEW y, NEW i \in 1..next, i > offset, IsAt(list, y, i)
      PROVE  y \in Fetch!Range(got')
  <2> DEFINE k == i - offset
  <2>1. i \in Nat /\ i <= Len(list) /\ next \in Nat /\ next <= offset + size
    BY <1>3, <1>8 DEF IsAt, Moves
  <2>2. k \in 1..Len(page) /\ offset + k = i
    BY <1>3, <1>8, <2>1 DEF PageOf, Fetch!Lesser
  <2>3. page[k] = y
    BY <1>8, <2>2 DEF PageOf, IsAt
  <2> HIDE DEF k
  <2> DEFINE q == Len(got) + k
  <2>4. q \in 1..Len(got') /\ ~(q <= Len(got)) /\ q - Len(got) = k
    BY <1>3, <1>4, <2>2
  <2> HIDE DEF q
  <2>6. got'[q] = IF q <= Len(got) THEN got[q] ELSE page[q - Len(got)]
    BY <1>4, <2>4, Zenon
  <2>7. IsAt(got', y, q)
    BY <2>3, <2>4, <2>6, Zenon DEF IsAt
  <2>5. \A z : z \in Fetch!Range(got') <=> \E j : IsAt(got', z, j)
    BY <1>4, InRange
  <2> QED BY <2>5, <2>7
<1>9. LossKept'
  <2>1. Missed' \subseteq Missed
    <3> SUFFICES ASSUME NEW y \in Fetch!Constant, y \notin Fetch!Range(got'),
                        NEW i \in 1..next, IsAt(list, y, i)
                 PROVE  y \notin Fetch!Range(got) /\ \E j \in 1..offset : IsAt(list, y, j)
      <4>1. Fetch!Constant' = Fetch!Constant
        BY <1>1 DEF Fetch!Constant
      <4>2. Fetch!Range(got)' = Fetch!Range(got')
        BY DEF Fetch!Range
      <4>3. Missed' = {y \in Fetch!Constant : /\ y \notin Fetch!Range(got')
                                            /\ \E i \in 1..next : IsAt(list, y, i)}
        BY <1>1, <4>1, <4>2 DEF Missed
      <4> QED BY <4>3 DEF Missed
    <3>1. i <= offset /\ i \in 1..offset
      BY <1>3, <1>8 DEF Moves
    <3> QED BY <1>7, <3>1
  <2>2. Cardinality(Missed') <= Cardinality(removed')
    BY <1>1, <2>1, NoneMissedAnew DEF FetchInv, LossKept
  <2>3. Fetch!StopsShort' = Fetch!StopsShort
    BY <1>1 DEF Fetch!StopsShort
  <2>4. /\ final /\ ~Fetch!StopsShort => next >= Len(list)
        /\ Fetch!StopsShort => final /\ next = cap
    BY DEF Moves
  <2> QED BY <1>1, <2>2, <2>3, <2>4 DEF LossKept
<1>10. OrderKept'
  <2> SUFFICES ASSUME inserted = {}, touched = {}, removed = {}
               PROVE  Begins(got', list, next)
    BY <1>1 DEF OrderKept, Begins, Fetch!Lesser
  <2>1. Len(got) = Fetch!Lesser(offset, Len(list)) /\ \A i \in 1..Len(got) : got[i] = list[i]
    BY DEF FetchInv, OrderKept, Begins
  <2>2. Len(got') = Fetch!Lesser(next, Len(list))
    BY <1>3, <1>4, <2>1 DEF PageOf, Moves, Fetch!Lesser
  <2>3. ASSUME NEW i \in 1..Len(got') PROVE got'[i] = list[i]
    <3>1. CASE i <= Len(got)
      <4>1. i \in 1..Len(got)
        BY <1>3, <1>4, <3>1
      <4> QED BY <1>3, <1>4, <2>1, <3>1, <4>1
    <3>2. CASE i > Len(got)
      <4>1. i - Len(got) \in 1..Len(page) /\ Len(got) = offset /\ offset + (i - Len(got)) = i
        BY <1>3, <1>4, <2>1, <3>2 DEF PageOf, Fetch!Lesser
      <4>2. got'[i] = IF i <= Len(got) THEN got[i] ELSE page[i - Len(got)]
        BY <1>4, Zenon
      <4>5. ~(i <= Len(got))
        BY <1>3, <3>2
      <4>3. page[i - Len(got)] = list[offset + (i - Len(got))]
        BY <4>1 DEF PageOf
      <4>4. list[offset + (i - Len(got))] = list[i]
        BY <4>1, Zenon
      <4> QED BY <4>2, <4>3, <4>4, <4>5, Zenon
    <3>3. i \in Nat
      OBVIOUS
    <3> QED BY <1>3, <3>1, <3>2, <3>3
  <2> QED BY <2>2, <2>3 DEF Begins
<1>11. CallsKept'
  <2>1. /\ attempt * Attempts \in Nat /\ Attempts * Attempts \in Nat /\ 0 * Attempts = 0
        /\ attempt * Attempts + Attempts <= Attempts * Attempts
    BY RetriesMultiply DEF FetchInv, ClientKept, Sized
  <2>2. attempt \in Nat /\ Attempts \in Nat /\ attempt + 1 <= Attempts
    BY DEF FetchInv, ClientKept, Sized
  <2>3. CASE kind # "persons"
    BY <1>1, <1>2, <1>3, <2>2, <2>3 DEF FetchInv, CallsKept
  <2>4. CASE kind = "persons"
    <3>1. calls <= attempt * Attempts + Attempts
      BY <1>2, <2>4 DEF FetchInv, CallsKept
    <3> DEFINE m == attempt * Attempts
               q == Attempts * Attempts
    <3>2. m \in Nat /\ q \in Nat /\ m + Attempts <= q /\ calls <= m + Attempts
      BY <2>1, <3>1
    <3> HIDE DEF m, q
    <3>3. calls + 1 <= q + 1 /\ 0 <= 0 + Attempts
      BY <1>3, <2>2, <3>2
    <3>4. final => calls' <= q + 1
      BY <1>1, <3>3
    <3>5. ~final => calls' <= 0 * Attempts + Attempts
      BY <1>1, <2>1, <3>3
    <3> QED BY <1>1, <1>2, <2>4, <3>4, <3>5 DEF CallsKept, q
  <2> QED BY <2>3, <2>4
<1> QED BY <1>5, <1>6, <1>9, <1>10, <1>11 DEF FetchInv

(* Pages by number *)
LEMMA SentItems ==
  ASSUME Sized, FetchInv
  PROVE  /\ Fetch!Sent \in Nat /\ cap \in Nat
         /\ Fetch!StopsShort => Fetch!Sent = cap /\ cap < PageSize
         /\ kind \in Fetch!ShortPage /\ ~Fetch!StopsShort => PageSize <= Fetch!Sent
  BY DEF Sized, FetchInv, CollectionKept, Fetch!Sent, Fetch!Lesser, Fetch!StopsShort

LEMMA ShortPageStep ==
  ASSUME Sized, FetchInv, Fetch!Asking, kind \in Fetch!ShortPage, Fetch!ShortPageEnds
  PROVE  FetchInv'
<1> DEFINE size == Fetch!Sent
           page == Fetch!Page(size)
           next == offset + size
           final == Len(page) < PageSize
<1>1. /\ size \in Nat /\ cap \in Nat /\ PageSize \in Nat
      /\ Fetch!StopsShort => size = cap /\ cap < PageSize
      /\ ~Fetch!StopsShort => PageSize <= size
  BY SentItems DEF Sized
<1>2. Fetch!Answered(page, next, final)
  BY DEF Fetch!ShortPageEnds
<1> HIDE DEF size
<1>3. PageOf(page, size)
  BY <1>1, PageIsSent
<1> HIDE DEF page
<1>4. Moves(next, final, size)
  <2>1. offset \in Nat /\ Len(list) \in Nat /\ (Fetch!StopsShort /\ outcome = "open" => offset = 0)
    BY LenProperties DEF FetchInv, ClientKept, CollectionKept, LossKept
  <2>2. outcome = "open"
    BY DEF Fetch!Asking
  <2>3. /\ Len(page) <= size /\ Len(page) \in Nat
        /\ Len(page) < size => next >= Len(list)
    BY <1>1, <1>3, <2>1 DEF PageOf, Fetch!Lesser
  <2>4. final /\ ~Fetch!StopsShort => next >= Len(list)
    BY <1>1, <2>3
  <2>5. Fetch!StopsShort => final /\ next = cap
    BY <1>1, <2>1, <2>2, <2>3
  <2>6. next \in Nat
    BY <1>1, <2>1
  <2> QED BY <2>4, <2>5, <2>6 DEF Moves
<1>5. final \in BOOLEAN
  OBVIOUS
<1> HIDE DEF next, final
<1> QED BY <1>1, <1>2, <1>3, <1>4, <1>5, AnsweredStep

(* Pages by offset, with a total *)
LEMMA TotalStep ==
  ASSUME Sized, FetchInv, Fetch!Asking, kind \notin Fetch!ShortPage, Fetch!TotalEnds
  PROVE  FetchInv'
<1> DEFINE size == Fetch!Sent
           page == Fetch!Page(size)
           next == offset + size
           final == offset + size >= Len(list)
<1>1. size \in Nat
  BY SentItems
<1>2. Fetch!Answered(page, next, final)
  BY DEF Fetch!TotalEnds
<1> HIDE DEF size
<1>3. PageOf(page, size)
  BY <1>1, PageIsSent
<1>4. Moves(next, final, size)
  <2>1. offset \in Nat /\ Len(list) \in Nat
    BY LenProperties DEF FetchInv, ClientKept, CollectionKept
  <2> QED BY <1>1, <2>1 DEF Moves, Fetch!Lesser, Fetch!StopsShort
<1>5. final \in BOOLEAN
  OBVIOUS
<1> HIDE DEF page, next, final
<1> QED BY <1>1, <1>2, <1>3, <1>4, <1>5, AnsweredStep

(* Pages that move on by what was received *)
LEMMA ReceivedStep ==
  ASSUME Sized, FetchInv, Fetch!Asking, kind \notin Fetch!ShortPage,
         NEW page, page = Fetch!Page(Fetch!Sent),
         Fetch!Answered(page, offset + Len(page), offset + Len(page) >= Len(list))
  PROVE  FetchInv'
<1> DEFINE size == Fetch!Sent
           next == offset + Len(page)
           final == offset + Len(page) >= Len(list)
<1>1. size \in Nat
  BY SentItems
<1>2. Fetch!Answered(page, next, final) /\ page = Fetch!Page(size)
  OBVIOUS
<1> HIDE DEF size
<1>3. PageOf(page, size)
  BY <1>1, <1>2, PageIsSent
<1>4. Moves(next, final, size)
  <2>1. offset \in Nat /\ Len(list) \in Nat
    BY LenProperties DEF FetchInv, ClientKept, CollectionKept
  <2> QED BY <1>1, <1>3, <2>1 DEF PageOf, Moves, Fetch!Lesser, Fetch!StopsShort
<1>5. final \in BOOLEAN
  OBVIOUS
<1> HIDE DEF next, final
<1> QED BY <1>1, <1>2, <1>3, <1>4, <1>5, AnsweredStep

(* One more call of this request; the collection and what was received stay. *)
CallFails ==
  /\ outcome = "open" /\ calls' = calls + 1
  /\ UNCHANGED <<kind, cap, base, list, inserted, touched, removed, offset, got>>
  /\ outcome' \in {"open", "failed"} /\ token' \in BOOLEAN
  /\ attempt' \in 0..(Attempts - 1) /\ login' \in 0..(Attempts - 1)

LEMMA CallFailsKeeps ==
  ASSUME Sized, FetchInv, CallFails
  PROVE  CollectionKept' /\ ClientKept' /\ LossKept' /\ OrderKept'
<1>1. CollectionKept'
  BY DEF CallFails, FetchInv, CollectionKept, Fetch!Constant
<1>2. ClientKept'
  BY DEF CallFails, FetchInv, ClientKept
<1>3. LossKept'
  <2>1. Missed' = Missed
    BY DEF CallFails, Missed, Fetch!Constant, Fetch!Range
  <2>2. Cardinality(Missed') <= Cardinality(removed')
    BY <2>1 DEF CallFails, FetchInv, LossKept
  <2> QED BY <2>2 DEF CallFails, FetchInv, LossKept, Fetch!StopsShort
<1>4. OrderKept'
  BY DEF CallFails, FetchInv, OrderKept, Begins, Fetch!Lesser
<1> QED BY <1>1, <1>2, <1>3, <1>4

(* The numbers of calls: m stands for those of the attempts used up before. *)
LEMMA CallsAreCounted ==
  ASSUME Sized, FetchInv, outcome = "open"
  PROVE  \E m, next, all \in Nat :
            /\ m = attempt * Attempts /\ next = (attempt + 1) * Attempts /\ all = Attempts * Attempts
            /\ next = m + Attempts /\ next <= all
            /\ calls <= IF kind # "persons" THEN attempt ELSE IF token THEN m + Attempts ELSE m + login
<1>1. attempt \in 0..(Attempts - 1)
  BY DEF FetchInv, ClientKept
<1>2. /\ attempt * Attempts \in Nat /\ Attempts * Attempts \in Nat
      /\ attempt * Attempts + Attempts <= Attempts * Attempts
      /\ (attempt + 1) * Attempts = attempt * Attempts + Attempts
  BY <1>1, RetriesMultiply
<1>3. (attempt + 1) * Attempts \in Nat
  BY <1>2 DEF Sized
<1>4. calls <= IF kind # "persons" THEN attempt
               ELSE IF token THEN attempt * Attempts + Attempts ELSE attempt * Attempts + login
  BY DEF FetchInv, CallsKept
<1> QED BY <1>2, <1>3, <1>4

LEMMA RequestFailsStep == ASSUME Sized, FetchInv, Fetch!RequestFails PROVE FetchInv'
<1>1. /\ outcome = "open" /\ (kind = "persons" => token) /\ token' = token /\ login' = login
      /\ calls' = calls + 1 /\ kind' = kind
      /\ \/ attempt + 1 < Attempts /\ attempt' = attempt + 1 /\ outcome' = "open"
         \/ attempt' = attempt /\ outcome' = "failed"
  <2>1. outcome = "open" /\ (kind = "persons" => token)
    BY Zenon DEF Fetch!RequestFails, Fetch!Asking, Fetch!NeedsLogin
  <2>2. token' = token /\ login' = login /\ calls' = calls + 1 /\ kind' = kind
    BY DEF Fetch!RequestFails, Fetch!world
  <2>3. \/ attempt + 1 < Attempts /\ attempt' = attempt + 1 /\ outcome' = outcome
        \/ attempt' = attempt /\ outcome' = "failed"
    BY DEF Fetch!RequestFails, Fetch!Failed
  <2> QED BY <2>1, <2>2, <2>3
<1>2. /\ attempt \in Nat /\ Attempts \in Nat /\ attempt + 1 <= Attempts /\ calls \in Nat /\ token \in BOOLEAN
      /\ Attempts > 0
  BY DEF FetchInv, ClientKept, Sized
<1>3. CallFails
  BY <1>1, <1>2 DEF CallFails, Fetch!RequestFails, Fetch!world, FetchInv, ClientKept
<1>4. CallsKept'
  <2>1. PICK m \in Nat, next \in Nat, all \in Nat :
            /\ m = attempt * Attempts /\ next = (attempt + 1) * Attempts /\ all = Attempts * Attempts
            /\ next = m + Attempts /\ next <= all
            /\ calls <= IF kind # "persons" THEN attempt ELSE IF token THEN m + Attempts ELSE m + login
    BY <1>1, CallsAreCounted
  <2>2. CASE kind # "persons"
    <3>1. login' = 0
      BY <1>1, <2>2 DEF FetchInv, CallsKept
    <3>2. calls' <= IF outcome' = "open" THEN attempt' ELSE Attempts
      BY <1>1, <1>2, <2>1, <2>2
    <3> QED BY <1>1, <2>2, <3>1, <3>2 DEF CallsKept
  <2>3. CASE kind = "persons" /\ outcome' = "open"
    <3>1. calls' <= next + Attempts
      BY <1>1, <1>2, <2>1, <2>3
    <3>2. calls' <= attempt' * Attempts + Attempts
      BY <1>1, <2>1, <2>3, <3>1
    <3> QED BY <1>1, <2>3, <3>2 DEF CallsKept
  <2>4. CASE kind = "persons" /\ outcome' = "failed"
    <3>1. calls' <= all + 1
      BY <1>1, <1>2, <2>1, <2>4
    <3> QED BY <1>1, <2>1, <2>4, <3>1 DEF CallsKept
  <2> QED BY <1>1, <1>3, <2>2, <2>3, <2>4 DEF CallFails
<1> QED BY <1>3, <1>4, CallFailsKeeps DEF FetchInv

LEMMA LoginStep == ASSUME Sized, FetchInv, Fetch!Login \/ Fetch!LoginFails PROVE FetchInv'
<1>1. /\ outcome = "open" /\ kind = "persons" /\ ~token /\ calls' = calls + 1
      /\ UNCHANGED <<kind, cap, base, list, inserted, touched, removed, offset, got>>
  <2>1. outcome = "open" /\ kind = "persons" /\ ~token
    BY Zenon DEF Fetch!Login, Fetch!LoginFails, Fetch!NeedsLogin
  <2>2. calls' = calls + 1 /\ UNCHANGED <<kind, cap, base, list, inserted, touched, removed, offset, got>>
    BY DEF Fetch!Login, Fetch!LoginFails, Fetch!world
  <2> QED BY <2>1, <2>2
<1>2. /\ attempt \in Nat /\ login \in Nat /\ Attempts \in Nat /\ attempt + 1 <= Attempts /\ login + 1 <= Attempts
      /\ calls \in Nat /\ Attempts > 0
  BY DEF FetchInv, ClientKept, Sized
<1>3. \/ Fetch!Login /\ token' = TRUE /\ login' = 0 /\ attempt' = attempt /\ outcome' = outcome
      \/ Fetch!LoginFails /\ token' = token
  BY DEF Fetch!Login, Fetch!LoginFails
<1>4. ASSUME Fetch!LoginFails
      PROVE  \/ login + 1 < Attempts /\ login' = login + 1 /\ attempt' = attempt /\ outcome' = outcome
             \/ login' = 0 /\ attempt + 1 < Attempts /\ attempt' = attempt + 1 /\ outcome' = outcome
             \/ login' \in {0, login} /\ attempt' = attempt /\ outcome' = "failed"
  BY <1>4 DEF Fetch!LoginFails, Fetch!Failed
<1>5. /\ attempt' \in 0..(Attempts - 1) /\ login' \in 0..(Attempts - 1)
      /\ outcome' = outcome \/ outcome' = "failed"
  BY <1>2, <1>3, <1>4
<1>6. token' \in BOOLEAN
  <2>1. token \in BOOLEAN
    BY DEF FetchInv, ClientKept
  <2> QED BY <1>3, <2>1, Zenon
<1>7. CallFails
  BY <1>1, <1>5, <1>6, Zenon DEF CallFails
<1>8. /\ token' /\ outcome' = "open" => attempt' = attempt
      /\ ~token' /\ outcome' = "open" =>
            \/ attempt' = attempt /\ login' = login + 1
            \/ attempt' = attempt + 1 /\ login' = 0
  <2>1. "open" # "failed"
    OBVIOUS
  <2>2. CASE token' = TRUE /\ attempt' = attempt
    <3>1. token'
      BY <2>2
    <3> QED BY <2>2, <3>1, Zenon
  <2>3. CASE Fetch!LoginFails /\ token' = token
    <3>1. ~token'
      BY <1>1, <2>3
    <3>2. outcome' = "open" => \/ attempt' = attempt /\ login' = login + 1
                               \/ attempt' = attempt + 1 /\ login' = 0
      BY <1>4, <2>1, <2>3
    <3> QED BY <3>1, <3>2, Zenon
  <2> QED BY <1>3, <2>2, <2>3
<1>9. CallsKept'
  <2>1. PICK m \in Nat, next \in Nat, all \in Nat :
            /\ m = attempt * Attempts /\ next = (attempt + 1) * Attempts /\ all = Attempts * Attempts
            /\ next = m + Attempts /\ next <= all
            /\ calls <= IF kind # "persons" THEN attempt ELSE IF token THEN m + Attempts ELSE m + login
    BY <1>1, CallsAreCounted
  <2>2. calls <= m + login
    BY <1>1, <2>1, Zenon
  <2>3. calls' = calls + 1
    BY <1>1
  <2>4. calls' <= m + Attempts /\ calls' <= m + (login + 1) /\ calls' <= next + 0 /\ calls' <= all + 1
    BY <1>2, <2>1, <2>2, <2>3
  <2>5. kind' = "persons"
    BY <1>1
  <2>6. CASE outcome' = "open" /\ token'
    <3>1. calls' <= attempt' * Attempts + Attempts
      BY <1>8, <2>1, <2>4, <2>6, Zenon
    <3> QED BY <2>5, <2>6, <3>1 DEF CallsKept
  <2>7. CASE outcome' = "open" /\ ~token'
    <3>1. calls' <= attempt' * Attempts + login'
      BY <1>8, <2>1, <2>4, <2>7, Zenon
    <3> QED BY <2>5, <2>7, <3>1 DEF CallsKept
  <2>8. CASE outcome' = "failed"
    <3>1. calls' <= Attempts * Attempts + 1
      BY <2>1, <2>4, Zenon
    <3> QED BY <2>5, <2>8, <3>1 DEF CallsKept
  <2> QED BY <1>1, <1>5, <2>6, <2>7, <2>8
<1> QED BY <1>9, <1>7, CallFailsKeeps DEF FetchInv

LEMMA FetchCardinality ==
  ASSUME NEW S
  PROVE  Fetch!Cardinality(S) = Cardinality(S)
  BY DEF Cardinality, Fetch!Cardinality

LEMMA FetchInit == ASSUME Sized, Fetch!Init PROVE FetchInv
<1>1. list \in Seq(Items) /\ OncePerItem(list) /\ DOMAIN list = 1..Len(list) /\ Len(list) \in Nat
  <2>1. list \in Seq(Items)
    <3>1. \E m \in 0..Cardinality(Items) : list \in [1..m -> Items]
      <4>1. list \in Fetch!SeqOf(Items, Fetch!Cardinality(Items))
        BY DEF Fetch!Init
      <4> QED BY <4>1, FetchCardinality DEF Fetch!SeqOf
    <3>2. PICK m \in 0..Cardinality(Items) : list \in [1..m -> Items]
      BY <3>1
    <3>3. Cardinality(Items) \in Nat
      BY FS_CardinalityType DEF Sized
    <3>4. m \in Nat
      BY <3>3
    <3> QED BY <3>2, <3>4, SeqDef
  <2> QED BY <2>1, InjectiveIsDistinct, LenProperties DEF Fetch!Init
<1>2. /\ kind \in Kinds /\ cap \in Caps /\ base = Fetch!Range(list) /\ inserted = {} /\ touched = {} /\ removed = {}
      /\ offset = 0 /\ got = <<>> /\ attempt = 0 /\ login = 0 /\ token = FALSE /\ calls = 0 /\ outcome = "open"
  BY DEF Fetch!Init
<1>3. \A y : y \in base <=> \E i : IsAt(list, y, i)
  BY <1>1, <1>2, InRange
<1>4. CollectionKept
  <2>1. base \subseteq Items
    BY <1>1, <1>3 DEF IsAt
  <2> QED BY <1>1, <1>2, <1>3, <2>1 DEF CollectionKept, Fetch!Constant
<1>5. ClientKept
  <2>1. <<>> \in Seq(Items) /\ 0 \in 0..(Attempts - 1)
    BY EmptySeq DEF Sized
  <2> QED BY <1>2, <2>1 DEF ClientKept
<1>6. LossKept
  <2>1. Missed = {}
    BY <1>2 DEF Missed
  <2> QED BY <1>2, <2>1, FS_EmptySet DEF LossKept
<1>7. OrderKept
  BY <1>1, <1>2 DEF OrderKept, Begins, Fetch!Lesser
<1>8. CallsKept
  <2>1. 0 * Attempts = 0
    BY DEF Sized
  <2> QED BY <1>2, <2>1 DEF CallsKept
<1> QED BY <1>4, <1>5, <1>6, <1>7, <1>8 DEF FetchInv

LEMMA FetchStep == ASSUME Sized, FetchInv, [Fetch!Next]_Fetch!vars PROVE FetchInv'
<1>1. CASE UNCHANGED Fetch!vars
  <2>1. UNCHANGED <<kind, cap, base, list, inserted, touched, removed, offset, got, attempt, login, token, calls, outcome>>
    BY <1>1 DEF Fetch!vars, Fetch!world
  <2>2. CollectionKept' /\ ClientKept' /\ CallsKept' /\ OrderKept'
    BY <2>1 DEF FetchInv, CollectionKept, ClientKept, CallsKept, OrderKept, Begins, Fetch!Constant, Fetch!Lesser
  <2>3. Missed' = Missed
    BY <2>1 DEF Missed, Fetch!Constant, Fetch!Range
  <2>4. Cardinality(Missed') <= Cardinality(removed')
    BY <2>1, <2>3 DEF FetchInv, LossKept
  <2>5. LossKept'
    BY <2>1, <2>4 DEF FetchInv, LossKept, Fetch!StopsShort
  <2> QED BY <2>2, <2>5 DEF FetchInv
<1>2. CASE Fetch!Service
  BY <1>2, InsertStep, TouchStep, DeleteStep DEF Fetch!Service
<1>3. CASE Fetch!ListTags \/ Fetch!ListMergeRequests \/ Fetch!ListCommits \/ Fetch!ListRefs \/ Fetch!ListPersons
  BY <1>3, ShortPageStep
     DEF Fetch!ListTags, Fetch!ListMergeRequests, Fetch!ListCommits, Fetch!ListRefs, Fetch!ListPersons,
         Fetch!ShortPage
<1>4. CASE Fetch!ListBugWorklogs \/ Fetch!ListBugChangelog \/ Fetch!ListWorklogs \/ Fetch!ListChangelog
  BY <1>4, TotalStep
     DEF Fetch!ListBugWorklogs, Fetch!ListBugChangelog, Fetch!ListWorklogs, Fetch!ListChangelog,
         Fetch!ShortPage
<1>5. CASE Fetch!ListWorkflows \/ Fetch!SearchBugs \/ Fetch!SearchIssues
  BY <1>5, ReceivedStep
     DEF Fetch!ListWorkflows, Fetch!SearchBugs, Fetch!SearchIssues, Fetch!TokenEnds, Fetch!ShortPage
<1>6. CASE Fetch!BugRequestFails \/ Fetch!JiraRequestFails \/ Fetch!GitLabRequestFails \/ Fetch!HrworksRequestFails
  BY <1>6, RequestFailsStep
     DEF Fetch!BugRequestFails, Fetch!JiraRequestFails, Fetch!GitLabRequestFails, Fetch!HrworksRequestFails
<1>7. CASE Fetch!Login \/ Fetch!LoginFails
  BY <1>7, LoginStep
<1> QED BY <1>1, <1>2, <1>3, <1>4, <1>5, <1>6, <1>7 DEF Fetch!Next

LEMMA FetchInvariant == ASSUME Sized PROVE Fetch!Spec => []FetchInv
<1>1. Fetch!Init => FetchInv
  BY FetchInit
<1>2. FetchInv /\ [Fetch!Next]_Fetch!vars => FetchInv'
  BY FetchStep
<1> QED BY <1>1, <1>2, PTL DEF Fetch!Spec

(* A fetch asks for one of the collections and receives items of it; no request and
   no login is tried more often than allowed (the clients of GitLab, Jira, HRworks). *)
THEOREM FetchesTyped == ASSUME Sized PROVE Fetch!Spec => []Fetch!TypeOK
<1>1. ASSUME FetchInv PROVE Fetch!TypeOK
  <2>1. ASSUME NEW s \in Seq(Items) PROVE Fetch!Range(s) \subseteq Items
    <3>1. \A y, i : IsAt(s, y, i) => y \in Items
      BY LenProperties DEF IsAt
    <3>2. \A y : y \in Fetch!Range(s) <=> \E i : IsAt(s, y, i)
      BY InRange
    <3> QED BY <3>1, <3>2
  <2>2. Fetch!Range(list) \subseteq Items /\ Fetch!Range(got) \subseteq Items
    BY <1>1, <2>1 DEF FetchInv, CollectionKept, ClientKept
  <2> QED BY <1>1, <2>2 DEF FetchInv, CollectionKept, ClientKept, Fetch!TypeOK, Sized
<1> QED BY <1>1, FetchInvariant, PTL

(* For any collection, page size and limit of the service, whatever is inserted,
   updated and removed during the fetch and however often requests fail: unless the
   service sends less than a full page to a reader that takes that for the end, a fetch
   that ends normally lacks no more of the items that stayed as they were than were
   removed, and has each item of a collection that did not change once and in order;
   such a reader has the first page.  A request makes no more calls than the attempts,
   or for HRworks their square and one (the clients of GitLab, Jira, HRworks). *)
THEOREM FetchesAreComplete == ASSUME Sized PROVE Fetch!Spec => []Fetch!FetchIsComplete
<1>1. ASSUME FetchInv PROVE Fetch!FetchIsComplete
  <2> DEFINE lost == Fetch!Constant \ Fetch!Range(got)
  <2>1. Fetch!LossIsBounded
    <3> SUFFICES ASSUME outcome = "done", ~Fetch!StopsShort
                 PROVE  Cardinality(lost) <= Cardinality(removed)
      BY FetchCardinality DEF Fetch!LossIsBounded
    <3>1. offset >= Len(list) /\ offset \in Nat /\ list \in Seq(Items) /\ Len(list) \in Nat
      BY <1>1, LenProperties DEF FetchInv, LossKept, ClientKept, CollectionKept
    <3>2. \A y \in lost : \E i \in 1..offset : IsAt(list, y, i)
      BY <1>1, <3>1 DEF FetchInv, CollectionKept, IsAt
    <3>3. lost = Missed
      BY <3>2 DEF Missed
    <3> QED BY <1>1, <3>3 DEF FetchInv, LossKept
  <2>2. Fetch!OnceIfUnchanged
    <3> SUFFICES ASSUME outcome = "done", Fetch!Changes = 0
                 PROVE  got = IF Fetch!StopsShort THEN SubSeq(list, 1, Fetch!Lesser(cap, Len(list))) ELSE list
      BY DEF Fetch!OnceIfUnchanged
    <3>1. inserted \in SUBSET Items /\ touched \in SUBSET Items /\ removed \in SUBSET Items
      BY <1>1 DEF FetchInv, CollectionKept
    <3>2. IsFiniteSet(inserted) /\ IsFiniteSet(touched) /\ IsFiniteSet(removed)
      BY <3>1, FS_Subset DEF Sized
    <3>3. Cardinality(inserted) \in Nat /\ Cardinality(touched) \in Nat /\ Cardinality(removed) \in Nat
      BY <3>2, FS_CardinalityType
    <3>4. Cardinality(inserted) = 0 /\ Cardinality(touched) = 0 /\ Cardinality(removed) = 0
      <4>1. Cardinality(inserted) + Cardinality(touched) + Cardinality(removed) = 0
        BY FetchCardinality DEF Fetch!Changes
      <4> QED BY <3>3, <4>1
    <3>5. inserted = {} /\ touched = {} /\ removed = {}
      BY <3>2, <3>4, FS_EmptySet
    <3>6. Len(got) = Fetch!Lesser(offset, Len(list)) /\ \A i \in 1..Len(got) : got[i] = list[i]
      BY <1>1, <3>5 DEF FetchInv, OrderKept, Begins
    <3>7. offset \in Nat /\ list \in Seq(Items) /\ got \in Seq(Items) /\ Len(list) \in Nat
      BY <1>1, LenProperties DEF FetchInv, ClientKept, CollectionKept
    <3>8. CASE ~Fetch!StopsShort
      <4>1. offset >= Len(list)
        BY <1>1, <3>8 DEF FetchInv, LossKept
      <4>2. Len(got) = Len(list)
        BY <3>6, <3>7, <4>1 DEF Fetch!Lesser
      <4> QED BY <3>6, <3>7, <3>8, <4>2, SeqEqual
    <3>9. CASE Fetch!StopsShort
      <4> DEFINE n == Fetch!Lesser(cap, Len(list))
                 page == SubSeq(list, 1, n)
      <4>1. offset = cap /\ cap \in Nat
        BY <1>1, <3>9, SentItems DEF FetchInv, LossKept
      <4>2. n \in Nat /\ n <= Len(list) /\ Len(got) = n
        BY <3>6, <3>7, <4>1 DEF Fetch!Lesser
      <4> HIDE DEF n
      <4>3. 1 \in Int /\ n \in Int /\ \A k \in 1..n : list[k] \in Items
        BY <3>7, <4>2, LenProperties
      <4>4. /\ page \in Seq(Items) /\ Len(page) = IF 1 <= n THEN n - 1 + 1 ELSE 0
            /\ \A k \in 1..(n - 1 + 1) : page[k] = list[1 + k - 1]
        BY <4>3, SubSeqProperties
      <4> HIDE DEF page
      <4>5. Len(page) = Len(got) /\ \A k \in 1..Len(got) : page[k] = got[k]
        BY <3>6, <4>2, <4>4
      <4>6. got = page
        BY <3>7, <4>4, <4>5, SeqEqual
      <4> QED BY <3>9, <4>6 DEF page, n
    <3> QED BY <3>8, <3>9
  <2>3. Fetch!CallsBounded
    <3>1. attempt \in 0..(Attempts - 1) /\ login \in 0..(Attempts - 1) /\ calls \in Nat /\ token \in BOOLEAN
      BY <1>1 DEF FetchInv, ClientKept
    <3>2. CASE kind # "persons"
      BY <1>1, <3>1, <3>2 DEF FetchInv, CallsKept, Fetch!CallsBounded, Sized
    <3>3. CASE kind = "persons" /\ outcome # "open"
      BY <1>1, <3>3 DEF FetchInv, CallsKept, Fetch!CallsBounded
    <3>4. CASE kind = "persons" /\ outcome = "open"
      <4>1. PICK m \in Nat, next \in Nat, all \in Nat :
                /\ m = attempt * Attempts /\ next = (attempt + 1) * Attempts /\ all = Attempts * Attempts
                /\ next = m + Attempts /\ next <= all
                /\ calls <= IF kind # "persons" THEN attempt ELSE IF token THEN m + Attempts ELSE m + login
        BY <1>1, <3>4, CallsAreCounted
      <4>2. calls <= all + 1
        BY <3>1, <3>4, <4>1 DEF Sized
      <4> QED BY <3>4, <4>1, <4>2 DEF Fetch!CallsBounded
    <3> QED BY <3>2, <3>3, <3>4
  <2> QED BY <2>1, <2>2, <2>3 DEF Fetch!FetchIsComplete
<1> QED BY <1>1, FetchInvariant, PTL

-----------------------------------------------------------------------------
(* Workflows: the inductive invariant *)

(* Chunks are of projects, and what is missing is neither a workflow nor a kind of sync. *)
Chunked == /\ Chunks \subseteq SUBSET Projects /\ MaxSteps \in Nat
           /\ None \notin Workflows \cup {"schemes", "search", "empty"}

FlowTyped ==
  /\ \A p \in Projects : /\ DOMAIN scheme[p] \subseteq Flow!Keys
                         /\ \A t \in DOMAIN scheme[p] : scheme[p][t] \in Workflows
  /\ scheme \in [Projects -> {scheme[p] : p \in Projects}]
  /\ flows \subseteq Workflows
  /\ DOMAIN mapping \subseteq Projects \X Flow!Keys
  /\ \A k \in DOMAIN mapping : mapping[k] \in flows
  /\ steps \in 0..MaxSteps

FlowInv == FlowTyped /\ Flow!MappingFollowsSchemes /\ Flow!GuessesFit

LEMMA SchemesStep ==
  ASSUME Chunked, FlowInv, UNCHANGED scheme, steps' \in 0..MaxSteps,
         NEW answered \in SUBSET Chunks, NEW found, Flow!SyncSchemes(answered, found)
  PROVE  FlowInv' /\ Flow!KeepsMappings
<1> DEFINE read == UNION answered
           named == Flow!Uses(read)
           known == named \cap UNION found
<1>1. /\ flows' = flows \cup known
      /\ mapping' = [k \in {e \in read \X Flow!Keys : e[2] \in DOMAIN scheme[e[1]] /\ scheme[e[1]][e[2]] \in known}
                      |-> scheme[k[1]][k[2]]]
      /\ last' = [kind |-> "schemes", projects |-> Projects \ read, workflows |-> named \ known]
  BY DEF Flow!SyncSchemes
<1>2. last'.kind = "schemes" /\ last'.projects = Projects \ read /\ last'.workflows = named \ known
  BY <1>1
<1>3. read \subseteq Projects
  BY DEF Chunked
<1>4. \A p \in read : \A t \in DOMAIN scheme[p] : scheme[p][t] \in named /\ t \in Flow!Keys
  BY <1>3 DEF Flow!Uses, Flow!Range, FlowInv, FlowTyped
<1>5. named \subseteq Workflows
  BY <1>3 DEF Flow!Uses, Flow!Range, FlowInv, FlowTyped
<1> HIDE DEF read, named
<1> DEFINE keys == {e \in read \X Flow!Keys : e[2] \in DOMAIN scheme[e[1]] /\ scheme[e[1]][e[2]] \in known}
<1>6. \A k : k \in keys <=> /\ k \in read \X Flow!Keys
                            /\ k[2] \in DOMAIN scheme[k[1]] /\ scheme[k[1]][k[2]] \in known
  OBVIOUS
<1>7. mapping' = [k \in keys |-> scheme[k[1]][k[2]]]
  BY <1>1
<1> HIDE DEF keys
<1>8. DOMAIN mapping' = keys /\ \A k \in keys : mapping'[k] = scheme[k[1]][k[2]]
  BY <1>7
<1>9. FlowTyped'
  BY <1>1, <1>3, <1>5, <1>6, <1>8 DEF FlowInv, FlowTyped, Flow!Keys
<1>10. Flow!MappingFollowsSchemes'
  <2>1. \A k \in DOMAIN mapping' : k[2] \in DOMAIN scheme[k[1]] /\ scheme[k[1]][k[2]] = mapping'[k]
    BY <1>6, <1>8
  <2>2. ASSUME NEW p \in Projects \ last'.projects, NEW t \in DOMAIN scheme[p], scheme[p][t] \notin last'.workflows
        PROVE  <<p, t>> \in DOMAIN mapping'
    <3>1. p \in read /\ t \in Flow!Keys /\ scheme[p][t] \in known
      BY <1>2, <1>4, <2>2
    <3>2. <<p, t>> \in keys
      BY <1>6, <3>1
    <3> QED BY <1>8, <3>2
  <2> QED BY <2>1, <2>2 DEF Flow!MappingFollowsSchemes
<1>11. Flow!GuessesFit'
  BY <1>2 DEF Flow!GuessesFit
<1>12. Flow!KeepsMappings
  <2> SUFFICES ASSUME NEW k \in DOMAIN mapping, k \notin keys,
                      k[1] \notin last'.projects, k[2] \in DOMAIN scheme[k[1]]
               PROVE  scheme[k[1]][k[2]] \in last'.workflows
    BY <1>8 DEF Flow!KeepsMappings
  <2>1. k \in Projects \X Flow!Keys
    BY DEF FlowInv, FlowTyped
  <2>2. k[1] \in read /\ k \in read \X Flow!Keys
    BY <1>2, <2>1
  <2> QED BY <1>2, <1>4, <1>6, <2>2
<1> QED BY <1>9, <1>10, <1>11, <1>12 DEF FlowInv

LEMMA GuessStep ==
  ASSUME Chunked, FlowInv, UNCHANGED scheme, steps' \in 0..MaxSteps,
         NEW answered \in SUBSET Projects, Flow!SyncSearch(answered)
  PROVE  FlowInv' /\ Flow!KeepsMappings
<1> DEFINE Guess(k) == IF Flow!Best(k[2]) # {} THEN Flow!Best(k[2]) ELSE Flow!NamedFor(k[1], k[2])
           keys == {k \in answered \X Types : Guess(k) # {}}
<1>1. /\ flows' = Workflows /\ mapping' \in [keys -> Workflows] /\ \A k \in keys : mapping'[k] \in Guess(k)
      /\ last'.kind = "search"
  BY DEF Flow!SyncSearch
<1>2. DOMAIN mapping' = keys /\ keys \subseteq Projects \X Types
  BY <1>1
<1>3. FlowTyped'
  BY <1>1, <1>2 DEF FlowInv, FlowTyped, Flow!Keys
<1>4. Flow!GuessesFit'
  <2> SUFFICES ASSUME NEW k \in DOMAIN mapping'
               PROVE  TypeStatuses[k[2]] \subseteq Refs[mapping'[k]] \/ Named[mapping'[k]] = k
    BY DEF Flow!GuessesFit
  <2>1. k \in Projects \X Types /\ mapping'[k] \in Guess(k)
    BY <1>1, <1>2
  <2>2. CASE Flow!Best(k[2]) # {}
    BY <2>1, <2>2 DEF Flow!Best
  <2>3. CASE Flow!Best(k[2]) = {}
    BY <2>1, <2>3 DEF Flow!NamedFor
  <2> QED BY <2>2, <2>3
<1>5. Flow!MappingFollowsSchemes' /\ Flow!KeepsMappings
  BY <1>1 DEF Flow!MappingFollowsSchemes, Flow!KeepsMappings
<1> QED BY <1>3, <1>4, <1>5 DEF FlowInv

LEMMA SyncKeeps == ASSUME Chunked, FlowInv, Flow!Sync PROVE FlowInv' /\ Flow!KeepsMappings
<1>1. UNCHANGED scheme /\ steps' \in 0..MaxSteps
  BY DEF Flow!Sync, FlowInv, FlowTyped, Chunked
<1>2. CASE Flow!SearchIsEmpty
  <2>1. mapping' = <<>> /\ flows' = flows /\ last'.kind = "empty"
    BY <1>2 DEF Flow!SearchIsEmpty, Flow!Nothing
  <2>2. DOMAIN mapping' = {}
    BY <2>1
  <2> QED BY <1>1, <2>1, <2>2
          DEF FlowInv, FlowTyped, Flow!MappingFollowsSchemes, Flow!GuessesFit, Flow!KeepsMappings
<1>3. CASE Flow!SearchFails
  <2>1. UNCHANGED <<flows, mapping>> /\ last'.kind = "failed"
    BY <1>3 DEF Flow!SearchFails, Flow!Nothing
  <2> QED BY <1>1, <2>1
          DEF FlowInv, FlowTyped, Flow!MappingFollowsSchemes, Flow!GuessesFit, Flow!KeepsMappings
<1> QED BY <1>1, <1>2, <1>3, SchemesStep, GuessStep DEF Flow!Sync

LEMMA SchemeChanges == ASSUME Chunked, FlowInv, Flow!ChangeScheme PROVE FlowInv' /\ Flow!KeepsMappings
<1>1. PICK p \in Projects, t \in Flow!Keys, w \in Workflows :
         scheme' = [scheme EXCEPT ![p] = [k \in DOMAIN scheme[p] \cup {t} |-> IF k = t THEN w ELSE scheme[p][k]]]
  BY DEF Flow!ChangeScheme
<1>2. UNCHANGED <<flows, mapping>> /\ steps' \in 0..MaxSteps /\ last'.kind = None
  BY DEF Flow!ChangeScheme, Flow!Nothing, FlowInv, FlowTyped, Chunked
<1>3. ASSUME NEW q \in Projects
      PROVE  /\ DOMAIN scheme'[q] \subseteq Flow!Keys
             /\ \A k \in DOMAIN scheme'[q] : scheme'[q][k] \in Workflows
  <2>1. CASE q = p
    <3>1. scheme'[q] = [k \in DOMAIN scheme[p] \cup {t} |-> IF k = t THEN w ELSE scheme[p][k]]
      BY <1>1, <2>1 DEF FlowInv, FlowTyped
    <3> QED BY <1>1, <3>1 DEF FlowInv, FlowTyped
  <2>2. CASE q # p
    <3>1. scheme'[q] = scheme[q]
      BY <1>1, <2>2 DEF FlowInv, FlowTyped
    <3> QED BY <3>1 DEF FlowInv, FlowTyped
  <2> QED BY <2>1, <2>2
<1>4. scheme' \in [Projects -> {scheme'[q] : q \in Projects}]
  BY <1>1 DEF FlowInv, FlowTyped
<1>5. FlowTyped'
  BY <1>2, <1>3, <1>4 DEF FlowInv, FlowTyped, Flow!Keys
<1>6. Flow!MappingFollowsSchemes' /\ Flow!GuessesFit' /\ Flow!KeepsMappings
  BY <1>2 DEF Chunked, Flow!MappingFollowsSchemes, Flow!GuessesFit, Flow!KeepsMappings
<1> QED BY <1>5, <1>6 DEF FlowInv

LEMMA FlowInvariant == ASSUME Chunked PROVE Flow!Spec => []FlowInv
<1>1. Flow!Init => FlowInv
  <2> SUFFICES ASSUME Flow!Init
               PROVE  FlowInv
    OBVIOUS
  <2>1. scheme \in [Projects -> {[t \in {Default} |-> w] : w \in Workflows}]
        /\ flows = {} /\ mapping = <<>> /\ last.kind = None /\ steps = 0
    BY DEF Flow!Init, Flow!Nothing
  <2>2. ASSUME NEW p \in Projects
        PROVE  /\ DOMAIN scheme[p] \subseteq Flow!Keys
               /\ \A t \in DOMAIN scheme[p] : scheme[p][t] \in Workflows
    <3>1. PICK w \in Workflows : scheme[p] = [t \in {Default} |-> w]
      BY <2>1
    <3> QED BY <3>1 DEF Flow!Keys
  <2>3. scheme \in [Projects -> {scheme[p] : p \in Projects}]
    BY <2>1
  <2>4. DOMAIN mapping = {}
    BY <2>1
  <2> QED BY <2>1, <2>2, <2>3, <2>4
          DEF FlowInv, FlowTyped, Flow!MappingFollowsSchemes, Flow!GuessesFit, Chunked
<1>2. FlowInv /\ [Flow!Next]_Flow!vars => FlowInv'
  <2> SUFFICES ASSUME FlowInv, [Flow!Next]_Flow!vars
               PROVE  FlowInv'
    OBVIOUS
  <2>1. CASE UNCHANGED Flow!vars
    BY <2>1 DEF Flow!vars, FlowInv, FlowTyped, Flow!MappingFollowsSchemes, Flow!GuessesFit, Flow!Keys
  <2> QED BY <2>1, SyncKeeps, SchemeChanges DEF Flow!Next
<1> QED BY <1>1, <1>2, PTL DEF Flow!Spec

(* A lookup finds an entry of the project, and finds one if there is a default. *)
LEMMA LookupIsMapped ==
  ASSUME Chunked, FlowInv, NEW p, NEW t
  PROVE  /\ <<p, Default>> \in DOMAIN mapping => Flow!Lookup(p, t) # None
         /\ Flow!Lookup(p, t) # None => \E k \in DOMAIN mapping : mapping[k] = Flow!Lookup(p, t) /\ k[1] = p
<1>1. \A k \in DOMAIN mapping : mapping[k] # None
  BY DEF FlowInv, FlowTyped, Chunked
<1>2. CASE <<p, t>> \in DOMAIN mapping
  <2>1. Flow!Lookup(p, t) = mapping[<<p, t>>] /\ <<p, t>>[1] = p
    BY <1>2 DEF Flow!Lookup
  <2> QED BY <1>1, <1>2, <2>1
<1>3. CASE <<p, t>> \notin DOMAIN mapping /\ <<p, Default>> \in DOMAIN mapping
  <2>1. Flow!Lookup(p, t) = mapping[<<p, Default>>] /\ <<p, Default>>[1] = p
    BY <1>3 DEF Flow!Lookup
  <2> QED BY <1>1, <1>3, <2>1
<1>4. CASE <<p, t>> \notin DOMAIN mapping /\ <<p, Default>> \notin DOMAIN mapping
  BY <1>4 DEF Flow!Lookup
<1> QED BY <1>2, <1>3, <1>4

(* The stored mapping keeps its types (workflow_sync.py). *)
THEOREM WorkflowsTyped == ASSUME Chunked PROVE Flow!Spec => []Flow!TypeOK
<1>1. FlowInv => Flow!TypeOK
  BY DEF FlowInv, FlowTyped, Flow!TypeOK
<1> QED BY <1>1, FlowInvariant, PTL

(* For any projects, types, schemes and workflows, whichever calls fail: a sync from
   the schemes lacks an entry only when a call for it failed, a guessed workflow has
   all statuses of its type or is named for it, and every issue of a project with a
   default is resolved, a sub-task to a workflow of its parent's project at most
   (workflow_sync.py, workflow_resolution.py). *)
THEOREM WorkflowsAreSound == ASSUME Chunked PROVE Flow!Spec => []Flow!WorkflowsSound
<1>1. ASSUME FlowInv PROVE Flow!ResolutionIsTotal
  <2> SUFFICES ASSUME NEW issue \in Flow!Issues, NEW parent \in Flow!Issues \cup {None}
               PROVE  LET w == Flow!Resolve(issue, parent)
                      IN  /\ <<issue.project, Default>> \in DOMAIN mapping => w # None
                          /\ w # None => \E k \in DOMAIN mapping :
                               mapping[k] = w /\ k[1] \in {issue.project} \cup (IF parent = None THEN {} ELSE {parent.project})
    BY DEF Flow!ResolutionIsTotal
  <2> DEFINE w == Flow!Resolve(issue, parent)
             own == Flow!Lookup(issue.project, issue.type)
             default == Flow!Lookup(issue.project, Default)
             first == Flow!Lookup(parent.project, parent.type)
             second == Flow!Lookup(parent.project, issue.type)
  <2>1. /\ <<issue.project, Default>> \in DOMAIN mapping => own # None
        /\ own # None => \E k \in DOMAIN mapping : mapping[k] = own /\ k[1] = issue.project
    BY <1>1, LookupIsMapped
  <2>2. default # None => \E k \in DOMAIN mapping : mapping[k] = default /\ k[1] = issue.project
    BY <1>1, LookupIsMapped
  <2>3. first # None => \E k \in DOMAIN mapping : mapping[k] = first /\ k[1] = parent.project
    BY <1>1, LookupIsMapped
  <2>4. second # None => \E k \in DOMAIN mapping : mapping[k] = second /\ k[1] = parent.project
    BY <1>1, LookupIsMapped
  <2>5. /\ own # None => w = own
        /\ parent = None /\ own = None => w = default
        /\ parent # None /\ own = None => w \in {first, second, default}
    <3>1. CASE own # None
      BY <3>1 DEF Flow!Resolve
    <3>2. CASE own = None /\ parent = None
      <4>1. w = IF \E n \in DOMAIN <<>> : <<>>[n] # None
                THEN <<>>[IF <<>>[1] # None THEN 1 ELSE 2] ELSE default
        BY <3>2 DEF Flow!Resolve
      <4> HIDE DEF default
      <4>2. DOMAIN <<>> = {}
        OBVIOUS
      <4> QED BY <3>2, <4>1, <4>2
    <3>3. CASE own = None /\ parent # None
      <4> DEFINE above == <<first, second>>
      <4>1. w = IF \E n \in DOMAIN above : above[n] # None
                THEN above[IF above[1] # None THEN 1 ELSE 2] ELSE default
        BY <3>3 DEF Flow!Resolve
      <4> HIDE DEF w, own, default, first, second
      <4>2. above[1] = first /\ above[2] = second
        OBVIOUS
      <4> QED BY <3>3, <4>1, <4>2
    <3> QED BY <3>1, <3>2, <3>3
  <2> HIDE DEF w, own, default, first, second
  <2>6. /\ <<issue.project, Default>> \in DOMAIN mapping => w # None
        /\ w # None => \E k \in DOMAIN mapping :
             mapping[k] = w /\ k[1] \in {issue.project} \cup (IF parent = None THEN {} ELSE {parent.project})
    BY <2>1, <2>2, <2>3, <2>4, <2>5
  <2> QED BY <2>6 DEF w
<1>2. FlowInv => Flow!WorkflowsSound
  BY <1>1 DEF FlowInv, Flow!WorkflowsSound
<1> QED BY <1>2, FlowInvariant, PTL

(* Only a sync that could not read an entry, or guessed or found no workflows at all,
   takes a mapping away (workflow_sync.py). *)
THEOREM MappingsAreKept == ASSUME Chunked PROVE Flow!Spec => Flow!MappingsKept
<1>1. FlowInv /\ [Flow!Next]_Flow!vars => [Flow!KeepsMappings]_Flow!vars
  BY SyncKeeps, SchemeChanges DEF Flow!Next
<1> QED BY <1>1, FlowInvariant, PTL DEF Flow!Spec, Flow!MappingsKept

-----------------------------------------------------------------------------
(* Bugs: data *)

Versions == {s \in SUBSET Nat : IsFiniteSet(s)}
ParentBug == [type : STRING, testing : BOOLEAN, affects : Versions, fix : Versions,
              exalate : BOOLEAN, customers : SUBSET STRING]
Changelog == Seq([day : Nat, ready : BOOLEAN])

(* Versions and days are numbered, finitely many versions are named, the missing one
   is no issue and no day, and no more entries are embedded than there are. *)
Described(b) ==
  /\ b.affects \in Versions /\ b.fix \in Versions /\ b.exalate \in BOOLEAN
  /\ b.parent \in ParentBug \cup {None}
  /\ b.history \in Changelog /\ (b.embedded # None => b.embedded \in 0..Len(b.history))
BugsDescribed == (\A b \in Bugs : Described(b)) /\ None \notin ParentBug \cup Nat

LEMMA HealthExtremes ==
  ASSUME NEW S \in SUBSET Nat, S # {}
  PROVE  /\ IsFiniteSet(S) => Health!Max(S) \in S /\ \A x \in S : x <= Health!Max(S)
         /\ Health!Min(S) \in S /\ \A x \in S : Health!Min(S) <= x
<1>1. ASSUME IsFiniteSet(S) PROVE Health!Max(S) \in S /\ \A x \in S : x <= Health!Max(S)
  <2>1. \E z \in S : \A y \in S : z >= y
    BY <1>1, GreatestExists
  <2>2. Health!Max(S) \in S /\ \A y \in S : Health!Max(S) >= y
    BY <2>1 DEF Health!Max
  <2> QED BY <2>2
<1>2. Health!Min(S) \in S /\ \A x \in S : Health!Min(S) <= x
  BY LeastExists DEF Health!Min
<1> QED BY <1>1, <1>2

(* The greatest numbers decide what every number does. *)
LEMMA LaterIsFollowing ==
  ASSUME NEW i, i.affects \in Versions, i.fix \in Versions
  PROVE  Health!FixedLater(i) <=> Health!FixFollows(i)
<1> DEFINE affects == i.affects \ {NextMinor}
           fix == i.fix \ {NextMinor}
<1>1. affects \in SUBSET Nat /\ fix \in SUBSET Nat /\ IsFiniteSet(affects) /\ IsFiniteSet(fix)
  BY FS_Subset DEF Versions
<1>2. Health!FixedLater(i) <=> affects # {} /\ fix # {} /\ Health!Max(fix) > Health!Max(affects)
  BY DEF Health!FixedLater
<1>3. Health!FixFollows(i) <=> affects # {} /\ \E f \in fix : \A a \in affects : a < f
  BY DEF Health!FixFollows
<1> HIDE DEF affects, fix
<1>4. CASE affects = {} \/ fix = {}
  BY <1>2, <1>3, <1>4
<1>5. CASE affects # {} /\ fix # {}
  <2>1. /\ Health!Max(affects) \in affects /\ \A x \in affects : x <= Health!Max(affects)
        /\ Health!Max(fix) \in fix /\ \A x \in fix : x <= Health!Max(fix)
    BY <1>1, <1>5, HealthExtremes
  <2> DEFINE ma == Health!Max(affects)
             mf == Health!Max(fix)
  <2>2. ma \in Nat /\ mf \in Nat
    BY <1>1, <2>1
  <2> HIDE DEF ma, mf
  <2>3. mf > ma <=> \E f \in fix : \A a \in affects : a < f
    BY <1>1, <2>1, <2>2 DEF ma, mf
  <2> QED BY <1>2, <1>3, <1>5, <2>3 DEF ma, mf
<1> QED BY <1>4, <1>5

(* Nothing is missing from an issue exactly when its data are complete. *)
LEMMA NothingMissing ==
  ASSUME NEW i
  PROVE  Health!PrimaryReasons(i) = {} <=> Health!Complete(i)
<1>1. Health!PrimaryReasons(i) = {} <=>
        /\ i.affects # {}
        /\ i.exalate \/ i.customers # {} \/ i.fix # {}
        /\ i.exalate \/ i.customers # {Plunet}
  BY DEF Health!PrimaryReasons
<1> QED BY <1>1 DEF Health!Complete

(* What the search keeps of an issue, and of its parent. *)
LEMMA SearchedFields ==
  ASSUME NEW b
  PROVE  LET i == Health!Searched(b)
         IN  /\ i.labels = {} /\ i.affects = b.affects /\ i.fix = b.fix
             /\ i.exalate = b.exalate /\ i.customers = b.customers
  BY DEF Health!Searched, Health!Given, Health!Requested

LEMMA ParentFields ==
  ASSUME BugsDescribed, NEW b, b.parent \in ParentBug \cup {None}
  PROVE  LET p == Health!Parent(b)
         IN  /\ b.parent = None <=> p = None
             /\ b.parent # None => p.type = b.parent.type /\ p.testing = b.parent.testing
             /\ b.parent # None /\ b.parent.type = "bug" => p = b.parent
             /\ b.parent # None /\ b.parent.type # "bug" => p.affects = {} /\ p.fix = {}
<1>1. CASE b.parent = None
  BY <1>1 DEF Health!Parent
<1>2. CASE b.parent # None /\ b.parent.type = "bug"
  BY <1>2 DEF Health!Parent
<1>3. CASE b.parent # None /\ b.parent.type # "bug"
  <2> DEFINE q == b.parent
             bare == [q EXCEPT !.affects = {}, !.fix = {}, !.exalate = FALSE, !.customers = {}]
  <2>1. Health!Parent(b) = bare
    BY <1>3 DEF Health!Parent, Health!Bare
  <2>2. q \in ParentBug /\ {} \in Versions
    BY <1>3, FS_EmptySet DEF Versions
  <2> HIDE DEF q
  <2>3. bare \in ParentBug /\ bare.affects = {} /\ bare.fix = {} /\ bare.type = q.type /\ bare.testing = q.testing
    BY <2>2 DEF ParentBug
  <2>4. bare # None
    BY <2>3 DEF BugsDescribed
  <2> QED BY <1>3, <2>1, <2>3, <2>4 DEF q
<1> QED BY <1>1, <1>2, <1>3

-----------------------------------------------------------------------------
(* Bugs: the judgement *)

Verdict == Health!EvaluateIssueHealth(Health!Searched(bug), Health!Parent(bug))

LEMMA VerdictFields ==
  ASSUME BugsDescribed, bug \in Bugs
  PROVE  /\ Verdict.memo = "post-production"
              <=> \/ Health!Complete(bug)
                  \/ ~Health!ParentIsPreProduction(bug.parent) /\ Health!Evidence
         /\ Verdict.healthy <=> Verdict.memo # "unhealthy"
         /\ Verdict.healthy \in BOOLEAN
<1> DEFINE i == Health!Searched(bug)
           p == Health!Parent(bug)
           complete == Health!PrimaryReasons(i) = {}
           inner == Health!ParentIsPreProduction(p)
           later == \/ Health!FixedLater(i)
                    \/ p # None /\ p.type = "bug" /\ (Health!PrimaryReasons(p) = {} \/ Health!FixedLater(p))
                    \/ Health!NextMinorStated(i, p)
<1>1. Described(bug)
  BY DEF BugsDescribed
<1>2. /\ i.labels = {} /\ i.affects = bug.affects /\ i.fix = bug.fix
      /\ i.exalate = bug.exalate /\ i.customers = bug.customers
  BY SearchedFields
<1>3. /\ bug.parent = None <=> p = None
      /\ bug.parent # None => p.type = bug.parent.type /\ p.testing = bug.parent.testing
      /\ bug.parent # None /\ bug.parent.type = "bug" => p = bug.parent
      /\ bug.parent # None /\ bug.parent.type # "bug" => p.affects = {} /\ p.fix = {}
  BY <1>1, ParentFields DEF Described
<1>4. Verdict = IF complete THEN Health!Judgement(TRUE, "post-production")
                ELSE IF inner THEN Health!Judgement(TRUE, "pre-production")
                ELSE IF later THEN Health!Judgement(TRUE, "post-production")
                ELSE Health!Judgement(FALSE, "unhealthy")
  <2>1. "test" \notin i.labels /\ "ignored" \notin i.labels
    BY <1>2
  <2> HIDE DEF i, p
  <2>2. Verdict = IF "test" \in i.labels THEN Health!Judgement(TRUE, "pre-production")
                  ELSE IF "ignored" \in i.labels THEN Health!Judgement(TRUE, "ignored")
                  ELSE IF complete THEN Health!Judgement(TRUE, "post-production")
                  ELSE IF inner THEN Health!Judgement(TRUE, "pre-production")
                  ELSE IF later THEN Health!Judgement(TRUE, "post-production")
                  ELSE Health!Judgement(FALSE, "unhealthy")
    BY DEF Verdict, Health!EvaluateIssueHealth, i, p
  <2> HIDE DEF complete, inner, later
  <2> QED BY <2>1, <2>2
<1>5. complete <=> Health!Complete(bug)
  <2>1. complete <=> Health!Complete(i)
    BY NothingMissing
  <2> HIDE DEF i
  <2> QED BY <1>2, <2>1 DEF Health!Complete
<1>6. inner <=> Health!ParentIsPreProduction(bug.parent)
  <2> HIDE DEF p
  <2> QED BY <1>3 DEF Health!ParentIsPreProduction
<1>7. later <=> Health!Evidence
  <2>1. Health!FixedLater(i) <=> Health!FixFollows(bug)
    <3>1. i.affects \in Versions /\ i.fix \in Versions
      BY <1>1, <1>2 DEF Described
    <3>2. Health!FixedLater(i) <=> Health!FixFollows(i)
      <4> HIDE DEF i
      <4> QED BY <3>1, LaterIsFollowing
    <3> HIDE DEF i
    <3> QED BY <1>2, <3>2 DEF Health!FixFollows
  <2>2. p # None /\ p.type = "bug" /\ (Health!PrimaryReasons(p) = {} \/ Health!FixedLater(p))
          <=> bug.parent # None /\ bug.parent.type = "bug"
              /\ (Health!Complete(bug.parent) \/ Health!FixFollows(bug.parent))
    <3>1. CASE bug.parent = None \/ bug.parent.type # "bug"
      <4> HIDE DEF p
      <4> QED BY <1>3, <3>1
    <3>2. CASE bug.parent # None /\ bug.parent.type = "bug"
      <4>1. p = bug.parent
        BY <1>3, <3>2
      <4> HIDE DEF p
      <4>2. p.affects \in Versions /\ p.fix \in Versions
        BY <1>1, <3>2, <4>1 DEF Described, ParentBug
      <4>3. Health!PrimaryReasons(p) = {} <=> Health!Complete(p)
        BY NothingMissing
      <4>4. Health!FixedLater(p) <=> Health!FixFollows(p)
        BY <4>2, LaterIsFollowing
      <4> QED BY <3>2, <4>1, <4>3, <4>4
    <3> QED BY <3>1, <3>2
  <2>3. Health!NextMinorStated(i, p)
          <=> \/ NextMinor \in bug.affects \cup bug.fix
              \/ bug.parent # None /\ bug.parent.type = "bug"
                 /\ NextMinor \in bug.parent.affects \cup bug.parent.fix
    <3> HIDE DEF i, p
    <3>1. CASE p = None
      BY <1>2, <1>3, <3>1 DEF Health!NextMinorStated
    <3>2. CASE p # None /\ bug.parent.type = "bug"
      BY <1>2, <1>3, <3>2 DEF Health!NextMinorStated
    <3>3. CASE p # None /\ bug.parent.type # "bug"
      BY <1>2, <1>3, <3>3 DEF Health!NextMinorStated
    <3> QED BY <3>1, <3>2, <3>3
  <2> HIDE DEF i, p
  <2> QED BY <2>1, <2>2, <2>3 DEF Health!Evidence
<1> HIDE DEF i, p, complete, inner, later
<1>8. ASSUME NEW healthy, NEW memo
      PROVE  Health!Judgement(healthy, memo).memo = memo /\ Health!Judgement(healthy, memo).healthy = healthy
  BY DEF Health!Judgement
<1>9. CASE complete
  <2>1. Verdict = Health!Judgement(TRUE, "post-production")
    BY <1>4, <1>9
  <2>2. Verdict.memo = "post-production" /\ Verdict.healthy = TRUE
    BY <1>8, <2>1
  <2> QED BY <1>5, <1>9, <2>2
<1>10. CASE ~complete /\ inner
  <2>1. Verdict = Health!Judgement(TRUE, "pre-production")
    BY <1>4, <1>10
  <2>2. Verdict.memo = "pre-production" /\ Verdict.healthy = TRUE
    BY <1>8, <2>1
  <2> QED BY <1>5, <1>6, <1>10, <2>2
<1>11. CASE ~complete /\ ~inner /\ later
  <2>1. Verdict = Health!Judgement(TRUE, "post-production")
    BY <1>4, <1>11
  <2>2. Verdict.memo = "post-production" /\ Verdict.healthy = TRUE
    BY <1>8, <2>1
  <2> QED BY <1>5, <1>6, <1>7, <1>11, <2>2
<1>12. CASE ~complete /\ ~inner /\ ~later
  <2>1. Verdict = Health!Judgement(FALSE, "unhealthy")
    BY <1>4, <1>12
  <2>2. Verdict.memo = "unhealthy" /\ Verdict.healthy = FALSE
    BY <1>8, <2>1
  <2> QED BY <1>5, <1>6, <1>7, <1>12, <2>2
<1> QED BY <1>9, <1>10, <1>11, <1>12

(* Every entry of the changelog is looked at, in whatever order they come. *)
LEMMA FirstIsFound ==
  ASSUME BugsDescribed, bug \in Bugs, NEW n \in DOMAIN bug.history, bug.history[n].ready
  PROVE  LET first == Health!FirstReadyForQa(Health!Histories(bug))
         IN  first # None /\ first <= bug.history[n].day
<1> DEFINE log == bug.history
           entries == Health!Histories(bug)
           days == {entries[i].day : i \in {i \in DOMAIN entries : entries[i].ready}}
<1>1. log \in Changelog /\ (bug.embedded # None => bug.embedded \in 0..Len(log)) /\ Len(log) \in Nat
  BY LenProperties DEF BugsDescribed, Described, Changelog
<1>2. entries = log
  <2>1. CASE bug.embedded = None \/ bug.embedded < Len(log)
    BY <2>1 DEF Health!Histories
  <2>2. CASE bug.embedded # None /\ ~(bug.embedded < Len(log))
    <3>1. bug.embedded = Len(log)
      BY <1>1, <2>2
    <3>2. SubSeq(log, 1, Len(log)) = log
      BY <1>1, SubSeqFull DEF Changelog
    <3>3. entries = SubSeq(log, 1, bug.embedded)
      BY <2>2 DEF Health!Histories
    <3> QED BY <3>1, <3>2, <3>3
  <2> QED BY <2>1, <2>2
<1>3. Health!FirstReadyForQa(entries) = IF days = {} THEN None ELSE Health!Min(days)
  BY DEF Health!FirstReadyForQa
<1> HIDE DEF entries
<1>4. DOMAIN log = 1..Len(log) /\ \A i \in 1..Len(log) : log[i].day \in Nat
  <2>1. DOMAIN log = 1..Len(log) /\ \A i \in 1..Len(log) : log[i] \in [day : Nat, ready : BOOLEAN]
    BY <1>1, LenProperties DEF Changelog
  <2> QED BY <2>1
<1>5. days \in SUBSET Nat /\ log[n].day \in days
  BY <1>2, <1>4
<1> HIDE DEF days
<1>6. Health!Min(days) \in days /\ Health!Min(days) <= log[n].day
  BY <1>5, HealthExtremes
<1>7. Health!FirstReadyForQa(entries) = Health!Min(days) /\ Health!Min(days) # None
  BY <1>3, <1>5, <1>6 DEF BugsDescribed
<1> QED BY <1>6, <1>7 DEF entries

HealthInv ==
  /\ bug \in Bugs
  /\ judged # None => /\ judged.healthy = Verdict.healthy /\ judged.memo = Verdict.memo
                      /\ judged.ready = Health!FirstReadyForQa(Health!Histories(bug))

(* For any bugs with any versions, customers, parents and changelogs: the memo says
   post-production exactly when the data of the bug are complete, or there is evidence
   and no parent speaks against it, and the stored day is the first of the whole
   changelog (EvaluateIssueHealth and the first QA date in jira_bug_collector.py). *)
THEOREM BugsJudged == ASSUME BugsDescribed PROVE Health!Spec => []Health!BugsAreJudged
<1>1. Health!Init => HealthInv
  BY DEF Health!Init, HealthInv
<1>2. HealthInv /\ [Health!Next]_Health!vars => HealthInv'
  <2> SUFFICES ASSUME HealthInv, [Health!Next]_Health!vars
               PROVE  HealthInv'
    OBVIOUS
  <2>1. CASE Health!Judge
    <3>1. /\ bug' = bug
          /\ judged' = [healthy |-> Verdict.healthy, memo |-> Verdict.memo,
                        ready |-> Health!FirstReadyForQa(Health!Histories(bug))]
      BY <2>1 DEF Health!Judge, Verdict
    <3>2. Verdict' = Verdict /\ Health!FirstReadyForQa(Health!Histories(bug))' = Health!FirstReadyForQa(Health!Histories(bug))
      BY <3>1, SMTT(40) DEF Verdict, Health!EvaluateIssueHealth, Health!Searched, Health!Parent, Health!FirstReadyForQa,
                  Health!Histories
    <3>3. /\ judged'.healthy = Verdict.healthy /\ judged'.memo = Verdict.memo
          /\ judged'.ready = Health!FirstReadyForQa(Health!Histories(bug))
      BY <3>1
    <3> QED BY <3>1, <3>2, <3>3 DEF HealthInv
  <2>2. CASE UNCHANGED Health!vars
    <3>1. bug' = bug /\ judged' = judged
      BY <2>2 DEF Health!vars
    <3>2. Verdict' = Verdict /\ Health!FirstReadyForQa(Health!Histories(bug))' = Health!FirstReadyForQa(Health!Histories(bug))
      BY <3>1 DEF Verdict, Health!EvaluateIssueHealth, Health!Searched, Health!Parent, Health!FirstReadyForQa,
                  Health!Histories
    <3> QED BY <3>1, <3>2 DEF HealthInv
  <2> QED BY <2>1, <2>2 DEF Health!Next
<1>3. ASSUME HealthInv PROVE Health!BugsAreJudged
  <2>1. Health!VerdictIsJustified
    BY <1>3, VerdictFields DEF HealthInv, Health!VerdictIsJustified
  <2>2. Health!ReadyIsEarliest
    BY <1>3, FirstIsFound DEF HealthInv, Health!ReadyIsEarliest
  <2> QED BY <2>1, <2>2 DEF Health!BugsAreJudged
<1> QED BY <1>1, <1>2, <1>3, PTL DEF Health!Spec

-----------------------------------------------------------------------------
(* Months of a run: steps over the calendar are sums of month numbers, and a range *)
(* and what is appended to it are sequences of months, each once                   *)

(* Runs start on days of the calendar, and no setting asks for more months than the
   bound. *)
Bounded ==
    /\ Dates \subseteq Int \X (1..12) \X (1..31)
    /\ Backs \subseteq Int /\ Forecasts \subseteq Int
    /\ FullYears \in Seq(Int) /\ Forecast \in Nat
    /\ Longest \in Nat /\ 12 + Forecast <= Longest
    /\ \A b \in Backs, f \in Forecasts : Period!NotNegative(b) + Period!NotNegative(f) < Longest

(* The first day of a month with a given number *)
MonthStart(x) == <<(x - 1) \div 12, ((x - 1) % 12) + 1, 1>>

LEMMA MonthStarts ==
  ASSUME NEW x \in Int
  PROVE  /\ Period!Number(MonthStart(x)) = x
         /\ MonthStart(x)[1] \in Int /\ MonthStart(x)[2] \in 1..12 /\ MonthStart(x)[3] = 1
         /\ Period!FirstDay(MonthStart(x)) = MonthStart(x)
         /\ Period!NextMonth(MonthStart(x)) = MonthStart(x + 1)
         /\ Period!PreviousMonth(MonthStart(x)) = MonthStart(x - 1)
<1>1. Period!Number(MonthStart(x)) = x
  BY DEF Period!Number, MonthStart
<1>2. MonthStart(x)[1] \in Int /\ MonthStart(x)[2] \in 1..12 /\ MonthStart(x)[3] = 1
  BY DEF MonthStart
<1>3. Period!FirstDay(MonthStart(x)) = MonthStart(x)
  BY DEF Period!FirstDay, MonthStart
<1>4. Period!NextMonth(MonthStart(x)) = MonthStart(x + 1)
  BY DEF Period!NextMonth, MonthStart
<1>5. Period!PreviousMonth(MonthStart(x)) = MonthStart(x - 1)
  BY DEF Period!PreviousMonth, MonthStart
<1> QED BY <1>1, <1>2, <1>3, <1>4, <1>5

LEMMA MonthsDiffer ==
  ASSUME NEW x \in Int, NEW y \in Int
  PROVE  /\ MonthStart(x) = MonthStart(y) <=> x = y
         /\ Period!Precedes(MonthStart(x), MonthStart(y)) <=> x < y
<1>1. Period!Precedes(MonthStart(x), MonthStart(y)) <=> x < y
  BY DEF Period!Precedes, MonthStart
<1>2. MonthStart(x) = MonthStart(y) => x = y
  BY MonthStarts
<1> QED BY <1>1, <1>2

LEMMA FirstOfMonth ==
  ASSUME NEW y \in Int, NEW m \in 1..12, NEW d \in 1..31
  PROVE  /\ Period!Number(<<y, m, d>>) \in Int
         /\ Period!FirstDay(<<y, m, d>>) = MonthStart(Period!Number(<<y, m, d>>))
<1>1. Period!Number(<<y, m, d>>) = 12 * y + m
  BY DEF Period!Number
<1>2. (12 * y + m - 1) \div 12 = y /\ ((12 * y + m - 1) % 12) + 1 = m
  OBVIOUS
<1> QED BY <1>1, <1>2 DEF Period!FirstDay, MonthStart

LEMMA DateParts ==
  ASSUME Bounded, NEW date \in Dates
  PROVE  \E y \in Int, m \in 1..12, d \in 1..31 : date = <<y, m, d>>
<1>1. date \in Int \X (1..12) \X (1..31)
  BY DEF Bounded
<1> QED BY <1>1

LEMMA MovedOn ==
  ASSUME NEW x \in Int, NEW n \in Nat
  PROVE  Period!Moved(MonthStart(x), n, Period!NextMonth) = MonthStart(x + n)
<1> DEFINE Fix(g) == g = [k \in 0..n |-> IF k = 0 THEN MonthStart(x) ELSE Period!NextMonth(g[k - 1])]
           at == CHOOSE g : Fix(g)
           w == [k \in 0..n |-> MonthStart(x + k)]
<1>1. Period!Moved(MonthStart(x), n, Period!NextMonth) = at[n]
  BY DEF Period!Moved
<1>2. Fix(w)
  <2>1. ASSUME NEW k \in 0..n, k # 0 PROVE w[k] = Period!NextMonth(w[k - 1])
    <3>1. k - 1 \in 0..n /\ x + (k - 1) \in Int
      BY <2>1
    <3>2. Period!NextMonth(MonthStart(x + (k - 1))) = MonthStart(x + k)
      BY <3>1, MonthStarts
    <3> QED BY <3>1, <3>2
  <2>2. w[0] = MonthStart(x)
    OBVIOUS
  <2> QED BY <2>1, <2>2
<1>3. Fix(at)
  <2> HIDE DEF Fix
  <2> QED BY <1>2
<1> HIDE DEF at
<1> DEFINE agree == {k \in 0..n : at[k] = MonthStart(x + k)}
<1>4. 0 \in agree
  BY <1>3
<1>5. ASSUME NEW k \in 1..n, k - 1 \in agree PROVE k \in agree
  <2>1. at[k] = Period!NextMonth(MonthStart(x + (k - 1)))
    BY <1>3, <1>5
  <2>2. Period!NextMonth(MonthStart(x + (k - 1))) = MonthStart(x + k)
    BY MonthStarts
  <2> QED BY <2>1, <2>2
<1>6. 0..n \subseteq agree
  <2> HIDE DEF agree
  <2> QED BY <1>4, <1>5, Climbs
<1> QED BY <1>1, <1>6

LEMMA MovedBack ==
  ASSUME NEW x \in Int, NEW n \in Nat
  PROVE  Period!Moved(MonthStart(x), n, Period!PreviousMonth) = MonthStart(x - n)
<1> DEFINE Fix(g) == g = [k \in 0..n |-> IF k = 0 THEN MonthStart(x) ELSE Period!PreviousMonth(g[k - 1])]
           at == CHOOSE g : Fix(g)
           w == [k \in 0..n |-> MonthStart(x - k)]
<1>1. Period!Moved(MonthStart(x), n, Period!PreviousMonth) = at[n]
  BY DEF Period!Moved
<1>2. Fix(w)
  <2>1. ASSUME NEW k \in 0..n, k # 0 PROVE w[k] = Period!PreviousMonth(w[k - 1])
    <3>1. k - 1 \in 0..n /\ x - (k - 1) \in Int
      BY <2>1
    <3>2. Period!PreviousMonth(MonthStart(x - (k - 1))) = MonthStart(x - k)
      BY <3>1, MonthStarts
    <3> QED BY <3>1, <3>2
  <2>2. w[0] = MonthStart(x)
    OBVIOUS
  <2> QED BY <2>1, <2>2
<1>3. Fix(at)
  <2> HIDE DEF Fix
  <2> QED BY <1>2
<1> HIDE DEF at
<1> DEFINE agree == {k \in 0..n : at[k] = MonthStart(x - k)}
<1>4. 0 \in agree
  BY <1>3
<1>5. ASSUME NEW k \in 1..n, k - 1 \in agree PROVE k \in agree
  <2>1. at[k] = Period!PreviousMonth(MonthStart(x - (k - 1)))
    BY <1>3, <1>5
  <2>2. Period!PreviousMonth(MonthStart(x - (k - 1))) = MonthStart(x - k)
    BY MonthStarts
  <2> QED BY <2>1, <2>2
<1>6. 0..n \subseteq agree
  <2> HIDE DEF agree
  <2> QED BY <1>4, <1>5, Climbs
<1> QED BY <1>1, <1>6

LEMMA Shifted ==
  ASSUME NEW x \in Int, NEW delta \in Int
  PROVE  Period!ShiftMonthStart(MonthStart(x), delta) = MonthStart(x + delta)
<1>1. CASE delta < 0
  <2>1. -delta \in Nat /\ x - (-delta) = x + delta
    BY <1>1
  <2> QED BY <1>1, <2>1, MovedBack DEF Period!ShiftMonthStart
<1>2. CASE ~(delta < 0)
  BY <1>2, MovedOn DEF Period!ShiftMonthStart
<1> QED BY <1>1, <1>2

(* The months from a to b, each by its first day *)
MonthsFrom(a, b) == [k \in 1..(b - a + 1) |-> MonthStart(a + k - 1)]

LEMMA RangeOfMonths ==
  ASSUME NEW a \in Int, NEW b \in Int, a <= b, NEW start, NEW end, Longest \in Nat, b - a < Longest,
         Period!FirstDay(start) = MonthStart(a), Period!FirstDay(end) = MonthStart(b),
         ~Period!Precedes(end, start)
  PROVE  Period!IterMonthWindows(start, end) = MonthsFrom(a, b)
<1> DEFINE Cursor(k) == Period!Moved(Period!FirstDay(start), k, Period!NextMonth)
           past == {n \in 0..Longest : Period!Precedes(Period!FirstDay(end), Cursor(n))}
<1>1. Period!IterMonthWindows(start, end) = [k \in 1..Period!Min(past) |-> Cursor(k - 1)]
  BY DEF Period!IterMonthWindows
<1>2. ASSUME NEW k \in Nat PROVE Cursor(k) = MonthStart(a + k)
  BY MovedOn
<1>3. ASSUME NEW n \in 0..Longest PROVE Period!Precedes(Period!FirstDay(end), Cursor(n)) <=> b < a + n
  BY <1>2, MonthsDiffer
<1> HIDE DEF Cursor
<1>4. past = {n \in 0..Longest : b - a < n}
  BY <1>3
<1> HIDE DEF past
<1>5. b - a + 1 \in past /\ \A n \in past : b - a + 1 <= n
  BY <1>4
<1>6. Period!Min(past) = b - a + 1
  <2>1. \A n \in past : n \in Int
    BY <1>4
  <2> QED BY <1>5, <2>1 DEF Period!Min
<1>7. ASSUME NEW k \in 1..(b - a + 1) PROVE Cursor(k - 1) = MonthStart(a + k - 1)
  <2>1. k - 1 \in Nat /\ a + (k - 1) = a + k - 1
    OBVIOUS
  <2> QED BY <1>2, <2>1
<1> QED BY <1>1, <1>6, <1>7 DEF MonthsFrom
Starts == {MonthStart(x) : x \in Int}

(* A sequence has the months of a set, each once. *)
Lists(s, M) ==
    /\ s \in Seq(Starts)
    /\ {Period!Number(s[i]) : i \in DOMAIN s} = M
    /\ Period!IsInjective(s)

LEMMA RangeLists ==
  ASSUME NEW a \in Int, NEW b \in Int, a <= b
  PROVE  /\ Lists(MonthsFrom(a, b), a..b)
         /\ Len(MonthsFrom(a, b)) = b - a + 1
<1> DEFINE s == MonthsFrom(a, b)
           n == b - a + 1
<1>1. n \in Nat /\ DOMAIN s = 1..n
  BY DEF MonthsFrom
<1>2. ASSUME NEW k \in 1..n PROVE s[k] = MonthStart(a + k - 1) /\ a + k - 1 \in Int
  BY DEF MonthsFrom
<1>3. s \in Seq(Starts) /\ Len(s) = n
  <2>1. s \in [1..n -> Starts]
    BY <1>2 DEF MonthsFrom, Starts
  <2> HIDE DEF s, n
  <2> QED BY <1>1, <2>1
<1> HIDE DEF s
<1>4. ASSUME NEW k \in 1..n PROVE Period!Number(s[k]) = a + k - 1
  BY <1>2, MonthStarts
<1>5. {Period!Number(s[i]) : i \in DOMAIN s} = a..b
  <2>1. ASSUME NEW x \in a..b PROVE \E i \in DOMAIN s : Period!Number(s[i]) = x
    <3>1. x - a + 1 \in 1..n /\ a + (x - a + 1) - 1 = x
      OBVIOUS
    <3> QED BY <1>1, <1>4, <3>1
  <2> QED BY <1>1, <1>4, <2>1
<1>6. Period!IsInjective(s)
  <2>1. ASSUME NEW j \in 1..n, NEW k \in 1..n, s[j] = s[k] PROVE j = k
    BY <1>4, <2>1
  <2> QED BY <1>1, <2>1 DEF Period!IsInjective
<1> QED BY <1>3, <1>5, <1>6 DEF Lists, s

LEMMA AddLists ==
  ASSUME NEW s, NEW M, Lists(s, M), NEW x \in Int
  PROVE  Lists(Period!Add(s, MonthStart(x)), M \cup {x})
<1>1. s \in Seq(Starts) /\ Len(s) \in Nat /\ DOMAIN s = 1..Len(s) /\ MonthStart(x) \in Starts
  BY LenProperties DEF Lists, Starts
<1>2. \A i \in 1..Len(s) : s[i] \in Starts
  BY <1>1, ElementOfSeq
<1>3. CASE Period!Contains(s, MonthStart(x))
  <2>1. PICK i \in DOMAIN s : s[i] = MonthStart(x)
    BY <1>1, <1>3 DEF Period!Contains
  <2>2. x \in M
    BY <2>1, MonthStarts DEF Lists
  <2> QED BY <1>3, <2>2 DEF Period!Add, Lists
<1>4. CASE ~Period!Contains(s, MonthStart(x))
  <2> DEFINE t == Append(s, MonthStart(x))
             n == Len(s)
  <2>1. t \in Seq(Starts) /\ DOMAIN t = 1..(n + 1) /\ t[n + 1] = MonthStart(x) /\ \A i \in 1..n : t[i] = s[i]
    BY <1>1, AppendProperties
  <2>2. {Period!Number(t[i]) : i \in DOMAIN t} = M \cup {x}
    <3> HIDE DEF t
    <3>1. Period!Number(t[n + 1]) = x
      BY <2>1, MonthStarts
    <3>2. 1..(n + 1) = 1..n \cup {n + 1}
      BY <1>1
    <3>3. M = {Period!Number(s[i]) : i \in 1..n}
      BY <1>1 DEF Lists
    <3>4. M = {Period!Number(t[i]) : i \in 1..n}
      BY <2>1, <3>3
    <3> HIDE DEF n
    <3> QED BY <2>1, <3>1, <3>2, <3>4
  <2>3. Period!IsInjective(t)
    <3> HIDE DEF t
    <3>1. \A i \in 1..n : s[i] # MonthStart(x)
      BY <1>4 DEF Period!Contains
    <3>2. \A i, j \in 1..n : s[i] = s[j] => i = j
      BY <1>1 DEF Lists, Period!IsInjective
    <3>3. ASSUME NEW i \in 1..(n + 1), NEW j \in 1..(n + 1), t[i] = t[j] PROVE i = j
      <4>1. i \in 1..n \/ i = n + 1
        BY <1>1
      <4>2. j \in 1..n \/ j = n + 1
        BY <1>1
      <4> QED BY <2>1, <3>1, <3>2, <3>3, <4>1, <4>2
    <3> QED BY <2>1, <3>3 DEF Period!IsInjective
  <2> QED BY <1>4, <2>1, <2>2, <2>3 DEF Lists, Period!Add
<1> QED BY <1>3, <1>4

LEMMA AppendLists ==
  ASSUME NEW done, NEW M, Lists(done, M), NEW start, NEW end, NEW a \in Int, NEW b \in Int, a <= b,
         Period!IterMonthWindows(start, end) = MonthsFrom(a, b)
  PROVE  Lists(Period!AppendRange(done, start, end), M \cup a..b)
<1> DEFINE new == MonthsFrom(a, b)
           n == b - a + 1
           Fix(g) == g = [k \in 0..n |-> IF k = 0 THEN done ELSE Period!Add(g[k - 1], new[k])]
           seen == CHOOSE g : Fix(g)
           V == {s \in Seq(Starts) : \E N : Lists(s, N)}
           step == [k \in 1..n |-> [s \in V |-> Period!Add(s, new[k])]]
<1>1. n \in Nat /\ Len(new) = n /\ a + n - 1 = b
  <2>1. n \in Nat /\ a + n - 1 = b
    OBVIOUS
  <2>2. Len(new) = n
    BY RangeLists
  <2> QED BY <2>1, <2>2
<1>2. Period!AppendRange(done, start, end) = seen[n]
  BY <1>1 DEF Period!AppendRange
<1>3. ASSUME NEW k \in 1..n PROVE new[k] = MonthStart(a + k - 1) /\ a + k - 1 \in Int
  BY DEF MonthsFrom
<1>4. StepsKeep(step, V, n)
  <2>1. ASSUME NEW k \in 1..n, NEW s \in V PROVE Period!Add(s, new[k]) \in V
    <3>1. PICK N : Lists(s, N)
      OBVIOUS
    <3>2. Lists(Period!Add(s, new[k]), N \cup {a + k - 1})
      BY <1>3, <3>1, AddLists
    <3> QED BY <3>2 DEF Lists
  <2> HIDE DEF V, new, n
  <2> QED BY <2>1 DEF StepsKeep
<1>5. done \in V
  BY DEF Lists
<1>6. \E g : Fix(g)
  <2> HIDE DEF V
  <2>1. PICK g : StepsFollow(g, done, step, V, n)
    <3> HIDE DEF step, n
    <3> QED BY <1>1, <1>4, <1>5, StepsExist
  <2>2. g \in [0..n -> V] /\ g[0] = done /\ \A k \in 1..n : g[k] = step[k][g[k - 1]]
    BY <2>1 DEF StepsFollow
  <2>3. ASSUME NEW k \in 0..n, k # 0 PROVE g[k] = Period!Add(g[k - 1], new[k])
    <3>1. k \in 1..n /\ k - 1 \in 0..n
      BY <1>1, <2>3
    <3> QED BY <2>2, <3>1
  <2>4. Fix(g)
    <3> HIDE DEF new, n
    <3> QED BY <2>2, <2>3
  <2> QED BY <2>4
<1>7. Fix(seen)
  <2> HIDE DEF Fix
  <2> QED BY <1>6
<1> HIDE DEF seen, V, step, new
<1> DEFINE listed == {k \in 0..n : Lists(seen[k], M \cup a..(a + k - 1))}
<1>8. 0 \in listed
  <2>1. seen[0] = done /\ a..(a + 0 - 1) = {} /\ 0 \in 0..n
    BY <1>1, <1>7
  <2> QED BY <2>1
<1>9. ASSUME NEW k \in 1..n, k - 1 \in listed PROVE k \in listed
  <2>1. k \in 0..n /\ k # 0
    BY <1>1
  <2>2. seen[k] = Period!Add(seen[k - 1], MonthStart(a + k - 1))
    BY <1>3, <1>7, <2>1
  <2>3. Lists(seen[k - 1], M \cup a..(a + (k - 1) - 1))
    BY <1>9
  <2>4. Lists(seen[k], (M \cup a..(a + (k - 1) - 1)) \cup {a + k - 1})
    BY <1>3, <2>2, <2>3, AddLists
  <2>5. (M \cup a..(a + (k - 1) - 1)) \cup {a + k - 1} = M \cup a..(a + k - 1)
    <3>1. a..(a + k - 1) = a..(a + (k - 1) - 1) \cup {a + k - 1}
      OBVIOUS
    <3> QED BY <3>1
  <2> QED BY <2>1, <2>4, <2>5
<1>10. 0..n \subseteq listed
  <2> HIDE DEF listed, n
  <2> QED BY <1>1, <1>8, <1>9, Climbs
<1>11. Lists(seen[n], M \cup a..(a + n - 1))
  <2> HIDE DEF n
  <2>1. n \in 0..n
    BY <1>1
  <2> QED BY <1>10, <2>1
<1> QED
  <2> HIDE DEF n
  <2> QED BY <1>1, <1>2, <1>11

(* The months of the full years, up to the n-th *)
YearMonths(y) == Period!Number(<<y, 1, 1>>)..Period!Number(<<y, 12, 1>>)
FullMonths(n) == UNION {YearMonths(FullYears[i]) : i \in 1..n}

LEMMA YearLists ==
  ASSUME Bounded, NEW done, NEW M, Lists(done, M), NEW y \in Int
  PROVE  Lists(Period!AppendRange(done, <<y, 1, 1>>, <<y, 12, 1>>), M \cup YearMonths(y))
<1> DEFINE a == Period!Number(<<y, 1, 1>>)
           b == Period!Number(<<y, 12, 1>>)
<1>1. a = 12 * y + 1 /\ b = 12 * y + 12
  BY DEF Period!Number
<1>2. Period!FirstDay(<<y, 1, 1>>) = MonthStart(a) /\ Period!FirstDay(<<y, 12, 1>>) = MonthStart(b)
  <2>1. 1 \in 1..12 /\ 12 \in 1..12 /\ 1 \in 1..31
    OBVIOUS
  <2> QED BY <2>1, FirstOfMonth, Zenon
<1>3. ~Period!Precedes(<<y, 12, 1>>, <<y, 1, 1>>)
  BY DEF Period!Precedes
<1> HIDE DEF a, b
<1>4. a \in Int /\ b \in Int /\ a <= b /\ b - a < Longest /\ Longest \in Nat
  BY <1>1 DEF Bounded
<1>5. Period!IterMonthWindows(<<y, 1, 1>>, <<y, 12, 1>>) = MonthsFrom(a, b)
  BY <1>2, <1>3, <1>4, RangeOfMonths
<1>6. Lists(Period!AppendRange(done, <<y, 1, 1>>, <<y, 12, 1>>), M \cup a..b)
  BY <1>4, <1>5, AppendLists
<1> QED BY <1>6 DEF YearMonths, a, b

LEMMA FullYearsLists ==
  ASSUME Bounded
  PROVE  \E s : /\ Lists(s, FullMonths(Len(FullYears)))
                /\ Period!DefaultWindows =
                     Period!AppendRange(s, <<today[1], 1, 1>>,
                                        Period!Moved(Period!FirstDay(today), Forecast, Period!NextMonth))
<1> DEFINE n == Len(FullYears)
           Extended(s, k) == Period!AppendRange(s, <<FullYears[k], 1, 1>>, <<FullYears[k], 12, 1>>)
           Fix(g) == g = [k \in 0..n |-> IF k = 0 THEN <<>> ELSE Extended(g[k - 1], k)]
           full == CHOOSE g : Fix(g)
           V == {s \in Seq(Starts) : \E N : Lists(s, N)}
           step == [k \in 1..n |-> [s \in V |-> Extended(s, k)]]
<1>1. n \in Nat /\ \A k \in 1..n : FullYears[k] \in Int
  BY LenProperties, ElementOfSeq DEF Bounded
<1>2. Period!DefaultWindows =
        Period!AppendRange(full[n], <<today[1], 1, 1>>,
                           Period!Moved(Period!FirstDay(today), Forecast, Period!NextMonth))
  BY DEF Period!DefaultWindows
<1>3. StepsKeep(step, V, n)
  <2>1. ASSUME NEW k \in 1..n, NEW s \in V PROVE Extended(s, k) \in V
    <3>1. PICK N : Lists(s, N)
      OBVIOUS
    <3>2. Lists(Extended(s, k), N \cup YearMonths(FullYears[k]))
      BY <1>1, <3>1, YearLists
    <3> HIDE DEF Extended
    <3> QED BY <3>2 DEF Lists
  <2> HIDE DEF V, Extended, n
  <2> QED BY <2>1 DEF StepsKeep
<1>4. Lists(<<>>, {}) /\ FullMonths(0) = {}
  <2>1. <<>> \in Seq(Starts) /\ DOMAIN <<>> = {}
    OBVIOUS
  <2>2. FullMonths(0) = {}
    BY DEF FullMonths
  <2> QED BY <2>1, <2>2 DEF Lists, Period!IsInjective
<1>5. <<>> \in V
  BY <1>4 DEF Lists
<1>6. \E g : Fix(g)
  <2> HIDE DEF V
  <2>1. PICK g : StepsFollow(g, <<>>, step, V, n)
    <3> HIDE DEF step, n
    <3> QED BY <1>1, <1>3, <1>5, StepsExist
  <2>2. g \in [0..n -> V] /\ g[0] = <<>> /\ \A k \in 1..n : g[k] = step[k][g[k - 1]]
    BY <2>1 DEF StepsFollow
  <2>3. ASSUME NEW k \in 0..n, k # 0 PROVE g[k] = Extended(g[k - 1], k)
    <3>1. k \in 1..n /\ k - 1 \in 0..n
      BY <1>1, <2>3
    <3> QED BY <2>2, <3>1
  <2>4. Fix(g)
    <3> HIDE DEF Extended, n
    <3> QED BY <2>2, <2>3
  <2> QED BY <2>4
<1>7. Fix(full)
  <2> HIDE DEF Fix
  <2> QED BY <1>6
<1> HIDE DEF full, V, step
<1> DEFINE listed == {k \in 0..n : Lists(full[k], FullMonths(k))}
<1>8. 0 \in listed
  <2>1. full[0] = <<>> /\ 0 \in 0..n
    BY <1>1, <1>7
  <2> QED BY <1>4, <2>1
<1>9. ASSUME NEW k \in 1..n, k - 1 \in listed PROVE k \in listed
  <2>1. k \in 0..n /\ k # 0
    BY <1>1
  <2>2. full[k] = Extended(full[k - 1], k)
    BY <1>7, <2>1
  <2>3. Lists(full[k], FullMonths(k - 1) \cup YearMonths(FullYears[k]))
    BY <1>1, <1>9, <2>2, YearLists
  <2>4. FullMonths(k) = FullMonths(k - 1) \cup YearMonths(FullYears[k])
    <3>1. 1..k = 1..(k - 1) \cup {k}
      OBVIOUS
    <3> QED BY <3>1 DEF FullMonths
  <2> QED BY <2>1, <2>3, <2>4
<1>10. n \in listed
  <2> HIDE DEF listed, n
  <2> QED BY <1>1, <1>8, <1>9, Climbs
<1> QED BY <1>2, <1>10

LEMMA DefaultLists ==
  ASSUME Bounded, today \in Dates
  PROVE  Lists(Period!DefaultWindows,
               (UNION {Period!Number(<<FullYears[i], 1, 1>>)..Period!Number(<<FullYears[i], 12, 1>>) : i \in DOMAIN FullYears})
               \cup Period!Number(<<today[1], 1, 1>>)..Period!Number(today) + Forecast)
<1>1. PICK y \in Int, m \in 1..12, d \in 1..31 : today = <<y, m, d>>
  BY DateParts
<1> DEFINE a == Period!Number(<<y, 1, 1>>)
           x == Period!Number(<<y, m, d>>)
           end == Period!Moved(Period!FirstDay(today), Forecast, Period!NextMonth)
<1>2. a = 12 * y + 1 /\ x = 12 * y + m
  BY DEF Period!Number
<1>3. Period!FirstDay(<<y, 1, 1>>) = MonthStart(a) /\ <<y, 1, 1>> = MonthStart(a)
  <2>1. 1 \in 1..12 /\ 1 \in 1..31
    OBVIOUS
  <2>2. Period!FirstDay(<<y, 1, 1>>) = MonthStart(a)
    BY <2>1, FirstOfMonth, Zenon
  <2> QED BY <2>2 DEF Period!FirstDay
<1>4. Period!FirstDay(today) = MonthStart(x)
  BY <1>1, FirstOfMonth
<1> HIDE DEF a, x
<1>5. a \in Int /\ x \in Int /\ a <= x + Forecast /\ x + Forecast - a < Longest /\ Longest \in Nat /\ x + Forecast \in Int /\ Forecast \in Nat
  BY <1>2 DEF Bounded
<1>6. end = MonthStart(x + Forecast)
  BY <1>4, <1>5, MovedOn
<1> HIDE DEF end
<1>7. Period!FirstDay(end) = MonthStart(x + Forecast) /\ ~Period!Precedes(end, <<y, 1, 1>>)
  <2>1. Period!FirstDay(MonthStart(x + Forecast)) = MonthStart(x + Forecast)
    BY <1>5, MonthStarts
  <2>2. Period!Precedes(MonthStart(x + Forecast), MonthStart(a)) <=> x + Forecast < a
    BY <1>5, MonthsDiffer
  <2> QED BY <1>3, <1>5, <1>6, <2>1, <2>2
<1>8. Period!IterMonthWindows(<<y, 1, 1>>, end) = MonthsFrom(a, x + Forecast)
  BY <1>3, <1>5, <1>7, RangeOfMonths
<1>9. PICK s : Lists(s, FullMonths(Len(FullYears))) /\ Period!DefaultWindows = Period!AppendRange(s, <<today[1], 1, 1>>, end)
  BY FullYearsLists DEF end
<1>10. Lists(Period!AppendRange(s, <<y, 1, 1>>, end), FullMonths(Len(FullYears)) \cup a..(x + Forecast))
  BY <1>5, <1>8, <1>9, AppendLists
<1>11. FullMonths(Len(FullYears)) = UNION {Period!Number(<<FullYears[i], 1, 1>>)..Period!Number(<<FullYears[i], 12, 1>>) : i \in DOMAIN FullYears}
  BY LenProperties DEF FullMonths, YearMonths, Bounded
<1>12. /\ Period!DefaultWindows = Period!AppendRange(s, <<y, 1, 1>>, end)
       /\ Period!Number(<<today[1], 1, 1>>)..Period!Number(today) + Forecast = a..(x + Forecast)
  BY <1>1, <1>9 DEF a, x
<1> QED BY <1>10, <1>11, <1>12

LEMMA IncrementalLists ==
  ASSUME Bounded, today \in Dates, back \in Backs, ahead \in Forecasts
  PROVE  Lists(Period!IncrementalWindows,
               Period!Number(today) - Period!NotNegative(back)..Period!Number(today) + Period!NotNegative(ahead))
<1>1. PICK y \in Int, m \in 1..12, d \in 1..31 : today = <<y, m, d>>
  BY DateParts
<1> DEFINE x == Period!Number(today)
           b == Period!NotNegative(back)
           f == Period!NotNegative(ahead)
<1>2. x \in Int /\ Period!FirstDay(today) = MonthStart(x)
  BY <1>1, FirstOfMonth
<1>3. b \in Nat /\ f \in Nat /\ b + f < Longest /\ Longest \in Nat
  BY DEF Bounded, Period!NotNegative
<1> HIDE DEF x, b, f
<1>4. x - b \in Int /\ x + f \in Int /\ x - b <= x + f /\ (x + f) - (x - b) < Longest /\ x + (-b) = x - b /\ -b \in Int
  BY <1>2, <1>3
<1>5. /\ Period!ShiftMonthStart(Period!FirstDay(today), -b) = MonthStart(x - b)
      /\ Period!ShiftMonthStart(Period!FirstDay(today), f) = MonthStart(x + f)
  <2>1. Period!ShiftMonthStart(MonthStart(x), -b) = MonthStart(x + (-b))
    BY <1>2, <1>4, Shifted
  <2>2. Period!ShiftMonthStart(MonthStart(x), f) = MonthStart(x + f)
    BY <1>2, <1>3, Shifted
  <2> QED BY <1>2, <1>4, <2>1, <2>2
<1>6. Period!IterMonthWindows(MonthStart(x - b), MonthStart(x + f)) = MonthsFrom(x - b, x + f)
  BY <1>3, <1>4, MonthStarts, MonthsDiffer, RangeOfMonths
<1>7. Period!IncrementalWindows = MonthsFrom(x - b, x + f)
  BY <1>5, <1>6 DEF Period!IncrementalWindows, b, f
<1>8. Lists(MonthsFrom(x - b, x + f), x - b..x + f)
  BY <1>4, RangeLists
<1> QED BY <1>7, <1>8 DEF x, b, f

PeriodInv ==
    /\ today \in Dates /\ back \in Backs /\ ahead \in Forecasts
    /\ windows # <<>> => Lists(windows, Period!Wanted)

(* For all days, settings and full years: a run covers exactly the months asked for, each
   once and from its first day, also over the turn of a year and for settings below
   zero (hrworks/periods.py). *)
THEOREM MonthsCovered == ASSUME Bounded PROVE Period!Spec => []Period!WindowsAreTheMonths
<1>1. Period!Init => PeriodInv
  BY DEF Period!Init, PeriodInv
<1>2. PeriodInv /\ [Period!Next]_Period!vars => PeriodInv'
  <2> SUFFICES ASSUME PeriodInv, [Period!Next]_Period!vars PROVE PeriodInv'
    OBVIOUS
  <2>1. CASE Period!Next
    <3>1. UNCHANGED <<today, mode, back, ahead>>
      BY <2>1 DEF Period!Next, Period!ResolveSyncMonths
    <3>2. Period!Wanted' = Period!Wanted
      BY <3>1 DEF Period!Wanted, Period!Number, Period!NotNegative
    <3>3. CASE mode = "incremental"
      BY <2>1, <3>1, <3>2, <3>3, IncrementalLists DEF Period!Next, Period!ResolveSyncMonths, PeriodInv, Period!Wanted
    <3>4. CASE mode # "incremental"
      BY <2>1, <3>1, <3>2, <3>4, DefaultLists DEF Period!Next, Period!ResolveSyncMonths, PeriodInv, Period!Wanted
    <3> QED BY <3>3, <3>4
  <2>2. CASE UNCHANGED Period!vars
    <3>1. UNCHANGED <<today, mode, back, ahead, windows>>
      BY <2>2 DEF Period!vars
    <3>2. Period!Wanted' = Period!Wanted
      BY <3>1 DEF Period!Wanted, Period!Number, Period!NotNegative
    <3> QED BY <3>1, <3>2 DEF PeriodInv
  <2> QED BY <2>1, <2>2
<1>3. PeriodInv => Period!WindowsAreTheMonths
  <2> SUFFICES ASSUME PeriodInv, windows # <<>> PROVE Period!WindowsAreTheMonths
    BY DEF Period!WindowsAreTheMonths
  <2>1. Lists(windows, Period!Wanted)
    BY DEF PeriodInv
  <2>2. ASSUME NEW i \in DOMAIN windows PROVE windows[i] = Period!FirstDay(windows[i])
    <3>1. windows[i] \in Starts
      BY <2>1, LenProperties, ElementOfSeq DEF Lists
    <3> QED BY <3>1, MonthStarts DEF Starts
  <2> QED BY <2>1, <2>2 DEF Period!WindowsAreTheMonths, Lists
<1> QED BY <1>1, <1>2, <1>3, PTL DEF Period!Spec

=============================================================================
