------------------------ MODULE DoraWarehouseProofs ------------------------
(***************************************************************************)
(* The tables behind the DORA metrics stay consistent, for any tags,       *)
(* requests, bugs and nights: whatever GitLab leaves out of an answer,     *)
(* whatever is edited meanwhile, and whichever step of a night fails.      *)
(* The figures computed from them are of windows that tile every calendar. *)
(***************************************************************************)
EXTENDS DoraWarehouse, NaturalSets

(* Days are numbered, from a first one that has no earlier tag. *)
DaysCounted ==
    /\ TagDate \in [Tags -> Nat] /\ MergedAt \in [Requests -> Int]
    /\ FirstCommit \in [Requests -> Int \cup {None}]
    /\ FirstDay \in Int /\ LastDay \in Int /\ FirstDay =< LastDay /\ Lookback \in Int

IssuesDated ==
    \A i \in Issues : i.created \in Int \cup {None} /\ i.ready \in Int \cup {None}

Status == {None, "no_tag_ref_found", "no_customer_tag_ref_found", "no_customer_tag_after_merge",
           "first_commit_missing", "matched"}

RequestRow ==
    [key : Keys \cup {None}, commit : Int \cup {None}, tag : Tags \cup {None}, status : Status,
     wait : Int \cup {None}, lead : Int \cup {None},
     qa : [of : Keys, day : Int] \cup {None}, post : Int \cup {None}]

BugRow ==
    [jira : Issues, fixTag : Tags \cup {None}, path : {None, "mr_jira_key", "fix_version"},
     alpha : Int \cup {None}]

(* A stored row is never the missing one, nor is a tag. *)
RowsAreRows == None \notin RequestRow /\ None \notin BugRow /\ None \notin Tags

Constants == DaysCounted /\ IssuesDated /\ RowsAreRows

WarehouseOK ==
    /\ tags \in SUBSET Tags /\ release \in SUBSET Tags
    /\ titles \in [Requests -> Keys \cup {None}]
    /\ issue \in [Keys -> Issues \cup {None}]
    /\ link \in SUBSET (Keys \X Tags)
    /\ mr \in [Requests -> RequestRow \cup {None}]
    /\ bug \in [Keys -> BugRow \cup {None}]
    /\ stage \in 1..7 /\ failed \in {"nothing", "collector", "derivation"}
    /\ today \in FirstDay..LastDay

(* A request waits from its merge to the day of its tag, also when the tag is gone. *)
RowsDated ==
    \A q \in Stored : mr[q].tag # None => mr[q].wait = TagDate[mr[q].tag] - MergedAt[q]

(* In a night without failures links are right once they are made, and so are fixes. *)
NightIsRight ==
    failed = "nothing" => /\ stage > 3 => LinksMatch
                          /\ stage > 4 => FixesExist

DoraInv == WarehouseOK /\ RowsDated /\ RecentAreReleased /\ QaIsOfKey /\ NightIsRight

-----------------------------------------------------------------------------
(* Stages and rows *)

LEMMA StageNumbers ==
  ASSUME stage \in 1..7
  PROVE  /\ Ended = 7
         /\ At("gitlab") => stage = 1
         /\ At("jira") => stage = 2
         /\ At("map") => stage = 3
         /\ At("fix") => stage = 4
         /\ At("hydrate") => stage = 5
         /\ At("lead") => stage = 6
<1>1. Ended = 7
  BY DEF Ended, Stages
<1>2. /\ Stages[1] = "gitlab" /\ Stages[2] = "jira" /\ Stages[3] = "map"
      /\ Stages[4] = "fix" /\ Stages[5] = "hydrate" /\ Stages[6] = "lead"
  BY DEF Stages
<1>3. stage < 7 => stage \in {1, 2, 3, 4, 5, 6}
  OBVIOUS
<1> QED BY <1>1, <1>2, <1>3 DEF At

LEMMA RowOf ==
  ASSUME WarehouseOK, NEW q \in Stored
  PROVE  /\ q \in Requests /\ mr[q] \in RequestRow
         /\ mr[q].key \in Keys \cup {None} /\ mr[q].tag \in Tags \cup {None}
         /\ mr[q].commit \in Int \cup {None} /\ mr[q].status \in Status
         /\ mr[q].wait \in Int \cup {None} /\ mr[q].lead \in Int \cup {None}
         /\ mr[q].qa \in [of : Keys, day : Int] \cup {None} /\ mr[q].post \in Int \cup {None}
<1>1. q \in Requests /\ mr[q] # None
  BY DEF Stored
<1>2. mr[q] \in RequestRow
  BY <1>1 DEF WarehouseOK
<1> QED BY <1>1, <1>2 DEF RequestRow

LEMMA BugOf ==
  ASSUME WarehouseOK, NEW k \in Keys, bug[k] # None
  PROVE  /\ bug[k] \in BugRow /\ bug[k].jira \in Issues /\ bug[k].fixTag \in Tags \cup {None}
         /\ bug[k].path \in {None, "mr_jira_key", "fix_version"} /\ bug[k].alpha \in Int \cup {None}
<1>1. bug[k] \in BugRow
  BY DEF WarehouseOK
<1> QED BY <1>1 DEF BugRow

(* Of several tags there is an earliest one. *)
LEMMA EarliestTag ==
  ASSUME DaysCounted, NEW S \in SUBSET Tags, S # {}
  PROVE  \E t \in S : \A u \in S : TagDate[t] <= TagDate[u]
<1> DEFINE days == {TagDate[t] : t \in S}
<1>1. days \in SUBSET Nat /\ days # {}
  BY DEF DaysCounted
<1>2. PICK d \in days : \A e \in days : d =< e
  <2> HIDE DEF days
  <2> QED BY <1>1, LeastExists
<1> QED BY <1>2

-----------------------------------------------------------------------------
(* The transaction of the GitLab collector *)

(* What mapping a request says of its row. *)
Released(row, q, stored) ==
    row.tag # None =>
        /\ row.tag \in stored \cap CustomerTags
        /\ row.wait = TagDate[row.tag] - MergedAt[q] /\ row.wait >= 0
        /\ row.lead = IF row.commit = None THEN None ELSE TagDate[row.tag] - row.commit

LEMMA MappedRow ==
  ASSUME DaysCounted, NEW q \in Requests, NEW row \in RequestRow,
         NEW stored \in SUBSET Tags
  PROVE  /\ Mapped(row, q, stored) \in RequestRow
         /\ Mapped(row, q, stored).key = row.key /\ Mapped(row, q, stored).qa = row.qa
         /\ Released(Mapped(row, q, stored), q, stored)
         /\ Eligible(q, stored) # {} => Mapped(row, q, stored).tag \in Tags
<1> DEFINE m == Mapped(row, q, stored)
<1>1. ASSUME NEW why \in Status, m = Cleared(row, why)
      PROVE  m \in RequestRow /\ m.key = row.key /\ m.qa = row.qa /\ m.tag = None
  <2>1. m = [row EXCEPT !.tag = None, !.wait = None, !.lead = None, !.status = why]
    BY <1>1 DEF Cleared
  <2> HIDE DEF m
  <2> QED BY <2>1 DEF RequestRow
<1>2. CASE \/ Carries[q] \cap tags = {} \/ Candidates(q, stored) = {}
           \/ Eligible(q, stored) = {}
  <2>1. \E why \in Status : m = Cleared(row, why)
    BY <1>2 DEF Mapped, Status
  <2> HIDE DEF m
  <2>2. m \in RequestRow /\ m.key = row.key /\ m.qa = row.qa /\ m.tag = None
    BY <1>1, <2>1
  <2>3. Released(m, q, stored)
    BY <2>2 DEF Released
  <2>4. Eligible(q, stored) = {}
    BY <1>2 DEF Eligible, Candidates
  <2> QED BY <2>2, <2>3, <2>4 DEF m
<1>3. CASE /\ Carries[q] \cap tags # {} /\ Candidates(q, stored) # {}
           /\ Eligible(q, stored) # {}
  <2> DEFINE first == CHOOSE t \in Eligible(q, stored) :
                         \A u \in Eligible(q, stored) : TagDate[t] <= TagDate[u]
             lead == IF row.commit = None THEN None ELSE TagDate[first] - row.commit
             status == IF row.commit = None THEN "first_commit_missing" ELSE "matched"
  <2>1. Eligible(q, stored) \in SUBSET Tags
    BY DEF Eligible, Candidates
  <2>2. first \in Eligible(q, stored)
    BY <1>3, <2>1, EarliestTag
  <2>3. first \in stored \cap CustomerTags /\ first \in Tags /\ TagDate[first] >= MergedAt[q]
    BY <2>2 DEF Eligible, Candidates
  <2>4. m = [row EXCEPT !.tag = first, !.wait = TagDate[first] - MergedAt[q],
                        !.lead = lead, !.status = status]
    BY <1>3 DEF Mapped
  <2> HIDE DEF first
  <2>5. row.commit \in Int \cup {None}
    BY DEF RequestRow
  <2>6. /\ TagDate[first] - MergedAt[q] \in Int /\ TagDate[first] - MergedAt[q] >= 0
        /\ lead \in Int \cup {None}
    BY <2>3, <2>5 DEF DaysCounted
  <2>7. status \in Status
    BY DEF Status
  <2>8. lead = IF row.commit = None THEN None ELSE TagDate[first] - row.commit
    OBVIOUS
  <2> HIDE DEF m, lead, status
  <2>9. /\ m \in RequestRow /\ m.key = row.key /\ m.qa = row.qa /\ m.commit = row.commit
        /\ m.tag = first /\ m.wait = TagDate[first] - MergedAt[q] /\ m.lead = lead
    BY <2>3, <2>4, <2>6, <2>7 DEF RequestRow
  <2>10. Released(m, q, stored)
    BY <2>3, <2>6, <2>8, <2>9 DEF Released
  <2> QED BY <2>3, <2>9, <2>10 DEF m
<1> QED BY <1>2, <1>3

LEMMA UpsertedRow ==
  ASSUME Constants, DoraInv, NEW q \in Requests, NEW listed \in SUBSET Requests
  PROVE  /\ Upserted(q, listed) \in RequestRow \cup {None}
         /\ Upserted(q, listed) # None /\ Upserted(q, listed).qa # None =>
               Upserted(q, listed).qa.of = Upserted(q, listed).key
         /\ mr[q] = None /\ Upserted(q, listed) # None => Upserted(q, listed).tag = None
         /\ mr[q] # None => /\ Upserted(q, listed) \in RequestRow
                            /\ Upserted(q, listed).tag = mr[q].tag
                            /\ Upserted(q, listed).wait = mr[q].wait
<1>1. CASE q \notin listed
  BY <1>1 DEF Upserted, DoraInv, WarehouseOK, QaIsOfKey, Stored
<1>2. CASE q \in listed /\ mr[q] = None
  <2>1. Upserted(q, listed) = [key |-> titles[q], commit |-> None, tag |-> None, status |-> None,
                               wait |-> None, lead |-> None, qa |-> None, post |-> None]
    BY <1>2 DEF Upserted
  <2>2. titles[q] \in Keys \cup {None}
    BY DEF DoraInv, WarehouseOK
  <2> QED BY <1>2, <2>1, <2>2 DEF RequestRow, Status
<1>3. CASE q \in listed /\ mr[q] # None
  <2> DEFINE qa == IF mr[q].key = titles[q] THEN mr[q].qa ELSE None
             up == Upserted(q, listed)
  <2>1. up = [mr[q] EXCEPT !.key = titles[q], !.qa = qa]
    BY <1>3 DEF Upserted
  <2>2. titles[q] \in Keys \cup {None} /\ q \in Stored /\ mr[q] \in RequestRow
    BY <1>3 DEF DoraInv, WarehouseOK, Stored
  <2>3. qa \in [of : Keys, day : Int] \cup {None} /\ (qa # None => qa.of = titles[q])
    BY <2>2, RowOf DEF DoraInv, QaIsOfKey
  <2> HIDE DEF qa, up
  <2>4. /\ up \in RequestRow /\ up.key = titles[q] /\ up.qa = qa
        /\ up.tag = mr[q].tag /\ up.wait = mr[q].wait
    BY <2>1, <2>2, <2>3 DEF RequestRow
  <2>5. up \in RequestRow \cup {None} /\ (up # None /\ up.qa # None => up.qa.of = up.key)
    BY <2>3, <2>4
  <2> QED BY <1>3, <2>4, <2>5 DEF up
<1> QED BY <1>1, <1>2, <1>3

LEMMA DatedRow ==
  ASSUME DaysCounted, NEW q \in Requests, NEW row \in RequestRow, NEW written
  PROVE  /\ Dated(row, q, written) \in RequestRow
         /\ Dated(row, q, written).key = row.key /\ Dated(row, q, written).qa = row.qa
         /\ Dated(row, q, written).tag = row.tag /\ Dated(row, q, written).wait = row.wait
<1> DEFINE d == Dated(row, q, written)
           commit == FirstCommit[q]
<1>1. commit \in Int \cup {None}
  BY DEF DaysCounted
<1>2. d = row \/ d = [row EXCEPT !.commit = commit]
  BY DEF Dated
<1> HIDE DEF d, commit
<1>3. /\ d \in RequestRow /\ d.key = row.key /\ d.qa = row.qa
      /\ d.tag = row.tag /\ d.wait = row.wait
  BY <1>1, <1>2 DEF RequestRow
<1> QED BY <1>3 DEF d

(* What a collection leaves of a request, whatever it has been told of it. *)
LEMMA CollectedRow ==
  ASSUME Constants, DoraInv, NEW q \in Requests, NEW listed \in SUBSET Requests, NEW written,
         NEW known \in SUBSET Tags, NEW c, c = Collected(q, listed, written, known)
  PROVE  /\ c \in RequestRow \cup {None}
         /\ c # None /\ c.qa # None => c.qa.of = c.key
         /\ c # None /\ c.tag # None => c.wait = TagDate[c.tag] - MergedAt[q]
         /\ c # None /\ Recent(q) => Released(c, q, known)
         /\ mr[q] # None /\ Eligible(q, known) # {} => c.tag # None
<1> DEFINE row == Upserted(q, listed)
           dated == Dated(row, q, written)
<1>1. c = IF mr[q] = None THEN row ELSE IF Remapped(row, q) THEN Mapped(dated, q, known) ELSE dated
  BY DEF Collected
<1>2. /\ row \in RequestRow \cup {None}
      /\ row # None /\ row.qa # None => row.qa.of = row.key
      /\ mr[q] = None /\ row # None => row.tag = None
      /\ mr[q] # None => row \in RequestRow /\ row.tag = mr[q].tag /\ row.wait = mr[q].wait
  BY UpsertedRow
<1>3. CASE mr[q] = None
  BY <1>1, <1>2, <1>3 DEF Released
<1>4. CASE mr[q] # None
  <2>1. row \in RequestRow /\ row # None /\ row.tag = mr[q].tag /\ row.wait = mr[q].wait
    BY <1>2, <1>4 DEF Constants, RowsAreRows
  <2>2. /\ dated \in RequestRow /\ dated.key = row.key /\ dated.qa = row.qa
        /\ dated.tag = row.tag /\ dated.wait = row.wait
    BY <2>1, DatedRow DEF Constants
  <2> HIDE DEF row, dated
  <2>3. CASE Remapped(row, q)
    <3>1. c = Mapped(dated, q, known)
      BY <1>1, <1>4, <2>3
    <3>2. /\ c \in RequestRow /\ c.key = dated.key /\ c.qa = dated.qa
          /\ Released(c, q, known)
          /\ Eligible(q, known) # {} => c.tag \in Tags
      BY <2>2, <3>1, MappedRow DEF Constants
    <3> QED BY <1>2, <2>1, <2>2, <3>2 DEF Released, Constants, RowsAreRows
  <2>4. CASE ~Remapped(row, q)
    <3>1. c = dated /\ ~Recent(q) /\ c.tag # None
      BY <1>1, <1>4, <2>2, <2>4 DEF Remapped
    <3>2. mr[q].tag # None => mr[q].wait = TagDate[mr[q].tag] - MergedAt[q]
      BY <1>4 DEF DoraInv, RowsDated, Stored
    <3> QED BY <1>2, <2>1, <2>2, <3>1, <3>2
  <2> QED BY <2>3, <2>4
<1> QED BY <1>3, <1>4

(* Some answers of GitLab and some times of writing explain a collection. *)
LEMMA CollectionOf ==
  ASSUME CollectGitLab
  PROVE  \E seen \in Fetched, listed \in SUBSET Due, written \in SUBSET (Requests \ Due) :
           LET kept == release \ Stale(release, seen)
           IN  /\ release' = kept \cup seen
               /\ link' = {l \in link : l[2] \in kept}
               /\ mr' = [q \in Requests |-> Collected(q, listed, written, kept)]
BY DEF CollectGitLab

LEMMA CollectGitLabStep ==
  ASSUME Constants, DoraInv, CollectGitLab
  PROVE  /\ DoraInv'
         /\ \A q \in Stored : Eligible(q, release \cap release') # {} => mr'[q].tag # None
<1>1. PICK seen \in Fetched : \E listed \in SUBSET Due, written \in SUBSET (Requests \ Due) :
           LET kept == release \ Stale(release, seen)
           IN  /\ release' = kept \cup seen
               /\ link' = {l \in link : l[2] \in kept}
               /\ mr' = [q \in Requests |-> Collected(q, listed, written, kept)]
  BY CollectionOf
<1> DEFINE kept == release \ Stale(release, seen)
<1>2. PICK listed \in SUBSET Due, written \in SUBSET (Requests \ Due) :
           /\ release' = kept \cup seen
           /\ link' = {l \in link : l[2] \in kept}
           /\ mr' = [q \in Requests |-> Collected(q, listed, written, kept)]
  BY <1>1
<1>3. seen \in SUBSET Tags /\ kept \in SUBSET Tags /\ kept \subseteq release
  BY DEF Fetched, DoraInv, WarehouseOK
<1>4. release \cap release' = kept
  <2>1. seen \cap Stale(release, seen) = {}
    BY DEF Stale
  <2> QED BY <1>2, <2>1
<1> HIDE DEF kept
<1>5. release' \in SUBSET Tags /\ link' \in SUBSET (Keys \X Tags) /\ listed \in SUBSET Requests
  BY <1>2, <1>3 DEF DoraInv, WarehouseOK, Due
<1>6. /\ UNCHANGED <<tags, titles, issue, today, failed, bug>>
      /\ stage' = 2
  BY StageNumbers DEF CollectGitLab, Proceed, world, DoraInv, WarehouseOK
<1>7. ASSUME NEW q \in Requests
      PROVE  /\ mr'[q] \in RequestRow \cup {None}
             /\ mr'[q] # None /\ mr'[q].qa # None => mr'[q].qa.of = mr'[q].key
             /\ mr'[q] # None /\ mr'[q].tag # None => mr'[q].wait = TagDate[mr'[q].tag] - MergedAt[q]
             /\ mr'[q] # None /\ Recent(q) => Released(mr'[q], q, kept)
             /\ mr[q] # None /\ Eligible(q, kept) # {} => mr'[q].tag # None
  <2>1. mr'[q] = Collected(q, listed, written, kept)
    BY <1>2
  <2> QED BY <1>3, <1>5, <2>1, CollectedRow
<1>8. mr' = [q \in Requests |-> mr'[q]]
  BY <1>2
<1>9. WarehouseOK'
  BY <1>5, <1>6, <1>7, <1>8 DEF DoraInv, WarehouseOK
<1>10. RowsDated' /\ QaIsOfKey'
  BY <1>7 DEF RowsDated, QaIsOfKey, Stored
<1>11. RecentAreReleased'
  BY <1>2, <1>6, <1>7 DEF RecentAreReleased, Released, Recent, Stored
<1>12. NightIsRight'
  BY <1>6 DEF NightIsRight
<1>13. \A q \in Stored : Eligible(q, release \cap release') # {} => mr'[q].tag # None
  BY <1>4, <1>7 DEF Stored
<1> QED BY <1>9, <1>10, <1>11, <1>12, <1>13 DEF DoraInv

-----------------------------------------------------------------------------
(* Steps that leave what requests say of releases *)

SameFigures ==
    \A q \in Requests :
        /\ mr'[q] = None <=> mr[q] = None
        /\ mr[q] # None => /\ mr'[q].key = mr[q].key /\ mr'[q].tag = mr[q].tag
                           /\ mr'[q].wait = mr[q].wait /\ mr'[q].lead = mr[q].lead
                           /\ mr'[q].commit = mr[q].commit

LEMMA FiguresKept ==
  ASSUME DoraInv, SameFigures, UNCHANGED <<release, bug, link, today>>
  PROVE  /\ RowsDated' /\ RecentAreReleased'
         /\ LinksMatch => LinksMatch'
         /\ FixesExist => FixesExist'
<1>1. Stored' = Stored /\ \A q \in Stored : q \in Requests /\ mr[q] # None
  BY DEF SameFigures, Stored
<1>2. \A q \in Stored : /\ mr'[q].key = mr[q].key /\ mr'[q].tag = mr[q].tag
                        /\ mr'[q].wait = mr[q].wait /\ mr'[q].lead = mr[q].lead
                        /\ mr'[q].commit = mr[q].commit
  BY <1>1 DEF SameFigures
<1>3. \A q \in Stored : Recent(q)' <=> Recent(q)
  BY DEF Recent
<1>4. \A k \in Keys : Fixes(k)' = Fixes(k) /\ (CountsForMttr(k)' <=> CountsForMttr(k))
  BY <1>1, <1>2 DEF Fixes, CountsForMttr
<1>5. RowsDated' /\ RecentAreReleased'
  BY <1>1, <1>2, <1>3 DEF DoraInv, RowsDated, RecentAreReleased
<1>6. LinksMatch => LinksMatch'
  BY DEF LinksMatch
<1>7. FixesExist => FixesExist'
  <2> SUFFICES ASSUME FixesExist, NEW k \in Keys, CountsForMttr(k)', bug'[k].fixTag \notin release' \cup {None}
               PROVE  \E q \in Fixes(k)' : ~Recent(q)' /\ mr'[q].tag = bug'[k].fixTag
    BY DEF FixesExist
  <2>1. PICK q \in Fixes(k) : ~Recent(q) /\ mr[q].tag = bug[k].fixTag
    BY <1>4 DEF FixesExist
  <2>2. q \in Stored
    BY <2>1 DEF Fixes
  <2> QED BY <1>2, <1>3, <1>4, <2>1, <2>2
<1> QED BY <1>5, <1>6, <1>7

LEMMA HydrateStep ==
  ASSUME Constants, DoraInv, Hydrate
  PROVE  DoraInv'
<1>1. PICK unread \in SUBSET Keys :
        mr' = [q \in Requests |->
                 IF \/ mr[q] = None
                    \/ mr[q].key \in unread \cup {None}
                    \/ bug[mr[q].key] # None /\ bug[mr[q].key].jira.ready # None
                 THEN mr[q]
                 ELSE [mr[q] EXCEPT !.qa = IF issue[mr[q].key] = None THEN @
                                           ELSE ReadyOf(mr[q].key)]]
  BY DEF Hydrate
<1>2. /\ UNCHANGED <<tags, titles, issue, today, failed, release, bug, link>>
      /\ stage = 5 /\ stage' = 6
  BY StageNumbers DEF Hydrate, Proceed, world, DoraInv, WarehouseOK
<1>3. ASSUME NEW q \in Requests
      PROVE  /\ mr'[q] = None <=> mr[q] = None
             /\ mr[q] # None => /\ mr'[q] \in RequestRow
                                /\ mr'[q].key = mr[q].key /\ mr'[q].tag = mr[q].tag
                                /\ mr'[q].wait = mr[q].wait /\ mr'[q].lead = mr[q].lead
                                /\ mr'[q].commit = mr[q].commit
                                /\ mr'[q].qa # None => mr'[q].qa.of = mr'[q].key
  <2>1. CASE mr'[q] = mr[q]
    BY <2>1 DEF DoraInv, WarehouseOK, QaIsOfKey, Stored
  <2>2. CASE mr'[q] # mr[q]
    <3> DEFINE k == mr[q].key
               qa == IF issue[k] = None THEN mr[q].qa ELSE ReadyOf(k)
    <3>1. /\ mr[q] # None /\ k # None
          /\ mr'[q] = [mr[q] EXCEPT !.qa = qa]
      BY <1>1, <2>2
    <3>2. q \in Stored /\ k \in Keys /\ mr[q] \in RequestRow
      BY <3>1, RowOf DEF Stored, DoraInv
    <3>3. qa \in [of : Keys, day : Int] \cup {None} /\ (qa # None => qa.of = k)
      <4>1. CASE issue[k] = None
        BY <3>2, <4>1, RowOf DEF DoraInv, QaIsOfKey
      <4>2. CASE issue[k] # None
        <5>1. issue[k].ready \in Int \cup {None}
          BY <3>2, <4>2 DEF DoraInv, WarehouseOK, Constants, IssuesDated
        <5> QED BY <3>2, <4>2, <5>1 DEF ReadyOf
      <4> QED BY <4>1, <4>2
    <3> HIDE DEF qa
    <3>4. /\ mr'[q] \in RequestRow /\ mr'[q].qa = qa
          /\ mr'[q].key = mr[q].key /\ mr'[q].tag = mr[q].tag
          /\ mr'[q].wait = mr[q].wait /\ mr'[q].lead = mr[q].lead
          /\ mr'[q].commit = mr[q].commit
      BY <3>1, <3>2, <3>3 DEF RequestRow
    <3> QED BY <3>1, <3>3, <3>4 DEF Constants, RowsAreRows
  <2> QED BY <2>1, <2>2
<1>4. SameFigures
  BY <1>3 DEF SameFigures
<1>5. QaIsOfKey'
  BY <1>3 DEF QaIsOfKey, Stored
<1>6. mr' \in [Requests -> RequestRow \cup {None}]
  <2>1. mr' = [q \in Requests |-> mr'[q]]
    BY <1>1
  <2> QED BY <1>3, <2>1
<1>7. WarehouseOK'
  BY <1>2, <1>6 DEF DoraInv, WarehouseOK
<1>8. NightIsRight'
  BY <1>2, <1>4, FiguresKept DEF DoraInv, NightIsRight
<1> QED BY <1>2, <1>4, <1>5, <1>7, <1>8, FiguresKept DEF DoraInv

(* The day of QA that counts for a request is a day or missing. *)
LEMMA ReadyDay ==
  ASSUME Constants, DoraInv, NEW q \in Stored, mr[q].key # None
  PROVE  ReadyAt(mr[q]) \in Int \cup {None}
<1> DEFINE k == mr[q].key
<1>1. k \in Keys /\ mr[q].qa \in [of : Keys, day : Int] \cup {None}
  BY RowOf DEF DoraInv
<1>2. bug[k] # None => bug[k].jira.ready \in Int \cup {None}
  BY <1>1, BugOf DEF DoraInv, Constants, IssuesDated
<1> QED BY <1>1, <1>2 DEF ReadyAt

LEMMA ComputeLeadStep ==
  ASSUME Constants, DoraInv, ComputeLead
  PROVE  DoraInv'
<1> DEFINE post(q) == IF mr[q].key = None THEN None
                      ELSE IF ReadyAt(mr[q]) = None \/ MergedAt[q] < ReadyAt(mr[q]) THEN None
                      ELSE MergedAt[q] - ReadyAt(mr[q])
<1>1. mr' = [q \in Requests |-> IF mr[q] = None \/ ~Recent(q) THEN mr[q]
                                ELSE [mr[q] EXCEPT !.post = post(q)]]
  BY DEF ComputeLead
<1>2. /\ UNCHANGED <<tags, titles, issue, today, failed, release, bug, link>>
      /\ stage = 6 /\ stage' = 7
  BY StageNumbers DEF ComputeLead, Proceed, world, DoraInv, WarehouseOK
<1>3. ASSUME NEW q \in Requests
      PROVE  /\ mr'[q] = None <=> mr[q] = None
             /\ mr[q] # None => /\ mr'[q] \in RequestRow
                                /\ mr'[q].key = mr[q].key /\ mr'[q].tag = mr[q].tag
                                /\ mr'[q].wait = mr[q].wait /\ mr'[q].lead = mr[q].lead
                                /\ mr'[q].commit = mr[q].commit
                                /\ mr'[q].qa = mr[q].qa
  <2>1. CASE mr'[q] = mr[q]
    BY <2>1 DEF DoraInv, WarehouseOK
  <2>2. CASE mr'[q] # mr[q]
    <3> HIDE DEF post
    <3>1. mr[q] # None /\ mr'[q] = [mr[q] EXCEPT !.post = post(q)]
      BY <1>1, <2>2
    <3>2. q \in Stored /\ mr[q] \in RequestRow
      BY <3>1, RowOf DEF Stored, DoraInv
    <3>3. post(q) \in Int \cup {None}
      BY <3>2, ReadyDay DEF post, Constants, DaysCounted
    <3>4. /\ mr'[q] \in RequestRow
          /\ mr'[q].key = mr[q].key /\ mr'[q].tag = mr[q].tag
          /\ mr'[q].wait = mr[q].wait /\ mr'[q].lead = mr[q].lead /\ mr'[q].qa = mr[q].qa
      BY <3>1, <3>2, <3>3 DEF RequestRow
    <3> QED BY <3>1, <3>4 DEF Constants, RowsAreRows
  <2> QED BY <2>1, <2>2
<1>4. SameFigures
  BY <1>3 DEF SameFigures
<1>5. QaIsOfKey'
  BY <1>3 DEF DoraInv, QaIsOfKey, Stored
<1>6. mr' \in [Requests -> RequestRow \cup {None}]
  <2>1. mr' = [q \in Requests |-> mr'[q]]
    BY <1>1
  <2> QED BY <1>3, <2>1
<1>7. WarehouseOK'
  BY <1>2, <1>6 DEF DoraInv, WarehouseOK
<1>8. NightIsRight'
  BY <1>2, <1>4, FiguresKept DEF DoraInv, NightIsRight
<1> QED BY <1>2, <1>4, <1>5, <1>7, <1>8, FiguresKept DEF DoraInv

-----------------------------------------------------------------------------
(* Bugs, their links and their fixes *)

(* Steps that leave the requests and the releases. *)
LEMMA RequestsKept ==
  ASSUME DoraInv, UNCHANGED <<release, mr, today>>
  PROVE  RowsDated' /\ RecentAreReleased' /\ QaIsOfKey'
  BY DEF DoraInv, RowsDated, RecentAreReleased, QaIsOfKey, Stored, Recent

LEMMA CollectJiraStep ==
  ASSUME Constants, DoraInv, CollectJira
  PROVE  DoraInv'
<1>1. /\ UNCHANGED <<tags, titles, issue, today, failed, release, mr, link>>
      /\ stage' = 3
  BY StageNumbers DEF CollectJira, Proceed, world, DoraInv, WarehouseOK
<1>2. ASSUME NEW k \in Keys
      PROVE  (IF k \in SearchBugs THEN UpsertedBug(k) ELSE bug[k]) \in BugRow \cup {None}
  <2>1. CASE k \in SearchBugs
    <3>1. issue[k] \in Issues
      BY <2>1 DEF SearchBugs, DoraInv, WarehouseOK
    <3>2. CASE bug[k] = None
      BY <2>1, <3>1, <3>2 DEF UpsertedBug, BugRow
    <3>3. CASE bug[k] # None
      BY <2>1, <3>1, <3>3, BugOf DEF UpsertedBug, BugRow, DoraInv
    <3> QED BY <3>2, <3>3
  <2>2. CASE k \notin SearchBugs
    BY <2>2 DEF DoraInv, WarehouseOK
  <2> QED BY <2>1, <2>2
<1>3. bug' \in [Keys -> BugRow \cup {None}]
  BY <1>2 DEF CollectJira
<1>4. WarehouseOK'
  BY <1>1, <1>3 DEF DoraInv, WarehouseOK
<1>5. NightIsRight'
  BY <1>1 DEF NightIsRight
<1> QED BY <1>1, <1>4, <1>5, RequestsKept DEF DoraInv

LEMMA MapBugsStep ==
  ASSUME DoraInv, MapBugs
  PROVE  DoraInv'
<1>1. /\ UNCHANGED <<tags, titles, issue, today, failed, release, mr, bug>>
      /\ stage' = 4
      /\ link' = {l \in Keys \X release : bug[l[1]] # None /\ Version(l[2]) = bug[l[1]].jira.affects}
  BY StageNumbers DEF MapBugs, Proceed, world, DoraInv, WarehouseOK
<1>2. WarehouseOK'
  <2>1. link' \in SUBSET (Keys \X Tags)
    BY <1>1 DEF DoraInv, WarehouseOK
  <2> QED BY <1>1, <2>1 DEF DoraInv, WarehouseOK
<1>3. NightIsRight'
  BY <1>1 DEF NightIsRight, LinksMatch
<1> QED BY <1>1, <1>2, <1>3, RequestsKept DEF DoraInv

(* The release that fixed a bug is stored, unless an old merge request names it. *)
LEMMA FixFound ==
  ASSUME Constants, DoraInv, NEW k \in Keys, bug[k] # None
  PROVE  /\ FixOf(k).tag \in Tags \cup {None} /\ (FixOf(k).tag # None => FixOf(k).day \in Int)
         /\ FixOf(k).path \in {None, "mr_jira_key", "fix_version"}
         /\ FixOf(k).tag \notin release \cup {None} =>
               \E q \in Fixes(k) : ~Recent(q) /\ mr[q].tag = FixOf(k).tag
<1>1. CASE Fixes(k) # {}
  <2> DEFINE q == CHOOSE q \in Fixes(k) : \A p \in Fixes(k) : Reached(q) <= Reached(p)
  <2>1. \A p \in Fixes(k) : /\ p \in Stored /\ mr[p].tag \in Tags /\ mr[p].tag # None
                            /\ Reached(p) = TagDate[mr[p].tag]
    <3> SUFFICES ASSUME NEW p \in Fixes(k)
                 PROVE  /\ p \in Stored /\ mr[p].tag \in Tags /\ mr[p].tag # None
                        /\ Reached(p) = TagDate[mr[p].tag]
      OBVIOUS
    <3>1. p \in Stored /\ mr[p].tag # None
      BY DEF Fixes
    <3>2. p \in Requests /\ mr[p].tag \in Tags /\ mr[p].wait = TagDate[mr[p].tag] - MergedAt[p]
      BY <3>1, RowOf DEF DoraInv, RowsDated
    <3> QED BY <3>1, <3>2 DEF Reached, Constants, DaysCounted
  <2>2. q \in Fixes(k)
    <3> DEFINE named == {mr[p].tag : p \in Fixes(k)}
    <3>1. named \in SUBSET Tags /\ named # {}
      BY <1>1, <2>1
    <3>2. PICK t \in named : \A u \in named : TagDate[t] <= TagDate[u]
      <4> HIDE DEF named
      <4> QED BY <3>1, EarliestTag DEF Constants
    <3>3. \E p \in Fixes(k) : \A o \in Fixes(k) : Reached(p) <= Reached(o)
      BY <2>1, <3>2
    <3> QED BY <3>3
  <2>3. FixOf(k) = [tag |-> mr[q].tag, day |-> Reached(q), path |-> "mr_jira_key"]
    BY <1>1 DEF FixOf
  <2> HIDE DEF q
  <2>4. TagDate[mr[q].tag] \in Int
    BY <2>1, <2>2 DEF Constants, DaysCounted
  <2>5. Recent(q) => mr[q].tag \in release
    BY <2>1, <2>2 DEF DoraInv, RecentAreReleased
  <2> QED BY <2>1, <2>2, <2>3, <2>4, <2>5
<1>2. CASE Fixes(k) = {} /\ Matching(bug[k].jira.fix) # {}
  <2> DEFINE named == Matching(bug[k].jira.fix)
             t == CHOOSE t \in named : \A u \in named : TagDate[t] <= TagDate[u]
  <2>1. named \in SUBSET Tags /\ named \subseteq release /\ named # {}
    BY <1>2 DEF Matching, DoraInv, WarehouseOK
  <2>2. FixOf(k) = [tag |-> t, day |-> TagDate[t], path |-> "fix_version"]
    BY <1>2 DEF FixOf
  <2>3. t \in named
    <3> HIDE DEF named
    <3> QED BY <2>1, EarliestTag DEF Constants
  <2> HIDE DEF t, named
  <2> QED BY <2>1, <2>2, <2>3 DEF Constants, DaysCounted
<1>3. CASE Fixes(k) = {} /\ Matching(bug[k].jira.fix) = {}
  BY <1>3 DEF FixOf
<1> QED BY <1>1, <1>2, <1>3

LEMMA ResolveFixesStep ==
  ASSUME Constants, DoraInv, ResolveFixes
  PROVE  DoraInv'
<1> DEFINE alpha(k) == IF FixOf(k).tag # None /\ bug[k].jira.created # None
                          /\ bug[k].jira.created <= FixOf(k).day
                       THEN FixOf(k).day - bug[k].jira.created ELSE None
<1>1. bug' = [k \in Keys |-> IF ~CountsForMttr(k) THEN bug[k]
                             ELSE [bug[k] EXCEPT !.fixTag = FixOf(k).tag, !.path = FixOf(k).path,
                                                 !.alpha = alpha(k)]]
  BY DEF ResolveFixes
<1>2. /\ UNCHANGED <<tags, titles, issue, today, failed, release, mr, link>>
      /\ stage = 4 /\ stage' = 5
  <2>1. At("fix") /\ Proceed /\ UNCHANGED <<release, mr, link>>
    BY DEF ResolveFixes
  <2> QED BY <2>1, StageNumbers DEF Proceed, world, DoraInv, WarehouseOK
<1>3. ASSUME NEW k \in Keys
      PROVE  /\ bug'[k] = None <=> bug[k] = None
             /\ bug[k] # None => /\ bug'[k] \in BugRow /\ bug'[k].jira = bug[k].jira
                                 /\ CountsForMttr(k) => bug'[k].fixTag = FixOf(k).tag
  <2>1. CASE ~CountsForMttr(k)
    BY <1>1, <2>1 DEF DoraInv, WarehouseOK
  <2>2. CASE CountsForMttr(k)
    <3>1. bug[k] # None
      BY <2>2 DEF CountsForMttr
    <3>2. bug[k].jira.created \in Int \cup {None} /\ bug[k] \in BugRow
      BY <3>1, BugOf DEF DoraInv, Constants, IssuesDated
    <3>3. alpha(k) \in Int \cup {None}
      BY <3>1, <3>2, FixFound
    <3> HIDE DEF alpha
    <3>4. bug'[k] = [bug[k] EXCEPT !.fixTag = FixOf(k).tag, !.path = FixOf(k).path, !.alpha = alpha(k)]
      BY <1>1, <2>2
    <3>5. FixOf(k).tag \in Tags \cup {None} /\ FixOf(k).path \in {None, "mr_jira_key", "fix_version"}
      BY <3>1, FixFound
    <3>6. bug'[k] \in BugRow /\ bug'[k].jira = bug[k].jira /\ bug'[k].fixTag = FixOf(k).tag
      BY <3>2, <3>3, <3>4, <3>5 DEF BugRow
    <3> QED BY <3>1, <3>6 DEF Constants, RowsAreRows
  <2> QED BY <2>1, <2>2
<1>4. bug' \in [Keys -> BugRow \cup {None}]
  <2>1. bug' = [k \in Keys |-> bug'[k]]
    BY <1>1
  <2> QED BY <1>3, <2>1
<1>5. WarehouseOK'
  BY <1>2, <1>4 DEF DoraInv, WarehouseOK
<1>6. LinksMatch => LinksMatch'
  <2>1. \A l \in Keys \X release : /\ bug'[l[1]] = None <=> bug[l[1]] = None
                                   /\ bug[l[1]] # None => bug'[l[1]].jira = bug[l[1]].jira
    BY <1>3
  <2> QED BY <1>2, <2>1 DEF LinksMatch
<1>7. FixesExist'
  <2> SUFFICES ASSUME NEW k \in Keys, CountsForMttr(k)', bug'[k].fixTag \notin release' \cup {None}
               PROVE  \E q \in Fixes(k)' : ~Recent(q)' /\ mr'[q].tag = bug'[k].fixTag
    BY DEF FixesExist
  <2>1. CountsForMttr(k) /\ bug[k] # None
    BY <1>3 DEF CountsForMttr
  <2>2. bug'[k].fixTag = FixOf(k).tag
    BY <1>3, <2>1
  <2>3. PICK q \in Fixes(k) : ~Recent(q) /\ mr[q].tag = FixOf(k).tag
    BY <1>2, <2>1, <2>2, FixFound
  <2>4. Fixes(k)' = Fixes(k) /\ (Recent(q)' <=> Recent(q)) /\ mr'[q] = mr[q]
    BY <1>2 DEF Fixes, Stored, Recent
  <2> QED BY <2>2, <2>3, <2>4
<1>8. NightIsRight'
  BY <1>2, <1>6, <1>7 DEF DoraInv, NightIsRight
<1> QED BY <1>2, <1>5, <1>8, RequestsKept DEF DoraInv

-----------------------------------------------------------------------------
(* The world, failures and the next night *)

LEMMA WorldStep ==
  ASSUME DoraInv, World
  PROVE  DoraInv'
<1>1. UNCHANGED <<stage, failed, release, mr, bug, link, today>>
  BY DEF World, EditTag, EditTitle, EditIssue, Database
<1>2. /\ tags' \in SUBSET Tags /\ titles' \in [Requests -> Keys \cup {None}]
      /\ issue' \in [Keys -> Issues \cup {None}]
  <2>1. ASSUME NEW t \in Tags, EditTag(t) PROVE <1>2
    BY <2>1 DEF EditTag, DoraInv, WarehouseOK
  <2>2. ASSUME NEW q \in Requests, EditTitle(q) PROVE <1>2
    BY <2>2 DEF EditTitle, DoraInv, WarehouseOK
  <2>3. ASSUME NEW k \in Keys, EditIssue(k) PROVE <1>2
    BY <2>3 DEF EditIssue, DoraInv, WarehouseOK
  <2> QED BY <2>1, <2>2, <2>3 DEF World
<1>3. WarehouseOK'
  BY <1>1, <1>2 DEF DoraInv, WarehouseOK
<1>4. NightIsRight'
  BY <1>1 DEF DoraInv, NightIsRight, LinksMatch, FixesExist, CountsForMttr, Fixes, Stored, Recent
<1> QED BY <1>1, <1>3, <1>4, RequestsKept DEF DoraInv

LEMMA StepFailsStep ==
  ASSUME DoraInv, StepFails
  PROVE  DoraInv'
<1>1. /\ UNCHANGED <<tags, titles, issue, today, release, mr, bug, link>>
      /\ failed' \in {"collector", "derivation"}
      /\ stage' \in 1..7
  BY StageNumbers DEF StepFails, world, DoraInv, WarehouseOK
<1>2. WarehouseOK' /\ NightIsRight'
  BY <1>1 DEF DoraInv, WarehouseOK, NightIsRight
<1> QED BY <1>1, <1>2, RequestsKept DEF DoraInv

(* A request that is recent on a later day was so before. *)
LEMMA NextRunStep ==
  ASSUME Constants, DoraInv, NextRun
  PROVE  DoraInv'
<1>1. /\ UNCHANGED <<tags, titles, issue, release, mr, bug, link>>
      /\ stage' = 1 /\ failed' = "nothing"
      /\ today' \in FirstDay..LastDay /\ today' >= today
  BY DEF NextRun, DoraInv, WarehouseOK, Constants, DaysCounted
<1>2. \A q \in Requests : Recent(q)' => Recent(q)
  BY <1>1 DEF Recent, Constants, DaysCounted, DoraInv, WarehouseOK
<1>3. WarehouseOK'
  BY <1>1 DEF DoraInv, WarehouseOK
<1>4. RowsDated' /\ RecentAreReleased' /\ QaIsOfKey' /\ NightIsRight'
  BY <1>1, <1>2 DEF DoraInv, RowsDated, RecentAreReleased, QaIsOfKey, NightIsRight, Stored
<1> QED BY <1>3, <1>4 DEF DoraInv

LEMMA DoraInvHolds ==
  ASSUME Constants
  PROVE  Spec => []DoraInv
<1>1. Init => DoraInv
  BY DEF Init, DoraInv, WarehouseOK, RowsDated, RecentAreReleased, QaIsOfKey, NightIsRight,
         Stored, Constants, DaysCounted
<1>2. DoraInv /\ [Next]_vars => DoraInv'
  <2> SUFFICES ASSUME DoraInv, [Next]_vars
               PROVE  DoraInv'
    OBVIOUS
  <2>1. CASE UNCHANGED vars
    BY <2>1 DEF vars, DoraInv, WarehouseOK, RowsDated, RecentAreReleased, QaIsOfKey, NightIsRight,
                LinksMatch, FixesExist, CountsForMttr, Fixes, Stored, Recent
  <2> QED BY <2>1, WorldStep, CollectGitLabStep, CollectJiraStep, MapBugsStep, ResolveFixesStep,
             HydrateStep, ComputeLeadStep, StepFailsStep, NextRunStep DEF Next
<1> QED BY <1>1, <1>2, PTL DEF Spec

-----------------------------------------------------------------------------
(* Releases, links, requests and the stage of a night keep their types. *)
THEOREM WarehouseTyped ==
  ASSUME Constants
  PROVE  Spec => []TypeOK
<1>1. DoraInv => TypeOK
  <2> SUFFICES ASSUME DoraInv
               PROVE  TypeOK
    OBVIOUS
  <2>1. \A q \in Stored : mr[q].key \in Keys \cup {None} /\ mr[q].tag \in Tags \cup {None}
    BY RowOf DEF DoraInv
  <2>2. Ended = 7
    BY StageNumbers DEF DoraInv, WarehouseOK
  <2> QED BY <2>1, <2>2 DEF DoraInv, WarehouseOK, TypeOK
<1> QED BY <1>1, DoraInvHolds, PTL

(* Recent requests name stored releases to customers that came after the merge, the day
   of QA is that of the issue named now, and a night without failures leaves links and
   fixes that match the tables (gitlab_release_collector.py, jira_bug_collector.py and
   the derivations of sync_pipeline.py). *)
THEOREM WarehouseConsistent ==
  ASSUME Constants
  PROVE  Spec => []DoraConsistent
<1>1. DoraInv => DoraConsistent
  <2> SUFFICES ASSUME DoraInv
               PROVE  DoraConsistent
    OBVIOUS
  <2>1. Ended = 7
    BY StageNumbers DEF DoraInv, WarehouseOK
  <2> QED BY <2>1 DEF DoraInv, DoraConsistent, NightIsRight, CleanNight
<1> QED BY <1>1, DoraInvHolds, PTL

-----------------------------------------------------------------------------
(* The guard against mass deletion *)

LEMMA GuardLeaves ==
  ASSUME IsFiniteSet(Tags), NEW old \in SUBSET Tags, NEW seen \in SUBSET Tags,
         NEW new, new = (old \ Stale(old, seen)) \cup seen
  PROVE  /\ old # {} => new # {}
         /\ Cardinality(old) > GuardAbove => Cardinality(new) >= Cardinality(old) \div 2
<1>1. IsFiniteSet(old) /\ IsFiniteSet(seen) /\ IsFiniteSet(new)
  BY FS_Subset
<1>2. /\ Cardinality(old) \in Nat /\ Cardinality(seen) \in Nat /\ Cardinality(new) \in Nat
  BY <1>1, FS_CardinalityType
<1>3. CASE Stale(old, seen) = {}
  <2>1. old \subseteq new
    BY <1>3
  <2>2. Cardinality(old) <= Cardinality(new)
    BY <1>1, <2>1, FS_Subset
  <2>3. ASSUME NEW a \in Nat, NEW b \in Nat, a <= b PROVE b >= a \div 2
    BY <2>3
  <2> QED BY <1>2, <2>1, <2>2, <2>3
<1>4. CASE Stale(old, seen) # {}
  <2>1. /\ seen # {}
        /\ ~(Cardinality(old) > GuardAbove /\ Cardinality(seen) < Cardinality(old) \div 2)
    BY <1>4 DEF Stale
  <2>2. seen \subseteq new
    OBVIOUS
  <2>3. Cardinality(seen) <= Cardinality(new)
    BY <1>1, <2>2, FS_Subset
  <2>4. ASSUME NEW a \in Nat, NEW s \in Nat, NEW n \in Nat, ~(s < a \div 2), s <= n
        PROVE  n >= a \div 2
    BY <2>4
  <2>5. ASSUME Cardinality(old) > GuardAbove PROVE Cardinality(new) >= Cardinality(old) \div 2
    <3>1. ~(Cardinality(seen) < Cardinality(old) \div 2)
      BY <2>1, <2>5
    <3> QED BY <1>2, <2>3, <2>4, <3>1
  <2> QED BY <2>1, <2>2, <2>5
<1> QED BY <1>3, <1>4

(* However incomplete an answer of GitLab, a collection leaves a release where there was
   one, and half as many as before once the guard applies; and a request known before it,
   whose release was known as well, has one after it (_reconcile_repository_releases and
   _map_merge_requests_to_customer_releases). *)
THEOREM ReleasesStay ==
  ASSUME Constants, IsFiniteSet(Tags)
  PROVE  Spec => ReleasesAreKept
<1>1. DoraInv /\ [Next]_vars => [LeavesHalf /\ MapsWhatIsKnown]_vars
  <2> SUFFICES ASSUME DoraInv, Next
               PROVE  LeavesHalf /\ MapsWhatIsKnown
    OBVIOUS
  <2>1. ASSUME UNCHANGED release
        PROVE  LeavesHalf
    <3>1. IsFiniteSet(release)
      BY FS_Subset DEF DoraInv, WarehouseOK
    <3>2. Cardinality(release) \in Nat
      BY <3>1, FS_CardinalityType
    <3>3. ASSUME NEW a \in Nat PROVE a >= a \div 2
      BY <3>3
    <3>4. Cardinality(release) >= Cardinality(release) \div 2
      BY <3>2, <3>3
    <3> QED BY <2>1, <3>4 DEF LeavesHalf
  <2>2. CASE CollectGitLab
    <3>1. PICK seen \in Fetched : release' = (release \ Stale(release, seen)) \cup seen
      BY <2>2, CollectionOf
    <3>2. seen \in SUBSET Tags /\ release \in SUBSET Tags
      BY DEF Fetched, DoraInv, WarehouseOK
    <3>3. LeavesHalf
      BY <3>1, <3>2, GuardLeaves DEF LeavesHalf
    <3>4. MapsWhatIsKnown
      BY <2>2, CollectGitLabStep DEF MapsWhatIsKnown
    <3> QED BY <3>3, <3>4
  <2>3. CASE ~CollectGitLab
    <3>1. UNCHANGED release
      BY <2>3 DEF Next, World, EditTag, EditTitle, EditIssue, Database, CollectJira, MapBugs,
                  ResolveFixes, Hydrate, ComputeLead, StepFails, NextRun
    <3>2. LeavesHalf
      BY <2>1, <3>1
    <3>3. ~(At("gitlab") /\ failed' = "nothing" /\ stage' # stage)
      <4> SUFFICES ASSUME At("gitlab"), failed' = "nothing", stage' # stage
                   PROVE  FALSE
        OBVIOUS
      <4>1. stage = 1
        BY StageNumbers DEF DoraInv, WarehouseOK
      <4>2. ~CollectJira /\ ~MapBugs /\ ~ResolveFixes /\ ~Hydrate /\ ~ComputeLead
        <5>1. ~At("jira") /\ ~At("map") /\ ~At("fix") /\ ~At("hydrate") /\ ~At("lead")
          BY <4>1, StageNumbers DEF DoraInv, WarehouseOK
        <5> QED BY <5>1 DEF CollectJira, MapBugs, ResolveFixes, Hydrate, ComputeLead
      <4>3. ~NextRun
        BY <4>1, StageNumbers DEF NextRun, DoraInv, WarehouseOK
      <4>4. ~World
        BY DEF World, EditTag, EditTitle, EditIssue, Database
      <4>5. ~StepFails
        BY DEF StepFails, At, Derivations
      <4> QED BY <2>3, <4>2, <4>3, <4>4, <4>5 DEF Next
    <3>4. MapsWhatIsKnown
      BY <3>3 DEF MapsWhatIsKnown
    <3> QED BY <3>2, <3>4
  <2> QED BY <2>2, <2>3
<1> QED BY <1>1, DoraInvHolds, PTL DEF Spec, ReleasesAreKept
-----------------------------------------------------------------------------
(* The figures of several repositories are computed from such tables: the windows of  *)
(* weeks, months and quarters of any calendar, and the rows a refresh writes for them. *)
CONSTANTS Repos, RepoOf, Shape, Bugs, Bug, Streams, WeekDays, MonthStarts, Horizon,
          VersionOf, Path, Bins, Horizons, Worklogs, ByAccount, ByAuthor, Denied
VARIABLES released, shipped, linked, fixed, closed, rows, fresh

Figures == INSTANCE ReleaseViews
-----------------------------------------------------------------------------
(* What a later place is defined from exists. *)
JumpsAhead(next, N) == \A c \in 0..N - 1 : next[c] \in (c + 1)..N
JumpsKeep(step, V, N) == \A c \in 0..N - 1 : \A v \in V : step[c][v] \in V
JumpsFollow(g, last, next, step, V, N) ==
  g \in [0..N -> V] /\ g[N] = last /\ \A c \in 0..N - 1 : g[c] = step[c][g[next[c]]]

LEMMA JumpsExist ==
  ASSUME NEW N \in Nat, NEW V, NEW last \in V, NEW next, JumpsAhead(next, N),
         NEW step, JumpsKeep(step, V, N)
  PROVE  \E g : JumpsFollow(g, last, next, step, V, N)
<1> USE DEF JumpsAhead, JumpsKeep
<1> DEFINE Back(g, n) == /\ g \in [(N - n)..N -> V] /\ g[N] = last
                         /\ \A c \in (N - n)..(N - 1) : g[c] = step[c][g[next[c]]]
           defined == {n \in 0..N : \E g : Back(g, n)}
<1>1. 0 \in defined
  <2>1. Back([c \in (N - 0)..N |-> last], 0)
    OBVIOUS
  <2> HIDE DEF Back
  <2> QED BY <2>1
<1>2. ASSUME NEW n \in 1..N, n - 1 \in defined PROVE n \in defined
  <2>1. PICK g : Back(g, n - 1)
    BY <1>2
  <2> DEFINE m == N - n
             h == [c \in m..N |-> IF c = m THEN step[m][g[next[m]]] ELSE g[c]]
  <2>2. m \in 0..N - 1 /\ next[m] \in (N - (n - 1))..N
    OBVIOUS
  <2>3. g[next[m]] \in V
    BY <2>1, <2>2
  <2>4. step[m][g[next[m]]] \in V
    BY <2>2, <2>3
  <2>5. h \in [m..N -> V] /\ h[N] = last
    BY <2>1, <2>2, <2>4
  <2>6. ASSUME NEW c \in m..(N - 1) PROVE h[c] = step[c][h[next[c]]]
    <3>1. next[c] \in (c + 1)..N /\ next[c] # m /\ next[c] \in m..N
      BY <2>2
    <3>2. h[next[c]] = g[next[c]]
      BY <3>1
    <3>3. CASE c = m
      BY <2>2, <3>2, <3>3
    <3>4. CASE c # m
      <4>1. c \in (N - (n - 1))..(N - 1)
        BY <3>4
      <4>2. g[c] = step[c][g[next[c]]]
        BY <2>1, <4>1
      <4> QED BY <3>2, <3>4, <4>2
    <3> QED BY <3>3, <3>4
  <2>7. Back(h, n)
    BY <2>5, <2>6
  <2> HIDE DEF Back, h
  <2> QED BY <2>7
<1>3. 0..N \subseteq defined
  <2> HIDE DEF defined
  <2> QED BY <1>1, <1>2, Climbs
<1>4. PICK g : Back(g, N)
  <2>1. N \in defined
    BY <1>3
  <2> HIDE DEF Back
  <2> QED BY <2>1
<1>5. JumpsFollow(g, last, next, step, V, N)
  BY <1>4 DEF JumpsFollow
<1> QED BY <1>5
-----------------------------------------------------------------------------
(* The calendar *)

(* Days are counted from the first of a quarter, and the months that are numbered reach
   a quarter beyond the last day. *)
Calendar ==
    /\ LastDay \in Nat /\ Lookback \in Nat /\ WeekDays \in Nat \ {0}
    /\ MonthStarts \in Seq(Nat) /\ MonthStarts # <<>> /\ MonthStarts[1] = 0
    /\ \A m, n \in DOMAIN MonthStarts : m < n => MonthStarts[m] < MonthStarts[n]
    /\ \A n \in DOMAIN MonthStarts : MonthStarts[n] =< LastDay => n + 3 \in DOMAIN MonthStarts
    /\ None \notin Int

InMonth(d, n) ==
    /\ n \in DOMAIN MonthStarts /\ MonthStarts[n] =< d
    /\ \A k \in DOMAIN MonthStarts : MonthStarts[k] =< d => k =< n

LEMMA MonthNumbers ==
  ASSUME Calendar
  PROVE  /\ DOMAIN MonthStarts = 1..Len(MonthStarts) /\ Len(MonthStarts) \in Nat
         /\ 1 \in DOMAIN MonthStarts
         /\ \A n \in DOMAIN MonthStarts : n \in Nat /\ n >= 1 /\ MonthStarts[n] \in Nat
  BY DEF Calendar

LEMMA MonthIs ==
  ASSUME Calendar, NEW d \in Nat, NEW n, InMonth(d, n)
  PROVE  Figures!MonthOf(d) = n
<1> DEFINE S == {k \in DOMAIN MonthStarts : MonthStarts[k] =< d}
<1>1. n \in S /\ \A k \in S : n >= k
  BY MonthNumbers DEF InMonth
<1>2. \A x \in S : (\A y \in S : x >= y) => x = n
  BY <1>1, MonthNumbers
<1>3. Figures!Max(S) = n
  <2> HIDE DEF S
  <2> QED BY <1>1, <1>2 DEF Figures!Max
<1> QED BY <1>3 DEF Figures!MonthOf

LEMMA MonthExists ==
  ASSUME Calendar, NEW d \in Nat
  PROVE  InMonth(d, Figures!MonthOf(d))
<1> DEFINE S == {k \in DOMAIN MonthStarts : MonthStarts[k] =< d}
<1>1. S \in SUBSET Nat /\ 1 \in S
  BY MonthNumbers DEF Calendar
<1>2. IsFiniteSet(S)
  <2>1. 1 \in Int /\ Len(MonthStarts) \in Int
    BY MonthNumbers
  <2>2. IsFiniteSet(1..Len(MonthStarts))
    BY <2>1, FS_Interval, Zenon
  <2>3. S \subseteq 1..Len(MonthStarts)
    BY MonthNumbers
  <2> HIDE DEF S
  <2> QED BY <2>2, <2>3, FS_Subset
<1>3. PICK n \in S : \A k \in S : n >= k
  <2> HIDE DEF S
  <2> QED BY <1>1, <1>2, GreatestExists
<1>4. InMonth(d, n)
  BY <1>3, MonthNumbers DEF InMonth
<1> QED BY <1>4, MonthIs

LEMMA MonthOfStart ==
  ASSUME Calendar, NEW n \in DOMAIN MonthStarts
  PROVE  Figures!MonthOf(MonthStarts[n]) = n
<1>1. ASSUME NEW k \in DOMAIN MonthStarts, MonthStarts[k] =< MonthStarts[n] PROVE k =< n
  <2>1. n \in Nat /\ k \in Nat /\ MonthStarts[n] \in Nat /\ MonthStarts[k] \in Nat
    BY MonthNumbers
  <2>2. SUFFICES ASSUME n < k PROVE FALSE
    BY <2>1
  <2>3. MonthStarts[n] < MonthStarts[k]
    BY <2>2 DEF Calendar
  <2> QED BY <1>1, <2>1, <2>3
<1>2. InMonth(MonthStarts[n], n) /\ MonthStarts[n] \in Nat
  BY <1>1, MonthNumbers DEF InMonth
<1> QED BY <1>2, MonthIs

LEMMA NextStart ==
  ASSUME Calendar, NEW n \in DOMAIN MonthStarts
  PROVE  Figures!NextMonth(MonthStarts[n]) = MonthStarts[n + 1]
  BY MonthOfStart DEF Figures!NextMonth
-----------------------------------------------------------------------------
(* Windows of a type follow each other without a gap. *)

Begins(type, c) ==
    \/ type = "WEEK" /\ \E q \in Nat : c = WeekDays * q
    \/ type = "MONTH" /\ \E n \in DOMAIN MonthStarts : c = MonthStarts[n]
    \/ type = "QUARTER" /\ \E n \in DOMAIN MonthStarts : n % 3 = 1 /\ c = MonthStarts[n]

LEMMA MonthsAhead ==
  ASSUME Calendar, NEW c \in 0..LastDay
  PROVE  /\ LET n == Figures!MonthOf(c)
            IN  /\ n \in DOMAIN MonthStarts /\ n + 1 \in DOMAIN MonthStarts
                /\ n + 2 \in DOMAIN MonthStarts /\ n + 3 \in DOMAIN MonthStarts
                /\ MonthStarts[n] =< c /\ c < MonthStarts[n + 1]
                /\ MonthStarts[n + 1] < MonthStarts[n + 2] /\ MonthStarts[n + 2] < MonthStarts[n + 3]
                /\ Figures!NextPeriodStart("MONTH", c) = MonthStarts[n + 1]
                /\ Figures!NextPeriodStart("QUARTER", c) = MonthStarts[n + 3]
<1> DEFINE n == Figures!MonthOf(c)
<1>1. InMonth(c, n)
  BY MonthExists DEF Calendar
<1>2. n \in DOMAIN MonthStarts /\ MonthStarts[n] =< c /\ n \in Nat /\ n >= 1
  BY <1>1, MonthNumbers DEF InMonth
<1>3. n + 3 \in DOMAIN MonthStarts
  <2>1. MonthStarts[n] =< LastDay
    BY <1>2, MonthNumbers DEF Calendar
  <2> HIDE DEF n
  <2> QED BY <1>2, <2>1 DEF Calendar
<1>4. n + 1 \in DOMAIN MonthStarts /\ n + 2 \in DOMAIN MonthStarts
  <2> HIDE DEF n
  <2> QED BY <1>2, <1>3, MonthNumbers
<1>5. c < MonthStarts[n + 1]
  <2> HIDE DEF n
  <2>1. ~(n + 1 =< n)
    BY <1>2
  <2>2. ~(MonthStarts[n + 1] =< c)
    BY <1>1, <1>4, <2>1 DEF InMonth
  <2> QED BY <1>4, <2>2, MonthNumbers
<1>6. MonthStarts[n + 1] < MonthStarts[n + 2] /\ MonthStarts[n + 2] < MonthStarts[n + 3]
  <2> HIDE DEF n
  <2>1. n + 1 < n + 2 /\ n + 2 < n + 3
    BY <1>2
  <2> QED BY <1>3, <1>4, <2>1 DEF Calendar
<1>7. Figures!NextMonth(c) = MonthStarts[n + 1]
  BY DEF Figures!NextMonth
<1>8. Figures!NextPeriodStart("MONTH", c) = MonthStarts[n + 1]
  BY <1>7 DEF Figures!NextPeriodStart
<1>9. Figures!NextPeriodStart("QUARTER", c) = MonthStarts[n + 3]
  <2> HIDE DEF n
  <2>1. Figures!NextMonth(MonthStarts[n + 1]) = MonthStarts[(n + 1) + 1]
    BY <1>4, NextStart
  <2>2. Figures!NextMonth(MonthStarts[n + 2]) = MonthStarts[(n + 2) + 1]
    BY <1>4, NextStart
  <2>3. (n + 1) + 1 = n + 2 /\ (n + 2) + 1 = n + 3
    BY <1>2
  <2> QED BY <1>7, <2>1, <2>2, <2>3 DEF Figures!NextPeriodStart
<1> QED BY <1>2, <1>3, <1>4, <1>5, <1>6, <1>8, <1>9

LEMMA DivBounds ==
  ASSUME NEW a \in Nat, NEW b \in Nat \ {0}
  PROVE  /\ a \div b \in Nat /\ a % b \in 0..(b - 1)
         /\ a = b * (a \div b) + (a % b)
<1>1. a \div b \in Nat
  OBVIOUS
<1>2. a % b \in 0..(b - 1)
  OBVIOUS
<1>3. a = b * (a \div b) + (a % b)
  OBVIOUS
<1> QED BY <1>1, <1>2, <1>3

LEMMA NextAhead ==
  ASSUME Calendar, NEW type \in Figures!Types, NEW c \in 0..LastDay
  PROVE  /\ Figures!NextPeriodStart(type, c) \in Nat
         /\ Figures!NextPeriodStart(type, c) > c
<1>1. CASE type = "WEEK"
  <2>1. Figures!NextPeriodStart(type, c) = c + WeekDays
    BY <1>1 DEF Figures!NextPeriodStart
  <2> QED BY <2>1 DEF Calendar
<1>2. CASE type = "MONTH"
  <2> HIDE DEF Calendar
  <2> DEFINE n == Figures!MonthOf(c)
  <2>1. /\ n + 1 \in DOMAIN MonthStarts /\ c < MonthStarts[n + 1]
        /\ Figures!NextPeriodStart(type, c) = MonthStarts[n + 1]
    BY <1>2, MonthsAhead
  <2> HIDE DEF n
  <2> QED BY <2>1, MonthNumbers
<1>3. CASE type = "QUARTER"
  <2> DEFINE n == Figures!MonthOf(c)
  <2>1. /\ n + 1 \in DOMAIN MonthStarts /\ n + 2 \in DOMAIN MonthStarts /\ n + 3 \in DOMAIN MonthStarts
        /\ c < MonthStarts[n + 1]
        /\ MonthStarts[n + 1] < MonthStarts[n + 2] /\ MonthStarts[n + 2] < MonthStarts[n + 3]
        /\ Figures!NextPeriodStart(type, c) = MonthStarts[n + 3]
    BY <1>3, MonthsAhead
  <2> HIDE DEF n
  <2> QED BY <2>1, MonthNumbers
<1> QED BY <1>1, <1>2, <1>3 DEF Figures!Types

LEMMA Weeks ==
  ASSUME NEW w \in Nat \ {0}, NEW q \in Nat, NEW k \in Nat
  PROVE  /\ w * q \in Nat /\ w * (q + 1) = w * q + w
         /\ w * k > w * q => w * k >= w * (q + 1)
<1>1. w * q \in Nat /\ w * k \in Nat /\ w * (q + 1) = w * q + w
  OBVIOUS
<1>2. ASSUME w * k > w * q, k < q + 1 PROVE FALSE
  <2>1. k =< q
    BY <1>2
  <2>2. w * k =< w * q
    BY <2>1
  <2> QED BY <1>1, <1>2, <2>2
<1>3. ASSUME k >= q + 1 PROVE w * k >= w * (q + 1)
  BY <1>3
<1> QED BY <1>1, <1>2, <1>3

LEMMA WeekEnds ==
  ASSUME Calendar, NEW c \in 0..LastDay, Begins("WEEK", c)
  PROVE  /\ Figures!PeriodEnd("WEEK", c) = Figures!NextPeriodStart("WEEK", c) - 1
         /\ Begins("WEEK", Figures!NextPeriodStart("WEEK", c))
         /\ \A e \in Nat : Begins("WEEK", e) /\ e > c => e >= Figures!NextPeriodStart("WEEK", c)
<1>1. PICK q \in Nat : c = WeekDays * q
  BY DEF Begins
<1>2. WeekDays \in Nat \ {0}
  BY DEF Calendar
<1>3. Figures!NextPeriodStart("WEEK", c) = c + WeekDays /\ Figures!PeriodEnd("WEEK", c) = c + WeekDays - 1
  BY DEF Figures!NextPeriodStart, Figures!PeriodEnd
<1>4. c + WeekDays = WeekDays * (q + 1) /\ q + 1 \in Nat
  BY <1>1, <1>2, Weeks
<1>5. Begins("WEEK", c + WeekDays)
  BY <1>4 DEF Begins
<1>6. ASSUME NEW e \in Nat, Begins("WEEK", e), e > c PROVE e >= c + WeekDays
  <2>1. PICK k \in Nat : e = WeekDays * k
    BY <1>6 DEF Begins
  <2> QED BY <1>1, <1>2, <1>4, <1>6, <2>1, Weeks
<1> QED BY <1>2, <1>3, <1>5, <1>6

LEMMA MonthOrder ==
  ASSUME Calendar, NEW m \in DOMAIN MonthStarts, NEW n \in DOMAIN MonthStarts
  PROVE  MonthStarts[m] < MonthStarts[n] <=> m < n
<1>1. m \in Nat /\ n \in Nat /\ MonthStarts[m] \in Nat /\ MonthStarts[n] \in Nat
  BY MonthNumbers
<1>2. m < n => MonthStarts[m] < MonthStarts[n]
  BY DEF Calendar
<1>3. n < m => MonthStarts[n] < MonthStarts[m]
  BY DEF Calendar
<1>4. n = m => MonthStarts[n] = MonthStarts[m]
  OBVIOUS
<1> QED BY <1>1, <1>2, <1>3, <1>4

LEMMA MonthEnds ==
  ASSUME Calendar, NEW c \in 0..LastDay, Begins("MONTH", c)
  PROVE  /\ Figures!PeriodEnd("MONTH", c) = Figures!NextPeriodStart("MONTH", c) - 1
         /\ Begins("MONTH", Figures!NextPeriodStart("MONTH", c))
         /\ \A e \in Nat : Begins("MONTH", e) /\ e > c => e >= Figures!NextPeriodStart("MONTH", c)
<1>1. PICK n \in DOMAIN MonthStarts : c = MonthStarts[n]
  BY DEF Begins
<1>2. Figures!MonthOf(c) = n
  BY <1>1, MonthOfStart
<1>3. n + 1 \in DOMAIN MonthStarts /\ Figures!NextPeriodStart("MONTH", c) = MonthStarts[n + 1]
  BY <1>2, MonthsAhead
<1>4. Figures!PeriodEnd("MONTH", c) = Figures!NextPeriodStart("MONTH", c) - 1
  BY DEF Figures!PeriodEnd, Figures!NextPeriodStart
<1>5. Begins("MONTH", Figures!NextPeriodStart("MONTH", c))
  BY <1>3 DEF Begins
<1>6. ASSUME NEW e \in Nat, Begins("MONTH", e), e > c PROVE e >= MonthStarts[n + 1]
  <2>1. PICK k \in DOMAIN MonthStarts : e = MonthStarts[k]
    BY <1>6 DEF Begins
  <2>2. n < k
    BY <1>1, <1>6, <2>1, MonthOrder
  <2>3. n \in Nat /\ k \in Nat
    BY MonthNumbers
  <2>4. ~(k < n + 1)
    BY <2>2, <2>3
  <2>5. ~(MonthStarts[k] < MonthStarts[n + 1])
    BY <1>3, <2>4, MonthOrder
  <2> QED BY <1>3, <2>1, <2>5, MonthNumbers
<1> QED BY <1>3, <1>4, <1>5, <1>6

LEMMA QuarterEnds ==
  ASSUME Calendar, NEW c \in 0..LastDay, Begins("QUARTER", c)
  PROVE  /\ Figures!PeriodEnd("QUARTER", c) = Figures!NextPeriodStart("QUARTER", c) - 1
         /\ Begins("QUARTER", Figures!NextPeriodStart("QUARTER", c))
         /\ \A e \in Nat : Begins("QUARTER", e) /\ e > c => e >= Figures!NextPeriodStart("QUARTER", c)
<1>1. PICK n \in DOMAIN MonthStarts : n % 3 = 1 /\ c = MonthStarts[n]
  BY DEF Begins
<1>2. Figures!MonthOf(c) = n
  BY <1>1, MonthOfStart
<1>3. /\ n + 2 \in DOMAIN MonthStarts /\ n + 3 \in DOMAIN MonthStarts
      /\ Figures!NextPeriodStart("QUARTER", c) = MonthStarts[n + 3]
  BY <1>2, MonthsAhead
<1>4. n \in Nat
  BY MonthNumbers
<1>5. Figures!PeriodEnd("QUARTER", c) = Figures!NextPeriodStart("QUARTER", c) - 1
  <2>1. Figures!NextMonth(MonthStarts[n + 2]) = MonthStarts[(n + 2) + 1]
    BY <1>3, NextStart
  <2>2. (n + 2) + 1 = n + 3
    BY <1>4
  <2> QED BY <1>2, <1>3, <2>1, <2>2 DEF Figures!PeriodEnd
<1>6. Begins("QUARTER", Figures!NextPeriodStart("QUARTER", c))
  <2>1. (n + 3) % 3 = 1
    BY <1>1, <1>4
  <2> QED BY <1>3, <2>1 DEF Begins
<1>7. ASSUME NEW e \in Nat, Begins("QUARTER", e), e > c PROVE e >= MonthStarts[n + 3]
  <2>1. PICK k \in DOMAIN MonthStarts : k % 3 = 1 /\ e = MonthStarts[k]
    BY <1>7 DEF Begins
  <2>2. n < k
    BY <1>1, <1>7, <2>1, MonthOrder
  <2>3. k \in Nat
    BY MonthNumbers
  <2>4. ~(k < n + 3)
    BY <1>1, <1>4, <2>1, <2>2, <2>3
  <2>5. ~(MonthStarts[k] < MonthStarts[n + 3])
    BY <1>3, <2>4, MonthOrder
  <2> QED BY <1>3, <2>1, <2>5, MonthNumbers
<1> QED BY <1>3, <1>5, <1>6, <1>7

(* The period of a day begins at it or before. *)
LEMMA PeriodBegins ==
  ASSUME Calendar, NEW type \in Figures!Types, NEW d \in 0..LastDay
  PROVE  Figures!PeriodStart(type, d) \in 0..d /\ Begins(type, Figures!PeriodStart(type, d))
<1>1. CASE type = "WEEK"
  <2>1. Figures!PeriodStart(type, d) = d - (d % WeekDays)
    BY <1>1 DEF Figures!PeriodStart
  <2>2. WeekDays \in Nat \ {0} /\ d \in Nat
    BY DEF Calendar
  <2>3. d \div WeekDays \in Nat /\ d % WeekDays \in 0..(WeekDays - 1)
        /\ d = WeekDays * (d \div WeekDays) + (d % WeekDays)
    BY <2>2, DivBounds, Zenon
  <2>4. WeekDays * (d \div WeekDays) \in Nat
    BY <2>2, <2>3
  <2>5. d - (d % WeekDays) = WeekDays * (d \div WeekDays)
    BY <2>2, <2>3, <2>4
  <2>6. d - (d % WeekDays) \in 0..d
    <3> DEFINE r == d % WeekDays
    <3>1. r \in Nat /\ d - r \in Nat
      BY <2>2, <2>3, <2>4, <2>5
    <3> HIDE DEF r
    <3>2. d - r \in 0..d
      BY <2>2, <3>1
    <3> QED BY <3>2 DEF r
  <2>7. Begins("WEEK", d - (d % WeekDays))
    BY <2>3, <2>5 DEF Begins
  <2> QED BY <1>1, <2>1, <2>6, <2>7
<1>2. CASE type # "WEEK"
  <2> DEFINE n == Figures!MonthOf(d)
             q == ((n - 1) \div 3) * 3 + 1
  <2>1. n \in DOMAIN MonthStarts /\ MonthStarts[n] =< d
    BY MonthExists DEF InMonth
  <2>2. n \in Nat /\ n >= 1 /\ MonthStarts[n] \in Nat /\ n =< Len(MonthStarts)
    BY <2>1, MonthNumbers
  <2> HIDE DEF n
  <2>3. q \in 1..n /\ q % 3 = 1
    BY <2>2
  <2>4. q \in DOMAIN MonthStarts /\ MonthStarts[q] \in Nat
    BY <2>2, <2>3, MonthNumbers
  <2>5. MonthStarts[q] =< MonthStarts[n]
    <3> HIDE DEF q
    <3>1. ~(n < q)
      BY <2>2, <2>3
    <3>2. ~(MonthStarts[n] < MonthStarts[q])
      BY <2>1, <2>4, <3>1, MonthOrder
    <3> QED BY <2>2, <2>4, <3>2
  <2>6. CASE type = "MONTH"
    <3>1. Figures!PeriodStart(type, d) = MonthStarts[n]
      BY <2>6 DEF Figures!PeriodStart, n
    <3> QED BY <2>1, <2>2, <2>6, <3>1 DEF Begins
  <2>7. CASE type = "QUARTER"
    <3>1. Figures!PeriodStart(type, d) = MonthStarts[q]
      BY <2>7 DEF Figures!PeriodStart, n
    <3> HIDE DEF q
    <3>2. MonthStarts[q] \in 0..d
      BY <2>1, <2>2, <2>4, <2>5
    <3> QED BY <2>3, <2>4, <2>7, <3>1, <3>2 DEF Begins
  <2> QED BY <1>2, <2>6, <2>7 DEF Figures!Types
<1> QED BY <1>1, <1>2

-----------------------------------------------------------------------------
(* The windows from a day on *)

Win(type, c) == [start |-> c, end |-> Figures!PeriodEnd(type, c)]
Ahead(type, c) == Figures!Min({LastDay + 1, Figures!NextPeriodStart(type, c)})
WindowsFrom(g, type, to, c) == IF c > to THEN {} ELSE {Win(type, c)} \cup g[Ahead(type, c)]
IsCursor(g, type, to) == g = [c \in 0..LastDay + 1 |-> WindowsFrom(g, type, to, c)]

LEMMA LesserOfTwo ==
  ASSUME NEW a \in Int, NEW b \in Int
  PROVE  Figures!Min({a, b}) = IF a =< b THEN a ELSE b
<1> DEFINE m == IF a =< b THEN a ELSE b
<1>1. m \in {a, b} /\ \A y \in {a, b} : m =< y
  OBVIOUS
<1>2. \A x \in {a, b} : (\A y \in {a, b} : x =< y) => x = m
  OBVIOUS
<1> HIDE DEF m
<1>3. Figures!Min({a, b}) = m
  BY <1>1, <1>2 DEF Figures!Min
<1> QED BY <1>3 DEF m

LEMMA AheadIs ==
  ASSUME Calendar, NEW type \in Figures!Types, NEW c \in 0..LastDay
  PROVE  /\ Ahead(type, c) \in (c + 1)..(LastDay + 1)
         /\ \/ Ahead(type, c) = Figures!NextPeriodStart(type, c)
            \/ Ahead(type, c) = LastDay + 1 /\ Figures!NextPeriodStart(type, c) > LastDay
<1> DEFINE n == Figures!NextPeriodStart(type, c)
<1>1. n \in Nat /\ n > c
  BY NextAhead
<1>2. LastDay \in Nat
  BY DEF Calendar
<1> HIDE DEF n
<1>3. Figures!Min({LastDay + 1, n}) = IF LastDay + 1 =< n THEN LastDay + 1 ELSE n
  BY <1>1, <1>2, LesserOfTwo
<1>4. Ahead(type, c) = IF LastDay + 1 =< n THEN LastDay + 1 ELSE n
  BY <1>3 DEF Ahead, n
<1>5. /\ Ahead(type, c) \in (c + 1)..(LastDay + 1)
      /\ \/ Ahead(type, c) = n
         \/ Ahead(type, c) = LastDay + 1 /\ n > LastDay
  BY <1>1, <1>2, <1>4
<1> QED BY <1>5 DEF n

LEMMA CursorExists ==
  ASSUME Calendar, NEW type \in Figures!Types, NEW to \in 0..LastDay
  PROVE  \E g : IsCursor(g, type, to)
<1> DEFINE N == LastDay + 1
           V == SUBSET {Win(type, c) : c \in 0..LastDay}
           next == [c \in 0..LastDay |-> Ahead(type, c)]
           step == [c \in 0..LastDay |-> [v \in V |-> IF c > to THEN {} ELSE {Win(type, c)} \cup v]]
<1>1. N \in Nat /\ {} \in V /\ 0..N - 1 = 0..LastDay
  BY DEF Calendar
<1>2. \A c \in 0..LastDay : next[c] = Ahead(type, c) /\ next[c] \in (c + 1)..N
  BY AheadIs
<1>3. \A c \in 0..LastDay : \A v \in V :
         step[c][v] = (IF c > to THEN {} ELSE {Win(type, c)} \cup v) /\ step[c][v] \in V
  OBVIOUS
<1> HIDE DEF V, next, step, N
<1>4. JumpsAhead(next, N)
  BY <1>1, <1>2 DEF JumpsAhead
<1>5. JumpsKeep(step, V, N)
  BY <1>1, <1>3 DEF JumpsKeep
<1>6. \E g : JumpsFollow(g, {}, next, step, V, N)
  BY <1>1, <1>4, <1>5, JumpsExist
<1>7. PICK g : JumpsFollow(g, {}, next, step, V, N)
  BY <1>6
<1>8. /\ g \in [0..N -> V] /\ g[N] = {}
      /\ \A c \in 0..LastDay : g[c] = step[c][g[next[c]]]
  BY <1>1, <1>7 DEF JumpsFollow
<1>9. ASSUME NEW c \in 0..N PROVE g[c] = WindowsFrom(g, type, to, c)
  <2>1. CASE c = N
    <3>1. c > to
      BY <2>1 DEF N, Calendar
    <3> QED BY <1>8, <2>1, <3>1 DEF WindowsFrom
  <2>2. CASE c # N
    <3>1. c \in 0..LastDay
      BY <2>2 DEF N, Calendar
    <3>2. next[c] \in 0..N
      BY <1>1, <1>2, <3>1
    <3>3. g[next[c]] \in V
      BY <1>8, <3>2
    <3>4. step[c][g[next[c]]] = IF c > to THEN {} ELSE {Win(type, c)} \cup g[next[c]]
      BY <1>3, <3>1, <3>3
    <3> QED BY <1>2, <1>8, <3>1, <3>4 DEF WindowsFrom
  <2> QED BY <2>1, <2>2
<1>10. g = [c \in 0..N |-> WindowsFrom(g, type, to, c)]
  BY <1>8, <1>9
<1> QED BY <1>10 DEF IsCursor, N

LEMMA BuiltByCursor ==
  ASSUME Calendar, NEW type \in Figures!Types, NEW to \in 0..LastDay, NEW from
  PROVE  \E g : /\ IsCursor(g, type, to)
                /\ Figures!BuildWindows(type, from, to) = g[Figures!PeriodStart(type, from)]
<1> DEFINE found == CHOOSE g : IsCursor(g, type, to)
<1>1. IsCursor(found, type, to)
  BY CursorExists
<1>2. Figures!BuildWindows(type, from, to) = found[Figures!PeriodStart(type, from)]
  BY DEF Figures!BuildWindows, IsCursor, WindowsFrom, Win, Ahead
<1> HIDE DEF found
<1> QED BY <1>1, <1>2

(* A window of the calendar *)
Aligned(w, type) ==
    /\ w.start \in 0..LastDay /\ Begins(type, w.start)
    /\ w = Win(type, w.start) /\ w.end \in Nat

LEMMA WindowOfStart ==
  ASSUME Calendar, NEW type \in Figures!Types, NEW c \in 0..LastDay, Begins(type, c)
  PROVE  /\ Win(type, c).start = c
         /\ Win(type, c).end = Figures!NextPeriodStart(type, c) - 1
         /\ c =< Win(type, c).end
         /\ Aligned(Win(type, c), type)
         /\ Begins(type, Figures!NextPeriodStart(type, c))
         /\ \A e \in Nat : Begins(type, e) /\ e > c => e >= Figures!NextPeriodStart(type, c)
<1>1. Win(type, c).start = c /\ Win(type, c).end = Figures!PeriodEnd(type, c)
  BY DEF Win
<1>2. /\ Figures!PeriodEnd(type, c) = Figures!NextPeriodStart(type, c) - 1
      /\ Begins(type, Figures!NextPeriodStart(type, c))
      /\ \A e \in Nat : Begins(type, e) /\ e > c => e >= Figures!NextPeriodStart(type, c)
  BY WeekEnds, MonthEnds, QuarterEnds DEF Figures!Types
<1>3. Figures!NextPeriodStart(type, c) \in Nat /\ Figures!NextPeriodStart(type, c) > c
  BY NextAhead
<1>4. c =< Figures!NextPeriodStart(type, c) - 1 /\ Figures!NextPeriodStart(type, c) - 1 \in Nat
  BY <1>3
<1> QED BY <1>1, <1>2, <1>3, <1>4 DEF Aligned

(* Two windows of a type are one, or one is over before the other begins. *)
LEMMA WindowsApart ==
  ASSUME Calendar, NEW type \in Figures!Types, NEW v, NEW w, Aligned(v, type), Aligned(w, type)
  PROVE  /\ v.start =< v.end /\ w.start =< w.end
         /\ v.start = w.start => v = w
         /\ v.start < w.start => v.end < w.start
         /\ w.start < v.start => w.end < v.start
<1>1. v = Win(type, v.start) /\ w = Win(type, w.start) /\ v.start \in 0..LastDay /\ w.start \in 0..LastDay
      /\ Begins(type, v.start) /\ Begins(type, w.start) /\ v.end \in Nat /\ w.end \in Nat
  BY DEF Aligned
<1>2. /\ v.end = Figures!NextPeriodStart(type, v.start) - 1 /\ v.start =< v.end
      /\ \A e \in Nat : Begins(type, e) /\ e > v.start => e >= Figures!NextPeriodStart(type, v.start)
      /\ Figures!NextPeriodStart(type, v.start) \in Nat
  BY <1>1, WindowOfStart, NextAhead
<1>3. /\ w.end = Figures!NextPeriodStart(type, w.start) - 1 /\ w.start =< w.end
      /\ \A e \in Nat : Begins(type, e) /\ e > w.start => e >= Figures!NextPeriodStart(type, w.start)
      /\ Figures!NextPeriodStart(type, w.start) \in Nat
  BY <1>1, WindowOfStart, NextAhead
<1>4. v.start < w.start => v.end < w.start
  BY <1>1, <1>2
<1>5. w.start < v.start => w.end < v.start
  BY <1>1, <1>3
<1> QED BY <1>1, <1>2, <1>3, <1>4, <1>5

Covers(S, type, to, c) ==
    /\ \A w \in S : Aligned(w, type) /\ w.start >= c /\ w.start =< to
    /\ \A d \in c..to : \E w \in S : w.start =< d /\ d =< w.end

LEMMA CursorStep ==
  ASSUME Calendar, NEW type \in Figures!Types, NEW to \in 0..LastDay, NEW g, IsCursor(g, type, to),
         NEW c \in 0..LastDay, Begins(type, c), c =< to,
         LET a == Ahead(type, c) IN Begins(type, a) \/ a > to => Covers(g[a], type, to, a)
  PROVE  Covers(g[c], type, to, c)
<1> DEFINE a == Ahead(type, c)
           n == Figures!NextPeriodStart(type, c)
           w == Win(type, c)
<1>1. /\ w.start = c /\ w.end = n - 1 /\ c =< w.end /\ Aligned(w, type) /\ Begins(type, n)
  BY WindowOfStart
<1>2. a \in (c + 1)..(LastDay + 1) /\ (a = n \/ (a = LastDay + 1 /\ n > LastDay)) /\ n \in Nat
  BY AheadIs, NextAhead
<1>3. LastDay \in Nat
  BY DEF Calendar
<1>4. g[c] = {w} \cup g[a]
  <2>1. c \in 0..LastDay + 1 /\ ~(c > to)
    BY <1>3
  <2>2. g[c] = WindowsFrom(g, type, to, c)
    BY <2>1 DEF IsCursor
  <2> QED BY <2>1, <2>2 DEF WindowsFrom
<1>5. Begins(type, a) \/ a > to
  BY <1>1, <1>2, <1>3
<1>6. Covers(g[a], type, to, a)
  BY <1>5
<1> HIDE DEF a, n, w
<1>7. ASSUME NEW v \in g[c] PROVE Aligned(v, type) /\ v.start >= c /\ v.start =< to
  <2>1. CASE v = w
    BY <1>1, <2>1
  <2>2. CASE v \in g[a]
    <3>1. Aligned(v, type) /\ v.start >= a /\ v.start =< to /\ v.start \in 0..LastDay
      BY <1>6, <2>2 DEF Covers, Aligned
    <3> QED BY <1>2, <1>3, <3>1
  <2> QED BY <1>4, <2>1, <2>2
<1>8. ASSUME NEW d \in c..to PROVE \E v \in g[c] : v.start =< d /\ d =< v.end
  <2>1. CASE d =< n - 1
    BY <1>1, <1>4, <2>1
  <2>2. CASE d > n - 1
    <3>1. d \in a..to
      BY <1>2, <1>3, <2>2
    <3>2. PICK v \in g[a] : v.start =< d /\ d =< v.end
      BY <1>6, <3>1 DEF Covers
    <3> QED BY <1>4, <3>2
  <2> QED BY <1>2, <2>1, <2>2
<1> QED BY <1>7, <1>8 DEF Covers

LEMMA CursorCovers ==
  ASSUME Calendar, NEW type \in Figures!Types, NEW to \in 0..LastDay, NEW g, IsCursor(g, type, to),
         NEW c \in 0..LastDay + 1, Begins(type, c) \/ c > to
  PROVE  Covers(g[c], type, to, c)
<1> DEFINE N == LastDay + 1
           Good(n) == \A k \in (N - n)..N : Begins(type, k) \/ k > to => Covers(g[k], type, to, k)
           done == {n \in 0..N : Good(n)}
<1>1. N \in Nat /\ LastDay \in Nat
  BY DEF Calendar
<1>2. ASSUME NEW k \in 0..N, k > to PROVE Covers(g[k], type, to, k)
  <2>1. g[k] = {}
    BY <1>2 DEF IsCursor, WindowsFrom
  <2>2. k..to = {}
    BY <1>1, <1>2
  <2> QED BY <2>1, <2>2 DEF Covers
<1>3. Good(0)
  BY <1>1, <1>2
<1>4. ASSUME NEW n \in 1..N, Good(n - 1) PROVE Good(n)
  <2>1. SUFFICES ASSUME NEW k \in (N - n)..N, Begins(type, k) \/ k > to PROVE Covers(g[k], type, to, k)
    OBVIOUS
  <2>2. k \in 0..N
    BY <1>1
  <2>3. CASE k > to
    BY <1>2, <2>2, <2>3
  <2>4. CASE k =< to /\ k \in (N - (n - 1))..N
    BY <1>4, <2>1, <2>4, <2>2
  <2>5. CASE k =< to /\ k = N - n
    <3> DEFINE a == Ahead(type, k)
    <3>1. k \in 0..LastDay /\ Begins(type, k)
      BY <1>1, <2>1, <2>2, <2>5
    <3>2. a \in (k + 1)..(LastDay + 1)
      BY <3>1, AheadIs
    <3>3. a \in (N - (n - 1))..N
      BY <1>1, <2>5, <3>2
    <3>4. Begins(type, a) \/ a > to => Covers(g[a], type, to, a)
      <4> HIDE DEF a
      <4> QED BY <1>4, <3>3
    <3> QED BY <2>5, <3>1, <3>4, CursorStep
  <2> QED BY <1>1, <2>2, <2>3, <2>4, <2>5
<1>5. 0..N \subseteq done
  <2>1. 0 \in done
    BY <1>1, <1>3
  <2>2. \A n \in 1..N : n - 1 \in done => n \in done
    <3> HIDE DEF Good
    <3> QED BY <1>1, <1>4
  <2> HIDE DEF done
  <2> QED BY <1>1, <2>1, <2>2, Climbs
<1>6. Good(N)
  <2> HIDE DEF Good
  <2> QED BY <1>1, <1>5
<1> QED BY <1>1, <1>6

(* The windows of a type from a day to another cover each day between once. *)
LEMMA WindowsCover ==
  ASSUME Calendar, NEW type \in Figures!Types, NEW to \in 0..LastDay, NEW from \in 0..to
  PROVE  LET windows == Figures!BuildWindows(type, from, to)
         IN  /\ \A w \in windows : Aligned(w, type) /\ w.start =< to
             /\ \A d \in from..to : \E w \in windows : w.start =< d /\ d =< w.end
             /\ \A w \in windows : w.start >= Figures!PeriodStart(type, from)
<1> DEFINE c == Figures!PeriodStart(type, from)
<1>1. PICK g : IsCursor(g, type, to) /\ Figures!BuildWindows(type, from, to) = g[c]
  BY BuiltByCursor
<1>2. LastDay \in Nat
  BY DEF Calendar
<1>3. from \in 0..LastDay
  BY <1>2
<1>4. c \in 0..from /\ Begins(type, c)
  BY <1>3, PeriodBegins
<1> HIDE DEF c
<1>5. c \in 0..LastDay + 1
  BY <1>2, <1>4
<1>6. Covers(g[c], type, to, c)
  BY <1>1, <1>4, <1>5, CursorCovers
<1>7. \A d \in from..to : d \in c..to
  BY <1>4
<1>8. /\ \A w \in g[c] : Aligned(w, type) /\ w.start =< to /\ w.start >= c
      /\ \A d \in from..to : \E w \in g[c] : w.start =< d /\ d =< w.end
  BY <1>6, <1>7 DEF Covers
<1> QED BY <1>1, <1>8 DEF c

(* A day lies in the period that begins for it. *)
LEMMA PeriodHolds ==
  ASSUME Calendar, NEW type \in Figures!Types, NEW d \in 0..LastDay
  PROVE  d < Figures!NextPeriodStart(type, Figures!PeriodStart(type, d))
<1> DEFINE c == Figures!PeriodStart(type, d)
<1>1. c \in 0..LastDay /\ c \in 0..d /\ Begins(type, c) /\ LastDay \in Nat
  <2>1. c \in 0..d /\ Begins(type, c)
    BY PeriodBegins
  <2> HIDE DEF c
  <2> QED BY <2>1 DEF Calendar
<1>2. CASE type = "WEEK"
  <2>1. c = d - (d % WeekDays)
    BY <1>2 DEF Figures!PeriodStart
  <2>2. WeekDays \in Nat \ {0} /\ d \in Nat
    BY DEF Calendar
  <2>3. d % WeekDays \in 0..(WeekDays - 1)
    BY <2>2, DivBounds, Zenon
  <2>4. Figures!NextPeriodStart(type, c) = c + WeekDays
    BY <1>2 DEF Figures!NextPeriodStart
  <2> DEFINE r == d % WeekDays
  <2>5. c = d - r /\ r \in 0..(WeekDays - 1)
    BY <2>1, <2>3
  <2> HIDE DEF c, r
  <2>6. d < c + WeekDays
    BY <1>1, <2>2, <2>5
  <2> QED BY <2>4, <2>6 DEF c
<1>3. CASE type # "WEEK"
  <2> DEFINE n == Figures!MonthOf(d)
             q == ((n - 1) \div 3) * 3 + 1
  <2>1. n \in DOMAIN MonthStarts /\ d < MonthStarts[n + 1] /\ n + 1 \in DOMAIN MonthStarts
    BY MonthsAhead
  <2>2. n \in Nat /\ n >= 1 /\ n =< Len(MonthStarts)
    BY <2>1, MonthNumbers
  <2>3. type = "MONTH" => c = MonthStarts[n]
    BY DEF Figures!PeriodStart
  <2>4. type = "QUARTER" => c = MonthStarts[q]
    BY DEF Figures!PeriodStart
  <2> HIDE DEF n
  <2>5. q \in 1..n /\ n + 1 =< q + 3
    BY <2>2
  <2>6. q \in DOMAIN MonthStarts
    <3> HIDE DEF q
    <3> QED BY <2>2, <2>5, MonthNumbers
  <2> HIDE DEF q, c
  <2>7. CASE type = "MONTH"
    <3>1. Figures!MonthOf(c) = n
      BY <2>1, <2>3, <2>7, MonthOfStart
    <3>2. Figures!NextPeriodStart(type, c) = MonthStarts[n + 1]
      BY <1>1, <2>7, <3>1, MonthsAhead
    <3> QED BY <2>1, <3>2 DEF c
  <2>8. CASE type = "QUARTER"
    <3>1. Figures!MonthOf(c) = q
      BY <2>4, <2>6, <2>8, MonthOfStart
    <3>2. Figures!NextPeriodStart(type, c) = MonthStarts[q + 3] /\ q + 3 \in DOMAIN MonthStarts
      BY <1>1, <2>8, <3>1, MonthsAhead
    <3>3. ~(q + 3 < n + 1)
      BY <2>2, <2>5
    <3>4. ~(MonthStarts[q + 3] < MonthStarts[n + 1])
      BY <2>1, <3>2, <3>3, MonthOrder
    <3>5. MonthStarts[q + 3] \in Nat /\ MonthStarts[n + 1] \in Nat
      BY <2>1, <3>2, MonthNumbers
    <3> QED BY <2>1, <3>2, <3>4, <3>5 DEF c
  <2> QED BY <1>3, <2>7, <2>8 DEF Figures!Types
<1> QED BY <1>2, <1>3

LEMMA PeriodOrder ==
  ASSUME Calendar, NEW type \in Figures!Types, NEW d \in 0..LastDay, NEW e \in 0..LastDay, d =< e
  PROVE  Figures!PeriodStart(type, d) =< Figures!PeriodStart(type, e)
<1> DEFINE c == Figures!PeriodStart(type, d)
           b == Figures!PeriodStart(type, e)
           n == Figures!NextPeriodStart(type, b)
<1>1. c \in 0..d /\ Begins(type, c) /\ b \in 0..e /\ Begins(type, b)
  BY PeriodBegins
<1>2. e < n
  BY PeriodHolds
<1>3. b \in 0..LastDay /\ LastDay \in Nat
  <2> HIDE DEF b
  <2> QED BY <1>1 DEF Calendar
<1>4. \A k \in Nat : Begins(type, k) /\ k > b => k >= n
  BY <1>1, <1>3, WindowOfStart
<1>5. n \in Nat
  BY <1>3, NextAhead
<1> HIDE DEF c, b, n
<1>6. c =< b
  BY <1>1, <1>2, <1>4, <1>5
<1> QED BY <1>6 DEF c, b

(* A window that ends on a day or later begins no earlier than the period of the day. *)
LEMMA EndsLater ==
  ASSUME Calendar, NEW type \in Figures!Types, NEW w, Aligned(w, type), NEW d \in 0..LastDay, d =< w.end
  PROVE  w.start >= Figures!PeriodStart(type, d)
<1> DEFINE c == Figures!PeriodStart(type, d)
<1>1. c \in 0..d /\ Begins(type, c)
  BY PeriodBegins
<1>2. w.start \in 0..LastDay /\ Begins(type, w.start) /\ w = Win(type, w.start)
  BY DEF Aligned
<1>3. /\ w.end = Figures!NextPeriodStart(type, w.start) - 1 /\ Figures!NextPeriodStart(type, w.start) \in Nat
      /\ \A e \in Nat : Begins(type, e) /\ e > w.start => e >= Figures!NextPeriodStart(type, w.start)
  BY <1>2, WindowOfStart, NextAhead
<1> HIDE DEF c
<1>4. w.start >= c
  BY <1>1, <1>2, <1>3
<1> QED BY <1>4 DEF c

LEMMA WindowsAreAll ==
  ASSUME Calendar, NEW type \in Figures!Types, NEW to \in 0..LastDay, NEW from \in 0..to
  PROVE  \A w : w \in Figures!BuildWindows(type, from, to)
                  <=> /\ Aligned(w, type) /\ w.start =< to
                      /\ w.start >= Figures!PeriodStart(type, from)
<1> DEFINE c == Figures!PeriodStart(type, from)
<1>1. PICK g : IsCursor(g, type, to) /\ Figures!BuildWindows(type, from, to) = g[c]
  BY BuiltByCursor
<1>2. LastDay \in Nat
  BY DEF Calendar
<1>3. from \in 0..LastDay
  BY <1>2
<1>4. c \in 0..from /\ Begins(type, c)
  BY <1>3, PeriodBegins
<1> HIDE DEF c
<1>5. c \in 0..LastDay + 1
  BY <1>2, <1>4
<1>6. Covers(g[c], type, to, c)
  BY <1>1, <1>4, <1>5, CursorCovers
<1>7. ASSUME NEW w, Aligned(w, type), w.start =< to, w.start >= c PROVE w \in g[c]
  <2>1. w.start \in c..to /\ w.start \in Nat
    BY <1>4, <1>7 DEF Aligned
  <2>2. PICK v \in g[c] : v.start =< w.start /\ w.start =< v.end
    BY <1>6, <2>1 DEF Covers
  <2>3. Aligned(v, type) /\ v.start \in Nat /\ v.end \in Nat
    BY <1>6 DEF Covers, Aligned
  <2>4. v.start < w.start => v.end < w.start
    BY <1>7, <2>3, WindowsApart
  <2>5. v.start = w.start => v = w
    BY <1>7, <2>3, WindowsApart
  <2> QED BY <2>1, <2>2, <2>3, <2>4, <2>5
<1>8. \A w \in g[c] : Aligned(w, type) /\ w.start =< to /\ w.start >= c
  BY <1>6 DEF Covers
<1> QED BY <1>1, <1>7, <1>8 DEF c

(* On each day there is one of them. *)
LEMMA WindowsOnce ==
  ASSUME Calendar, NEW type \in Figures!Types, NEW to \in 0..LastDay, NEW from \in 0..to, NEW d \in from..to
  PROVE  Figures!Cardinality({w \in Figures!BuildWindows(type, from, to) : Figures!In(d, w)}) = 1
<1> DEFINE windows == Figures!BuildWindows(type, from, to)
           there == {w \in windows : Figures!In(d, w)}
<1>1. /\ \A w \in windows : Aligned(w, type) /\ w.start =< to
      /\ \A e \in from..to : \E w \in windows : w.start =< e /\ e =< w.end
  BY WindowsCover
<1> HIDE DEF windows
<1>2. PICK v \in windows : v.start =< d /\ d =< v.end
  BY <1>1
<1>3. d # None /\ d \in Nat
  BY DEF Calendar
<1>4. \A w : w \in there <=> w \in windows /\ w.start =< d /\ d =< w.end
  BY <1>3 DEF Figures!In
<1>5. ASSUME NEW w \in windows, w.start =< d, d =< w.end PROVE w = v
  <2>1. Aligned(w, type) /\ Aligned(v, type)
    BY <1>1
  <2>2. w.start \in Nat /\ w.end \in Nat /\ v.start \in Nat /\ v.end \in Nat
    BY <2>1 DEF Aligned
  <2>3. /\ v.start = w.start => v = w
        /\ v.start < w.start => v.end < w.start
        /\ w.start < v.start => w.end < v.start
    BY <2>1, WindowsApart
  <2> QED BY <1>2, <1>3, <1>5, <2>2, <2>3
<1>6. there = {v}
  <2>1. \A w : w \in there <=> w \in {v}
    BY <1>2, <1>4, <1>5
  <2> HIDE DEF there
  <2> QED BY <2>1
<1>7. Cardinality({v}) = 1
  BY FS_Singleton
<1>8. Figures!Cardinality({v}) = Cardinality({v})
  BY DEF Cardinality, Figures!Cardinality
<1> HIDE DEF there
<1> QED BY <1>6, <1>7, <1>8 DEF there, windows
-----------------------------------------------------------------------------
(* The stored rows *)

KeyOf(r, type, w) == [repo |-> r, type |-> type, start |-> w.start, end |-> w.end]
SpanOf(k) == [start |-> k.start, end |-> k.end]
IsKey(k) ==
    /\ k.repo \in Repos /\ k.type \in Figures!Types
    /\ k = KeyOf(k.repo, k.type, SpanOf(k)) /\ Aligned(SpanOf(k), k.type)

(* The windows that a refresh on a day writes *)
Since(t) == IF t - Lookback > 0 THEN t - Lookback ELSE 0
Kept(k, t) == Figures!PeriodStart(k.type, Since(t)) =< k.start /\ k.start =< t

LEMMA SinceDay ==
  ASSUME Calendar, NEW t \in 0..LastDay
  PROVE  /\ Since(t) \in 0..t /\ Since(t) \in 0..LastDay
         /\ Figures!Max({0, t - Lookback}) = Since(t)
         /\ \A u \in 0..t : Since(u) =< Since(t)
<1> USE DEF Calendar, Since
<1>1. Since(t) \in 0..t /\ Since(t) \in 0..LastDay /\ \A u \in 0..t : Since(u) =< Since(t)
  OBVIOUS
<1> DEFINE S == {0, t - Lookback}
<1>2. Since(t) \in S /\ \A y \in S : Since(t) >= y
  OBVIOUS
<1>3. \A x \in S : (\A y \in S : x >= y) => x = Since(t)
  OBVIOUS
<1> HIDE DEF S, Since
<1>4. Figures!Max(S) = Since(t)
  BY <1>2, <1>3 DEF Figures!Max
<1> QED BY <1>1, <1>4 DEF S

LEMMA FirstKept ==
  ASSUME Calendar, NEW type \in Figures!Types, NEW t \in 0..LastDay
  PROVE  Figures!PeriodStart(type, Since(t)) \in Nat /\ Figures!PeriodStart(type, Since(t)) =< t /\ t \in Nat
<1>1. Since(t) \in 0..t /\ Since(t) \in 0..LastDay
  BY SinceDay
<1> DEFINE s == Since(t)
<1> HIDE DEF s
<1>2. Figures!PeriodStart(type, s) \in 0..s
  BY <1>1, PeriodBegins DEF s
<1>3. s \in 0..t
  BY <1>1 DEF s
<1> QED BY <1>2, <1>3 DEF s

LEMMA RowKeysAre ==
  ASSUME Calendar, today \in 0..LastDay
  PROVE  \A k : k \in Figures!RowKeys <=> IsKey(k) /\ Kept(k, today)
<1> DEFINE Built(p) == Figures!BuildWindows(p, Since(today), today)
<1>1. Figures!RowKeys = UNION {{[repo |-> r, type |-> p, start |-> w.start, end |-> w.end]
                                  : r \in Repos, w \in Built(p)} : p \in Figures!Types}
  BY SinceDay DEF Figures!RowKeys
<1>2. \A p \in Figures!Types : \A w : w \in Built(p) <=>
          Aligned(w, p) /\ w.start =< today /\ w.start >= Figures!PeriodStart(p, Since(today))
  BY SinceDay, WindowsAreAll
<1> HIDE DEF Built
<1>3. ASSUME NEW k \in Figures!RowKeys PROVE IsKey(k) /\ Kept(k, today)
  <2>0. PICK p \in Figures!Types : \E r \in Repos, w \in Built(p) :
           k = [repo |-> r, type |-> p, start |-> w.start, end |-> w.end]
    BY <1>1
  <2>1. PICK r \in Repos, w \in Built(p) :
           k = [repo |-> r, type |-> p, start |-> w.start, end |-> w.end]
    BY <2>0
  <2>2. Aligned(w, p) /\ w.start =< today /\ w.start >= Figures!PeriodStart(p, Since(today))
    BY <1>2
  <2>3. w = [start |-> w.start, end |-> w.end]
    BY <2>2 DEF Aligned, Win
  <2>4. SpanOf(k) = w
    BY <2>1, <2>3 DEF SpanOf
  <2>5. Kept(k, today)
    <3>1. w.start \in Nat /\ Figures!PeriodStart(p, Since(today)) \in Nat /\ today \in Nat
      BY <2>2, FirstKept DEF Aligned
    <3> QED BY <2>1, <2>2, <3>1 DEF Kept
  <2> QED BY <2>1, <2>2, <2>4, <2>5 DEF IsKey, KeyOf, SpanOf
<1>4. ASSUME NEW k, IsKey(k), Kept(k, today) PROVE k \in Figures!RowKeys
  <2> DEFINE w == SpanOf(k)
  <2>1. /\ k.repo \in Repos /\ k.type \in Figures!Types
        /\ k = [repo |-> k.repo, type |-> k.type, start |-> w.start, end |-> w.end]
        /\ Aligned(w, k.type) /\ w.start = k.start
    BY <1>4 DEF IsKey, KeyOf, SpanOf
  <2>2. w \in Built(k.type)
    <3>1. w.start \in Nat /\ Figures!PeriodStart(k.type, Since(today)) \in Nat /\ today \in Nat
      BY <2>1, FirstKept DEF Aligned
    <3>2. w.start =< today /\ w.start >= Figures!PeriodStart(k.type, Since(today))
      BY <1>4, <2>1, <3>1 DEF Kept
    <3> HIDE DEF w
    <3> QED BY <1>2, <2>1, <3>2
  <2> HIDE DEF w
  <2> QED BY <1>1, <2>1, <2>2
<1> QED BY <1>3, <1>4

-----------------------------------------------------------------------------
(* The inductive invariant of the figures *)

ReleaseRow == [day : 0..LastDay, customer : BOOLEAN]

Measurable ==
    /\ Calendar /\ MaxEdits \in Nat /\ None \notin ReleaseRow
    /\ IsFiniteSet(Repos) /\ IsFiniteSet(Tags) /\ IsFiniteSet(Requests) /\ IsFiniteSet(Bugs)

(* What is recorded of a release, of its requests and of its bugs is of a release that
   is there, and of a day that has come. *)
TablesRight ==
    /\ today \in 0..LastDay /\ edits \in 0..MaxEdits /\ fresh \in BOOLEAN
    /\ released \in [Tags -> ReleaseRow \cup {None}]
    /\ \A t \in Tags : released[t] # None => released[t].day =< today
    /\ shipped \in [Requests -> Tags \cup {None}]
    /\ \A m \in Requests : shipped[m] # None =>
          released[shipped[m]] # None /\ released[shipped[m]].customer /\ Shape[m].repo = RepoOf[shipped[m]]
    /\ fixed \in [Bugs -> Tags \cup {None}]
    /\ \A b \in Bugs : fixed[b] # None => released[fixed[b]] # None

(* Rows are of windows of the calendar that have begun, of every repository alike. *)
RowsAre(table, day) ==
    /\ \A k \in DOMAIN table : IsKey(k) /\ k.start =< day
    /\ \A k \in DOMAIN table, r \in Repos : KeyOf(r, k.type, SpanOf(k)) \in DOMAIN table
    /\ \A k \in DOMAIN table : table[k].cfr \in 0..Figures!Scale
RowsRight == RowsAre(rows, today)

(* While nothing was collected since, the rows are those of the day of the last refresh:
   what it kept is right, and nothing that it keeps is missing. *)
WrittenOn(t) ==
    /\ \A k \in DOMAIN rows : k.start =< t
    /\ \A k \in DOMAIN rows : Kept(k, t) => rows[k] = Figures!PeriodMetrics(k.repo, k)
    /\ \A k : IsKey(k) /\ Kept(k, t) => k \in DOMAIN rows
RowsFresh == fresh => DOMAIN rows = {} \/ \E t \in 0..today : WrittenOn(t)

FiguresInv == TablesRight /\ RowsRight /\ RowsFresh

LEMMA FiguresInit ==
  ASSUME Measurable, Figures!Init
  PROVE  FiguresInv
<1>1. TablesRight
  BY DEF TablesRight, Figures!Init, Measurable, Calendar
<1>2. DOMAIN rows = {}
  BY DEF Figures!Init
<1> QED BY <1>1, <1>2 DEF FiguresInv, RowsRight, RowsAre, RowsFresh

(* Editing leaves the rows, which are then no longer fresh. *)
LEMMA EditRows ==
  ASSUME FiguresInv, Figures!Edit
  PROVE  RowsRight' /\ RowsFresh' /\ fresh' \in BOOLEAN /\ today' = today
<1>1. fresh' = FALSE /\ rows' = rows /\ today' = today
  BY DEF Figures!Edit
<1>2. RowsRight'
  BY <1>1 DEF FiguresInv, RowsRight
<1> QED BY <1>1, <1>2 DEF RowsFresh

LEMMA EditCount ==
  ASSUME Measurable, FiguresInv, Figures!Edit
  PROVE  today' \in 0..LastDay /\ edits' \in 0..MaxEdits /\ fresh' \in BOOLEAN
<1>1. edits < MaxEdits /\ edits' = edits + 1 /\ fresh' = FALSE /\ today' = today
  BY DEF Figures!Edit
<1>2. today \in 0..LastDay /\ edits \in 0..MaxEdits /\ MaxEdits \in Nat
  BY DEF FiguresInv, TablesRight, Measurable
<1>3. edits' \in 0..MaxEdits
  BY <1>1, <1>2
<1> QED BY <1>1, <1>2, <1>3, Zenon

LEMMA PublishKeeps ==
  ASSUME Measurable, FiguresInv, NEW t \in Tags, NEW customer \in BOOLEAN, Figures!Publish(t, customer)
  PROVE  FiguresInv'
<1>1. Figures!Edit /\ released[t] = None /\ UNCHANGED <<shipped, linked, fixed, closed>>
      /\ released' = [released EXCEPT ![t] = [day |-> today, customer |-> customer]]
  BY DEF Figures!Publish
<1>2. RowsRight' /\ RowsFresh' /\ today' = today
  BY <1>1, EditRows
<1>3. today' \in 0..LastDay /\ edits' \in 0..MaxEdits /\ fresh' \in BOOLEAN
  BY <1>1, EditCount
<1>4. TablesRight /\ today \in Int
  BY DEF FiguresInv, TablesRight
<1> DEFINE row == [day |-> today, customer |-> customer]
<1>5. row \in ReleaseRow /\ row.day =< today
  BY <1>4 DEF TablesRight, ReleaseRow
<1> HIDE DEF row
<1>6. /\ released' \in [Tags -> ReleaseRow \cup {None}] /\ released'[t] = row /\ row # None
      /\ \A s \in Tags \ {t} : released'[s] = released[s]
  BY <1>1, <1>4, <1>5 DEF TablesRight, Measurable, row
<1>7. \A s \in Tags : released'[s] # None => released'[s].day =< today'
  BY <1>2, <1>4, <1>5, <1>6 DEF TablesRight
<1>8. ASSUME NEW m \in Requests, shipped'[m] # None
      PROVE  released'[shipped'[m]] # None /\ released'[shipped'[m]].customer /\ Shape[m].repo = RepoOf[shipped'[m]]
  <2>1. shipped'[m] = shipped[m] /\ shipped[m] \in Tags /\ shipped[m] # t
    BY <1>1, <1>4, <1>8 DEF TablesRight
  <2> QED BY <1>4, <1>6, <1>8, <2>1 DEF TablesRight
<1>9. ASSUME NEW b \in Bugs, fixed'[b] # None PROVE released'[fixed'[b]] # None
  <2>1. fixed'[b] = fixed[b] /\ fixed[b] \in Tags /\ fixed[b] # t
    BY <1>1, <1>4, <1>9 DEF TablesRight
  <2> QED BY <1>4, <1>6, <1>9, <2>1 DEF TablesRight
<1>10. shipped' \in [Requests -> Tags \cup {None}] /\ fixed' \in [Bugs -> Tags \cup {None}]
  BY <1>1, <1>4 DEF TablesRight
<1>11. TablesRight'
  BY <1>3, <1>6, <1>7, <1>8, <1>9, <1>10 DEF TablesRight, ReleaseRow
<1> QED BY <1>2, <1>11 DEF FiguresInv

LEMMA ShipKeeps ==
  ASSUME Measurable, FiguresInv, NEW m \in Requests, NEW t \in Tags, Figures!Ship(m, t)
  PROVE  FiguresInv'
<1>1. /\ Figures!Edit /\ shipped[m] = None /\ Shape[m].repo = RepoOf[t] /\ released[t] # None /\ released[t].customer
      /\ shipped' = [shipped EXCEPT ![m] = t] /\ UNCHANGED <<released, linked, fixed, closed>>
  BY DEF Figures!Ship
<1>2. RowsRight' /\ RowsFresh' /\ today' = today
  BY <1>1, EditRows
<1>3. today' \in 0..LastDay /\ edits' \in 0..MaxEdits /\ fresh' \in BOOLEAN
  BY <1>1, EditCount
<1>4. TablesRight
  BY DEF FiguresInv
<1>5. shipped' \in [Requests -> Tags \cup {None}] /\ shipped'[m] = t
      /\ \A q \in Requests \ {m} : shipped'[q] = shipped[q]
  BY <1>1, <1>4 DEF TablesRight
<1>6. ASSUME NEW q \in Requests, shipped'[q] # None
      PROVE  released[shipped'[q]] # None /\ released[shipped'[q]].customer /\ Shape[q].repo = RepoOf[shipped'[q]]
  <2>1. CASE q = m
    BY <1>1, <1>5, <2>1
  <2>2. CASE q # m
    BY <1>4, <1>5, <1>6, <2>2 DEF TablesRight
  <2> QED BY <2>1, <2>2
<1>7. TablesRight'
  BY <1>1, <1>2, <1>3, <1>4, <1>5, <1>6 DEF TablesRight, ReleaseRow
<1> QED BY <1>2, <1>7 DEF FiguresInv

LEMMA LinkKeeps ==
  ASSUME Measurable, FiguresInv, NEW b \in Bugs, NEW t \in Tags, Figures!Link(b, t)
  PROVE  FiguresInv'
<1>1. Figures!Edit /\ UNCHANGED <<released, shipped, fixed, closed>>
  BY DEF Figures!Link
<1>2. RowsRight' /\ RowsFresh' /\ today' = today
  BY <1>1, EditRows
<1>3. today' \in 0..LastDay /\ edits' \in 0..MaxEdits /\ fresh' \in BOOLEAN
  BY <1>1, EditCount
<1>4. TablesRight'
  BY <1>1, <1>2, <1>3 DEF FiguresInv, TablesRight, ReleaseRow
<1> QED BY <1>2, <1>4 DEF FiguresInv

LEMMA FixKeeps ==
  ASSUME Measurable, FiguresInv, NEW b \in Bugs, NEW t \in Tags, Figures!Fix(b, t)
  PROVE  FiguresInv'
<1>1. /\ Figures!Edit /\ fixed[b] = None /\ released[t] # None
      /\ fixed' = [fixed EXCEPT ![b] = t] /\ UNCHANGED <<released, shipped, linked>>
  BY DEF Figures!Fix
<1>2. RowsRight' /\ RowsFresh' /\ today' = today
  BY <1>1, EditRows
<1>3. today' \in 0..LastDay /\ edits' \in 0..MaxEdits /\ fresh' \in BOOLEAN
  BY <1>1, EditCount
<1>4. TablesRight
  BY DEF FiguresInv
<1>5. fixed' \in [Bugs -> Tags \cup {None}] /\ fixed'[b] = t /\ \A c \in Bugs \ {b} : fixed'[c] = fixed[c]
  BY <1>1, <1>4 DEF TablesRight
<1>6. \A c \in Bugs : fixed'[c] # None => released[fixed'[c]] # None
  BY <1>1, <1>4, <1>5 DEF TablesRight
<1>7. TablesRight'
  BY <1>1, <1>2, <1>3, <1>4, <1>5, <1>6 DEF TablesRight, ReleaseRow
<1> QED BY <1>2, <1>7 DEF FiguresInv

(* The metrics of a window are of what was collected alone. *)
DataKept == UNCHANGED released /\ UNCHANGED shipped /\ UNCHANGED linked /\ UNCHANGED fixed /\ UNCHANGED closed

LEMMA CohortKept ==
  ASSUME DataKept, NEW CONSTANT R, NEW CONSTANT w
  PROVE  Figures!Cohort(R, w)' = Figures!Cohort(R, w)
<1>1. \A m : Figures!TagDay(m)' = Figures!TagDay(m)
  BY DEF DataKept, Figures!TagDay
<1> QED BY <1>1 DEF Figures!Cohort, Figures!In, Figures!Excluded

LEMMA MetricsKept ==
  ASSUME DataKept, NEW CONSTANT r, NEW CONSTANT w
  PROVE  Figures!PeriodMetrics(r, w)' = Figures!PeriodMetrics(r, w)
<1>1. Figures!Cohort({r}, w)' = Figures!Cohort({r}, w)
  BY CohortKept
<1>2. Figures!CustomerReleases(r, w)' = Figures!CustomerReleases(r, w)
  BY DEF DataKept, Figures!CustomerReleases, Figures!In
<1>3. Figures!Measured(w)' = Figures!Measured(w)
  BY DEF DataKept, Figures!Measured, Figures!In
<1>4. Figures!Mttr(w)' = Figures!Mttr(w)
  <2> DEFINE S == {b \in Bugs : Bug[b].valid /\ Figures!In(closed[b], w)}
  <2>1. S' = S
    BY DEF DataKept, Figures!In
  <2>2. Figures!Mttr(w) = Figures!MedianUp({v \in {[of |-> s, value |-> Bug[s].minutes] : s \in S} : v.value # None})
    BY DEF Figures!Mttr, Figures!Values
  <2>3. Figures!Mttr(w)' = Figures!MedianUp({v \in {[of |-> s, value |-> Bug[s].minutes] : s \in S'} : v.value # None})
    BY DEF Figures!Mttr, Figures!Values
  <2> HIDE DEF S
  <2> QED BY <2>1, <2>2, <2>3
<1>5. Figures!DeploymentFrequency(r, w)' = Figures!DeploymentFrequency(r, w)
  BY <1>2 DEF Figures!DeploymentFrequency
<1>6. Figures!ChangeFailureRate(r, w)' = Figures!ChangeFailureRate(r, w)
  BY <1>2 DEF DataKept, Figures!ChangeFailureRate
<1>7. Figures!MttrAlpha(w)' = Figures!MttrAlpha(w)
  BY <1>3 DEF Figures!MttrAlpha
<1>8. Figures!MetricsOf(Figures!Cohort({r}, w), r, w)' = Figures!MetricsOf(Figures!Cohort({r}, w), r, w)
  BY <1>1, <1>4, <1>5, <1>6, <1>7, Zenon DEF Figures!MetricsOf
<1> QED BY <1>8 DEF Figures!PeriodMetrics

LEMMA KeyStart ==
  ASSUME NEW k, IsKey(k)
  PROVE  k.start \in 0..LastDay
<1>1. SpanOf(k).start \in 0..LastDay
  BY DEF IsKey, Aligned
<1> QED BY <1>1 DEF SpanOf

(* A passing day only moves the day of which a row is old news; the rows of earlier days
   begin no later than those of later ones. *)
LEMMA TickKeeps ==
  ASSUME Measurable, FiguresInv, Figures!Tick
  PROVE  FiguresInv'
<1>1. /\ today < LastDay /\ today' = today + 1
      /\ UNCHANGED <<released, shipped, linked, fixed, closed>> /\ UNCHANGED <<rows, fresh, edits>>
  BY DEF Figures!Tick, Figures!data
<1>2. TablesRight /\ RowsAre(rows, today) /\ RowsFresh /\ today \in Nat /\ LastDay \in Nat
  BY DEF FiguresInv, RowsRight, TablesRight, Measurable, Calendar
<1>3. today' \in 0..LastDay /\ today' > today
  BY <1>1, <1>2 DEF TablesRight
<1>4. TablesRight'
  <2>1. ASSUME NEW t \in Tags, released[t] # None PROVE released[t].day =< today + 1
    <3>1. released[t] \in ReleaseRow /\ released[t].day =< today
      BY <1>2, <2>1 DEF TablesRight
    <3> QED BY <1>2, <3>1 DEF ReleaseRow
  <2> QED BY <1>1, <1>2, <1>3, <2>1 DEF TablesRight, ReleaseRow
<1>5. RowsAre(rows, today')
  <2>1. ASSUME NEW k \in DOMAIN rows PROVE k.start =< today'
    <3>1. IsKey(k) /\ k.start =< today
      BY <1>2, <2>1 DEF RowsAre
    <3>2. k.start \in 0..LastDay
      BY <3>1, KeyStart
    <3> QED BY <1>1, <1>2, <3>1, <3>2
  <2> QED BY <1>2, <2>1 DEF RowsAre
<1>6. RowsRight'
  BY <1>1, <1>5 DEF RowsRight
<1>7. ASSUME fresh, DOMAIN rows # {} PROVE \E t \in 0..today' : WrittenOn(t)'
  <2>1. PICK t \in 0..today : WrittenOn(t)
    BY <1>2, <1>7 DEF RowsFresh
  <2>2. \A r, w : Figures!PeriodMetrics(r, w)' = Figures!PeriodMetrics(r, w)
    BY <1>1, MetricsKept DEF DataKept
  <2>3. WrittenOn(t)'
    BY <1>1, <2>1, <2>2 DEF WrittenOn
  <2>4. t \in 0..today'
    BY <1>2, <1>3
  <2> QED BY <2>3, <2>4
<1>8. RowsFresh'
  BY <1>1, <1>7 DEF RowsFresh
<1> QED BY <1>4, <1>6, <1>8 DEF FiguresInv

(* A share is at most the whole. *)
LEMMA ShareBound ==
  ASSUME NEW a \in Nat, NEW b \in Nat \ {0}, NEW S \in Nat, a =< b
  PROVE  (2 * a * S + b) \div (2 * b) \in 0..S
<1> DEFINE n == 2 * a * S + b
           m == 2 * b
           q == n \div m
           r == n % m
<1>1. PICK f \in Nat : b = a + f
  <2>1. b - a \in Nat /\ b = a + (b - a)
    OBVIOUS
  <2> QED BY <2>1
<1>2. a * S \in Nat /\ f * S \in Nat /\ b * S = a * S + f * S
  BY <1>1
<1>3. 2 * a * S = 2 * (a * S)
  OBVIOUS
<1>4. n \in Nat /\ m \in Nat \ {0} /\ n =< 2 * (b * S) + b
  BY <1>2, <1>3
<1> HIDE DEF n, q, r
<1>5. q \in Nat /\ r \in 0..(m - 1) /\ n = m * q + r
  <2> HIDE DEF m
  <2> QED BY <1>4, DivBounds, Zenon DEF q, r
<1>6. r \in Nat
  BY <1>4, <1>5
<1>7. ASSUME q > S PROVE FALSE
  <2>1. PICK e \in Nat : q = S + 1 + e
    <3>1. q - S - 1 \in Nat /\ q = S + 1 + (q - S - 1)
      BY <1>5, <1>7
    <3> QED BY <3>1
  <2>2. b * e \in Nat /\ b * S \in Nat
    OBVIOUS
  <2>3. (2 * b) * (S + 1 + e) = 2 * (b * S) + 2 * b + 2 * (b * e)
    OBVIOUS
  <2> QED BY <1>4, <1>5, <1>6, <2>1, <2>2, <2>3
<1>8. q =< S
  BY <1>5, <1>7
<1>9. q \in 0..S
  BY <1>5, <1>8
<1> QED BY <1>9 DEF q, n

LEMMA RatioBound ==
  ASSUME NEW a \in Nat, NEW b \in Nat \ {0}, a =< b
  PROVE  Figures!Ratio(a, b) \in 0..Figures!Scale
<1>1. Figures!Scale \in Nat
  BY DEF Figures!Scale
<1>2. Figures!Ratio(a, b) = (2 * a * Figures!Scale + b) \div (2 * b)
  BY DEF Figures!Ratio
<1> QED BY <1>1, <1>2, ShareBound

LEMMA RateBound ==
  ASSUME Measurable, NEW r, NEW w
  PROVE  Figures!ChangeFailureRate(r, w) \in 0..Figures!Scale
<1> DEFINE all == Figures!CustomerReleases(r, w)
           bad == {t \in all : \E b \in Bugs : <<b, t>> \in linked /\ Figures!Eligible(b)}
<1>1. IsFiniteSet(all) /\ bad \subseteq all
  <2>1. all \subseteq Tags
    BY DEF Figures!CustomerReleases
  <2> QED BY <2>1, FS_Subset DEF Measurable
<1>2. \A S : Figures!Cardinality(S) = Cardinality(S)
  BY DEF Figures!Cardinality, Cardinality
<1>3. Figures!ChangeFailureRate(r, w) =
        IF all = {} THEN 0 ELSE Figures!Ratio(Cardinality(bad), Cardinality(all))
  BY <1>2 DEF Figures!ChangeFailureRate
<1> HIDE DEF all, bad
<1>4. CASE all = {}
  <2>1. Figures!Scale \in Nat
    BY DEF Figures!Scale
  <2> QED BY <1>3, <1>4, <2>1
<1>5. CASE all # {}
  <2>1. Cardinality(all) \in Nat \ {0}
    BY <1>1, <1>5, FS_EmptySet, FS_CardinalityType
  <2>2. Cardinality(bad) \in Nat /\ Cardinality(bad) =< Cardinality(all)
    BY <1>1, FS_Subset, FS_CardinalityType
  <2>3. Figures!Ratio(Cardinality(bad), Cardinality(all)) \in 0..Figures!Scale
    BY <2>1, <2>2, RatioBound
  <2> QED BY <1>3, <1>5, <2>3
<1> QED BY <1>4, <1>5

(* A refresh writes the windows it keeps, of every repository, from what is there. *)
LEMMA RefreshKeeps ==
  ASSUME Measurable, FiguresInv, Figures!Refresh
  PROVE  FiguresInv'
<1>1. /\ rows' = [k \in DOMAIN rows \cup Figures!RowKeys |->
                     IF k \in Figures!RowKeys THEN Figures!PeriodMetrics(k.repo, k) ELSE rows[k]]
      /\ fresh' = TRUE /\ DataKept /\ today' = today /\ edits' = edits
  BY DEF Figures!Refresh, Figures!data, DataKept
<1>2. TablesRight /\ RowsAre(rows, today) /\ today \in 0..LastDay /\ Calendar
  BY DEF FiguresInv, RowsRight, TablesRight, Measurable
<1>3. \A k : k \in Figures!RowKeys <=> IsKey(k) /\ Kept(k, today)
  BY <1>2, RowKeysAre
<1>4. /\ DOMAIN rows' = DOMAIN rows \cup Figures!RowKeys
      /\ \A k \in Figures!RowKeys : rows'[k] = Figures!PeriodMetrics(k.repo, k)
      /\ \A k \in DOMAIN rows \ Figures!RowKeys : rows'[k] = rows[k]
  BY <1>1
<1>5. TablesRight'
  BY <1>1, <1>2 DEF TablesRight, ReleaseRow, DataKept
<1>6. ASSUME NEW k \in DOMAIN rows' PROVE IsKey(k) /\ k.start =< today
  BY <1>2, <1>3, <1>4, <1>6 DEF RowsAre, Kept
<1>7. ASSUME NEW k \in DOMAIN rows', NEW r \in Repos PROVE KeyOf(r, k.type, SpanOf(k)) \in DOMAIN rows'
  <2>1. CASE k \in DOMAIN rows
    BY <1>2, <1>4, <2>1 DEF RowsAre
  <2>2. CASE k \in Figures!RowKeys
    <3> DEFINE j == KeyOf(r, k.type, SpanOf(k))
    <3>1. j.repo = r /\ j.type = k.type /\ j.start = k.start /\ j.end = k.end
      BY DEF KeyOf, SpanOf
    <3>2. IsKey(k) /\ Kept(k, today)
      BY <1>3, <2>2
    <3>3. SpanOf(j) = SpanOf(k)
      BY <3>1 DEF SpanOf
    <3>4. IsKey(j)
      BY <1>7, <3>1, <3>2, <3>3 DEF IsKey
    <3>5. Kept(j, today)
      BY <3>1, <3>2 DEF Kept
    <3> QED BY <1>3, <1>4, <3>4, <3>5
  <2> QED BY <1>4, <1>7, <2>1, <2>2
<1>8. ASSUME NEW k \in DOMAIN rows' PROVE rows'[k].cfr \in 0..Figures!Scale
  <2>1. CASE k \in Figures!RowKeys
    <3>1. Figures!PeriodMetrics(k.repo, k).cfr = Figures!ChangeFailureRate(k.repo, k)
      BY DEF Figures!PeriodMetrics, Figures!MetricsOf
    <3>2. Figures!ChangeFailureRate(k.repo, k) \in 0..Figures!Scale
      BY RateBound
    <3> QED BY <1>4, <2>1, <3>1, <3>2
  <2>2. CASE k \notin Figures!RowKeys
    BY <1>2, <1>4, <1>8, <2>2 DEF RowsAre
  <2> QED BY <2>1, <2>2
<1>9. RowsAre(rows', today)
  BY <1>6, <1>7, <1>8 DEF RowsAre
<1>10. RowsRight'
  BY <1>1, <1>9 DEF RowsRight
<1>11. \A r, w : Figures!PeriodMetrics(r, w)' = Figures!PeriodMetrics(r, w)
  BY <1>1, MetricsKept
<1>12. \A k \in DOMAIN rows' : Kept(k, today) => rows'[k] = Figures!PeriodMetrics(k.repo, k)'
  BY <1>3, <1>4, <1>6, <1>11
<1>13. \A k : IsKey(k) /\ Kept(k, today) => k \in DOMAIN rows'
  BY <1>3, <1>4
<1>14. WrittenOn(today)'
  BY <1>1, <1>6, <1>12, <1>13 DEF WrittenOn
<1>15. today' \in 0..today'
  BY <1>1, <1>2
<1>16. RowsFresh'
  BY <1>14, <1>15 DEF RowsFresh
<1> QED BY <1>5, <1>10, <1>16 DEF FiguresInv

LEMMA FiguresStep ==
  ASSUME Measurable, FiguresInv, [Figures!Next]_Figures!vars
  PROVE  FiguresInv'
<1>1. CASE Figures!Next
  <2>1. CASE \E t \in Tags, customer \in BOOLEAN : Figures!Publish(t, customer)
    BY <2>1, PublishKeeps
  <2>2. CASE \E m \in Requests, t \in Tags : Figures!Ship(m, t)
    BY <2>2, ShipKeeps
  <2>3. CASE \E b \in Bugs, t \in Tags : Figures!Link(b, t)
    BY <2>3, LinkKeeps
  <2>4. CASE \E b \in Bugs, t \in Tags : Figures!Fix(b, t)
    BY <2>4, FixKeeps
  <2>5. CASE Figures!Refresh
    BY <2>5, RefreshKeeps
  <2>6. CASE Figures!Tick
    BY <2>6, TickKeeps
  <2> QED BY <1>1, <2>1, <2>2, <2>3, <2>4, <2>5, <2>6 DEF Figures!Next
<1>2. CASE UNCHANGED Figures!vars
  <2>1. DataKept /\ rows' = rows /\ fresh' = fresh /\ today' = today /\ edits' = edits
    BY <1>2 DEF Figures!vars, Figures!data, DataKept
  <2>2. TablesRight /\ RowsAre(rows, today) /\ RowsFresh
    BY DEF FiguresInv, RowsRight
  <2>3. TablesRight'
    BY <2>1, <2>2 DEF TablesRight, ReleaseRow, DataKept
  <2>4. RowsRight'
    BY <2>1, <2>2 DEF RowsRight
  <2>5. \A r, w : Figures!PeriodMetrics(r, w)' = Figures!PeriodMetrics(r, w)
    BY <2>1, MetricsKept
  <2>6. ASSUME NEW t \in 0..today, WrittenOn(t) PROVE WrittenOn(t)'
    BY <2>1, <2>5, <2>6 DEF WrittenOn
  <2>7. RowsFresh'
    BY <2>1, <2>2, <2>6 DEF RowsFresh
  <2> QED BY <2>3, <2>4, <2>7 DEF FiguresInv
<1> QED BY <1>1, <1>2

(* The tables of the figures keep their types: rows are of repositories and windows that
   there are, and what was shipped is of a release. *)
THEOREM FiguresTyped ==
  ASSUME Measurable
  PROVE  Figures!Spec => []Figures!TypeOK
<1>1. Figures!Init => FiguresInv
  BY FiguresInit
<1>2. FiguresInv /\ [Figures!Next]_Figures!vars => FiguresInv'
  BY FiguresStep
<1>3. FiguresInv => Figures!TypeOK
  <2> SUFFICES ASSUME FiguresInv PROVE Figures!TypeOK
    OBVIOUS
  <2>1. TablesRight /\ RowsAre(rows, today)
    BY DEF FiguresInv, RowsRight
  <2>2. ASSUME NEW k \in DOMAIN rows PROVE k.repo \in Repos /\ k.type \in Figures!Types /\ k.start \in 0..LastDay
    <3>1. IsKey(k)
      BY <2>1, <2>2 DEF RowsAre
    <3> QED BY <3>1, KeyStart DEF IsKey
  <2> QED BY <2>1, <2>2 DEF Figures!TypeOK, TablesRight, Figures!Days
<1> QED BY <1>1, <1>2, <1>3, PTL DEF Figures!Spec

(* On every day, the windows that reach back to any earlier day cover each day since
   then, and none twice. *)
THEOREM WindowsAreTiled ==
  ASSUME Measurable
  PROVE  Figures!Spec => []Figures!WindowsTile
<1>1. Figures!Init => FiguresInv
  BY FiguresInit
<1>2. FiguresInv /\ [Figures!Next]_Figures!vars => FiguresInv'
  BY FiguresStep
<1>3. FiguresInv => Figures!WindowsTile
  <2> SUFFICES ASSUME FiguresInv, NEW type \in Figures!Types, NEW from \in 0..today, NEW d \in from..today
               PROVE  Figures!Cardinality({w \in Figures!BuildWindows(type, from, today) : Figures!In(d, w)}) = 1
    BY DEF Figures!WindowsTile
  <2>1. Calendar /\ today \in 0..LastDay
    BY DEF FiguresInv, TablesRight, Measurable
  <2> QED BY <2>1, WindowsOnce
<1> QED BY <1>1, <1>2, <1>3, PTL DEF Figures!Spec
=============================================================================
