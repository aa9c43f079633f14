--------------------------- MODULE DoraWarehouse ---------------------------
(* The tables behind the DORA metrics of one repository: releases, merge requests, *)
(* production bugs and the columns derived from them, as one nightly run after     *)
(* another brings them up to date while GitLab, Jira and the calendar move on.     *)
(* Each action is one transaction: both collectors commit once, at their end, and  *)
(* roll everything back if anything raises, and so does each derivation.  Sessions *)
(* do not flush by themselves: a SELECT of a run finds the rows of earlier commits, *)
(* changed as the run has changed them, and none that the run has added.           *)
EXTENDS Integers, Sequences, FiniteSets

CONSTANTS Tags,         \* names of GitLab tags
          CustomerTags, \* tags whose names carry no marker of a pre-release
          TagDate,      \* Tags -> day of the commit of the tag
          Version(_),   \* a tag name without its leading v
          Requests,     \* merge requests
          MergedAt,     \* Requests -> day
          FirstCommit,  \* Requests -> day of the earliest commit, or None if none is dated
          Carries,      \* Requests -> set of tags whose history holds the commit
          Keys,         \* Jira keys
          Issues,       \* what Jira may say of a bug: records
                        \* [isBug, healthy, urgent, affects, fix, created, ready]
          None,         \* no value
          Lookback,     \* days that the collectors look back
          GuardAbove,   \* number of releases above which mass deletion is guarded: 10
          FirstDay, LastDay,
          MaxEdits      \* bound on changes of GitLab and Jira

VARIABLES tags,    \* GitLab: tags that exist
          titles,  \* GitLab: merge request -> key named in its title, or None
          issue,   \* Jira: key -> record of Issues, or None
          edits,   \* number of changes so far
          today,
          stage,   \* next step of the nightly run, an index into Stages
          failed, \* what has failed in this run
          release, \* table releases: set of tag names
          mr,      \* table merge_requests: request -> record, or None
          bug,     \* table production_bugs: key -> [jira, fixTag, path, alpha], or None
          link     \* table bug_releases: pairs <<key, tag>>

world == <<tags, titles, issue, edits, today>>
vars == <<tags, titles, issue, edits, today, stage, failed, release, mr, bug, link>>

Stages == <<"gitlab", "jira", "map", "fix", "hydrate", "lead">>

Init == /\ tags = Tags
        /\ titles \in [Requests -> Keys \cup {None}]
        /\ issue \in [Keys -> Issues \cup {None}]
        /\ edits = 0
        /\ today = FirstDay
        /\ stage = 1
        /\ failed = "nothing"
        /\ release = {}
        /\ mr = [q \in Requests |-> None]
        /\ bug = [k \in Keys |-> None]
        /\ link = {}

Stored == {q \in Requests : mr[q] # None}
Ended == Len(Stages) + 1
At(name) == stage < Ended /\ Stages[stage] = name
Proceed == stage' = stage + 1 /\ UNCHANGED <<world, failed>>
Recent(q) == MergedAt[q] >= today - Lookback
-----------------------------------------------------------------------------
(* GitLab and Jira change: a tag is pushed or removed, a title is edited, an issue  *)
(* is reported, edited or reclassified.                                            *)
Edited == edits < MaxEdits /\ edits' = edits + 1
Database == <<stage, failed, release, mr, bug, link>>

EditTag(t) == /\ Edited
              /\ tags' = IF t \in tags THEN tags \ {t} ELSE tags \cup {t}
              /\ UNCHANGED <<titles, issue, today, Database>>
EditTitle(q) == /\ Edited
                /\ \E k \in (Keys \cup {None}) \ {titles[q]} : titles' = [titles EXCEPT ![q] = k]
                /\ UNCHANGED <<tags, issue, today, Database>>
EditIssue(k) == /\ Edited
                /\ \E i \in Issues \ {issue[k]} : issue' = [issue EXCEPT ![k] = i]
                /\ UNCHANGED <<tags, titles, today, Database>>
-----------------------------------------------------------------------------
(* The tags that a fetch returns.  A page shorter than asked for is taken as the    *)
(* last one, so an incomplete answer looks like a smaller repository.              *)
Fetched == SUBSET tags

(* Mutant of Stale: no guard against a fetch that is too small. *)
StaleUnguarded(existing, seen) == IF seen = {} THEN {} ELSE existing \ seen

(* Releases that are no longer tags: all of them, unless no tag was seen or the     *)
(* fetch is less than half of the stored releases, which then are more than ten.    *)
Stale(existing, seen) ==
  IF \/ seen = {}
     \/ Cardinality(existing) > GuardAbove /\ Cardinality(seen) < Cardinality(existing) \div 2
  THEN {} ELSE existing \ seen

Due == {q \in Requests : MergedAt[q] <= today /\ Recent(q)}

(* Merged requests on a target branch, merged within the lookback, as far as the     *)
(* pages list them.  A request whose key has changed forgets when the old issue was  *)
(* ready for QA.                                                                    *)
Upserted(q, listed) ==
  IF q \notin listed THEN mr[q]
  ELSE IF mr[q] = None
       THEN [key |-> titles[q], commit |-> None, tag |-> None, status |-> None, wait |-> None,
             lead |-> None, qa |-> None, post |-> None]
       ELSE [mr[q] EXCEPT !.key = titles[q],
                          !.qa = IF mr[q].key = titles[q] THEN @ ELSE None]

(* The first commit is read for rows that are recent or were written recently.      *)
Dated(row, q, written) ==
  IF (Recent(q) \/ q \in written) /\ FirstCommit[q] # None THEN [row EXCEPT !.commit = FirstCommit[q]] ELSE row

(* A request is mapped again while it is recent, and as long as it has no tag.      *)
Remapped(row, q) == Recent(q) \/ row.tag = None

(* References of the commit to releases of customers, as they were stored before    *)
(* the run and are left by it.                                                      *)
Candidates(q, known) == Carries[q] \cap tags \cap known \cap CustomerTags
Eligible(q, known) == {t \in Candidates(q, known) : TagDate[t] >= MergedAt[q]}

Cleared(row, why) == [row EXCEPT !.tag = None, !.wait = None, !.lead = None, !.status = why]

Mapped(row, q, known) ==
  IF Carries[q] \cap tags = {} THEN Cleared(row, "no_tag_ref_found")
  ELSE IF Candidates(q, known) = {} THEN Cleared(row, "no_customer_tag_ref_found")
  ELSE IF Eligible(q, known) = {} THEN Cleared(row, "no_customer_tag_after_merge")
  ELSE LET first == CHOOSE t \in Eligible(q, known) :
                      \A u \in Eligible(q, known) : TagDate[t] <= TagDate[u]
       IN  [row EXCEPT !.tag = first,
                       !.wait = TagDate[first] - MergedAt[q],
                       !.lead = IF row.commit = None THEN None ELSE TagDate[first] - row.commit,
                       !.status = IF row.commit = None THEN "first_commit_missing" ELSE "matched"]

(* The row of a request after the run: one that the run has added is neither dated   *)
(* nor mapped in it.                                                                *)
Collected(q, listed, written, known) ==
  LET row == Upserted(q, listed)
      dated == Dated(row, q, written)
  IN  IF mr[q] = None THEN row ELSE IF Remapped(row, q) THEN Mapped(dated, q, known) ELSE dated

(* Mutant of CollectGitLab: requests are mapped before the removed releases go. *)
CollectGitLabMapFirst ==
  /\ At("gitlab")
  /\ \E seen \in Fetched, listed \in SUBSET Due, written \in SUBSET (Requests \ Due) :
       LET kept == release \ Stale(release, seen)
       IN  /\ release' = kept \cup seen
           /\ link' = {l \in link : l[2] \in kept}
           /\ mr' = [q \in Requests |-> Collected(q, listed, written, release)]
  /\ Proceed
  /\ UNCHANGED bug

CollectGitLab ==
  /\ At("gitlab")
  /\ \E seen \in Fetched, listed \in SUBSET Due, written \in SUBSET (Requests \ Due) :
       LET kept == release \ Stale(release, seen)
       IN  /\ release' = kept \cup seen
           /\ link' = {l \in link : l[2] \in kept}
           /\ mr' = [q \in Requests |-> Collected(q, listed, written, kept)]
  /\ Proceed
  /\ UNCHANGED bug

(* The JQL asks for bugs updated within the lookback; every edit counts as one.     *)
SearchBugs == {k \in Keys : issue[k] # None /\ issue[k].isBug}

(* What Jira says of a bug, its worklogs with it, replaces what is stored; columns  *)
(* that later steps derive stay.                                                   *)
UpsertedBug(k) == IF bug[k] = None
                  THEN [jira |-> issue[k], fixTag |-> None, path |-> None, alpha |-> None]
                  ELSE [bug[k] EXCEPT !.jira = issue[k]]

CollectJira ==
  /\ At("jira")
  /\ bug' = [k \in Keys |-> IF k \in SearchBugs THEN UpsertedBug(k) ELSE bug[k]]
  /\ Proceed
  /\ UNCHANGED <<release, mr, link>>

Matching(version) == {t \in release : Version(t) = version}

(* Every bug is linked anew with the releases whose names match its versions.       *)
MapBugs == /\ At("map")
           /\ link' = {l \in Keys \X release : bug[l[1]] # None /\ Version(l[2]) = bug[l[1]].jira.affects}
           /\ Proceed
           /\ UNCHANGED <<release, mr, bug>>

(* Requests that fix a bug and have reached customers. *)
Fixes(k) == {q \in Stored : mr[q].key = k /\ mr[q].tag # None}
Reached(q) == MergedAt[q] + mr[q].wait

(* The release that fixed a bug: the first to customers of its merge requests, or   *)
(* else the first release of its fix version.                                       *)
FixOf(k) ==
  IF Fixes(k) # {}
  THEN LET q == CHOOSE q \in Fixes(k) : \A p \in Fixes(k) : Reached(q) <= Reached(p)
       IN  [tag |-> mr[q].tag, day |-> Reached(q), path |-> "mr_jira_key"]
  ELSE IF Matching(bug[k].jira.fix) # {}
       THEN LET t == CHOOSE t \in Matching(bug[k].jira.fix) :
                       \A u \in Matching(bug[k].jira.fix) : TagDate[t] <= TagDate[u]
            IN  [tag |-> t, day |-> TagDate[t], path |-> "fix_version"]
       ELSE [tag |-> None, day |-> None, path |-> None]

CountsForMttr(k) == bug[k] # None /\ bug[k].jira.healthy /\ bug[k].jira.urgent

(* A bug that no longer counts keeps what an earlier run has derived. *)
ResolveFixes ==
  /\ At("fix")
  /\ bug' = [k \in Keys |->
               IF ~CountsForMttr(k) THEN bug[k]
               ELSE [bug[k] EXCEPT !.fixTag = FixOf(k).tag,
                                   !.path = FixOf(k).path,
                                   !.alpha = IF FixOf(k).tag # None /\ bug[k].jira.created # None
                                                /\ bug[k].jira.created <= FixOf(k).day
                                             THEN FixOf(k).day - bug[k].jira.created ELSE None]]
  /\ Proceed
  /\ UNCHANGED <<release, mr, link>>

ReadyOf(k) == IF issue[k].ready = None THEN None ELSE [of |-> k, day |-> issue[k].ready]

(* Issues that are no bugs with a known day have theirs read from Jira, one by one; *)
(* a failure of one leaves its requests as they are.                                *)
Hydrate ==
  /\ At("hydrate")
  /\ \E unread \in SUBSET Keys :
       mr' = [q \in Requests |->
                IF \/ mr[q] = None
                   \/ mr[q].key \in unread \cup {None}
                   \/ bug[mr[q].key] # None /\ bug[mr[q].key].jira.ready # None
                THEN mr[q]
                ELSE [mr[q] EXCEPT !.qa = IF issue[mr[q].key] = None THEN @
                                          ELSE ReadyOf(mr[q].key)]]
  /\ Proceed
  /\ UNCHANGED <<release, bug, link>>

ReadyAt(row) == IF bug[row.key] # None /\ bug[row.key].jira.ready # None THEN bug[row.key].jira.ready
                ELSE IF row.qa = None THEN None ELSE row.qa.day

ComputeLead ==
  /\ At("lead")
  /\ mr' = [q \in Requests |->
              IF mr[q] = None \/ ~Recent(q) THEN mr[q]
              ELSE [mr[q] EXCEPT !.post =
                      IF mr[q].key = None THEN None
                      ELSE IF ReadyAt(mr[q]) = None \/ MergedAt[q] < ReadyAt(mr[q]) THEN None
                      ELSE MergedAt[q] - ReadyAt(mr[q])]]
  /\ Proceed
  /\ UNCHANGED <<release, bug, link>>

(* The steps that a failure of a collector leaves out. *)
Derivations == {"map", "fix", "hydrate", "lead"}
Skipped == stage < Ended /\ Stages[stage] \in Derivations /\ failed = "collector"

(* A failed step leaves the tables as they were.  A failure of a collector skips    *)
(* all derivations, that of a derivation none of the next ones.                    *)
StepFails == /\ stage < Ended
             /\ failed' = IF Stages[stage] \notin Derivations THEN "collector"
                          ELSE IF failed = "nothing" THEN "derivation" ELSE failed
             /\ stage' = stage + 1
             /\ UNCHANGED <<world, release, mr, bug, link>>

NextRun == /\ stage = Ended
           /\ \E day \in {today, today + 1} : day <= LastDay /\ today' = day
           /\ stage' = 1
           /\ failed' = "nothing"
           /\ UNCHANGED <<tags, titles, issue, edits, release, mr, bug, link>>

World == \/ \E t \in Tags : EditTag(t)
         \/ \E q \in Requests : EditTitle(q)
         \/ \E k \in Keys : EditIssue(k)

Next == \/ World
        \/ ~Skipped /\ (\/ CollectGitLab \/ CollectJira \/ MapBugs \/ ResolveFixes
                        \/ Hydrate \/ ComputeLead)
        \/ StepFails
        \/ NextRun

Spec == Init /\ [][Next]_vars
-----------------------------------------------------------------------------
TypeOK == /\ tags \in SUBSET Tags /\ release \in SUBSET Tags
          /\ titles \in [Requests -> Keys \cup {None}]
          /\ link \in SUBSET (Keys \X Tags)
          /\ \A q \in Stored : mr[q].key \in Keys \cup {None} /\ mr[q].tag \in Tags \cup {None}
          /\ stage \in 1..Ended /\ today \in FirstDay..LastDay

(* Within the lookback a merge request names only a stored release to customers,    *)
(* one that came after the merge, and its lead time is that from its own first       *)
(* commit to this very release: neither removed tags nor reconciliation leave it     *)
(* the times of a release that is gone.  (Older requests keep their tag for ever.)   *)
RecentAreReleased ==
  \A q \in Stored : Recent(q) /\ mr[q].tag # None =>
     /\ mr[q].tag \in release \cap CustomerTags
     /\ mr[q].wait >= 0
     /\ mr[q].lead = IF mr[q].commit = None THEN None ELSE TagDate[mr[q].tag] - mr[q].commit

(* The day at which an issue was ready for QA never outlives the change of a        *)
(* request's key to another issue.                                                  *)
QaIsOfKey == \A q \in Stored : mr[q].qa # None => mr[q].qa.of = mr[q].key

(* After a night without failures the links of bugs and releases are those of the   *)
(* stored names, and the release that fixed a bug exists unless an old merge        *)
(* request names it.                                                                *)
LinksMatch == link = {l \in Keys \X release : bug[l[1]] # None
                                              /\ Version(l[2]) = bug[l[1]].jira.affects}
FixesExist == \A k \in Keys : CountsForMttr(k) /\ bug[k].fixTag \notin release \cup {None} =>
                 \E q \in Fixes(k) : ~Recent(q) /\ mr[q].tag = bug[k].fixTag
CleanNight == stage = Ended /\ failed = "nothing" => LinksMatch /\ FixesExist

DoraConsistent == RecentAreReleased /\ QaIsOfKey /\ CleanNight

(* However incomplete the answer of GitLab, a collection leaves a release where      *)
(* there was one, and half as many as before once there are more than ten.          *)
(* (It may delete more than half: what it has found new counts as found.)            *)
LeavesHalf ==
  /\ release # {} => release' # {}
  /\ Cardinality(release) > GuardAbove => Cardinality(release') >= Cardinality(release) \div 2

(* A request that was known before a collection, and whose commit is in a release to  *)
(* customers that was known as well and came after the merge, has a release after it, *)
(* however long it took to be found.                                                 *)
MapsWhatIsKnown ==
  At("gitlab") /\ failed' = "nothing" /\ stage' # stage =>
    \A q \in Stored : Eligible(q, release \cap release') # {} => mr'[q].tag # None
ReleasesAreKept == [][LeavesHalf /\ MapsWhatIsKnown]_vars
=============================================================================
