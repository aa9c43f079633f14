----------------------------- MODULE PagedFetch -----------------------------
(* Reading a collection of a remote service page by page, while it changes there   *)
(* and requests fail (GitLabTagsClient, JiraBugsClient, JiraAnalyticsClient,       *)
(* HrworksClient).  The services are external; each step of the client is one HTTP *)
(* request with its answer.                                                        *)
EXTENDS Integers, Sequences, FiniteSets, SequencesExt

CONSTANTS Items,      \* items of the collection
          Kinds,      \* collections: subset of AllKinds
          PageSize,   \* items the client takes for a full page: 50 or 100
          Caps,       \* numbers of items that a service may be willing to send at a time
          Attempts,   \* stop_after_attempt: 4
          MaxChanges  \* bound on changes of the collection during a fetch

AllKinds == {"tags", "merge_requests", "commits", "refs", "persons", "worklogs", "changelog",
             "workflows", "search"}
ShortPage == {"tags", "merge_requests", "commits", "refs", "persons"}
Numbered == {"worklogs", "changelog"}
NewestFirst == {"tags", "merge_requests"}

VARIABLES kind, list,      \* the collection at the service, in the order it is sent
          cap,             \* items the service sends at a time
          base,            \* its items when the fetch began
          inserted, touched, removed,  \* items changed since
          offset, got,     \* client: position asked for next, items received
          attempt, login,  \* failed attempts of this request, of the login within it
          token,           \* HRworks: a token was obtained
          calls,           \* HTTP calls made for this request
          outcome          \* "open", "done" or "failed"

world == <<kind, cap, base, list, inserted, touched, removed>>
vars == <<world, offset, got, attempt, login, token, calls, outcome>>

Init == /\ kind \in Kinds /\ cap \in Caps
        /\ list \in {s \in SeqOf(Items, Cardinality(Items)) : IsInjective(s)}
        /\ base = Range(list)
        /\ inserted = {} /\ touched = {} /\ removed = {}
        /\ offset = 0 /\ got = <<>>
        /\ attempt = 0 /\ login = 0 /\ token = FALSE /\ calls = 0
        /\ outcome = "open"

Client == <<offset, got, attempt, login, token, calls, outcome>>
Changes == Cardinality(inserted) + Cardinality(touched) + Cardinality(removed)
Changing == outcome = "open" /\ Changes < MaxChanges
-----------------------------------------------------------------------------
(* The collection changes.  GitLab sends what is new or updated first, Jira what is *)
(* old.                                                                             *)
Insert(x) == /\ Changing
             /\ x \notin base \cup inserted
             /\ list' = IF kind \in NewestFirst THEN <<x>> \o list ELSE Append(list, x)
             /\ inserted' = inserted \cup {x}
             /\ UNCHANGED <<kind, cap, base, touched, removed, Client>>

(* An item is at one place only. *)
Place(x) == CHOOSE i \in DOMAIN list : list[i] = x
Others(x) == RemoveAt(list, Place(x))

Touch(x) == /\ Changing
            /\ kind = "merge_requests"
            /\ Contains(list, x) /\ x \notin touched
            /\ list' = <<x>> \o Others(x)
            /\ touched' = touched \cup {x}
            /\ UNCHANGED <<kind, cap, base, inserted, removed, Client>>

Delete(x) == /\ Changing
             /\ Contains(list, x)
             /\ list' = Others(x)
             /\ removed' = removed \cup {x}
             /\ UNCHANGED <<kind, cap, base, inserted, touched, Client>>
-----------------------------------------------------------------------------
(* The HRworks client logs in before its first request, with a request that has     *)
(* attempts of its own, and never again.                                            *)
NeedsLogin == kind = "persons" /\ ~token
Asking == outcome = "open" /\ ~NeedsLogin

Lesser(m, n) == IF m < n THEN m ELSE n
Page(size) == SubSeq(list, offset + 1, Lesser(offset + size, Len(list)))

(* A page is as large as asked for, unless the service sends fewer items at a time.  *)
(* HRworks is not asked for a size: it sends pages of its own.                       *)
Sent == IF kind = "persons" THEN cap ELSE Lesser(PageSize, cap)

Answered(page, next, last) ==
  /\ got' = got \o page
  /\ offset' = next
  /\ outcome' = IF last THEN "done" ELSE "open"
  /\ attempt' = 0 /\ login' = 0
  /\ calls' = IF last THEN calls + 1 ELSE 0
  /\ UNCHANGED <<world, token>>

(* Pages by number, until one is shorter than a full one. *)
ShortPageEnds == LET page == Page(Sent)
                 IN  Answered(page, offset + Sent, Len(page) < PageSize)
ListTags == Asking /\ kind = "tags" /\ ShortPageEnds
ListMergeRequests == Asking /\ kind = "merge_requests" /\ ShortPageEnds
ListCommits == Asking /\ kind = "commits" /\ ShortPageEnds
ListRefs == Asking /\ kind = "refs" /\ ShortPageEnds
ListPersons == Asking /\ kind = "persons" /\ ShortPageEnds

(* Mutant of TotalEnds: the offset advances by the size that was asked for. *)
TotalEndsAsked == Answered(Page(Sent), offset + PageSize, offset + PageSize >= Len(list))

(* Pages by offset, which advances by the page size that the answer reports, until  *)
(* the total it reports.                                                            *)
TotalEnds == Answered(Page(Sent), offset + Sent, offset + Sent >= Len(list))
ListBugWorklogs == Asking /\ kind = "worklogs" /\ TotalEnds
ListBugChangelog == Asking /\ kind = "changelog" /\ TotalEnds
ListWorklogs == Asking /\ kind = "worklogs" /\ TotalEnds
ListChangelog == Asking /\ kind = "changelog" /\ TotalEnds

(* Pages by offset, which advances by what was received, until an empty page or one *)
(* marked as the last.                                                              *)
ListWorkflows == /\ Asking /\ kind = "workflows"
                 /\ LET page == Page(Sent)
                    IN  Answered(page, offset + Len(page), offset + Len(page) >= Len(list))

(* Pages by a token of the service, until it sends none. *)
TokenEnds == LET page == Page(Sent)
             IN  Answered(page, offset + Len(page), offset + Len(page) >= Len(list))
SearchBugs == Asking /\ kind = "search" /\ TokenEnds
SearchIssues == Asking /\ kind = "search" /\ TokenEnds
-----------------------------------------------------------------------------
(* Mutant of Failed: one attempt too many. *)
FailedOnceMore(n) == IF n < Attempts
                     THEN attempt' = n + 1 /\ UNCHANGED outcome
                     ELSE attempt' = n /\ outcome' = "failed"

(* A request that fails with 429, a server error or no answer is tried again, up to *)
(* four times; any other error of the service ends the fetch.                       *)
Failed(n) == IF n + 1 < Attempts
             THEN attempt' = n + 1 /\ UNCHANGED outcome
             ELSE attempt' = n /\ outcome' = "failed"

RequestFails == /\ Asking
                /\ \/ Failed(attempt)
                   \/ outcome' = "failed" /\ UNCHANGED attempt
                /\ calls' = calls + 1
                /\ UNCHANGED <<world, offset, got, login, token>>
BugRequestFails == kind \in Numbered \cup {"search"} /\ RequestFails
JiraRequestFails == kind \in Numbered \cup {"search", "workflows"} /\ RequestFails
GitLabRequestFails == kind \in ShortPage \ {"persons"} /\ RequestFails
HrworksRequestFails == kind = "persons" /\ RequestFails

Login == /\ outcome = "open" /\ NeedsLogin
         /\ token' = TRUE
         /\ login' = 0
         /\ calls' = calls + 1
         /\ UNCHANGED <<world, offset, got, attempt, outcome>>

(* A login whose attempts are used up counts as one failed attempt of the request   *)
(* that needed it, which then logs in with new attempts.                            *)
LoginFails == /\ outcome = "open" /\ NeedsLogin
              /\ \/ IF login + 1 < Attempts
                    THEN login' = login + 1 /\ UNCHANGED <<attempt, outcome>>
                    ELSE login' = 0 /\ Failed(attempt)
                 \/ outcome' = "failed" /\ UNCHANGED <<attempt, login>>
              /\ calls' = calls + 1
              /\ UNCHANGED <<world, offset, got, token>>

Service == \E x \in Items : Insert(x) \/ Touch(x) \/ Delete(x)

Next == \/ Service
        \/ ListTags \/ ListMergeRequests \/ ListCommits \/ ListRefs \/ ListPersons
        \/ ListBugWorklogs \/ ListBugChangelog \/ ListWorklogs \/ ListChangelog
        \/ ListWorkflows \/ SearchBugs \/ SearchIssues
        \/ BugRequestFails \/ JiraRequestFails \/ GitLabRequestFails \/ HrworksRequestFails
        \/ Login \/ LoginFails

Spec == Init /\ [][Next]_vars
-----------------------------------------------------------------------------
TypeOK == /\ kind \in AllKinds /\ cap \in Caps
          /\ Range(list) \subseteq Items /\ Range(got) \subseteq Items
          /\ attempt \in 0..Attempts - 1 /\ login \in 0..Attempts - 1
          /\ outcome \in {"open", "done", "failed"}

(* Items of the collection that were there all the time, as they were.              *)
Constant == base \ (touched \cup removed)

(* A service that sends fewer items than a full page has makes a reader stop that   *)
(* takes any such page for the last one.  Nothing in the client tells it from a     *)
(* small collection.                                                                *)
StopsShort == kind \in ShortPage /\ cap < PageSize

(* A fetch that ends normally and does not stop short has every item that stayed as *)
(* it was, except one for each item removed meanwhile: neither new items, nor those *)
(* that are updated, nor retries make it miss another one.  (An updated item itself *)
(* is missed if it moves to a page that was read.)                                  *)
LossIsBounded ==
  outcome = "done" /\ ~StopsShort => Cardinality(Constant \ Range(got)) <= Cardinality(removed)

(* Of a collection that does not change, each item is received once and in order,   *)
(* or those of the first page by a reader that stops short.                         *)
OnceIfUnchanged ==
  outcome = "done" /\ Changes = 0 =>
    got = IF StopsShort THEN SubSeq(list, 1, Lesser(cap, Len(list))) ELSE list

(* Retries of a login within retries of a request multiply, but not beyond one more *)
(* than the square of the attempts.                                                 *)
CallsBounded ==
  calls <= IF kind = "persons" THEN Attempts * Attempts + 1 ELSE Attempts

FetchIsComplete == LossIsBounded /\ OnceIfUnchanged /\ CallsBounded
=============================================================================
