---------------------------- MODULE StatusAnalysis ----------------------------
(* What the transitions of issues say about waiting and rework                      *)
(* (jira_analytics/workflow/status_intervals.py, status_waiting.py, thrash.py): the  *)
(* history of an issue is cut into intervals, these into days per status within the  *)
(* days a report asks for, and transitions back and forth are counted.               *)
EXTENDS Integers, FiniteSetsExt, SequencesExt

CONSTANTS Issues,
          Priority,      \* issue -> its priority
          Columns,       \* the priorities that have a column in a report
          Statuses,      \* status names as Jira writes them
          Display,       \* status -> the condensed name a report shows
          Excluded,      \* shown names that are not reported (done)
          Closed,        \* statuses that count as closed (done, closed, resolved)
          Declared,      \* sequence of the shown names of the workflow
          Rank,          \* shown name -> its place in the alphabet
          None, LastDay

VARIABLES history,   \* issue -> sequence of its transitions [from, to, at]
          resolved,  \* issue -> when it was resolved, or None
          now

vars == <<history, resolved, now>>
Calendar == 0..LastDay
Ranges == {r \in [from : Calendar, to : Calendar] : r.from <= r.to}
Ever == [from |-> None, to |-> None]
DisplayNames == {Display[s] : s \in Statuses}

Init == /\ history = [i \in Issues |-> <<>>]
        /\ resolved = [i \in Issues |-> None]
        /\ now = 0

Status(i) == IF history[i] = <<>> THEN None ELSE Last(history[i]).to

(* Somebody moves an issue, once in a day.  Jira stamps the resolution when an issue *)
(* is closed, keeps the stamp between closed statuses and removes it when reopened.  *)
Move(i, s) ==
  /\ s # Status(i)
  /\ history' = [history EXCEPT ![i] = Append(@, [from |-> Status(i), to |-> s, at |-> now])]
  /\ resolved' = [resolved EXCEPT ![i] = IF s \notin Closed THEN None ELSE IF @ = None THEN now ELSE @]
Rest == UNCHANGED <<history, resolved>>
Next == /\ now < LastDay
        /\ now' = now + 1
        /\ \/ \E i \in Issues, s \in Statuses : Move(i, s)
           \/ Rest
Spec == Init /\ [][Next]_vars
-----------------------------------------------------------------------------
(* The places of the transitions that a report loads: none after its last day; those  *)
(* before its first day only of issues that were open then.                           *)
InScope(i, t, r) ==
  /\ r.to # None => t.at <= r.to
  /\ r.from # None => \/ t.at >= r.from \/ resolved[i] = None \/ resolved[i] >= r.from
Loaded(i, r) == {n \in DOMAIN history[i] : InScope(i, history[i][n], r)}

(* An interval lasts until the next transition loaded, the last one until the issue   *)
(* is resolved or until now.                                                         *)
Intervals(i, r) ==
  LET rows == Loaded(i, r)
      Later(n) == {m \in rows : m > n}
      End(n) == IF Later(n) # {} THEN history[i][Min(Later(n))].at ELSE IF resolved[i] # None THEN resolved[i] ELSE now
  IN  [n \in rows |-> [status |-> history[i][n].to, start |-> history[i][n].at, end |-> End(n)]]

(* Mutant of Clip: the last day of the report is left out. *)
ClipBefore(v, r) ==
  LET start == IF r.from = None THEN v.start ELSE Max({v.start, r.from})
      end == IF r.to = None THEN v.end ELSE Min({v.end, r.to})
  IN  Max({0, end - start})

(* The days of an interval that are days of the report. *)
Clip(v, r) ==
  LET start == IF r.from = None THEN v.start ELSE Max({v.start, r.from})
      end == IF r.to = None THEN v.end ELSE Min({v.end, r.to + 1})
  IN  Max({0, end - start})

(* The intervals of an issue cut to the report, under the names that are shown. *)
Cut(i, all, r) ==
  {[issue |-> i, place |-> n, status |-> Display[all[n].status], days |-> Clip(all[n], r)] : n \in DOMAIN all}
Days(points) == SumFunction([q \in points |-> q.days])
In(s, points) == {q \in points : q.status = s}

(* The points of a report: the cuts with days in them, of names that are reported. *)
Points(r) == UNION {{q \in Cut(i, Intervals(i, r), r) : q.status \notin Excluded /\ q.days > 0} : i \in Issues}

(* An average is a quotient: the days of the issues and how many issues they are of.   *)
(* Per status: the average of all issues and one per priority that has a column and    *)
(* an issue; other priorities count in the first only.  The medians beside the         *)
(* averages and the rounding to two places are left out.                              *)
Average(points) == [days |-> Days(points), issues |-> Cardinality({q.issue : q \in points})]
RowOf(s, points) ==
  [status |-> s, unique_issue_count |-> Cardinality({q.issue : q \in points}),
   average_days_all_priorities |-> Average(points),
   average_by_priority |-> [p \in Columns \cap {Priority[q.issue] : q \in points} |->
                              Average({q \in points : Priority[q.issue] = p})]]

(* The names in the order of the workflow; those it does not declare behind, by the  *)
(* median of their places in the issues (doubled here), then by name.                 *)
MedianPlace(s, points) ==
  LET First(i) == Min({q.place : q \in {p \in points : p.issue = i /\ p.status = s}})
      Place(i) == Cardinality({q.status : q \in {p \in points : p.issue = i /\ p.place < First(i)}})
      sorted == SetToSortSeq({[issue |-> q.issue, place |-> Place(q.issue)] : q \in In(s, points)},
                             LAMBDA a, b : a.place < b.place)
      n == Len(sorted)
  IN  sorted[(n + 1) \div 2].place + sorted[(n + 2) \div 2].place
OrderStatuses(points) ==
  LET declared == SelectSeq(Declared, LAMBDA s : \E q \in points : q.status = s)
      others == {[status |-> s, median |-> MedianPlace(s, points)] : s \in {q.status : q \in points} \ ToSet(declared)}
      Earlier(a, b) == a.median < b.median \/ (a.median = b.median /\ Rank[a.status] < Rank[b.status])
      extras == SetToSortSeq(others, Earlier)
  IN  declared \o [n \in DOMAIN extras |-> extras[n].status]
Rows(points) == LET order == OrderStatuses(points) IN [n \in DOMAIN order |-> RowOf(order[n], In(order[n], points))]

(* The transitions of the days of the report, three for each reopening and two for    *)
(* each return to the status before the last.                                        *)
Thrash(i, r) ==
  LET h == history[i]
      rows == {n \in DOMAIN h : h[n].at \in r.from..r.to}
      reopens == {n \in rows : h[n].from \in Closed /\ h[n].to \notin Closed}
      pingpong == {n \in rows : {n - 2, n - 1} \subseteq rows /\ h[n].to = h[n - 2].to /\ h[n].to # h[n - 1].to}
  IN  Cardinality(rows) + 3 * Cardinality(reopens) + 2 * Cardinality(pingpong)
-----------------------------------------------------------------------------
TypeOK == /\ \A i \in Issues : history[i] \in Seq([from : Statuses \cup {None}, to : Statuses, at : Calendar])
          /\ resolved \in [Issues -> Calendar \cup {None}]
          /\ now \in Calendar

(* An issue that moves on after its resolution has days that a report may not see: its *)
(* last interval ends at the resolution, and a later transition may not be loaded.  A   *)
(* range has all of its days when it does not move, or the range ends before.          *)
Settled(i) == resolved[i] # None => Last(history[i]).at = resolved[i]
Complete(i, r) == Settled(i) \/ r.to < resolved[i]
Cuts(i, r) == Cut(i, Intervals(i, r), r)

(* The transitions left out by the range are ones it does not need: an issue has the  *)
(* days per status that its whole history gives, and never more.                      *)
RangeLosesNothing ==
  \A i \in Issues, r \in Ranges :
    LET some == Cuts(i, r)
        whole == Cut(i, Intervals(i, Ever), r)
    IN  \A s \in DisplayNames : /\ Days(In(s, some)) <= Days(In(s, whole))
                                /\ Complete(i, r) => Days(In(s, some)) = Days(In(s, whole))

(* An issue is in one status at a time: its days in a range are never more than the    *)
(* range has, and those of two ranges that follow each other never more than those of  *)
(* both together, and no less where the range has all days; also for the scores.       *)
RangesAddUp ==
  \A i \in Issues, r \in Ranges :
    LET total == Days(Cuts(i, r))
        Until(d) == [from |-> r.from, to |-> d]
        Since(d) == [from |-> d + 1, to |-> r.to]
    IN  /\ total <= r.to - r.from + 1
        /\ \A d \in r.from..(r.to - 1) :
             /\ Days(Cuts(i, Until(d))) + Days(Cuts(i, Since(d))) <= total
             /\ Complete(i, r) => Days(Cuts(i, Until(d))) + Days(Cuts(i, Since(d))) = total
             /\ Thrash(i, Until(d)) + Thrash(i, Since(d)) <= Thrash(i, r)

(* The averages of a row weighed by their issues: those of the columns and the issues   *)
(* whose priority has no column make up the average of all, in days and in issues.     *)
RowsByPriority ==
  \A r \in Ranges :
    LET points == Points(r)
        rows == Rows(points)
    IN  \A n \in DOMAIN rows :
          LET by == rows[n].average_by_priority
              others == Average({q \in In(rows[n].status, points) : Priority[q.issue] \notin Columns})
          IN  rows[n].average_days_all_priorities =
                [days |-> SumFunction([p \in DOMAIN by |-> by[p].days]) + others.days,
                 issues |-> SumFunction([p \in DOMAIN by |-> by[p].issues]) + others.issues]

(* The table has each status once and its days are those of the issues. *)
RowsAreWhole ==
  \A r \in Ranges :
    LET points == Points(r)
        rows == Rows(points)
    IN  /\ \A m, n \in DOMAIN rows : rows[m].status = rows[n].status => m = n
        /\ MapThenSumSet(LAMBDA n : rows[n].average_days_all_priorities.days, DOMAIN rows) = Days(points)

StatusesAddUp == RangeLosesNothing /\ RangesAddUp /\ RowsByPriority /\ RowsAreWhole
=============================================================================
