--------------------------- MODULE UserAssignments ---------------------------
(* Roles and teams of Jira users over time (services/jira_user_assignments.py,      *)
(* services/admin_jira_users_service.py): rows with a range of validity, the admin  *)
(* requests that close one row and open the next, and how the row for a user and a  *)
(* day is found.  Requests run in threads, without a lock.                          *)
EXTENDS Integers, FiniteSets, FiniteSetsExt

CONSTANTS Users,
          Requests,  \* requests of the admin
          Roles,     \* role -> scope, of the rules that are active
          Teams,     \* names of teams, with NoTeam
          NoTeam,
          None,
          Done,      \* an answered request
          LastDay

VARIABLES known,     \* table jira_users
          excluded,  \* users excluded from reporting
          rows,      \* table jira_user_role_assignment
          today,
          request    \* per request: [user, role, team, current, day, overlapped], None or Done

vars == <<known, excluded, rows, today, request>>

Open == {r \in Requests : request[r] \notin {None, Done}}
Days == 1..LastDay

Init == /\ known \in SUBSET Users
        /\ excluded = {}
        /\ rows = {}
        /\ today = 1
        /\ request = [r \in Requests |-> None]
-----------------------------------------------------------------------------
Of(u, table) == {row \in table : row.user = u}
ValidOn(row, day) == row.from <= day /\ (row.to = None \/ row.to >= day)
Latest(some) == {row \in some : \A other \in some : other.from <= row.from}

(* Rows with a team come before those without, then the later ones. *)
Best(some) ==
  LET teamed == {row \in some : row.team # NoTeam}
  IN  Latest(IF teamed = {} THEN some ELSE teamed)

(* The row for a day: the latest that is valid, else the best of those that began   *)
(* before, else the best of all.  Of several that are equal the database decides.   *)
Picks(table, u, day) ==
  LET mine == Of(u, table)
      valid == {row \in mine : ValidOn(row, day)}
      begun == {row \in mine : row.from <= day}
  IN  IF valid # {} THEN Latest(valid) ELSE IF begun # {} THEN Best(begun) ELSE Best(mine)

(* Reports leave out excluded users. *)
Resolve(u, day) == IF u \in excluded THEN {} ELSE Picks(rows, u, day)

(* Rows that the calculation of hours by role reads: valid on the day, the one with  *)
(* the highest id last.                                                              *)
ListWorklogAssignments(day) == {row \in rows : ValidOn(row, day) /\ row.user \notin excluded}
ByAccount(u, day) == LET mine == Of(u, ListWorklogAssignments(day))
                     IN  {row \in mine : \A other \in mine : other.id <= row.id}

NextId == Cardinality(rows) + 1
Row(p) == [id |-> NextId, user |-> p.user, role |-> p.role, team |-> p.team,
           from |-> p.day, to |-> None, overlapped |-> p.overlapped]

Closed(current, day) == IF current.to = None \/ current.to >= day
                        THEN [current EXCEPT !.to = day - 1] ELSE current

(* A row that says the same stays.  Otherwise it ends yesterday, although it may     *)
(* have begun today, and a new one begins today.                                     *)
Upserted(p) ==
  IF p.current # None /\ p.current.role = p.role /\ p.current.team = p.team THEN rows
  ELSE {row \in rows : p.current = None \/ row.id # p.current.id}
       \cup (IF p.current = None THEN {} ELSE {Closed(p.current, p.day)})
       \cup {Row(p)}

Put(u, role, team, current) == [user |-> u, role |-> role, team |-> team, current |-> current,
                                day |-> today, overlapped |-> \E o \in Open : request[o].user = u]
Current(u) == IF Of(u, rows) = {} THEN {None} ELSE Picks(rows, u, today)

(* An unknown role and a role that works for its team only, without a team, are      *)
(* refused; the current row is read.                                                 *)
BeginPut(r) ==
  /\ request[r] = None
  /\ \E u \in known, role \in DOMAIN Roles, team \in Teams :
       /\ Roles[role] = "team_only" => team # NoTeam
       /\ \E current \in Current(u) :
            request' = [q \in Requests |->
              IF q = r THEN Put(u, role, team, current)
              ELSE IF q \in Open /\ request[q].user = u
                   THEN [request[q] EXCEPT !.overlapped = TRUE] ELSE request[q]]
  /\ UNCHANGED <<known, excluded, rows, today>>

CommitPut(r) ==
  /\ r \in Open
  /\ rows' = Upserted(request[r])
  /\ request' = [request EXCEPT ![r] = Done]
  /\ UNCHANGED <<known, excluded, today>>

PatchUser(u) ==
  /\ u \in known
  /\ excluded' = IF u \in excluded THEN excluded \ {u} ELSE excluded \cup {u}
  /\ UNCHANGED <<known, rows, today, request>>

NextDay == /\ today < LastDay
           /\ today' = today + 1
           /\ UNCHANGED <<known, excluded, rows, request>>

Next == \/ \E r \in Requests : BeginPut(r) \/ CommitPut(r)
        \/ \E u \in Users : PatchUser(u)
        \/ NextDay

Spec == Init /\ [][Next]_vars
-----------------------------------------------------------------------------
TypeOK == /\ known \in SUBSET Users /\ excluded \in SUBSET Users /\ today \in Days
          /\ \A row \in rows : row.user \in known /\ row.from \in Days /\ row.to \in Days \cup {0, None}

(* Two rows of a user are valid on one day only if a row of that user was written by *)
(* a request that was open together with another for the same user.  It need not be *)
(* one of the two: of rows left open by an overlap a later request closes one only.  *)
OneRowPerDay ==
  \A day \in Days : \A p, q \in rows :
    p # q /\ p.user = q.user /\ ValidOn(p, day) /\ ValidOn(q, day)
      => \E row \in Of(p.user, rows) : row.overlapped

(* What the two readers of the table say of today is then the same.                  *)
ReadersAgree ==
  \A u \in Users \ excluded :
    Of(u, rows) # {} /\ (\A row \in Of(u, rows) : ~row.overlapped)
      => ByAccount(u, today) = Resolve(u, today)

(* A change made while no other for the user is open never rewrites the role and     *)
(* team of an earlier day that had a row, and is what counts from then on.           *)
Answer(table, u, day) == {<<row.role, row.team>> : row \in Picks(table, u, day)}
Committed == {r \in Open : request'[r] = Done}
KeepsHistory ==
  \A r \in Committed : ~request[r].overlapped =>
    \A u \in Users, day \in 1..(request[r].day - 1) :
      (\E row \in Of(u, rows) : ValidOn(row, day)) => Answer(rows', u, day) = Answer(rows, u, day)
LatestCounts ==
  \A r \in Committed :
    /\ request[r].day = today /\ ~request[r].overlapped
    /\ \A row \in Of(request[r].user, rows) : ~row.overlapped
    => Answer(rows', request[r].user, today) = {<<request[r].role, request[r].team>>}
AssignmentsSound == OneRowPerDay /\ ReadersAgree
AssignmentsKept == [][KeepsHistory /\ LatestCounts]_vars
=============================================================================
