------------------------ MODULE SyncPipelinesProofs ------------------------
(***************************************************************************)
(* A successful run of the HRworks or of the Jira pipeline has its changes *)
(* in the monthly effort, for any number of runs and months: whatever the  *)
(* runs beside it commit, and whoever repairs the rows.                    *)
(***************************************************************************)
EXTENDS SyncPipelines, TLAPS

(* A run is one of one pipeline. *)
Apart == HrRuns \cap JiraRuns = {}

RowStatus == {"none", "running", "success", "partial_failure", "failed", "crashed"}

Labels == {"idle", "load", "credentials", "ingestion", "workflows", "membership", "allocation",
           "rebuild", "finish", "ended"}

Thread ==
    [at : Labels, errors : BOOLEAN, processed : BOOLEAN, touched : SUBSET Months,
     read : {<<>>} \cup [Months -> SUBSET PipelineRuns], overlapped : BOOLEAN]

ThreadsOK ==
    /\ row \in [PipelineRuns -> RowStatus]
    /\ old \in SUBSET PipelineRuns
    /\ thread \in [PipelineRuns -> Thread]
    /\ written \in [Months -> SUBSET PipelineRuns]
    /\ included \in [Months -> SUBSET PipelineRuns]
    /\ \A r \in Rebuilding : thread[r].read \in [Months -> SUBSET PipelineRuns]

Wrote(r, m) == r \in written[m]

(* Before its rebuild the HRworks pipeline knows every month it has committed. *)
Remembered(r) ==
    r \in HrRuns /\ thread[r].at \in Labels \ {"finish", "ended"} =>
        \A m \in Months : Wrote(r, m) => m \in thread[r].touched

(* A rebuild that was alone has read the changes of its run, and is still alone. *)
ReadOwn(r) ==
    thread[r].at = "rebuild" /\ ~thread[r].overlapped =>
        /\ Rebuilding = {r}
        /\ \A m \in Months : Wrote(r, m) => r \in thread[r].read[m]

(* The run is through its rebuild, without an error. *)
Through(r) ==
    \/ row[r] = "success"
    \/ thread[r].at = "finish" /\ ~thread[r].errors

(* Its changes are in the monthly effort, and in what open rebuilds have read. *)
Settled(r) ==
    Through(r) /\ ~thread[r].overlapped =>
        \A m \in Months : Wrote(r, m) =>
            /\ r \in included[m]
            /\ \A q \in Rebuilding : r \in thread[q].read[m]

AllocatedInv ==
    /\ \A r \in PipelineRuns : Remembered(r) /\ ReadOwn(r) /\ Settled(r)
    /\ \A r \in PipelineRuns : row[r] = "success" => thread[r].at = "ended"
Inv == ThreadsOK /\ AllocatedInv

LEMMA ThreadOf ==
  ASSUME ThreadsOK, NEW r \in PipelineRuns
  PROVE  /\ thread[r].at \in Labels /\ thread[r].errors \in BOOLEAN
         /\ thread[r].processed \in BOOLEAN /\ thread[r].overlapped \in BOOLEAN
         /\ thread[r].touched \in SUBSET Months
         /\ thread[r].read \in {<<>>} \cup [Months -> SUBSET PipelineRuns]
  BY DEF ThreadsOK, Thread

-----------------------------------------------------------------------------
(* What a step does to the thread of its run *)

OthersKept(q) == \A r \in PipelineRuns \ {q} : thread'[r] = thread[r] /\ row'[r] = row[r]

ChangesOfOthersKept(q) ==
    \A r \in PipelineRuns \ {q}, m \in Months : r \in written'[m] <=> Wrote(r, m)

(* The run is under way, outside its rebuild; if it goes straight to the end, it has
   changed nothing or reports an error. *)
Walks(q) ==
    /\ thread[q].at \notin {"finish", "ended"}
    /\ thread'[q].at # "rebuild"
    /\ row'[q] # "success"
    /\ Remembered(q)'
    /\ thread'[q].at = "finish" /\ ~thread'[q].errors => \A m \in Months : ~Wrote(q, m)'
    /\ OthersKept(q) /\ ChangesOfOthersKept(q)
    /\ UNCHANGED included

LEMMA UpdateThread ==
  ASSUME ThreadsOK, NEW q \in PipelineRuns, NEW x \in Thread,
         thread' = [thread EXCEPT ![q] = x]
  PROVE  /\ thread' \in [PipelineRuns -> Thread] /\ thread'[q] = x
         /\ \A r \in PipelineRuns \ {q} : thread'[r] = thread[r]
  BY DEF ThreadsOK

(* A thread that is not in its rebuild needs no snapshot of the data. *)
LEMMA RebuildReads ==
  ASSUME ThreadsOK, NEW q \in PipelineRuns, thread'[q].at # "rebuild",
         \A r \in PipelineRuns \ {q} : thread'[r] = thread[r]
  PROVE  \A r \in Rebuilding' : thread'[r].read \in [Months -> SUBSET PipelineRuns]
  BY DEF ThreadsOK, Rebuilding

LEMMA WalkStep ==
  ASSUME Inv, NEW q \in PipelineRuns, NEW x \in Thread,
         thread' = [thread EXCEPT ![q] = x],
         thread[q].at \notin {"finish", "ended"}, x.at # "rebuild",
         row' = row \/ row' = [row EXCEPT ![q] = "running"],
         written' \in [Months -> SUBSET PipelineRuns], ChangesOfOthersKept(q),
         q \in HrRuns /\ x.at \notin {"finish", "ended"} =>
            \A m \in Months : q \in written'[m] => m \in x.touched,
         x.at = "finish" /\ ~x.errors => \A m \in Months : q \notin written'[m],
         UNCHANGED <<old, included>>
  PROVE  Walks(q) /\ ThreadsOK'
<1>1. /\ thread' \in [PipelineRuns -> Thread] /\ thread'[q] = x
      /\ \A r \in PipelineRuns \ {q} : thread'[r] = thread[r]
  BY UpdateThread DEF Inv
<1>2. \A r \in Rebuilding' : thread'[r].read \in [Months -> SUBSET PipelineRuns]
  BY <1>1, RebuildReads DEF Inv
<1>3. /\ row' \in [PipelineRuns -> RowStatus] /\ row'[q] # "success"
      /\ \A r \in PipelineRuns \ {q} : row'[r] = row[r]
  BY DEF Inv, ThreadsOK, AllocatedInv, RowStatus
<1>4. ThreadsOK'
  BY <1>1, <1>2, <1>3 DEF Inv, ThreadsOK
<1>5. Remembered(q)'
  BY <1>1 DEF Remembered, Wrote
<1>6. thread'[q].at = "finish" /\ ~thread'[q].errors => \A m \in Months : ~Wrote(q, m)'
  BY <1>1 DEF Wrote
<1> QED BY <1>1, <1>3, <1>4, <1>5, <1>6 DEF Walks, OthersKept

Moves(q, label, errors, processed) ==
    thread' = [thread EXCEPT ![q] = [thread[q] EXCEPT !.at = label, !.errors = errors,
                                       !.processed = processed]]

(* The steps before the first phase, and those that change no data *)
LEMMA StillWalks ==
  ASSUME Inv, NEW q \in PipelineRuns,
         NEW label \in Labels \ {"rebuild"}, NEW errors \in BOOLEAN, NEW processed \in BOOLEAN,
         Moves(q, label, errors, processed),
         thread[q].at \notin {"finish", "ended"},
         row' = row \/ row' = [row EXCEPT ![q] = "running"],
         label = "finish" => errors,
         UNCHANGED <<old, written, included>>
  PROVE  Walks(q) /\ ThreadsOK'
<1> DEFINE x == [thread[q] EXCEPT !.at = label, !.errors = errors, !.processed = processed]
<1>1. thread[q] \in Thread
  BY DEF Inv, ThreadsOK
<1>2. x \in Thread /\ x.at = label /\ x.errors = errors /\ x.touched = thread[q].touched
  BY <1>1 DEF Thread
<1>3. thread' = [thread EXCEPT ![q] = x]
  BY DEF Moves
<1> HIDE DEF x
<1>4. written' \in [Months -> SUBSET PipelineRuns] /\ ChangesOfOthersKept(q)
  BY DEF Inv, ThreadsOK, ChangesOfOthersKept, Wrote
<1>5. Remembered(q)
  BY DEF Inv, AllocatedInv
<1>6. q \in HrRuns => \A m \in Months : q \in written'[m] => m \in x.touched
  BY <1>2, <1>5, ThreadOf DEF Inv, Remembered, Wrote
<1>7. ~(x.at = "finish" /\ ~x.errors)
  BY <1>2
<1> QED BY <1>2, <1>3, <1>4, <1>6, <1>7, WalkStep

LEMMA GotoMoves ==
  ASSUME ThreadsOK, NEW q \in PipelineRuns, NEW label, Goto(q, label)
  PROVE  Moves(q, label, thread[q].errors, thread[q].processed)
  BY DEF Goto, Moves, ThreadsOK, Thread

LEMMA GotoWalks ==
  ASSUME Inv, NEW q \in PipelineRuns, NEW label \in Labels \ {"rebuild", "finish"}, Goto(q, label),
         thread[q].at \notin {"finish", "ended"},
         row' = row \/ row' = [row EXCEPT ![q] = "running"],
         UNCHANGED <<old, written, included>>
  PROVE  Walks(q) /\ ThreadsOK'
<1>1. thread[q].errors \in BOOLEAN /\ thread[q].processed \in BOOLEAN
  BY ThreadOf DEF Inv
<1>2. Moves(q, label, thread[q].errors, thread[q].processed)
  BY GotoMoves DEF Inv
<1>3. label # "finish" /\ label \in Labels \ {"rebuild"}
  OBVIOUS
<1> QED BY <1>1, <1>2, <1>3, StillWalks, Zenon

(* An exception, with or without a snapshot of the data in memory *)
LEMMA ErrorWalks ==
  ASSUME Inv, NEW q \in PipelineRuns, NEW data \in {<<>>, thread[q].read},
         thread' = [thread EXCEPT ![q] = [thread[q] EXCEPT !.at = "finish", !.errors = TRUE,
                                            !.read = data]],
         thread[q].at \notin {"finish", "ended"},
         UNCHANGED <<row, old, written, included>>
  PROVE  Walks(q) /\ ThreadsOK'
<1> DEFINE x == [thread[q] EXCEPT !.at = "finish", !.errors = TRUE, !.read = data]
<1>1. thread[q] \in Thread
  BY DEF Inv, ThreadsOK
<1>2. x \in Thread /\ x.at = "finish" /\ x.errors
  BY <1>1 DEF Thread, Labels
<1>3. thread' = [thread EXCEPT ![q] = x]
  OBVIOUS
<1> HIDE DEF x
<1>4. written' \in [Months -> SUBSET PipelineRuns] /\ ChangesOfOthersKept(q)
  BY DEF Inv, ThreadsOK, ChangesOfOthersKept, Wrote
<1> QED BY <1>2, <1>3, <1>4, WalkStep

LEMMA PreludeWalks ==
  ASSUME Inv, NEW q \in PipelineRuns, CreateLog(q) \/ Load(q) \/ Credentials(q)
  PROVE  Walks(q) /\ ThreadsOK'
<1>1. CASE CreateLog(q)
  BY <1>1, GotoWalks DEF CreateLog, Labels
<1>2. CASE Load(q)
  BY <1>2, GotoWalks DEF Load, Labels
<1>3. CASE Credentials(q) /\ Goto(q, "ingestion")
  BY <1>3, GotoWalks DEF Credentials, Labels
<1>4. CASE Credentials(q) /\ ~Goto(q, "ingestion")
  <2>1. thread' = [thread EXCEPT ![q] = [thread[q] EXCEPT !.at = "finish", !.errors = TRUE,
                                           !.read = thread[q].read]]
    BY <1>4 DEF Credentials, Inv, ThreadsOK, Thread
  <2> QED BY <1>4, <2>1, ErrorWalks DEF Credentials
<1> QED BY <1>1, <1>2, <1>3, <1>4

LEMMA RaiseWalks ==
  ASSUME Inv, NEW q \in PipelineRuns, Raise(q)
  PROVE  Walks(q) /\ ThreadsOK'
<1>1. thread' = [thread EXCEPT ![q] = [thread[q] EXCEPT !.at = "finish", !.errors = TRUE,
                                         !.read = <<>>]]
  BY DEF Raise, Inv, ThreadsOK, Thread
<1> QED BY <1>1, ErrorWalks DEF Raise

-----------------------------------------------------------------------------
(* The collectors *)

LEMMA PersonWalks ==
  ASSUME Inv, NEW q \in PipelineRuns, CommitPerson(q)
  PROVE  Walks(q) /\ ThreadsOK'
<1>1. PICK m \in Months :
         /\ written' = [written EXCEPT ![m] = @ \cup {q}]
         /\ thread' = [thread EXCEPT ![q].touched = @ \cup {m}]
  BY DEF CommitPerson
<1> DEFINE x == [thread[q] EXCEPT !.touched = thread[q].touched \cup {m}]
<1>2. thread[q] \in Thread
  BY DEF Inv, ThreadsOK
<1>3. x \in Thread /\ x.at = "ingestion" /\ x.touched = thread[q].touched \cup {m}
  BY <1>2 DEF Thread, CommitPerson
<1>4. thread' = [thread EXCEPT ![q] = x]
  BY <1>1
<1> HIDE DEF x
<1>5. written' \in [Months -> SUBSET PipelineRuns] /\ ChangesOfOthersKept(q)
  BY <1>1 DEF Inv, ThreadsOK, ChangesOfOthersKept, Wrote
<1>6. Remembered(q)
  BY DEF Inv, AllocatedInv
<1>7. \A n \in Months : q \in written'[n] => n \in x.touched
  BY <1>1, <1>3, <1>6 DEF Inv, ThreadsOK, Remembered, Wrote, CommitPerson, Labels
<1> QED BY <1>3, <1>4, <1>5, <1>7, WalkStep DEF CommitPerson

LEMMA IssuesWalk ==
  ASSUME Apart, Inv, NEW q \in PipelineRuns, CommitIssues(q)
  PROVE  Walks(q) /\ ThreadsOK'
<1>1. PICK ms \in SUBSET Months, failed \in BOOLEAN, any \in BOOLEAN :
         /\ written' = [m \in Months |-> IF m \in ms THEN written[m] \cup {q} ELSE written[m]]
         /\ Moves(q, "workflows", failed, any)
  <2>1. PICK ms \in SUBSET Months, failed \in BOOLEAN, any \in BOOLEAN :
         /\ written' = [m \in Months |-> IF m \in ms THEN written[m] \cup {q} ELSE written[m]]
         /\ thread' = [thread EXCEPT ![q].at = "workflows", ![q].errors = failed,
                                     ![q].processed = any]
    BY DEF CommitIssues
  <2>2. Moves(q, "workflows", failed, any)
    BY <2>1 DEF Moves, Inv, ThreadsOK, Thread
  <2> QED BY <2>1, <2>2
<1> DEFINE x == [thread[q] EXCEPT !.at = "workflows", !.errors = failed, !.processed = any]
<1>2. thread[q] \in Thread
  BY DEF Inv, ThreadsOK
<1>3. x \in Thread /\ x.at = "workflows"
  BY <1>2 DEF Thread, Labels
<1>4. thread' = [thread EXCEPT ![q] = x]
  BY <1>1 DEF Moves
<1> HIDE DEF x
<1>5. written' \in [Months -> SUBSET PipelineRuns] /\ ChangesOfOthersKept(q)
  BY <1>1 DEF Inv, ThreadsOK, ChangesOfOthersKept, Wrote
<1>6. q \notin HrRuns
  BY DEF Apart, CommitIssues
<1> QED BY <1>3, <1>4, <1>5, <1>6, WalkStep DEF CommitIssues

LEMMA WorkflowsWalk ==
  ASSUME Inv, NEW q \in PipelineRuns, SyncWorkflows(q) \/ DeriveMembership(q)
  PROVE  Walks(q) /\ ThreadsOK'
<1>1. thread[q].errors \in BOOLEAN /\ thread[q].processed \in BOOLEAN
  BY ThreadOf DEF Inv
<1>2. PICK label \in Labels \ {"rebuild"}, errors \in BOOLEAN, processed \in BOOLEAN :
         Moves(q, label, errors, processed) /\ (label = "finish" => errors)
  <2>1. CASE SyncWorkflows(q)
    <3>1. PICK failed \in BOOLEAN, any \in BOOLEAN :
             thread' = [thread EXCEPT ![q].errors = @ \/ failed, ![q].processed = @ \/ any,
                                      ![q].at = "membership"]
      BY <2>1 DEF SyncWorkflows
    <3> DEFINE errors == thread[q].errors \/ failed
               processed == thread[q].processed \/ any
    <3>2. errors \in BOOLEAN /\ processed \in BOOLEAN
      OBVIOUS
    <3>3. thread' = [thread EXCEPT ![q].errors = errors, ![q].processed = processed,
                                   ![q].at = "membership"]
      BY <3>1
    <3>4. "membership" \in Labels \ {"rebuild"} /\ "membership" # "finish"
      BY DEF Labels
    <3> HIDE DEF errors, processed
    <3>5. Moves(q, "membership", errors, processed)
      BY <3>3 DEF Moves, Inv, ThreadsOK, Thread
    <3> QED BY <3>2, <3>4, <3>5
  <2>2. CASE DeriveMembership(q)
    <3> DEFINE label == IF thread[q].errors THEN "finish" ELSE "allocation"
    <3>1. PICK any \in BOOLEAN :
             thread' = [thread EXCEPT ![q].processed = @ \/ any, ![q].at = label]
      BY <2>2 DEF DeriveMembership
    <3> DEFINE processed == thread[q].processed \/ any
    <3>2. label \in Labels \ {"rebuild"} /\ (label = "finish" => thread[q].errors)
      BY DEF Labels
    <3>3. processed \in BOOLEAN
      OBVIOUS
    <3>4. thread' = [thread EXCEPT ![q].processed = processed, ![q].at = label]
      BY <3>1
    <3> HIDE DEF label, processed
    <3>5. Moves(q, label, thread[q].errors, processed)
      BY <3>4 DEF Moves, Inv, ThreadsOK, Thread
    <3> QED BY <1>1, <3>2, <3>3, <3>5
  <2> QED BY <2>1, <2>2
<1>3. thread[q].at \notin {"finish", "ended"} /\ row' = row /\ UNCHANGED <<old, written, included>>
  BY DEF SyncWorkflows, DeriveMembership
<1> QED BY <1>2, <1>3, StillWalks

LEMMA CollectedWalks ==
  ASSUME Inv, NEW q \in PipelineRuns, Collected(q)
  PROVE  Walks(q) /\ ThreadsOK'
<1>1. PICK failed \in BOOLEAN, any \in BOOLEAN :
         thread' = [thread EXCEPT ![q].errors = failed, ![q].processed = any,
                                  ![q].at = IF failed \/ thread[q].touched = {}
                                            THEN "finish" ELSE "allocation"]
  BY DEF Collected
<1> DEFINE label == IF failed \/ thread[q].touched = {} THEN "finish" ELSE "allocation"
           x == [thread[q] EXCEPT !.errors = failed, !.processed = any, !.at = label]
<1>2. thread[q] \in Thread
  BY DEF Inv, ThreadsOK
<1>3. thread' = [thread EXCEPT ![q] = x]
  BY <1>1, <1>2
<1>4. label \in Labels \ {"rebuild"} /\ (label = "finish" => failed \/ thread[q].touched = {})
  BY DEF Labels
<1> HIDE DEF label
<1>5. x \in Thread /\ x.at = label /\ x.errors = failed /\ x.touched = thread[q].touched
  BY <1>2, <1>4 DEF Thread
<1> HIDE DEF x
<1>6. written' \in [Months -> SUBSET PipelineRuns] /\ ChangesOfOthersKept(q)
  BY DEF Inv, ThreadsOK, ChangesOfOthersKept, Wrote, Collected
<1>7. \A m \in Months : q \in written'[m] => m \in x.touched
  BY <1>5 DEF Inv, AllocatedInv, Remembered, Wrote, Collected, Labels
<1>8. x.at = "finish" /\ ~x.errors => \A m \in Months : q \notin written'[m]
  BY <1>4, <1>5, <1>7
<1> QED BY <1>3, <1>4, <1>5, <1>6, <1>7, <1>8, WalkStep DEF Collected

-----------------------------------------------------------------------------
(* What the steps do to the months in the monthly effort *)

LEMMA WalksAllocated ==
  ASSUME Inv, NEW q \in PipelineRuns, Walks(q)
  PROVE  AllocatedInv'
<1>1. \A r \in PipelineRuns \ {q} : thread'[r] = thread[r] /\ row'[r] = row[r]
  BY DEF Walks, OthersKept
<1>2. \A r \in PipelineRuns \ {q}, m \in Months : Wrote(r, m)' <=> Wrote(r, m)
  BY DEF Walks, ChangesOfOthersKept, Wrote
<1>3. Rebuilding' = Rebuilding \ {q}
  BY <1>1 DEF Walks, Rebuilding
<1>4. ASSUME NEW r \in PipelineRuns
      PROVE  /\ Remembered(r)' /\ ReadOwn(r)' /\ Settled(r)'
             /\ row'[r] = "success" => thread'[r].at = "ended"
  <2>1. CASE r = q
    BY <2>1 DEF Walks, ReadOwn, Settled, Through, Wrote
  <2>2. CASE r # q
    <3>1. Remembered(r) /\ ReadOwn(r) /\ Settled(r) /\ (row[r] = "success" => thread[r].at = "ended")
      BY DEF Inv, AllocatedInv
    <3>2. Remembered(r)'
      BY <1>1, <1>2, <2>2, <3>1 DEF Remembered
    <3>3. ReadOwn(r)'
      BY <1>1, <1>2, <1>3, <2>2, <3>1 DEF ReadOwn
    <3>4. \A p \in Rebuilding' : p \in Rebuilding /\ thread'[p] = thread[p]
      BY <1>1, <1>3 DEF Rebuilding
    <3>5. Settled(r)'
      BY <1>1, <1>2, <2>2, <3>1, <3>4 DEF Settled, Through, Walks
    <3> QED BY <1>1, <2>2, <3>1, <3>2, <3>3, <3>5
  <2> QED BY <2>1, <2>2
<1> QED BY <1>4 DEF AllocatedInv

(* The threads after the rebuild of q has read its data: q is alone in its rebuild, or
   overlaps every rebuild that is open. *)
LEMMA ReadFields ==
  ASSUME Inv, NEW q \in PipelineRuns, ReadData(q)
  PROVE  /\ ThreadsOK'
         /\ thread'[q].at = "rebuild" /\ thread'[q].read = written
         /\ thread'[q].overlapped = (Rebuilding # {}) /\ thread'[q].touched = thread[q].touched
         /\ \A r \in PipelineRuns \ {q} :
               /\ thread'[r].at = thread[r].at /\ thread'[r].read = thread[r].read
               /\ thread'[r].touched = thread[r].touched /\ thread'[r].errors = thread[r].errors
               /\ r \notin Rebuilding => thread'[r].overlapped = thread[r].overlapped
               /\ r \in Rebuilding => thread'[r].overlapped
         /\ Rebuilding' = Rebuilding \cup {q}
<1> DEFINE own == [thread[q] EXCEPT !.at = "rebuild", !.read = written, !.overlapped = Rebuilding # {}]
           beside(r) == [thread[r] EXCEPT !.overlapped = TRUE]
<1>1. \A r \in PipelineRuns : thread[r] \in Thread
  BY DEF Inv, ThreadsOK
<1>2. written \in [Months -> SUBSET PipelineRuns]
  BY DEF Inv, ThreadsOK
<1>3. /\ own \in Thread /\ own.at = "rebuild" /\ own.read = written
      /\ own.overlapped = (Rebuilding # {}) /\ own.touched = thread[q].touched
  BY <1>1, <1>2 DEF Thread, Labels
<1>4. \A r \in PipelineRuns :
         /\ beside(r) \in Thread /\ beside(r).at = thread[r].at /\ beside(r).read = thread[r].read
         /\ beside(r).touched = thread[r].touched /\ beside(r).errors = thread[r].errors
         /\ beside(r).overlapped
  BY <1>1 DEF Thread
<1>5. thread' = [r \in PipelineRuns |-> CASE r = q -> own
                                          [] r \in Rebuilding -> beside(r)
                                          [] OTHER -> thread[r]]
  BY DEF ReadData
<1>6. q \notin Rebuilding
  BY DEF ReadData, Rebuilding
<1> HIDE DEF own, beside
<1>7. /\ thread'[q] = own
      /\ \A r \in PipelineRuns \ {q} :
            thread'[r] = IF r \in Rebuilding THEN beside(r) ELSE thread[r]
      /\ DOMAIN thread' = PipelineRuns
  BY <1>5, <1>6
<1>8. thread' \in [PipelineRuns -> Thread]
  BY <1>1, <1>3, <1>4, <1>5
<1>9. Rebuilding' = Rebuilding \cup {q}
  BY <1>3, <1>4, <1>7 DEF Rebuilding
<1>10. \A r \in PipelineRuns \ {q} : thread'[r].at = thread[r].at /\ thread'[r].read = thread[r].read
  BY <1>4, <1>7
<1>11. \A r \in Rebuilding' : thread'[r].read \in [Months -> SUBSET PipelineRuns]
  BY <1>2, <1>3, <1>7, <1>9, <1>10 DEF Inv, ThreadsOK, Rebuilding
<1>12. ThreadsOK'
  BY <1>8, <1>11 DEF ReadData, Inv, ThreadsOK
<1> QED BY <1>3, <1>4, <1>7, <1>9, <1>12

LEMMA ReadAllocated ==
  ASSUME Inv, NEW q \in PipelineRuns, ReadData(q)
  PROVE  ThreadsOK' /\ AllocatedInv'
<1>1. UNCHANGED <<row, written, included>> /\ thread[q].at = "allocation"
  BY DEF ReadData
<1>2. \A r \in PipelineRuns : row[r] = "success" => thread[r].at = "ended"
  BY DEF Inv, AllocatedInv
<1>3. row[q] # "success"
  BY <1>1, <1>2
<1>4. ASSUME NEW r \in PipelineRuns
      PROVE  /\ Remembered(r)' /\ ReadOwn(r)' /\ Settled(r)'
             /\ row'[r] = "success" => thread'[r].at = "ended"
  <2>1. Remembered(r) /\ ReadOwn(r) /\ Settled(r)
    BY DEF Inv, AllocatedInv
  <2>2. Remembered(r)'
    BY <1>1, <2>1, ReadFields DEF Remembered, Wrote, Labels
  <2>3. ReadOwn(r)'
    <3>1. CASE r = q
      BY <1>1, <3>1, ReadFields DEF ReadOwn, Wrote
    <3>2. CASE r # q
      BY <3>2, ReadFields DEF ReadOwn, Rebuilding
    <3> QED BY <3>1, <3>2
  <2>4. Settled(r)'
    <3> SUFFICES ASSUME Through(r)', ~thread'[r].overlapped, NEW m \in Months, Wrote(r, m)'
                 PROVE  /\ r \in included'[m]
                        /\ \A p \in Rebuilding' : r \in thread'[p].read[m]
      BY DEF Settled
    <3>1. r # q
      BY <1>1, <1>3, ReadFields DEF Through
    <3>2. r \notin Rebuilding
      BY <3>1, ReadFields
    <3>3. Through(r) /\ ~thread[r].overlapped /\ Wrote(r, m)
      BY <1>1, <3>1, <3>2, ReadFields DEF Through, Wrote
    <3>4. r \in included[m] /\ \A p \in Rebuilding : r \in thread[p].read[m]
      BY <2>1, <3>3 DEF Settled
    <3>5. ASSUME NEW p \in Rebuilding' PROVE r \in thread'[p].read[m]
      <4>1. CASE p = q
        BY <3>3, <4>1, ReadFields DEF Wrote
      <4>2. CASE p # q
        BY <3>4, <4>2, ReadFields DEF Rebuilding
      <4> QED BY <4>1, <4>2
    <3> QED BY <1>1, <3>4, <3>5
  <2> QED BY <1>1, <1>2, <1>3, <2>2, <2>3, <2>4, ReadFields
<1> QED BY <1>4, ReadFields DEF AllocatedInv


(* A commit that overlaps no other rebuild leaves none open; one that does may write
   old data back, but never over the changes of a run that is through alone. *)
LEMMA CommitAllocated ==
  ASSUME Inv, NEW q \in PipelineRuns, CommitRebuild(q)
  PROVE  ThreadsOK' /\ AllocatedInv'
<1> DEFINE x == [thread[q] EXCEPT !.at = "finish", !.read = <<>>]
<1>1. thread[q] \in Thread /\ q \in Rebuilding
  BY DEF Inv, ThreadsOK, CommitRebuild, Rebuilding
<1>2. /\ x \in Thread /\ x.at = "finish" /\ x.errors = thread[q].errors
      /\ x.overlapped = thread[q].overlapped
  BY <1>1 DEF Thread, Labels
<1>3. thread' = [thread EXCEPT ![q] = x] /\ UNCHANGED <<row, old, written>>
  BY DEF CommitRebuild
<1> HIDE DEF x
<1>4. /\ thread' \in [PipelineRuns -> Thread] /\ thread'[q] = x
      /\ \A r \in PipelineRuns \ {q} : thread'[r] = thread[r]
  BY <1>2, <1>3, UpdateThread DEF Inv
<1>5. Rebuilding' = Rebuilding \ {q} /\ Rebuilding \subseteq PipelineRuns
  BY <1>2, <1>4 DEF Rebuilding
<1>6. thread[q].read \in [Months -> SUBSET PipelineRuns]
  BY <1>1 DEF Inv, ThreadsOK
<1>7. included' = [m \in Months |-> IF m \in Rebuilt(q) THEN thread[q].read[m] ELSE included[m]]
  BY DEF CommitRebuild
<1>8. included' \in [Months -> SUBSET PipelineRuns]
  BY <1>6, <1>7 DEF Inv, ThreadsOK
<1>9. \A r \in Rebuilding' : thread'[r].read \in [Months -> SUBSET PipelineRuns]
  BY <1>4, <1>5 DEF Inv, ThreadsOK
<1>10. ThreadsOK'
  BY <1>3, <1>4, <1>8, <1>9 DEF Inv, ThreadsOK
<1>11. ASSUME NEW r \in PipelineRuns
       PROVE  /\ Remembered(r)' /\ ReadOwn(r)' /\ Settled(r)'
              /\ row'[r] = "success" => thread'[r].at = "ended"
  <2>1. /\ Remembered(r) /\ ReadOwn(r) /\ Settled(r)
        /\ row[r] = "success" => thread[r].at = "ended"
    BY DEF Inv, AllocatedInv
  <2>2. row[q] # "success"
    BY DEF Inv, AllocatedInv, CommitRebuild
  <2>3. CASE r = q
    <3>1. ASSUME ~thread[q].overlapped, NEW m \in Months, Wrote(q, m)
          PROVE  q \in included'[m]
      <4>1. q \in thread[q].read[m]
        BY <1>1, <2>1, <2>3, <3>1 DEF ReadOwn, Rebuilding
      <4>2. m \in Rebuilt(q)
        BY <1>1, <2>1, <2>3, <3>1 DEF Rebuilt, Remembered, Rebuilding, Labels
      <4> QED BY <1>7, <4>1, <4>2
    <3>2. ~thread[q].overlapped => Rebuilding' = {}
      BY <1>1, <1>5, <2>1, <2>3 DEF ReadOwn, Rebuilding
    <3>3. Settled(r)'
      BY <1>2, <1>3, <1>4, <2>3, <3>1, <3>2 DEF Settled, Wrote
    <3> QED BY <1>2, <1>3, <1>4, <2>2, <2>3, <3>3 DEF Remembered, ReadOwn
  <2>4. CASE r # q
    <3>1. Remembered(r)'
      BY <1>3, <1>4, <2>1, <2>4 DEF Remembered, Wrote
    <3>2. ReadOwn(r)'
      BY <1>1, <1>4, <2>1, <2>4 DEF ReadOwn, Rebuilding
    <3>3. ASSUME Through(r)', ~thread'[r].overlapped, NEW m \in Months, Wrote(r, m)'
          PROVE  /\ r \in included'[m]
                 /\ \A p \in Rebuilding' : r \in thread'[p].read[m]
      <4>1. r \in included[m] /\ \A p \in Rebuilding : r \in thread[p].read[m]
        BY <1>3, <1>4, <2>1, <2>4, <3>3 DEF Settled, Through, Wrote
      <4> QED BY <1>1, <1>4, <1>5, <1>7, <4>1
    <3> QED BY <1>3, <1>4, <2>1, <2>4, <3>1, <3>2, <3>3 DEF Settled
  <2> QED BY <2>3, <2>4
<1> QED BY <1>10, <1>11 DEF AllocatedInv

LEMMA FinishAllocated ==
  ASSUME Inv, NEW q \in PipelineRuns, Finish(q)
  PROVE  ThreadsOK' /\ AllocatedInv'
<1> DEFINE x == [thread[q] EXCEPT !.at = "ended"]
<1>1. thread[q] \in Thread /\ thread[q].at = "finish"
  BY DEF Inv, ThreadsOK, Finish
<1>2. x \in Thread /\ x.at = "ended" /\ x.overlapped = thread[q].overlapped
  BY <1>1 DEF Thread, Labels
<1>3. thread' = [thread EXCEPT ![q] = x] /\ UNCHANGED <<old, written, included>>
  BY DEF Finish, Goto
<1> HIDE DEF x
<1>4. /\ thread' \in [PipelineRuns -> Thread] /\ thread'[q] = x
      /\ \A r \in PipelineRuns \ {q} : thread'[r] = thread[r]
  BY <1>2, <1>3, UpdateThread DEF Inv
<1>5. Rebuilding' = Rebuilding /\ q \notin Rebuilding
  BY <1>1, <1>2, <1>4 DEF Rebuilding
<1>6. /\ row' \in [PipelineRuns -> RowStatus]
      /\ \A r \in PipelineRuns \ {q} : row'[r] = row[r]
      /\ row'[q] = "success" => row[q] = "success" \/ ~thread[q].errors
  BY DEF Finish, Verdict, Inv, ThreadsOK, RowStatus
<1>7. ThreadsOK'
  BY <1>3, <1>4, <1>5, <1>6 DEF Inv, ThreadsOK, Rebuilding
<1>8. ASSUME NEW r \in PipelineRuns
      PROVE  /\ Remembered(r)' /\ ReadOwn(r)' /\ Settled(r)'
             /\ row'[r] = "success" => thread'[r].at = "ended"
  <2>1. /\ Remembered(r) /\ ReadOwn(r) /\ Settled(r)
        /\ row[r] = "success" => thread[r].at = "ended"
    BY DEF Inv, AllocatedInv
  <2>2. Through(r)' => Through(r) /\ thread'[r].overlapped = thread[r].overlapped
    BY <1>1, <1>2, <1>4, <1>6 DEF Through
  <2>3. \A p \in Rebuilding' : p \in Rebuilding /\ thread'[p] = thread[p]
    BY <1>4, <1>5 DEF Rebuilding
  <2>4. Settled(r)'
    BY <1>3, <2>1, <2>2, <2>3 DEF Settled, Wrote
  <2>5. Remembered(r)' /\ ReadOwn(r)'
    BY <1>2, <1>3, <1>4, <1>5, <2>1 DEF Remembered, ReadOwn, Wrote
  <2> QED BY <1>2, <1>4, <1>6, <2>1, <2>4, <2>5
<1> QED BY <1>7, <1>8 DEF AllocatedInv

(* A crash ends every rebuild before its commit; what was through is not alive or has
   not told its success. *)
LEMMA CrashAllocated ==
  ASSUME Inv, Crash
  PROVE  ThreadsOK' /\ AllocatedInv'
<1> DEFINE gone == [Idle EXCEPT !.at = "ended"]
<1>1. gone \in Thread /\ gone.at = "ended"
  BY DEF Idle, Thread, Labels
<1>2. thread' = [r \in PipelineRuns |-> IF Alive(r) THEN gone ELSE thread[r]]
  BY DEF Crash
<1> HIDE DEF gone
<1>3. thread' \in [PipelineRuns -> Thread]
  BY <1>1, <1>2 DEF Inv, ThreadsOK
<1>4. \A r \in PipelineRuns :
         IF thread[r].at \in {"idle", "ended"} THEN thread'[r] = thread[r] ELSE thread'[r].at = "ended"
  BY <1>1, <1>2 DEF Alive
<1>5. Rebuilding' = {}
  BY <1>4 DEF Rebuilding
<1>6. ThreadsOK'
  BY <1>3, <1>5 DEF Crash, Inv, ThreadsOK
<1>7. ASSUME NEW r \in PipelineRuns
      PROVE  /\ Remembered(r)' /\ ReadOwn(r)' /\ Settled(r)'
             /\ row'[r] = "success" => thread'[r].at = "ended"
  <2>1. /\ Remembered(r) /\ Settled(r)
        /\ row[r] = "success" => thread[r].at = "ended"
    BY DEF Inv, AllocatedInv
  <2>2. row' = row /\ written' = written /\ included' = included
    BY DEF Crash
  <2>3. Settled(r)'
    BY <1>4, <1>5, <2>1, <2>2 DEF Settled, Through, Wrote
  <2> QED BY <1>4, <2>1, <2>2, <2>3 DEF Remembered, ReadOwn, Wrote
<1> QED BY <1>6, <1>7 DEF AllocatedInv

(* Time and repairs change no thread and make no success. *)
LEMMA RowsAllocated ==
  ASSUME Inv, (\E r \in PipelineRuns : Age(r)) \/ Repair
  PROVE  ThreadsOK' /\ AllocatedInv'
<1>1. /\ UNCHANGED <<thread, written, included>>
      /\ row' \in [PipelineRuns -> RowStatus] /\ old' \in SUBSET PipelineRuns
      /\ \A r \in PipelineRuns : row'[r] = "success" => row[r] = "success"
  BY DEF Age, Repair, Inv, ThreadsOK, RowStatus
<1>2. ThreadsOK'
  BY <1>1 DEF Inv, ThreadsOK, Rebuilding
<1> QED BY <1>1, <1>2
        DEF Inv, AllocatedInv, Remembered, ReadOwn, Settled, Through, Wrote, Rebuilding

-----------------------------------------------------------------------------

LEMMA InitInv == Init => Inv
<1> SUFFICES ASSUME Init PROVE Inv
  OBVIOUS
<1>1. Idle \in Thread /\ Idle.at = "idle"
  BY DEF Idle, Thread, Labels
<1>2. \A r \in PipelineRuns : thread[r] = Idle /\ row[r] = "none"
  BY DEF Init
<1>3. \A r \in PipelineRuns, m \in Months : ~Wrote(r, m)
  BY DEF Init, Wrote
<1>4. Rebuilding = {}
  BY <1>1, <1>2 DEF Rebuilding
<1>5. ThreadsOK
  BY <1>1, <1>4 DEF Init, ThreadsOK, RowStatus
<1>6. AllocatedInv
  BY <1>1, <1>2, <1>3 DEF AllocatedInv, Remembered, ReadOwn, Settled
<1> QED BY <1>5, <1>6 DEF Inv

LEMMA NextInv == Apart /\ Inv /\ [Next]_vars => Inv'
<1> SUFFICES ASSUME Apart, Inv, [Next]_vars PROVE ThreadsOK' /\ AllocatedInv'
  BY DEF Inv
<1>1. CASE UNCHANGED vars
  BY <1>1 DEF vars, Inv, ThreadsOK, AllocatedInv, Remembered, ReadOwn, Settled, Through, Wrote,
              Rebuilding
<1>2. CASE \E q \in PipelineRuns :
             \/ CreateLog(q) \/ Load(q) \/ Credentials(q) \/ CommitPerson(q) \/ CommitIssues(q)
             \/ SyncWorkflows(q) \/ DeriveMembership(q) \/ Collected(q) \/ Raise(q)
  <2>1. PICK q \in PipelineRuns : Walks(q) /\ ThreadsOK'
    BY <1>2, PreludeWalks, RaiseWalks, PersonWalks, IssuesWalk, WorkflowsWalk, CollectedWalks
  <2> QED BY <2>1, WalksAllocated
<1>3. CASE \E q \in PipelineRuns : ReadData(q) \/ CommitRebuild(q) \/ Finish(q)
  BY <1>3, ReadAllocated, CommitAllocated, FinishAllocated
<1>4. CASE Crash \/ Repair \/ \E r \in PipelineRuns : Age(r)
  BY <1>4, CrashAllocated, RowsAllocated
<1>5. CASE ScheduleJobs \/ TriggerHrworks \/ TriggerJira
  BY <1>2, <1>5 DEF ScheduleJobs, TriggerHrworks, TriggerJira, PipelineRuns
<1>6. CASE StepHrworks
  BY <1>2, <1>3, <1>6 DEF StepHrworks, LoadHrworks, HrworksCredentials, AllocateHrworks,
     RaiseHrworks, FinishHrworks, PipelineRuns
<1>7. CASE StepJira
  BY <1>2, <1>3, <1>7 DEF StepJira, LoadJira, JiraCredentials, AllocateJira, RaiseJira,
     FinishJira, PipelineRuns
<1> QED BY <1>1, <1>4, <1>5, <1>6, <1>7 DEF Next

LEMMA Invariant == ASSUME Apart PROVE Spec => []Inv
<1>1. Inv /\ [Next]_vars => Inv'
  BY NextInv
<1> QED BY InitInv, <1>1, PTL DEF Spec

(* The rows, the threads and the months hold what they can hold, whatever crashes and
   repairs occur. *)
THEOREM PipelinesTyped == ASSUME Apart PROVE Spec => []TypeOK
<1>1. Inv => TypeOK
  BY ThreadOf DEF Inv, ThreadsOK, TypeOK, RowStatus
<1> QED BY Invariant, <1>1, PTL

(* A run of the HRworks or the Jira pipeline whose row says success has its changes in
   the monthly effort, unless another rebuild was open together with its own: for any
   number of runs beside each other, with commits person by person, errors, exceptions,
   crashes and repairs of the rows in between. *)
THEOREM AllocatedAfterSuccess == ASSUME Apart PROVE Spec => []SuccessIsAllocated
<1>1. Inv => SuccessIsAllocated
  BY DEF Inv, AllocatedInv, Settled, Through, Wrote, SuccessIsAllocated
<1> QED BY Invariant, <1>1, PTL

=============================================================================
