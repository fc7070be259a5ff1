-------------------------- MODULE TaskQueueProofs --------------------------
(* Theorems about TaskQueue for every set of goroutines, every bound and     *)
(* every enqueue request.                                                    *)
EXTENDS TaskQueue, FiniteSetTheorems, TLAPS

-----------------------------------------------------------------------------
(* Values.                                                                   *)

LEMMA AbsentIsRow == Absent \in Row
  BY DEF Absent, Row, NULL

LEMMA NoSnapshotIsSnapshot == NoSnapshot \in Snapshot /\ NoSnapshot.id = 0
  BY AbsentIsRow, TaskQueueAssumption DEF NoSnapshot, Snapshot

LEMMA NoJobIsJob == NoJob \in Job
  BY TaskQueueAssumption DEF NoJob, Job

LEMMA RetryAtIsTime == ASSUME NEW n PROVE RetryAt(n) \in Nat
  BY TaskQueueAssumption DEF RetryAt

LEMMA RetriedIsRow ==
  ASSUME NEW row \in Row, NEW attempt
  PROVE  /\ Retried(row, attempt) \in Row
         /\ Retried(row, attempt).retries = row.retries + 1
         /\ Retried(row, attempt).status = "retrying"
<1> DEFINE counted == [row EXCEPT !.retries = @ + 1]
           due == [counted EXCEPT !.nextRetry = RetryAt(attempt)]
<1>1. counted \in Row /\ counted.retries = row.retries + 1
  BY DEF Row
<1>2. due \in Row /\ due.retries = row.retries + 1
  BY <1>1, RetryAtIsTime DEF Row
<1> HIDE DEF due
<1>3. Retried(row, attempt) = [due EXCEPT !.status = "retrying"]
  BY DEF Retried, due
<1> QED
  BY <1>2, <1>3 DEF Row, Statuses, Claimable

(* A goroutine's snapshot of an id that was handed out.                      *)
LEMMA SnapIsSnapshot ==
  ASSUME TablesOK, NEW id \in Ids
  PROVE  Snap(id) \in Snapshot /\ Snap(id).id = id
  BY TaskQueueAssumption DEF TablesOK, Snap, Snapshot, Ids

(* A row that exists carries an id that was handed out.                      *)
LEMMA PresentIsOld ==
  ASSUME TablesOK, NEW id \in Ids, rows[id].status # "absent"
  PROVE  id <= lastId
  BY TaskQueueAssumption DEF TablesOK, Absent, Ids

-----------------------------------------------------------------------------
(* The table operations keep the tables well-formed.                         *)

LEMMA StoreTables ==
  ASSUME TablesOK, NEW id \in Ids, NEW row \in Row, Store(id, row)
  PROVE  /\ rows' \in [Ids -> Row]
         /\ \A other \in Ids : other > lastId => rows'[other] = Absent
<1>1. Present(id) => id <= lastId
  BY PresentIsOld DEF Present
<1>2. rows' \in [Ids -> Row]
  BY DEF Store, TablesOK
<1>3. \A other \in Ids : other > lastId => other # id \/ ~Present(id)
  BY <1>1, TaskQueueAssumption DEF TablesOK, Ids
<1> QED
  BY <1>2, <1>3 DEF Store, TablesOK

LEMMA DeleteTables ==
  ASSUME TablesOK, NEW ids, DeleteRows(ids)
  PROVE  /\ rows' \in [Ids -> Row]
         /\ \A id \in Ids : id > lastId => rows'[id] = Absent
         /\ deps' \subseteq deps /\ results' \subseteq results
  BY AbsentIsRow DEF DeleteRows, TablesOK

-----------------------------------------------------------------------------
(* The control-flow operators keep the goroutines' locals well-formed.       *)

LEMMA FinishLocals ==
  ASSUME TablesOK, LocalsOK, NEW p \in Procs, Finish(p), lastId' = lastId
  PROVE  LocalsOK'
<1>1. CASE todo[p] = {}
  <2>1. /\ pc' = [pc EXCEPT ![p] = "idle"]
        /\ cur' = [cur EXCEPT ![p] = NoSnapshot]
        /\ gate' = [gate EXCEPT ![p] = {}]
        /\ UNCHANGED <<todo, job>>
    BY <1>1 DEF Finish, Begin, Goto
  <2> QED
    BY <2>1, NoSnapshotIsSnapshot, TaskQueueAssumption DEF LocalsOK, TablesOK
<1>2. CASE todo[p] # {}
  <2>1. PICK s \in todo[p] :
          /\ pc' = [pc EXCEPT ![p] = IF p \in Janitors THEN "sweep" ELSE "check"]
          /\ cur' = [cur EXCEPT ![p] = s]
          /\ todo' = [todo EXCEPT ![p] = @ \ {s}]
    BY <1>2 DEF Finish, Begin, Goto
  <2>2. s \in Snapshot /\ s.id \in 1..lastId
    BY DEF LocalsOK
  <2>3. gate' = [gate EXCEPT ![p] = {}] /\ UNCHANGED job
    BY DEF Finish
  <2> QED
    BY <2>1, <2>2, <2>3, TaskQueueAssumption
    DEF LocalsOK, TablesOK, ExecutorPCs
<1> QED
  BY <1>1, <1>2

(* A goroutine that begins work on rows it has just read.                    *)
LEMMA BeginLocals ==
  ASSUME TablesOK, LocalsOK, NEW p \in Procs, NEW id \in Ids,
         NEW rest \in SUBSET Ids, \A i \in rest \cup {id} : rows[i].status # "absent",
         NEW label \in {"sweep"} \cup ExecutorPCs \cup (ClientPCs \ {"insert", "link"}),
         Begin(p, label, Snap(id)), lastId' = lastId,
         todo' = [todo EXCEPT ![p] = {Snap(i) : i \in rest}],
         UNCHANGED <<job, gate>>
  PROVE  LocalsOK'
<1>1. ASSUME NEW i \in rest \cup {id}
      PROVE  Snap(i) \in Snapshot /\ Snap(i).id \in 1..lastId
  <2>1. i \in Ids /\ i <= lastId
    BY PresentIsOld
  <2>2. Snap(i) \in Snapshot /\ Snap(i).id = i
    BY <2>1, SnapIsSnapshot
  <2>3. lastId \in Nat
    BY TaskQueueAssumption DEF TablesOK
  <2> QED
    BY <2>1, <2>2, <2>3, TaskQueueAssumption DEF Ids
<1>2. /\ pc' = [pc EXCEPT ![p] = label]
      /\ cur' = [cur EXCEPT ![p] = Snap(id)]
  BY DEF Begin, Goto
<1> QED
  BY <1>1, <1>2, TaskQueueAssumption DEF LocalsOK, TablesOK, ClientPCs, ExecutorPCs

(* The same for one row: nothing is left to do after it.                     *)
LEMMA BeginOneLocals ==
  ASSUME TablesOK, LocalsOK, NEW p \in Procs, NEW id \in Ids,
         rows[id].status # "absent",
         NEW label \in {"sweep"} \cup ExecutorPCs \cup (ClientPCs \ {"insert", "link"}),
         Begin(p, label, Snap(id)), lastId' = lastId,
         UNCHANGED <<todo, job, gate>>
  PROVE  LocalsOK'
<1>1. Snap(id) \in Snapshot /\ Snap(id).id \in 1..lastId
  BY SnapIsSnapshot, PresentIsOld, TaskQueueAssumption DEF Ids, TablesOK
<1>2. /\ pc' = [pc EXCEPT ![p] = label]
      /\ cur' = [cur EXCEPT ![p] = Snap(id)]
  BY DEF Begin, Goto
<1> QED
  BY <1>1, <1>2, TaskQueueAssumption DEF LocalsOK, TablesOK, ClientPCs, ExecutorPCs

(* A goroutine that moves on with the action it has.                         *)
LEMMA GotoLocals ==
  ASSUME TablesOK, LocalsOK, NEW p \in Procs,
         pc[p] \notin {"idle", "insert"},
         NEW label \in {"sweep"} \cup ExecutorPCs,
         Goto(p, label), lastId' = lastId,
         \/ UNCHANGED gate
         \/ \E seen \in SUBSET Ids : gate' = [gate EXCEPT ![p] = seen],
         UNCHANGED <<cur, todo, job>>
  PROVE  LocalsOK'
  BY TaskQueueAssumption DEF LocalsOK, TablesOK, ExecutorPCs, Goto

LEMMA NextItemLocals ==
  ASSUME TablesOK, LocalsOK, NEW c \in Procs, pc[c] \in {"insert", "link"},
         lastId' \in 0..MaxId, lastId' >= lastId,
         NEW last \in 0..MaxId, NextItem(c, last)
  PROVE  LocalsOK'
<1> DEFINE rest == Tail(job[c].items)
           next == [items |-> rest, sequential |-> job[c].sequential,
                    prev |-> last, links |-> {}]
<1>0. rest \in Seq(Request) /\ next \in Job
  BY DEF LocalsOK, Job
<1>1. \A i \in 1..lastId : i \in 1..lastId'
  BY TaskQueueAssumption DEF TablesOK
<1>2. \A i \in 0..MaxId : i <= lastId => i <= lastId'
  BY TaskQueueAssumption DEF TablesOK
<1>3. \A p \in Procs : cur[p].id \in 0..MaxId
  BY DEF LocalsOK, Snapshot
<1>4. CASE rest = << >>
  <2>1. /\ pc' = [pc EXCEPT ![c] = "idle"]
        /\ cur' = [cur EXCEPT ![c] = NoSnapshot]
        /\ job' = [job EXCEPT ![c] = NoJob]
        /\ UNCHANGED <<todo, gate>>
    BY <1>4 DEF NextItem, Begin, Goto
  <2> QED
    BY <1>1, <1>2, <1>3, <2>1, NoSnapshotIsSnapshot, NoJobIsJob,
       TaskQueueAssumption
    DEF LocalsOK, TablesOK
<1>5. CASE rest # << >>
  <2>1. /\ pc' = [pc EXCEPT ![c] = "insert"]
        /\ cur' = [cur EXCEPT ![c] = NoSnapshot]
        /\ job' = [job EXCEPT ![c] = next]
        /\ UNCHANGED <<todo, gate>>
    BY <1>5 DEF NextItem, Begin, Goto
  <2>2. next.items # << >>
    BY <1>5
  <2> HIDE DEF next
  <2> QED
    BY <1>0, <1>1, <1>2, <1>3, <2>1, <2>2, NoSnapshotIsSnapshot, TaskQueueAssumption
    DEF LocalsOK, TablesOK, ClientPCs
<1> QED
  BY <1>4, <1>5

LEMMA LinkedLocals ==
  ASSUME TablesOK, LocalsOK, NEW c \in Procs, pc[c] = "link", lastId' = lastId,
         NEW link, Linked(c, link)
  PROVE  LocalsOK'
<1> DEFINE left == [job[c] EXCEPT !.links = @ \ {link}]
<1>1. CASE left.links = {}
  <2>1. cur[c].id \in 0..MaxId
    BY DEF LocalsOK, Snapshot
  <2>2. lastId' \in 0..MaxId /\ lastId' >= lastId
    BY TaskQueueAssumption DEF TablesOK
  <2> QED
    BY <1>1, <2>1, <2>2, NextItemLocals DEF Linked
<1>2. CASE left.links # {}
  <2>1. job' = [job EXCEPT ![c] = left] /\ UNCHANGED <<pc, cur, todo, gate>>
    BY <1>2 DEF Linked
  <2>2. left \in Job /\ left.items # << >>
    BY DEF LocalsOK, Job
  <2> HIDE DEF left
  <2> QED
    BY <2>1, <2>2 DEF LocalsOK
<1> QED
  BY <1>1, <1>2

-----------------------------------------------------------------------------
(* Type correctness.                                                         *)

LEMMA InitType == Init => TypeOK
  BY AbsentIsRow, NoSnapshotIsSnapshot, NoJobIsJob, TaskQueueAssumption
  DEF Init, TypeOK, TablesOK, LocalsOK, HistoryOK, Ids

(* Writing one column of an existing row.                                    *)
LEMMA UpdateStatusTables ==
  ASSUME TablesOK, NEW id \in Ids, NEW status \in Statuses,
         UpdateActionStatus(id, status)
  PROVE  /\ rows' \in [Ids -> Row]
         /\ \A other \in Ids : other > lastId => rows'[other] = Absent
<1>1. [rows[id] EXCEPT !.status = status] \in Row
  BY DEF TablesOK, Row
<1> QED
  BY <1>1, StoreTables DEF UpdateActionStatus

(* processAction preserves the types.                                        *)
LEMMA ProcessActionType ==
  ASSUME TypeOK, NEW p \in Procs, ProcessAction(p)
  PROVE  TypeOK'
<1> USE DEF TypeOK
<1>1. CASE Check(p)
  <2>1. UNCHANGED <<table, now, history>>
    BY <1>1 DEF Check
  <2>2. CASE Finish(p)
    BY <2>1, <2>2, FinishLocals DEF table, history, TablesOK, HistoryOK
  <2>3. CASE ~Finish(p)
    <3>1. /\ Goto(p, "claim") /\ UNCHANGED <<cur, todo, job>>
          /\ gate' = [gate EXCEPT ![p] = SuccessPredecessors(cur[p].id)]
          /\ pc[p] = "check"
      BY <1>1, <2>3 DEF Check
    <3>2. LocalsOK'
      BY <2>1, <3>1, GotoLocals DEF SuccessPredecessors, table, ExecutorPCs
    <3> QED
      BY <2>1, <3>2 DEF table, history, TablesOK, HistoryOK
  <2> QED
    BY <2>2, <2>3
<1>2. pc[p] \in HoldingPCs \cup {"claim", "record"} => cur[p].id \in Ids
  <2>1. cur[p].id \in 0..MaxId
    BY DEF LocalsOK, Snapshot
  <2>2. pc[p] \in HoldingPCs \cup {"claim", "record"} => cur[p].id # 0
    BY DEF LocalsOK, HoldingPCs
  <2> QED
    BY <2>1, <2>2, TaskQueueAssumption DEF Ids
<1>3. CASE MarkActionAsProcessing(p)
  <2>1. cur[p].id \in Ids /\ pc[p] = "claim"
    BY <1>2, <1>3 DEF MarkActionAsProcessing
  <2>2. UNCHANGED <<lastId, deps, results, now, succeeded, edited>>
    BY <1>3 DEF MarkActionAsProcessing
  <2>3. CASE StillClaimable(cur[p].id)
    <3>1. /\ UpdateActionStatus(cur[p].id, "processing")
          /\ Goto(p, IF cur[p].row.handled THEN "execute" ELSE "unhandled")
          /\ runs' = IF cur[p].row.handled
                     THEN [runs EXCEPT ![cur[p].id] = @ + 1] ELSE runs
          /\ UNCHANGED <<cur, todo, job, gate>>
      BY <1>3, <2>3 DEF MarkActionAsProcessing
    <3>2. TablesOK'
      BY <2>1, <2>2, <3>1, UpdateStatusTables DEF TablesOK, Statuses
    <3>3. LocalsOK'
      BY <2>1, <2>2, <3>1, GotoLocals DEF ExecutorPCs
    <3>4. cur[p].id <= lastId
      BY DEF LocalsOK
    <3>5. HistoryOK'
      BY <2>1, <2>2, <3>1, <3>4, TaskQueueAssumption
      DEF HistoryOK, TablesOK, Ids
    <3> QED
      BY <3>2, <3>3, <3>5
  <2>4. CASE ~StillClaimable(cur[p].id)
    <3>1. Finish(p) /\ UNCHANGED <<rows, runs>>
      BY <1>3, <2>4 DEF MarkActionAsProcessing
    <3> QED
      BY <2>2, <3>1, FinishLocals DEF TablesOK, HistoryOK
  <2> QED
    BY <2>3, <2>4
<1>4. CASE Execute(p)
  <2>1. /\ pc[p] = "execute" /\ cur[p].id \in 1..lastId
        /\ UNCHANGED <<table, now, cur, todo, job, gate, runs, edited>>
    BY <1>2, <1>4, TaskQueueAssumption
    DEF Execute, HoldingPCs, LocalsOK, Ids, TablesOK
  <2>2. \/ Goto(p, "succeed") \/ Goto(p, "fail") \/ Goto(p, "retry")
    BY <1>4 DEF Execute
  <2>3. LocalsOK'
    BY <2>1, <2>2, GotoLocals DEF table, ExecutorPCs
  <2>4. succeeded' \subseteq 1..lastId
    BY <1>4, <2>1 DEF Execute, HistoryOK
  <2> QED
    BY <2>1, <2>3, <2>4 DEF table, TablesOK, HistoryOK
<1>5. CASE Complete(p)
  <2>1. cur[p].id \in Ids /\ UNCHANGED <<lastId, deps, results, now, history>>
    BY <1>2, <1>5 DEF Complete, HoldingPCs
  <2>2. TablesOK'
    BY <1>5, <2>1, UpdateStatusTables
    DEF Complete, CompleteAction, TablesOK, Statuses, Terminal
  <2> QED
    BY <1>5, <2>1, <2>2, FinishLocals DEF Complete, history, HistoryOK
<1>6. CASE ScheduleRetry(p)
  <2> DEFINE row == Retried(rows[cur[p].id], cur[p].row.retries + 1)
  <2>1. /\ cur[p].id \in Ids /\ pc[p] = "retry"
        /\ Store(cur[p].id, row) /\ Goto(p, "record")
        /\ UNCHANGED <<lastId, deps, results, now, cur, todo, job, gate, history>>
    BY <1>2, <1>6 DEF ScheduleRetry, HoldingPCs
  <2>2. row \in Row
    BY <2>1, RetriedIsRow DEF TablesOK
  <2>3. TablesOK'
    BY <2>1, <2>2, StoreTables DEF TablesOK
  <2>4. LocalsOK'
    BY <2>1, GotoLocals DEF ExecutorPCs
  <2> QED
    BY <2>1, <2>3, <2>4 DEF history, HistoryOK
<1>7. CASE RecordAttempt(p)
  <2>1. /\ cur[p].id \in Ids /\ UNCHANGED <<rows, lastId, deps, now, history>>
        /\ Finish(p)
    BY <1>2, <1>7 DEF RecordAttempt
  <2>2. cur[p].row.retries + 1 \in Nat
    BY DEF LocalsOK, Snapshot, Row
  <2>3. TablesOK'
    BY <1>7, <2>1, <2>2 DEF RecordAttempt, TablesOK
  <2> QED
    BY <2>1, <2>3, FinishLocals DEF history, HistoryOK
<1> QED
  BY <1>1, <1>3, <1>4, <1>5, <1>6, <1>7 DEF ProcessAction

(* So do the requests of clients ...                                         *)
LEMMA ClientType ==
  ASSUME TypeOK, NEW c \in Clients, ClientStep(c)
  PROVE  TypeOK'
<1> USE DEF TypeOK
<1>0. c \in Procs
  BY DEF Procs
<1>1. cur[c].id \in 0..MaxId /\ (pc[c] \notin {"idle", "insert"} => cur[c].id \in Ids)
  <2>1. cur[c].id \in 0..MaxId
    BY <1>0 DEF LocalsOK, Snapshot
  <2>2. pc[c] \notin {"idle", "insert"} => cur[c].id # 0
    BY <1>0 DEF LocalsOK
  <2> QED
    BY <2>1, <2>2, TaskQueueAssumption DEF Ids
<1>2. \A id \in Ids : Present(id) <=> rows[id].status # "absent"
  BY DEF Present
<1>3. CASE ProcessMatching(c)
  <2>1. PICK ids \in SUBSET {id \in Ids : rows[id].status \in Claimable} :
          \E first \in ids :
            /\ Begin(c, "check", Snap(first))
            /\ todo' = [todo EXCEPT ![c] = {Snap(id) : id \in ids \ {first}}]
    BY <1>3 DEF ProcessMatching
  <2>2. PICK first \in ids :
            /\ Begin(c, "check", Snap(first))
            /\ todo' = [todo EXCEPT ![c] = {Snap(id) : id \in ids \ {first}}]
    BY <2>1
  <2>3. /\ ids \ {first} \in SUBSET Ids /\ first \in Ids
        /\ \A i \in (ids \ {first}) \cup {first} : rows[i].status # "absent"
    BY <2>1, <2>2 DEF Claimable
  <2>4. UNCHANGED <<table, now, job, gate, history>>
    BY <1>3 DEF ProcessMatching
  <2>5. LocalsOK'
    BY <1>0, <2>2, <2>3, <2>4, BeginLocals DEF table, ExecutorPCs
  <2> QED
    BY <2>4, <2>5 DEF table, history, TablesOK, HistoryOK
<1>4. CASE ProcessOne(c) \/ ForceRetry(c)
  <2>1. /\ UNCHANGED <<table, now, todo, job, gate, history>>
        /\ \E id \in Ids : /\ Present(id)
                          /\ \/ Begin(c, "check", Snap(id))
                             \/ Begin(c, "reset", Snap(id))
    BY <1>4 DEF ProcessOne, ForceRetry
  <2>2. LocalsOK'
    BY <1>0, <1>2, <2>1, BeginOneLocals DEF table, ExecutorPCs, ClientPCs
  <2> QED
    BY <2>1, <2>2 DEF table, history, TablesOK, HistoryOK
<1>5. CASE ResetFailed(c)
  <2>1. /\ pc[c] = "reset" /\ UpdateActionStatus(cur[c].id, "pending")
        /\ edited' = edited \cup {cur[c].id} /\ Goto(c, "check")
        /\ UNCHANGED <<lastId, deps, results, now, cur, todo, job, gate, runs,
                       succeeded>>
    BY <1>5 DEF ResetFailed
  <2>2. TablesOK'
    BY <1>1, <2>1, UpdateStatusTables DEF TablesOK, Statuses, Claimable
  <2>3. LocalsOK'
    BY <1>0, <2>1, GotoLocals DEF ExecutorPCs
  <2>4. cur[c].id \in 1..lastId
    BY <1>0, <1>1, <2>1, TaskQueueAssumption DEF LocalsOK, TablesOK, Ids
  <2> QED
    BY <2>1, <2>2, <2>3, <2>4 DEF HistoryOK
<1>6. CASE StartEnqueue(c)
  <2>1. PICK b \in Bulks :
          job' = [job EXCEPT ![c] = [items |-> b.items, prev |-> 0,
                                     links |-> {}, sequential |-> b.sequential]]
    BY <1>6 DEF StartEnqueue
  <2>2. /\ b.items # << >> /\ b.items \in Seq(Request)
        /\ b.sequential \in BOOLEAN
    BY TaskQueueAssumption DEF Bulk
  <2> DEFINE new == [items |-> b.items, prev |-> 0, links |-> {},
                     sequential |-> b.sequential]
  <2>3. new \in Job /\ new.items # << >>
    BY <2>2, TaskQueueAssumption DEF Job
  <2>4. /\ job' = [job EXCEPT ![c] = new]
        /\ Goto(c, "insert") /\ UNCHANGED <<table, now, cur, todo, gate, history>>
    BY <1>6, <2>1 DEF StartEnqueue
  <2> HIDE DEF new
  <2>5. LocalsOK'
    BY <1>0, <2>3, <2>4 DEF LocalsOK, Goto, ClientPCs, table
  <2> QED
    BY <2>4, <2>5 DEF table, history, TablesOK, HistoryOK
<1>7. CASE InsertAction(c)
  <2> DEFINE item == Head(job[c].items)
             id == lastId + 1
             row == [status |-> "pending", weight |-> item.weight,
                     retries |-> 0, start |-> item.start,
                     deadline |-> item.deadline, nextRetry |-> NULL,
                     handled |-> item.handled, created |-> now]
             links == item.deps \cup
                        (IF job[c].sequential /\ job[c].prev # 0
                         THEN {[on |-> job[c].prev, kind |-> "completion"]}
                         ELSE {})
             linking == [job[c] EXCEPT !.links = links]
  <2>1. /\ pc[c] = "insert" /\ lastId < MaxId /\ lastId' = id
        /\ rows' = [rows EXCEPT ![id] = row]
        /\ UNCHANGED <<deps, results, now, history>>
        /\ \/ NextItem(c, id)
           \/ /\ Begin(c, "link", [id |-> id, row |-> row])
              /\ job' = [job EXCEPT ![c] = linking]
              /\ UNCHANGED <<todo, gate>>
    BY <1>7 DEF InsertAction
  <2>2. id \in Ids /\ id \in 0..MaxId /\ id # 0
    BY <2>1, TaskQueueAssumption DEF Ids, TablesOK
  <2>3. job[c] \in Job /\ job[c].items # << >>
    BY <1>0, <2>1 DEF LocalsOK
  <2>4. item \in Request
    BY <2>3 DEF Job
  <2>5. row \in Row
    BY <2>4 DEF Request, Row, Statuses, Claimable, NULL, TablesOK
  <2>6. linking \in Job /\ linking.items # << >>
    <3>1. links \subseteq Link
      BY <2>3, <2>4, TaskQueueAssumption
      DEF Request, Link, Job, DependencyTypes
    <3> HIDE DEF links
    <3> QED
      BY <2>3, <3>1 DEF Job
  <2>7. [id |-> id, row |-> row] \in Snapshot
    BY <2>2, <2>5 DEF Snapshot
  <2>8. \A i \in 0..MaxId : (i <= lastId => i <= id) /\ (i > id => i > lastId)
    BY <2>1, TaskQueueAssumption DEF TablesOK
  <2>9. TablesOK'
    BY <2>1, <2>2, <2>5, <2>8, TaskQueueAssumption DEF TablesOK, Ids
  <2>10. HistoryOK'
    BY <2>1, <2>2, <2>8, TaskQueueAssumption DEF history, HistoryOK, Ids, TablesOK
  <2>11. CASE NextItem(c, id)
    <3>1. lastId' \in 0..MaxId /\ lastId' >= lastId
      BY <2>1, <2>2, TaskQueueAssumption DEF TablesOK
    <3>2. LocalsOK'
      BY <1>0, <2>1, <2>2, <2>11, <3>1, NextItemLocals
    <3> QED
      BY <2>9, <2>10, <3>2
  <2>12. CASE ~NextItem(c, id)
    <3> DEFINE new == [id |-> id, row |-> row]
    <3>1. /\ pc' = [pc EXCEPT ![c] = "link"] /\ cur' = [cur EXCEPT ![c] = new]
          /\ job' = [job EXCEPT ![c] = linking] /\ UNCHANGED <<todo, gate>>
      BY <2>1, <2>12 DEF Begin, Goto
    <3>2. new \in Snapshot /\ new.id = id
      BY <2>7
    <3>3. \A p \in Procs : cur[p].id \in 0..MaxId
      BY DEF LocalsOK, Snapshot
    <3>4. \A i \in 1..lastId : i \in 1..lastId'
      BY <2>1, TaskQueueAssumption DEF TablesOK
    <3>5. lastId' = id /\ id # 0 /\ id <= id
      BY <2>1, <2>2, TaskQueueAssumption
    <3> HIDE DEF new, linking, id
    <3>6. LocalsOK'
      BY <1>0, <2>6, <2>8, <3>1, <3>2, <3>3, <3>4, <3>5, TaskQueueAssumption
      DEF LocalsOK, ClientPCs
    <3> QED
      BY <2>9, <2>10, <3>6
  <2> QED
    BY <2>11, <2>12
<1>8. CASE LinkAction(c)
  <2>1. PICK link \in job[c].links :
          /\ \/ deps' = deps \cup {<<cur[c].id, link.on, link.kind>>}
             \/ UNCHANGED deps
          /\ Linked(c, link)
    BY <1>8 DEF LinkAction
  <2>2. pc[c] = "link" /\ UNCHANGED <<rows, lastId, results, now, history>>
    BY <1>8 DEF LinkAction
  <2>3. job[c] \in Job /\ job[c].items # << >> /\ link \in Link
    BY <1>0, <2>2 DEF LocalsOK, Job
  <2>4. TablesOK'
    BY <1>1, <2>1, <2>2, <2>3 DEF TablesOK, Link
  <2>5. LocalsOK'
    BY <1>0, <2>1, <2>2, <2>3, LinkedLocals
  <2> QED
    BY <2>2, <2>4, <2>5 DEF history, HistoryOK
<1>9. CASE UpdateActionRead(c) \/ CancelActionRead(c) \/ DeleteActionRead(c)
  <2>1. /\ UNCHANGED <<table, now, todo, job, gate, history>>
        /\ \E id \in Ids : /\ rows[id].status # "absent"
                          /\ \/ Begin(c, "update", Snap(id))
                             \/ Begin(c, "cancel", Snap(id))
                             \/ Begin(c, "delete", Snap(id))
    BY <1>9 DEF UpdateActionRead, CancelActionRead, DeleteActionRead, ReadFor,
                Statuses, Terminal, Claimable
  <2>2. LocalsOK'
    BY <1>0, <2>1, BeginOneLocals DEF table, ClientPCs
  <2> QED
    BY <2>1, <2>2 DEF table, history, TablesOK, HistoryOK
<1>10. CASE UpdateActionWrite(c)
  <2>1. /\ pc[c] = "update" /\ edited' = edited \cup {cur[c].id} /\ Finish(c)
        /\ UNCHANGED <<lastId, deps, results, now, runs, succeeded>>
    BY <1>10 DEF UpdateActionWrite
  <2>2. PICK status \in EditStatuses \cup {cur[c].row.status},
             weight \in EditWeights \cup {cur[c].row.weight},
             start \in EditTimes \cup {cur[c].row.start},
             deadline \in EditTimes \cup {cur[c].row.deadline} :
          Store(cur[c].id,
               [status |-> status, weight |-> weight,
                retries |-> cur[c].row.retries, start |-> start,
                deadline |-> deadline, nextRetry |-> cur[c].row.nextRetry,
                handled |-> cur[c].row.handled,
                created |-> cur[c].row.created])
    BY <1>10 DEF UpdateActionWrite
  <2> DEFINE row == [status |-> status, weight |-> weight,
                retries |-> cur[c].row.retries, start |-> start,
                deadline |-> deadline, nextRetry |-> cur[c].row.nextRetry,
                handled |-> cur[c].row.handled,
                created |-> cur[c].row.created]
  <2>3. row \in Row
    BY <1>0, TaskQueueAssumption DEF LocalsOK, Snapshot, Row
  <2>4. cur[c].id \in 1..lastId
    BY <1>0, <1>1, <2>1, TaskQueueAssumption DEF LocalsOK, TablesOK, Ids
  <2> HIDE DEF row
  <2>5. TablesOK'
    BY <1>1, <2>1, <2>2, <2>3, StoreTables DEF TablesOK, row
  <2> QED
    BY <1>0, <2>1, <2>4, <2>5, FinishLocals DEF HistoryOK
<1>11. CASE CancelActionWrite(c)
  <2>1. TablesOK'
    BY <1>1, <1>11, UpdateStatusTables
    DEF CancelActionWrite, TablesOK, Statuses, Terminal
  <2> QED
    BY <1>0, <1>11, <2>1, FinishLocals DEF CancelActionWrite, history, HistoryOK
<1>12. CASE DeleteActionWrite(c)
  <2>1. TablesOK'
    BY <1>12, DeleteTables DEF DeleteActionWrite, TablesOK
  <2> QED
    BY <1>0, <1>12, <2>1, FinishLocals DEF DeleteActionWrite, history, HistoryOK
<1> QED
  BY <1>0, <1>3, <1>4, <1>5, <1>6, <1>7, <1>8, <1>9, <1>10, <1>11, <1>12,
     ProcessActionType
  DEF ClientStep, EnqueueStep, AdminStep

(* ... the janitor, failing calls, and the rest of Next.                     *)
LEMMA CallFailsType ==
  ASSUME TypeOK, NEW p \in Procs, CallFails(p)
  PROVE  TypeOK'
<1> USE DEF TypeOK
<1>1. UNCHANGED <<table, now, history>> /\ lastId' = lastId
  BY DEF CallFails, table
<1>2. lastId' \in 0..MaxId /\ lastId' >= lastId
  BY <1>1, TaskQueueAssumption DEF TablesOK
<1>3. \/ pc[p] = "insert" /\ AbandonRequest(p)
      \/ pc[p] = "insert" /\ NextItem(p, job[p].prev)
      \/ pc[p] = "link" /\ \E link \in job[p].links : Linked(p, link)
      \/ Finish(p)
  BY DEF CallFails
<1>4. LocalsOK'
  <2>1. CASE AbandonRequest(p)
    BY <1>1, <2>1, NoSnapshotIsSnapshot, NoJobIsJob, TaskQueueAssumption
    DEF AbandonRequest, Begin, Goto, LocalsOK, TablesOK
  <2>2. CASE pc[p] = "insert" /\ NextItem(p, job[p].prev)
    <3>1. job[p].prev \in 0..MaxId
      BY DEF LocalsOK, Job
    <3> QED
      BY <1>2, <2>2, <3>1, NextItemLocals
  <2>3. CASE pc[p] = "link" /\ \E link \in job[p].links : Linked(p, link)
    BY <1>1, <2>3, LinkedLocals
  <2>4. CASE Finish(p)
    BY <1>1, <2>4, FinishLocals
  <2> QED
    BY <1>3, <2>1, <2>2, <2>3, <2>4
<1> QED
  BY <1>1, <1>4 DEF table, history, TablesOK, HistoryOK

LEMMA JanitorType ==
  ASSUME TypeOK, NEW j \in Janitors, JanitorStep(j)
  PROVE  TypeOK'
<1> USE DEF TypeOK
<1>0. j \in Procs
  BY DEF Procs
<1>1. CASE ReadForCleanup(j)
  <2> DEFINE ids == {id \in Ids : rows[id].status \in Claimable}
  <2>1. PICK first \in ids :
            /\ Begin(j, "sweep", Snap(first))
            /\ todo' = [todo EXCEPT ![j] = {Snap(id) : id \in ids \ {first}}]
    BY <1>1 DEF ReadForCleanup
  <2>2. /\ ids \ {first} \in SUBSET Ids /\ first \in Ids
        /\ \A i \in (ids \ {first}) \cup {first} : rows[i].status # "absent"
    BY <2>1 DEF Claimable
  <2>3. UNCHANGED <<table, now, job, gate, history>>
    BY <1>1 DEF ReadForCleanup
  <2> HIDE DEF ids
  <2>4. LocalsOK'
    BY <1>0, <2>1, <2>2, <2>3, BeginLocals DEF table
  <2> QED
    BY <2>3, <2>4 DEF table, history, TablesOK, HistoryOK
<1>2. CASE ExpireOverdue(j)
  <2>1. pc[j] = "sweep" /\ Finish(j) /\ UNCHANGED <<lastId, deps, results, now, history>>
    BY <1>2 DEF ExpireOverdue
  <2>2. cur[j].id \in 0..MaxId /\ cur[j].id # 0
    BY <1>0, <2>1 DEF LocalsOK, Snapshot
  <2>3. cur[j].id \in Ids
    BY <2>2, TaskQueueAssumption DEF Ids
  <2>4. UpdateActionStatus(cur[j].id, "timeout") \/ UNCHANGED rows
    BY <1>2 DEF ExpireOverdue
  <2>5. TablesOK'
    BY <2>1, <2>3, <2>4, UpdateStatusTables DEF TablesOK, Statuses, Terminal
  <2> QED
    BY <1>0, <2>1, <2>5, FinishLocals DEF history, HistoryOK
<1> QED
  BY <1>1, <1>2 DEF JanitorStep

LEMMA FetchType ==
  ASSUME TypeOK, NEW w \in Workers, Fetch(w)
  PROVE  TypeOK'
<1> USE DEF TypeOK
<1>1. PICK id \in Ids : NextToProcess(id) /\ Begin(w, "check", Snap(id))
  BY DEF Fetch
<1>2. rows[id].status # "absent" /\ w \in Procs
  BY <1>1 DEF NextToProcess, Ready, Claimable, Procs
<1>3. UNCHANGED <<table, now, todo, job, gate, history>>
  BY DEF Fetch
<1>4. LocalsOK'
  BY <1>1, <1>2, <1>3, BeginOneLocals DEF table, ExecutorPCs
<1> QED
  BY <1>3, <1>4 DEF table, history, TablesOK, HistoryOK

LEMMA NextType ==
  ASSUME TypeOK, [Next]_vars
  PROVE  TypeOK'
<1>1. CASE \E w \in Workers : WorkerStep(w)
  BY <1>1, FetchType, ProcessActionType DEF WorkerStep, Procs
<1>2. CASE \E c \in Clients : ClientStep(c)
  BY <1>2, ClientType
<1>3. CASE \E j \in Janitors : JanitorStep(j)
  BY <1>3, JanitorType
<1>4. CASE \E p \in Procs : CallFails(p)
  BY <1>4, CallFailsType
<1>5. CASE ClearQueue \/ CleanupOldActions
  <2>1. \E ids : DeleteRows(ids)
    BY <1>5 DEF ClearQueue, CleanupOldActions
  <2>2. UNCHANGED <<lastId, now, locals, history>>
    BY <1>5 DEF ClearQueue, CleanupOldActions
  <2> QED
    BY <2>1, <2>2, DeleteTables
    DEF TypeOK, TablesOK, LocalsOK, HistoryOK, locals, history
<1>6. CASE Crash
  <2>1. LocalsOK'
    BY <1>6, NoSnapshotIsSnapshot, NoJobIsJob, TaskQueueAssumption
    DEF Crash, TypeOK, TablesOK, LocalsOK, table
  <2> QED
    BY <1>6, <2>1 DEF Crash, TypeOK, TablesOK, HistoryOK, table, history
<1>7. CASE Tick \/ UNCHANGED vars
  <2>1. UNCHANGED <<rows, lastId, deps, results, locals, history>>
    BY <1>7 DEF Tick, vars, table
  <2>2. now' \in Nat
    BY <1>7 DEF Tick, vars, TypeOK, TablesOK
  <2> QED
    BY <2>1, <2>2 DEF TypeOK, TablesOK, LocalsOK, HistoryOK, locals, history
<1> QED
  BY <1>1, <1>2, <1>3, <1>4, <1>5, <1>6, <1>7 DEF Next

(* Every reachable state of the queue is well-formed.                        *)
THEOREM TypeCorrect == Spec => []TypeOK
  BY InitType, NextType, PTL DEF Spec
-----------------------------------------------------------------------------
(* Safety.  SafeInv is inductive relative to TypeOK.  Most steps are quiet:   *)
(* they start nothing, they record no success, they make no row claimable     *)
(* but those an operator edits, and they read snapshots from the table or     *)
(* keep the ones they have.                                                   *)

HistoryQuiet ==
  /\ lastId' = lastId /\ runs' = runs /\ succeeded' = succeeded
  /\ edited \subseteq edited'
  /\ \A r \in results' :
       \/ r \in results
       \/ /\ r[1] <= lastId
          /\ r[1] \notin edited /\ Present(r[1]) => r[2] <= rows[r[1]].retries
RowsQuiet ==
  \A id \in Ids \ edited' :
    \/ rows'[id] = rows[id]
    \/ rows'[id] = Absent
    \/ /\ rows[id].status # "absent" /\ rows'[id].retries = rows[id].retries
       /\ rows'[id].status \notin Claimable \cup {"absent"}
       /\ rows'[id].status = "completed" => id \in succeeded
Kept(p, s) ==
  \/ s \in todo[p] \cup {cur[p], NoSnapshot}
  \/ \E id \in Ids : s = Snap(id)
LocalsQuiet ==
  \A p \in Procs :
    /\ pc'[p] \in HoldingPCs => /\ pc'[p] = pc[p] /\ cur'[p] = cur[p]
                                /\ gate'[p] = gate[p]
    /\ pc'[p] = "record" => pc[p] = "record" /\ cur'[p] = cur[p]
    /\ pc'[p] = "claim" => gate'[p] \subseteq succeeded \cup edited
    /\ \A s \in todo'[p] \cup {cur'[p]} : Kept(p, s)

LEMMA IdsAreNat == Ids \subseteq Nat /\ 0 \notin Ids
  BY TaskQueueAssumption DEF Ids

LEMMA SucceededIds == ASSUME TypeOK PROVE succeeded \subseteq Ids
<1>1. succeeded \subseteq 1..lastId /\ lastId \in 0..MaxId
  BY DEF TypeOK, HistoryOK, TablesOK
<1> QED
  BY <1>1, TaskQueueAssumption DEF Ids

(* A snapshot that was kept or has just been read is behind its row.         *)
LEMMA KeptBehind ==
  ASSUME TypeOK, SnapshotsBehind, NEW p \in Procs, NEW s, Kept(p, s),
         s.id \notin edited, Present(s.id)
  PROVE  s.row.retries <= rows[s.id].retries
<1>1. s.id # 0
  BY IdsAreNat DEF Present
<1>2. CASE s \in todo[p] \cup {cur[p]}
  BY <1>2 DEF SnapshotsBehind
<1>3. CASE s = NoSnapshot
  BY <1>1, <1>3, NoSnapshotIsSnapshot
<1>4. CASE \E id \in Ids : s = Snap(id)
  <2>1. PICK id \in Ids : s = Snap(id)
    BY <1>4
  <2>2. rows[id].retries \in Nat
    BY DEF TypeOK, TablesOK, Row
  <2> QED
    BY <2>1, <2>2 DEF Snap
<1> QED
  BY <1>2, <1>3, <1>4 DEF Kept

LEMMA QuietSafe ==
  ASSUME TypeOK, TypeOK', SafeInv, HistoryQuiet, RowsQuiet, LocalsQuiet
  PROVE  SafeInv'
<1>1. \A p \in Procs, id \in Ids :
        Holds(p, id)' => Holds(p, id) /\ pc'[p] = pc[p]
  BY DEF LocalsQuiet, Holds
<1>2. \A id \in Ids \ edited' : id \notin edited
  BY DEF HistoryQuiet
<1>3. \A id \in Ids \ edited' :
        /\ rows'[id].status \in Claimable => rows'[id] = rows[id]
        /\ Present(id)' => Present(id) /\ rows'[id].retries = rows[id].retries
        /\ rows'[id].status = "completed" =>
             rows[id].status = "completed" \/ id \in succeeded
  BY DEF RowsQuiet, Present, Absent, Claimable
<1>4. ExclusiveExecution'
  BY <1>1, <1>2 DEF SafeInv, ExclusiveExecution, HistoryQuiet
<1>5. SucceedsOnce'
  <2> SUFFICES ASSUME NEW id \in succeeded' \ edited'
               PROVE  /\ rows'[id].status \notin Claimable
                      /\ \A p \in Procs : Holds(p, id)' => pc'[p] = "succeed"
    BY DEF SucceedsOnce
  <2>1. id \in Ids /\ id \in succeeded \ edited
    <3>1. id \in succeeded /\ id \in 1..lastId /\ lastId \in 0..MaxId
      BY DEF HistoryQuiet, TypeOK, HistoryOK, TablesOK
    <3> QED
      BY <3>1, TaskQueueAssumption DEF HistoryQuiet, Ids
  <2> QED
    BY <1>1, <1>3, <2>1 DEF SafeInv, SucceedsOnce
<1>6. CompletedIsReal'
  BY <1>2, <1>3 DEF SafeInv, CompletedIsReal, HistoryQuiet
<1>7. RetryCountAccounts'
  <2>1. \A id \in Ids \ edited' :
          Present(id)' => runs'[id] <= rows'[id].retries + 1
    BY <1>2, <1>3 DEF SafeInv, RetryCountAccounts, HistoryQuiet
  <2>2. ASSUME NEW r \in results', r[1] \notin edited', Present(r[1])'
        PROVE  r[2] <= rows'[r[1]].retries
    <3>1. r[1] \in Ids \ edited'
      BY <2>2 DEF Present
    <3>2. /\ r[1] \notin edited /\ Present(r[1])
          /\ rows'[r[1]].retries = rows[r[1]].retries
      BY <1>2, <1>3, <2>2, <3>1
    <3> QED
      BY <2>2, <3>2 DEF SafeInv, RetryCountAccounts, HistoryQuiet
  <2> QED
    BY <2>1, <2>2 DEF RetryCountAccounts
<1>8. SuccessGate'
  BY DEF SafeInv, SuccessGate, HistoryQuiet, LocalsQuiet
<1>9. HeldNotClaimable'
  BY <1>1, <1>2, <1>3 DEF SafeInv, HeldNotClaimable
<1>10. SuccessNoted'
  BY DEF SafeInv, SuccessNoted, HistoryQuiet, LocalsQuiet, HoldingPCs
<1>11. ClaimableRunsCounted'
  BY <1>2, <1>3 DEF SafeInv, ClaimableRunsCounted, HistoryQuiet
<1>12. SnapshotsBehind'
  <2> SUFFICES ASSUME NEW p \in Procs, NEW s \in todo'[p] \cup {cur'[p]},
                      s.id \notin edited', Present(s.id)'
               PROVE  s.row.retries <= rows'[s.id].retries
    BY DEF SnapshotsBehind
  <2>1. s.id \in Ids \ edited' /\ Kept(p, s)
    BY DEF LocalsQuiet, Present
  <2>2. s.row.retries <= rows[s.id].retries
    BY <1>2, <1>3, <2>1, KeptBehind DEF SafeInv
  <2> QED
    BY <1>3, <2>1, <2>2
<1>13. RetryCounted'
  <2> SUFFICES ASSUME NEW p \in Procs, pc'[p] = "record",
                      cur'[p].id \notin edited', Present(cur[p].id)'
               PROVE  cur'[p].row.retries + 1 <= rows'[cur'[p].id].retries
    BY DEF RetryCounted
  <2>1. pc[p] = "record" /\ cur'[p] = cur[p] /\ cur[p].id \in Ids \ edited'
    BY DEF LocalsQuiet, Present
  <2> QED
    BY <1>2, <1>3, <2>1 DEF SafeInv, RetryCounted
<1>14. ResultsKnown'
  BY DEF SafeInv, ResultsKnown, HistoryQuiet
<1>15. GateChecked'
  BY DEF SafeInv, GateChecked, HistoryQuiet, LocalsQuiet
<1> QED
  BY <1>4, <1>5, <1>6, <1>7, <1>8, <1>9, <1>10, <1>11, <1>12, <1>13, <1>14,
     <1>15 DEF SafeInv
(* What makes a step quiet.                                                  *)
LEMMA LocalsSameQuiet ==
  ASSUME TypeOK, SafeInv, UNCHANGED <<pc, cur, todo, gate>>
  PROVE  LocalsQuiet
  BY DEF LocalsQuiet, Kept, SafeInv, GateChecked

LEMMA FinishQuiet ==
  ASSUME TypeOK, SafeInv, NEW p \in Procs, Finish(p)
  PROVE  LocalsQuiet
<1>1. \A q \in Procs \ {p} : /\ pc'[q] = pc[q] /\ cur'[q] = cur[q]
                             /\ todo'[q] = todo[q] /\ gate'[q] = gate[q]
  BY DEF Finish, Begin, Goto, TypeOK, LocalsOK
<1>2. /\ pc'[p] \in {"idle", "sweep", "check"}
      /\ \A s \in todo'[p] \cup {cur'[p]} : s \in todo[p] \cup {NoSnapshot}
  BY DEF Finish, Begin, Goto, TypeOK, LocalsOK
<1> QED
  BY <1>1, <1>2 DEF LocalsQuiet, Kept, HoldingPCs, SafeInv, GateChecked

LEMMA BeginQuiet ==
  ASSUME TypeOK, SafeInv, NEW p \in Procs, NEW id \in Ids,
         NEW label \in {"sweep", "check", "reset", "update", "cancel", "delete"},
         Begin(p, label, Snap(id)), gate' = gate,
         \/ UNCHANGED todo
         \/ \E rest \in SUBSET Ids :
              todo' = [todo EXCEPT ![p] = {Snap(i) : i \in rest}]
  PROVE  LocalsQuiet
<1>1. \A q \in Procs \ {p} : /\ pc'[q] = pc[q] /\ cur'[q] = cur[q]
                             /\ todo'[q] = todo[q] /\ gate'[q] = gate[q]
  BY DEF Begin, Goto, TypeOK, LocalsOK
<1>2. /\ pc'[p] = label
      /\ \A s \in todo'[p] \cup {cur'[p]} : Kept(p, s)
  BY DEF Begin, Goto, TypeOK, LocalsOK, Kept
<1> QED
  BY <1>1, <1>2 DEF LocalsQuiet, Kept, HoldingPCs, SafeInv, GateChecked

LEMMA EnqueueQuiet ==
  ASSUME TypeOK, SafeInv, NEW c \in Procs, NEW label \in {"idle", "insert"},
         Begin(c, label, NoSnapshot), UNCHANGED <<todo, gate>>
  PROVE  LocalsQuiet
<1>1. \A q \in Procs \ {c} : /\ pc'[q] = pc[q] /\ cur'[q] = cur[q]
                             /\ todo'[q] = todo[q] /\ gate'[q] = gate[q]
  BY DEF Begin, Goto, TypeOK, LocalsOK
<1>2. pc'[c] = label /\ cur'[c] = NoSnapshot /\ todo'[c] = todo[c]
  BY DEF Begin, Goto, TypeOK, LocalsOK
<1> QED
  BY <1>1, <1>2 DEF LocalsQuiet, Kept, HoldingPCs, SafeInv, GateChecked

LEMMA LinkedQuiet ==
  ASSUME TypeOK, SafeInv, NEW c \in Procs, NEW link, Linked(c, link)
  PROVE  LocalsQuiet
  BY EnqueueQuiet, LocalsSameQuiet DEF Linked, NextItem

LEMMA StatusQuiet ==
  ASSUME TypeOK, NEW id \in Ids, NEW status \in Statuses \ Claimable,
         UpdateActionStatus(id, status),
         edited \subseteq edited',
         status = "completed" => id \in succeeded \cup edited
  PROVE  RowsQuiet
<1>1. CASE Present(id)
  <2>1. rows' = [rows EXCEPT ![id] = [rows[id] EXCEPT !.status = status]]
    BY <1>1 DEF UpdateActionStatus, Store
  <2>2. rows[id] \in Row
    BY DEF TypeOK, TablesOK
  <2>3. /\ [rows[id] EXCEPT !.status = status].status = status
        /\ [rows[id] EXCEPT !.status = status].retries = rows[id].retries
    BY <2>2 DEF Row
  <2>4. status # "absent"
    BY DEF Statuses, Terminal, Claimable
  <2> QED
    BY <1>1, <2>1, <2>3, <2>4 DEF RowsQuiet, Present, TypeOK, TablesOK
<1>2. CASE ~Present(id)
  BY <1>2 DEF UpdateActionStatus, Store, RowsQuiet
<1> QED
  BY <1>1, <1>2

(* Writing the row of an action that becomes edited.                         *)
LEMMA EditQuiet ==
  ASSUME TypeOK, NEW id \in Ids, NEW row, Store(id, row), id \in edited'
  PROVE  RowsQuiet
  BY DEF Store, RowsQuiet, TypeOK, TablesOK

LEMMA DeleteQuiet ==
  ASSUME TypeOK, NEW ids, DeleteRows(ids)
  PROVE  RowsQuiet /\ results' \subseteq results
  BY DEF DeleteRows, RowsQuiet

LEMMA SameRowsQuiet == ASSUME UNCHANGED rows PROVE RowsQuiet
  BY DEF RowsQuiet

-----------------------------------------------------------------------------
(* The steps that are not quiet.                                             *)

LEMMA MarkSafe ==
  ASSUME TypeOK, TypeOK', SafeInv, NEW p \in Procs, MarkActionAsProcessing(p),
         StillClaimable(cur[p].id)
  PROVE  SafeInv'
<1> DEFINE id == cur[p].id
<1>1. /\ pc[p] = "claim" /\ UpdateActionStatus(id, "processing")
      /\ Goto(p, IF cur[p].row.handled THEN "execute" ELSE "unhandled")
      /\ runs' = IF cur[p].row.handled
                 THEN [runs EXCEPT ![id] = @ + 1] ELSE runs
      /\ UNCHANGED <<cur, todo, job, gate>>
      /\ UNCHANGED <<lastId, deps, results, now, succeeded, edited>>
  BY DEF MarkActionAsProcessing
<1>2. id \in Ids
  <2>1. cur[p].id \in 0..MaxId /\ cur[p].id # 0
    BY <1>1 DEF TypeOK, LocalsOK, Snapshot
  <2> QED
    BY <2>1, TaskQueueAssumption DEF Ids
<1>3. rows[id].status \in Claimable /\ Present(id)
  BY <1>2 DEF StillClaimable, Present, Claimable
<1>4. /\ \A i \in Ids \ {id} : rows'[i] = rows[i]
      /\ rows'[id].status = "processing" /\ rows'[id].retries = rows[id].retries
  <2>1. rows[id] \in Row
    BY <1>2 DEF TypeOK, TablesOK
  <2> DEFINE new == [rows[id] EXCEPT !.status = "processing"]
  <2>2. new.status = "processing" /\ new.retries = rows[id].retries
    BY <2>1 DEF Row
  <2>3. rows' = [rows EXCEPT ![id] = new]
    BY <1>1, <1>3 DEF UpdateActionStatus, Store
  <2> HIDE DEF new
  <2> QED
    BY <1>2, <2>2, <2>3 DEF TypeOK, TablesOK
<1>5. \A i \in Ids : Present(i)' <=> Present(i)
  BY <1>3, <1>4 DEF Present
<1>6. /\ \A q \in Procs \ {p} : pc'[q] = pc[q]
      /\ pc'[p] \in {"execute", "unhandled"}
  BY <1>1 DEF Goto, TypeOK, LocalsOK
<1>7. \A i \in Ids \ {id} : runs'[i] = runs[i]
  BY <1>1 DEF TypeOK, HistoryOK
<1>8. runs'[id] <= runs[id] + 1 /\ runs[id] \in Nat /\ rows[id].retries \in Nat
  BY <1>1, <1>2 DEF TypeOK, HistoryOK, TablesOK, Row
<1>9. id \in edited \/ (id \notin succeeded /\ \A q \in Procs : ~Holds(q, id))
  BY <1>2, <1>3 DEF SafeInv, SucceedsOnce, HeldNotClaimable
<1>10. \A q \in Procs, i \in Ids : Holds(q, i)' => Holds(q, i) \/ (q = p /\ i = id)
  BY <1>1, <1>6 DEF Holds
<1> HIDE DEF id
<1>11. ExclusiveExecution'
  BY <1>1, <1>9, <1>10 DEF SafeInv, ExclusiveExecution
<1>12. SucceedsOnce'
  <2>1. \A i \in succeeded : i \in Ids
    BY TaskQueueAssumption DEF TypeOK, HistoryOK, TablesOK, Ids
  <2>2. \A i \in succeeded \ edited : i # id /\ i \in Ids
    BY <1>9, <2>1
  <2>3. \A i \in succeeded \ edited, q \in Procs :
           Holds(q, i)' => Holds(q, i) /\ pc'[q] = pc[q]
    BY <1>6, <1>10, <2>2, <1>1 DEF Holds, id, HoldingPCs
  <2> QED
    BY <1>1, <1>4, <2>2, <2>3 DEF SafeInv, SucceedsOnce
<1>13. CompletedIsReal'
  BY <1>1, <1>4 DEF SafeInv, CompletedIsReal
<1>14. RetryCountAccounts'
  <2>1. \A i \in Ids \ edited : Present(i)' => runs'[i] <= rows'[i].retries + 1
    BY <1>1, <1>2, <1>3, <1>4, <1>5, <1>7, <1>8
    DEF SafeInv, RetryCountAccounts, ClaimableRunsCounted
  <2>2. \A i \in Ids : rows'[i].retries = rows[i].retries
    BY <1>4
  <2>3. \A i : Present(i)' => i \in Ids
    BY DEF Present
  <2> QED
    BY <1>1, <1>5, <2>1, <2>2, <2>3 DEF SafeInv, RetryCountAccounts
<1>15. SuccessGate'
  BY <1>1, <1>6 DEF SafeInv, SuccessGate, GateChecked
<1>16. HeldNotClaimable'
  BY <1>1, <1>4, <1>10 DEF SafeInv, HeldNotClaimable, Claimable
<1>17. SuccessNoted' /\ RetryCounted'
  <2>1. \A i \in Ids : rows'[i].retries = rows[i].retries
    BY <1>4
  <2>2. \A i : Present(i)' => i \in Ids
    BY DEF Present
  <2> QED
    BY <1>1, <1>5, <1>6, <2>1, <2>2 DEF SafeInv, SuccessNoted, RetryCounted
<1>18. ClaimableRunsCounted'
  BY <1>1, <1>4, <1>7 DEF SafeInv, ClaimableRunsCounted, Claimable
<1>19. SnapshotsBehind'
  <2>1. \A i \in Ids : rows'[i].retries = rows[i].retries
    BY <1>4
  <2>2. \A i : Present(i)' => i \in Ids
    BY DEF Present
  <2> QED
    BY <1>1, <1>5, <2>1, <2>2 DEF SafeInv, SnapshotsBehind
<1>20. ResultsKnown' /\ GateChecked'
  BY <1>1, <1>6 DEF SafeInv, ResultsKnown, GateChecked
<1> QED
  BY <1>11, <1>12, <1>13, <1>14, <1>15, <1>16, <1>17, <1>18, <1>19, <1>20
  DEF SafeInv

LEMMA ExecuteSafe ==
  ASSUME TypeOK, TypeOK', SafeInv, NEW p \in Procs, Execute(p)
  PROVE  SafeInv'
<1> DEFINE id == cur[p].id
<1>1. /\ pc[p] = "execute"
      /\ UNCHANGED <<rows, lastId, deps, results, cur, todo, job, gate, runs,
                     edited>>
      /\ \/ Goto(p, "succeed") /\ succeeded' = succeeded \cup {id}
         \/ Goto(p, "fail") /\ succeeded' = succeeded
         \/ Goto(p, "retry") /\ succeeded' = succeeded
  BY DEF Execute, table
<1>2. id \in Ids
  <2>1. cur[p].id \in 0..MaxId /\ cur[p].id # 0
    BY <1>1 DEF TypeOK, LocalsOK, Snapshot
  <2> QED
    BY <2>1, TaskQueueAssumption DEF Ids
<1>3. /\ \A q \in Procs \ {p} : pc'[q] = pc[q]
      /\ pc'[p] \in {"succeed", "fail", "retry"}
      /\ pc'[p] = "succeed" => id \in succeeded'
      /\ id \in succeeded' => id \in succeeded \/ pc'[p] = "succeed"
  BY <1>1 DEF Goto, TypeOK, LocalsOK
<1>4. \A q \in Procs, i \in Ids : Holds(q, i)' <=> Holds(q, i)
  BY <1>1, <1>3 DEF Holds, HoldingPCs
<1>5. Holds(p, id) /\ succeeded \subseteq succeeded'
  BY <1>1 DEF Holds, HoldingPCs
<1>6. id \in succeeded => id \in edited
  BY <1>1, <1>5 DEF SafeInv, SucceedsOnce
<1>7. \A i : Present(i)' <=> Present(i)
  BY <1>1 DEF Present
<1>8. ExclusiveExecution' /\ HeldNotClaimable'
  BY <1>1, <1>4 DEF SafeInv, ExclusiveExecution, HeldNotClaimable
<1>9. SucceedsOnce'
  <2> SUFFICES ASSUME NEW i \in succeeded' \ edited'
               PROVE  /\ rows'[i].status \notin Claimable
                      /\ \A q \in Procs : Holds(q, i)' => pc'[q] = "succeed"
    BY DEF SucceedsOnce
  <2>1. CASE i = id
    <3>1. id \notin edited /\ pc'[p] = "succeed"
      BY <1>1, <1>3, <1>6, <2>1
    <3>2. rows'[i].status \notin Claimable
      BY <1>1, <1>2, <1>5, <2>1, <3>1 DEF SafeInv, HeldNotClaimable
    <3>3. \A q \in Procs : Holds(q, i)' => q = p
      BY <1>2, <1>4, <1>5, <2>1, <3>1 DEF SafeInv, ExclusiveExecution
    <3> QED
      BY <3>1, <3>2, <3>3
  <2>2. CASE i # id
    <3>1. i \in succeeded \ edited
      BY <1>1, <2>2
    <3>2. \A q \in Procs : Holds(q, i)' => Holds(q, i) /\ q # p
      BY <1>1, <1>3, <2>2 DEF Holds, id
    <3> QED
      BY <1>1, <1>3, <3>1, <3>2 DEF SafeInv, SucceedsOnce
  <2> QED
    BY <2>1, <2>2
<1>10. CompletedIsReal'
  BY <1>1, <1>5 DEF SafeInv, CompletedIsReal
<1>11. RetryCountAccounts' /\ ClaimableRunsCounted' /\ ResultsKnown'
  BY <1>1, <1>7 DEF SafeInv, RetryCountAccounts, ClaimableRunsCounted, ResultsKnown
<1>12. SuccessGate' /\ GateChecked'
  BY <1>1, <1>3, <1>5 DEF SafeInv, SuccessGate, GateChecked, HoldingPCs
<1>13. SuccessNoted'
  BY <1>1, <1>3, <1>5 DEF SafeInv, SuccessNoted
<1>14. SnapshotsBehind' /\ RetryCounted'
  BY <1>1, <1>3, <1>7 DEF SafeInv, SnapshotsBehind, RetryCounted
<1> QED
  BY <1>8, <1>9, <1>10, <1>11, <1>12, <1>13, <1>14 DEF SafeInv
LEMMA ScheduleRetrySafe ==
  ASSUME TypeOK, TypeOK', SafeInv, NEW p \in Procs, ScheduleRetry(p)
  PROVE  SafeInv'
<1> DEFINE id == cur[p].id
<1>1. /\ pc[p] = "retry" /\ Goto(p, "record")
      /\ Store(id, Retried(rows[id], cur[p].row.retries + 1))
      /\ UNCHANGED <<lastId, deps, results, cur, todo, job, gate, runs,
                     succeeded, edited>>
  BY DEF ScheduleRetry, history
<1>2. id \in Ids
  <2>1. cur[p].id \in 0..MaxId /\ cur[p].id # 0
    BY <1>1 DEF TypeOK, LocalsOK, Snapshot
  <2> QED
    BY <2>1, TaskQueueAssumption DEF Ids
<1>3. /\ \A q \in Procs \ {p} : pc'[q] = pc[q]
      /\ pc'[p] = "record" /\ Holds(p, id)
  BY <1>1 DEF Goto, TypeOK, LocalsOK, Holds, HoldingPCs
<1>4. \A i \in Ids \ {id} : rows'[i] = rows[i]
  BY <1>1 DEF Store, TypeOK, TablesOK
<1>5. Present(id) => /\ rows'[id].status = "retrying"
                     /\ rows'[id].retries = rows[id].retries + 1
                     /\ rows[id].retries \in Nat
  <2>1. rows[id] \in Row
    BY <1>2 DEF TypeOK, TablesOK
  <2> DEFINE new == Retried(rows[id], cur[p].row.retries + 1)
  <2>2. new.status = "retrying" /\ new.retries = rows[id].retries + 1
    BY <2>1, RetriedIsRow
  <2>3. rows[id].retries \in Nat
    BY <2>1 DEF Row
  <2> HIDE DEF new
  <2> QED
    BY <1>1, <1>2, <2>2, <2>3 DEF Store, TypeOK, TablesOK, new
<1>6. ~Present(id) => rows' = rows
  BY <1>1 DEF Store
<1> HIDE DEF id
<1>7. \A i : Present(i)' <=> Present(i)
  <2>1. \A i \in Ids \ {id} : Present(i)' <=> Present(i)
    BY <1>4 DEF Present
  <2>2. \A i \in {id} : Present(i)' <=> Present(i)
    <3>1. CASE Present(id)
      BY <1>2, <1>5, <3>1 DEF Present
    <3>2. CASE ~Present(id)
      BY <1>6, <3>2 DEF Present
    <3> QED
      BY <3>1, <3>2
  <2> QED
    BY <2>1, <2>2 DEF Present
<1>8. \A q \in Procs, i \in Ids : Holds(q, i)' => Holds(q, i) /\ q # p
  BY <1>1, <1>3 DEF Holds, HoldingPCs
<1>9. id \notin edited => /\ id \notin succeeded
                          /\ \A q \in Procs, i \in {id} : ~Holds(q, i)'
  <2>1. id \in succeeded => id \in edited
    BY <1>1, <1>3 DEF SafeInv, SucceedsOnce
  <2>2. \A q \in Procs, i \in {id} : Holds(q, i)' => id \in edited
    BY <1>2, <1>3, <1>8 DEF SafeInv, ExclusiveExecution
  <2> QED
    BY <2>1, <2>2
<1>10. \A i \in Ids : /\ rows[i].retries \in Nat /\ rows'[i].retries \in Nat
                      /\ Present(i) => rows'[i].retries >= rows[i].retries
  BY <1>4, <1>5 DEF TypeOK, TablesOK, Row
<1>11. ExclusiveExecution'
  BY <1>1, <1>8 DEF SafeInv, ExclusiveExecution
<1>12. SucceedsOnce'
  <2> SUFFICES ASSUME NEW i \in succeeded \ edited
               PROVE  /\ rows'[i].status \notin Claimable
                      /\ \A q \in Procs : Holds(q, i)' => pc'[q] = "succeed"
    BY <1>1 DEF SucceedsOnce
  <2>1. i \in Ids /\ i # id
    BY <1>9, TaskQueueAssumption DEF TypeOK, HistoryOK, TablesOK, Ids
  <2> QED
    BY <1>3, <1>4, <1>8, <2>1 DEF SafeInv, SucceedsOnce
<1>13. CompletedIsReal'
  BY <1>1, <1>4, <1>5, <1>6 DEF SafeInv, CompletedIsReal
<1>14. RetryCountAccounts'
  <2>1. \A i \in Ids : runs[i] \in Nat
    BY DEF TypeOK, HistoryOK
  <2>2. \A i \in Ids \ edited : Present(i) => runs[i] <= rows'[i].retries + 1
    BY <1>10, <2>1 DEF SafeInv, RetryCountAccounts
  <2>3. ASSUME NEW r \in results, r[1] \notin edited, Present(r[1])
        PROVE  r[2] <= rows'[r[1]].retries
    <3>1. r[1] \in Ids /\ r[2] \in Nat /\ r[2] <= rows[r[1]].retries
      BY <2>3 DEF SafeInv, RetryCountAccounts, TypeOK, TablesOK, Present
    <3>2. /\ rows[r[1]].retries \in Nat /\ rows'[r[1]].retries \in Nat
          /\ rows'[r[1]].retries >= rows[r[1]].retries
      BY <1>10, <2>3, <3>1 DEF TypeOK, TablesOK, Row
    <3> QED
      BY <3>1, <3>2
  <2> QED
    BY <1>1, <1>7, <2>2, <2>3 DEF RetryCountAccounts
<1>15. SuccessGate' /\ GateChecked' /\ SuccessNoted'
  BY <1>1, <1>3 DEF SafeInv, SuccessGate, GateChecked, SuccessNoted, HoldingPCs
<1>16. HeldNotClaimable'
  <2> SUFFICES ASSUME NEW q \in Procs, NEW i \in Ids \ edited, Holds(q, i)'
               PROVE  rows'[i].status \notin Claimable
    BY <1>1 DEF HeldNotClaimable
  <2>1. i # id /\ Holds(q, i)
    BY <1>8, <1>9
  <2> QED
    BY <1>4, <2>1 DEF SafeInv, HeldNotClaimable
<1>17. ClaimableRunsCounted'
  <2> SUFFICES ASSUME NEW i \in Ids \ edited, rows'[i].status \in Claimable
               PROVE  runs[i] <= rows'[i].retries
    BY <1>1 DEF ClaimableRunsCounted
  <2>1. CASE i = id /\ Present(id)
    BY <1>2, <1>5, <2>1 DEF SafeInv, RetryCountAccounts
  <2>2. CASE ~(i = id /\ Present(id))
    BY <1>4, <1>6, <2>2 DEF SafeInv, ClaimableRunsCounted
  <2> QED
    BY <2>1, <2>2
<1>18. SnapshotsBehind'
  <2> SUFFICES ASSUME NEW q \in Procs, NEW s \in todo[q] \cup {cur[q]},
                      s.id \notin edited, Present(s.id)
               PROVE  s.row.retries <= rows'[s.id].retries
    BY <1>1, <1>7 DEF SnapshotsBehind
  <2>1. s.id \in Ids /\ s.row.retries \in Nat
    <3>1. s \in Snapshot
      BY DEF TypeOK, LocalsOK
    <3> QED
      BY <3>1 DEF Present, Snapshot, Row
  <2>2. s.row.retries <= rows[s.id].retries
    BY DEF SafeInv, SnapshotsBehind
  <2>3. rows'[s.id].retries \in Nat
    BY <2>1 DEF TypeOK, TablesOK, Row
  <2> QED
    BY <1>10, <2>1, <2>2, <2>3
<1>19. RetryCounted'
  <2> SUFFICES ASSUME NEW q \in Procs, pc'[q] = "record",
                      cur[q].id \notin edited, Present(cur[q].id)
               PROVE  cur[q].row.retries + 1 <= rows'[cur[q].id].retries
    BY <1>1, <1>7 DEF RetryCounted
  <2>1. cur[q].id \in Ids /\ cur[q].row.retries \in Nat
    BY DEF Present, TypeOK, LocalsOK, Snapshot, Row
  <2>2. rows'[cur[q].id].retries \in Nat
    BY <2>1 DEF TypeOK, TablesOK, Row
  <2>3. CASE q = p
    <3>1. cur[p].row.retries <= rows[id].retries
      BY <2>3 DEF SafeInv, SnapshotsBehind, id
    <3> QED
      BY <1>5, <2>1, <2>3, <3>1 DEF id
  <2>4. CASE q # p
    <3>1. cur[q].row.retries + 1 <= rows[cur[q].id].retries
      BY <1>3, <2>4 DEF SafeInv, RetryCounted
    <3> QED
      BY <1>10, <2>1, <2>2, <3>1
  <2> QED
    BY <2>3, <2>4
<1>20. ResultsKnown'
  BY <1>1 DEF SafeInv, ResultsKnown
<1> QED
  BY <1>11, <1>12, <1>13, <1>14, <1>15, <1>16, <1>17, <1>18, <1>19, <1>20
  DEF SafeInv
LEMMA InsertSafe ==
  ASSUME TypeOK, TypeOK', SafeInv, NEW c \in Procs, InsertAction(c)
  PROVE  SafeInv'
<1> DEFINE item == Head(job[c].items)
           id == lastId + 1
           row == [status |-> "pending", weight |-> item.weight,
                   retries |-> 0, start |-> item.start,
                   deadline |-> item.deadline, nextRetry |-> NULL,
                   handled |-> item.handled, created |-> now]
           new == [id |-> id, row |-> row]
<1>1. /\ lastId < MaxId /\ lastId' = id
      /\ rows' = [rows EXCEPT ![id] = row]
      /\ \/ Begin(c, "link", new)
         \/ Begin(c, "idle", NoSnapshot)
         \/ Begin(c, "insert", NoSnapshot)
      /\ UNCHANGED <<todo, gate, deps, results, runs, succeeded, edited>>
  BY DEF InsertAction, NextItem, history
<1>2. id \in Ids /\ id > lastId /\ lastId \in 0..MaxId
  BY <1>1, TaskQueueAssumption DEF Ids, TypeOK, TablesOK
<1>3. /\ \A i \in Ids \ {id} : rows'[i] = rows[i]
      /\ rows'[id].status = "pending" /\ rows'[id].retries = 0
      /\ runs[id] = 0 /\ id \notin succeeded \cup edited
  BY <1>1, <1>2, TaskQueueAssumption DEF TypeOK, TablesOK, HistoryOK, Ids
<1>4. new.id = id /\ new.row.retries = 0 /\ NoSnapshot.id = 0 /\ id # 0
  BY <1>2, NoSnapshotIsSnapshot
<1> HIDE DEF new, id
<1>5. /\ \A q \in Procs \ {c} : pc'[q] = pc[q] /\ cur'[q] = cur[q]
      /\ pc'[c] \in {"link", "idle", "insert"}
      /\ cur'[c] \in {new, NoSnapshot}
  BY <1>1 DEF Begin, Goto, TypeOK, LocalsOK
<1>6. \A q \in Procs : \A s \in todo[q] \cup {cur[q]} :
        s.id # id /\ s.id <= lastId
  BY <1>2, TaskQueueAssumption DEF TypeOK, LocalsOK, Snapshot, id
<1>7. \A q \in Procs, i \in Ids :
        Holds(q, i)' => Holds(q, i) /\ pc'[q] = pc[q] /\ i # id
  BY <1>5, <1>6 DEF Holds, HoldingPCs
<1>8. \A i : i # id => (Present(i)' <=> Present(i))
  BY <1>3 DEF Present
<1>9. \A r \in results : r[1] # id /\ r[1] <= id
  <2>1. \A r \in results : r[1] \in Nat /\ r[1] <= lastId
    BY TaskQueueAssumption
    DEF TypeOK, TablesOK, Ids, SafeInv, ResultsKnown
  <2> QED
    BY <1>2, <2>1, TaskQueueAssumption DEF Ids
<1>10. ExclusiveExecution'
  BY <1>1, <1>7 DEF SafeInv, ExclusiveExecution
<1>11. SucceedsOnce'
  <2>1. \A i \in succeeded : i \in Ids
    BY SucceededIds
  <2>2. \A i \in succeeded \ edited : i \in Ids /\ i # id
    BY <1>3, <2>1
  <2> QED
    BY <1>1, <1>3, <1>7, <2>2 DEF SafeInv, SucceedsOnce
<1>12. CompletedIsReal'
  BY <1>1, <1>3 DEF SafeInv, CompletedIsReal
<1>13. RetryCountAccounts'
  <2>1. \A i \in Ids \ edited : Present(i)' => runs[i] <= rows'[i].retries + 1
    BY <1>3, <1>8 DEF SafeInv, RetryCountAccounts
  <2>2. \A r \in results : r[1] # id
    BY <1>9
  <2>3. \A i : i # id /\ Present(i) => rows'[i] = rows[i]
    BY <1>3 DEF Present
  <2> QED
    BY <1>1, <1>8, <2>1, <2>2, <2>3 DEF SafeInv, RetryCountAccounts
<1>14. SuccessGate' /\ GateChecked' /\ SuccessNoted'
  BY <1>1, <1>5 DEF SafeInv, SuccessGate, GateChecked, SuccessNoted, HoldingPCs
<1>15. HeldNotClaimable'
  BY <1>1, <1>3, <1>7 DEF SafeInv, HeldNotClaimable
<1>16. ClaimableRunsCounted'
  BY <1>1, <1>3 DEF SafeInv, ClaimableRunsCounted
<1>17. SnapshotsBehind'
  <2> SUFFICES ASSUME NEW q \in Procs, NEW s \in todo'[q] \cup {cur'[q]},
                      s.id \notin edited, Present(s.id)'
               PROVE  s.row.retries <= rows'[s.id].retries
    BY <1>1 DEF SnapshotsBehind
  <2>1. CASE s \in todo[q] \cup {cur[q]}
    <3>1. s.id \in Ids \ {id}
      BY <1>6, <2>1 DEF Present
    <3> QED
      BY <1>3, <1>8, <2>1, <3>1 DEF SafeInv, SnapshotsBehind
  <2>2. CASE s = new
    BY <1>3, <1>4, <2>2
  <2>3. CASE s = NoSnapshot
    BY <1>4, <2>3, IdsAreNat DEF Present
  <2> QED
    BY <1>1, <1>5, <2>1, <2>2, <2>3
<1>18. RetryCounted'
  <2> SUFFICES ASSUME NEW q \in Procs, pc'[q] = "record",
                      cur'[q].id \notin edited, Present(cur[q].id)'
               PROVE  cur'[q].row.retries + 1 <= rows'[cur'[q].id].retries
    BY <1>1 DEF RetryCounted
  <2>1. pc[q] = "record" /\ cur'[q] = cur[q] /\ cur[q].id \in Ids \ {id}
    BY <1>5, <1>6 DEF Present
  <2>2. Present(cur[q].id)
    BY <1>8, <2>1 DEF Present
  <2> QED
    BY <1>3, <2>1, <2>2 DEF SafeInv, RetryCounted
<1>19. ResultsKnown'
  BY <1>1, <1>9 DEF ResultsKnown
<1> QED
  BY <1>10, <1>11, <1>12, <1>13, <1>14, <1>15, <1>16, <1>17, <1>18, <1>19
  DEF SafeInv
-----------------------------------------------------------------------------
(* SafeInv is an invariant.                                                  *)

LEMMA InitSafe == Init => SafeInv
  BY NoSnapshotIsSnapshot, TaskQueueAssumption
  DEF Init, SafeInv, ExclusiveExecution, SucceedsOnce, CompletedIsReal,
      RetryCountAccounts, SuccessGate, HeldNotClaimable, SuccessNoted,
      ClaimableRunsCounted, SnapshotsBehind, RetryCounted, ResultsKnown,
      GateChecked, Holds, HoldingPCs, Present, Absent, Claimable

(* A goroutine past its first read works on an id of the table.              *)
LEMMA CurIsId ==
  ASSUME TypeOK, NEW p \in Procs, pc[p] \notin {"idle", "insert"}
  PROVE  cur[p].id \in Ids /\ cur[p].id \in 1..lastId
<1>1. cur[p].id \in 0..MaxId /\ cur[p].id # 0 /\ cur[p].id <= lastId
  BY DEF TypeOK, LocalsOK, Snapshot
<1>2. lastId \in 0..MaxId
  BY DEF TypeOK, TablesOK
<1> QED
  BY <1>1, <1>2, TaskQueueAssumption DEF Ids

(* When the dependency query passes, the "success" predecessors it saw had   *)
(* completed, and a completed row is real.                                   *)
LEMMA CheckGate ==
  ASSUME TypeOK, SafeInv, NEW id \in Ids, CheckDependenciesMet(id)
  PROVE  SuccessPredecessors(id) \subseteq succeeded \cup edited
<1> SUFFICES ASSUME NEW b \in SuccessPredecessors(id)
             PROVE  b \in succeeded \cup edited
  OBVIOUS
<1>1. b \in Ids /\ <<id, b, "success">> \in deps /\ Present(b)
  BY DEF SuccessPredecessors
<1>2. rows[b].status = "completed"
  BY <1>1 DEF CheckDependenciesMet, Unmet
<1> QED
  BY <1>1, <1>2 DEF SafeInv, CompletedIsReal

LEMMA ProcessActionSafe ==
  ASSUME TypeOK, TypeOK', SafeInv, NEW p \in Procs, ProcessAction(p)
  PROVE  SafeInv'
<1>1. CASE Check(p)
  <2>1. UNCHANGED <<table, now, history>> /\ pc[p] = "check"
    BY <1>1 DEF Check
  <2>2. HistoryQuiet /\ RowsQuiet
    BY <2>1 DEF HistoryQuiet, RowsQuiet, table, history
  <2>3. CASE Finish(p)
    BY <2>2, <2>3, FinishQuiet, QuietSafe
  <2>4. CASE ~Finish(p)
    <3>1. /\ Goto(p, "claim") /\ UNCHANGED <<cur, todo, job>>
          /\ gate' = [gate EXCEPT ![p] = SuccessPredecessors(cur[p].id)]
          /\ CheckDependenciesMet(cur[p].id)
      BY <1>1, <2>4 DEF Check
    <3>2. SuccessPredecessors(cur[p].id) \subseteq succeeded \cup edited
      BY <2>1, <3>1, CurIsId, CheckGate
    <3>3. /\ \A q \in Procs \ {p} : pc'[q] = pc[q] /\ gate'[q] = gate[q]
          /\ pc'[p] = "claim" /\ gate'[p] \subseteq succeeded \cup edited
      BY <3>1, <3>2 DEF Goto, TypeOK, LocalsOK
    <3>4. LocalsQuiet
      BY <3>1, <3>3 DEF LocalsQuiet, Kept, HoldingPCs, SafeInv, GateChecked
    <3> QED
      BY <2>2, <3>4, QuietSafe
  <2> QED
    BY <2>3, <2>4
<1>2. CASE MarkActionAsProcessing(p)
  <2>1. CASE StillClaimable(cur[p].id)
    BY <1>2, <2>1, MarkSafe
  <2>2. CASE ~StillClaimable(cur[p].id)
    <3>1. /\ Finish(p) /\ UNCHANGED <<rows, runs>>
          /\ UNCHANGED <<lastId, deps, results, now, succeeded, edited>>
      BY <1>2, <2>2 DEF MarkActionAsProcessing
    <3>2. HistoryQuiet /\ RowsQuiet
      BY <3>1 DEF HistoryQuiet, RowsQuiet
    <3> QED
      BY <3>1, <3>2, FinishQuiet, QuietSafe
  <2> QED
    BY <2>1, <2>2
<1>3. CASE Execute(p)
  BY <1>3, ExecuteSafe
<1>4. CASE Complete(p)
  <2>1. /\ pc[p] \in {"succeed", "fail", "unhandled"} /\ Finish(p)
        /\ CompleteAction(cur[p].id, pc[p] = "succeed")
        /\ UNCHANGED <<lastId, deps, results, now, history>>
    BY <1>4 DEF Complete
  <2>2. cur[p].id \in Ids
    BY <2>1, CurIsId
  <2>3. pc[p] = "succeed" => cur[p].id \in succeeded
    BY DEF SafeInv, SuccessNoted
  <2>4. \/ UpdateActionStatus(cur[p].id, "failed")
        \/ /\ UpdateActionStatus(cur[p].id, "completed")
           /\ cur[p].id \in succeeded
    BY <2>1, <2>3 DEF CompleteAction
  <2>5. RowsQuiet
    BY <2>1, <2>2, <2>4, StatusQuiet DEF history, Statuses, Terminal, Claimable
  <2>6. HistoryQuiet
    BY <2>1 DEF HistoryQuiet, history
  <2> QED
    BY <2>1, <2>5, <2>6, FinishQuiet, QuietSafe
<1>5. CASE ScheduleRetry(p)
  BY <1>5, ScheduleRetrySafe
<1>6. CASE RecordAttempt(p)
  <2>1. /\ pc[p] = "record" /\ Finish(p)
        /\ UNCHANGED <<rows, lastId, deps, now, history>>
        /\ \A r \in results' :
             r \in results \/ r = <<cur[p].id, cur[p].row.retries + 1>>
    BY <1>6 DEF RecordAttempt
  <2>2. cur[p].id <= lastId
    BY DEF TypeOK, LocalsOK
  <2>3. HistoryQuiet
    BY <2>1, <2>2 DEF HistoryQuiet, history, SafeInv, RetryCounted
  <2> QED
    BY <2>1, <2>3, SameRowsQuiet, FinishQuiet, QuietSafe
<1> QED
  BY <1>1, <1>2, <1>3, <1>4, <1>5, <1>6 DEF ProcessAction

LEMMA ClientSafe ==
  ASSUME TypeOK, TypeOK', SafeInv, NEW c \in Clients, ClientStep(c)
  PROVE  SafeInv'
<1>0. c \in Procs
  BY DEF Procs
<1>1. CASE ProcessMatching(c)
  <2>1. PICK ids \in SUBSET Ids : \E first \in ids :
          /\ Begin(c, "check", Snap(first))
          /\ todo' = [todo EXCEPT ![c] = {Snap(id) : id \in ids \ {first}}]
    BY <1>1 DEF ProcessMatching
  <2>2. PICK first \in ids :
          /\ Begin(c, "check", Snap(first))
          /\ todo' = [todo EXCEPT ![c] = {Snap(id) : id \in ids \ {first}}]
    BY <2>1
  <2>3. UNCHANGED <<table, now, job, gate, history>> /\ ids \ {first} \in SUBSET Ids
    BY <1>1 DEF ProcessMatching
  <2>4. LocalsQuiet
    BY <1>0, <2>2, <2>3, BeginQuiet
  <2>5. HistoryQuiet /\ RowsQuiet
    BY <2>3 DEF HistoryQuiet, RowsQuiet, table, history
  <2> QED
    BY <2>4, <2>5, QuietSafe
<1>2. CASE ProcessOne(c) \/ ForceRetry(c) \/ UpdateActionRead(c)
           \/ CancelActionRead(c) \/ DeleteActionRead(c)
  <2>1. /\ UNCHANGED <<table, now, todo, job, gate, history>>
        /\ \E id \in Ids,
              label \in {"check", "reset", "update", "cancel", "delete"} :
              Begin(c, label, Snap(id))
    BY <1>2 DEF ProcessOne, ForceRetry, UpdateActionRead, CancelActionRead,
                DeleteActionRead, ReadFor
  <2>2. LocalsQuiet
    BY <1>0, <2>1, BeginQuiet
  <2>3. HistoryQuiet /\ RowsQuiet
    BY <2>1 DEF HistoryQuiet, RowsQuiet, table, history
  <2> QED
    BY <2>2, <2>3, QuietSafe
<1>3. CASE ResetFailed(c)
  <2>1. /\ pc[c] = "reset" /\ UpdateActionStatus(cur[c].id, "pending")
        /\ edited' = edited \cup {cur[c].id} /\ Goto(c, "check")
        /\ UNCHANGED <<lastId, deps, results, now, cur, todo, job, gate, runs,
                       succeeded>>
    BY <1>3 DEF ResetFailed
  <2>2. RowsQuiet
    BY <1>0, <2>1, CurIsId, EditQuiet DEF UpdateActionStatus
  <2>3. HistoryQuiet
    BY <2>1 DEF HistoryQuiet
  <2>4. /\ \A q \in Procs \ {c} : pc'[q] = pc[q]
        /\ pc'[c] = "check"
    BY <1>0, <2>1 DEF Goto, TypeOK, LocalsOK
  <2>5. LocalsQuiet
    BY <2>1, <2>4 DEF LocalsQuiet, Kept, HoldingPCs, SafeInv, GateChecked
  <2> QED
    BY <2>2, <2>3, <2>5, QuietSafe
<1>4. CASE ProcessAction(c)
  BY <1>0, <1>4, ProcessActionSafe
<1>5. CASE StartEnqueue(c)
  <2>1. /\ Goto(c, "insert") /\ UNCHANGED <<table, now, cur, todo, gate, history>>
    BY <1>5 DEF StartEnqueue
  <2>2. /\ \A q \in Procs \ {c} : pc'[q] = pc[q]
        /\ pc'[c] = "insert"
    BY <1>0, <2>1 DEF Goto, TypeOK, LocalsOK
  <2>3. LocalsQuiet
    BY <2>1, <2>2 DEF LocalsQuiet, Kept, HoldingPCs, SafeInv, GateChecked
  <2>4. HistoryQuiet /\ RowsQuiet
    BY <2>1 DEF HistoryQuiet, RowsQuiet, table, history
  <2> QED
    BY <2>3, <2>4, QuietSafe
<1>6. CASE InsertAction(c)
  BY <1>0, <1>6, InsertSafe
<1>7. CASE LinkAction(c)
  <2>1. /\ UNCHANGED <<rows, lastId, results, now, history>>
        /\ \E link : Linked(c, link)
    BY <1>7 DEF LinkAction
  <2>2. LocalsQuiet
    BY <1>0, <2>1, LinkedQuiet
  <2>3. HistoryQuiet
    BY <2>1 DEF HistoryQuiet, history
  <2> QED
    BY <2>1, <2>2, <2>3, SameRowsQuiet, QuietSafe
<1>8. CASE UpdateActionWrite(c)
  <2>1. /\ pc[c] = "update" /\ edited' = edited \cup {cur[c].id} /\ Finish(c)
        /\ UNCHANGED <<lastId, deps, results, now, runs, succeeded>>
        /\ \E row : Store(cur[c].id, row)
    BY <1>8 DEF UpdateActionWrite
  <2>2. RowsQuiet
    BY <1>0, <2>1, CurIsId, EditQuiet
  <2>3. HistoryQuiet
    BY <2>1 DEF HistoryQuiet
  <2> QED
    BY <1>0, <2>1, <2>2, <2>3, FinishQuiet, QuietSafe
<1>9. CASE CancelActionWrite(c)
  <2>1. /\ pc[c] = "cancel" /\ Finish(c)
        /\ UpdateActionStatus(cur[c].id, "cancelled")
        /\ UNCHANGED <<lastId, deps, results, now, history>>
    BY <1>9 DEF CancelActionWrite
  <2>2. RowsQuiet
    BY <1>0, <2>1, CurIsId, StatusQuiet DEF history, Statuses, Terminal, Claimable
  <2>3. HistoryQuiet
    BY <2>1 DEF HistoryQuiet, history
  <2> QED
    BY <1>0, <2>1, <2>2, <2>3, FinishQuiet, QuietSafe
<1>10. CASE DeleteActionWrite(c)
  <2>1. /\ Finish(c) /\ DeleteRows({cur[c].id})
        /\ UNCHANGED <<lastId, now, history>>
    BY <1>10 DEF DeleteActionWrite
  <2>2. RowsQuiet /\ results' \subseteq results
    BY <2>1, DeleteQuiet
  <2>3. HistoryQuiet
    BY <2>1, <2>2 DEF HistoryQuiet, history
  <2> QED
    BY <1>0, <2>1, <2>2, <2>3, FinishQuiet, QuietSafe
<1> QED
  BY <1>1, <1>2, <1>3, <1>4, <1>5, <1>6, <1>7, <1>8, <1>9, <1>10
  DEF ClientStep, EnqueueStep, AdminStep

LEMMA JanitorSafe ==
  ASSUME TypeOK, TypeOK', SafeInv, NEW j \in Janitors, JanitorStep(j)
  PROVE  SafeInv'
<1>0. j \in Procs
  BY DEF Procs
<1>1. CASE ReadForCleanup(j)
  <2> DEFINE ids == {id \in Ids : rows[id].status \in Claimable}
  <2>1. PICK first \in ids :
          /\ Begin(j, "sweep", Snap(first))
          /\ todo' = [todo EXCEPT ![j] = {Snap(id) : id \in ids \ {first}}]
    BY <1>1 DEF ReadForCleanup
  <2>2. /\ UNCHANGED <<table, now, job, gate, history>>
        /\ ids \ {first} \in SUBSET Ids /\ first \in Ids
    BY <1>1 DEF ReadForCleanup
  <2> HIDE DEF ids
  <2>3. LocalsQuiet
    BY <1>0, <2>1, <2>2, BeginQuiet
  <2>4. HistoryQuiet /\ RowsQuiet
    BY <2>2 DEF HistoryQuiet, RowsQuiet, table, history
  <2> QED
    BY <2>3, <2>4, QuietSafe
<1>2. CASE ExpireOverdue(j)
  <2>1. /\ pc[j] = "sweep" /\ Finish(j)
        /\ UNCHANGED <<lastId, deps, results, now, history>>
        /\ UpdateActionStatus(cur[j].id, "timeout") \/ UNCHANGED rows
    BY <1>2 DEF ExpireOverdue
  <2>2. RowsQuiet
    BY <1>0, <2>1, CurIsId, StatusQuiet, SameRowsQuiet
    DEF history, Statuses, Terminal, Claimable
  <2>3. HistoryQuiet
    BY <2>1 DEF HistoryQuiet, history
  <2> QED
    BY <1>0, <2>1, <2>2, <2>3, FinishQuiet, QuietSafe
<1> QED
  BY <1>1, <1>2 DEF JanitorStep

LEMMA NextSafe ==
  ASSUME TypeOK, TypeOK', SafeInv, [Next]_vars
  PROVE  SafeInv'
<1>1. CASE \E w \in Workers : WorkerStep(w)
  <2>1. PICK w \in Workers : Fetch(w) \/ ProcessAction(w)
    BY <1>1 DEF WorkerStep
  <2>2. w \in Procs
    BY DEF Procs
  <2>3. CASE Fetch(w)
    <3>1. UNCHANGED <<table, now, todo, job, gate, history>>
      BY <2>3 DEF Fetch
    <3>2. LocalsQuiet
      BY <2>2, <2>3, <3>1, BeginQuiet DEF Fetch
    <3>3. HistoryQuiet /\ RowsQuiet
      BY <3>1 DEF HistoryQuiet, RowsQuiet, table, history
    <3> QED
      BY <3>2, <3>3, QuietSafe
  <2> QED
    BY <2>1, <2>2, <2>3, ProcessActionSafe
<1>2. CASE \E c \in Clients : ClientStep(c)
  BY <1>2, ClientSafe
<1>3. CASE \E j \in Janitors : JanitorStep(j)
  BY <1>3, JanitorSafe
<1>4. CASE \E p \in Procs : CallFails(p)
  <2>1. PICK p \in Procs : CallFails(p)
    BY <1>4
  <2>2. UNCHANGED <<table, now, history>>
    BY <2>1 DEF CallFails
  <2>3. HistoryQuiet /\ RowsQuiet
    BY <2>2 DEF HistoryQuiet, RowsQuiet, table, history
  <2>4. \/ AbandonRequest(p) \/ NextItem(p, job[p].prev)
        \/ \E link : Linked(p, link)
        \/ Finish(p)
    BY <2>1 DEF CallFails
  <2>5. LocalsQuiet
    BY <2>4, LinkedQuiet, FinishQuiet, EnqueueQuiet DEF AbandonRequest, NextItem
  <2> QED
    BY <2>3, <2>5, QuietSafe
<1>5. CASE ClearQueue \/ CleanupOldActions
  <2>1. \E ids : DeleteRows(ids)
    BY <1>5 DEF ClearQueue, CleanupOldActions
  <2>2. UNCHANGED <<lastId, locals, history>>
    BY <1>5 DEF ClearQueue, CleanupOldActions
  <2>3. RowsQuiet /\ results' \subseteq results
    BY <2>1, DeleteQuiet
  <2>4. HistoryQuiet /\ LocalsQuiet
    BY <2>2, <2>3, LocalsSameQuiet DEF HistoryQuiet, history, locals
  <2> QED
    BY <2>3, <2>4, QuietSafe
<1>6. CASE Crash
  <2>1. HistoryQuiet /\ RowsQuiet
    BY <1>6 DEF Crash, HistoryQuiet, RowsQuiet, table, history
  <2>2. LocalsQuiet
    BY <1>6 DEF Crash, LocalsQuiet, Kept, HoldingPCs
  <2> QED
    BY <2>1, <2>2, QuietSafe
<1>7. CASE Tick \/ UNCHANGED vars
  <2>1. UNCHANGED <<table, locals, history>>
    BY <1>7 DEF Tick, vars
  <2>2. HistoryQuiet /\ RowsQuiet /\ LocalsQuiet
    BY <2>1, LocalsSameQuiet DEF HistoryQuiet, RowsQuiet, table, locals, history
  <2> QED
    BY <2>2, QuietSafe
<1> QED
  BY <1>1, <1>2, <1>3, <1>4, <1>5, <1>6, <1>7 DEF Next

LEMMA SafeInvariant == Spec => []SafeInv
<1>1. Init => TypeOK /\ SafeInv
  BY InitType, InitSafe
<1>2. TypeOK /\ SafeInv /\ [Next]_vars => (TypeOK /\ SafeInv)'
  <2> SUFFICES ASSUME TypeOK, SafeInv, [Next]_vars
               PROVE  TypeOK' /\ SafeInv'
    OBVIOUS
  <2>1. TypeOK'
    BY NextType
  <2> QED
    BY <2>1, NextSafe
<1> QED
  BY <1>1, <1>2, PTL DEF Spec

(* Two goroutines never hold one action at the same time.                    *)
THEOREM ExclusiveExecutionHolds == Spec => []ExclusiveExecution
  BY SafeInvariant, PTL DEF SafeInv

(* A handler that has succeeded is not run again.                            *)
THEOREM SucceedsOnceHolds == Spec => []SucceedsOnce
  BY SafeInvariant, PTL DEF SafeInv

(* A completed row stands for a handler that returned success.               *)
THEOREM CompletedIsRealHolds == Spec => []CompletedIsReal
  BY SafeInvariant, PTL DEF SafeInv

(* retry_count accounts for every run and every recorded attempt.            *)
THEOREM RetryCountAccountsHolds == Spec => []RetryCountAccounts
  BY SafeInvariant, PTL DEF SafeInv

(* A "success" dependency is never passed before its handler succeeded.      *)
THEOREM SuccessGateHolds == Spec => []SuccessGate
  BY SafeInvariant, PTL DEF SafeInv

-----------------------------------------------------------------------------
(* Refinement.  ActionLifecycle sees what the row says of an action and      *)
(* whether a goroutine holds it.  Every step of the queue changes one of the *)
(* two for one action, takes several runners away, removes several actions,  *)
(* or changes nothing that is seen.                                          *)

LEMMA StateShown ==
  ASSUME NEW id
  PROVE  /\ rows[id].status \in Claimable <=> State(id) = "queued"
         /\ rows[id].status \in Terminal <=> State(id) = "ended"
         /\ rows[id].status = "absent" <=> State(id) \in {"none", "removed"}
  BY DEF State, Claimable, Terminal

LEMMA StateSame ==
  ASSUME NEW id, rows'[id].status = rows[id].status, UNCHANGED lastId
  PROVE  State(id)' = State(id)
  BY DEF State

LEMMA AbsentShown ==
  ASSUME NEW id, rows[id].status = "absent"
  PROVE  State(id) = IF id > lastId THEN "none" ELSE "removed"
  BY DEF State, Claimable, Terminal

(* What the abstract actions ask for, said of State and Held.                *)
LEMMA MoveSeen ==
  ASSUME NEW id \in Ids, NEW from, NEW to,
         State(id) \in from, State(id)' = to,
         \A other \in Ids \ {id} : State(other)' = State(other)
  PROVE  Lifecycle!Move(id, from, to)
  BY DEF Lifecycle!Move

LEMMA LeaveSeen ==
  ASSUME NEW id \in Ids, Held(id), ~Held(id)',
         \A other \in Ids \ {id} : Held(other)' <=> Held(other),
         UNCHANGED succeeded
  PROVE  Lifecycle!Leave(id)
  BY DEF Lifecycle!Leave

LEMMA LoseSeen ==
  ASSUME \A id \in Ids : State(id)' = State(id), UNCHANGED succeeded,
         \A id \in Ids : Held(id)' => Held(id)
  PROVE  Lifecycle!Lose
  BY DEF Lifecycle!Lose

LEMMA RemoveSeen ==
  ASSUME NEW ids \in SUBSET Ids, UNCHANGED succeeded,
         \A id \in ids : State(id) # "none" /\ State(id)' = "removed",
         \A other \in Ids \ ids : State(other)' = State(other),
         \A id \in Ids : Held(id)' <=> Held(id)
  PROVE  Lifecycle!Remove
<1>1. ids \in SUBSET {id \in Ids : [i \in Ids |-> State(i)][id] # "none"}
  OBVIOUS
<1>2. [id \in Ids |-> State(id)]'
        = [id \in Ids |-> IF id \in ids THEN "removed"
                          ELSE [i \in Ids |-> State(i)][id]]
  OBVIOUS
<1>3. {id \in Ids : Held(id)}' = {id \in Ids : Held(id)}
  OBVIOUS
<1> QED
  BY <1>1, <1>2, <1>3 DEF Lifecycle!Remove

(* Who holds what after a step: only the goroutine that moved may have       *)
(* changed, and most labels hold nothing.                                    *)
OnlyMoves(p) == \A q \in Procs \ {p} : pc'[q] = pc[q] /\ cur'[q] = cur[q]
HeldByOther(p, id) == \E q \in Procs \ {p} : Holds(q, id)

LEMMA FinishMoves ==
  ASSUME TypeOK, NEW p \in Procs, Finish(p)
  PROVE  OnlyMoves(p) /\ pc'[p] \notin HoldingPCs
  BY DEF OnlyMoves, Finish, Begin, Goto, TypeOK, LocalsOK, HoldingPCs

LEMMA BeginMoves ==
  ASSUME TypeOK, NEW p \in Procs, NEW label, label \notin HoldingPCs,
         NEW s, Begin(p, label, s)
  PROVE  OnlyMoves(p) /\ pc'[p] \notin HoldingPCs
  BY DEF OnlyMoves, Begin, Goto, TypeOK, LocalsOK

LEMMA LinkedMoves ==
  ASSUME TypeOK, NEW c \in Procs, pc[c] \notin HoldingPCs,
         NEW link, Linked(c, link)
  PROVE  OnlyMoves(c) /\ pc'[c] \notin HoldingPCs
  BY BeginMoves DEF Linked, NextItem, OnlyMoves, HoldingPCs

LEMMA HeldSame ==
  ASSUME NEW p \in Procs, OnlyMoves(p),
         pc[p] \notin HoldingPCs, pc'[p] \notin HoldingPCs, NEW id
  PROVE  Held(id)' <=> Held(id)
  BY DEF Held, Holds, OnlyMoves

(* An action nobody edited is held by one goroutine at most, and its row is  *)
(* not claimable meanwhile.                                                  *)
LEMMA HolderAlone ==
  ASSUME SafeInv, edited = {}, NEW p \in Procs, pc[p] \in HoldingPCs,
         NEW id \in Ids, id = cur[p].id
  PROVE  /\ Held(id) /\ ~HeldByOther(p, id)
         /\ rows[id].status \notin Claimable
         /\ pc[p] # "succeed" => id \notin succeeded
  BY DEF SafeInv, ExclusiveExecution, HeldNotClaimable, SucceedsOnce, Holds,
         Held, HeldByOther

(* The goroutine that moves lets go of what it held: the others hold what    *)
(* they held.                                                                *)
LEMMA HolderLeaves ==
  ASSUME SafeInv, edited = {}, NEW p \in Procs, pc[p] \in HoldingPCs,
         NEW id \in Ids, id = cur[p].id, OnlyMoves(p), pc'[p] \notin HoldingPCs
  PROVE  /\ ~Held(id)'
         /\ \A other \in Ids \ {id} : Held(other)' <=> Held(other)
<1>1. ~HeldByOther(p, id)
  BY HolderAlone
<1> QED
  BY <1>1 DEF Held, HeldByOther, Holds, OnlyMoves

(* A step that leaves the table alone, of a goroutine that takes no action:  *)
(* if it held one it gives it up.                                            *)
LEMMA HiddenSeen ==
  ASSUME NEW p \in Procs, OnlyMoves(p), pc'[p] \notin HoldingPCs,
         UNCHANGED <<rows, lastId, succeeded>>
  PROVE  Lifecycle!Next
<1>1. \A id \in Ids : State(id)' = State(id)
  BY StateSame
<1>2. \A id \in Ids : Held(id)' => Held(id)
  BY DEF Held, Holds, OnlyMoves
<1>3. Lifecycle!Lose
  BY <1>1, <1>2, LoseSeen
<1> QED
  BY <1>3 DEF Lifecycle!Next

(* What UpdateActionStatus leaves in the table.                              *)
LEMMA StatusWritten ==
  ASSUME TypeOK, NEW id \in Ids, NEW status, UpdateActionStatus(id, status)
  PROVE  /\ \A other \in Ids \ {id} : rows'[other] = rows[other]
         /\ rows[id].status = "absent" => rows'[id].status = "absent"
         /\ rows[id].status # "absent" => rows'[id].status = status
<1>1. rows[id] \in Row
  BY DEF TypeOK, TablesOK
<1> DEFINE new == [rows[id] EXCEPT !.status = status]
<1>2. new.status = status
  BY <1>1 DEF Row
<1>3. rows' = IF Present(id) THEN [rows EXCEPT ![id] = new] ELSE rows
  BY DEF UpdateActionStatus, Store
<1> HIDE DEF new
<1> QED
  BY <1>2, <1>3 DEF Present, TypeOK, TablesOK

(* CancelAction and performCleanup write a terminal status to a row they do  *)
(* not hold: a queued or busy action ends, whoever runs it runs on.          *)
LEMMA EndedSeen ==
  ASSUME TypeOK, NEW p \in Procs, OnlyMoves(p), pc[p] \notin HoldingPCs,
         pc'[p] \notin HoldingPCs, NEW id \in Ids, NEW status \in Terminal,
         UpdateActionStatus(id, status), UNCHANGED <<lastId, succeeded>>
  PROVE  Lifecycle!Next
<1>1. \A i \in Ids : Held(i)' <=> Held(i)
  BY HeldSame
<1>2. /\ \A other \in Ids \ {id} : rows'[other] = rows[other]
      /\ rows[id].status = "absent" => rows'[id].status = "absent"
      /\ rows[id].status # "absent" => rows'[id].status = status
  BY StatusWritten
<1>3. \A other \in Ids \ {id} : State(other)' = State(other)
  BY <1>2, StateSame
<1>4. CASE rows[id].status \in Terminal \cup {"absent"}
  <2>1. State(id)' = State(id)
    BY <1>2, <1>4 DEF State, Terminal, Claimable
  <2>2. Lifecycle!Lose
    BY <1>1, <1>3, <2>1, LoseSeen
  <2> QED
    BY <2>2 DEF Lifecycle!Next
<1>5. CASE rows[id].status \notin Terminal \cup {"absent"}
  <2>1. State(id) \in {"queued", "busy"}
    BY <1>5 DEF State
  <2>2. State(id)' = "ended"
    BY <1>2, <1>5 DEF State, Terminal, Claimable
  <2>3. Lifecycle!End(id)
    BY <1>1, <1>3, <2>1, <2>2, MoveSeen DEF Lifecycle!End
  <2> QED
    BY <2>3 DEF Lifecycle!Next
<1> QED
  BY <1>4, <1>5

(* Deleting rows removes the actions that were there.                        *)
LEMMA DeletedSeen ==
  ASSUME TypeOK, NEW ids, DeleteRows(ids),
         \A id \in Ids : Held(id)' <=> Held(id), UNCHANGED <<lastId, succeeded>>
  PROVE  Lifecycle!Next
<1> DEFINE gone == {id \in Ids : id \in ids /\ ~(id > lastId)}
<1>1. \A id \in gone : State(id) # "none" /\ State(id)' = "removed"
  <2> SUFFICES ASSUME NEW id \in gone
               PROVE  State(id) # "none" /\ State(id)' = "removed"
    OBVIOUS
  <2>1. rows'[id].status = "absent"
    BY DEF DeleteRows, Absent
  <2> QED
    BY <2>1 DEF State, Claimable, Terminal
<1>2. \A other \in Ids \ gone : State(other)' = State(other)
  <2> SUFFICES ASSUME NEW other \in Ids \ gone
               PROVE  State(other)' = State(other)
    OBVIOUS
  <2>1. rows'[other].status = rows[other].status
    BY DEF DeleteRows, Absent, TypeOK, TablesOK
  <2> QED
    BY <2>1, StateSame
<1>3. Lifecycle!Remove
  BY <1>1, <1>2, RemoveSeen
<1> QED
  BY <1>3 DEF Lifecycle!Next

(* CompleteAction ends the action, over whatever end was written meanwhile;  *)
(* on a row deleted under its runner it changes nothing.                     *)
LEMMA CompleteSeen ==
  ASSUME TypeOK, SafeInv, edited = {}, NEW p \in Procs, Complete(p)
  PROVE  Lifecycle!Next
<1>1. /\ pc[p] \in HoldingPCs /\ Finish(p) /\ UNCHANGED <<lastId, succeeded>>
      /\ \E status \in {"completed", "failed"} :
           UpdateActionStatus(cur[p].id, status)
  BY DEF Complete, CompleteAction, HoldingPCs, history
<1>2. PICK id \in Ids : id = cur[p].id
  BY <1>1, CurIsId DEF HoldingPCs
<1>3. PICK status \in {"completed", "failed"} : UpdateActionStatus(id, status)
  BY <1>1, <1>2
<1>4. /\ Held(id) /\ ~Held(id)' /\ rows[id].status \notin Claimable
      /\ \A other \in Ids \ {id} : Held(other)' <=> Held(other)
  BY <1>1, <1>2, FinishMoves, HolderAlone, HolderLeaves
<1>5. /\ \A other \in Ids \ {id} : rows'[other] = rows[other]
      /\ rows[id].status = "absent" => rows'[id].status = "absent"
      /\ rows[id].status # "absent" => rows'[id].status = status
  BY <1>3, StatusWritten
<1>6. \A other \in Ids \ {id} : State(other)' = State(other)
  BY <1>1, <1>5, StateSame
<1>7. CASE rows[id].status = "absent"
  <2>1. State(id)' = State(id)
    BY <1>1, <1>5, <1>7, StateSame
  <2>2. Lifecycle!Lose
    BY <1>1, <1>4, <1>6, <2>1, LoseSeen
  <2> QED
    BY <2>2 DEF Lifecycle!Next
<1>8. CASE rows[id].status # "absent"
  <2>1. State(id) \in {"busy", "ended"}
    BY <1>4, <1>8 DEF State
  <2>2. State(id)' = "ended"
    BY <1>5, <1>8 DEF State, Claimable, Terminal
  <2>3. Lifecycle!Leave(id) /\ Lifecycle!Move(id, {"busy", "ended"}, "ended")
    BY <1>1, <1>4, <1>6, <2>1, <2>2, MoveSeen, LeaveSeen
  <2>4. Lifecycle!Finish(id)
    BY <2>3 DEF Lifecycle!Finish
  <2> QED
    BY <2>4 DEF Lifecycle!Next
<1> QED
  BY <1>7, <1>8

(* ScheduleRetry queues the action again, also over an end that was written  *)
(* while the handler ran, or finds no row to queue.                          *)
LEMMA RetrySeen ==
  ASSUME TypeOK, SafeInv, edited = {}, NEW p \in Procs, ScheduleRetry(p)
  PROVE  Lifecycle!Next
<1>1. /\ pc[p] = "retry" /\ Goto(p, "record")
      /\ UNCHANGED <<lastId, cur, succeeded>>
      /\ Store(cur[p].id, Retried(rows[cur[p].id], cur[p].row.retries + 1))
  BY DEF ScheduleRetry, history
<1>2. PICK id \in Ids : id = cur[p].id
  BY <1>1, CurIsId
<1>3. OnlyMoves(p) /\ pc'[p] \notin HoldingPCs
  BY <1>1 DEF Goto, OnlyMoves, TypeOK, LocalsOK, HoldingPCs
<1>4. /\ Held(id) /\ ~Held(id)' /\ id \notin succeeded
      /\ rows[id].status \notin Claimable
      /\ \A other \in Ids \ {id} : Held(other)' <=> Held(other)
  BY <1>1, <1>2, <1>3, HolderAlone, HolderLeaves DEF HoldingPCs
<1>5. /\ \A other \in Ids \ {id} : rows'[other] = rows[other]
      /\ rows[id].status = "absent" => rows'[id].status = "absent"
      /\ rows[id].status # "absent" => rows'[id].status = "retrying"
  <2> DEFINE new == Retried(rows[id], cur[p].row.retries + 1)
  <2>1. new.status = "retrying"
    BY RetriedIsRow DEF TypeOK, TablesOK
  <2>2. rows' = IF Present(id) THEN [rows EXCEPT ![id] = new] ELSE rows
    BY <1>1, <1>2 DEF Store
  <2> HIDE DEF new
  <2> QED
    BY <2>1, <2>2 DEF Present, TypeOK, TablesOK
<1>6. \A other \in Ids \ {id} : State(other)' = State(other)
  BY <1>1, <1>5, StateSame
<1>7. CASE rows[id].status = "absent"
  <2>1. State(id)' = State(id)
    BY <1>1, <1>5, <1>7, StateSame
  <2>2. Lifecycle!Lose
    BY <1>1, <1>4, <1>6, <2>1, LoseSeen
  <2> QED
    BY <2>2 DEF Lifecycle!Next
<1>8. CASE rows[id].status # "absent"
  <2>1. State(id) \in {"busy", "ended"}
    BY <1>4, <1>8 DEF State
  <2>2. State(id)' = "queued"
    BY <1>5, <1>8 DEF State, Claimable, Terminal
  <2>3. Lifecycle!Leave(id) /\ Lifecycle!Move(id, {"busy", "ended"}, "queued")
    BY <1>1, <1>4, <1>6, <2>1, <2>2, MoveSeen, LeaveSeen
  <2>4. Lifecycle!Retry(id)
    BY <1>4, <2>3 DEF Lifecycle!Retry
  <2> QED
    BY <2>4 DEF Lifecycle!Next
<1> QED
  BY <1>7, <1>8

(* The claim that finds the row claimable starts the action.                 *)
LEMMA ClaimSeen ==
  ASSUME TypeOK, SafeInv, edited = {}, NEW p \in Procs,
         MarkActionAsProcessing(p), StillClaimable(cur[p].id)
  PROVE  Lifecycle!Next
<1>1. /\ pc[p] = "claim" /\ UpdateActionStatus(cur[p].id, "processing")
      /\ Goto(p, IF cur[p].row.handled THEN "execute" ELSE "unhandled")
      /\ UNCHANGED <<lastId, cur, succeeded>>
  BY DEF MarkActionAsProcessing
<1>2. PICK id \in Ids : id = cur[p].id
  BY <1>1, CurIsId
<1>3. rows[id].status \in Claimable
  BY <1>2 DEF StillClaimable
<1>4. ~Held(id) /\ id \notin succeeded
  BY <1>3 DEF SafeInv, HeldNotClaimable, SucceedsOnce, Held
<1>5. OnlyMoves(p) /\ pc'[p] \in HoldingPCs /\ cur'[p] = cur[p]
  BY <1>1 DEF Goto, OnlyMoves, TypeOK, LocalsOK, HoldingPCs
<1>6. Held(id)' /\ \A other \in Ids \ {id} : Held(other)' <=> Held(other)
  BY <1>1, <1>2, <1>5 DEF Held, Holds, OnlyMoves, HoldingPCs
<1>7. /\ \A other \in Ids \ {id} : rows'[other] = rows[other]
      /\ rows[id].status # "absent" => rows'[id].status = "processing"
  BY <1>1, <1>2, StatusWritten
<1>8. \A other \in Ids \ {id} : State(other)' = State(other)
  BY <1>1, <1>7, StateSame
<1>9. State(id) = "queued" /\ State(id)' = "busy"
  BY <1>3, <1>7 DEF State, Claimable, Terminal
<1>10. Lifecycle!Move(id, {"queued"}, "busy")
  BY <1>8, <1>9, MoveSeen
<1>11. {i \in Ids : Held(i)}' = {i \in Ids : Held(i)} \cup {id}
  BY <1>6
<1>12. Lifecycle!Start(id)
  BY <1>1, <1>4, <1>10, <1>11 DEF Lifecycle!Start
<1> QED
  BY <1>12 DEF Lifecycle!Next

(* The handler's return is a win when it is a success, and hidden otherwise. *)
LEMMA ExecuteSeen ==
  ASSUME TypeOK, SafeInv, edited = {}, NEW p \in Procs, Execute(p)
  PROVE  Lifecycle!Next
<1>1. /\ pc[p] = "execute" /\ UNCHANGED <<rows, lastId, cur>>
      /\ Goto(p, "succeed") \/ Goto(p, "fail") \/ Goto(p, "retry")
  BY DEF Execute, table
<1>2. PICK id \in Ids : id = cur[p].id
  BY <1>1, CurIsId
<1>3. OnlyMoves(p) /\ pc'[p] \in HoldingPCs /\ cur'[p] = cur[p]
  BY <1>1 DEF Goto, OnlyMoves, TypeOK, LocalsOK, HoldingPCs
<1>4. \A i \in Ids : Held(i)' <=> Held(i)
  BY <1>1, <1>3 DEF Held, Holds, OnlyMoves, HoldingPCs
<1>5. \A i \in Ids : State(i)' = State(i)
  BY <1>1, StateSame
<1>6. CASE UNCHANGED succeeded
  <2>1. Lifecycle!Lose
    BY <1>4, <1>5, <1>6, LoseSeen
  <2> QED
    BY <2>1 DEF Lifecycle!Next
<1>7. CASE succeeded' = succeeded \cup {cur[p].id}
  <2>1. Held(id) /\ id \notin succeeded
    BY <1>1, <1>2, HolderAlone DEF HoldingPCs
  <2>2. Lifecycle!Win(id)
    BY <1>2, <1>4, <1>5, <1>7, <2>1 DEF Lifecycle!Win
  <2> QED
    BY <2>2 DEF Lifecycle!Next
<1> QED
  BY <1>6, <1>7 DEF Execute

(* CreateQueuedAction submits an action under an id nobody has seen.         *)
LEMMA InsertSeen ==
  ASSUME TypeOK, NEW c \in Procs, InsertAction(c)
  PROVE  Lifecycle!Next
<1>1. /\ pc[c] = "insert" /\ lastId < MaxId /\ UNCHANGED succeeded
      /\ lastId' = lastId + 1
      /\ \E row : row.status = "pending" /\ rows' = [rows EXCEPT ![lastId + 1] = row]
  BY DEF InsertAction, history
<1>2. PICK id \in Ids : id = lastId + 1
  BY <1>1, TaskQueueAssumption DEF TypeOK, TablesOK, Ids
<1>3. /\ id > lastId
      /\ \A other \in Ids \ {id} : other > lastId' <=> other > lastId
  BY <1>1, <1>2, TaskQueueAssumption DEF TypeOK, TablesOK, Ids
<1>4. /\ rows[id].status = "absent" /\ rows'[id].status = "pending"
      /\ \A other \in Ids \ {id} : rows'[other] = rows[other]
  BY <1>1, <1>2, <1>3 DEF TypeOK, TablesOK, Absent
<1>5. OnlyMoves(c) /\ pc'[c] \notin HoldingPCs
  <2>1. \E label \in {"idle", "insert", "link"} : \E s : Begin(c, label, s)
    BY DEF InsertAction, NextItem
  <2> QED
    BY <2>1, BeginMoves DEF HoldingPCs
<1>6. \A i \in Ids : Held(i)' <=> Held(i)
  BY <1>1, <1>5, HeldSame DEF HoldingPCs
<1>7. \A other \in Ids \ {id} : State(other)' = State(other)
  BY <1>3, <1>4 DEF State
<1>8. State(id) = "none" /\ State(id)' = "queued"
  BY <1>3, <1>4 DEF State, Claimable, Terminal
<1>9. Lifecycle!Submit(id)
  BY <1>1, <1>6, <1>7, <1>8, MoveSeen DEF Lifecycle!Submit
<1> QED
  BY <1>9 DEF Lifecycle!Next

(* A crash takes every held action away from its runner.                     *)
LEMMA CrashSeen ==
  ASSUME Crash
  PROVE  Lifecycle!Next
<1>1. /\ UNCHANGED <<rows, lastId, succeeded>>
      /\ \A p \in Procs : pc'[p] = "idle"
  BY DEF Crash, table, history
<1>2. \A id \in Ids : State(id)' = State(id)
  BY <1>1, StateSame
<1>3. \A id \in Ids : ~Held(id)'
  BY <1>1 DEF Held, Holds, HoldingPCs
<1>4. Lifecycle!Lose
  BY <1>1, <1>2, <1>3, LoseSeen
<1> QED
  BY <1>4 DEF Lifecycle!Next

(* A failed call: the goroutine gives up what it holds, if it holds anything.*)
LEMMA CallFailsSeen ==
  ASSUME TypeOK, NEW p \in Procs, CallFails(p)
  PROVE  Lifecycle!Next
<1>1. UNCHANGED <<rows, lastId, succeeded>>
  BY DEF CallFails, table, history
<1>2. \/ Finish(p)
      \/ /\ pc[p] \notin HoldingPCs
         /\ \/ \E label \in {"idle", "insert"} : Begin(p, label, NoSnapshot)
            \/ \E link : Linked(p, link)
  BY DEF CallFails, AbandonRequest, NextItem, HoldingPCs
<1>3. OnlyMoves(p) /\ pc'[p] \notin HoldingPCs
  BY <1>2, FinishMoves, BeginMoves, LinkedMoves DEF HoldingPCs
<1> QED
  BY <1>1, <1>3, HiddenSeen

LEMMA ProcessActionSeen ==
  ASSUME TypeOK, SafeInv, edited = {}, NEW p \in Procs, ProcessAction(p)
  PROVE  Lifecycle!Next
<1>1. CASE Check(p)
  <2>1. pc[p] \notin HoldingPCs /\ UNCHANGED <<rows, lastId, succeeded>>
    BY <1>1 DEF Check, table, history, HoldingPCs
  <2>2. Finish(p) \/ (Goto(p, "claim") /\ cur' = cur)
    BY <1>1 DEF Check
  <2>3. OnlyMoves(p) /\ pc'[p] \notin HoldingPCs
    BY <2>2, FinishMoves DEF Goto, OnlyMoves, TypeOK, LocalsOK, HoldingPCs
  <2> QED
    BY <2>1, <2>3, HiddenSeen
<1>2. CASE MarkActionAsProcessing(p)
  <2>1. CASE StillClaimable(cur[p].id)
    BY <1>2, <2>1, ClaimSeen
  <2>2. CASE ~StillClaimable(cur[p].id)
    <3>1. Finish(p) /\ UNCHANGED <<rows, lastId, succeeded>>
      BY <1>2, <2>2 DEF MarkActionAsProcessing
    <3> QED
      BY <3>1, FinishMoves, HiddenSeen
  <2> QED
    BY <2>1, <2>2
<1>3. CASE Execute(p)
  BY <1>3, ExecuteSeen
<1>4. CASE Complete(p)
  BY <1>4, CompleteSeen
<1>5. CASE ScheduleRetry(p)
  BY <1>5, RetrySeen
<1>6. CASE RecordAttempt(p)
  <2>1. Finish(p) /\ UNCHANGED <<rows, lastId, succeeded>>
    BY <1>6 DEF RecordAttempt, history
  <2> QED
    BY <2>1, FinishMoves, HiddenSeen
<1> QED
  BY <1>1, <1>2, <1>3, <1>4, <1>5, <1>6 DEF ProcessAction

(* A goroutine that reads rows and begins work on one.                       *)
LEMMA ReadSeen ==
  ASSUME TypeOK, NEW p \in Procs,
         \E label \in {"sweep", "check", "reset", "update", "cancel", "delete"} :
            \E s : Begin(p, label, s),
         UNCHANGED <<rows, lastId, succeeded>>
  PROVE  Lifecycle!Next
<1>1. OnlyMoves(p) /\ pc'[p] \notin HoldingPCs
  BY BeginMoves DEF HoldingPCs
<1> QED
  BY <1>1, HiddenSeen DEF HoldingPCs

LEMMA ClientSeen ==
  ASSUME TypeOK, SafeInv, edited = {}, edited' = {}, NEW c \in Clients,
         ClientStep(c)
  PROVE  Lifecycle!Next
<1>0. c \in Procs
  BY DEF Procs
<1>1. CASE ProcessMatching(c) \/ ProcessOne(c) \/ ForceRetry(c)
           \/ UpdateActionRead(c) \/ CancelActionRead(c) \/ DeleteActionRead(c)
  <2>1. UNCHANGED <<rows, lastId, succeeded>>
    BY <1>1 DEF ProcessMatching, ProcessOne, ForceRetry, UpdateActionRead,
                CancelActionRead, DeleteActionRead, ReadFor, table, history
  <2>2. \E label \in {"sweep", "check", "reset", "update", "cancel", "delete"} :
           \E s : Begin(c, label, s)
    BY <1>1 DEF ProcessMatching, ProcessOne, ForceRetry, UpdateActionRead,
                CancelActionRead, DeleteActionRead, ReadFor
  <2> QED
    BY <1>0, <2>1, <2>2, ReadSeen
<1>2. CASE ResetFailed(c) \/ UpdateActionWrite(c)
  BY <1>2 DEF ResetFailed, UpdateActionWrite
<1>3. CASE ProcessAction(c)
  BY <1>0, <1>3, ProcessActionSeen
<1>4. CASE StartEnqueue(c)
  <2>1. Goto(c, "insert") /\ cur' = cur /\ UNCHANGED <<rows, lastId, succeeded>>
    BY <1>4 DEF StartEnqueue, table, history
  <2>2. OnlyMoves(c) /\ pc'[c] \notin HoldingPCs
    BY <1>0, <2>1 DEF Goto, OnlyMoves, TypeOK, LocalsOK, HoldingPCs
  <2> QED
    BY <1>0, <2>1, <2>2, HiddenSeen
<1>5. CASE InsertAction(c)
  BY <1>0, <1>5, InsertSeen
<1>6. CASE LinkAction(c)
  <2>1. /\ UNCHANGED <<rows, lastId, succeeded>> /\ pc[c] \notin HoldingPCs
        /\ \E link : Linked(c, link)
    BY <1>6 DEF LinkAction, history, HoldingPCs
  <2> QED
    BY <1>0, <2>1, LinkedMoves, HiddenSeen
<1>7. CASE CancelActionWrite(c)
  <2>1. /\ pc[c] = "cancel" /\ Finish(c) /\ UNCHANGED <<lastId, succeeded>>
        /\ UpdateActionStatus(cur[c].id, "cancelled")
    BY <1>7 DEF CancelActionWrite, history
  <2>2. PICK id \in Ids : id = cur[c].id
    BY <1>0, <2>1, CurIsId
  <2>3. UpdateActionStatus(id, "cancelled")
    BY <2>1, <2>2
  <2> QED
    BY <1>0, <2>1, <2>3, FinishMoves, EndedSeen DEF HoldingPCs, Terminal
<1>8. CASE DeleteActionWrite(c)
  <2>1. /\ pc[c] = "delete" /\ Finish(c) /\ UNCHANGED <<lastId, succeeded>>
        /\ DeleteRows({cur[c].id})
    BY <1>8 DEF DeleteActionWrite, history
  <2>2. \A id \in Ids : Held(id)' <=> Held(id)
    BY <1>0, <2>1, FinishMoves, HeldSame DEF HoldingPCs
  <2>3. \E ids : DeleteRows(ids)
    BY <2>1
  <2> QED
    BY <2>1, <2>2, <2>3, DeletedSeen
<1> QED
  BY <1>1, <1>2, <1>3, <1>4, <1>5, <1>6, <1>7, <1>8
  DEF ClientStep, EnqueueStep, AdminStep

LEMMA NextSeen ==
  ASSUME TypeOK, SafeInv, edited = {}, edited' = {}, [Next]_vars
  PROVE  [Lifecycle!Next]_(Lifecycle!vars)
<1>1. CASE \E w \in Workers : WorkerStep(w)
  <2>1. PICK w \in Workers : Fetch(w) \/ ProcessAction(w)
    BY <1>1 DEF WorkerStep
  <2>2. w \in Procs
    BY DEF Procs
  <2>3. CASE Fetch(w)
    <3>1. UNCHANGED <<rows, lastId, succeeded>> /\ \E s : Begin(w, "check", s)
      BY <2>3 DEF Fetch, table, history
    <3> QED
      BY <2>2, <3>1, ReadSeen
  <2> QED
    BY <2>1, <2>2, <2>3, ProcessActionSeen
<1>2. CASE \E c \in Clients : ClientStep(c)
  BY <1>2, ClientSeen
<1>3. CASE \E j \in Janitors : JanitorStep(j)
  <2>1. PICK j \in Janitors : JanitorStep(j)
    BY <1>3
  <2>2. j \in Procs
    BY DEF Procs
  <2>3. CASE ReadForCleanup(j)
    <3>1. UNCHANGED <<rows, lastId, succeeded>> /\ \E s : Begin(j, "sweep", s)
      BY <2>3 DEF ReadForCleanup, table, history
    <3> QED
      BY <2>2, <3>1, ReadSeen
  <2>4. CASE ExpireOverdue(j)
    <3>1. /\ pc[j] = "sweep" /\ Finish(j) /\ UNCHANGED <<lastId, succeeded>>
          /\ UpdateActionStatus(cur[j].id, "timeout") \/ UNCHANGED rows
      BY <2>4 DEF ExpireOverdue, history
    <3>2. PICK id \in Ids : id = cur[j].id
      BY <2>2, <3>1, CurIsId
    <3>3. UpdateActionStatus(id, "timeout") \/ UNCHANGED rows
      BY <3>1, <3>2
    <3>4. OnlyMoves(j) /\ pc[j] \notin HoldingPCs /\ pc'[j] \notin HoldingPCs
      BY <2>2, <3>1, FinishMoves DEF HoldingPCs
    <3> QED
      BY <2>2, <3>1, <3>3, <3>4, EndedSeen, HiddenSeen DEF Terminal
  <2> QED
    BY <2>1, <2>3, <2>4 DEF JanitorStep
<1>4. CASE \E p \in Procs : CallFails(p)
  BY <1>4, CallFailsSeen
<1>5. CASE ClearQueue \/ CleanupOldActions
  <2>1. /\ \E ids : DeleteRows(ids)
        /\ UNCHANGED <<lastId, pc, cur, succeeded>>
    BY <1>5 DEF ClearQueue, CleanupOldActions, locals, history
  <2>2. \A id \in Ids : Held(id)' <=> Held(id)
    BY <2>1 DEF Held, Holds
  <2> QED
    BY <2>1, <2>2, DeletedSeen
<1>6. CASE Crash
  BY <1>6, CrashSeen
<1>7. CASE Tick \/ UNCHANGED vars
  <2>1. UNCHANGED <<rows, lastId, pc, cur, succeeded>>
    BY <1>7 DEF Tick, vars, table, locals, history
  <2>2. \A id \in Ids : (Held(id)' <=> Held(id)) /\ State(id)' = State(id)
    BY <2>1, StateSame DEF Held, Holds
  <2>3. Lifecycle!Lose
    BY <2>1, <2>2, LoseSeen
  <2> QED
    BY <2>3 DEF Lifecycle!Next
<1> QED
  BY <1>1, <1>2, <1>3, <1>4, <1>5, <1>6, <1>7 DEF Next

LEMMA InitSeen == Init => Lifecycle!Init
<1> SUFFICES ASSUME Init PROVE Lifecycle!Init
  OBVIOUS
<1>1. \A id \in Ids : State(id) = "none"
  BY TaskQueueAssumption DEF Init, State, Absent, Claimable, Terminal, Ids
<1>2. \A id \in Ids : ~Held(id)
  BY DEF Init, Held, Holds, HoldingPCs
<1> QED
  BY <1>1, <1>2 DEF Lifecycle!Init, Init

(* In every behaviour in which no operator writes a status back, the queue   *)
(* keeps the promise of ActionLifecycle: one runner at a time, no start      *)
(* after a success, no return from an end unless a handler that was running  *)
(* when the end was written asks for a retry, none at all from a removal,    *)
(* whatever crashes, fails, is cancelled, expires or is deleted meanwhile.   *)
THEOREM LifecycleKept == Spec /\ [](edited = {}) => KeepsLifecycle
<1>1. Init => Lifecycle!Init
  BY InitSeen
<1>2. TypeOK /\ SafeInv /\ edited = {} /\ (edited = {})' /\ [Next]_vars
        => [Lifecycle!Next]_(Lifecycle!vars)
  BY NextSeen
<1>3. Spec => []TypeOK /\ []SafeInv
  BY TypeCorrect, SafeInvariant, PTL
<1> QED
  BY <1>1, <1>2, <1>3, PTL DEF Spec, KeepsLifecycle, Lifecycle!Spec

-----------------------------------------------------------------------------
(* The retry budget.  CanRetry looks at the row as it was read, ScheduleRetry *)
(* counts on the row as it is: a goroutine with a stale copy can count one    *)
(* retry above max_retries.  It can do so once: it then gives the action up,  *)
(* and the copies it reads from there on show the budget spent.  So every     *)
(* retry above the budget uses up one goroutine that holds no stale copy, and *)
(* if the goroutines of E do all the processing, retry_count stays below      *)
(* max_retries and the number of those that are fresh.                        *)

Only(E) == \A p \in Procs \ E : pc[p] \notin ExecutorPCs

(* The copies w has still to process: the rest of its batch, and the action  *)
(* in hand until its retry is scheduled.                                     *)
Batch(w) ==
  todo[w] \cup (IF pc[w] \in ExecutorPCs \ {"record"} THEN {cur[w]} ELSE {})
Fresh(E, id) ==
  {p \in E : \A s \in Batch(p) : s.id = id => s.row.retries >= MaxRetries}

BatchOrderly(w) ==
  /\ \A s \in todo[w] : s.id # cur[w].id
  /\ \A s, t \in todo[w] : s.id = t.id => s = t
  /\ pc[w] \notin ExecutorPCs => todo[w] = {}
  /\ pc[w] = "retry" => cur[w].row.retries < MaxRetries
RetriesBounded(E) ==
  E # {} => \A id \in Ids \ edited : Present(id) =>
              rows[id].retries < MaxRetries + Cardinality(Fresh(E, id))
RunsBounded(E) ==
  \A id \in Ids \ edited : runs[id] <= MaxRetries + Cardinality(E)
BudgetInv(E) ==
  /\ RetriesBounded(E) /\ RunsBounded(E)
  /\ \A w \in E : BatchOrderly(w)
Crews == {E \in SUBSET (Procs \ Janitors) : IsFiniteSet(E)}

(* Steps that count nothing and give w no copy but those it had and those it *)
(* reads now.                                                                *)
CountsKept ==
  /\ edited \subseteq edited'
  /\ \A id \in Ids \ edited' : Present(id)' =>
       IF id <= lastId
       THEN Present(id) /\ rows'[id].retries = rows[id].retries
       ELSE rows'[id].retries = 0
BatchKept(w) ==
  /\ BatchOrderly(w)'
  /\ \A s \in Batch(w)' :
       \/ s \in Batch(w)
       \/ s.id \in edited'
       \/ \E id \in Ids : s = Snap(id) /\ Present(id)
BatchesKept(E) == \A w \in E : BatchKept(w)

LEMMA FreshCount ==
  ASSUME NEW E \in Crews, NEW id
  PROVE  /\ Cardinality(E) \in Nat
         /\ Cardinality(Fresh(E, id)) \in 0..Cardinality(E)
<1>1. IsFiniteSet(E) /\ Fresh(E, id) \subseteq E
  BY DEF Crews, Fresh
<1> QED
  BY <1>1, FS_Subset, FS_CardinalityType

LEMMA FreshCountNext ==
  ASSUME NEW E \in Crews, NEW id
  PROVE  Cardinality(Fresh(E, id)') \in 0..Cardinality(E)
<1>1. IsFiniteSet(E) /\ Fresh(E, id)' \subseteq E
  BY DEF Crews, Fresh
<1> QED
  BY <1>1, FS_Subset, FS_CardinalityType

LEMMA RowsQuietCounts ==
  ASSUME TypeOK, RowsQuiet, edited \subseteq edited'
  PROVE  CountsKept
<1>1. \A id \in Ids : id > lastId => rows[id].status = "absent"
  BY DEF TypeOK, TablesOK, Absent
<1>2. lastId \in Nat /\ Ids \subseteq Nat
  BY IdsAreNat, TaskQueueAssumption DEF TypeOK, TablesOK
<1> SUFFICES ASSUME NEW id \in Ids \ edited', Present(id)'
             PROVE  /\ id <= lastId /\ Present(id)
                    /\ rows'[id].retries = rows[id].retries
  BY <1>2 DEF CountsKept
<1>3. rows'[id].status # "absent"
  BY DEF Present
<1>4. rows'[id] # Absent
  BY <1>3 DEF Absent
<1>5. /\ rows[id].status # "absent"
      /\ rows'[id].retries = rows[id].retries
  BY <1>3, <1>4 DEF RowsQuiet
<1> QED
  BY <1>1, <1>2, <1>5 DEF Present

LEMMA BatchIds ==
  ASSUME TypeOK, NEW w \in Procs, NEW s \in Batch(w)
  PROVE  s.id <= lastId /\ s \in Snapshot
  BY TaskQueueAssumption DEF TypeOK, LocalsOK, TablesOK, Batch

(* Once an action's retries are spent, whoever reads it sees so.             *)
LEMMA FreshGrows ==
  ASSUME TypeOK, NEW E \in Crews, BatchesKept(E), NEW id \in Ids \ edited',
         Present(id) => rows[id].retries >= MaxRetries
  PROVE  Fresh(E, id) \subseteq Fresh(E, id)'
<1> SUFFICES ASSUME NEW p \in Fresh(E, id), NEW s \in Batch(p)', s.id = id
             PROVE  s.row.retries >= MaxRetries
  BY DEF Fresh
<1>1. p \in E /\ BatchKept(p)
  BY DEF Fresh, BatchesKept
<1>2. CASE s \in Batch(p)
  BY <1>2 DEF Fresh
<1>3. CASE \E i \in Ids : s = Snap(i) /\ Present(i)
  BY <1>3 DEF Snap
<1> QED
  BY <1>1, <1>2, <1>3 DEF BatchKept

LEMMA RetriesKept ==
  ASSUME TypeOK, NEW E \in Crews, RetriesBounded(E), CountsKept, BatchesKept(E)
  PROVE  RetriesBounded(E)'
<1> SUFFICES ASSUME E # {}, NEW id \in Ids \ edited', Present(id)'
             PROVE  rows'[id].retries < MaxRetries + Cardinality(Fresh(E, id)')
  BY DEF RetriesBounded
<1> DEFINE old == Cardinality(Fresh(E, id))
           new == Cardinality(Fresh(E, id)')
<1>1. old \in Nat /\ new \in Nat /\ MaxRetries \in Nat
  BY FreshCount, FreshCountNext, TaskQueueAssumption
<1>2. IsFiniteSet(E) /\ Fresh(E, id)' \subseteq E
  BY DEF Crews, Fresh
<1>3. CASE id <= lastId
  <2>1. /\ Present(id) /\ id \notin edited
        /\ rows'[id].retries = rows[id].retries /\ rows[id].retries \in Nat
    BY <1>3 DEF CountsKept, TypeOK, TablesOK, Row
  <2>2. rows[id].retries < MaxRetries + old
    BY <2>1 DEF RetriesBounded
  <2>3. CASE rows[id].retries < MaxRetries
    BY <1>1, <2>1, <2>3
  <2>4. CASE rows[id].retries >= MaxRetries
    <3>1. Fresh(E, id) \subseteq Fresh(E, id)'
      BY <2>4, FreshGrows
    <3>2. IsFiniteSet(Fresh(E, id)')
      BY <1>2, FS_Subset
    <3>3. old <= new
      BY <3>1, <3>2, FS_Subset
    <3> QED
      BY <1>1, <2>1, <2>2, <3>3
  <2> QED
    BY <1>1, <2>1, <2>3, <2>4
<1>4. CASE ~(id <= lastId)
  <2>1. rows'[id].retries = 0
    BY <1>4 DEF CountsKept
  <2>2. ASSUME NEW p \in E, NEW s \in Batch(p)'
        PROVE  s.id # id
    <3>1. BatchKept(p) /\ p \in Procs
      BY DEF BatchesKept, Crews
    <3>2. CASE s \in Batch(p)
      BY <1>4, <3>1, <3>2, BatchIds
    <3>3. CASE s.id \in edited'
      BY <3>3
    <3>4. CASE \E i \in Ids : s = Snap(i) /\ Present(i)
      <4>1. PICK i \in Ids : s = Snap(i) /\ Present(i)
        BY <3>4
      <4>2. i <= lastId
        BY <4>1, PresentIsOld DEF TypeOK, Present
      <4> QED
        BY <1>4, <4>1, <4>2 DEF Snap
    <3> QED
      BY <3>1, <3>2, <3>3, <3>4 DEF BatchKept
  <2>3. Fresh(E, id)' = E
    BY <2>2 DEF Fresh
  <2>4. new # 0
    BY <1>2, <2>3, FS_EmptySet
  <2> QED
    BY <1>1, <2>1, <2>4
<1> QED
  BY <1>3, <1>4

LEMMA BudgetKept ==
  ASSUME TypeOK, NEW E \in Crews, BudgetInv(E), CountsKept, BatchesKept(E),
         UNCHANGED runs
  PROVE  BudgetInv(E)'
<1>1. RunsBounded(E)'
  BY DEF BudgetInv, RunsBounded, CountsKept
<1>2. RetriesBounded(E)'
  BY RetriesKept DEF BudgetInv
<1>3. \A w \in E : BatchOrderly(w)'
  BY DEF BatchesKept, BatchKept
<1> QED
  BY <1>1, <1>2, <1>3 DEF BudgetInv

(* What each kind of control-flow step does to the batches, taken by a       *)
(* goroutine of E or by another.                                             *)
LEMMA UnmovedBatch ==
  ASSUME NEW w, BatchOrderly(w),
         pc'[w] = pc[w], cur'[w] = cur[w], todo'[w] = todo[w]
  PROVE  BatchKept(w)
  BY DEF BatchOrderly, BatchKept, Batch

LEMMA UnmovedBatches ==
  ASSUME NEW E \in Crews, BudgetInv(E),
         \A w \in E : pc'[w] = pc[w] /\ cur'[w] = cur[w] /\ todo'[w] = todo[w]
  PROVE  BatchesKept(E)
  BY UnmovedBatch DEF BudgetInv, BatchesKept

LEMMA FinishBatch ==
  ASSUME TypeOK, NEW E \in Crews, BudgetInv(E),
         NEW p \in Procs, Finish(p)
  PROVE  BatchesKept(E)
<1> SUFFICES ASSUME NEW w \in E PROVE BatchKept(w)
  BY DEF BatchesKept
<1>0. w \in Procs \ Janitors /\ BatchOrderly(w)
  BY DEF BudgetInv, Crews
<1>1. CASE p # w
  <2>1. pc'[w] = pc[w] /\ cur'[w] = cur[w] /\ todo'[w] = todo[w]
    BY <1>0, <1>1 DEF Finish, Begin, Goto, TypeOK, LocalsOK
  <2> QED
    BY <1>0, <2>1, UnmovedBatch
<1>2. CASE p = w /\ todo[w] = {}
  <2>1. pc'[w] = "idle" /\ todo'[w] = {}
    BY <1>0, <1>2 DEF Finish, Begin, Goto, TypeOK, LocalsOK
  <2> QED
    BY <2>1 DEF BatchKept, BatchOrderly, Batch, ExecutorPCs
<1>3. CASE p = w /\ todo[w] # {}
  <2>1. PICK s \in todo[w] :
          pc'[w] = "check" /\ cur'[w] = s /\ todo'[w] = todo[w] \ {s}
    BY <1>0, <1>3 DEF Finish, Begin, Goto, TypeOK, LocalsOK
  <2>2. \A t, u \in todo[w] : t.id = u.id => t = u
    BY <1>0 DEF BatchOrderly
  <2>3. BatchOrderly(w)'
    BY <1>0, <2>1, <2>2 DEF BatchOrderly, ExecutorPCs
  <2>4. Batch(w)' \subseteq Batch(w)
    BY <2>1 DEF Batch, ExecutorPCs
  <2> QED
    BY <2>3, <2>4 DEF BatchKept
<1> QED
  BY <1>1, <1>2, <1>3

(* Rows read now, one per id.                                                *)
LEMMA BeginBatch ==
  ASSUME TypeOK, NEW E \in Crews, BudgetInv(E), NEW p \in Procs \ Janitors,
         pc[p] = "idle", NEW ids \in SUBSET {id \in Ids : Present(id)},
         NEW first \in ids, NEW label \in {"check", "reset", "update", "cancel",
                                           "delete"},
         Begin(p, label, Snap(first)),
         \/ label = "check"
            /\ todo' = [todo EXCEPT ![p] = {Snap(id) : id \in ids \ {first}}]
         \/ UNCHANGED todo
  PROVE  BatchesKept(E)
<1> SUFFICES ASSUME NEW w \in E PROVE BatchKept(w)
  BY DEF BatchesKept
<1>0. w \in Procs \ Janitors /\ BatchOrderly(w)
  BY DEF BudgetInv, Crews
<1>1. CASE p # w
  <2>1. pc'[w] = pc[w] /\ cur'[w] = cur[w] /\ todo'[w] = todo[w]
    BY <1>0, <1>1 DEF Begin, Goto, TypeOK, LocalsOK
  <2> QED
    BY <1>0, <2>1, UnmovedBatch
<1>2. CASE p = w
  <2>1. todo[w] = {}
    BY <1>0, <1>2 DEF BatchOrderly, ExecutorPCs
  <2>2. /\ pc'[w] = label /\ cur'[w] = Snap(first)
        /\ \/ label = "check" /\ todo'[w] = {Snap(id) : id \in ids \ {first}}
           \/ todo'[w] = {}
    BY <1>0, <1>2, <2>1 DEF Begin, Goto, TypeOK, LocalsOK
  <2>3. \A s \in todo'[w] : \E id \in ids \ {first} : s = Snap(id)
    BY <2>2
  <2>4. BatchOrderly(w)'
    <3>1. \A s \in todo'[w] : s.id # cur'[w].id
      BY <2>2, <2>3 DEF Snap
    <3>2. \A s, t \in todo'[w] : s.id = t.id => s = t
      BY <2>3 DEF Snap
    <3>3. pc'[w] \notin ExecutorPCs => todo'[w] = {}
      BY <2>2 DEF ExecutorPCs
    <3> QED
      BY <2>2, <3>1, <3>2, <3>3 DEF BatchOrderly
  <2>5. \A s \in Batch(w)' : \E id \in Ids : s = Snap(id) /\ Present(id)
    BY <2>2, <2>3 DEF Batch
  <2> QED
    BY <2>4, <2>5 DEF BatchKept
<1> QED
  BY <1>1, <1>2

(* Steps between labels at which nothing is processed.                       *)
LEMMA BareBatch ==
  ASSUME TypeOK, NEW E \in Crews, BudgetInv(E), NEW p \in Procs,
         pc[p] \notin ExecutorPCs, pc'[p] \notin ExecutorPCs, OnlyMoves(p),
         UNCHANGED todo
  PROVE  BatchesKept(E)
<1> SUFFICES ASSUME NEW w \in E PROVE BatchKept(w)
  BY DEF BatchesKept
<1>0. w \in Procs \ Janitors /\ BatchOrderly(w)
  BY DEF BudgetInv, Crews
<1>1. CASE p # w
  BY <1>0, <1>1, UnmovedBatch DEF OnlyMoves
<1>2. CASE p = w
  <2>1. todo[w] = {}
    BY <1>0, <1>2 DEF BatchOrderly
  <2> QED
    BY <1>2, <2>1 DEF BatchKept, BatchOrderly, Batch, ExecutorPCs
<1> QED
  BY <1>1, <1>2

(* A goroutine of E goes on with the action it has in hand.                  *)
LEMMA GotoBatch ==
  ASSUME TypeOK, NEW E \in Crews, NEW p \in E, BudgetInv(E),
         pc[p] \in ExecutorPCs \ {"record"}, NEW label \in ExecutorPCs,
         label = "retry" => cur[p].row.retries < MaxRetries,
         Goto(p, label), UNCHANGED <<cur, todo>>
  PROVE  BatchesKept(E)
<1> SUFFICES ASSUME NEW w \in E PROVE BatchKept(w)
  BY DEF BatchesKept
<1>0. w \in Procs /\ p \in Procs /\ BatchOrderly(w)
  BY DEF BudgetInv, Crews
<1>1. CASE p # w
  <2>1. pc'[w] = pc[w] /\ cur'[w] = cur[w] /\ todo'[w] = todo[w]
    BY <1>0, <1>1 DEF Goto, TypeOK, LocalsOK
  <2> QED
    BY <1>0, <2>1, UnmovedBatch
<1>2. CASE p = w
  <2>1. pc'[w] = label /\ cur'[w] = cur[w] /\ todo'[w] = todo[w]
    BY <1>0, <1>2 DEF Goto, TypeOK, LocalsOK
  <2>2. BatchOrderly(w)'
    BY <1>0, <1>2, <2>1 DEF BatchOrderly
  <2>3. Batch(w)' \subseteq Batch(w)
    BY <1>2, <2>1 DEF Batch
  <2> QED
    BY <2>2, <2>3 DEF BatchKept
<1> QED
  BY <1>1, <1>2

(* The claim is the step that counts a run: retry_count accounts for it.     *)
LEMMA ClaimBudget ==
  ASSUME TypeOK, TypeOK', SafeInv', NEW E \in Crews, NEW w \in E, BudgetInv(E),
         MarkActionAsProcessing(w), StillClaimable(cur[w].id)
  PROVE  BudgetInv(E)'
<1>0. w \in Procs
  BY DEF Crews
<1>1. /\ pc[w] = "claim" /\ UpdateActionStatus(cur[w].id, "processing")
      /\ Goto(w, IF cur[w].row.handled THEN "execute" ELSE "unhandled")
      /\ runs' = IF cur[w].row.handled
                 THEN [runs EXCEPT ![cur[w].id] = @ + 1] ELSE runs
      /\ UNCHANGED <<cur, todo, edited>>
  BY DEF MarkActionAsProcessing
<1>2. PICK id \in Ids : id = cur[w].id
  BY <1>0, <1>1, CurIsId
<1>3. Present(id) /\ rows[id].status \in Claimable
  BY <1>2 DEF StillClaimable, Present, Claimable
<1>4. /\ \A i \in Ids : rows'[i].retries = rows[i].retries
      /\ \A i \in Ids : Present(i)' <=> Present(i)
  <2> DEFINE new == [rows[id] EXCEPT !.status = "processing"]
  <2>1. new.status = "processing" /\ new.retries = rows[id].retries
    BY DEF TypeOK, TablesOK, Row
  <2>2. rows' = [rows EXCEPT ![id] = new]
    BY <1>1, <1>2, <1>3 DEF UpdateActionStatus, Store
  <2> HIDE DEF new
  <2>3. \A i \in Ids \ {id} : rows'[i] = rows[i]
    BY <2>2 DEF TypeOK, TablesOK
  <2>4. rows'[id] = new
    BY <2>2 DEF TypeOK, TablesOK
  <2> QED
    BY <1>3, <2>1, <2>3, <2>4 DEF Present
<1>5. \A i \in Ids : i > lastId => ~Present(i)
  BY DEF TypeOK, TablesOK, Absent, Present
<1>6. CountsKept
  BY <1>1, <1>4, <1>5, IdsAreNat, TaskQueueAssumption
  DEF CountsKept, TypeOK, TablesOK
<1>7. BatchesKept(E)
  BY <1>1, GotoBatch DEF ExecutorPCs
<1>8. RetriesBounded(E)'
  BY <1>6, <1>7, RetriesKept DEF BudgetInv
<1>9. RunsBounded(E)'
  <2> SUFFICES ASSUME NEW i \in Ids \ edited'
               PROVE  runs'[i] <= MaxRetries + Cardinality(E)
    BY DEF RunsBounded
  <2>1. CASE i # id
    <3>1. runs'[i] = runs[i]
      BY <1>1, <1>2, <2>1 DEF TypeOK, HistoryOK
    <3> QED
      BY <1>1, <3>1 DEF BudgetInv, RunsBounded
  <2>2. CASE i = id
    <3>1. Present(i)'
      BY <1>3, <1>4, <2>2
    <3>2. runs'[i] <= rows'[i].retries + 1
      BY <3>1 DEF SafeInv, RetryCountAccounts
    <3>3. rows'[i].retries < MaxRetries + Cardinality(Fresh(E, i)')
      BY <1>8, <3>1 DEF RetriesBounded
    <3>4. runs'[i] \in Nat /\ rows'[i].retries \in Nat
      BY DEF TypeOK, HistoryOK, TablesOK, Row
    <3> DEFINE fresh == Cardinality(Fresh(E, i)')
    <3>5. Cardinality(E) \in Nat /\ fresh \in 0..Cardinality(E)
      BY FreshCount, FreshCountNext
    <3>6. MaxRetries \in Nat
      BY TaskQueueAssumption
    <3>7. rows'[i].retries < MaxRetries + fresh
      BY <3>3
    <3> HIDE DEF fresh
    <3> QED
      BY <3>2, <3>4, <3>5, <3>6, <3>7
  <2> QED
    BY <2>1, <2>2
<1> QED
  BY <1>7, <1>8, <1>9 DEF BudgetInv, BatchesKept, BatchKept

(* ScheduleRetry of an action w has seen below max_retries: w had a stale    *)
(* copy if the row is not, and now it has none.                              *)
LEMMA RetryInBudget ==
  ASSUME TypeOK, NEW E \in Crews, NEW w \in E, BudgetInv(E), ScheduleRetry(w)
  PROVE  BudgetInv(E)'
<1>0. w \in Procs
  BY DEF Crews
<1>1. /\ pc[w] = "retry" /\ Goto(w, "record") /\ UNCHANGED <<cur, todo, edited, runs>>
      /\ Store(cur[w].id, Retried(rows[cur[w].id], cur[w].row.retries + 1))
  BY DEF ScheduleRetry, history
<1>2. PICK id \in Ids : id = cur[w].id
  BY <1>0, <1>1, CurIsId
<1>3. /\ cur[w].row.retries < MaxRetries /\ BatchOrderly(w)
      /\ \A s \in todo[w] : s.id # id
  BY <1>1, <1>2 DEF BudgetInv, BatchOrderly
<1>4. /\ \A i \in Ids \ {id} : rows'[i] = rows[i]
      /\ Present(id) => rows'[id].retries = rows[id].retries + 1
      /\ ~Present(id) => ~Present(id)'
  <2> DEFINE new == Retried(rows[id], cur[w].row.retries + 1)
  <2>1. new.retries = rows[id].retries + 1
    BY RetriedIsRow DEF TypeOK, TablesOK
  <2>2. rows' = IF Present(id) THEN [rows EXCEPT ![id] = new] ELSE rows
    BY <1>1, <1>2 DEF Store
  <2> HIDE DEF new
  <2> QED
    BY <2>1, <2>2 DEF Present, TypeOK, TablesOK
<1>5. RunsBounded(E)'
  BY <1>1 DEF BudgetInv, RunsBounded
<1>6. pc'[w] = "record" /\ cur'[w] = cur[w] /\ todo'[w] = todo[w]
  BY <1>0, <1>1 DEF Goto, TypeOK, LocalsOK
<1>7. ASSUME NEW p \in E
      PROVE  BatchOrderly(p)' /\ Batch(p)' \subseteq Batch(p)
  <2>1. CASE p = w
    BY <1>3, <1>6, <2>1 DEF BatchOrderly, Batch, ExecutorPCs
  <2>2. CASE p # w
    <3>1. pc'[p] = pc[p] /\ cur'[p] = cur[p] /\ todo'[p] = todo[p]
      BY <1>1, <2>2 DEF Goto, TypeOK, LocalsOK, Crews
    <3> QED
      BY <3>1 DEF BudgetInv, BatchOrderly, Batch
  <2> QED
    BY <2>1, <2>2
<1>8. \A i : Fresh(E, i) \subseteq Fresh(E, i)'
  BY <1>7 DEF Fresh
<1>9. w \in Fresh(E, id)'
  BY <1>3, <1>6 DEF Fresh, Batch
<1>10. \A i : IsFiniteSet(Fresh(E, i)')
  BY FS_Subset DEF Crews, Fresh
<1>11. RetriesBounded(E)'
  <2> SUFFICES ASSUME NEW i \in Ids \ edited', Present(i)'
               PROVE  rows'[i].retries < MaxRetries + Cardinality(Fresh(E, i)')
    BY DEF RetriesBounded
  <2>1. /\ Cardinality(Fresh(E, i)) \in Nat /\ Cardinality(Fresh(E, i)') \in Nat
        /\ rows[i].retries \in Nat /\ MaxRetries \in Nat
    BY FreshCount, FreshCountNext, TaskQueueAssumption DEF TypeOK, TablesOK, Row
  <2>2. Present(i) /\ i \notin edited
    BY <1>1, <1>4 DEF Present
  <2>3. rows[i].retries < MaxRetries + Cardinality(Fresh(E, i))
    BY <2>2 DEF BudgetInv, RetriesBounded
  <2>4. CASE i # id
    <3>1. Cardinality(Fresh(E, i)) <= Cardinality(Fresh(E, i)')
      BY <1>8, <1>10, FS_Subset
    <3>2. rows'[i].retries = rows[i].retries
      BY <1>4, <2>4
    <3> QED
      BY <2>1, <2>3, <3>1, <3>2
  <2>5. CASE i = id /\ rows[i].retries < MaxRetries
    <3>1. Cardinality(Fresh(E, i)') # 0
      BY <1>9, <1>10, <2>5, FS_EmptySet
    <3>2. rows'[i].retries = rows[i].retries + 1
      BY <1>4, <2>2, <2>5
    <3> QED
      BY <2>1, <2>5, <3>1, <3>2
  <2>6. CASE i = id /\ rows[i].retries >= MaxRetries
    <3>1. w \notin Fresh(E, i)
      <4>1. cur[w] \in Batch(w) /\ cur[w].id = i
        BY <1>1, <1>2, <2>6 DEF Batch, ExecutorPCs
      <4>2. cur[w].row.retries \in Nat
        BY <1>0 DEF TypeOK, LocalsOK, Snapshot, Row
      <4> QED
        BY <1>3, <2>1, <4>1, <4>2 DEF Fresh
    <3>2. IsFiniteSet(Fresh(E, i))
      BY <1>8, <1>10, FS_Subset
    <3>3. Cardinality(Fresh(E, i) \cup {w}) = Cardinality(Fresh(E, i)) + 1
      BY <3>1, <3>2, FS_AddElement
    <3>4. Fresh(E, i) \cup {w} \subseteq Fresh(E, i)'
      BY <1>8, <1>9, <2>6
    <3>5. Cardinality(Fresh(E, i)) + 1 <= Cardinality(Fresh(E, i)')
      BY <1>10, <3>3, <3>4, FS_Subset
    <3>6. rows'[i].retries = rows[i].retries + 1
      BY <1>4, <2>2, <2>6
    <3> QED
      BY <2>1, <2>3, <3>5, <3>6
  <2> QED
    BY <2>1, <2>4, <2>5, <2>6
<1> QED
  BY <1>5, <1>7, <1>11 DEF BudgetInv

LEMMA ProcessActionBudget ==
  ASSUME TypeOK, TypeOK', SafeInv, SafeInv', NEW E \in Crews, NEW w \in E,
         BudgetInv(E), ProcessAction(w)
  PROVE  BudgetInv(E)'
<1>0. w \in Procs
  BY DEF Crews
<1>1. CASE Check(w)
  <2>1. pc[w] = "check" /\ UNCHANGED <<table, history>>
    BY <1>1 DEF Check
  <2>2. CountsKept /\ UNCHANGED runs
    BY <2>1, SameRowsQuiet, RowsQuietCounts DEF table, history
  <2>3. Finish(w) \/ (Goto(w, "claim") /\ UNCHANGED <<cur, todo>>)
    BY <1>1 DEF Check
  <2>4. BatchesKept(E)
    BY <1>0, <2>1, <2>3, FinishBatch, GotoBatch DEF ExecutorPCs
  <2> QED
    BY <2>2, <2>4, BudgetKept
<1>2. CASE MarkActionAsProcessing(w)
  <2>1. CASE StillClaimable(cur[w].id)
    BY <1>2, <2>1, ClaimBudget
  <2>2. CASE ~StillClaimable(cur[w].id)
    <3>1. Finish(w) /\ UNCHANGED <<rows, runs, edited>>
      BY <1>2, <2>2 DEF MarkActionAsProcessing
    <3> QED
      BY <1>0, <3>1, SameRowsQuiet, RowsQuietCounts, FinishBatch, BudgetKept
  <2> QED
    BY <2>1, <2>2
<1>3. CASE Execute(w)
  <2>1. pc[w] = "execute" /\ UNCHANGED <<rows, cur, todo, runs, edited>>
    BY <1>3 DEF Execute, table
  <2>2. \/ Goto(w, "succeed") \/ Goto(w, "fail")
        \/ Goto(w, "retry") /\ cur[w].row.retries < MaxRetries
    BY <1>3 DEF Execute, CanRetry
  <2>3. BatchesKept(E)
    BY <2>1, <2>2, GotoBatch DEF ExecutorPCs
  <2> QED
    BY <2>1, <2>3, SameRowsQuiet, RowsQuietCounts, BudgetKept
<1>4. CASE Complete(w)
  <2>1. /\ pc[w] \in {"succeed", "fail", "unhandled"} /\ Finish(w)
        /\ CompleteAction(cur[w].id, pc[w] = "succeed")
        /\ UNCHANGED <<runs, edited>>
    BY <1>4 DEF Complete, history
  <2>2. cur[w].id \in Ids
    BY <1>0, <2>1, CurIsId
  <2>3. \/ UpdateActionStatus(cur[w].id, "failed")
        \/ /\ UpdateActionStatus(cur[w].id, "completed")
           /\ cur[w].id \in succeeded
    BY <1>0, <2>1 DEF CompleteAction, SafeInv, SuccessNoted
  <2>4. RowsQuiet
    BY <1>0, <2>1, <2>2, <2>3, StatusQuiet DEF Statuses, Terminal, Claimable
  <2> QED
    BY <1>0, <2>1, <2>4, RowsQuietCounts, FinishBatch, BudgetKept
<1>5. CASE ScheduleRetry(w)
  BY <1>5, RetryInBudget
<1>6. CASE RecordAttempt(w)
  <2>1. Finish(w) /\ UNCHANGED <<rows, runs, edited>>
    BY <1>6 DEF RecordAttempt, history
  <2> QED
    BY <1>0, <2>1, SameRowsQuiet, RowsQuietCounts, FinishBatch, BudgetKept
<1> QED
  BY <1>1, <1>2, <1>3, <1>4, <1>5, <1>6 DEF ProcessAction

LEMMA BareMoves ==
  ASSUME TypeOK, NEW c \in Procs,
         \/ \E label \in {"idle", "insert", "link"} : \E s : Begin(c, label, s)
         \/ pc[c] = "link" /\ \E link : Linked(c, link)
  PROVE  OnlyMoves(c) /\ pc'[c] \notin ExecutorPCs
<1>1. CASE \E label \in {"idle", "insert", "link"} : \E s : Begin(c, label, s)
  BY <1>1 DEF OnlyMoves, Begin, Goto, TypeOK, LocalsOK, ExecutorPCs
<1>2. CASE pc[c] = "link" /\ UNCHANGED <<pc, cur>>
  BY <1>2 DEF OnlyMoves, ExecutorPCs
<1> QED
  BY <1>1, <1>2 DEF Linked, NextItem

LEMMA InsertBudget ==
  ASSUME TypeOK, NEW E \in Crews, BudgetInv(E), NEW c \in Procs, InsertAction(c)
  PROVE  BudgetInv(E)'
<1>1. /\ pc[c] = "insert" /\ UNCHANGED <<todo, runs, edited>>
      /\ \E row : row.retries = 0 /\ rows' = [rows EXCEPT ![lastId + 1] = row]
      /\ \E label \in {"idle", "insert", "link"} : \E s : Begin(c, label, s)
  BY DEF InsertAction, NextItem, history
<1>2. BatchesKept(E)
  BY <1>1, BareMoves, BareBatch DEF ExecutorPCs
<1>3. PICK row : row.retries = 0 /\ rows' = [rows EXCEPT ![lastId + 1] = row]
  BY <1>1
<1>4. \A id \in Ids : id # lastId + 1 => rows'[id] = rows[id]
  BY <1>3 DEF TypeOK, TablesOK
<1>5. \A id \in Ids : id > lastId => rows[id].status = "absent"
  BY DEF TypeOK, TablesOK, Absent
<1>6. lastId \in Nat /\ Ids \subseteq Nat
  BY IdsAreNat, TaskQueueAssumption DEF TypeOK, TablesOK
<1>7. CountsKept
  <2> SUFFICES ASSUME NEW id \in Ids \ edited', Present(id)'
               PROVE  IF id <= lastId
                      THEN Present(id) /\ rows'[id].retries = rows[id].retries
                      ELSE rows'[id].retries = 0
    BY <1>1 DEF CountsKept
  <2>1. CASE id = lastId + 1
    <3>1. rows'[id] = row
      BY <1>3, <2>1 DEF TypeOK, TablesOK
    <3> QED
      BY <1>3, <1>6, <2>1, <3>1
  <2>2. CASE id # lastId + 1
    BY <1>4, <1>5, <1>6, <2>2 DEF Present
  <2> QED
    BY <2>1, <2>2
<1> QED
  BY <1>1, <1>2, <1>7, BudgetKept

LEMMA ClientBudget ==
  ASSUME TypeOK, TypeOK', SafeInv, SafeInv', NEW E \in Crews, Only(E),
         Only(E)', BudgetInv(E), NEW c \in Clients, ClientStep(c)
  PROVE  BudgetInv(E)'
<1>0. c \in Procs \ Janitors
  BY TaskQueueAssumption DEF Procs
<1>1. CASE ProcessMatching(c)
  <2>1. /\ pc[c] = "idle" /\ UNCHANGED <<table, history>>
    BY <1>1 DEF ProcessMatching, Idle
  <2>2. PICK ids \in SUBSET {id \in Ids : rows[id].status \in Claimable} :
          \E first \in ids :
            /\ Begin(c, "check", Snap(first))
            /\ todo' = [todo EXCEPT ![c] = {Snap(id) : id \in ids \ {first}}]
    BY <1>1 DEF ProcessMatching
  <2>3. ids \in SUBSET {id \in Ids : Present(id)}
    BY DEF Present, Claimable
  <2>4. BatchesKept(E)
    BY <1>0, <2>1, <2>2, <2>3, BeginBatch
  <2> QED
    BY <2>1, <2>4, SameRowsQuiet, RowsQuietCounts, BudgetKept DEF table, history
<1>2. CASE ProcessOne(c) \/ ForceRetry(c) \/ UpdateActionRead(c)
           \/ CancelActionRead(c) \/ DeleteActionRead(c)
  <2>1. /\ pc[c] = "idle" /\ UNCHANGED <<table, history, todo>>
        /\ \E id \in Ids,
              label \in {"check", "reset", "update", "cancel", "delete"} :
              Present(id) /\ Begin(c, label, Snap(id))
    BY <1>2 DEF ProcessOne, ForceRetry, UpdateActionRead, CancelActionRead,
                DeleteActionRead, ReadFor, Idle, Present, Statuses, Claimable,
                Terminal
  <2>2. PICK id \in Ids : \E label \in {"check", "reset", "update", "cancel",
                                        "delete"} :
              Present(id) /\ Begin(c, label, Snap(id))
    BY <2>1
  <2>3. {id} \in SUBSET {i \in Ids : Present(i)} /\ id \in {id}
    BY <2>2 DEF Present
  <2>4. BatchesKept(E)
    BY <1>0, <2>1, <2>2, <2>3, BeginBatch
  <2> QED
    BY <2>1, <2>4, SameRowsQuiet, RowsQuietCounts, BudgetKept DEF table, history
<1>3. CASE ResetFailed(c)
  <2>1. /\ pc[c] = "reset" /\ UpdateActionStatus(cur[c].id, "pending")
        /\ edited' = edited \cup {cur[c].id} /\ Goto(c, "check")
        /\ UNCHANGED <<cur, todo, runs>>
    BY <1>3 DEF ResetFailed
  <2>2. RowsQuiet
    BY <1>0, <2>1, CurIsId, EditQuiet DEF UpdateActionStatus
  <2>3. pc'[c] = "check"
    BY <1>0, <2>1 DEF Goto, TypeOK, LocalsOK
  <2>4. c \in E
    BY <1>0, <2>3 DEF Only, ExecutorPCs
  <2>5. todo[c] = {} /\ todo'[c] = {}
    BY <2>1, <2>4 DEF BudgetInv, BatchOrderly, ExecutorPCs
  <2>6. BatchesKept(E)
    <3>1. BatchKept(c)
      BY <2>1, <2>3, <2>5 DEF BatchKept, BatchOrderly, Batch, ExecutorPCs
    <3>2. ASSUME NEW v \in E, v # c
          PROVE  BatchKept(v)
      <4>1. pc'[v] = pc[v] /\ cur'[v] = cur[v] /\ todo'[v] = todo[v]
        BY <2>1, <3>2 DEF Goto, TypeOK, LocalsOK, Crews
      <4> QED
        BY <4>1, UnmovedBatch DEF BudgetInv
    <3> QED
      BY <3>1, <3>2 DEF BatchesKept
  <2> QED
    BY <2>1, <2>2, <2>6, RowsQuietCounts, BudgetKept
<1>4. CASE ProcessAction(c)
  <2>1. pc[c] \in ExecutorPCs
    BY <1>4 DEF ProcessAction, Check, MarkActionAsProcessing, Execute, Complete,
                ScheduleRetry, RecordAttempt, ExecutorPCs
  <2>2. c \in E
    BY <1>0, <2>1 DEF Only
  <2> QED
    BY <1>4, <2>2, ProcessActionBudget
<1>5. CASE StartEnqueue(c)
  <2>1. /\ pc[c] = "idle" /\ Goto(c, "insert")
        /\ UNCHANGED <<table, cur, todo, history>>
    BY <1>5 DEF StartEnqueue, Idle
  <2>2. OnlyMoves(c) /\ pc'[c] \notin ExecutorPCs
    BY <1>0, <2>1 DEF OnlyMoves, Goto, TypeOK, LocalsOK, ExecutorPCs
  <2>3. BatchesKept(E)
    BY <1>0, <2>1, <2>2, BareBatch DEF ExecutorPCs
  <2> QED
    BY <2>1, <2>3, SameRowsQuiet, RowsQuietCounts, BudgetKept DEF table, history
<1>6. CASE InsertAction(c)
  BY <1>0, <1>6, InsertBudget
<1>7. CASE LinkAction(c)
  <2>1. /\ pc[c] = "link" /\ UNCHANGED <<rows, history>>
        /\ \E link : Linked(c, link)
    BY <1>7 DEF LinkAction
  <2>2. UNCHANGED todo
    BY <2>1 DEF Linked, NextItem
  <2>3. BatchesKept(E)
    BY <1>0, <2>1, <2>2, BareMoves, BareBatch DEF ExecutorPCs
  <2> QED
    BY <2>1, <2>3, SameRowsQuiet, RowsQuietCounts, BudgetKept DEF history
<1>8. CASE UpdateActionWrite(c)
  <2>1. /\ pc[c] = "update" /\ edited' = edited \cup {cur[c].id} /\ Finish(c)
        /\ UNCHANGED runs
        /\ \E row : Store(cur[c].id, row)
    BY <1>8 DEF UpdateActionWrite
  <2>2. RowsQuiet
    BY <1>0, <2>1, CurIsId, EditQuiet
  <2> QED
    BY <1>0, <2>1, <2>2, RowsQuietCounts, FinishBatch, BudgetKept
<1>9. CASE CancelActionWrite(c)
  <2>1. /\ pc[c] = "cancel" /\ Finish(c) /\ UNCHANGED <<runs, edited>>
        /\ UpdateActionStatus(cur[c].id, "cancelled")
    BY <1>9 DEF CancelActionWrite, history
  <2>2. RowsQuiet
    BY <1>0, <2>1, CurIsId, StatusQuiet DEF Statuses, Terminal, Claimable
  <2> QED
    BY <1>0, <2>1, <2>2, RowsQuietCounts, FinishBatch, BudgetKept
<1>10. CASE DeleteActionWrite(c)
  <2>1. /\ Finish(c) /\ DeleteRows({cur[c].id}) /\ UNCHANGED <<runs, edited>>
    BY <1>10 DEF DeleteActionWrite, history
  <2>2. RowsQuiet
    BY <2>1, DeleteQuiet
  <2> QED
    BY <1>0, <2>1, <2>2, RowsQuietCounts, FinishBatch, BudgetKept
<1> QED
  BY <1>1, <1>2, <1>3, <1>4, <1>5, <1>6, <1>7, <1>8, <1>9, <1>10
  DEF ClientStep, EnqueueStep, AdminStep

LEMMA NextBudget ==
  ASSUME TypeOK, TypeOK', SafeInv, SafeInv', NEW E \in Crews, Only(E),
         Only(E)', BudgetInv(E), [Next]_vars
  PROVE  BudgetInv(E)'
<1>1. CASE \E v \in Workers : WorkerStep(v)
  <2>1. PICK v \in Workers : Fetch(v) \/ ProcessAction(v)
    BY <1>1 DEF WorkerStep
  <2>2. v \in Procs \ Janitors
    BY TaskQueueAssumption DEF Procs
  <2>3. CASE Fetch(v)
    <3>1. /\ pc[v] = "idle" /\ UNCHANGED <<table, history, todo>>
          /\ \E id \in Ids : Present(id) /\ Begin(v, "check", Snap(id))
      BY <2>3 DEF Fetch, Idle, NextToProcess, Ready, Present, Claimable
    <3>2. PICK id \in Ids : Present(id) /\ Begin(v, "check", Snap(id))
      BY <3>1
    <3>3. {id} \in SUBSET {i \in Ids : Present(i)} /\ id \in {id}
      BY <3>2 DEF Present
    <3>4. BatchesKept(E)
      BY <2>2, <3>1, <3>2, <3>3, BeginBatch
    <3> QED
      BY <3>1, <3>4, SameRowsQuiet, RowsQuietCounts, BudgetKept DEF table, history
  <2>4. CASE ProcessAction(v)
    <3>1. pc[v] \in ExecutorPCs
      BY <2>4 DEF ProcessAction, Check, MarkActionAsProcessing, Execute, Complete,
                  ScheduleRetry, RecordAttempt, ExecutorPCs
    <3>2. v \in E
      BY <2>2, <3>1 DEF Only
    <3> QED
      BY <2>4, <3>2, ProcessActionBudget
  <2> QED
    BY <2>1, <2>3, <2>4
<1>2. CASE \E c \in Clients : ClientStep(c)
  BY <1>2, ClientBudget
<1>3. CASE \E j \in Janitors : JanitorStep(j)
  <2>1. PICK j \in Janitors : JanitorStep(j)
    BY <1>3
  <2>2. j \in Procs /\ j \notin E
    BY DEF Procs, Crews
  <2>3. CASE ReadForCleanup(j)
    <3>1. /\ UNCHANGED <<table, history>>
          /\ \E first, rest : /\ Begin(j, "sweep", Snap(first))
                              /\ todo' = [todo EXCEPT ![j] = rest]
      BY <2>3 DEF ReadForCleanup
    <3>2. \A w \in E : pc'[w] = pc[w] /\ cur'[w] = cur[w] /\ todo'[w] = todo[w]
      BY <2>2, <3>1 DEF Begin, Goto, TypeOK, LocalsOK, Crews
    <3> QED
      BY <3>1, <3>2, UnmovedBatches, SameRowsQuiet, RowsQuietCounts, BudgetKept
      DEF table, history
  <2>4. CASE ExpireOverdue(j)
    <3>1. /\ pc[j] = "sweep" /\ Finish(j) /\ UNCHANGED <<runs, edited>>
          /\ UpdateActionStatus(cur[j].id, "timeout") \/ UNCHANGED rows
      BY <2>4 DEF ExpireOverdue, history
    <3>2. RowsQuiet
      BY <2>2, <3>1, CurIsId, StatusQuiet, SameRowsQuiet
      DEF Statuses, Terminal, Claimable
    <3> QED
      BY <2>2, <3>1, <3>2, RowsQuietCounts, FinishBatch, BudgetKept
  <2> QED
    BY <2>1, <2>3, <2>4 DEF JanitorStep
<1>4. CASE \E p \in Procs : CallFails(p)
  <2>1. PICK p \in Procs : CallFails(p)
    BY <1>4
  <2>2. UNCHANGED <<rows, runs, edited>>
    BY <2>1 DEF CallFails, table, history
  <2>3. CASE Finish(p)
    BY <2>2, <2>3, SameRowsQuiet, RowsQuietCounts, FinishBatch, BudgetKept
  <2>4. CASE ~Finish(p)
    <3>1. /\ pc[p] \in {"insert", "link"} /\ UNCHANGED todo
          /\ \/ \E label \in {"idle", "insert"} : Begin(p, label, NoSnapshot)
             \/ pc[p] = "link" /\ \E link : Linked(p, link)
      BY <2>1, <2>4 DEF CallFails, AbandonRequest, NextItem, Linked
    <3>2. BatchesKept(E)
      BY <3>1, BareMoves, BareBatch DEF ExecutorPCs
    <3> QED
      BY <2>2, <3>2, SameRowsQuiet, RowsQuietCounts, BudgetKept
  <2> QED
    BY <2>3, <2>4
<1>5. CASE ClearQueue \/ CleanupOldActions
  <2>1. /\ \E ids : DeleteRows(ids)
        /\ UNCHANGED <<pc, cur, todo, runs, edited>>
    BY <1>5 DEF ClearQueue, CleanupOldActions, locals, history
  <2>2. RowsQuiet
    BY <2>1, DeleteQuiet
  <2> QED
    BY <2>1, <2>2, UnmovedBatches, RowsQuietCounts, BudgetKept
<1>6. CASE Crash
  <2>1. /\ UNCHANGED <<rows, runs, edited>>
        /\ \A w \in E : pc'[w] = "idle" /\ todo'[w] = {}
    BY <1>6 DEF Crash, table, history, Crews
  <2>2. BatchesKept(E)
    BY <2>1 DEF BatchesKept, BatchKept, BatchOrderly, Batch, ExecutorPCs
  <2> QED
    BY <2>1, <2>2, SameRowsQuiet, RowsQuietCounts, BudgetKept
<1>7. CASE Tick \/ UNCHANGED vars
  <2>1. UNCHANGED <<rows, pc, cur, todo, runs, edited>>
    BY <1>7 DEF Tick, vars, table, locals, history
  <2> QED
    BY <2>1, UnmovedBatches, SameRowsQuiet, RowsQuietCounts, BudgetKept
<1> QED
  BY <1>1, <1>2, <1>3, <1>4, <1>5, <1>6, <1>7 DEF Next

LEMMA InitBudget == ASSUME NEW E \in Crews PROVE Init => BudgetInv(E)
<1>1. Cardinality(E) \in Nat
  BY FreshCount
<1> QED
  BY <1>1, TaskQueueAssumption
  DEF Init, BudgetInv, RetriesBounded, RunsBounded, BatchOrderly, Batch, Present,
      Absent, ExecutorPCs, Crews

(* While the goroutines of a finite set E do all the processing, no handler  *)
(* runs more often than max_retries and their number allow, whatever is      *)
(* cancelled, expires, fails or crashes.  With E = {w} it is one run and     *)
(* max_retries retries.                                                      *)
THEOREM CrewBudget ==
  ASSUME NEW E \in Crews
  PROVE  Spec /\ []Only(E) => []RunsBounded(E)
<1>1. Init => BudgetInv(E)
  BY InitBudget
<1>2. /\ TypeOK /\ TypeOK' /\ SafeInv /\ SafeInv' /\ BudgetInv(E)
      /\ Only(E) /\ Only(E)' /\ [Next]_vars
      => BudgetInv(E)'
  BY NextBudget
<1>3. Spec => []TypeOK /\ []SafeInv
  BY TypeCorrect, SafeInvariant, PTL
<1>4. BudgetInv(E) => RunsBounded(E)
  BY DEF BudgetInv
<1> QED
  BY <1>1, <1>2, <1>3, <1>4, PTL DEF Spec

-----------------------------------------------------------------------------
(* The hypotheses above, from the operations a deployment offers.            *)

(* Where a step can take a goroutine.                                        *)
FinishLabel(q) == IF q \in Janitors THEN "sweep" ELSE "check"
StepsTo(q) ==
  \/ todo'[q] = todo[q] /\ pc'[q] \in {pc[q], "insert", "link", "cancel", "delete"}
  \/ todo'[q] = {} /\ pc'[q] = "idle"
  \/ todo'[q] = todo[q] /\ pc'[q] = "idle"
  \/ todo[q] # {} /\ pc'[q] = FinishLabel(q)
  \/ q \in Workers /\ pc'[q] = "check"
  \/ pc[q] \in ExecutorPCs /\ pc'[q] \in ExecutorPCs
  \/ "update" \in Ops /\ pc'[q] = "update" /\ todo'[q] = todo[q]
  \/ q \in Clients /\ "process" \in Ops /\ pc'[q] = "check"
  \/ q \in Clients /\ "force" \in Ops /\ pc'[q] \in {"check", "reset"}
  \/ pc[q] = "reset" /\ pc'[q] = "check"
  \/ q \in Janitors /\ pc'[q] = "sweep"

LEMMA FinishSteps ==
  ASSUME TypeOK, NEW p \in Procs, Finish(p), NEW q \in Procs
  PROVE  StepsTo(q)
<1>1. CASE q # p
  BY <1>1 DEF Finish, Begin, Goto, TypeOK, LocalsOK, StepsTo
<1>2. CASE q = p
  BY <1>2 DEF Finish, Begin, Goto, TypeOK, LocalsOK, StepsTo, FinishLabel
<1> QED
  BY <1>1, <1>2

LEMMA BareSteps ==
  ASSUME TypeOK, NEW p \in Procs, NEW q \in Procs, UNCHANGED todo,
         \/ \E label \in {"idle", "insert", "link", "cancel", "delete"} : \E s :
              Begin(p, label, s)
         \/ \E link : Linked(p, link)
  PROVE  StepsTo(q)
<1>1. CASE UNCHANGED pc
  BY <1>1 DEF StepsTo
<1>2. CASE \E label \in {"idle", "insert", "link", "cancel", "delete"} : \E s :
             Begin(p, label, s)
  BY <1>2 DEF Begin, Goto, TypeOK, LocalsOK, StepsTo
<1> QED
  BY <1>1, <1>2 DEF Linked, NextItem

LEMMA ProcessActionSteps ==
  ASSUME TypeOK, NEW p \in Procs, ProcessAction(p), NEW q \in Procs
  PROVE  StepsTo(q) /\ edited' = edited
<1>1. edited' = edited /\ pc[p] \in ExecutorPCs
  BY DEF ProcessAction, Check, MarkActionAsProcessing, Execute, Complete,
         ScheduleRetry, RecordAttempt, history, ExecutorPCs
<1>2. Finish(p) \/ (\E label \in ExecutorPCs : Goto(p, label) /\ UNCHANGED todo)
  BY DEF ProcessAction, Check, MarkActionAsProcessing, Execute, Complete,
         ScheduleRetry, RecordAttempt, ExecutorPCs
<1>3. CASE \E label \in ExecutorPCs : Goto(p, label) /\ UNCHANGED todo
  BY <1>1, <1>3 DEF Goto, TypeOK, LocalsOK, StepsTo
<1> QED
  BY <1>1, <1>2, <1>3, FinishSteps

LEMMA NextSteps ==
  ASSUME TypeOK, [Next]_vars, NEW q \in Procs
  PROVE  /\ StepsTo(q)
         /\ edited' # edited => \E c \in Clients : pc[c] \in {"reset", "update"}
<1>1. CASE \E w \in Workers : WorkerStep(w)
  <2>1. PICK w \in Workers : Fetch(w) \/ ProcessAction(w)
    BY <1>1 DEF WorkerStep
  <2>2. w \in Procs
    BY DEF Procs
  <2>3. CASE Fetch(w)
    BY <2>2, <2>3 DEF Fetch, Begin, Goto, TypeOK, LocalsOK, StepsTo, history
  <2> QED
    BY <2>1, <2>2, <2>3, ProcessActionSteps
<1>2. CASE \E c \in Clients : ClientStep(c)
  <2>1. PICK c \in Clients : ClientStep(c)
    BY <1>2
  <2>2. c \in Procs
    BY DEF Procs
  <2>3. CASE ProcessMatching(c) \/ ProcessOne(c)
    <3>1. /\ "process" \in Ops /\ edited' = edited
          /\ \E s : Begin(c, "check", s)
          /\ \A p \in Procs \ {c} : todo'[p] = todo[p]
      BY <2>3 DEF ProcessMatching, ProcessOne, history, TypeOK, LocalsOK
    <3> QED
      BY <2>2, <3>1 DEF Begin, Goto, TypeOK, LocalsOK, StepsTo
  <2>4. CASE ForceRetry(c) \/ UpdateActionRead(c)
    <3>1. /\ edited' = edited /\ UNCHANGED todo
          /\ \/ "force" \in Ops /\ \E l \in {"check", "reset"} : \E s : Begin(c, l, s)
             \/ "update" \in Ops /\ \E s : Begin(c, "update", s)
      BY <2>4 DEF ForceRetry, UpdateActionRead, ReadFor, history
    <3> QED
      BY <2>2, <3>1 DEF Begin, Goto, TypeOK, LocalsOK, StepsTo
  <2>5. CASE CancelActionRead(c) \/ DeleteActionRead(c) \/ InsertAction(c)
    <3>1. /\ edited' = edited /\ UNCHANGED todo
          /\ \E label \in {"idle", "insert", "link", "cancel", "delete"} : \E s :
               Begin(c, label, s)
      BY <2>5 DEF CancelActionRead, DeleteActionRead, ReadFor, InsertAction,
                  NextItem, history
    <3> QED
      BY <2>2, <3>1, BareSteps
  <2>6. CASE ResetFailed(c)
    BY <2>2, <2>6 DEF ResetFailed, Goto, TypeOK, LocalsOK, StepsTo
  <2>7. CASE ProcessAction(c)
    BY <2>2, <2>7, ProcessActionSteps
  <2>8. CASE StartEnqueue(c)
    BY <2>2, <2>8 DEF StartEnqueue, Goto, TypeOK, LocalsOK, StepsTo, history
  <2>9. CASE LinkAction(c)
    <3>1. edited' = edited /\ UNCHANGED todo /\ \E link : Linked(c, link)
      BY <2>9 DEF LinkAction, Linked, NextItem, history
    <3> QED
      BY <2>2, <3>1, BareSteps
  <2>10. CASE UpdateActionWrite(c)
    BY <2>2, <2>10, FinishSteps DEF UpdateActionWrite
  <2>11. CASE CancelActionWrite(c) \/ DeleteActionWrite(c)
    BY <2>2, <2>11, FinishSteps DEF CancelActionWrite, DeleteActionWrite, history
  <2> QED
    BY <2>1, <2>3, <2>4, <2>5, <2>6, <2>7, <2>8, <2>9, <2>10, <2>11
    DEF ClientStep, EnqueueStep, AdminStep
<1>3. CASE \E j \in Janitors : JanitorStep(j)
  <2>1. PICK j \in Janitors : JanitorStep(j)
    BY <1>3
  <2>2. j \in Procs
    BY DEF Procs
  <2>3. CASE ReadForCleanup(j)
    <3>1. /\ edited' = edited /\ \E s : Begin(j, "sweep", s)
          /\ \A p \in Procs \ {j} : todo'[p] = todo[p]
      BY <2>3 DEF ReadForCleanup, history, TypeOK, LocalsOK
    <3> QED
      BY <2>1, <2>2, <3>1 DEF Begin, Goto, TypeOK, LocalsOK, StepsTo
  <2>4. CASE ExpireOverdue(j)
    BY <2>2, <2>4, FinishSteps DEF ExpireOverdue, history
  <2> QED
    BY <2>1, <2>3, <2>4 DEF JanitorStep
<1>4. CASE \E p \in Procs : CallFails(p)
  <2>1. PICK p \in Procs : CallFails(p)
    BY <1>4
  <2>2. /\ edited' = edited
        /\ \/ Finish(p)
           \/ /\ UNCHANGED todo
              /\ \/ \E label \in {"idle", "insert"} : Begin(p, label, NoSnapshot)
                 \/ \E link : Linked(p, link)
    BY <2>1 DEF CallFails, AbandonRequest, NextItem, Linked, history
  <2> QED
    BY <2>2, FinishSteps, BareSteps
<1>5. CASE Crash
  BY <1>5 DEF Crash, StepsTo, history
<1>6. CASE ClearQueue \/ CleanupOldActions \/ Tick \/ UNCHANGED vars
  BY <1>6 DEF ClearQueue, CleanupOldActions, Tick, vars, locals, history, StepsTo
<1> QED
  BY <1>1, <1>2, <1>3, <1>4, <1>5, <1>6 DEF Next

(* Neither update nor forced retry is offered: no status is written back.    *)
NoEdits == edited = {} /\ \A p \in Procs : pc[p] \notin {"reset", "update"}

LEMMA NeverEdited ==
  ASSUME "force" \notin Ops, "update" \notin Ops
  PROVE  Spec => [](edited = {})
<1>1. Init => NoEdits
  BY DEF Init, NoEdits
<1>2. TypeOK /\ NoEdits /\ [Next]_vars => NoEdits'
  <2> SUFFICES ASSUME TypeOK, NoEdits, [Next]_vars PROVE NoEdits'
    OBVIOUS
  <2>1. CASE Procs = {}
    <3>1. ClearQueue \/ CleanupOldActions \/ Crash \/ Tick \/ UNCHANGED vars
      BY <2>1 DEF Next, Procs
    <3> QED
      BY <2>1, <3>1 DEF NoEdits, ClearQueue, CleanupOldActions, Crash, Tick, vars,
                        history
  <2>2. CASE Procs # {}
    <3>1. edited' = {}
      BY <2>2, NextSteps DEF NoEdits, Procs
    <3>2. ASSUME NEW p \in Procs
          PROVE  pc'[p] \notin {"reset", "update"}
      <4>1. StepsTo(p)
        BY NextSteps
      <4> QED
        BY <4>1 DEF StepsTo, NoEdits, FinishLabel, ExecutorPCs
    <3> QED
      BY <3>1, <3>2 DEF NoEdits
  <2> QED
    BY <2>1, <2>2
<1>3. NoEdits => edited = {}
  BY DEF NoEdits
<1> QED
  BY <1>1, <1>2, <1>3, TypeCorrect, PTL DEF Spec

(* Whoever is not among Executors processes nothing.                         *)
NoManual ==
  /\ \A c \in Clients \ Executors :
       pc[c] \notin ExecutorPCs \cup {"reset"} /\ todo[c] = {}
  /\ \A j \in Janitors : pc[j] \notin ExecutorPCs \cup {"reset"}

LEMMA OnlyExecutors == Spec => []NoManual
<1>1. Init => NoManual
  BY DEF Init, NoManual, Procs, ExecutorPCs
<1>2. TypeOK /\ NoManual /\ [Next]_vars => NoManual'
  <2> SUFFICES ASSUME TypeOK, NoManual, [Next]_vars PROVE NoManual'
    OBVIOUS
  <2>1. ASSUME NEW c \in Clients \ Executors
        PROVE  pc'[c] \notin ExecutorPCs \cup {"reset"} /\ todo'[c] = {}
    <3>1. StepsTo(c) /\ c \notin Workers /\ c \notin Janitors
      BY NextSteps, TaskQueueAssumption DEF Procs
    <3>2. "process" \notin Ops /\ "force" \notin Ops
      BY DEF Executors
    <3> QED
      BY <3>1, <3>2 DEF StepsTo, NoManual, FinishLabel, ExecutorPCs
  <2>2. ASSUME NEW j \in Janitors
        PROVE  pc'[j] \notin ExecutorPCs \cup {"reset"}
    <3>1. StepsTo(j) /\ j \notin Workers
      BY NextSteps, TaskQueueAssumption DEF Procs
    <3>2. j \notin Clients
      BY TaskQueueAssumption
    <3> QED
      BY <3>1, <3>2 DEF StepsTo, NoManual, FinishLabel, ExecutorPCs
  <2> QED
    BY <2>1, <2>2 DEF NoManual
<1> QED
  BY <1>1, <1>2, TypeCorrect, PTL DEF Spec

(* A deployment that offers neither update nor forced retry keeps the        *)
(* promise of ActionLifecycle, however many goroutines process.              *)
THEOREM LifecycleWithoutEdits ==
  ASSUME "force" \notin Ops, "update" \notin Ops
  PROVE  Spec => KeepsLifecycle
  BY NeverEdited, LifecycleKept, PTL

LEMMA ExecutorsAreCrew == Executors \in Crews
<1>1. Executors \subseteq Procs \ Janitors
  BY TaskQueueAssumption DEF Executors, Procs
<1>2. IsFiniteSet(Executors)
  BY FinitelyMany, FS_EmptySet, FS_Union DEF Executors
<1> QED
  BY <1>1, <1>2 DEF Crews

(* However many goroutines process, max_retries and their number bound the   *)
(* runs of every action, updates, cancellations, deletions, failures and     *)
(* crashes included.                                                         *)
THEOREM RetryBudgetHolds == Spec => []RetryBudget
<1>1. PICK E \in Crews : E = Executors
  BY ExecutorsAreCrew
<1>2. NoManual => Only(E)
  BY <1>1 DEF NoManual, Only, Procs, Executors
<1>3. Spec /\ []Only(E) => []RunsBounded(E)
  BY CrewBudget
<1>4. RunsBounded(E) => RetryBudget
  BY <1>1 DEF RunsBounded, RetryBudget
<1> QED
  BY <1>2, <1>3, <1>4, OnlyExecutors, PTL

(* One worker and no manual processing: an action runs once, and max_retries *)
(* times more.                                                               *)
THEOREM OneWorkerBudget ==
  ASSUME NEW w, Workers = {w}, "process" \notin Ops, "force" \notin Ops
  PROVE  Spec => [](\A id \in Ids \ edited : runs[id] <= MaxRetries + 1)
<1>1. Executors = {w}
  BY DEF Executors
<1>2. Cardinality({w}) = 1
  BY FS_Singleton
<1>3. RetryBudget => \A id \in Ids \ edited : runs[id] <= MaxRetries + 1
  BY <1>1, <1>2 DEF RetryBudget
<1> QED
  BY <1>3, RetryBudgetHolds, PTL
=============================================================================
