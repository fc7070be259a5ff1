----------------------------- MODULE TaskQueue -----------------------------
(* The action queue: the rows of queued_actions and action_dependencies, and  *)
(* the goroutines that read and write them.                                   *)
(*                                                                            *)
(*   Workers   QueueWorker.run, one action per poll                           *)
(*   Janitors  QueueProcessor.runCleanup, which expires overdue actions       *)
(*   Clients   HTTP request goroutines: enqueue (single and bulk), manual     *)
(*             processing, forced retry, update, cancel, delete, clear        *)
(*                                                                            *)
(* One step is one SQL statement, which SQLite executes atomically, together  *)
(* with the local computation that follows it.  A goroutine keeps the row it  *)
(* read in cur[p] (a *models.QueuedAction) and acts on it later: the row may  *)
(* have changed meanwhile.  Times are logical; 0 is SQL NULL.                 *)
EXTENDS Integers, FiniteSets, Sequences

CONSTANTS Workers, Clients, Janitors,
          MaxId,          \* bound: AUTOINCREMENT ids handed out
          MaxTime,        \* bound: the clock, and times computed from it, stop here
          MaxRuns,        \* bound: handler executions followed per action
          MaxRetries,     \* max_retries of the action types
          BackoffFactor,  \* retry_backoff_factor
          BackoffCap,     \* max_retry_backoff_ms, in ticks
          Bulks,          \* the enqueue requests clients may send
          Ops,            \* the other API operations clients may call
          EditStatuses, EditTimes, EditWeights,  \* values an update may set
          CallsMayFail,   \* a database call may return an error
          MayCrash        \* the process may be killed and started again

Procs == Workers \cup Clients \cup Janitors
Ids == 1..MaxId
NULL == 0

Claimable == {"pending", "retrying"}
Terminal == {"completed", "failed", "cancelled", "timeout"}
Statuses == Claimable \cup Terminal \cup {"processing", "paused"}

DependencyTypes == {"completion", "success", "failure"}
Link == [on : Nat, kind : DependencyTypes]
Request == [weight : Nat, start : Nat, deadline : Nat, handled : BOOLEAN,
            deps : SUBSET Link]
Bulk == [items : Seq(Request), sequential : BOOLEAN]

Row == [status : Statuses \cup {"absent"}, weight : Nat, retries : Nat,
        start : Nat, deadline : Nat, nextRetry : Nat, handled : BOOLEAN,
        created : Nat]
Absent == [status |-> "absent", weight |-> 0, retries |-> 0, start |-> NULL,
           deadline |-> NULL, nextRetry |-> NULL, handled |-> FALSE,
           created |-> NULL]

ASSUME TaskQueueAssumption ==
    /\ Workers \cap Clients = {} /\ Workers \cap Janitors = {}
    /\ Clients \cap Janitors = {}
    /\ MaxId \in Nat /\ MaxTime \in Nat /\ MaxRuns \in Nat
    /\ MaxRetries \in Nat
    /\ BackoffFactor \in Nat /\ BackoffCap \in Nat
    /\ Bulks \subseteq Bulk
    /\ \A b \in Bulks : b.items # << >>
    /\ EditStatuses \subseteq Statuses
    /\ EditTimes \subseteq Nat /\ EditWeights \subseteq Nat
    /\ CallsMayFail \in BOOLEAN /\ MayCrash \in BOOLEAN
ASSUME FinitelyMany == IsFiniteSet(Workers) /\ IsFiniteSet(Clients)

VARIABLES
    rows,       \* queued_actions, "absent" where there is no row
    lastId,     \* the AUTOINCREMENT counter
    deps,       \* action_dependencies: <<action, depends on, kind>>
    results,    \* action_results: <<action, attempt number>>
    now,        \* the wall clock
    pc, cur,    \* where each goroutine is, and the action it read
    todo,       \* the rest of the list a batch or a sweep read
    job,        \* the enqueue request a client is serving
    gate,       \* the "success" predecessors the last dependency query saw
    runs,       \* history: handler executions started per action
    succeeded,  \* history: actions whose handler returned Success
    edited      \* history: actions whose status an operator wrote back

table == <<rows, lastId, deps, results>>
locals == <<pc, cur, todo, job, gate>>
history == <<runs, succeeded, edited>>
vars == <<table, now, locals, history>>

Snapshot == [id : 0..MaxId, row : Row]
NoSnapshot == [id |-> 0, row |-> Absent]
Job == [items : Seq(Request), sequential : BOOLEAN, prev : 0..MaxId,
        links : SUBSET Link]
NoJob == [items |-> << >>, sequential |-> FALSE, prev |-> 0, links |-> {}]

ExecutorPCs == {"check", "claim", "execute", "unhandled", "succeed", "fail",
                "retry", "record"}
ClientPCs == {"insert", "link", "update", "cancel", "delete", "reset"}

(* The executor holds the action: it has claimed it and not yet written the  *)
(* outcome.                                                                  *)
HoldingPCs == {"execute", "unhandled", "succeed", "fail", "retry"}
Holds(p, id) == pc[p] \in HoldingPCs /\ cur[p].id = id

Init ==
    /\ rows = [id \in Ids |-> Absent]
    /\ lastId = 0 /\ deps = {} /\ results = {} /\ now = 1
    /\ pc = [p \in Procs |-> "idle"]
    /\ cur = [p \in Procs |-> NoSnapshot]
    /\ todo = [p \in Procs |-> {}]
    /\ job = [p \in Procs |-> NoJob]
    /\ gate = [p \in Procs |-> {}]
    /\ runs = [id \in Ids |-> 0] /\ succeeded = {} /\ edited = {}

-----------------------------------------------------------------------------
(* The database calls.                                                       *)

Present(id) == id \in Ids /\ rows[id].status # "absent"
Snap(id) == [id |-> id, row |-> rows[id]]

(* UPDATE queued_actions SET ... WHERE id = ?: a missing row is no error.    *)
Store(id, row) ==
    rows' = IF Present(id) THEN [rows EXCEPT ![id] = row] ELSE rows

UpdateActionStatus(id, status) == Store(id, [rows[id] EXCEPT !.status = status])
CompleteAlways(id, success) ==       \* mutant: success is ignored
    UpdateActionStatus(id, "completed")
CompleteAction(id, success) ==
    UpdateActionStatus(id, IF success THEN "completed" ELSE "failed")

(* The WHERE clause of MarkActionAsProcessing, on the row as it is now.      *)
StillPresent(id) == Present(id)      \* mutant: no status in the WHERE clause
StillUnfinished(id) ==               \* mutant: any status but the two obvious
    Present(id) /\ rows[id].status \notin {"processing", "completed"}
StillClaimable(id) == rows[id].status \in Claimable

(* DELETE with its ON DELETE CASCADE, which needs foreign keys to be on: they *)
(* are on the pooled connection the PRAGMA ran on, and on no other.          *)
DeleteRows(ids) ==
    /\ rows' = [id \in Ids |-> IF id \in ids THEN Absent ELSE rows[id]]
    /\ \/ /\ deps' = {d \in deps : d[1] \notin ids /\ d[2] \notin ids}
          /\ results' = {r \in results : r[1] \notin ids}
       \/ UNCHANGED <<deps, results>>

(* The join with queued_actions: a dependency on a deleted row is met.       *)
UnmetUntilFinished(d) ==             \* mutant: every kind is "completion"
    Present(d[2]) /\ rows[d[2]].status \notin Terminal
UnmetUntilCompleted(d) ==            \* mutant: every kind is "success"
    Present(d[2]) /\ rows[d[2]].status # "completed"
Unmet(d) ==
    LET status == rows[d[2]].status IN
    /\ Present(d[2])
    /\ \/ d[3] = "completion" /\ status \notin Terminal
       \/ d[3] = "success" /\ status # "completed"
       \/ d[3] = "failure" /\ status \notin Terminal \ {"completed"}
CheckDependenciesMet(id) == \A d \in deps : d[1] = id => ~Unmet(d)
SuccessPredecessors(id) ==
    {b \in Ids : <<id, b, "success">> \in deps /\ Present(b)}

(* GetNextActionsToProcess with LIMIT 1: by weight, then by created_at, a     *)
(* CURRENT_TIMESTAMP of whole seconds.  Of rows that tie any may be returned. *)
Ready(id) ==
    /\ rows[id].status \in Claimable
    /\ rows[id].start <= now /\ rows[id].nextRetry <= now
    /\ rows[id].deadline = NULL \/ rows[id].deadline > now
Precedes(a, b) ==
    \/ rows[a].weight > rows[b].weight
    \/ rows[a].weight = rows[b].weight /\ rows[a].created < rows[b].created
NextToProcess(id) ==
    /\ Ready(id)
    /\ \A other \in Ids : Ready(other) => ~Precedes(other, id)

(* ShouldExecuteNow and IsOverdue look at the row as it was read.            *)
IsOverdue(row) == row.deadline # NULL /\ row.deadline < now
ShouldExecuteNow(row) ==
    row.start <= now /\ row.nextRetry <= now /\ ~IsOverdue(row)
CanRetryOnceMore(row) == row.retries <= MaxRetries   \* mutant: off by one
CanRetry(row) == row.retries < MaxRetries

Backoff(n) ==
    IF BackoffFactor ^ (n - 1) \in 0..BackoffCap
    THEN BackoffFactor ^ (n - 1) ELSE BackoffCap
RetryAt(n) ==
    IF now + Backoff(n) \in 0..MaxTime THEN now + Backoff(n) ELSE MaxTime

(* ScheduleRetry's UPDATE of a row; attempt counts from the caller's copy.   *)
RetriedUncounted(row, attempt) ==    \* mutant: retry_count is not incremented
    [[row EXCEPT !.nextRetry = RetryAt(attempt)] EXCEPT !.status = "retrying"]
Retried(row, attempt) ==
    LET counted == [row EXCEPT !.retries = @ + 1]
        due == [counted EXCEPT !.nextRetry = RetryAt(attempt)]
    IN  [due EXCEPT !.status = "retrying"]

-----------------------------------------------------------------------------
(* Control flow of a goroutine.                                              *)

Idle(p) == pc[p] = "idle"
Goto(p, label) == pc' = [pc EXCEPT ![p] = label]

(* Begin work on the action just read.                                       *)
Begin(p, label, snapshot) ==
    /\ Goto(p, label)
    /\ cur' = [cur EXCEPT ![p] = snapshot]

(* Done with the current action: go on with the next one of the list, newest *)
(* first (ORDER BY created_at DESC), or return.                              *)
Finish(p) ==
    /\ IF todo[p] = {}
       THEN /\ Begin(p, "idle", NoSnapshot)
            /\ UNCHANGED todo
       ELSE \E s \in todo[p] :
              /\ \A t \in todo[p] : t.row.created <= s.row.created
              /\ Begin(p, IF p \in Janitors THEN "sweep" ELSE "check", s)
              /\ todo' = [todo EXCEPT ![p] = @ \ {s}]
    /\ gate' = [gate EXCEPT ![p] = {}]
    /\ UNCHANGED job

-----------------------------------------------------------------------------
(* processAction, run by workers and by the clients of ProcessManually.      *)

(* QueueWorker.processNextAction                                             *)
Fetch(w) ==
    /\ Idle(w)
    /\ \E id \in Ids : NextToProcess(id) /\ Begin(w, "check", Snap(id))
    /\ UNCHANGED <<table, now, todo, job, gate, history>>

(* CheckDependenciesMet, then ShouldExecuteNow on the row read earlier.      *)
Check(p) ==
    /\ pc[p] = "check"
    /\ IF CheckDependenciesMet(cur[p].id) /\ ShouldExecuteNow(cur[p].row)
       THEN /\ Goto(p, "claim")
            /\ gate' = [gate EXCEPT ![p] = SuccessPredecessors(cur[p].id)]
            /\ UNCHANGED <<cur, todo, job>>
       ELSE Finish(p)
    /\ UNCHANGED <<table, now, history>>

(* MarkActionAsProcessing, the one guarded UPDATE, and the handler lookup.   *)
MarkActionAsProcessing(p) ==
    LET id == cur[p].id IN
    /\ pc[p] = "claim" /\ runs[id] < MaxRuns
    /\ IF StillClaimable(id)
       THEN /\ UpdateActionStatus(id, "processing")
            /\ Goto(p, IF cur[p].row.handled THEN "execute" ELSE "unhandled")
            /\ runs' = IF cur[p].row.handled
                       THEN [runs EXCEPT ![id] = @ + 1] ELSE runs
            /\ UNCHANGED <<cur, todo, job, gate>>
       ELSE Finish(p) /\ UNCHANGED <<rows, runs>>
    /\ UNCHANGED <<lastId, deps, results, now, succeeded, edited>>

(* handler.Execute returns: success; no error but Success = FALSE; an error  *)
(* that asks for a retry; any other error.                                   *)
Execute(p) ==
    /\ pc[p] = "execute"
    /\ \/ /\ Goto(p, "succeed")
          /\ succeeded' = succeeded \cup {cur[p].id}
       \/ Goto(p, "fail") /\ UNCHANGED succeeded
       \/ /\ CanRetry(cur[p].row)
          /\ Goto(p, "retry")
          /\ UNCHANGED succeeded
    /\ UNCHANGED <<table, now, cur, todo, job, gate, runs, edited>>

(* CompleteAction: unconditional, whatever the row has become.               *)
Complete(p) ==
    /\ pc[p] \in {"succeed", "fail", "unhandled"}
    /\ CompleteAction(cur[p].id, pc[p] = "succeed")
    /\ Finish(p)
    /\ UNCHANGED <<lastId, deps, results, now, history>>

(* scheduleRetry: ScheduleRetry, equally unconditional, ...                  *)
ScheduleRetry(p) ==
    LET id == cur[p].id IN
    /\ pc[p] = "retry"
    /\ Store(id, Retried(rows[id], cur[p].row.retries + 1))
    /\ Goto(p, "record")
    /\ UNCHANGED <<lastId, deps, results, now, cur, todo, job, gate, history>>

(* ... then CreateActionResult, numbered from the row as it was read.        *)
RecordAttempt(p) ==
    /\ pc[p] = "record"
    /\ results' = IF Present(cur[p].id)
                  THEN results \cup {<<cur[p].id, cur[p].row.retries + 1>>}
                  ELSE results
    /\ Finish(p)
    /\ UNCHANGED <<rows, lastId, deps, now, history>>

-----------------------------------------------------------------------------
(* ProcessManually.                                                          *)

(* By filter: every row of the batch is read now and processed in turn.      *)
ProcessMatching(c) ==
    /\ Idle(c) /\ "process" \in Ops
    /\ \E ids \in SUBSET {id \in Ids : rows[id].status \in Claimable} :
         \E first \in ids :
           /\ \A other \in ids : rows[other].created <= rows[first].created
           /\ Begin(c, "check", Snap(first))
           /\ todo' = [todo EXCEPT ![c] = {Snap(id) : id \in ids \ {first}}]
    /\ UNCHANGED <<table, now, job, gate, history>>

(* By id, without and with ForceRetry.  A request with several ids does this *)
(* once per id and carries nothing from one to the next.                     *)
ProcessOne(c) ==
    /\ Idle(c) /\ "process" \in Ops
    /\ \E id \in Ids : Present(id) /\ Begin(c, "check", Snap(id))
    /\ UNCHANGED <<table, now, todo, job, gate, history>>

ForceRetry(c) ==
    /\ Idle(c) /\ "force" \in Ops
    /\ \E id \in Ids :
         /\ Present(id)
         /\ Begin(c, IF rows[id].status = "failed" THEN "reset" ELSE "check",
                  Snap(id))
    /\ UNCHANGED <<table, now, todo, job, gate, history>>

ResetFailed(c) ==
    /\ pc[c] = "reset"
    /\ UpdateActionStatus(cur[c].id, "pending")
    /\ edited' = edited \cup {cur[c].id}
    /\ Goto(c, "check")
    /\ UNCHANGED <<lastId, deps, results, now, cur, todo, job, gate, runs,
                   succeeded>>

-----------------------------------------------------------------------------
(* EnqueueAction and EnqueueBulkActions.                                     *)

StartEnqueue(c) ==
    /\ Idle(c)
    /\ \E b \in Bulks :
         job' = [job EXCEPT ![c] = [items |-> b.items, prev |-> 0, links |-> {},
                                    sequential |-> b.sequential]]
    /\ Goto(c, "insert")
    /\ UNCHANGED <<table, now, cur, todo, gate, history>>

(* The request goes on with its next item; last is the action created last.  *)
NextItem(c, last) ==
    LET rest == Tail(job[c].items)
        next == [items |-> rest, sequential |-> job[c].sequential,
                 prev |-> last, links |-> {}]
    IN
    /\ job' = [job EXCEPT ![c] = IF rest = << >> THEN NoJob ELSE next]
    /\ Begin(c, IF rest = << >> THEN "idle" ELSE "insert", NoSnapshot)
    /\ UNCHANGED <<todo, gate>>
AbandonRequest(c) ==
    /\ job' = [job EXCEPT ![c] = NoJob]
    /\ Begin(c, "idle", NoSnapshot)
    /\ UNCHANGED <<todo, gate>>

(* CreateQueuedAction: the row is visible before its dependencies are.       *)
InsertAction(c) ==
    LET item == Head(job[c].items)
        id == lastId + 1
        row == [status |-> "pending", weight |-> item.weight, retries |-> 0,
                start |-> item.start, deadline |-> item.deadline,
                nextRetry |-> NULL, handled |-> item.handled, created |-> now]
        links == item.deps \cup
                 (IF job[c].sequential /\ job[c].prev # 0
                  THEN {[on |-> job[c].prev, kind |-> "completion"]} ELSE {})
    IN
    /\ pc[c] = "insert" /\ lastId < MaxId
    /\ lastId' = id
    /\ rows' = [rows EXCEPT ![id] = row]
    /\ IF links = {}
       THEN NextItem(c, id)
       ELSE /\ Begin(c, "link", [id |-> id, row |-> row])
            /\ job' = [job EXCEPT ![c] = [job[c] EXCEPT !.links = links]]
            /\ UNCHANGED <<todo, gate>>
    /\ UNCHANGED <<deps, results, now, history>>

(* One dependency row is dealt with; after the last, the next item.          *)
Linked(c, link) ==
    LET left == [job[c] EXCEPT !.links = @ \ {link}] IN
    IF left.links = {}
    THEN NextItem(c, cur[c].id)
    ELSE /\ job' = [job EXCEPT ![c] = left]
         /\ UNCHANGED <<pc, cur, todo, gate>>

(* CreateActionDependency.  The constraints of action_dependencies turn an   *)
(* INSERT into an error that is logged and forgotten; a foreign key is       *)
(* enforced on some connections only, as for DeleteRows.                     *)
LinkAction(c) ==
    LET id == cur[c].id IN
    /\ pc[c] = "link"
    /\ \E link \in job[c].links :
         /\ \/ /\ id # link.on
               /\ \A kind \in DependencyTypes : <<id, link.on, kind>> \notin deps
               /\ deps' = deps \cup {<<id, link.on, link.kind>>}
            \/ /\ \/ id = link.on \/ ~Present(link.on) \/ ~Present(id)
                  \/ \E kind \in DependencyTypes : <<id, link.on, kind>> \in deps
               /\ UNCHANGED deps
         /\ Linked(c, link)
    /\ UNCHANGED <<rows, lastId, results, now, history>>

-----------------------------------------------------------------------------
(* The operations of an administrator: read, test the row read, write.       *)

ReadFor(c, op, allowed) ==
    /\ Idle(c) /\ op \in Ops
    /\ \E id \in Ids : rows[id].status \in allowed /\ Begin(c, op, Snap(id))
    /\ UNCHANGED <<table, now, todo, job, gate, history>>

UpdateActionRead(c) == ReadFor(c, "update", Statuses \ Terminal)
CancelActionRead(c) == ReadFor(c, "cancel", Statuses \ Terminal)
DeleteActionRead(c) == ReadFor(c, "delete", Terminal \cup {"pending"})

(* UpdateQueuedAction writes every column of the row read, status and        *)
(* retry_count included, with the edits on top.                              *)
UpdateActionWrite(c) ==
    LET old == cur[c].row IN
    /\ pc[c] = "update"
    /\ \E status \in EditStatuses \cup {old.status},
          weight \in EditWeights \cup {old.weight},
          start \in EditTimes \cup {old.start},
          deadline \in EditTimes \cup {old.deadline} :
         Store(cur[c].id,
               [status |-> status, weight |-> weight, retries |-> old.retries,
                start |-> start, deadline |-> deadline,
                nextRetry |-> old.nextRetry, handled |-> old.handled,
                created |-> old.created])
    /\ edited' = edited \cup {cur[c].id}
    /\ Finish(c)
    /\ UNCHANGED <<lastId, deps, results, now, runs, succeeded>>

CancelActionWrite(c) ==
    /\ pc[c] = "cancel"
    /\ UpdateActionStatus(cur[c].id, "cancelled")
    /\ Finish(c)
    /\ UNCHANGED <<lastId, deps, results, now, history>>

DeleteActionWrite(c) ==
    /\ pc[c] = "delete"
    /\ DeleteRows({cur[c].id})
    /\ Finish(c)
    /\ UNCHANGED <<lastId, now, history>>

(* ClearQueue: one DELETE with the caller's criteria, any status included.   *)
ClearQueue ==
    /\ "clear" \in Ops
    /\ \E ids \in SUBSET {id \in Ids : Present(id)} : DeleteRows(ids)
    /\ UNCHANGED <<lastId, now, locals, history>>

(* CleanupOldActions: terminal rows past their retention.                    *)
CleanupOldActions ==
    /\ "cleanup" \in Ops
    /\ \E ids \in SUBSET {id \in Ids : rows[id].status \in Terminal} :
         DeleteRows(ids)
    /\ UNCHANGED <<lastId, now, locals, history>>

-----------------------------------------------------------------------------
(* performCleanup: read the claimable rows, then expire the overdue ones.    *)

ReadForCleanup(j) ==
    LET ids == {id \in Ids : rows[id].status \in Claimable} IN
    /\ Idle(j) /\ ids # {}
    /\ \E first \in ids :
         /\ \A other \in ids : rows[other].created <= rows[first].created
         /\ Begin(j, "sweep", Snap(first))
         /\ todo' = [todo EXCEPT ![j] = {Snap(id) : id \in ids \ {first}}]
    /\ UNCHANGED <<table, now, job, gate, history>>

ExpireOverdue(j) ==
    /\ pc[j] = "sweep"
    /\ IF IsOverdue(cur[j].row)
       THEN UpdateActionStatus(cur[j].id, "timeout") ELSE UNCHANGED rows
    /\ Finish(j)
    /\ UNCHANGED <<lastId, deps, results, now, history>>

-----------------------------------------------------------------------------
(* The environment.                                                          *)

(* A database call fails (SQLITE_BUSY, or the request's context is cancelled *)
(* because the client went away): every caller logs it and goes on.          *)
CallFails(p) ==
    /\ CallsMayFail
    /\ CASE pc[p] = "insert" ->
              \/ AbandonRequest(p)
              \/ ~job[p].sequential /\ NextItem(p, job[p].prev)
         [] pc[p] = "link" -> \E link \in job[p].links : Linked(p, link)
         [] pc[p] \notin {"idle", "execute", "insert", "link"} -> Finish(p)
         [] OTHER -> FALSE
    /\ UNCHANGED <<table, now, history>>

CrashRequeues ==   \* mutant: the restart makes what was processing pending
    /\ MayCrash
    /\ rows' = [id \in Ids |-> IF rows[id].status = "processing"
                 THEN [rows[id] EXCEPT !.status = "pending"] ELSE rows[id]]
    /\ pc' = [p \in Procs |-> "idle"]
    /\ cur' = [p \in Procs |-> NoSnapshot]
    /\ todo' = [p \in Procs |-> {}]
    /\ job' = [p \in Procs |-> NoJob]
    /\ gate' = [p \in Procs |-> {}]
    /\ UNCHANGED <<lastId, deps, results, now, history>>

(* The process dies; Start neither requeues nor fails what was processing.   *)
Crash ==
    /\ MayCrash
    /\ pc' = [p \in Procs |-> "idle"]
    /\ cur' = [p \in Procs |-> NoSnapshot]
    /\ todo' = [p \in Procs |-> {}]
    /\ job' = [p \in Procs |-> NoJob]
    /\ gate' = [p \in Procs |-> {}]
    /\ UNCHANGED <<table, now, history>>

Tick ==
    /\ now < MaxTime
    /\ now' = now + 1
    /\ UNCHANGED <<table, locals, history>>

ProcessAction(p) ==
    \/ Check(p) \/ MarkActionAsProcessing(p) \/ Execute(p) \/ Complete(p)
    \/ ScheduleRetry(p) \/ RecordAttempt(p)

WorkerStep(w) == Fetch(w) \/ ProcessAction(w)
JanitorStep(j) == ReadForCleanup(j) \/ ExpireOverdue(j)
EnqueueStep(c) == InsertAction(c) \/ LinkAction(c)
AdminStep(c) ==
    \/ UpdateActionRead(c) \/ UpdateActionWrite(c)
    \/ CancelActionRead(c) \/ CancelActionWrite(c)
    \/ DeleteActionRead(c) \/ DeleteActionWrite(c)
ClientStep(c) ==
    \/ ProcessMatching(c) \/ ProcessOne(c) \/ ForceRetry(c) \/ ResetFailed(c)
    \/ ProcessAction(c) \/ StartEnqueue(c) \/ EnqueueStep(c) \/ AdminStep(c)

Next ==
    \/ \E w \in Workers : WorkerStep(w)
    \/ \E c \in Clients : ClientStep(c)
    \/ \E j \in Janitors : JanitorStep(j)
    \/ \E p \in Procs : CallFails(p)
    \/ ClearQueue \/ CleanupOldActions \/ Crash \/ Tick

Spec == Init /\ [][Next]_vars

(* A worker polls on a ticker and handlers return; a request goroutine that  *)
(* has started runs on; time passes.                                         *)
Fairness ==
    /\ \A w \in Workers : WF_vars(Fetch(w)) /\ WF_vars(ProcessAction(w))
    /\ \A c \in Clients : WF_vars(EnqueueStep(c)) /\ WF_vars(ProcessAction(c))
    /\ WF_vars(Tick)

FairSpec == Spec /\ Fairness

-----------------------------------------------------------------------------
(* Properties.                                                               *)

(* The tables and the goroutines keep their shapes, and nobody works on an   *)
(* id that was never handed out.                                             *)
TablesOK ==
    /\ rows \in [Ids -> Row]
    /\ lastId \in 0..MaxId
    /\ \A id \in Ids : id > lastId => rows[id] = Absent
    /\ deps \subseteq Ids \X Nat \X DependencyTypes
    /\ results \subseteq Ids \X Nat
    /\ now \in Nat
LocalsOK ==
    /\ pc \in [Procs -> {"idle", "sweep"} \cup ExecutorPCs \cup ClientPCs]
    /\ cur \in [Procs -> Snapshot]
    /\ \A p \in Procs : cur[p].id <= lastId
    /\ \A p \in Procs : pc[p] \notin {"idle", "insert"} => cur[p].id # 0
    /\ todo \in [Procs -> SUBSET Snapshot]
    /\ \A p \in Procs : \A s \in todo[p] : s.id \in 1..lastId
    /\ job \in [Procs -> Job]
    /\ \A p \in Procs : pc[p] \in {"insert", "link"} => job[p].items # << >>
    /\ gate \in [Procs -> SUBSET Ids]
HistoryOK ==
    /\ runs \in [Ids -> Nat]
    /\ \A id \in Ids : id > lastId => runs[id] = 0
    /\ succeeded \subseteq 1..lastId
    /\ edited \subseteq 1..lastId
TypeOK == TablesOK /\ LocalsOK /\ HistoryOK

(* Two goroutines never hold one action at the same time, whatever stale rows *)
(* workers and manual requests bring to MarkActionAsProcessing, unless an    *)
(* operator wrote the action's status back (update, forced retry).           *)
ExclusiveExecution ==
    \A p, q \in Procs, id \in Ids :
        Holds(p, id) /\ Holds(q, id) /\ p # q => id \in edited

(* A handler that has succeeded is not run again for the same action: not    *)
(* after a crash or a failed CompleteAction, and not when a cancellation or  *)
(* an expiry overwrites the completed row.                                   *)
SucceedsOnce ==
    \A id \in succeeded \ edited :
        /\ rows[id].status \notin Claimable
        /\ \A p \in Procs : Holds(p, id) => pc[p] = "succeed"

(* A completed row stands for a handler that returned success.               *)
CompletedIsReal ==
    \A id \in Ids \ edited : rows[id].status = "completed" => id \in succeeded

(* retry_count accounts for every run of the handler and every recorded      *)
(* attempt, through stale rows, crashes and failed calls.                    *)
RetryCountAccounts ==
    /\ \A id \in Ids \ edited : Present(id) => runs[id] <= rows[id].retries + 1
    /\ \A r \in results :
         r[1] \notin edited /\ Present(r[1]) => r[2] <= rows[r[1]].retries

(* An action is held only after the handler of each of its "success"         *)
(* predecessors, as its dependency query saw them, has succeeded; what       *)
(* happens to the predecessor's row afterwards cannot undo that.             *)
SuccessGate ==
    \A p \in Procs :
        pc[p] \in HoldingPCs => gate[p] \subseteq succeeded \cup edited

(* The strengthening that makes the four properties above inductive.         *)
HeldNotClaimable ==
    \A p \in Procs, id \in Ids \ edited :
        Holds(p, id) => rows[id].status \notin Claimable
SuccessNoted ==
    \A p \in Procs : pc[p] = "succeed" => cur[p].id \in succeeded
ClaimableRunsCounted ==
    \A id \in Ids \ edited :
        rows[id].status \in Claimable => runs[id] <= rows[id].retries
SnapshotsBehind ==
    \A p \in Procs : \A s \in todo[p] \cup {cur[p]} :
        s.id \notin edited /\ Present(s.id) => s.row.retries <= rows[s.id].retries
RetryCounted ==
    \A p \in Procs :
        pc[p] = "record" /\ cur[p].id \notin edited /\ Present(cur[p].id)
        => cur[p].row.retries + 1 <= rows[cur[p].id].retries
ResultsKnown == \A r \in results : r[1] <= lastId
GateChecked ==
    \A p \in Procs : pc[p] = "claim" => gate[p] \subseteq succeeded \cup edited

SafeInv ==
    /\ ExclusiveExecution /\ SucceedsOnce /\ CompletedIsReal
    /\ RetryCountAccounts /\ SuccessGate
    /\ HeldNotClaimable /\ SuccessNoted /\ ClaimableRunsCounted
    /\ SnapshotsBehind /\ RetryCounted /\ ResultsKnown /\ GateChecked

(* What the table says of an action, and whether somebody runs it.           *)
State(id) ==
    CASE rows[id].status \in Claimable -> "queued"
      [] rows[id].status \in Terminal -> "ended"
      [] rows[id].status = "absent" -> IF id > lastId THEN "none" ELSE "removed"
      [] OTHER -> "busy"
Held(id) == \E p \in Procs : Holds(p, id)
Lifecycle == INSTANCE ActionLifecycle
                 WITH state <- [id \in Ids |-> State(id)],
                      running <- {id \in Ids : Held(id)}, won <- succeeded

(* As long as no operator writes statuses back, the queue keeps the promise  *)
(* of ActionLifecycle: whatever stale rows the goroutines act on, an action  *)
(* has one runner, is not started again once it has succeeded, and leaves an *)
(* end only by the retry of a handler that was running when the end was      *)
(* written.                                                                  *)
KeepsLifecycle == Lifecycle!Spec

(* max_retries bounds the runs of an action's handler, up to one run for     *)
(* every goroutine beyond the first that may process: each can hold a copy   *)
(* read before the last retry was counted.                                   *)
Executors ==
    Workers \cup (IF Ops \cap {"process", "force"} # {} THEN Clients ELSE {})
RetryBudget ==
    \A id \in Ids \ edited : runs[id] <= MaxRetries + Cardinality(Executors)

(* The polls stop short: the row they may return waits for an action that    *)
(* has not ended, and returns with every poll.                               *)
Ended(id) == rows[id].status \in Terminal \cup {"absent"}
Waits(id) == \E d \in deps : d[1] = id /\ Present(d[2]) /\ ~Ended(d[2])
Clogged == \E id \in Ids : NextToProcess(id) /\ Waits(id)

(* An action that waits for the completion of others, or for nothing, comes  *)
(* to an end, unless the head of the queue is clogged for good: by an action *)
(* of at least its weight that waits for one behind it.                      *)
WaitsForCompletion(id) == \A d \in deps : d[1] = id => d[3] = "completion"
AllFinish ==
    []<>~Clogged =>
      \A id \in Ids : Present(id) /\ WaitsForCompletion(id) ~>
                       Ended(id) \/ ~WaitsForCompletion(id)
=============================================================================
