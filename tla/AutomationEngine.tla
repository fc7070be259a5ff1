-------------------------- MODULE AutomationEngine --------------------------
(* The automation engine at work: cron jobs, the event loop, the execution    *)
(* queue and its workers, rule tests from the API, and the contexts by which  *)
(* executions are cancelled.  Its rules and cron entries are AutomationRules. *)
(*                                                                            *)
(*   jobs    executeTrigger, one goroutine per firing of a cron entry         *)
(*   evals   goroutines of handleEvent that are about to enqueue, per rule    *)
(*   Workers and Testers   worker.start and TestRule, both in executeRule     *)
(*   mu      ae.mu: Stop, EnableRule and DisableRule hold it over more steps  *)
(*           than one, all other sections are short and are one step each     *)
(*                                                                            *)
(* Conditions and actions of a rule are its execution ("exec"), which ends in *)
(* any way.  Execution statistics are left out.                               *)
EXTENDS Naturals, Sequences, FiniteSets

CONSTANTS Bodies, Reposted, MaxObjs, MaxEntries,   \* see AutomationRules
          NumWorkers,  \* config.Workers
          NumTesters,  \* API goroutines that call TestRule
          QueueSize,   \* config.QueueSize
          EventCap,    \* capacity of the scheduler's event channel
          MaxFirings,  \* bound: firings of cron entries
          MaxTests,    \* bound: calls of TestRule
          MayStop      \* the server may shut down

VARIABLES heap, rules, sched, stats,                 \* see AutomationRules
          marked,  \* the rule objects whose Status is running
          mu,      \* the holder of ae.mu, and the rule it works on
          stop,    \* how far Stop is: no, jobs, workers, done
          jobs, fired,
          events,  \* the number of events in the scheduler's channel
          evals,
          queue,   \* executionQueue
          procs,   \* the locals of workers and testers, and (history) the object
                   \* their rule had when they made their context
          tests,
          ctxs     \* every ExecutionContext made, and whether the manager has it

Rules == INSTANCE AutomationRules
ruleVars == <<heap, rules, sched, stats>>
timerVars == <<jobs, fired, events, evals>>
runVars == <<procs, marked, tests>>
vars == <<ruleVars, timerVars, runVars, mu, stop, queue, ctxs>>

Workers == 1..NumWorkers
Testers == (NumWorkers + 1)..(NumWorkers + NumTesters)
Procs == Workers \cup Testers
RuleIds == Rules!RuleIds
NoRule == "-"
Background == 0  \* the context that is never cancelled; firing n has context n

ASSUME AutomationEngineAssumption ==
    /\ Bodies \subseteq Rules!AutomationRule /\ IsFiniteSet(Bodies)
    /\ Reposted \subseteq RuleIds
    /\ MaxObjs \in Nat /\ MaxEntries \in Nat
    /\ NumWorkers \in Nat /\ NumTesters \in Nat
    /\ QueueSize \in Nat /\ EventCap \in Nat
    /\ MaxFirings \in Nat /\ MaxTests \in Nat
    /\ MayStop \in BOOLEAN
    /\ NoRule \notin RuleIds

Free == [by |-> "none", rule |-> NoRule]
Idle == [pc |-> "idle", rule |-> NoRule, parent |-> Background, obj |-> 0, ctx |-> 0,
         had |-> 0]
Busy == {"check", "mark", "exec"}

Init ==
    /\ Rules!Init
    /\ marked = {} /\ mu = Free /\ stop = "no"
    /\ jobs = {} /\ fired = 0 /\ events = 0
    /\ evals = [r \in RuleIds |-> 0]
    /\ queue = << >> /\ ctxs = << >>
    /\ procs = [p \in Procs |-> Idle] /\ tests = 0

-----------------------------------------------------------------------------
(* Execution contexts.  A context made from a firing's ends with its job.     *)
Cancelled(c) ==
    \/ ctxs[c].cancelled
    \/ ctxs[c].parent # Background /\ \A j \in jobs : j.n # ctxs[c].parent
InMap == {c \in DOMAIN ctxs : ctxs[c].inMap}
NewContext(p, manual) ==
    [rule |-> procs[p].rule, parent |-> procs[p].parent, manual |-> manual,
     cancelled |-> FALSE, inMap |-> TRUE]
Drop(set) ==
    [c \in DOMAIN ctxs |->
        IF c \in set THEN [ctxs[c] EXCEPT !.cancelled = TRUE, !.inMap = FALSE]
        ELSE ctxs[c]]
Forget(set) ==   \* mutant: the contexts are deleted but not cancelled
    [c \in DOMAIN ctxs |->
        IF c \in set THEN [ctxs[c] EXCEPT !.inMap = FALSE] ELSE ctxs[c]]
ForgetContextsForRule(r) == ctxs' = Forget({c \in InMap : ctxs[c].rule = r})
CancelContextsForRule(r) == ctxs' = Drop({c \in InMap : ctxs[c].rule = r})

ForgetExpiredContexts ==   \* mutant: old contexts are not cancelled
    /\ \E old \in {{}} \cup {{c} : c \in InMap} :
          ctxs' = Forget(old \cup {c \in InMap : Cancelled(c)})
    /\ UNCHANGED <<ruleVars, timerVars, runVars, mu, stop, queue>>
(* cleanupRoutine, every five minutes: what is cancelled goes, and what is    *)
(* older than half an hour (here at most one a time, any).                    *)
CleanupExpiredContexts ==
    /\ \E old \in {{}} \cup {{c} : c \in InMap} :
          ctxs' = Drop(old \cup {c \in InMap : Cancelled(c)})
    /\ UNCHANGED <<ruleVars, timerVars, runVars, mu, stop, queue>>

-----------------------------------------------------------------------------
(* Rules, from the API.                                                       *)
AddRule(b) ==
    /\ mu = Free
    /\ Rules!AddRule(b)
    /\ UNCHANGED <<timerVars, runVars, mu, stop, queue, ctxs>>

UpdateRule(b) ==
    /\ mu = Free
    /\ Rules!UpdateRule(b)
    /\ CancelContextsForRule(b.id)
    /\ UNCHANGED <<timerVars, runVars, mu, stop, queue>>

RemoveRule(r) ==
    /\ mu = Free
    /\ Rules!RemoveRule(r)
    /\ CancelContextsForRule(r)
    /\ UNCHANGED <<timerVars, runVars, mu, stop, queue>>

(* Executions read Enabled without the lock, so they see it change before     *)
(* DisableRule cancels the contexts and while EnableRule sets up triggers.    *)
DisableRule(r) ==
    /\ mu = Free
    /\ Rules!DisableRule(r)
    /\ mu' = [by |-> "disable", rule |-> r]
    /\ UNCHANGED <<timerVars, runVars, stop, queue, ctxs>>
DisableCancel ==
    /\ mu.by = "disable"
    /\ CancelContextsForRule(mu.rule)
    /\ mu' = Free
    /\ UNCHANGED <<ruleVars, timerVars, runVars, stop, queue>>

EnableRule(r) ==
    /\ mu = Free
    /\ rules[r] # Rules!NoObj /\ ~Rules!ObjOf(r).enabled
    /\ sched.next + Len(Rules!ObjOf(r).triggers) <= MaxEntries
    /\ heap' = [heap EXCEPT ![rules[r]] = Rules!Switched(@, TRUE)]
    /\ mu' = [by |-> "enable", rule |-> r]
    /\ UNCHANGED <<rules, sched, stats, timerVars, runVars, stop, queue, ctxs>>
EnableTriggersAnyway ==   \* mutant: a failing set-up leaves the rule enabled
    /\ mu.by = "enable"
    /\ mu' = Free
    /\ LET o == rules[mu.rule]
       IN  /\ sched' = Rules!SetupTriggers(sched, o, heap[o])
           /\ stats' = Rules!Count(rules, heap)
    /\ UNCHANGED <<heap, rules, timerVars, runVars, stop, queue, ctxs>>
EnableTriggers ==
    /\ mu.by = "enable"
    /\ mu' = Free
    /\ LET o == rules[mu.rule]
       IN  /\ sched' = Rules!SetupTriggers(sched, o, heap[o])
           /\ IF Rules!SetupFails(heap[o])
              THEN heap' = [heap EXCEPT ![o] = Rules!Switched(@, FALSE)] /\ UNCHANGED stats
              ELSE UNCHANGED heap /\ stats' = Rules!Count(rules, heap)
    /\ UNCHANGED <<rules, timerVars, runVars, stop, queue, ctxs>>

-----------------------------------------------------------------------------
(* Firings.  The queue and the event channel are buffered and sent to without *)
(* blocking: what does not fit is dropped.                                    *)
Request(r, parent) == [rule |-> r, parent |-> parent]
Offer(request) ==
    queue' = IF Len(queue) < QueueSize THEN Append(queue, request) ELSE queue
Goto(j, pc) == jobs' = (jobs \ {j}) \cup {[j EXCEPT !.pc = pc]}

(* cron starts a job, unless the entry's last one still runs.                 *)
Fire(entry) ==
    /\ stop = "no" /\ fired < MaxFirings
    /\ \A j \in jobs : j.entry # entry.id
    /\ fired' = fired + 1
    /\ jobs' = jobs \cup {[n |-> fired', entry |-> entry.id, rule |-> entry.rule,
                           pc |-> "event"]}
    /\ UNCHANGED <<ruleVars, runVars, events, evals, mu, stop, queue, ctxs>>

(* The job needs the scheduler's lock first, which Scheduler.Stop holds while *)
(* it waits for the jobs.                                                     *)
SendEvent(j) ==
    /\ j.pc = "event" /\ stop # "jobs"
    /\ events' = IF events < EventCap THEN events + 1 ELSE events
    /\ Goto(j, "handler")
    /\ UNCHANGED <<ruleVars, runVars, fired, evals, mu, stop, queue, ctxs>>

CallHandler(j) ==
    /\ j.pc = "handler"
    /\ Offer(Request(j.rule, j.n))
    /\ Goto(j, "return")
    /\ UNCHANGED <<ruleVars, runVars, fired, events, evals, mu, stop, ctxs>>

(* The deferred cancel: the request's context ends, wherever the request is.  *)
JobReturn(j) ==
    /\ j.pc = "return"
    /\ jobs' = jobs \ {j}
    /\ UNCHANGED <<ruleVars, runVars, fired, events, evals, mu, stop, queue, ctxs>>

(* Any time_trigger event matches every time trigger of every enabled rule.   *)
HandleEvent ==
    /\ events > 0 /\ mu = Free
    /\ events' = events - 1
    /\ evals' = [r \in RuleIds |->
                   IF rules[r] # Rules!NoObj /\ Rules!ObjOf(r).enabled
                   THEN evals[r] + Len(Rules!ObjOf(r).triggers) ELSE evals[r]]
    /\ UNCHANGED <<ruleVars, runVars, jobs, fired, mu, stop, queue, ctxs>>

EnqueueMatch(r) ==
    /\ evals[r] > 0
    /\ evals' = [evals EXCEPT ![r] = @ - 1]
    /\ Offer(Request(r, Background))
    /\ UNCHANGED <<ruleVars, runVars, jobs, fired, events, mu, stop, ctxs>>

-----------------------------------------------------------------------------
(* Executions.                                                                *)
Take(w) ==
    /\ procs[w].pc = "idle" /\ queue # << >>
    /\ procs' = [procs EXCEPT ![w] = [Idle EXCEPT !.pc = "lookup",
                     !.rule = Head(queue).rule, !.parent = Head(queue).parent]]
    /\ queue' = Tail(queue)
    /\ UNCHANGED <<ruleVars, timerVars, marked, tests, mu, stop, ctxs>>

LookupOrQuit(w) ==   \* mutant: a worker returns when the rule is gone
    /\ procs[w].pc = "lookup" /\ mu = Free
    /\ LET o == rules[procs[w].rule]
       IN  procs' = [procs EXCEPT ![w] = IF o = Rules!NoObj THEN [Idle EXCEPT !.pc = "stopped"]
                                         ELSE [@ EXCEPT !.pc = "create", !.obj = o]]
    /\ UNCHANGED <<ruleVars, timerVars, marked, tests, mu, stop, queue, ctxs>>
(* The rule is looked up under the read lock and used after it.               *)
Lookup(w) ==
    /\ procs[w].pc = "lookup" /\ mu = Free
    /\ LET o == rules[procs[w].rule]
       IN  procs' = [procs EXCEPT ![w] = IF o = Rules!NoObj THEN Idle
                                         ELSE [@ EXCEPT !.pc = "create", !.obj = o]]
    /\ UNCHANGED <<ruleVars, timerVars, marked, tests, mu, stop, queue, ctxs>>

TestRule(t, r) ==
    /\ procs[t].pc = "idle" /\ mu = Free /\ tests < MaxTests
    /\ rules[r] # Rules!NoObj
    /\ procs' = [procs EXCEPT ![t] = [Idle EXCEPT !.pc = "create", !.rule = r,
                                                  !.obj = rules[r]]]
    /\ tests' = tests + 1
    /\ UNCHANGED <<ruleVars, timerVars, marked, mu, stop, queue, ctxs>>

(* A worker makes two contexts: the first is the one it will remove, the      *)
(* second, with the timeout, is the one it executes with.                     *)
CreateContext(p) ==
    /\ procs[p].pc = "create"
    /\ ctxs' = IF p \in Workers
               THEN ctxs \o <<NewContext(p, FALSE), NewContext(p, FALSE)>>
               ELSE Append(ctxs, NewContext(p, TRUE))
    /\ procs' = [procs EXCEPT ![p].pc = "check", ![p].ctx = Len(ctxs'),
                              ![p].had = rules[procs[p].rule]]
    /\ UNCHANGED <<ruleVars, timerVars, marked, tests, mu, stop, queue>>

LeaveUncancelled(p) ==   \* mutant: the timeout context is not cancelled
    /\ procs' = [procs EXCEPT ![p] = Idle]
    /\ ctxs' = IF p \in Workers THEN Drop({procs[p].ctx - 1}) ELSE ctxs
(* The deferred calls of processRequest; TestRule has none.                   *)
Leave(p) ==
    /\ procs' = [procs EXCEPT ![p] = Idle]
    /\ ctxs' = IF p \in Workers
               THEN [Drop({procs[p].ctx - 1}) EXCEPT ![procs[p].ctx].cancelled = TRUE]
               ELSE ctxs

CanExecute(o) == heap[o].enabled /\ (heap[o].mode = "single" => o \notin marked)

(* CanExecute reads Enabled and Status; Status is written in the next step.   *)
Check(p) ==
    /\ procs[p].pc = "check"
    /\ IF CanExecute(procs[p].obj)
       THEN procs' = [procs EXCEPT ![p].pc = "mark"] /\ UNCHANGED ctxs
       ELSE Leave(p)
    /\ UNCHANGED <<ruleVars, timerVars, marked, tests, mu, stop, queue>>

Mark(p) ==
    /\ procs[p].pc = "mark"
    /\ marked' = marked \cup {procs[p].obj}
    /\ procs' = [procs EXCEPT ![p].pc = "exec"]
    /\ UNCHANGED <<ruleVars, timerVars, tests, mu, stop, queue, ctxs>>

FinishUnlessCancelled(p) ==   \* mutant: an aborted execution keeps the status
    /\ procs[p].pc = "exec"
    /\ marked' = IF Cancelled(procs[p].ctx) THEN marked ELSE marked \ {procs[p].obj}
    /\ Leave(p)
    /\ UNCHANGED <<ruleVars, timerVars, tests, mu, stop, queue>>
FinishLocked(p) ==   \* mutant: the status is written back under the engine's lock
    /\ procs[p].pc = "exec" /\ mu = Free
    /\ marked' = marked \ {procs[p].obj}
    /\ Leave(p)
    /\ UNCHANGED <<ruleVars, timerVars, tests, mu, stop, queue>>
(* A condition is false, something fails, or all actions are done.            *)
Finish(p) ==
    /\ procs[p].pc = "exec"
    /\ marked' = marked \ {procs[p].obj}
    /\ Leave(p)
    /\ UNCHANGED <<ruleVars, timerVars, tests, mu, stop, queue>>

(* ExecutionTimeout.                                                          *)
Expire(w) ==
    /\ procs[w].pc \in Busy
    /\ ctxs' = [ctxs EXCEPT ![procs[w].ctx].cancelled = TRUE]
    /\ UNCHANGED <<ruleVars, timerVars, runVars, mu, stop, queue>>

-----------------------------------------------------------------------------
(* Shutdown.  Stop keeps the lock from its first step to its last.            *)
Stop ==
    /\ MayStop /\ mu = Free /\ stop = "no"
    /\ mu' = [Free EXCEPT !.by = "stop"]
    /\ stop' = "jobs"
    /\ UNCHANGED <<ruleVars, timerVars, runVars, queue, ctxs>>

(* The running jobs are done, or 30 seconds are over.                         *)
StopScheduler ==
    /\ stop = "jobs"
    /\ stop' = "workers"
    /\ UNCHANGED <<ruleVars, timerVars, runVars, mu, queue, ctxs>>

(* worker.stop <- true, an unbuffered send to each worker in turn.            *)
StopWorker(w) ==
    /\ stop = "workers" /\ procs[w].pc = "idle"
    /\ \A v \in Workers : v < w => procs[v].pc = "stopped"
    /\ procs' = [procs EXCEPT ![w].pc = "stopped"]
    /\ UNCHANGED <<ruleVars, timerVars, marked, tests, mu, stop, queue, ctxs>>

StopReturn ==
    /\ stop = "workers"
    /\ \A w \in Workers : procs[w].pc = "stopped"
    /\ stop' = "done" /\ mu' = Free
    /\ UNCHANGED <<ruleVars, timerVars, runVars, queue, ctxs>>

-----------------------------------------------------------------------------
Api ==
    \/ \E b \in Bodies : AddRule(b) \/ UpdateRule(b)
    \/ \E r \in RuleIds : RemoveRule(r) \/ EnableRule(r) \/ DisableRule(r)
    \/ \E t \in Testers, r \in RuleIds : TestRule(t, r)
    \/ Stop
Unlock == EnableTriggers \/ DisableCancel
StopStep == StopScheduler \/ StopReturn \/ \E w \in Workers : StopWorker(w)
Job == \E j \in jobs : SendEvent(j) \/ CallHandler(j) \/ JobReturn(j)
Matches == HandleEvent \/ \E r \in RuleIds : EnqueueMatch(r)
Execute(p) == CreateContext(p) \/ Check(p) \/ Mark(p) \/ Finish(p)
Worker(w) == Take(w) \/ Lookup(w) \/ Execute(w)

Next ==
    \/ Api \/ Unlock \/ StopStep
    \/ \E entry \in sched.cron : Fire(entry)
    \/ Job \/ Matches
    \/ \E w \in Workers : Worker(w) \/ Expire(w)
    \/ \E t \in Testers : Execute(t)
    \/ CleanupExpiredContexts

Spec == Init /\ [][Next]_vars

(* Goroutines that can run do; an execution ends, as the worker's context     *)
(* times out; the cleanup ticker keeps ticking.  Nobody has to call the API.  *)
FairSpec ==
    /\ Spec
    /\ WF_vars(Unlock) /\ WF_vars(StopStep)
    /\ WF_vars(Job) /\ WF_vars(Matches)
    /\ \A w \in Workers : WF_vars(Worker(w))
    /\ \A t \in Testers : WF_vars(Execute(t))
    /\ WF_vars(CleanupExpiredContexts)

-----------------------------------------------------------------------------
(* The variables have these types.                                            *)
TypeOK ==
    /\ Rules!TypeOK
    /\ marked \subseteq DOMAIN heap
    /\ mu \in [by : {"none", "stop", "enable", "disable"}, rule : RuleIds \cup {NoRule}]
    /\ stop \in {"no", "jobs", "workers", "done"}
    /\ jobs \subseteq [n : 1..MaxFirings, entry : Nat, rule : RuleIds,
                       pc : {"event", "handler", "return"}]
    /\ fired \in 0..MaxFirings /\ events \in 0..EventCap
    /\ evals \in [RuleIds -> Nat]
    /\ queue \in Seq([rule : RuleIds, parent : 0..MaxFirings])
    /\ Len(queue) <= QueueSize
    /\ procs \in [Procs -> [pc : {"idle", "lookup", "create", "stopped"} \cup Busy,
                            rule : RuleIds \cup {NoRule}, parent : 0..MaxFirings,
                            obj : 0..Len(heap), ctx : 0..Len(ctxs),
                            had : 0..Len(heap)]]
    /\ tests \in 0..MaxTests
    /\ ctxs \in Seq([rule : RuleIds, parent : 0..MaxFirings, manual : BOOLEAN,
                     cancelled : BOOLEAN, inMap : BOOLEAN])

Executing(p) == procs[p].pc \in {"mark", "exec"}

(* The worker looked the rule up, and the rule was replaced or removed before *)
(* it had made its context: the cancel of UpdateRule or RemoveRule, and of a  *)
(* DisableRule by then, came too early.                                       *)
Late(p) == procs[p].obj # procs[p].had

(* Once UpdateRule, RemoveRule or DisableRule has returned, what the rule was *)
(* no longer executes with a context that is not cancelled, unless it is late:*)
(* then it executes the old object, which was enabled when it was replaced,   *)
(* whatever its rule is by then.  What is not late executes the rule's object *)
(* of now, and that is enabled or DisableRule is under way.  (A rule whose    *)
(* triggers cannot be set up is enabled for a moment by a failing EnableRule, *)
(* which cancels nothing; POST of an ID in use cancels nothing either.)       *)
ExecutesCurrent ==
    \A p \in Procs :
        LET o == procs[p].obj
            r == procs[p].rule
        IN  Executing(p) /\ ~Cancelled(procs[p].ctx) =>
                \/ Late(p) /\ rules[r] # o /\ heap[o].enabled
                \/ rules[r] # o /\ r \in Reposted
                \/ /\ ~Late(p) /\ rules[r] = o
                   /\ \/ heap[o].enabled
                      \/ mu.by = "disable" /\ mu.rule = r
                      \/ ~Rules!AllScheduled(heap[o])

(* An execution whose context is not cancelled can be cancelled: the manager  *)
(* still has its context (RemoveContext and CleanupExpiredContexts cancel     *)
(* what they remove, and a worker removes its context last).                  *)
CancelReaches ==
    \A p \in Procs :
        procs[p].pc \in Busy /\ ~Cancelled(procs[p].ctx) =>
            procs[p].ctx \in InMap

(* The status of a rule says running only while something executes it: no     *)
(* way out of executeRule leaves a single-mode rule blocked.                  *)
RunningIsReal ==
    \A o \in marked : \E p \in Procs : procs[p].pc = "exec" /\ procs[p].obj = o

(* What a worker leaves in the manager is cancelled, so that the next cleanup *)
(* takes it: the context it executed with is not the one it removes.          *)
LeftoversCancelled ==
    \A c \in InMap :
        ~ctxs[c].manual => \/ Cancelled(c)
                           \/ \E p \in Procs : /\ procs[p].pc \in Busy
                                              /\ c \in {procs[p].ctx - 1, procs[p].ctx}

(* The engine keeps to AutomationRules, with EnableRule taking effect when    *)
(* the lock is released.                                                      *)
Registry == INSTANCE AutomationRules WITH
    heap <- [o \in DOMAIN heap |->
               IF mu.by = "enable" /\ rules[mu.rule] = o
               THEN Rules!Switched(heap[o], FALSE) ELSE heap[o]]
KeepsRegistry ==
    Registry!Init /\ [][UNCHANGED Registry!ruleVars \/ Registry!Next]_vars

(* Requests that were accepted are worked off, until the engine is stopped.   *)
RequestsServed ==
    queue # << >> ~>
        stop # "no" \/ (queue = << >> /\ \A w \in Workers : procs[w].pc = "idle")

(* Stop comes to its end, unless it finds a worker that has taken a request   *)
(* and needs the lock Stop holds to look the rule up; executions that are     *)
(* under way, and rule operations, do not keep it.                            *)
StopReturns ==
    stop # "no" ~> stop = "done" \/ \E w \in Workers : procs[w].pc = "lookup"
=============================================================================
