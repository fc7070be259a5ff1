----------------------- MODULE AutomationEngineProofs -----------------------
(* Theorems about AutomationEngine for any number of workers, testers, rules  *)
(* and firings.  What is known of the rules comes from AutomationRulesProofs. *)
EXTENDS AutomationEngine, TLAPS

RuleProofs == INSTANCE AutomationRulesProofs

(* The assumption of AutomationRules, as its theorems need it here.           *)
LEMMA RulesAssumed ==
  /\ Bodies \subseteq RuleProofs!AutomationRule /\ RuleProofs!IsFiniteSet(Bodies)
  /\ Reposted \subseteq RuleProofs!RuleIds /\ MaxObjs \in Nat /\ MaxEntries \in Nat
<1>1. RuleProofs!AutomationRule = Rules!AutomationRule
  BY DEF Rules!AutomationRule, RuleProofs!AutomationRule, Rules!Trigger, RuleProofs!Trigger,
         Rules!Modes, RuleProofs!Modes
<1>2. RuleProofs!IsFiniteSet(Bodies)
  BY AutomationEngineAssumption DEF IsFiniteSet, RuleProofs!IsFiniteSet
<1>3. RuleProofs!RuleIds = RuleIds
  BY DEF RuleIds, Rules!RuleIds, RuleProofs!RuleIds
<1> QED
  BY <1>1, <1>2, <1>3, AutomationEngineAssumption

(* Rules and RuleProofs are the same module over the same variables.          *)
LEMMA SameValues ==
  /\ Rules!NoObj = 0 /\ RuleProofs!NoObj = 0
  /\ RuleProofs!RuleIds = RuleIds
  /\ \A rule, on : RuleProofs!Switched(rule, on) = Rules!Switched(rule, on)
  /\ \A rule : RuleProofs!Scheduled(rule) = Rules!Scheduled(rule)
  /\ \A rule : RuleProofs!SetupFails(rule) = Rules!SetupFails(rule)
<1>1. /\ Rules!NoObj = 0 /\ RuleProofs!NoObj = 0
      /\ RuleProofs!RuleIds = RuleIds
      /\ \A rule, on : RuleProofs!Switched(rule, on) = Rules!Switched(rule, on)
  BY DEF Rules!NoObj, RuleProofs!NoObj, RuleIds, Rules!RuleIds, RuleProofs!RuleIds,
         Rules!Switched, RuleProofs!Switched
<1>2. \A rule : RuleProofs!Scheduled(rule) = Rules!Scheduled(rule)
  BY DEF Rules!Scheduled, RuleProofs!Scheduled
<1>3. \A rule : RuleProofs!SetupFails(rule) = Rules!SetupFails(rule)
  BY <1>2 DEF Rules!SetupFails, RuleProofs!SetupFails
<1> QED
  BY <1>1, <1>2, <1>3

LEMMA SameSetup ==
  ASSUME NEW s, NEW o, NEW rule
  PROVE  RuleProofs!SetupTriggers(s, o, rule) = Rules!SetupTriggers(s, o, rule)
<1>1. RuleProofs!TriggerIds = Rules!TriggerIds
  BY DEF Rules!TriggerIds, RuleProofs!TriggerIds
<1>2. \A i : RuleProofs!NewEntry(s, o, rule, i) = Rules!NewEntry(s, o, rule, i)
  BY DEF Rules!NewEntry, RuleProofs!NewEntry
<1>3. \A i, t : RuleProofs!IsLast(rule, i, t) <=> Rules!IsLast(rule, i, t)
  BY SameValues DEF Rules!IsLast, RuleProofs!IsLast
<1>4. \A t : RuleProofs!Indexed(s, o, rule, t) = Rules!Indexed(s, o, rule, t)
  BY <1>2, <1>3, SameValues DEF Rules!Indexed, RuleProofs!Indexed
<1> QED
  BY <1>1, <1>2, <1>4, SameValues DEF Rules!SetupTriggers, RuleProofs!SetupTriggers

LEMMA SameCleanup ==
  ASSUME NEW s, NEW r
  PROVE  RuleProofs!CleanupTriggers(s, r) = Rules!CleanupTriggers(s, r)
<1>1. RuleProofs!TriggerIds = Rules!TriggerIds /\ RuleProofs!NoEntry = Rules!NoEntry
  BY DEF Rules!TriggerIds, RuleProofs!TriggerIds, Rules!NoEntry, RuleProofs!NoEntry
<1>2. RuleProofs!Known(s, r) = Rules!Known(s, r)
  BY <1>1 DEF Rules!Known, RuleProofs!Known
<1> QED
  BY <1>1, <1>2 DEF Rules!CleanupTriggers, RuleProofs!CleanupTriggers

LEMMA SameCount ==
  ASSUME NEW table, NEW objs
  PROVE  RuleProofs!Count(table, objs) = Rules!Count(table, objs)
<1>1. RuleProofs!Registered(table) = Rules!Registered(table)
  BY SameValues DEF Rules!Registered, RuleProofs!Registered, RuleIds
<1>2. \A S : RuleProofs!Cardinality(S) = Rules!Cardinality(S)
  BY DEF RuleProofs!Cardinality, Rules!Cardinality
<1> QED
  BY <1>1, <1>2 DEF Rules!Count, RuleProofs!Count

LEMMA SameInit == Rules!Init <=> RuleProofs!Init
  BY DEF Rules!Init, RuleProofs!Init, Rules!RuleIds, RuleProofs!RuleIds, Rules!NoObj,
         RuleProofs!NoObj, Rules!TriggerIds, RuleProofs!TriggerIds, Rules!NoEntry,
         RuleProofs!NoEntry

LEMMA SameOperations ==
  /\ \A b : RuleProofs!AddRule(b) <=> Rules!AddRule(b)
  /\ \A b : RuleProofs!UpdateRule(b) <=> Rules!UpdateRule(b)
  /\ \A r : RuleProofs!RemoveRule(r) <=> Rules!RemoveRule(r)
  /\ \A r : RuleProofs!DisableRule(r) <=> Rules!DisableRule(r)
<1>1. /\ RuleProofs!NextObj = Rules!NextObj
      /\ RuleProofs!Room <=> Rules!Room
      /\ \A b : RuleProofs!Alloc(b) <=> Rules!Alloc(b)
      /\ \A r : RuleProofs!ObjOf(r) = Rules!ObjOf(r)
  BY DEF RuleProofs!NextObj, Rules!NextObj, RuleProofs!Room, Rules!Room, RuleProofs!Alloc,
         Rules!Alloc, RuleProofs!ObjOf, Rules!ObjOf
<1>2. \A b : RuleProofs!AddRule(b) <=> Rules!AddRule(b)
  BY <1>1, SameValues, SameSetup, SameCount DEF RuleProofs!AddRule, Rules!AddRule
<1>3. \A b : RuleProofs!UpdateRule(b) <=> Rules!UpdateRule(b)
  BY <1>1, SameValues, SameSetup, SameCleanup, SameCount
     DEF RuleProofs!UpdateRule, Rules!UpdateRule
<1>4. \A r : RuleProofs!RemoveRule(r) <=> Rules!RemoveRule(r)
  BY SameValues, SameCleanup, SameCount DEF RuleProofs!RemoveRule, Rules!RemoveRule
<1>5. \A r : RuleProofs!DisableRule(r) <=> Rules!DisableRule(r)
  BY <1>1, SameValues, SameCleanup, SameCount DEF RuleProofs!DisableRule, Rules!DisableRule
<1> QED
  BY <1>2, <1>3, <1>4, <1>5

-----------------------------------------------------------------------------
(* The steps, seen from one variable at a time.                               *)

LEMMA RuleMoves ==
  ASSUME [Next]_vars
  PROVE  \/ UNCHANGED ruleVars
         \/ \E b \in Bodies : AddRule(b) \/ UpdateRule(b)
         \/ \E r \in RuleIds : RemoveRule(r) \/ EnableRule(r) \/ DisableRule(r)
         \/ EnableTriggers
<1> USE DEF vars, timerVars, runVars
<1>1. CASE Api
  BY <1>1 DEF Api, TestRule, Stop
<1>2. CASE Unlock \/ StopStep
  BY <1>2 DEF Unlock, DisableCancel, StopStep, StopScheduler, StopReturn, StopWorker
<1>3. CASE (\E entry \in sched.cron : Fire(entry)) \/ Job \/ Matches
  BY <1>3 DEF Fire, Job, SendEvent, CallHandler, JobReturn, Matches, HandleEvent, EnqueueMatch
<1>4. CASE \/ \E w \in Workers : Worker(w) \/ Expire(w)
           \/ \E t \in Testers : Execute(t)
           \/ CleanupExpiredContexts
  BY <1>4 DEF Worker, Take, Lookup, Expire, Execute, CreateContext, Check, Mark, Finish,
              CleanupExpiredContexts
<1> QED
  BY <1>1, <1>2, <1>3, <1>4 DEF Next

LEMMA LockMoves ==
  ASSUME [Next]_vars
  PROVE  \/ UNCHANGED <<mu, stop>>
         \/ \E r \in RuleIds : EnableRule(r) \/ DisableRule(r)
         \/ EnableTriggers \/ DisableCancel
         \/ Stop \/ StopScheduler \/ StopReturn
<1> USE DEF vars, timerVars, runVars
<1>1. CASE Api
  BY <1>1 DEF Api, TestRule, AddRule, UpdateRule, RemoveRule
<1>2. CASE Unlock \/ StopStep
  BY <1>2 DEF Unlock, StopStep, StopWorker
<1>3. CASE (\E entry \in sched.cron : Fire(entry)) \/ Job \/ Matches
  BY <1>3 DEF Fire, Job, SendEvent, CallHandler, JobReturn, Matches, HandleEvent, EnqueueMatch
<1>4. CASE \/ \E w \in Workers : Worker(w) \/ Expire(w)
           \/ \E t \in Testers : Execute(t)
           \/ CleanupExpiredContexts
  BY <1>4 DEF Worker, Take, Lookup, Expire, Execute, CreateContext, Check, Mark, Finish,
              CleanupExpiredContexts
<1> QED
  BY <1>1, <1>2, <1>3, <1>4 DEF Next

LEMMA TimerMoves ==
  ASSUME [Next]_vars
  PROVE  \/ UNCHANGED timerVars
         \/ \E entry \in sched.cron : Fire(entry)
         \/ \E j \in jobs : SendEvent(j) \/ CallHandler(j) \/ JobReturn(j)
         \/ HandleEvent
         \/ \E r \in RuleIds : EnqueueMatch(r)
<1> USE DEF vars, runVars
<1>1. CASE Api
  BY <1>1 DEF Api, TestRule, AddRule, UpdateRule, RemoveRule, EnableRule, DisableRule, Stop
<1>2. CASE Unlock \/ StopStep
  BY <1>2 DEF Unlock, EnableTriggers, DisableCancel, StopStep, StopScheduler, StopReturn,
              StopWorker
<1>3. CASE (\E entry \in sched.cron : Fire(entry)) \/ Job \/ Matches
  BY <1>3 DEF Job, Matches
<1>4. CASE \/ \E w \in Workers : Worker(w) \/ Expire(w)
           \/ \E t \in Testers : Execute(t)
           \/ CleanupExpiredContexts
  BY <1>4 DEF Worker, Take, Lookup, Expire, Execute, CreateContext, Check, Mark, Finish,
              CleanupExpiredContexts
<1> QED
  BY <1>1, <1>2, <1>3, <1>4 DEF Next

LEMMA QueueMoves ==
  ASSUME [Next]_vars
  PROVE  \/ UNCHANGED queue
         \/ \E j \in jobs : CallHandler(j)
         \/ \E r \in RuleIds : EnqueueMatch(r)
         \/ \E w \in Workers : Take(w)
<1> USE DEF vars
<1>1. CASE Api
  BY <1>1 DEF Api, TestRule, AddRule, UpdateRule, RemoveRule, EnableRule, DisableRule, Stop
<1>2. CASE Unlock \/ StopStep
  BY <1>2 DEF Unlock, EnableTriggers, DisableCancel, StopStep, StopScheduler, StopReturn,
              StopWorker
<1>3. CASE (\E entry \in sched.cron : Fire(entry)) \/ Job \/ Matches
  BY <1>3 DEF Fire, Job, SendEvent, JobReturn, Matches, HandleEvent
<1>4. CASE \/ \E w \in Workers : Worker(w) \/ Expire(w)
           \/ \E t \in Testers : Execute(t)
           \/ CleanupExpiredContexts
  BY <1>4 DEF Worker, Lookup, Expire, Execute, CreateContext, Check, Mark, Finish,
              CleanupExpiredContexts
<1> QED
  BY <1>1, <1>2, <1>3, <1>4 DEF Next

LEMMA ProcMoves ==
  ASSUME [Next]_vars
  PROVE  \/ UNCHANGED runVars
         \/ \E t \in Testers, r \in RuleIds : TestRule(t, r)
         \/ \E w \in Workers : Take(w) \/ Lookup(w) \/ StopWorker(w)
         \/ \E p \in Procs : CreateContext(p) \/ Check(p) \/ Mark(p) \/ Finish(p)
<1> USE DEF vars
<1>1. CASE Api
  BY <1>1 DEF Api, AddRule, UpdateRule, RemoveRule, EnableRule, DisableRule, Stop
<1>2. CASE Unlock \/ StopStep
  BY <1>2 DEF Unlock, EnableTriggers, DisableCancel, StopStep, StopScheduler, StopReturn
<1>3. CASE (\E entry \in sched.cron : Fire(entry)) \/ Job \/ Matches
  BY <1>3 DEF Fire, Job, SendEvent, CallHandler, JobReturn, Matches, HandleEvent, EnqueueMatch
<1>4. CASE \/ \E w \in Workers : Worker(w) \/ Expire(w)
           \/ \E t \in Testers : Execute(t)
           \/ CleanupExpiredContexts
  BY <1>4 DEF Procs, Worker, Expire, Execute, CleanupExpiredContexts
<1> QED
  BY <1>1, <1>2, <1>3, <1>4 DEF Next

LEMMA ContextMoves ==
  ASSUME [Next]_vars
  PROVE  \/ UNCHANGED ctxs
         \/ \E r : CancelContextsForRule(r)
         \/ \E p \in Procs : CreateContext(p) \/ Check(p) \/ Finish(p)
         \/ \E w \in Workers : Expire(w)
         \/ CleanupExpiredContexts
<1> USE DEF vars
<1>1. CASE Api
  BY <1>1 DEF Api, TestRule, AddRule, UpdateRule, RemoveRule, EnableRule, DisableRule, Stop
<1>2. CASE Unlock \/ StopStep
  BY <1>2 DEF Unlock, EnableTriggers, DisableCancel, StopStep, StopScheduler, StopReturn,
              StopWorker
<1>3. CASE (\E entry \in sched.cron : Fire(entry)) \/ Job \/ Matches
  BY <1>3 DEF Fire, Job, SendEvent, CallHandler, JobReturn, Matches, HandleEvent, EnqueueMatch
<1>4. CASE \/ \E w \in Workers : Worker(w) \/ Expire(w)
           \/ \E t \in Testers : Execute(t)
           \/ CleanupExpiredContexts
  BY <1>4 DEF Procs, Worker, Take, Lookup, Execute, Mark
<1> QED
  BY <1>1, <1>2, <1>3, <1>4 DEF Next

-----------------------------------------------------------------------------
(* The parts of the inductive invariant.                                      *)

(* The rules are as AutomationRules has them.                                 *)
Shape == RuleProofs!Shape
StatsTyped == stats \in [total : Nat, active : Nat]

(* Who holds the lock, and what EnableRule has established before it lets     *)
(* others see the rule enabled.                                               *)
LockOK ==
    /\ mu \in [by : {"none", "stop", "enable", "disable"}, rule : RuleIds \cup {NoRule}]
    /\ stop \in {"no", "jobs", "workers", "done"}
    /\ mu.by = "none" => mu = Free
    /\ mu.by = "stop" <=> stop \in {"jobs", "workers"}
    /\ mu.by \in {"enable", "disable"} => mu.rule \in RuleIds /\ rules[mu.rule] # 0
    /\ mu.by = "enable" =>
          /\ heap[rules[mu.rule]].enabled
          /\ sched.next + Len(heap[rules[mu.rule]].triggers) <= MaxEntries

(* No request, and so no context, comes from a firing that has not happened.  *)
TimersOK ==
    /\ jobs \subseteq [n : 1..fired, entry : Nat, rule : RuleIds,
                       pc : {"event", "handler", "return"}]
    /\ fired \in 0..MaxFirings /\ events \in 0..EventCap
    /\ evals \in [RuleIds -> Nat]
    /\ queue \in Seq([rule : RuleIds, parent : 0..fired])
    /\ Len(queue) <= QueueSize

(* The locals of a process, over a heap and a list of contexts.               *)
Local(objs, made, n) ==
    [pc : {"idle", "lookup", "create", "stopped"} \cup Busy,
     rule : RuleIds \cup {NoRule}, parent : 0..n,
     obj : 0..Len(objs), ctx : 0..Len(made), had : 0..Len(objs)]

(* What a process works on is an object of its rule, in a context of its rule. *)
Works(p, l, objs, made) ==
    /\ l.pc \in {"lookup", "create"} \cup Busy => l.rule \in RuleIds
    /\ l.pc \in {"create"} \cup Busy => l.obj \in DOMAIN objs /\ objs[l.obj].id = l.rule
    /\ l.pc \in Busy => l.ctx \in DOMAIN made /\ made[l.ctx].rule = l.rule
    /\ l.pc \in Busy /\ p \in Workers => l.ctx - 1 \in DOMAIN made
Fits(p, l, objs, made, n) == l \in Local(objs, made, n) /\ Works(p, l, objs, made)
ProcsOK ==
    /\ procs \in [Procs -> Local(heap, ctxs, fired)]
    /\ tests \in 0..MaxTests
    /\ \A p \in Procs : Works(p, procs[p], heap, ctxs)

Context == [rule : RuleIds, parent : 0..fired, manual : BOOLEAN,
            cancelled : BOOLEAN, inMap : BOOLEAN]
ContextsOK == ctxs \in Seq(Context)

(* A context that a worker leaves in the manager is one a worker still uses,  *)
(* not a tester.                                                              *)
LeftoversMarked ==
    \A c \in InMap :
        ~ctxs[c].manual => \/ Cancelled(c)
                           \/ \E w \in Workers : /\ procs[w].pc \in Busy
                                                /\ c \in {procs[w].ctx - 1, procs[w].ctx}

(* An execution that is not cancelled and was not late when it made its       *)
(* context has the rule's object of now; one that was late never gets to be   *)
(* current.  An object that is not current stays as it is.                    *)
Follows(l, table) ==
    /\ l.obj # l.had => table[l.rule] # l.obj
    /\ l.obj = l.had => table[l.rule] = l.obj \/ l.rule \in Reposted
Stays(l, table, objs, lock) ==
    /\ l.obj # l.had => objs[l.obj].enabled
    /\ table[l.rule] = l.obj =>
          \/ objs[l.obj].enabled
          \/ lock.by = "disable" /\ lock.rule = l.rule
          \/ Rules!Scheduled(objs[l.obj]) # DOMAIN objs[l.obj].triggers
Followed ==
    \A p \in Procs :
        procs[p].pc \in Busy /\ ~Cancelled(procs[p].ctx) =>
            /\ Follows(procs[p], rules)
            /\ procs[p].pc \in {"mark", "exec"} => Stays(procs[p], rules, heap, mu)

MarkedOK == marked \subseteq DOMAIN heap

Types == Shape /\ StatsTyped /\ LockOK /\ TimersOK /\ ProcsOK /\ ContextsOK
Inv ==
    /\ Types /\ MarkedOK
    /\ Followed /\ CancelReaches /\ RunningIsReal /\ LeftoversMarked

-----------------------------------------------------------------------------
(* The rules keep their shape.                                                *)

LEMMA ShapeFacts ==
  ASSUME Shape
  PROVE  /\ heap \in Seq(RuleProofs!AutomationRule) /\ DOMAIN heap = 1..Len(heap)
         /\ Len(heap) \in Nat
         /\ rules \in [RuleIds -> 0..Len(heap)]
         /\ \A r \in RuleIds : rules[r] # 0 => /\ rules[r] \in DOMAIN heap
                                               /\ heap[rules[r]].id = r
         /\ \A o \in DOMAIN heap : /\ RuleProofs!FromBody(heap[o])
                                   /\ heap[o].triggers \in Seq(RuleProofs!Trigger)
                                   /\ heap[o].enabled \in BOOLEAN
                                   /\ heap[o].id \in RuleIds
         /\ sched.next \in Nat
         /\ \A c \in sched.cron : c.id \in Nat /\ c.rule \in RuleIds
<1>1. /\ heap \in Seq(RuleProofs!AutomationRule)
      /\ rules \in [RuleIds -> 0..Len(heap)]
      /\ \A r \in RuleIds : rules[r] # 0 => heap[rules[r]].id = r
      /\ \A o \in DOMAIN heap : RuleProofs!FromBody(heap[o])
  BY SameValues DEF Shape, RuleProofs!Shape, RuleProofs!RulesOK
<1>2. DOMAIN heap = 1..Len(heap) /\ Len(heap) \in Nat
  BY <1>1
<1>3. \A r \in RuleIds : rules[r] # 0 => rules[r] \in DOMAIN heap
  BY <1>1, <1>2
<1>4. \A o \in DOMAIN heap : heap[o].id \in RuleIds
  BY <1>1, RulesAssumed, SameValues, RuleProofs!FromBodyFacts
<1>5. \A o \in DOMAIN heap : heap[o] \in RuleProofs!AutomationRule
  BY <1>1 DEF RuleProofs!FromBody
<1>6. \A o \in DOMAIN heap : heap[o].enabled \in BOOLEAN
                             /\ heap[o].triggers \in Seq(RuleProofs!Trigger)
  BY <1>5 DEF RuleProofs!AutomationRule
<1>7. sched.next \in Nat /\ \A c \in sched.cron : c.id \in Nat /\ c.rule \in RuleIds
  BY SameValues DEF Shape, RuleProofs!Shape, RuleProofs!SchedOK, RuleProofs!Entry
<1> QED
  BY <1>1, <1>2, <1>3, <1>4, <1>6, <1>7

LEMMA SwitchHeap ==
  ASSUME Shape, NEW o \in DOMAIN heap, NEW on \in BOOLEAN
  PROVE  LET switched == [heap EXCEPT ![o] = Rules!Switched(heap[o], on)]
         IN  /\ RuleProofs!RulesOK(rules, switched)
             /\ DOMAIN switched = DOMAIN heap /\ Len(switched) = Len(heap)
             /\ switched[o].enabled = on
             /\ switched[o].triggers = heap[o].triggers /\ switched[o].id = heap[o].id
             /\ \A k \in DOMAIN heap : k # o => switched[k] = heap[k]
<1> DEFINE rule == Rules!Switched(heap[o], on)
           switched == [heap EXCEPT ![o] = rule]
<1>1. rule = RuleProofs!Switched(heap[o], on)
  BY SameValues
<1>2. /\ RuleProofs!RulesOK(rules, switched)
      /\ DOMAIN switched = DOMAIN heap /\ switched[o] = rule
      /\ \A k \in DOMAIN heap : k # o => switched[k] = heap[k]
  BY <1>1, RulesAssumed, RuleProofs!SwitchRules DEF Shape, RuleProofs!Shape
<1>3. rule.enabled = on /\ rule.triggers = heap[o].triggers /\ rule.id = heap[o].id
  BY <1>1, ShapeFacts, RulesAssumed, RuleProofs!SwitchedFacts
<1>4. Len(switched) = Len(heap)
  BY ShapeFacts
<1> QED
  BY <1>2, <1>3, <1>4

LEMMA ShapeStep ==
  ASSUME Shape, LockOK, [Next]_vars
  PROVE  Shape'
<1>1. [RuleProofs!Next]_(RuleProofs!ruleVars) => Shape'
  BY RulesAssumed, RuleProofs!ShapeNext DEF Shape
<1>2. CASE UNCHANGED ruleVars
  BY <1>1, <1>2 DEF ruleVars, RuleProofs!ruleVars
<1>3. ASSUME NEW b \in Bodies, AddRule(b) \/ UpdateRule(b) PROVE Shape'
  BY <1>1, <1>3, SameOperations DEF AddRule, UpdateRule, RuleProofs!Next
<1>4. ASSUME NEW r \in RuleIds, RemoveRule(r) \/ DisableRule(r) PROVE Shape'
  BY <1>1, <1>4, SameOperations, SameValues DEF RemoveRule, DisableRule, RuleProofs!Next
<1>5. ASSUME NEW r \in RuleIds, EnableRule(r) PROVE Shape'
  BY <1>5, SwitchHeap, ShapeFacts, SameValues
     DEF EnableRule, Shape, RuleProofs!Shape
<1>6. CASE EnableTriggers
  <2> DEFINE o == rules[mu.rule]
  <2>1. o \in DOMAIN heap /\ o \in Nat /\ RuleProofs!FromBody(heap[o])
    BY <1>6, ShapeFacts DEF LockOK, EnableTriggers
  <2>2. RuleProofs!SchedOK(sched')
    BY <1>6, <2>1, SameSetup, RulesAssumed, RuleProofs!SetupType
       DEF EnableTriggers, Shape, RuleProofs!Shape
  <2>3. RuleProofs!RulesOK(rules, heap')
    BY <1>6, <2>1, SwitchHeap DEF EnableTriggers, Shape, RuleProofs!Shape
  <2> QED
    BY <1>6, <2>2, <2>3 DEF EnableTriggers, Shape, RuleProofs!Shape
<1> QED
  BY <1>2, <1>3, <1>4, <1>5, <1>6, RuleMoves

LEMMA StatsStep ==
  ASSUME StatsTyped, [Next]_vars
  PROVE  StatsTyped'
<1>1. UNCHANGED stats \/ \E table, objs : stats' = Rules!Count(table, objs)
  BY RuleMoves DEF ruleVars, AddRule, UpdateRule, RemoveRule, EnableRule, DisableRule,
     EnableTriggers, Rules!AddRule, Rules!UpdateRule, Rules!RemoveRule, Rules!DisableRule
<1> QED
  BY <1>1, SameCount, RulesAssumed, RuleProofs!CountType DEF StatsTyped

(* An object keeps its rule and its triggers, and is switched off only by     *)
(* DisableRule, or by an EnableRule that cannot set its triggers up.          *)
LEMMA HeapKept ==
  ASSUME Shape, LockOK, [Next]_vars, NEW o \in DOMAIN heap
  PROVE  /\ o \in DOMAIN heap' /\ heap'[o].id = heap[o].id
         /\ heap'[o].triggers = heap[o].triggers
         /\ \/ heap[o].enabled => heap'[o].enabled
            \/ mu' = [by |-> "disable", rule |-> heap[o].id]
            \/ Rules!Scheduled(heap[o]) # DOMAIN heap[o].triggers
         /\ rules[heap[o].id] # o => heap'[o] = heap[o]
<1>1. CASE UNCHANGED heap
  BY <1>1
<1>2. ASSUME NEW b \in Bodies, heap' = Append(heap, b)
      PROVE  o \in DOMAIN heap' /\ heap'[o] = heap[o]
  BY <1>2, ShapeFacts
<1>3. ASSUME NEW b \in Bodies, AddRule(b) \/ UpdateRule(b)
      PROVE  o \in DOMAIN heap' /\ heap'[o] = heap[o]
  BY <1>2, <1>3 DEF AddRule, UpdateRule, Rules!AddRule, Rules!UpdateRule, Rules!Alloc
<1>4. ASSUME NEW k \in DOMAIN heap, NEW on \in BOOLEAN,
             heap' = [heap EXCEPT ![k] = Rules!Switched(@, on)]
      PROVE  /\ o \in DOMAIN heap' /\ heap'[o].id = heap[o].id
             /\ heap'[o].triggers = heap[o].triggers
             /\ o # k \/ on => (heap[o].enabled => heap'[o].enabled)
             /\ o # k => heap'[o] = heap[o]
  BY <1>4, SwitchHeap
<1>5. ASSUME NEW r \in RuleIds, EnableRule(r) 
      PROVE  /\ heap' = [heap EXCEPT ![rules[r]] = Rules!Switched(@, TRUE)]
             /\ rules[r] \in DOMAIN heap /\ heap[rules[r]].id = r
  BY <1>5, ShapeFacts, SameValues DEF EnableRule
<1>6. ASSUME NEW r \in RuleIds, DisableRule(r)
      PROVE  /\ heap' = [heap EXCEPT ![rules[r]] = Rules!Switched(@, FALSE)]
             /\ rules[r] \in DOMAIN heap /\ heap[rules[r]].id = r
             /\ mu' = [by |-> "disable", rule |-> r]
  BY <1>6, ShapeFacts, SameValues DEF DisableRule, Rules!DisableRule
<1>7. CASE EnableTriggers
  <2>1. rules[mu.rule] \in DOMAIN heap /\ heap[rules[mu.rule]].id = mu.rule
    BY <1>7, ShapeFacts DEF EnableTriggers, LockOK
  <2>2. \/ UNCHANGED heap
        \/ /\ Rules!SetupFails(heap[rules[mu.rule]])
           /\ heap' = [heap EXCEPT ![rules[mu.rule]] = Rules!Switched(@, FALSE)]
    BY <1>7 DEF EnableTriggers
  <2> QED
    BY <1>4, <2>1, <2>2 DEF Rules!SetupFails
<1>8. ASSUME NEW r \in RuleIds, RemoveRule(r) PROVE UNCHANGED heap
  BY <1>8 DEF RemoveRule, Rules!RemoveRule
<1>9. rules[heap[o].id] # o => o \in DOMAIN heap' /\ heap'[o] = heap[o]
  <2> SUFFICES ASSUME rules[heap[o].id] # o PROVE o \in DOMAIN heap' /\ heap'[o] = heap[o]
    OBVIOUS
  <2>1. ASSUME NEW r \in RuleIds, EnableRule(r) PROVE o \in DOMAIN heap' /\ heap'[o] = heap[o]
    <3>1. o # rules[r]
      BY <1>5, <2>1
    <3> QED
      BY <1>4, <1>5, <2>1, <3>1
  <2>2. ASSUME NEW r \in RuleIds, DisableRule(r) PROVE o \in DOMAIN heap' /\ heap'[o] = heap[o]
    <3>1. o # rules[r]
      BY <1>6, <2>2
    <3> QED
      BY <1>4, <1>6, <2>2, <3>1
  <2>3. EnableTriggers => o \in DOMAIN heap' /\ heap'[o] = heap[o]
    BY <1>7
  <2>4. ASSUME UNCHANGED heap PROVE o \in DOMAIN heap' /\ heap'[o] = heap[o]
    BY <2>4
  <2> QED
    BY <1>3, <1>8, <2>1, <2>2, <2>3, <2>4, RuleMoves DEF ruleVars
<1>10. ASSUME NEW r \in RuleIds, EnableRule(r) \/ DisableRule(r)
       PROVE  /\ o \in DOMAIN heap' /\ heap'[o].id = heap[o].id
              /\ heap'[o].triggers = heap[o].triggers
              /\ \/ heap[o].enabled => heap'[o].enabled
                 \/ mu' = [by |-> "disable", rule |-> heap[o].id]
  BY <1>4, <1>5, <1>6, <1>10
<1> QED
  BY <1>1, <1>3, <1>7, <1>8, <1>9, <1>10, RuleMoves DEF ruleVars

LEMMA HeapGrows ==
  ASSUME Shape, LockOK, [Next]_vars
  PROVE  Len(heap') \in Nat /\ Len(heap) <= Len(heap')
<1>1. Shape'
  BY ShapeStep
<1>2. DOMAIN heap' = 1..Len(heap') /\ Len(heap') \in Nat
  BY <1>1 DEF Shape, RuleProofs!Shape, RuleProofs!RulesOK
<1>3. DOMAIN heap = 1..Len(heap) /\ Len(heap) \in Nat
  BY ShapeFacts
<1>4. Len(heap) > 0 => Len(heap) \in DOMAIN heap'
  BY <1>3, HeapKept
<1> QED
  BY <1>2, <1>3, <1>4

-----------------------------------------------------------------------------
(* The lock.                                                                  *)

LEMMA LockStep ==
  ASSUME Shape, LockOK, [Next]_vars
  PROVE  LockOK'
<1>1. CASE UNCHANGED <<mu, stop>>
  <2>1. CASE mu.by \in {"enable", "disable"}
    <3>1. mu # Free
      BY <2>1 DEF Free
    <3>2. UNCHANGED ruleVars
      BY <1>1, <3>1, RuleMoves DEF AddRule, UpdateRule, RemoveRule, EnableRule, DisableRule,
         EnableTriggers
    <3> QED
      BY <1>1, <3>2 DEF LockOK, ruleVars
  <2>2. CASE mu.by \notin {"enable", "disable"}
    BY <1>1, <2>2 DEF LockOK
  <2> QED
    BY <2>1, <2>2
<1>2. ASSUME NEW r \in RuleIds, EnableRule(r) PROVE LockOK'
  <2>1. rules[r] \in DOMAIN heap /\ rules[r] # 0
    BY <1>2, ShapeFacts, SameValues DEF EnableRule
  <2>2. /\ heap'[rules[r]].enabled = TRUE
        /\ heap'[rules[r]].triggers = heap[rules[r]].triggers
    BY <1>2, <2>1, SwitchHeap DEF EnableRule
  <2>3. stop \notin {"jobs", "workers"} /\ stop' = stop
    BY <1>2 DEF EnableRule, LockOK, Free
  <2> QED
    BY <1>2, <2>1, <2>2, <2>3 DEF EnableRule, LockOK, Rules!ObjOf
<1>3. ASSUME NEW r \in RuleIds, DisableRule(r) PROVE LockOK'
  <2>1. stop \notin {"jobs", "workers"} /\ stop' = stop
    BY <1>3 DEF DisableRule, LockOK, Free
  <2>2. rules'[r] # 0
    BY <1>3, SameValues DEF DisableRule, Rules!DisableRule
  <2> QED
    BY <1>3, <2>1, <2>2 DEF DisableRule, LockOK
<1>4. CASE EnableTriggers \/ DisableCancel
  <2>1. mu.by \in {"enable", "disable"} /\ mu' = Free /\ stop' = stop
    BY <1>4 DEF EnableTriggers, DisableCancel
  <2> QED
    BY <2>1 DEF LockOK, Free
<1>5. CASE Stop \/ StopScheduler \/ StopReturn
  BY <1>5 DEF Stop, StopScheduler, StopReturn, LockOK, Free
<1> QED
  BY <1>1, <1>2, <1>3, <1>4, <1>5, LockMoves

-----------------------------------------------------------------------------
(* Firings, events and the queue.                                             *)

LEMMA FiredGrows ==
  ASSUME TimersOK, [Next]_vars
  PROVE  fired' \in Nat /\ fired <= fired'
<1>1. fired' = fired \/ fired' = fired + 1
  BY TimerMoves DEF timerVars, Fire, SendEvent, CallHandler, JobReturn, HandleEvent, EnqueueMatch
<1> QED
  BY <1>1, AutomationEngineAssumption DEF TimersOK

(* A job that was not there has a number of its own.                          *)
LEMMA JobsStep ==
  ASSUME Shape, TimersOK, [Next]_vars
  PROVE  /\ jobs' \subseteq [n : 1..fired', entry : Nat, rule : RuleIds,
                             pc : {"event", "handler", "return"}]
         /\ fired' \in 0..MaxFirings
         /\ \A k \in jobs' : k.n = fired + 1 \/ \E j \in jobs : j.n = k.n
<1> DEFINE Job1(n) == [n : 1..n, entry : Nat, rule : RuleIds,
                       pc : {"event", "handler", "return"}]
<1>0. fired \in Nat /\ MaxFirings \in Nat
  BY AutomationEngineAssumption DEF TimersOK
<1>1. CASE UNCHANGED <<jobs, fired>>
  BY <1>1 DEF TimersOK
<1>2. ASSUME NEW entry \in sched.cron, Fire(entry)
      PROVE  /\ jobs' \subseteq Job1(fired') /\ fired' \in 0..MaxFirings
             /\ \A k \in jobs' : k.n = fired + 1 \/ \E j \in jobs : j.n = k.n
  <2>1. fired' = fired + 1 /\ fired' \in 1..MaxFirings
    BY <1>2, <1>0 DEF Fire
  <2>2. jobs \subseteq Job1(fired')
    BY <2>1, <1>0 DEF TimersOK
  <2>3. [n |-> fired', entry |-> entry.id, rule |-> entry.rule, pc |-> "event"] \in Job1(fired')
    BY <2>1, <1>0, ShapeFacts
  <2> QED
    BY <1>2, <2>1, <2>2, <2>3 DEF Fire
<1>3. ASSUME NEW j \in jobs, NEW pc \in {"event", "handler", "return"}, Goto(j, pc)
      PROVE  /\ jobs' \subseteq Job1(fired)
             /\ \A k \in jobs' : \E i \in jobs : i.n = k.n
  <2>1. j \in Job1(fired)
    BY DEF TimersOK
  <2>2. [j EXCEPT !.pc = pc] \in Job1(fired) /\ [j EXCEPT !.pc = pc].n = j.n
    BY <2>1
  <2> QED
    BY <1>3, <2>2 DEF Goto, TimersOK
<1>4. ASSUME NEW j \in jobs, SendEvent(j) \/ CallHandler(j)
      PROVE  fired' = fired /\ \E pc \in {"event", "handler", "return"} : Goto(j, pc)
  BY <1>4 DEF SendEvent, CallHandler
<1>5. ASSUME NEW j \in jobs, JobReturn(j)
      PROVE  fired' = fired /\ jobs' \subseteq jobs
  BY <1>5 DEF JobReturn
<1>6. CASE HandleEvent \/ \E r \in RuleIds : EnqueueMatch(r)
  BY <1>1, <1>6 DEF HandleEvent, EnqueueMatch
<1> QED
  BY <1>1, <1>2, <1>3, <1>4, <1>5, <1>6, TimerMoves DEF timerVars, TimersOK

LEMMA EventsStep ==
  ASSUME Shape, TimersOK, [Next]_vars
  PROVE  events' \in 0..EventCap /\ evals' \in [RuleIds -> Nat]
<1>1. CASE UNCHANGED <<events, evals>>
  BY <1>1 DEF TimersOK
<1>2. CASE (\E entry \in sched.cron : Fire(entry))
           \/ \E j \in jobs : CallHandler(j) \/ JobReturn(j)
  BY <1>1, <1>2 DEF Fire, CallHandler, JobReturn
<1>3. ASSUME NEW j \in jobs, SendEvent(j) PROVE events' \in 0..EventCap /\ evals' = evals
  BY <1>3, AutomationEngineAssumption DEF SendEvent, TimersOK
<1>4. CASE HandleEvent
  <2>1. events' \in 0..EventCap
    BY <1>4, AutomationEngineAssumption DEF HandleEvent, TimersOK
  <2>2. \A r \in RuleIds : rules[r] # Rules!NoObj => Len(Rules!ObjOf(r).triggers) \in Nat
    BY ShapeFacts, SameValues DEF Rules!ObjOf
  <2> QED
    BY <1>4, <2>1, <2>2 DEF HandleEvent, TimersOK
<1>5. ASSUME NEW r \in RuleIds, EnqueueMatch(r)
      PROVE  events' = events /\ evals' \in [RuleIds -> Nat]
  BY <1>5 DEF EnqueueMatch, TimersOK
<1> QED
  BY <1>1, <1>2, <1>3, <1>4, <1>5, TimerMoves DEF timerVars, TimersOK

LEMMA QueueStep ==
  ASSUME TimersOK, [Next]_vars
  PROVE  queue' \in Seq([rule : RuleIds, parent : 0..fired']) /\ Len(queue') <= QueueSize
<1> DEFINE Req(n) == [rule : RuleIds, parent : 0..n]
<1>0. /\ queue \in Seq(Req(fired)) /\ Len(queue) <= QueueSize
      /\ fired \in Nat /\ fired' \in Nat /\ fired <= fired'
  BY FiredGrows, AutomationEngineAssumption DEF TimersOK
<1>1. Req(fired) \subseteq Req(fired')
  BY <1>0
<1> HIDE DEF Req
<1>2. queue \in Seq(Req(fired'))
  BY <1>0, <1>1
<1>3. ASSUME NEW request \in Req(fired'), Offer(request)
      PROVE  queue' \in Seq(Req(fired')) /\ Len(queue') <= QueueSize
  BY <1>0, <1>2, <1>3, AutomationEngineAssumption DEF Offer
<1>4. ASSUME NEW j \in jobs, CallHandler(j)
      PROVE  \E request \in Req(fired') : Offer(request)
  <2>1. j.rule \in RuleIds /\ j.n \in 1..fired
    BY DEF TimersOK
  <2> QED
    BY <1>0, <1>4, <2>1 DEF CallHandler, Request, Req
<1>5. ASSUME NEW r \in RuleIds, EnqueueMatch(r)
      PROVE  \E request \in Req(fired') : Offer(request)
  BY <1>0, <1>5 DEF EnqueueMatch, Request, Req, Background
<1>6. ASSUME NEW w \in Workers, Take(w)
      PROVE  queue' \in Seq(Req(fired')) /\ Len(queue') <= QueueSize
  BY <1>0, <1>2, <1>6, AutomationEngineAssumption DEF Take
<1> QED
  BY <1>0, <1>2, <1>3, <1>4, <1>5, <1>6, QueueMoves DEF Req

LEMMA TimersStep ==
  ASSUME Shape, TimersOK, [Next]_vars
  PROVE  TimersOK'
  BY JobsStep, EventsStep, QueueStep DEF TimersOK

-----------------------------------------------------------------------------
(* Contexts.                                                                  *)

(* A context keeps what it was made with, is cancelled once and for all, and  *)
(* cancelled when it leaves the manager.                                      *)
ContextKept(a, b) ==
    /\ b.rule = a.rule /\ b.parent = a.parent /\ b.manual = a.manual
    /\ a.cancelled => b.cancelled
    /\ a.inMap => b.inMap \/ b.cancelled
    /\ b.inMap => a.inMap
Extends(new) ==
    /\ new \in Seq(Context)
    /\ \A c \in DOMAIN ctxs : c \in DOMAIN new /\ ContextKept(ctxs[c], new[c])

LEMMA ContextFacts ==
  ASSUME ContextsOK
  PROVE  /\ DOMAIN ctxs = 1..Len(ctxs) /\ Len(ctxs) \in Nat
         /\ \A c \in DOMAIN ctxs : ctxs[c] \in Context
  BY DEF ContextsOK

LEMMA DropFacts ==
  ASSUME ContextsOK, NEW set
  PROVE  /\ DOMAIN Drop(set) = DOMAIN ctxs
         /\ Extends(Drop(set))
         /\ \A c \in DOMAIN ctxs :
               IF c \in set
               THEN Drop(set)[c].cancelled = TRUE /\ Drop(set)[c].inMap = FALSE
               ELSE Drop(set)[c] = ctxs[c]
<1>1. /\ DOMAIN Drop(set) = DOMAIN ctxs
      /\ \A c \in DOMAIN ctxs :
            IF c \in set
            THEN Drop(set)[c] = [ctxs[c] EXCEPT !.cancelled = TRUE, !.inMap = FALSE]
            ELSE Drop(set)[c] = ctxs[c]
  BY DEF Drop
<1>2. \A c \in DOMAIN ctxs :
         LET d == [ctxs[c] EXCEPT !.cancelled = TRUE, !.inMap = FALSE]
         IN  /\ d \in Context /\ ContextKept(ctxs[c], d) /\ ContextKept(ctxs[c], ctxs[c])
             /\ d.cancelled = TRUE /\ d.inMap = FALSE
  BY ContextFacts DEF Context, ContextKept
<1>3. \A c \in DOMAIN ctxs :
         /\ Drop(set)[c] \in Context /\ ContextKept(ctxs[c], Drop(set)[c])
         /\ IF c \in set
            THEN Drop(set)[c].cancelled = TRUE /\ Drop(set)[c].inMap = FALSE
            ELSE Drop(set)[c] = ctxs[c]
  BY <1>1, <1>2, ContextFacts
<1>4. Drop(set) \in [1..Len(ctxs) -> Context]
  BY <1>1, <1>3, ContextFacts DEF Drop
<1>5. Drop(set) \in Seq(Context)
  BY <1>4, ContextFacts
<1> QED
  BY <1>1, <1>3, <1>5 DEF Extends

LEMMA CancelFacts ==
  ASSUME NEW s \in Seq(Context), NEW c \in DOMAIN s
  PROVE  LET new == [s EXCEPT ![c].cancelled = TRUE]
         IN  /\ new \in Seq(Context) /\ DOMAIN new = DOMAIN s
             /\ \A d \in DOMAIN s : ContextKept(s[d], new[d]) /\ new[d].inMap = s[d].inMap
             /\ new[c].cancelled = TRUE
             /\ \A d \in DOMAIN s : d # c => new[d] = s[d]
<1> DEFINE cancelled == [s[c] EXCEPT !.cancelled = TRUE]
           new == [s EXCEPT ![c] = cancelled]
<1>0. s[c] \in Context
  OBVIOUS
<1>1. /\ cancelled \in Context /\ ContextKept(s[c], cancelled)
      /\ cancelled.cancelled = TRUE /\ cancelled.inMap = s[c].inMap
  BY <1>0 DEF Context, ContextKept
<1>2. \A d \in DOMAIN s : ContextKept(s[d], s[d])
  BY DEF ContextKept
<1> HIDE DEF cancelled
<1>3. new \in Seq(Context) /\ DOMAIN new = DOMAIN s
  BY <1>1
<1>4. new[c] = cancelled /\ \A d \in DOMAIN s : d # c => new[d] = s[d]
  OBVIOUS
<1>5. new = [s EXCEPT ![c].cancelled = TRUE]
  BY DEF cancelled
<1> HIDE DEF new
<1> QED
  BY <1>1, <1>2, <1>3, <1>4, <1>5

(* The deferred calls of a worker.                                            *)
LEMMA LeaveFacts ==
  ASSUME ContextsOK, ProcsOK, NEW w \in Workers, procs[w].pc \in Busy
  PROVE  LET new == [Drop({procs[w].ctx - 1}) EXCEPT ![procs[w].ctx].cancelled = TRUE]
         IN  /\ Extends(new)
             /\ new[procs[w].ctx].cancelled
             /\ new[procs[w].ctx - 1].cancelled /\ ~new[procs[w].ctx - 1].inMap
<1> DEFINE c == procs[w].ctx
           gone == {c - 1}
           dropped == Drop(gone)
           new == [dropped EXCEPT ![c].cancelled = TRUE]
<1>1. w \in Procs /\ c \in DOMAIN ctxs /\ c - 1 \in DOMAIN ctxs /\ c # c - 1
  BY ContextFacts DEF ProcsOK, Works, Procs
<1>2. /\ Extends(dropped) /\ DOMAIN dropped = DOMAIN ctxs
      /\ dropped[c - 1].cancelled = TRUE /\ dropped[c - 1].inMap = FALSE
  <2>1. c - 1 \in gone
    OBVIOUS
  <2> HIDE DEF gone
  <2> QED
    BY <1>1, <2>1, DropFacts
<1> HIDE DEF dropped
<1>3. /\ new \in Seq(Context) /\ DOMAIN new = DOMAIN dropped
      /\ \A d \in DOMAIN dropped :
            ContextKept(dropped[d], new[d]) /\ new[d].inMap = dropped[d].inMap
      /\ new[c].cancelled = TRUE /\ new[c - 1] = dropped[c - 1]
  BY <1>1, <1>2, CancelFacts DEF Extends
<1> HIDE DEF new, c
<1>4. \A d \in DOMAIN ctxs : ContextKept(ctxs[d], new[d])
  BY <1>2, <1>3 DEF Extends, ContextKept
<1> QED
  BY <1>2, <1>3, <1>4 DEF Extends, c, new, dropped

LEMMA CreateFacts ==
  ASSUME ContextsOK, ProcsOK, NEW p \in Procs, CreateContext(p)
  PROVE  LET c == procs'[p].ctx
         IN  /\ Extends(ctxs') /\ c = Len(ctxs')
             /\ c \in DOMAIN ctxs' /\ ctxs'[c].rule = procs[p].rule /\ ctxs'[c].inMap
             /\ p \notin Workers => ctxs'[c].manual
             /\ p \in Workers => c - 1 \in DOMAIN ctxs'
             /\ \A d \in DOMAIN ctxs : ctxs'[d] = ctxs[d]
             /\ \A d \in DOMAIN ctxs' \ DOMAIN ctxs :
                   d = c \/ (p \in Workers /\ d = c - 1)
<1> DEFINE made == NewContext(p, p \notin Workers)
<1>1. made \in Context
  BY DEF NewContext, Context, ProcsOK, Works, Local, CreateContext
<1>2. ctxs \in Seq(Context) /\ DOMAIN ctxs = 1..Len(ctxs) /\ Len(ctxs) \in Nat
  BY ContextFacts DEF ContextsOK
<1>3. ctxs' = IF p \in Workers THEN ctxs \o <<made, made>> ELSE Append(ctxs, made)
  BY DEF CreateContext
<1>4. procs' = [procs EXCEPT ![p] = [@ EXCEPT !.pc = "check", !.ctx = Len(ctxs'),
                                              !.had = rules[procs[p].rule]]]
  BY DEF CreateContext
<1>5. procs'[p].ctx = Len(ctxs')
  BY <1>4 DEF ProcsOK, Local
<1>0. /\ made.rule = procs[p].rule /\ made.inMap
      /\ p \notin Workers => made.manual
  BY DEF NewContext
<1> HIDE DEF made
<1>6. /\ ctxs' \in Seq(Context)
      /\ Len(ctxs') = IF p \in Workers THEN Len(ctxs) + 2 ELSE Len(ctxs) + 1
      /\ DOMAIN ctxs' = 1..Len(ctxs')
      /\ \A d \in 1..Len(ctxs) : ctxs'[d] = ctxs[d]
      /\ \A d \in 1..Len(ctxs') : d > Len(ctxs) => ctxs'[d] = made
  <2>1. CASE p \in Workers
    <3>1. ctxs' = ctxs \o <<made, made>> /\ <<made, made>> \in Seq(Context) /\ Len(<<made, made>>) = 2
      BY <1>1, <1>3, <2>1
    <3>2. ctxs' \in Seq(Context) /\ Len(ctxs') = Len(ctxs) + 2
      BY <1>2, <3>1
    <3>3. \A d \in 1..Len(ctxs) + 2 :
             ctxs'[d] = IF d <= Len(ctxs) THEN ctxs[d] ELSE <<made, made>>[d - Len(ctxs)]
      BY <1>2, <3>1
    <3>4. \A i \in 1..2 : <<made, made>>[i] = made
      OBVIOUS
    <3>5. \A d \in 1..Len(ctxs) + 2 : d > Len(ctxs) => d - Len(ctxs) \in 1..2
      BY <1>2
    <3> QED
      BY <1>2, <2>1, <3>2, <3>3, <3>4, <3>5
  <2>2. CASE p \notin Workers
    BY <1>1, <1>2, <1>3, <2>2
  <2> QED
    BY <2>1, <2>2
<1>7. Extends(ctxs')
  BY <1>2, <1>6 DEF Extends, ContextKept
<1> DEFINE c == Len(ctxs')
<1>9. /\ c \in DOMAIN ctxs' /\ ctxs'[c] = made
      /\ p \in Workers => c - 1 \in DOMAIN ctxs'
  BY <1>2, <1>6
<1>10. \A d \in DOMAIN ctxs' \ DOMAIN ctxs : d = c \/ (p \in Workers /\ d = c - 1)
  BY <1>2, <1>6
<1>11. \A d \in DOMAIN ctxs : ctxs'[d] = ctxs[d]
  BY <1>2, <1>6
<1> HIDE DEF c
<1>12. procs'[p].ctx = c /\ c = Len(ctxs')
  BY <1>5 DEF c
<1> QED
  BY <1>0, <1>7, <1>9, <1>10, <1>11, <1>12

(* What every step does to the contexts that are there.                       *)
LEMMA ContextsKept ==
  ASSUME ContextsOK, ProcsOK, [Next]_vars
  PROVE  Extends(ctxs')
<1>1. Extends(ctxs)
  BY DEF Extends, ContextsOK, ContextKept
<1>2. ASSUME NEW r, CancelContextsForRule(r) PROVE Extends(ctxs')
  <2>1. \E set : ctxs' = Drop(set)
    BY <1>2 DEF CancelContextsForRule
  <2> QED
    BY <2>1, DropFacts
<1>3. CASE CleanupExpiredContexts
  <2>1. \E set : ctxs' = Drop(set)
    BY <1>3 DEF CleanupExpiredContexts
  <2> QED
    BY <2>1, DropFacts
<1>4. ASSUME NEW w \in Workers, Expire(w) PROVE Extends(ctxs')
  <2>1. procs[w].ctx \in DOMAIN ctxs
    BY <1>4 DEF Expire, ProcsOK, Works, Procs
  <2> QED
    BY <1>4, <2>1, CancelFacts DEF Expire, Extends, ContextsOK
<1>5. ASSUME NEW p \in Procs, procs[p].pc \in Busy, Leave(p) PROVE Extends(ctxs')
  BY <1>1, <1>5, LeaveFacts DEF Leave
<1>6. ASSUME NEW p \in Procs, Check(p) \/ Finish(p) PROVE Extends(ctxs')
  BY <1>1, <1>5, <1>6 DEF Check, Finish, Busy
<1> QED
  BY <1>1, <1>2, <1>3, <1>4, <1>6, CreateFacts, ContextMoves

LEMMA ContextsStep ==
  ASSUME TimersOK, ContextsOK, ProcsOK, [Next]_vars
  PROVE  /\ ContextsOK' /\ Len(ctxs') \in Nat /\ Len(ctxs) <= Len(ctxs')
<1>1. ctxs' \in Seq(Context) /\ \A c \in DOMAIN ctxs : c \in DOMAIN ctxs'
  BY ContextsKept DEF Extends
<1>2. Context \subseteq Context'
  BY FiredGrows, AutomationEngineAssumption DEF Context, TimersOK
<1>3. ctxs' \in Seq(Context')
  BY <1>1, <1>2
<1>4. Len(ctxs') \in Nat /\ Len(ctxs) <= Len(ctxs')
  <2>1. DOMAIN ctxs' = 1..Len(ctxs') /\ Len(ctxs') \in Nat
    BY <1>1
  <2>2. Len(ctxs) > 0 => Len(ctxs) \in DOMAIN ctxs
    BY ContextFacts
  <2> QED
    BY <1>1, <2>1, <2>2, ContextFacts
<1> QED
  BY <1>3, <1>4 DEF ContextsOK

-----------------------------------------------------------------------------
(* Workers and testers.                                                       *)

(* The locals of a process that did not move still fit.                       *)
LEMMA LocalKept ==
  ASSUME Shape, LockOK, TimersOK, ContextsOK, ProcsOK, [Next]_vars,
         NEW p, NEW l, Fits(p, l, heap, ctxs, fired)
  PROVE  Fits(p, l, heap', ctxs', fired')
<1>1. /\ Len(heap) \in Nat /\ Len(heap') \in Nat /\ Len(heap) <= Len(heap')
      /\ Len(ctxs) \in Nat /\ Len(ctxs') \in Nat /\ Len(ctxs) <= Len(ctxs')
      /\ fired \in Nat /\ fired' \in Nat /\ fired <= fired'
  BY HeapGrows, ShapeFacts, ContextsStep, ContextFacts, FiredGrows, AutomationEngineAssumption
     DEF TimersOK
<1>2. l \in Local(heap', ctxs', fired')
  BY <1>1 DEF Fits, Local
<1>3. \A o \in DOMAIN heap : o \in DOMAIN heap' /\ heap'[o].id = heap[o].id
  BY HeapKept
<1>4. \A c \in DOMAIN ctxs : c \in DOMAIN ctxs' /\ ctxs'[c].rule = ctxs[c].rule
  BY ContextsKept DEF Extends, ContextKept
<1> QED
  BY <1>2, <1>3, <1>4 DEF Fits, Works

LEMMA IdleFits ==
  ASSUME NEW p, Shape, TimersOK, ContextsOK, NEW pc \in {"idle", "stopped"}
  PROVE  Fits(p, [Idle EXCEPT !.pc = pc], heap, ctxs, fired)
<1>1. 0 \in 0..Len(heap) /\ 0 \in 0..Len(ctxs) /\ 0 \in 0..fired
  BY ShapeFacts, ContextFacts, AutomationEngineAssumption DEF TimersOK
<1>2. [Idle EXCEPT !.pc = pc] = [pc |-> pc, rule |-> NoRule, parent |-> 0, obj |-> 0, ctx |-> 0,
                             had |-> 0]
  BY DEF Idle, Background
<1> QED
  BY <1>1, <1>2 DEF Fits, Local, Works, Busy

LEMMA ProcsMove ==
  ASSUME Shape, LockOK, TimersOK, ContextsOK, ProcsOK, [Next]_vars
  PROVE  \/ UNCHANGED procs
         \/ \E p \in Procs : \E l : /\ procs' = [procs EXCEPT ![p] = l]
                                    /\ Fits(p, l, heap', ctxs', fired')
<1> DEFINE Goal == \E p \in Procs : \E l : /\ procs' = [procs EXCEPT ![p] = l]
                                           /\ Fits(p, l, heap', ctxs', fired')
<1>0. ASSUME NEW p \in Procs, NEW l, Fits(p, l, heap, ctxs, fired),
             procs' = [procs EXCEPT ![p] = l]
      PROVE  Goal
  BY <1>0, LocalKept
<1> HIDE DEF Goal
<1>1. ASSUME NEW p \in Procs PROVE Fits(p, procs[p], heap, ctxs, fired)
  BY DEF ProcsOK, Fits
<1>2. Workers \subseteq Procs /\ Testers \subseteq Procs
  BY DEF Procs
<1>3. ASSUME NEW t \in Testers, NEW r \in RuleIds, TestRule(t, r) PROVE Goal
  <2> DEFINE l == [Idle EXCEPT !.pc = "create", !.rule = r, !.obj = rules[r]]
  <2>1. rules[r] \in DOMAIN heap /\ heap[rules[r]].id = r /\ rules[r] \in 0..Len(heap)
    BY <1>3, ShapeFacts, SameValues DEF TestRule
  <2>2. l = [pc |-> "create", rule |-> r, parent |-> 0, obj |-> rules[r], ctx |-> 0,
             had |-> 0]
    <3> DEFINE a == [Idle EXCEPT !.pc = "create"]
               b == [a EXCEPT !.rule = r]
    <3>1. a = [pc |-> "create", rule |-> NoRule, parent |-> 0, obj |-> 0, ctx |-> 0,
                             had |-> 0]
      BY DEF Idle, Background
    <3>2. l = [b EXCEPT !.obj = rules[r]]
      OBVIOUS
    <3> HIDE DEF a
    <3>3. b = [pc |-> "create", rule |-> r, parent |-> 0, obj |-> 0, ctx |-> 0,
                             had |-> 0]
      BY <3>1
    <3> HIDE DEF b, l
    <3> QED
      BY <3>2, <3>3
  <2>3. 0 \in 0..Len(ctxs) /\ 0 \in 0..fired /\ 0 \in 0..Len(heap)
    BY ContextFacts, ShapeFacts, AutomationEngineAssumption DEF TimersOK
  <2>4. Fits(t, l, heap, ctxs, fired)
    BY <2>1, <2>2, <2>3 DEF Fits, Local, Works, Busy
  <2> QED
    BY <1>0, <1>2, <1>3, <2>4 DEF TestRule
<1>4. ASSUME NEW w \in Workers, Take(w) PROVE Goal
  <2> DEFINE l == [Idle EXCEPT !.pc = "lookup", !.rule = Head(queue).rule,
                               !.parent = Head(queue).parent]
  <2>1. Head(queue) \in [rule : RuleIds, parent : 0..fired]
    <3> DEFINE Req == [rule : RuleIds, parent : 0..fired]
    <3>1. queue \in Seq(Req) /\ queue # << >>
      BY <1>4 DEF Take, TimersOK
    <3> HIDE DEF Req
    <3>2. Head(queue) \in Req
      BY <3>1
    <3> QED
      BY <3>2 DEF Req
  <2>2. l = [pc |-> "lookup", rule |-> Head(queue).rule, parent |-> Head(queue).parent,
             obj |-> 0, ctx |-> 0, had |-> 0]
    <3> DEFINE a == [Idle EXCEPT !.pc = "lookup"]
               b == [a EXCEPT !.rule = Head(queue).rule]
    <3>1. a = [pc |-> "lookup", rule |-> NoRule, parent |-> 0, obj |-> 0, ctx |-> 0,
                             had |-> 0]
      BY DEF Idle, Background
    <3>2. l = [b EXCEPT !.parent = Head(queue).parent]
      OBVIOUS
    <3> HIDE DEF a
    <3>3. b = [pc |-> "lookup", rule |-> Head(queue).rule, parent |-> 0, obj |-> 0, ctx |-> 0,
                             had |-> 0]
      BY <3>1
    <3> HIDE DEF b, l
    <3> QED
      BY <3>2, <3>3
  <2>3. 0 \in 0..Len(ctxs) /\ 0 \in 0..Len(heap)
    BY ContextFacts, ShapeFacts
  <2>4. Fits(w, l, heap, ctxs, fired)
    BY <2>1, <2>2, <2>3 DEF Fits, Local, Works, Busy
  <2> QED
    BY <1>0, <1>2, <1>4, <2>4 DEF Take
<1>5. ASSUME NEW w \in Workers, Lookup(w) PROVE Goal
  <2>1. CASE rules[procs[w].rule] = Rules!NoObj
    <3>1. procs' = [procs EXCEPT ![w] = Idle]
      BY <1>5, <2>1 DEF Lookup
    <3>2. Idle = [Idle EXCEPT !.pc = "idle"]
      BY DEF Idle
    <3> QED
      BY <1>0, <1>2, <3>1, <3>2, IdleFits
  <2>2. CASE rules[procs[w].rule] # Rules!NoObj
    <3>1. procs[w].rule \in RuleIds
      BY <1>1, <1>2, <1>5 DEF Lookup, Fits, Works
    <3>2. PICK o : o = rules[procs[w].rule]
      OBVIOUS
    <3>3. o \in DOMAIN heap /\ heap[o].id = procs[w].rule /\ o \in 0..Len(heap)
      BY <2>2, <3>1, <3>2, ShapeFacts, SameValues
    <3>4. Fits(w, [procs[w] EXCEPT !.pc = "create", !.obj = o], heap, ctxs, fired)
      BY <1>1, <1>2, <3>1, <3>3 DEF Fits, Local, Works, Busy
    <3>5. procs' = [procs EXCEPT ![w] = [procs[w] EXCEPT !.pc = "create", !.obj = o]]
      BY <1>5, <2>2, <3>2 DEF Lookup
    <3> QED
      BY <1>0, <1>2, <3>4, <3>5
  <2> QED
    BY <2>1, <2>2
<1>6. ASSUME NEW w \in Workers, StopWorker(w) PROVE Goal
  <2>1. Fits(w, [procs[w] EXCEPT !.pc = "stopped"], heap, ctxs, fired)
    BY <1>1, <1>2 DEF Fits, Local, Works, Busy
  <2> QED
    BY <1>0, <1>2, <1>6, <2>1 DEF StopWorker
<1>7. ASSUME NEW p \in Procs, CreateContext(p) PROVE Goal
  <2>1. PICK c : c = procs'[p].ctx
    OBVIOUS
  <2>2. /\ c \in DOMAIN ctxs' /\ ctxs'[c].rule = procs[p].rule
        /\ p \in Workers => c - 1 \in DOMAIN ctxs'
        /\ c = Len(ctxs')
    BY <1>7, <2>1, CreateFacts
  <2>0. PICK h : h = rules[procs[p].rule]
    OBVIOUS
  <2>3. procs' = [procs EXCEPT ![p] = [procs[p] EXCEPT !.pc = "check", !.ctx = c, !.had = h]]
    BY <1>7, <2>0, <2>2 DEF CreateContext
  <2>4. Fits(p, procs[p], heap', ctxs', fired') /\ procs[p].pc = "create"
    BY <1>1, <1>7, LocalKept DEF CreateContext
  <2>5. c \in 0..Len(ctxs')
    BY <2>2, ContextsStep DEF ContextsOK
  <2>7. h \in 0..Len(heap')
    <3>1. h \in 0..Len(heap) /\ Len(heap) \in Nat
      BY <1>1, <1>7, <2>0, ShapeFacts DEF CreateContext, Fits, Works
    <3> QED
      BY <3>1, HeapGrows
  <2>6. Fits(p, [procs[p] EXCEPT !.pc = "check", !.ctx = c, !.had = h], heap', ctxs', fired')
    BY <2>2, <2>4, <2>5, <2>7 DEF Fits, Local, Works, Busy
  <2> QED
    BY <2>3, <2>6 DEF Goal
<1>8. ASSUME NEW p \in Procs, procs[p].pc \in Busy, NEW pc \in {"mark", "exec"},
             procs' = [procs EXCEPT ![p].pc = pc]
      PROVE  Goal
  <2>1. Fits(p, [procs[p] EXCEPT !.pc = pc], heap, ctxs, fired)
    BY <1>1, <1>8 DEF Fits, Local, Works, Busy
  <2> QED
    BY <1>0, <1>8, <2>1
<1>9. ASSUME NEW p \in Procs, Leave(p) PROVE Goal
  <2>1. Idle = [Idle EXCEPT !.pc = "idle"]
    BY DEF Idle
  <2> QED
    BY <1>0, <1>9, <2>1, IdleFits DEF Leave
<1>10. ASSUME NEW p \in Procs, Check(p) \/ Mark(p) \/ Finish(p) PROVE Goal
  BY <1>8, <1>9, <1>10 DEF Check, Mark, Finish, Busy
<1> QED
  BY <1>3, <1>4, <1>5, <1>6, <1>7, <1>10, ProcMoves DEF runVars, Goal

LEMMA ProcsStep ==
  ASSUME Shape, LockOK, TimersOK, ContextsOK, ProcsOK, [Next]_vars
  PROVE  ProcsOK'
<1>1. tests' \in 0..MaxTests
  <2>1. ASSUME NEW t \in Testers, NEW r \in RuleIds, TestRule(t, r)
        PROVE  tests < MaxTests /\ tests' = tests + 1
    BY <2>1 DEF TestRule
  <2>2. ASSUME NEW w \in Workers, Take(w) \/ Lookup(w) \/ StopWorker(w) PROVE tests' = tests
    BY <2>2 DEF Take, Lookup, StopWorker
  <2>3. ASSUME NEW p \in Procs, CreateContext(p) \/ Check(p) \/ Mark(p) \/ Finish(p)
        PROVE  tests' = tests
    BY <2>3 DEF CreateContext, Check, Mark, Finish
  <2>4. tests' = tests \/ (tests < MaxTests /\ tests' = tests + 1)
    BY <2>1, <2>2, <2>3, ProcMoves DEF runVars
  <2> QED
    BY <2>4, AutomationEngineAssumption DEF ProcsOK
<1>2. procs \in [Procs -> Local(heap, ctxs, fired)]
  BY DEF ProcsOK
<1>3. \A p \in Procs : Fits(p, procs[p], heap', ctxs', fired')
  BY LocalKept DEF ProcsOK, Fits
<1>4. \A p \in Procs : Fits(p, procs'[p], heap', ctxs', fired')
  BY <1>2, <1>3, ProcsMove
<1>5. \E f : procs' = [p \in Procs |-> f[p]]
  BY <1>2, ProcsMove
<1>6. procs' \in [Procs -> Local(heap', ctxs', fired')]
  BY <1>4, <1>5 DEF Fits
<1> QED
  BY <1>1, <1>4, <1>6 DEF ProcsOK, Fits

-----------------------------------------------------------------------------
(* Types.                                                                     *)

LEMMA TypesInit == Init => Types /\ MarkedOK
<1> SUFFICES ASSUME Init PROVE Types /\ MarkedOK
  OBVIOUS
<1>1. Shape
  BY SameInit, RulesAssumed, RuleProofs!ShapeInit DEF Shape, Init
<1>2. StatsTyped
  BY DEF Init, Rules!Init, StatsTyped
<1>3. LockOK
  BY DEF Init, LockOK, Free
<1>4. TimersOK
  BY AutomationEngineAssumption DEF Init, TimersOK
<1>5. ContextsOK /\ ctxs = << >>
  BY DEF Init, ContextsOK
<1>6. ProcsOK
  <2>1. Idle = [Idle EXCEPT !.pc = "idle"]
    BY DEF Idle
  <2>2. \A p \in Procs : Fits(p, Idle, heap, ctxs, fired)
    BY <1>1, <1>4, <1>5, <2>1, IdleFits
  <2>3. procs = [p \in Procs |-> Idle] /\ tests \in 0..MaxTests
    BY AutomationEngineAssumption DEF Init
  <2> HIDE DEF Idle
  <2> QED
    BY <2>2, <2>3 DEF ProcsOK, Fits
<1>7. MarkedOK
  BY DEF Init, MarkedOK
<1> QED
  BY <1>1, <1>2, <1>3, <1>4, <1>5, <1>6, <1>7 DEF Types

LEMMA MarkedMoves ==
  ASSUME [Next]_vars
  PROVE  \/ marked' = marked
         \/ \E p \in Procs : Mark(p)
         \/ \E p \in Procs : Finish(p) /\ marked' = marked \ {procs[p].obj}
<1>1. ASSUME NEW t \in Testers, NEW r \in RuleIds, TestRule(t, r) PROVE marked' = marked
  BY <1>1 DEF TestRule
<1>2. ASSUME NEW w \in Workers, Take(w) \/ Lookup(w) \/ StopWorker(w)
      PROVE  marked' = marked
  BY <1>2 DEF Take, Lookup, StopWorker
<1>3. ASSUME NEW p \in Procs, CreateContext(p) \/ Check(p) PROVE marked' = marked
  BY <1>3 DEF CreateContext, Check
<1>4. ASSUME NEW p \in Procs, Finish(p) PROVE marked' = marked \ {procs[p].obj}
  BY <1>4 DEF Finish
<1> QED
  BY <1>1, <1>2, <1>3, <1>4, ProcMoves DEF runVars

LEMMA MarkedStep ==
  ASSUME Types, MarkedOK, [Next]_vars
  PROVE  MarkedOK'
<1>1. ASSUME NEW p \in Procs, Mark(p) PROVE marked' \subseteq DOMAIN heap
  BY <1>1 DEF Mark, Types, ProcsOK, Works, Busy, MarkedOK
<1>2. (\A o \in marked' : o \in marked) \/ \E p \in Procs : Mark(p)
  BY MarkedMoves
<1>3. marked' \subseteq DOMAIN heap
  BY <1>1, <1>2 DEF MarkedOK
<1> QED
  BY <1>3, HeapKept DEF Types, MarkedOK

LEMMA TypesStep == Types /\ MarkedOK /\ [Next]_vars => Types' /\ MarkedOK'
  BY ShapeStep, StatsStep, LockStep, TimersStep, ContextsStep, ProcsStep, MarkedStep DEF Types

LEMMA TypesEnough == Types /\ MarkedOK => TypeOK
<1> SUFFICES ASSUME Types, MarkedOK PROVE TypeOK
  OBVIOUS
<1>0. fired \in 0..MaxFirings /\ MaxFirings \in Nat /\ fired \in Nat
  BY AutomationEngineAssumption DEF Types, TimersOK
<1>1. Rules!TypeOK
  <2>1. /\ heap \in Seq(RuleProofs!AutomationRule)
        /\ rules \in [RuleIds -> 0..Len(heap)]
        /\ RuleProofs!SchedOK(sched)
    BY SameValues DEF Types, Shape, RuleProofs!Shape, RuleProofs!RulesOK
  <2>2. /\ RuleProofs!AutomationRule = Rules!AutomationRule
        /\ RuleProofs!TriggerIds = Rules!TriggerIds
        /\ RuleProofs!NoEntry = Rules!NoEntry /\ RuleProofs!RuleIds = Rules!RuleIds
    BY DEF Rules!AutomationRule, RuleProofs!AutomationRule, Rules!Trigger, RuleProofs!Trigger,
           Rules!Modes, RuleProofs!Modes, Rules!TriggerIds, RuleProofs!TriggerIds,
           Rules!NoEntry, RuleProofs!NoEntry, Rules!RuleIds, RuleProofs!RuleIds
  <2>3. RuleProofs!Entry = Rules!Entry
    BY <2>2 DEF Rules!Entry, RuleProofs!Entry
  <2> QED
    BY <2>1, <2>2, <2>3
       DEF Rules!TypeOK, RuleProofs!SchedOK, RuleIds, Types, StatsTyped
<1>2. /\ jobs \subseteq [n : 1..MaxFirings, entry : Nat, rule : RuleIds,
                         pc : {"event", "handler", "return"}]
      /\ events \in 0..EventCap /\ evals \in [RuleIds -> Nat] /\ Len(queue) <= QueueSize
  BY <1>0 DEF Types, TimersOK
<1>3. queue \in Seq([rule : RuleIds, parent : 0..MaxFirings])
  <2> DEFINE Req(n) == [rule : RuleIds, parent : 0..n]
  <2>1. queue \in Seq(Req(fired)) /\ Req(fired) \subseteq Req(MaxFirings)
    BY <1>0 DEF Types, TimersOK
  <2> HIDE DEF Req
  <2>2. queue \in Seq(Req(MaxFirings))
    BY <2>1
  <2> QED
    BY <2>2 DEF Req
<1>4. procs \in [Procs -> [pc : {"idle", "lookup", "create", "stopped"} \cup Busy,
                           rule : RuleIds \cup {NoRule}, parent : 0..MaxFirings,
                           obj : 0..Len(heap), ctx : 0..Len(ctxs),
                           had : 0..Len(heap)]]
  BY <1>0 DEF Types, ProcsOK, Local
<1>5. ctxs \in Seq([rule : RuleIds, parent : 0..MaxFirings, manual : BOOLEAN,
                    cancelled : BOOLEAN, inMap : BOOLEAN])
  <2> DEFINE Made(n) == [rule : RuleIds, parent : 0..n, manual : BOOLEAN,
                         cancelled : BOOLEAN, inMap : BOOLEAN]
  <2>1. ctxs \in Seq(Made(fired)) /\ Made(fired) \subseteq Made(MaxFirings)
    BY <1>0 DEF Types, ContextsOK, Context
  <2> HIDE DEF Made
  <2>2. ctxs \in Seq(Made(MaxFirings))
    BY <2>1
  <2> QED
    BY <2>2 DEF Made
<1> QED
  BY <1>0, <1>1, <1>2, <1>3, <1>4, <1>5 DEF TypeOK, Types, LockOK, MarkedOK, ProcsOK

(* Type correctness of the engine: every request, job, execution and context  *)
(* names a rule, an object and a firing that exist, and the queue and the     *)
(* event channel never hold more than their capacity.                         *)
THEOREM EngineTypes == Spec => []TypeOK
  BY TypesInit, TypesStep, TypesEnough, PTL DEF Spec

-----------------------------------------------------------------------------
(* What a step does to one process, and to a context that is cancelled.       *)

(* Cancelled, over a list of contexts and the jobs that have not returned.    *)
Ended(made, live, c) ==
    \/ made[c].cancelled
    \/ made[c].parent # Background /\ \A j \in live : j.n # made[c].parent

LEMMA EndedMeans ==
  ASSUME NEW c
  PROVE  Cancelled(c) <=> Ended(ctxs, jobs, c)
  BY DEF Cancelled, Ended

LEMMA CancelledKept ==
  ASSUME Types, [Next]_vars, NEW c \in DOMAIN ctxs, Cancelled(c)
  PROVE  Ended(ctxs', jobs', c)
<1>1. /\ ctxs'[c].parent = ctxs[c].parent
      /\ ctxs[c].cancelled => ctxs'[c].cancelled
      /\ ctxs[c].parent \in 0..fired /\ fired \in Nat
  BY ContextsKept, ContextFacts, AutomationEngineAssumption
     DEF Types, TimersOK, Extends, ContextKept, Context
<1>2. \A k \in jobs' : k.n = ctxs[c].parent => \E j \in jobs : j.n = ctxs[c].parent
  BY <1>1, JobsStep DEF Types
<1> QED
  BY <1>1, <1>2 DEF Cancelled, Ended

(* A process is in the middle of an execution because it was, or because it   *)
(* has just made its context.                                                 *)
LEMMA ProcFate ==
  ASSUME Types, [Next]_vars, NEW q \in Procs
  PROVE  \/ procs'[q] = procs[q]
         \/ procs[q].pc \notin Busy /\ procs'[q].pc \notin Busy
         \/ CreateContext(q)
         \/ /\ Check(q) /\ CanExecute(procs[q].obj)
            /\ procs'[q] = [procs[q] EXCEPT !.pc = "mark"]
         \/ Mark(q) /\ procs'[q] = [procs[q] EXCEPT !.pc = "exec"]
         \/ (Check(q) \/ Finish(q)) /\ Leave(q) /\ procs'[q] = Idle
<1>0. procs \in [Procs -> Local(heap, ctxs, fired)] /\ Workers \subseteq Procs
      /\ Testers \subseteq Procs
  BY DEF Types, ProcsOK, Procs
<1> DEFINE Goal == \/ procs'[q] = procs[q]
                   \/ procs[q].pc \notin Busy /\ procs'[q].pc \notin Busy
<1>1. ASSUME NEW t \in Testers, NEW r \in RuleIds, TestRule(t, r) PROVE Goal
  <2> DEFINE l == [Idle EXCEPT !.pc = "create", !.rule = r, !.obj = rules[r]]
  <2>1. procs' = [procs EXCEPT ![t] = l] /\ procs[t].pc = "idle"
    BY <1>1 DEF TestRule
  <2>2. l.pc = "create"
    BY DEF Idle
  <2> HIDE DEF l
  <2> QED
    BY <1>0, <2>1, <2>2 DEF Busy
<1>2. ASSUME NEW w \in Workers, Take(w) PROVE Goal
  <2> DEFINE l == [Idle EXCEPT !.pc = "lookup", !.rule = Head(queue).rule,
                               !.parent = Head(queue).parent]
  <2>1. procs' = [procs EXCEPT ![w] = l] /\ procs[w].pc = "idle"
    BY <1>2 DEF Take
  <2>2. l.pc = "lookup"
    BY DEF Idle
  <2> HIDE DEF l
  <2> QED
    BY <1>0, <2>1, <2>2 DEF Busy
<1>3. ASSUME NEW w \in Workers, Lookup(w) \/ StopWorker(w) PROVE Goal
  <2>1. PICK l : /\ procs' = [procs EXCEPT ![w] = l] /\ procs[w].pc \in {"lookup", "idle"}
                 /\ l.pc \in {"idle", "create", "stopped"}
    <3>1. CASE StopWorker(w)
      <4> DEFINE l == [procs[w] EXCEPT !.pc = "stopped"]
      <4>1. procs' = [procs EXCEPT ![w] = l] /\ procs[w].pc = "idle"
        BY <3>1 DEF StopWorker
      <4>2. l.pc = "stopped"
        BY <1>0 DEF Local
      <4> HIDE DEF l
      <4> QED
        BY <4>1, <4>2
    <3>2. CASE Lookup(w) /\ rules[procs[w].rule] = Rules!NoObj
      <4>1. procs' = [procs EXCEPT ![w] = Idle] /\ procs[w].pc = "lookup"
        BY <3>2 DEF Lookup
      <4>2. Idle.pc = "idle"
        BY DEF Idle
      <4> QED
        BY <4>1, <4>2
    <3>3. CASE Lookup(w) /\ rules[procs[w].rule] # Rules!NoObj
      <4> DEFINE l == [procs[w] EXCEPT !.pc = "create", !.obj = rules[procs[w].rule]]
      <4>1. procs' = [procs EXCEPT ![w] = l] /\ procs[w].pc = "lookup"
        BY <3>3 DEF Lookup
      <4>2. l.pc = "create"
        BY <1>0 DEF Local
      <4> HIDE DEF l
      <4> QED
        BY <4>1, <4>2
    <3> QED
      BY <1>3, <3>1, <3>2, <3>3
  <2> QED
    BY <1>0, <2>1 DEF Busy
<1>4. ASSUME NEW p \in Procs, p # q, CreateContext(p) \/ Check(p) \/ Mark(p) \/ Finish(p)
      PROVE  Goal
  <2>1. \E l : procs' = [procs EXCEPT ![p] = l]
    BY <1>4 DEF CreateContext, Check, Mark, Finish, Leave
  <2> QED
    BY <1>0, <1>4, <2>1
<1>5. CASE Check(q)
  BY <1>0, <1>5 DEF Check, Leave
<1>6. CASE Mark(q)
  BY <1>0, <1>6 DEF Mark
<1>7. CASE Finish(q)
  BY <1>0, <1>7 DEF Finish, Leave
<1> QED
  BY <1>1, <1>2, <1>3, <1>4, <1>5, <1>6, <1>7, ProcMoves DEF runVars

LEMMA BusyFate ==
  ASSUME Types, [Next]_vars, NEW q \in Procs, procs'[q].pc \in Busy, ~CreateContext(q)
  PROVE  /\ procs[q].pc \in Busy
         /\ procs'[q].ctx = procs[q].ctx /\ procs'[q].obj = procs[q].obj
         /\ procs'[q].rule = procs[q].rule /\ procs'[q].had = procs[q].had
         /\ \/ procs'[q].pc = procs[q].pc
            \/ Check(q) /\ CanExecute(procs[q].obj)
            \/ Mark(q)
<1>1. procs[q] \in Local(heap, ctxs, fired)
  BY DEF Types, ProcsOK
<1>2. Idle.pc \notin Busy
  BY DEF Idle, Busy
<1> QED
  BY <1>1, <1>2, ProcFate DEF Local, Check, Mark, Busy

LEMMA LeaveFate ==
  ASSUME Types, [Next]_vars, NEW q \in Procs, procs[q].pc \in Busy, procs'[q].pc \notin Busy
  PROVE  Leave(q)
<1>1. procs[q] \in Local(heap, ctxs, fired)
  BY DEF Types, ProcsOK
<1>2. ~CreateContext(q)
  BY DEF CreateContext, Busy
<1> QED
  BY <1>1, <1>2, ProcFate DEF Local, Busy

-----------------------------------------------------------------------------
(* The status of a rule.                                                      *)

LEMMA RunningStep ==
  ASSUME Types, RunningIsReal, [Next]_vars
  PROVE  RunningIsReal'
<1> SUFFICES ASSUME NEW o \in marked'
             PROVE  \E p \in Procs : procs'[p].pc = "exec" /\ procs'[p].obj = o
  BY DEF RunningIsReal
<1>1. CASE o \in marked
  <2>1. PICK q \in Procs : procs[q].pc = "exec" /\ procs[q].obj = o
    BY <1>1 DEF RunningIsReal
  <2>2. ~Finish(q)
    BY <2>1 DEF Finish
  <2>3. procs'[q] = procs[q]
    BY <2>1, <2>2, ProcFate DEF CreateContext, Check, Mark, Busy
  <2> QED
    BY <2>1, <2>3
<1>2. CASE o \notin marked
  <2>1. PICK p \in Procs : Mark(p)
    BY <1>2, MarkedMoves
  <2>2. o = procs[p].obj /\ procs' = [procs EXCEPT ![p].pc = "exec"]
    BY <1>2, <2>1 DEF Mark
  <2> QED
    BY <2>2 DEF Types, ProcsOK, Local
<1> QED
  BY <1>1, <1>2

-----------------------------------------------------------------------------
(* The contexts in the manager.                                               *)

LEMMA ReachesStep ==
  ASSUME Types, CancelReaches, [Next]_vars
  PROVE  CancelReaches'
<1> SUFFICES ASSUME NEW q \in Procs, procs'[q].pc \in Busy,
                    ~Ended(ctxs', jobs', procs'[q].ctx)
             PROVE  procs'[q].ctx \in DOMAIN ctxs' /\ ctxs'[procs'[q].ctx].inMap
  <2>1. CancelReaches' <=>
           \A q \in Procs : procs'[q].pc \in Busy /\ ~Ended(ctxs', jobs', procs'[q].ctx)
              => procs'[q].ctx \in {c \in DOMAIN ctxs' : ctxs'[c].inMap}
    BY DEF CancelReaches, InMap, Cancelled, Ended
  <2> QED
    BY <2>1
<1>1. CASE CreateContext(q)
  BY <1>1, CreateFacts DEF Types
<1>2. CASE ~CreateContext(q)
  <2> DEFINE c == procs[q].ctx
  <2>1. procs[q].pc \in Busy /\ procs'[q].ctx = c
    BY <1>2, BusyFate
  <2>2. c \in DOMAIN ctxs
    BY <2>1 DEF Types, ProcsOK, Works
  <2>3. ~Cancelled(c)
    BY <2>1, <2>2, CancelledKept
  <2>4. ctxs[c].inMap
    BY <2>1, <2>3 DEF CancelReaches, InMap
  <2>5. ~ctxs'[c].cancelled
    BY <2>1 DEF Ended
  <2> QED
    BY <2>1, <2>2, <2>4, <2>5, ContextsKept DEF Types, Extends, ContextKept
<1> QED
  BY <1>1, <1>2

(* Contexts are made by executions only.                                      *)
LEMMA ContextsMade ==
  ASSUME Types, [Next]_vars, NEW c \in DOMAIN ctxs', c \notin DOMAIN ctxs
  PROVE  \E p \in Procs : CreateContext(p)
<1> USE DEF Types
<1>1. ASSUME NEW r, CancelContextsForRule(r) PROVE FALSE
  BY <1>1, DropFacts DEF CancelContextsForRule
<1>2. CASE CleanupExpiredContexts
  BY <1>2, DropFacts DEF CleanupExpiredContexts
<1>3. ASSUME NEW w \in Workers, Expire(w) PROVE FALSE
  BY <1>3 DEF Expire
<1>4. ASSUME NEW p \in Procs, Check(p) \/ Finish(p) PROVE FALSE
  BY <1>4, DropFacts DEF Check, Finish, Leave
<1> QED
  BY <1>1, <1>2, <1>3, <1>4, ContextMoves

LEMMA LeftoversStep ==
  ASSUME Types, LeftoversMarked, [Next]_vars
  PROVE  LeftoversMarked'
<1> SUFFICES ASSUME NEW c \in DOMAIN ctxs', ctxs'[c].inMap, ~ctxs'[c].manual
             PROVE  \/ Ended(ctxs', jobs', c)
                    \/ \E w \in Workers : /\ procs'[w].pc \in Busy
                                          /\ c \in {procs'[w].ctx - 1, procs'[w].ctx}
  BY DEF LeftoversMarked, InMap, Cancelled, Ended
<1>0. Workers \subseteq Procs
  BY DEF Procs
<1>1. CASE c \notin DOMAIN ctxs
  <2>1. PICK p \in Procs : CreateContext(p)
    BY <1>1, ContextsMade
  <2>0. ContextsOK /\ ProcsOK
    BY DEF Types
  <2>2. /\ p \notin Workers => ctxs'[procs'[p].ctx].manual
        /\ c = procs'[p].ctx \/ (p \in Workers /\ c = procs'[p].ctx - 1)
    BY <1>1, <2>0, <2>1, CreateFacts
  <2>3. p \in Workers
    BY <2>2
  <2>4. procs'[p].pc = "check"
    BY <2>1 DEF CreateContext, Types, ProcsOK, Local
  <2> QED
    BY <2>2, <2>3, <2>4 DEF Busy
<1>2. CASE c \in DOMAIN ctxs
  <2>1. ctxs[c].inMap /\ ~ctxs[c].manual
    BY <1>2, ContextsKept DEF Types, Extends, ContextKept
  <2>2. CASE Cancelled(c)
    BY <1>2, <2>2, CancelledKept
  <2>3. ASSUME NEW w \in Workers, procs[w].pc \in Busy,
               c \in {procs[w].ctx - 1, procs[w].ctx}
        PROVE  \/ ctxs'[c].cancelled
               \/ procs'[w].pc \in Busy /\ procs'[w].ctx = procs[w].ctx
    <3>1. CASE procs'[w].pc \in Busy
      <4>1. ~CreateContext(w)
        BY <2>3 DEF CreateContext, Busy
      <4> QED
        BY <1>0, <3>1, <4>1, BusyFate
    <3>2. CASE procs'[w].pc \notin Busy
      <4>1. ctxs' = [Drop({procs[w].ctx - 1}) EXCEPT ![procs[w].ctx].cancelled = TRUE]
        BY <1>0, <2>3, <3>2, LeaveFate DEF Leave
      <4> QED
        BY <2>3, <4>1, LeaveFacts DEF Types
    <3> QED
      BY <3>1, <3>2
  <2> QED
    BY <1>2, <2>1, <2>2, <2>3 DEF LeftoversMarked, InMap, Ended
<1> QED
  BY <1>1, <1>2

-----------------------------------------------------------------------------
(* Rules that are switched off.                                               *)

LEMMA ReleaseFacts ==
  ASSUME Types, [Next]_vars, mu.by = "disable", mu' # mu
  PROVE  DisableCancel
<1>1. mu # Free /\ stop \notin {"jobs", "workers"}
  BY DEF Types, LockOK, Free
<1>2. \A r \in RuleIds : ~EnableRule(r) /\ ~DisableRule(r)
  BY <1>1 DEF EnableRule, DisableRule
<1>3. ~EnableTriggers /\ ~Stop /\ ~StopScheduler /\ ~StopReturn
  BY <1>1 DEF EnableTriggers, Stop, StopScheduler, StopReturn
<1> QED
  BY <1>2, <1>3, LockMoves

(* A rule's ID leaves its object for good, and what runs is cancelled then,   *)
(* unless the ID is posted again.                                             *)
LEMMA RuleLeaves ==
  ASSUME Shape, [Next]_vars, NEW r \in RuleIds, rules'[r] # rules[r]
  PROVE  /\ rules'[r] \notin DOMAIN heap
         /\ rules[r] = 0 \/ r \in Reposted \/ CancelContextsForRule(r)
<1>1. /\ rules \in [RuleIds -> 0..Len(heap)] /\ DOMAIN heap = 1..Len(heap)
      /\ Len(heap) \in Nat
  BY ShapeFacts
<1>2. Rules!NextObj \notin DOMAIN heap /\ Rules!NoObj \notin DOMAIN heap /\ Rules!NoObj = 0
  BY <1>1, SameValues DEF Rules!NextObj
<1>3. ASSUME NEW b \in Bodies, AddRule(b)
      PROVE  /\ rules'[r] \notin DOMAIN heap
             /\ rules[r] = 0 \/ r \in Reposted
  <2>1. /\ rules[b.id] = Rules!NoObj \/ b.id \in Reposted
        /\ \/ rules' = [rules EXCEPT ![b.id] = Rules!NoObj]
           \/ rules' = [rules EXCEPT ![b.id] = Rules!NextObj]
    BY <1>3 DEF AddRule, Rules!AddRule
  <2> QED
    BY <1>1, <1>2, <2>1
<1>4. ASSUME NEW b \in Bodies, UpdateRule(b)
      PROVE  rules'[r] \notin DOMAIN heap /\ CancelContextsForRule(r)
  <2>1. rules' = [rules EXCEPT ![b.id] = Rules!NextObj] /\ CancelContextsForRule(b.id)
    <3>1. rules' = rules \/ rules' = [rules EXCEPT ![b.id] = Rules!NextObj]
      BY <1>4 DEF UpdateRule, Rules!UpdateRule
    <3> QED
      BY <1>4, <3>1 DEF UpdateRule
  <2> QED
    BY <1>1, <1>2, <2>1
<1>5. ASSUME NEW k \in RuleIds, RemoveRule(k)
      PROVE  rules'[r] \notin DOMAIN heap /\ CancelContextsForRule(r)
  <2>1. rules' = [rules EXCEPT ![k] = Rules!NoObj] /\ CancelContextsForRule(k)
    BY <1>5 DEF RemoveRule, Rules!RemoveRule
  <2> QED
    BY <1>1, <1>2, <2>1
<1>6. ASSUME NEW k \in RuleIds, EnableRule(k) \/ DisableRule(k) PROVE FALSE
  BY <1>6 DEF EnableRule, DisableRule, Rules!DisableRule
<1>7. ~EnableTriggers
  BY DEF EnableTriggers
<1> QED
  BY <1>3, <1>4, <1>5, <1>6, <1>7, RuleMoves DEF ruleVars

(* Cancelling the contexts of a rule reaches every execution of it.           *)
LEMMA CancelEnds ==
  ASSUME Types, CancelReaches, [Next]_vars, NEW q \in Procs, procs[q].pc \in Busy,
         CancelContextsForRule(procs[q].rule)
  PROVE  Ended(ctxs', jobs', procs[q].ctx)
<1> DEFINE c == procs[q].ctx
<1>1. c \in DOMAIN ctxs /\ ctxs[c].rule = procs[q].rule
  BY DEF Types, ProcsOK, Works
<1>2. CASE Cancelled(c)
  BY <1>1, <1>2, CancelledKept
<1>3. CASE ~Cancelled(c)
  <2>1. c \in {d \in InMap : ctxs[d].rule = procs[q].rule}
    BY <1>1, <1>3 DEF CancelReaches
  <2>2. ctxs' = Drop({d \in InMap : ctxs[d].rule = procs[q].rule})
    BY DEF CancelContextsForRule
  <2>3. ctxs'[c].cancelled
    BY <1>1, <2>1, <2>2, DropFacts DEF Types
  <2> QED
    BY <2>3 DEF Ended
<1> QED
  BY <1>2, <1>3

LEMMA FollowedStep ==
  ASSUME Types, CancelReaches, Followed, [Next]_vars
  PROVE  Followed'
<1> SUFFICES ASSUME NEW q \in Procs, procs'[q].pc \in Busy,
                    ~Ended(ctxs', jobs', procs'[q].ctx)
             PROVE  /\ Follows(procs'[q], rules')
                    /\ procs'[q].pc \in {"mark", "exec"} =>
                          Stays(procs'[q], rules', heap', mu')
  <2>1. Followed' <=>
           \A q \in Procs : procs'[q].pc \in Busy /\ ~Ended(ctxs', jobs', procs'[q].ctx)
              => /\ Follows(procs'[q], rules')
                 /\ procs'[q].pc \in {"mark", "exec"} =>
                       Stays(procs'[q], rules', heap', mu')
    BY DEF Followed, Cancelled, Ended, Follows, Stays, Rules!Scheduled
  <2> QED
    BY <2>1
<1> DEFINE l == procs[q]
           o == procs[q].obj
           c == procs[q].ctx
<1>0. procs[q] \in Local(heap, ctxs, fired)
  BY DEF Types, ProcsOK
<1>1. CASE CreateContext(q)
  <2>1. /\ procs'[q].pc = "check" /\ procs'[q].obj = o /\ procs'[q].rule = l.rule
        /\ procs'[q].had = rules[l.rule] /\ rules' = rules
    BY <1>0, <1>1 DEF CreateContext, ruleVars, Types, ProcsOK, Local
  <2> QED
    BY <2>1 DEF Follows
<1>2. CASE ~CreateContext(q)
  <2>1. /\ l.pc \in Busy /\ procs'[q].ctx = c /\ procs'[q].obj = o
        /\ procs'[q].rule = l.rule /\ procs'[q].had = l.had
        /\ \/ procs'[q].pc = l.pc
           \/ Check(q) /\ CanExecute(o)
           \/ Mark(q)
    BY <1>2, BusyFate
  <2>2. /\ o \in DOMAIN heap /\ heap[o].id = l.rule /\ l.rule \in RuleIds
        /\ c \in DOMAIN ctxs
    BY <2>1 DEF Types, ProcsOK, Works
  <2>3. ~Cancelled(c)
    BY <2>1, <2>2, CancelledKept
  <2>4. Follows(l, rules) /\ (l.pc \in {"mark", "exec"} => Stays(l, rules, heap, mu))
    BY <2>1, <2>3 DEF Followed
  <2>5. ~CancelContextsForRule(l.rule)
    BY <2>1, CancelEnds
  <2>6. rules'[l.rule] = o => rules[l.rule] = o
    BY <2>2, RuleLeaves DEF Types
  <2>7. rules[l.rule] = o => rules'[l.rule] = o \/ l.rule \in Reposted
    <3>1. o # 0
      BY <2>2, ShapeFacts DEF Types
    <3> QED
      BY <2>2, <2>5, <3>1, RuleLeaves DEF Types
  <2>8. Follows(procs'[q], rules')
    BY <2>1, <2>4, <2>6, <2>7 DEF Follows
  <2>9. ASSUME procs'[q].pc \in {"mark", "exec"} PROVE Stays(procs'[q], rules', heap', mu')
    <3>1. CASE Check(q) /\ CanExecute(o)
      <4>1. heap[o].enabled /\ heap' = heap
        BY <3>1 DEF Check, CanExecute, ruleVars
      <4> QED
        BY <2>1, <4>1 DEF Stays
    <3>2. CASE l.pc \in {"mark", "exec"}
      <4>1. Stays(l, rules, heap, mu)
        BY <2>4, <3>2
      <4>2. ASSUME l.obj # l.had PROVE heap'[o].enabled
        <5>1. heap[o].enabled /\ rules[heap[o].id] # o
          BY <2>2, <2>4, <4>1, <4>2 DEF Stays, Follows
        <5> QED
          BY <2>2, <5>1, HeapKept DEF Types
      <4>3. ASSUME rules'[l.rule] = o
            PROVE  \/ heap'[o].enabled
                   \/ mu'.by = "disable" /\ mu'.rule = l.rule
                   \/ Rules!Scheduled(heap'[o]) # DOMAIN heap'[o].triggers
        <5>1. \/ heap[o].enabled
              \/ mu.by = "disable" /\ mu.rule = l.rule
              \/ Rules!Scheduled(heap[o]) # DOMAIN heap[o].triggers
          BY <2>6, <4>1, <4>3 DEF Stays
        <5>2. heap'[o].triggers = heap[o].triggers
          BY <2>2, HeapKept DEF Types
        <5>3. CASE Rules!Scheduled(heap[o]) # DOMAIN heap[o].triggers
          BY <5>2, <5>3 DEF Rules!Scheduled
        <5>4. CASE heap[o].enabled /\ Rules!Scheduled(heap[o]) = DOMAIN heap[o].triggers
          <6>1. heap'[o].enabled \/ mu' = [by |-> "disable", rule |-> l.rule]
            BY <2>2, <5>4, HeapKept DEF Types
          <6> QED
            BY <6>1
        <5>5. CASE mu.by = "disable" /\ mu.rule = l.rule
          <6>1. mu' = mu
            <7>1. ~DisableCancel
              BY <2>5, <5>5 DEF DisableCancel
            <7> QED
              BY <5>5, <7>1, ReleaseFacts
          <6> QED
            BY <5>5, <6>1
        <5> QED
          BY <5>1, <5>3, <5>4, <5>5
      <4> QED
        BY <2>1, <4>2, <4>3 DEF Stays
    <3> QED
      BY <2>1, <2>9, <3>1, <3>2 DEF Mark
  <2> QED
    BY <2>8, <2>9
<1> QED
  BY <1>1, <1>2

-----------------------------------------------------------------------------
(* The invariant, and what follows from it.                                   *)

LEMMA InvHolds == Spec => []Inv
<1>1. Init => Inv
  BY TypesInit DEF Init, Inv, Followed, CancelReaches, RunningIsReal,
     LeftoversMarked, InMap, Executing, Idle, Busy
<1>2. Inv /\ [Next]_vars => Inv'
  BY TypesStep, RunningStep, ReachesStep, LeftoversStep, FollowedStep DEF Inv
<1> QED
  BY <1>1, <1>2, PTL DEF Spec

(* What is neither cancelled nor late executes the object its rule has now,   *)
(* enabled unless DisableRule is under way; what is late executes an object   *)
(* that was enabled when it was replaced.                                     *)
THEOREM CurrentHolds == Spec => []ExecutesCurrent
<1>1. Inv => ExecutesCurrent
  BY DEF Inv, Followed, Follows, Stays, Executing, ExecutesCurrent, Late, Busy,
         Rules!AllScheduled
<1> QED
  BY <1>1, InvHolds, PTL

(* The manager has the context of every execution that is not cancelled, so   *)
(* that UpdateRule, RemoveRule and DisableRule reach it.                      *)
THEOREM ReachesHolds == Spec => []CancelReaches
  BY InvHolds, PTL DEF Inv

(* A rule is marked as running only while something executes it: no way out   *)
(* of executeRule leaves a single-mode rule blocked.                          *)
THEOREM RunningHolds == Spec => []RunningIsReal
  BY InvHolds, PTL DEF Inv

(* What a worker leaves behind in the manager is cancelled, so that the       *)
(* cleanup routine takes it.                                                  *)
THEOREM LeftoversHold == Spec => []LeftoversCancelled
<1>1. Inv => LeftoversCancelled
  BY DEF Inv, LeftoversMarked, LeftoversCancelled, Procs
<1> QED
  BY <1>1, InvHolds, PTL

-----------------------------------------------------------------------------
(* The engine implements AutomationRules.  View is the heap as Registry sees  *)
(* it: a rule that EnableRule is about to set up is not enabled yet.          *)
View ==
    [o \in DOMAIN heap |->
        IF mu.by = "enable" /\ rules[mu.rule] = o
        THEN Rules!Switched(heap[o], FALSE) ELSE heap[o]]

LEMMA RegistryValues ==
  /\ Registry!NoObj = 0 /\ Registry!RuleIds = RuleIds
  /\ \A rule, on : Registry!Switched(rule, on) = Rules!Switched(rule, on)
  /\ \A rule : Registry!Scheduled(rule) = Rules!Scheduled(rule)
  /\ \A rule : Registry!SetupFails(rule) = Rules!SetupFails(rule)
<1>1. /\ Registry!NoObj = 0 /\ Registry!RuleIds = RuleIds
      /\ \A rule, on : Registry!Switched(rule, on) = Rules!Switched(rule, on)
  BY DEF Registry!NoObj, RuleIds, Rules!RuleIds, Registry!RuleIds, Rules!Switched,
         Registry!Switched
<1>2. \A rule : Registry!Scheduled(rule) = Rules!Scheduled(rule)
  BY DEF Rules!Scheduled, Registry!Scheduled
<1>3. \A rule : Registry!SetupFails(rule) = Rules!SetupFails(rule)
  BY <1>2 DEF Rules!SetupFails, Registry!SetupFails
<1> QED
  BY <1>1, <1>2, <1>3

LEMMA RegistrySetup ==
  ASSUME NEW s, NEW o, NEW rule
  PROVE  Registry!SetupTriggers(s, o, rule) = Rules!SetupTriggers(s, o, rule)
<1>1. Registry!TriggerIds = Rules!TriggerIds
  BY DEF Rules!TriggerIds, Registry!TriggerIds
<1>2. \A i : Registry!NewEntry(s, o, rule, i) = Rules!NewEntry(s, o, rule, i)
  BY DEF Rules!NewEntry, Registry!NewEntry
<1>3. \A i, t : Registry!IsLast(rule, i, t) <=> Rules!IsLast(rule, i, t)
  BY RegistryValues DEF Rules!IsLast, Registry!IsLast
<1>4. \A t : Registry!Indexed(s, o, rule, t) = Rules!Indexed(s, o, rule, t)
  BY <1>2, <1>3, RegistryValues DEF Rules!Indexed, Registry!Indexed
<1> QED
  BY <1>1, <1>2, <1>4, RegistryValues DEF Rules!SetupTriggers, Registry!SetupTriggers

LEMMA RegistryCleanup ==
  ASSUME NEW s, NEW r
  PROVE  Registry!CleanupTriggers(s, r) = Rules!CleanupTriggers(s, r)
<1>1. Registry!TriggerIds = Rules!TriggerIds /\ Registry!NoEntry = Rules!NoEntry
  BY DEF Rules!TriggerIds, Registry!TriggerIds, Rules!NoEntry, Registry!NoEntry
<1>2. Registry!Known(s, r) = Rules!Known(s, r)
  BY <1>1 DEF Rules!Known, Registry!Known
<1> QED
  BY <1>1, <1>2 DEF Rules!CleanupTriggers, Registry!CleanupTriggers

LEMMA RegistryCount ==
  ASSUME NEW table, NEW objs
  PROVE  Registry!Count(table, objs) = Rules!Count(table, objs)
<1>1. Registry!Registered(table) = Rules!Registered(table)
  BY SameValues, RegistryValues DEF Rules!Registered, Registry!Registered, RuleIds
<1>2. \A S : Registry!Cardinality(S) = Rules!Cardinality(S)
  BY DEF Registry!Cardinality, Rules!Cardinality
<1> QED
  BY <1>1, <1>2 DEF Rules!Count, Registry!Count

(* While no rule is being enabled the two see the same heap, and an operation *)
(* of one is the operation of the other.                                      *)
LEMMA RegistryOperations ==
  ASSUME View = heap, View' = heap'
  PROVE  /\ \A b : Rules!AddRule(b) => Registry!AddRule(b)
         /\ \A b : Rules!UpdateRule(b) => Registry!UpdateRule(b)
         /\ \A r : Rules!RemoveRule(r) => Registry!RemoveRule(r)
         /\ \A r : Rules!DisableRule(r) => Registry!DisableRule(r)
<1>1. /\ Registry!NextObj = Rules!NextObj
      /\ Registry!Room <=> Rules!Room
      /\ \A b : Registry!Alloc(b) <=> Rules!Alloc(b)
      /\ \A r : Registry!ObjOf(r) = Rules!ObjOf(r)
  BY DEF View, Registry!NextObj, Rules!NextObj, Registry!Room, Rules!Room, Registry!Alloc,
         Rules!Alloc, Registry!ObjOf, Rules!ObjOf
<1>2. ASSUME NEW b, Rules!AddRule(b) PROVE Registry!AddRule(b)
  BY <1>1, <1>2, SameValues, RegistryValues, RegistrySetup, RegistryCount
     DEF Registry!AddRule, Rules!AddRule, View
<1>3. ASSUME NEW b, Rules!UpdateRule(b) PROVE Registry!UpdateRule(b)
  BY <1>1, <1>3, SameValues, RegistryValues, RegistrySetup, RegistryCleanup, RegistryCount
     DEF Registry!UpdateRule, Rules!UpdateRule, View
<1>4. ASSUME NEW r, Rules!RemoveRule(r) PROVE Registry!RemoveRule(r)
  BY <1>4, SameValues, RegistryValues, RegistryCleanup, RegistryCount
     DEF Registry!RemoveRule, Rules!RemoveRule, View
<1>5. ASSUME NEW r, Rules!DisableRule(r) PROVE Registry!DisableRule(r)
  BY <1>1, <1>5, SameValues, RegistryValues, RegistryCleanup, RegistryCount
     DEF Registry!DisableRule, Rules!DisableRule, View
<1> QED
  BY <1>2, <1>3, <1>4, <1>5

LEMMA ViewFacts ==
  ASSUME Shape
  PROVE  /\ mu.by # "enable" => View = heap
         /\ DOMAIN View = DOMAIN heap
         /\ \A o \in DOMAIN heap :
               View[o] = IF mu.by = "enable" /\ rules[mu.rule] = o
                         THEN Rules!Switched(heap[o], FALSE) ELSE heap[o]
<1>1. heap = [o \in DOMAIN heap |-> heap[o]]
  BY ShapeFacts
<1>2. mu.by # "enable" => View = heap
  BY <1>1 DEF View
<1> QED
  BY <1>2 DEF View

(* Switching a rule back and forth changes nothing.                           *)
LEMMA SwitchedBack ==
  ASSUME Shape, NEW o \in DOMAIN heap, NEW on \in BOOLEAN
  PROVE  /\ Rules!Switched(Rules!Switched(heap[o], ~on), on) = Rules!Switched(heap[o], on)
         /\ heap[o].enabled = on => Rules!Switched(heap[o], on) = heap[o]
         /\ Rules!Switched(heap[o], on).enabled = on
<1>1. heap[o] \in RuleProofs!AutomationRule
  BY ShapeFacts DEF RuleProofs!FromBody
<1> QED
  BY <1>1 DEF RuleProofs!AutomationRule, Rules!Switched

(* What EnableRule does first is not seen.                                    *)
LEMMA EnableHidden ==
  ASSUME Types, Types', NEW r \in RuleIds, EnableRule(r)
  PROVE  View' = View /\ UNCHANGED <<rules, sched, stats>>
<1> DEFINE k == rules[r]
<1>1. /\ mu = Free /\ mu' = [by |-> "enable", rule |-> r]
      /\ UNCHANGED <<rules, sched, stats>>
      /\ k \in DOMAIN heap /\ ~heap[k].enabled
      /\ heap' = [heap EXCEPT ![k] = Rules!Switched(heap[k], TRUE)]
  BY ShapeFacts, SameValues DEF EnableRule, Types, Rules!ObjOf
<1>2. mu.by # "enable"
  BY <1>1 DEF Free
<1>3. DOMAIN heap' = DOMAIN heap
  BY <1>1
<1>4. Rules!Switched(heap'[k], FALSE) = heap[k]
  <2>1. heap[k].enabled = FALSE
    BY <1>1, ShapeFacts DEF Types
  <2>2. heap'[k] = Rules!Switched(heap[k], TRUE)
    BY <1>1
  <2>3. Rules!Switched(Rules!Switched(heap[k], ~FALSE), FALSE) = Rules!Switched(heap[k], FALSE)
    BY <1>1, SwitchedBack DEF Types
  <2> QED
    BY <1>1, <2>1, <2>2, <2>3, SwitchedBack DEF Types
<1>5. \A o \in DOMAIN heap : View'[o] = View[o]
  <2> TAKE o \in DOMAIN heap
  <2>1. View'[o] = IF o = k THEN Rules!Switched(heap'[o], FALSE) ELSE heap'[o]
    BY <1>1, <1>3 DEF View
  <2>2. View[o] = heap[o]
    BY <1>2 DEF View
  <2> QED
    BY <1>1, <1>4, <2>1, <2>2
<1>6. DOMAIN View' = DOMAIN heap /\ DOMAIN View = DOMAIN heap
  BY <1>3 DEF View
<1> QED
  BY <1>1, <1>5, <1>6 DEF View

(* EnableTriggers is EnableRule of AutomationRules.                           *)
LEMMA EnableSeen ==
  ASSUME Types, Types', EnableTriggers, NEW r, r = mu.rule
  PROVE  Registry!EnableRule(r) /\ r \in RuleIds
<1> DEFINE k == rules[r]
<1>1. /\ r \in RuleIds /\ k # 0 /\ k \in DOMAIN heap /\ mu.by = "enable"
      /\ heap[k].enabled = TRUE
      /\ sched.next + Len(heap[k].triggers) <= MaxEntries
  BY ShapeFacts DEF EnableTriggers, Types, LockOK
<1>2. /\ mu'.by # "enable" /\ rules' = rules
      /\ sched' = Rules!SetupTriggers(sched, k, heap[k])
      /\ IF Rules!SetupFails(heap[k])
         THEN heap' = [heap EXCEPT ![k] = Rules!Switched(heap[k], FALSE)] /\ stats' = stats
         ELSE heap' = heap /\ stats' = Rules!Count(rules, heap)
  BY DEF EnableTriggers, Free
<1>3. View[k] = Rules!Switched(heap[k], FALSE) /\ View' = heap'
  <2>1. View[k] = Rules!Switched(heap[k], FALSE)
    BY <1>1, ViewFacts DEF Types
  <2>2. heap' \in Seq(RuleProofs!AutomationRule)
    BY DEF Types, Shape, RuleProofs!Shape, RuleProofs!RulesOK
  <2>3. heap' = [o \in DOMAIN heap' |-> heap'[o]]
    BY <2>2
  <2>4. View' = heap'
    BY <1>2, <2>3 DEF View
  <2> QED
    BY <2>1, <2>4
<1>4. View[k].enabled = FALSE /\ Registry!Switched(View[k], TRUE) = heap[k]
  <2>1. /\ Rules!Switched(Rules!Switched(heap[k], ~TRUE), TRUE) = Rules!Switched(heap[k], TRUE)
        /\ Rules!Switched(heap[k], TRUE) = heap[k]
        /\ Rules!Switched(heap[k], FALSE).enabled = FALSE
    BY <1>1, SwitchedBack DEF Types
  <2> QED
    BY <1>3, <2>1, RegistryValues
<1>5. sched'.next <= MaxEntries
  BY <1>1, <1>2 DEF Rules!SetupTriggers
<1>6. View = [heap EXCEPT ![k] = Rules!Switched(heap[k], FALSE)]
      /\ heap = [View EXCEPT ![k] = heap[k]]
  <2>1. heap = [o \in DOMAIN heap |-> heap[o]]
    BY ShapeFacts DEF Types
  <2>2. /\ DOMAIN View = DOMAIN heap /\ View[k] = Rules!Switched(heap[k], FALSE)
        /\ \A o \in DOMAIN heap : o # k => View[o] = heap[o]
        /\ View = [o \in DOMAIN heap |-> View[o]]
    BY <1>1, <1>3, ViewFacts DEF Types, View
  <2> QED
    BY <2>1, <2>2
<1>7. /\ rules[r] # Registry!NoObj /\ ~Registry!ObjOf(r).enabled
      /\ Registry!Switched(Registry!ObjOf(r), TRUE) = heap[k]
      /\ Registry!Room
  BY <1>1, <1>4, <1>5, RegistryValues DEF Registry!ObjOf, Registry!Room, View
<1>8. sched' = Registry!SetupTriggers(sched, k, heap[k])
  BY <1>2, RegistrySetup
<1>9. IF Registry!SetupFails(heap[k])
      THEN View' = View /\ stats' = stats
      ELSE View' = [View EXCEPT ![k] = heap[k]] /\ stats' = Registry!Count(rules, View')
  BY <1>2, <1>3, <1>6, RegistryValues, RegistryCount
<1> QED
  BY <1>1, <1>2, <1>7, <1>8, <1>9 DEF Registry!EnableRule, View

LEMMA RegistryInit == Init => Registry!Init
<1> SUFFICES ASSUME Init PROVE Registry!Init
  OBVIOUS
<1>1. Rules!Init /\ heap = << >>
  BY DEF Init, Rules!Init
<1>2. View = << >>
  BY <1>1 DEF View
<1> QED
  BY <1>1, <1>2 DEF Rules!Init, Registry!Init, View, Rules!RuleIds, Registry!RuleIds,
     Rules!NoObj, Registry!NoObj, Rules!TriggerIds, Registry!TriggerIds,
     Rules!NoEntry, Registry!NoEntry

LEMMA SameView ==
  ASSUME Shape, Shape', mu.by # "enable", mu'.by # "enable"
  PROVE  View = heap /\ View' = heap'
<1>1. heap' \in Seq(RuleProofs!AutomationRule)
  BY DEF Shape, RuleProofs!Shape, RuleProofs!RulesOK
<1>2. heap' = [o \in DOMAIN heap' |-> heap'[o]]
  BY <1>1
<1>3. View' = heap'
  BY <1>2 DEF View
<1> QED
  BY <1>3, ViewFacts

(* Nothing but the operations on rules is seen.                               *)
LEMMA IdleHidden ==
  ASSUME Types, Types', [Next]_vars, UNCHANGED ruleVars,
         ~EnableTriggers, \A r \in RuleIds : ~EnableRule(r)
  PROVE  UNCHANGED Registry!ruleVars
<1>1. UNCHANGED <<heap, rules, sched, stats>>
  BY DEF ruleVars
<1>2. CASE UNCHANGED mu
  BY <1>1, <1>2 DEF Registry!ruleVars
<1>3. CASE ~UNCHANGED mu
  <2>1. mu.by # "enable" /\ mu'.by # "enable"
    BY <1>3, LockMoves
       DEF DisableRule, DisableCancel, Stop, StopScheduler, StopReturn, Types, LockOK, Free
  <2>2. View = heap /\ View' = heap'
    BY <2>1, SameView DEF Types
  <2> QED
    BY <1>1, <2>2 DEF Registry!ruleVars, View
<1> QED
  BY <1>2, <1>3

LEMMA RegistryStep ==
  ASSUME Types, Types', [Next]_vars
  PROVE  UNCHANGED Registry!ruleVars \/ Registry!Next
<1>0. Shape /\ Shape'
  BY DEF Types
<1>1. ASSUME mu.by # "enable", mu'.by # "enable" PROVE View = heap /\ View' = heap'
  BY <1>0, <1>1, SameView
<1>2. Free.by # "enable"
  BY DEF Free
<1>3. ASSUME NEW b \in Bodies, AddRule(b) \/ UpdateRule(b) PROVE Registry!Next
  <2>1. View = heap /\ View' = heap'
    BY <1>1, <1>2, <1>3 DEF AddRule, UpdateRule
  <2>2. Rules!AddRule(b) \/ Rules!UpdateRule(b)
    BY <1>3 DEF AddRule, UpdateRule
  <2> QED
    BY <2>1, <2>2, RegistryOperations DEF Registry!Next
<1>4. ASSUME NEW r \in RuleIds, RemoveRule(r) PROVE Registry!Next
  <2>1. View = heap /\ View' = heap' /\ Rules!RemoveRule(r)
    BY <1>1, <1>2, <1>4 DEF RemoveRule
  <2> QED
    BY <2>1, RegistryOperations, RegistryValues DEF Registry!Next
<1>5. ASSUME NEW r \in RuleIds, DisableRule(r) PROVE Registry!Next
  <2>1. View = heap /\ View' = heap' /\ Rules!DisableRule(r)
    BY <1>1, <1>2, <1>5 DEF DisableRule
  <2> QED
    BY <2>1, RegistryOperations, RegistryValues DEF Registry!Next
<1>6. ASSUME NEW r \in RuleIds, EnableRule(r) PROVE UNCHANGED Registry!ruleVars
  BY <1>6, EnableHidden DEF Registry!ruleVars, View
<1>7. CASE EnableTriggers
  <2>1. PICK r : r = mu.rule
    OBVIOUS
  <2>2. Registry!EnableRule(r) /\ r \in Registry!RuleIds
    BY <1>7, <2>1, EnableSeen, RegistryValues
  <2> QED
    BY <2>2 DEF Registry!Next
<1>8. ASSUME UNCHANGED ruleVars, ~EnableTriggers, \A r \in RuleIds : ~EnableRule(r)
      PROVE  UNCHANGED Registry!ruleVars
  BY <1>8, IdleHidden
<1> QED
  BY <1>3, <1>4, <1>5, <1>6, <1>7, <1>8, RuleMoves

(* The engine, with its lock and its executions, does to the rules, the cron  *)
(* entries and the statistics what AutomationRules says and nothing else;     *)
(* EnableRule takes effect when it lets go of the lock.                       *)
THEOREM EngineRefines == Spec => KeepsRegistry
<1>1. Init => Registry!Init
  BY RegistryInit
<1>2. Types /\ Types' /\ [Next]_vars => [UNCHANGED Registry!ruleVars \/ Registry!Next]_vars
  BY RegistryStep
<1>3. Spec => []Types
  BY InvHolds, PTL DEF Inv
<1> QED
  BY <1>1, <1>2, <1>3, PTL DEF Spec, KeepsRegistry

-----------------------------------------------------------------------------
(* Rules that are enabled fire, in the engine too.                            *)
EnabledFires ==
    \A r \in RuleIds :
        /\ rules[r] # 0 /\ heap[rules[r]].enabled
        /\ ~(mu.by = "enable" /\ mu.rule = r)
        => \A i \in DOMAIN heap[rules[r]].triggers :
              \E c \in sched.cron :
                  /\ c.rule = r /\ c.obj = rules[r]
                  /\ c.trig = heap[rules[r]].triggers[i].id
Ready == RuleProofs!Ready(sched, rules, View)

LEMMA ReadyEnough ==
  ASSUME Types, Ready
  PROVE  EnabledFires
<1> SUFFICES ASSUME NEW r \in RuleIds, rules[r] # 0, heap[rules[r]].enabled,
                    ~(mu.by = "enable" /\ mu.rule = r),
                    NEW i \in DOMAIN heap[rules[r]].triggers
             PROVE  \E c \in sched.cron :
                        /\ c.rule = r /\ c.obj = rules[r]
                        /\ c.trig = heap[rules[r]].triggers[i].id
  BY DEF EnabledFires
<1> DEFINE o == rules[r]
<1>1. o \in DOMAIN heap /\ heap[o].id = r
  BY ShapeFacts DEF Types
<1>2. ~(mu.by = "enable" /\ rules[mu.rule] = o)
  BY <1>1, ShapeFacts DEF Types, LockOK
<1>3. View[o] = heap[o]
  BY <1>1, <1>2, ViewFacts DEF Types
<1>4. RuleProofs!Armed(sched, o, heap[o])
  BY <1>3, SameValues DEF Ready, RuleProofs!Ready
<1> QED
  BY <1>1, <1>4 DEF RuleProofs!Armed

LEMMA ReadyEngineStep ==
  ASSUME Types, Types', Ready, [Next]_vars
  PROVE  Ready'
<1>0. Shape /\ Shape'
  BY DEF Types
<1>1. ASSUME View = heap, View' = heap', [RuleProofs!Next]_(RuleProofs!ruleVars)
      PROVE  Ready'
  <2>1. RuleProofs!Ready(sched, rules, heap)
    BY <1>1 DEF Ready
  <2>2. RuleProofs!Ready(sched', rules', heap')
    BY <1>0, <1>1, <2>1, RulesAssumed, RuleProofs!ReadyNext DEF Shape
  <2> QED
    BY <1>1, <2>2 DEF Ready
<1>2. ASSUME mu = Free, mu'.by # "enable" PROVE View = heap /\ View' = heap'
  BY <1>0, <1>2, SameView DEF Free
<1>3. ASSUME NEW b \in Bodies, AddRule(b) \/ UpdateRule(b) PROVE Ready'
  <2>1. View = heap /\ View' = heap'
    BY <1>2, <1>3 DEF AddRule, UpdateRule, Free
  <2> QED
    BY <1>1, <1>3, <2>1, SameOperations DEF AddRule, UpdateRule, RuleProofs!Next
<1>4. ASSUME NEW r \in RuleIds, RemoveRule(r) \/ DisableRule(r) PROVE Ready'
  <2>1. View = heap /\ View' = heap'
    BY <1>2, <1>4 DEF RemoveRule, DisableRule, Free
  <2> QED
    BY <1>1, <1>4, <2>1, SameOperations, SameValues
       DEF RemoveRule, DisableRule, RuleProofs!Next
<1>5. ASSUME UNCHANGED Registry!ruleVars PROVE Ready'
  BY <1>5 DEF Registry!ruleVars, View, Ready
<1>6. ASSUME NEW r \in RuleIds, EnableRule(r) PROVE Ready'
  BY <1>5, <1>6, EnableHidden DEF Registry!ruleVars, View
<1>7. CASE EnableTriggers
  <2> DEFINE r == mu.rule
             k == rules[r]
  <2>1. /\ r \in RuleIds /\ k # 0 /\ k \in DOMAIN heap /\ k \in Nat /\ mu.by = "enable"
        /\ heap[k].enabled = TRUE /\ heap[k].id = r /\ RuleProofs!FromBody(heap[k])
    BY <1>7, ShapeFacts DEF EnableTriggers, Types, LockOK
  <2>2. /\ RuleProofs!RulesOK(rules, View)
        /\ \A q \in RuleIds \ {r} : rules[q] # 0 => View[rules[q]] = heap[rules[q]]
    <3>1. View = [heap EXCEPT ![k] = Rules!Switched(heap[k], FALSE)]
      BY <1>0, <2>1, ViewFacts, ShapeFacts DEF View
    <3>2. \A q \in RuleIds \ {r} : rules[q] # 0 => rules[q] # k /\ rules[q] \in DOMAIN heap
      BY <1>0, <2>1, ShapeFacts
    <3> QED
      BY <1>0, <2>1, <3>1, <3>2, SwitchHeap
  <2>3. /\ mu'.by # "enable" /\ rules' = rules
        /\ sched' = RuleProofs!SetupTriggers(sched, k, heap[k])
        /\ IF RuleProofs!SetupFails(heap[k])
           THEN heap' = [heap EXCEPT ![k] = Rules!Switched(heap[k], FALSE)]
           ELSE heap' = heap
    BY <1>7, SameSetup, SameValues DEF EnableTriggers, Free
  <2>4. View' = heap'
    <3>1. heap' \in Seq(RuleProofs!AutomationRule)
      BY <1>0 DEF Shape, RuleProofs!Shape, RuleProofs!RulesOK
    <3>2. heap' = [o \in DOMAIN heap' |-> heap'[o]]
      BY <3>1
    <3> QED
      BY <2>3, <3>2 DEF View
  <2>5. RuleProofs!SchedOK(sched)
    BY <1>0 DEF Shape, RuleProofs!Shape
  <2>6. RuleProofs!OthersKept(sched, sched', r)
    <3>1. sched.cron \subseteq sched'.cron
      BY <2>1, <2>3, <2>5, RulesAssumed, RuleProofs!SetupKeepsAll
    <3> QED
      BY <3>1 DEF RuleProofs!OthersKept
  <2>7. \A q \in RuleIds \ {r} :
           rules'[q] = rules[q] /\ (rules[q] # 0 => View'[rules[q]] = View[rules[q]])
    <3>1. \A q \in RuleIds \ {r} : rules[q] # 0 => rules[q] # k /\ rules[q] \in DOMAIN heap
      BY <1>0, <2>1, ShapeFacts
    <3> QED
      BY <2>2, <2>3, <2>4, <3>1
  <2>8. rules'[r] # 0 /\ View'[rules'[r]].enabled =>
           /\ ~RuleProofs!SetupFails(View'[rules'[r]])
           /\ RuleProofs!Armed(sched', rules'[r], View'[rules'[r]])
    <3>1. CASE RuleProofs!SetupFails(heap[k])
      <4>1. heap'[k] = Rules!Switched(heap[k], FALSE)
        BY <2>1, <2>3, <3>1
      <4>2. ~heap'[k].enabled
        BY <1>0, <2>1, <4>1, SwitchedBack
      <4> QED
        BY <2>3, <2>4, <4>2
    <3>2. CASE ~RuleProofs!SetupFails(heap[k])
      <4>1. RuleProofs!Armed(sched', k, heap[k])
        BY <2>1, <2>3, <2>5, <3>2, RulesAssumed, RuleProofs!SetupArms
      <4> QED
        BY <2>3, <2>4, <3>2, <4>1
    <3> QED
      BY <3>1, <3>2
  <2> HIDE DEF r, k
  <2> QED
    BY <2>1, <2>2, <2>6, <2>7, <2>8, SameValues, RulesAssumed, RuleProofs!ReadyStep DEF Ready
<1>8. ASSUME UNCHANGED ruleVars, ~EnableTriggers, \A r \in RuleIds : ~EnableRule(r)
      PROVE  UNCHANGED Registry!ruleVars
  BY <1>8, IdleHidden
<1> QED
  BY <1>3, <1>4, <1>5, <1>6, <1>7, <1>8, RuleMoves

(* Each trigger of an enabled rule has an entry in cron that was made for     *)
(* this object, whatever was added, replaced, refused, rolled back, executed  *)
(* or stopped before, except while EnableRule is still setting it up.         *)
THEOREM EngineArmed == Spec => []EnabledFires
<1>1. Init => Ready
  BY SameValues DEF Init, Ready, RuleProofs!Ready, Rules!Init, RuleIds
<1>2. Types /\ Types' /\ Ready /\ [Next]_vars => Ready'
  BY ReadyEngineStep
<1>3. Spec => []Types
  BY InvHolds, PTL DEF Inv
<1>4. Types /\ Ready => EnabledFires
  BY ReadyEnough
<1> QED
  BY <1>1, <1>2, <1>3, <1>4, PTL DEF Spec
=============================================================================
