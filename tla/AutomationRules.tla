-------------------------- MODULE AutomationRules --------------------------
(* The rules of the automation engine and their cron entries.                 *)
(*                                                                            *)
(* Every operation runs under the engine's lock, so one action is one call.   *)
(* A rule is a pointer: rules maps an ID to an object of the heap, an update  *)
(* puts a new object under the ID, and cron entries keep the object they were *)
(* made for.  The scheduler has two tables: cron, the entries that fire, and  *)
(* triggers, which finds an entry by its trigger's ID (of all rules alike)    *)
(* when it must be removed.                                                   *)
(*                                                                            *)
(* Only time triggers are modelled: no other kind has a source of events.     *)
EXTENDS Naturals, Sequences, FiniteSets

CONSTANTS Bodies,      \* the rules clients may send, parsed and validated
          Reposted,    \* the IDs they may POST again while they are in use
          MaxObjs,     \* bound: rule objects made
          MaxEntries   \* bound: cron entry IDs handed out

NoObj == 0

(* A trigger is its ID and whether cron takes it.  Validate passes some that  *)
(* ScheduleTrigger refuses: an interval other than 1, 5, 15, 30 or 60         *)
(* minutes, and every cron expression of five fields, because the cron was    *)
(* made WithSeconds.                                                          *)
Trigger == [id : STRING, ok : BOOLEAN]
Modes == {"single", "parallel", "queued"}
AutomationRule == [id : STRING, enabled : BOOLEAN, mode : Modes,
                   triggers : Seq(Trigger)]

RuleIds == {b.id : b \in Bodies}
TriggerIds == UNION {{b.triggers[i].id : i \in DOMAIN b.triggers} : b \in Bodies}

ASSUME AutomationRulesAssumption ==
    /\ Bodies \subseteq AutomationRule /\ IsFiniteSet(Bodies)
    /\ Reposted \subseteq RuleIds
    /\ MaxObjs \in Nat /\ MaxEntries \in Nat

VARIABLES heap,   \* the rule objects, in the order they were parsed
          rules,  \* ae.rules: the object of each ID, or NoObj
          sched,  \* the scheduler: cron, triggers, and the next EntryID
          stats   \* EngineStatistics: TotalRules and ActiveRules
ruleVars == <<heap, rules, sched, stats>>

Entry == [id : Nat, obj : Nat, rule : RuleIds, trig : TriggerIds]
NoEntry == [id |-> 0]

Init ==
    /\ heap = << >>
    /\ rules = [r \in RuleIds |-> NoObj]
    /\ sched = [cron |-> {}, triggers |-> [t \in TriggerIds |-> NoEntry], next |-> 1]
    /\ stats = [total |-> 0, active |-> 0]

-----------------------------------------------------------------------------
(* ScheduleTrigger for each trigger in turn, up to the first that fails.  An  *)
(* entry made before the failure stays.  A trigger ID that is already in the  *)
(* table is overwritten: its old entry stays in cron, and nothing finds it.   *)
Scheduled(rule) ==
    {i \in DOMAIN rule.triggers : \A j \in 1..i : rule.triggers[j].ok}
SetupFails(rule) == rule.enabled /\ Scheduled(rule) # DOMAIN rule.triggers
NewEntry(s, o, rule, i) ==
    [id |-> s.next + i, obj |-> o, rule |-> rule.id, trig |-> rule.triggers[i].id]
IsLast(rule, i, t) ==
    /\ rule.triggers[i].id = t
    /\ \A j \in Scheduled(rule) : j > i => rule.triggers[j].id # t
Indexed(s, o, rule, t) ==
    IF \E i \in Scheduled(rule) : IsLast(rule, i, t)
    THEN NewEntry(s, o, rule, CHOOSE i \in Scheduled(rule) : IsLast(rule, i, t))
    ELSE s.triggers[t]
SetupTriggers(s, o, rule) ==
    IF ~rule.enabled THEN s
    ELSE [cron |-> s.cron \cup {NewEntry(s, o, rule, i) : i \in Scheduled(rule)},
          triggers |-> [t \in TriggerIds |-> Indexed(s, o, rule, t)],
          next |-> s.next + Len(rule.triggers)]

(* UnscheduleTriggersForRule: the entries the table knows to be the rule's.   *)
Known(s, r) == {t \in TriggerIds : s.triggers[t] # NoEntry /\ s.triggers[t].rule = r}
CleanupTriggers(s, r) ==
    [s EXCEPT !.cron = @ \ {s.triggers[t] : t \in Known(s, r)},
              !.triggers = [t \in TriggerIds |->
                              IF t \in Known(s, r) THEN NoEntry ELSE @[t]]]

Registered(table) == {r \in RuleIds : table[r] # NoObj}
Count(table, objs) ==
    [total |-> Cardinality(Registered(table)),
     active |-> Cardinality({r \in Registered(table) : objs[table[r]].enabled})]

-----------------------------------------------------------------------------
Room == sched'.next <= MaxEntries
NextObj == Len(heap) + 1
Alloc(b) == NextObj <= MaxObjs /\ heap' = Append(heap, b)
ObjOf(r) == heap[rules[r]]
Switched(rule, on) == [rule EXCEPT !.enabled = on]

(* POST /automation/rules, and the import.  An ID in use is not refused: the  *)
(* old object is replaced, its triggers are not cleaned up.                   *)
AddRule(b) ==
    /\ rules[b.id] = NoObj \/ b.id \in Reposted
    /\ Alloc(b)
    /\ sched' = SetupTriggers(sched, NextObj, b) /\ Room
    /\ IF SetupFails(b)
       THEN rules' = [rules EXCEPT ![b.id] = NoObj] /\ UNCHANGED stats
       ELSE /\ rules' = [rules EXCEPT ![b.id] = NextObj]
            /\ stats' = Count(rules', heap')

UpdateRuleLateCleanup(b) ==   \* mutant: the old triggers are removed last
    /\ rules[b.id] # NoObj /\ ~SetupFails(b)
    /\ Alloc(b)
    /\ sched' = CleanupTriggers(SetupTriggers(sched, NextObj, b), b.id)
    /\ rules' = [rules EXCEPT ![b.id] = NextObj]
    /\ stats' = Count(rules', heap')
    /\ Room
(* PUT: when the new triggers cannot be set up the old object comes back; the *)
(* new entries made until then stay.                                          *)
UpdateRule(b) ==
    /\ rules[b.id] # NoObj
    /\ Alloc(b)
    /\ LET s == SetupTriggers(CleanupTriggers(sched, b.id), NextObj, b)
       IN  IF SetupFails(b)
           THEN /\ sched' = SetupTriggers(s, rules[b.id], ObjOf(b.id))
                /\ UNCHANGED <<rules, stats>>
           ELSE /\ sched' = s
                /\ rules' = [rules EXCEPT ![b.id] = NextObj]
                /\ stats' = Count(rules', heap')
    /\ Room

RemoveRule(r) ==
    /\ rules[r] # NoObj
    /\ sched' = CleanupTriggers(sched, r)
    /\ rules' = [rules EXCEPT ![r] = NoObj]
    /\ stats' = Count(rules', heap)
    /\ UNCHANGED heap

(* Set up first, and go back to disabled if that fails.                       *)
EnableRule(r) ==
    /\ rules[r] # NoObj /\ ~ObjOf(r).enabled
    /\ LET on == Switched(ObjOf(r), TRUE)
       IN  /\ sched' = SetupTriggers(sched, rules[r], on) /\ Room
           /\ IF SetupFails(on)
              THEN UNCHANGED <<heap, stats>>
              ELSE /\ heap' = [heap EXCEPT ![rules[r]] = on]
                   /\ stats' = Count(rules, heap')
    /\ UNCHANGED rules

DisableRuleOnly(r) ==   \* mutant: the cron entries stay
    /\ rules[r] # NoObj /\ ObjOf(r).enabled
    /\ heap' = [heap EXCEPT ![rules[r]] = Switched(@, FALSE)]
    /\ stats' = Count(rules, heap')
    /\ UNCHANGED <<rules, sched>>
DisableRule(r) ==
    /\ rules[r] # NoObj /\ ObjOf(r).enabled
    /\ heap' = [heap EXCEPT ![rules[r]] = Switched(@, FALSE)]
    /\ sched' = CleanupTriggers(sched, r)
    /\ stats' = Count(rules, heap')
    /\ UNCHANGED rules

Next ==
    \/ \E b \in Bodies : AddRule(b) \/ UpdateRule(b)
    \/ \E r \in RuleIds : RemoveRule(r) \/ EnableRule(r) \/ DisableRule(r)

Spec == Init /\ [][Next]_ruleVars

-----------------------------------------------------------------------------
(* The variables have these types.                                            *)
TypeOK ==
    /\ heap \in Seq(AutomationRule)
    /\ rules \in [RuleIds -> 0..Len(heap)]
    /\ sched.cron \subseteq Entry
    /\ sched.triggers \in [TriggerIds -> Entry \cup {NoEntry}]
    /\ sched.next \in Nat
    /\ stats \in [total : Nat, active : Nat]

(* A rule that is enabled fires: whatever was added, replaced, refused or     *)
(* rolled back before, each of its triggers has an entry in cron that was     *)
(* made for this object (setupTriggers and cleanupTriggers, called by the     *)
(* five operations).                                                          *)
EnabledRuleArmed ==
    \A r \in RuleIds :
        rules[r] # NoObj /\ ObjOf(r).enabled =>
            \A i \in DOMAIN ObjOf(r).triggers :
                \E c \in sched.cron :
                    /\ c.rule = r /\ c.obj = rules[r]
                    /\ c.trig = ObjOf(r).triggers[i].id

(* Two rules, or two places of one rule, use the trigger ID; the parser calls *)
(* the triggers of every rule trigger_0, trigger_1 and so on.                 *)
SharedTrigger(t) ==
    \E a, b \in Bodies : \E i \in DOMAIN a.triggers, j \in DOMAIN b.triggers :
        /\ a.triggers[i].id = t /\ b.triggers[j].id = t
        /\ a.id # b.id \/ (a = b /\ i # j)
AllScheduled(rule) == Scheduled(rule) = DOMAIN rule.triggers

(* An entry the table knows belongs to the object its rule has now, and that  *)
(* object is enabled; an entry that is left in cron where nothing finds it    *)
(* was pushed out of the table by a trigger of the same ID.  Nothing else     *)
(* fires, except what a refused set-up made before it was refused, and what   *)
(* is left of an object when its ID is posted again.                          *)
EntriesOwned ==
    \A c \in sched.cron :
        \/ ~AllScheduled(heap[c.obj])
        \/ c.rule \in Reposted /\ rules[c.rule] # c.obj
        \/ IF sched.triggers[c.trig] = c
           THEN rules[c.rule] = c.obj /\ heap[c.obj].enabled
           ELSE SharedTrigger(c.trig)

(* TotalRules and ActiveRules agree with the rules: updateStats is called     *)
(* after every change, a refused one changes nothing they count.              *)
StatsAgree == stats = Count(rules, heap)
=============================================================================
