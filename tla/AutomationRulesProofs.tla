----------------------- MODULE AutomationRulesProofs -----------------------
(* Theorems about AutomationRules for every set of rules clients may send.    *)
EXTENDS AutomationRules, FiniteSetTheorems, TLAPS

(* A rule as it was sent, except perhaps for being enabled.                   *)
FromBody(rule) ==
    /\ rule \in AutomationRule
    /\ \E b \in Bodies : rule.id = b.id /\ rule.triggers = b.triggers

(* The scheduler's tables have their types.                                   *)
SchedOK(s) ==
    /\ s \in [cron : SUBSET Entry, triggers : [TriggerIds -> Entry \cup {NoEntry}],
              next : Nat]

(* Rules are objects of the heap, under their own IDs.                        *)
RulesOK(table, objs) ==
    /\ objs \in Seq(AutomationRule)
    /\ \A o \in DOMAIN objs : FromBody(objs[o])
    /\ table \in [RuleIds -> 0..Len(objs)]
    /\ \A r \in RuleIds : table[r] # NoObj => objs[table[r]].id = r

Shape == SchedOK(sched) /\ RulesOK(rules, heap)

-----------------------------------------------------------------------------
(* Values.                                                                    *)

LEMMA BodyFacts ==
  ASSUME NEW b \in Bodies
  PROVE  b \in AutomationRule /\ FromBody(b) /\ b.id \in RuleIds
  BY AutomationRulesAssumption DEF FromBody, RuleIds

LEMMA FromBodyFacts ==
  ASSUME NEW rule, FromBody(rule)
  PROVE  /\ rule.id \in RuleIds
         /\ rule.triggers \in Seq(Trigger)
         /\ \A i \in DOMAIN rule.triggers : rule.triggers[i].id \in TriggerIds
  BY DEF FromBody, RuleIds, TriggerIds, AutomationRule

LEMMA SwitchedFacts ==
  ASSUME NEW rule, FromBody(rule), NEW on \in BOOLEAN
  PROVE  LET switched == Switched(rule, on)
         IN  /\ FromBody(switched) /\ switched.enabled = on
             /\ switched.id = rule.id /\ switched.triggers = rule.triggers
  BY DEF FromBody, AutomationRule, Switched

LEMMA ScheduledSubset ==
  ASSUME NEW rule, FromBody(rule)
  PROVE  Scheduled(rule) \subseteq DOMAIN rule.triggers /\ DOMAIN rule.triggers \subseteq Nat \ {0}
  BY FromBodyFacts DEF Scheduled

LEMMA NewEntryFacts ==
  ASSUME NEW s, SchedOK(s), NEW o \in Nat, NEW rule, FromBody(rule),
         NEW i \in Scheduled(rule)
  PROVE  LET c == NewEntry(s, o, rule, i)
         IN  /\ c \in Entry /\ c # NoEntry
             /\ c.obj = o /\ c.rule = rule.id /\ c.trig = rule.triggers[i].id
<1> DEFINE c == NewEntry(s, o, rule, i)
<1>1. i \in Nat \ {0} /\ i \in DOMAIN rule.triggers
  BY ScheduledSubset
<1>2. s.next \in Nat /\ s.next + i # 0
  BY <1>1 DEF SchedOK
<1>3. c.id = s.next + i /\ c.obj = o /\ c.rule = rule.id /\ c.trig = rule.triggers[i].id
  BY DEF NewEntry
<1>4. c \in Entry
  BY <1>1, <1>2, FromBodyFacts DEF NewEntry, Entry
<1> QED
  BY <1>2, <1>3, <1>4 DEF NoEntry

-----------------------------------------------------------------------------
(* Setting up triggers: fields, types, what is added and what is kept.        *)

LEMMA SetupFields ==
  ASSUME NEW s, SchedOK(s), NEW o, NEW rule, FromBody(rule), rule.enabled = TRUE
  PROVE  LET new == SetupTriggers(s, o, rule)
         IN  /\ \A c : c \in new.cron <=>
                    \/ c \in s.cron
                    \/ \E i \in Scheduled(rule) : c = NewEntry(s, o, rule, i)
             /\ \A t \in TriggerIds : new.triggers[t] = Indexed(s, o, rule, t)
  BY DEF SetupTriggers

LEMMA SetupDisabled ==
  ASSUME NEW s, NEW o, NEW rule, rule.enabled = FALSE
  PROVE  SetupTriggers(s, o, rule) = s
  BY DEF SetupTriggers

LEMMA EnabledOrNot ==
  ASSUME NEW rule, FromBody(rule)
  PROVE  rule.enabled = TRUE \/ rule.enabled = FALSE
  BY DEF FromBody, AutomationRule

(* The entry the table gets for a trigger ID is the old one or a new one.     *)
LEMMA IndexedFacts ==
  ASSUME NEW s, SchedOK(s), NEW o \in Nat, NEW rule, FromBody(rule),
         NEW t \in TriggerIds
  PROVE  \/ /\ Indexed(s, o, rule, t) = s.triggers[t]
            /\ \A i \in Scheduled(rule) : ~IsLast(rule, i, t)
         \/ \E i \in Scheduled(rule) :
               /\ rule.triggers[i].id = t
               /\ Indexed(s, o, rule, t) = NewEntry(s, o, rule, i)
<1>1. CASE \E i \in Scheduled(rule) : IsLast(rule, i, t)
  <2>1. PICK i \in Scheduled(rule) :
           /\ IsLast(rule, i, t)
           /\ i = CHOOSE j \in Scheduled(rule) : IsLast(rule, j, t)
    BY <1>1
  <2> QED
    BY <1>1, <2>1 DEF Indexed, IsLast
<1>2. CASE ~\E i \in Scheduled(rule) : IsLast(rule, i, t)
  BY <1>2 DEF Indexed
<1> QED
  BY <1>1, <1>2

LEMMA SetupType ==
  ASSUME NEW s, SchedOK(s), NEW o \in Nat, NEW rule, FromBody(rule)
  PROVE  SchedOK(SetupTriggers(s, o, rule))
<1> DEFINE new == SetupTriggers(s, o, rule)
<1>1. CASE ~rule.enabled
  BY <1>1 DEF SetupTriggers
<1>2. CASE rule.enabled
  <2>1. \A i \in Scheduled(rule) : NewEntry(s, o, rule, i) \in Entry
    BY NewEntryFacts
  <2>2. {NewEntry(s, o, rule, i) : i \in Scheduled(rule)} \subseteq Entry
    BY <2>1
  <2>3. \A t \in TriggerIds : Indexed(s, o, rule, t) \in Entry \cup {NoEntry}
    BY <2>1, IndexedFacts DEF SchedOK
  <2>4. s.next + Len(rule.triggers) \in Nat
    BY FromBodyFacts DEF SchedOK
  <2>5. s.cron \in SUBSET Entry
    BY DEF SchedOK
  <2>6. new = [cron |-> s.cron \cup {NewEntry(s, o, rule, i) : i \in Scheduled(rule)},
               triggers |-> [t \in TriggerIds |-> Indexed(s, o, rule, t)],
               next |-> s.next + Len(rule.triggers)]
    BY <1>2 DEF SetupTriggers
  <2> QED
    BY <2>2, <2>3, <2>4, <2>5, <2>6 DEF SchedOK
<1> QED
  BY <1>1, <1>2

LEMMA CleanupFields ==
  ASSUME NEW s, SchedOK(s), NEW r
  PROVE  LET new == CleanupTriggers(s, r)
         IN  /\ \A c : c \in new.cron <=>
                    c \in s.cron /\ \A t \in Known(s, r) : c # s.triggers[t]
             /\ \A t \in TriggerIds :
                    new.triggers[t] = IF t \in Known(s, r) THEN NoEntry ELSE s.triggers[t]
             /\ SchedOK(new)
<1> DEFINE less == [s EXCEPT !.cron = @ \ {s.triggers[t] : t \in Known(s, r)}]
           table == [t \in TriggerIds |->
                       IF t \in Known(s, r) THEN NoEntry ELSE s.triggers[t]]
<1>1. /\ SchedOK(less) /\ less.cron = s.cron \ {s.triggers[t] : t \in Known(s, r)}
      /\ less.triggers = s.triggers
  BY DEF SchedOK
<1>2. table \in [TriggerIds -> Entry \cup {NoEntry}]
  BY DEF SchedOK
<1> HIDE DEF less
<1>3. CleanupTriggers(s, r) = [less EXCEPT !.triggers = table]
  BY <1>1 DEF CleanupTriggers, less
<1> HIDE DEF table
<1>4. LET new == [less EXCEPT !.triggers = table]
      IN  new.cron = less.cron /\ new.triggers = table /\ SchedOK(new)
  BY <1>1, <1>2 DEF SchedOK
<1>5. \A t \in TriggerIds :
         table[t] = IF t \in Known(s, r) THEN NoEntry ELSE s.triggers[t]
  BY DEF table
<1> QED
  BY <1>1, <1>3, <1>4, <1>5

-----------------------------------------------------------------------------
(* The heap and the table of rules.                                           *)

LEMMA CountType ==
  ASSUME NEW table, NEW objs
  PROVE  Count(table, objs) \in [total : Nat, active : Nat]
<1> DEFINE id == [b \in Bodies |-> b.id]
<1>0. id \in Surjection(Bodies, RuleIds)
  BY DEF RuleIds, Surjection
<1>1. IsFiniteSet(RuleIds)
  BY <1>0, AutomationRulesAssumption, FS_Surjection
<1>2. IsFiniteSet(Registered(table))
  BY <1>1, FS_Subset DEF Registered
<1>3. IsFiniteSet({r \in Registered(table) : objs[table[r]].enabled})
  BY <1>2, FS_Subset
<1> QED
  BY <1>2, <1>3, FS_CardinalityType DEF Count

(* A new object changes no object; the rule's ID may go to it, or to none.    *)
LEMMA AllocRules ==
  ASSUME NEW table, NEW objs, RulesOK(table, objs), NEW b \in Bodies
  PROVE  LET more == Append(objs, b)
             o == Len(objs) + 1
         IN  /\ o \in Nat /\ o # NoObj /\ o \in DOMAIN more /\ more[o] = b
             /\ \A k \in DOMAIN objs : k \in DOMAIN more /\ more[k] = objs[k]
             /\ RulesOK(table, more)
             /\ RulesOK([table EXCEPT ![b.id] = o], more)
             /\ RulesOK([table EXCEPT ![b.id] = NoObj], more)
<1> DEFINE more == Append(objs, b)
           o == Len(objs) + 1
<1>1. b \in AutomationRule /\ FromBody(b) /\ b.id \in RuleIds
  BY BodyFacts
<1>2. /\ objs \in Seq(AutomationRule) /\ Len(objs) \in Nat
      /\ DOMAIN objs = 1..Len(objs)
  BY DEF RulesOK
<1>3. /\ more \in Seq(AutomationRule) /\ Len(more) = o /\ DOMAIN more = 1..o
      /\ more[o] = b /\ \A k \in 1..Len(objs) : more[k] = objs[k]
  BY <1>1, <1>2
<1>4. \A k \in DOMAIN more : FromBody(more[k])
  BY <1>1, <1>2, <1>3 DEF RulesOK
<1>5. \A r \in RuleIds : table[r] # NoObj => more[table[r]].id = r
  BY <1>2, <1>3 DEF RulesOK, NoObj
<1>6. table \in [RuleIds -> 0..Len(more)]
  BY <1>2, <1>3 DEF RulesOK
<1> HIDE DEF more
<1>7. \A v \in {o, NoObj} :
         /\ [table EXCEPT ![b.id] = v] \in [RuleIds -> 0..Len(more)]
         /\ \A r \in RuleIds : [table EXCEPT ![b.id] = v][r] # NoObj =>
                more[[table EXCEPT ![b.id] = v][r]].id = r
  BY <1>1, <1>2, <1>3, <1>5, <1>6 DEF NoObj
<1>8. RulesOK(table, more)
  BY <1>3, <1>4, <1>5, <1>6 DEF RulesOK
<1>9. \A v \in {o, NoObj} : RulesOK([table EXCEPT ![b.id] = v], more)
  BY <1>3, <1>4, <1>7 DEF RulesOK
<1> QED
  BY <1>2, <1>3, <1>8, <1>9 DEF NoObj, more

(* Switching an object on or off keeps its triggers and all other objects.    *)
LEMMA SwitchRules ==
  ASSUME NEW table, NEW objs, RulesOK(table, objs), NEW k \in DOMAIN objs,
         NEW on \in BOOLEAN
  PROVE  LET rule == Switched(objs[k], on)
             switched == [objs EXCEPT ![k] = rule]
         IN  /\ RulesOK(table, switched)
             /\ DOMAIN switched = DOMAIN objs /\ switched[k] = rule
             /\ \A j \in DOMAIN objs : j # k => switched[j] = objs[j]
<1> DEFINE rule == Switched(objs[k], on)
           switched == [objs EXCEPT ![k] = rule]
<1>1. FromBody(rule) /\ rule.id = objs[k].id
  BY SwitchedFacts DEF RulesOK
<1>7. rule \in AutomationRule
  BY <1>1 DEF FromBody
<1> HIDE DEF rule
<1>2. objs \in Seq(AutomationRule)
  BY DEF RulesOK
<1>3. /\ switched \in Seq(AutomationRule) /\ Len(switched) = Len(objs)
      /\ DOMAIN switched = DOMAIN objs /\ switched[k] = rule
      /\ \A j \in DOMAIN objs : j # k => switched[j] = objs[j]
  BY <1>7, <1>2
<1>4. \A j \in DOMAIN switched : FromBody(switched[j]) /\ switched[j].id = objs[j].id
  BY <1>1, <1>3 DEF RulesOK
<1>5. \A r \in RuleIds : table[r] # NoObj => table[r] \in DOMAIN objs
  BY <1>2 DEF RulesOK, NoObj
<1> HIDE DEF switched
<1>6. RulesOK(table, switched)
  BY <1>3, <1>4, <1>5 DEF RulesOK
<1> QED
  BY <1>3, <1>6 DEF switched, rule

LEMMA RegisteredObject ==
  ASSUME RulesOK(rules, heap), NEW r \in RuleIds, rules[r] # NoObj
  PROVE  /\ rules[r] \in DOMAIN heap /\ rules[r] \in Nat
         /\ FromBody(ObjOf(r)) /\ ObjOf(r).id = r
<1>1. rules[r] \in DOMAIN heap /\ rules[r] \in Nat
  BY DEF RulesOK, NoObj
<1> QED
  BY <1>1 DEF RulesOK, ObjOf

-----------------------------------------------------------------------------
(* Shape is inductive.                                                        *)

LEMMA ShapeInit == Init => Shape
<1> SUFFICES ASSUME Init PROVE Shape
  OBVIOUS
<1>1. SchedOK(sched)
  BY DEF Init, SchedOK
<1>2. RulesOK(rules, heap)
  BY DEF Init, RulesOK, NoObj
<1> QED
  BY <1>1, <1>2 DEF Shape

LEMMA ShapeNext == Shape /\ [Next]_ruleVars => Shape'
<1> SUFFICES ASSUME Shape, [Next]_ruleVars PROVE Shape'
  OBVIOUS
<1> USE DEF Shape
<1>1. ASSUME NEW b \in Bodies, AddRule(b) PROVE Shape'
  <2>1. FromBody(b) /\ NextObj \in Nat
    BY BodyFacts, AllocRules DEF NextObj
  <2>2. SchedOK(sched')
    BY <1>1, <2>1, SetupType DEF AddRule
  <2>3. RulesOK(rules', heap')
    <3>1. /\ RulesOK([rules EXCEPT ![b.id] = NextObj], heap')
          /\ RulesOK([rules EXCEPT ![b.id] = NoObj], heap')
      BY <1>1, AllocRules DEF AddRule, Alloc, NextObj
    <3>2. rules' \in {[rules EXCEPT ![b.id] = NextObj], [rules EXCEPT ![b.id] = NoObj]}
      BY <1>1 DEF AddRule
    <3> QED
      BY <3>1, <3>2
  <2> QED
    BY <2>2, <2>3
<1>2. ASSUME NEW b \in Bodies, UpdateRule(b) PROVE Shape'
  <2>1. FromBody(b) /\ b.id \in RuleIds /\ NextObj \in Nat
    BY BodyFacts, AllocRules DEF NextObj
  <2>2. SchedOK(CleanupTriggers(sched, b.id))
    BY CleanupFields
  <2>3. SchedOK(SetupTriggers(CleanupTriggers(sched, b.id), NextObj, b))
    BY <2>1, <2>2, SetupType
  <2>4. FromBody(ObjOf(b.id)) /\ rules[b.id] \in Nat
    BY <1>2, <2>1, RegisteredObject DEF UpdateRule
  <2>5. SchedOK(sched')
    BY <1>2, <2>3, <2>4, SetupType DEF UpdateRule
  <2>6. RulesOK(rules', heap')
    <3>1. RulesOK([rules EXCEPT ![b.id] = NextObj], heap') /\ RulesOK(rules, heap')
      BY <1>2, AllocRules DEF UpdateRule, Alloc, NextObj
    <3>2. rules' \in {[rules EXCEPT ![b.id] = NextObj], rules}
      BY <1>2 DEF UpdateRule
    <3> QED
      BY <3>1, <3>2
  <2> QED
    BY <2>5, <2>6
<1>3. ASSUME NEW r \in RuleIds, RemoveRule(r) PROVE Shape'
  <2>1. SchedOK(sched')
    BY <1>3, CleanupFields DEF RemoveRule
  <2>2. RulesOK(rules', heap')
    BY <1>3 DEF RemoveRule, RulesOK, NoObj
  <2> QED
    BY <2>1, <2>2
<1>4. ASSUME NEW r \in RuleIds, EnableRule(r) PROVE Shape'
  <2>1. /\ rules[r] \in DOMAIN heap /\ rules[r] \in Nat
        /\ FromBody(Switched(ObjOf(r), TRUE))
    BY <1>4, RegisteredObject, SwitchedFacts DEF EnableRule
  <2>2. SchedOK(sched')
    BY <1>4, <2>1, SetupType DEF EnableRule
  <2>3. RulesOK(rules', heap')
    <3>1. RulesOK(rules, [heap EXCEPT ![rules[r]] = Switched(ObjOf(r), TRUE)])
      BY <2>1, SwitchRules DEF ObjOf
    <3>2. /\ heap' \in {[heap EXCEPT ![rules[r]] = Switched(ObjOf(r), TRUE)], heap}
          /\ rules' = rules
      BY <1>4 DEF EnableRule
    <3> QED
      BY <3>1, <3>2
  <2> QED
    BY <2>2, <2>3
<1>5. ASSUME NEW r \in RuleIds, DisableRule(r) PROVE Shape'
  <2>1. rules[r] \in DOMAIN heap
    BY <1>5, RegisteredObject DEF DisableRule
  <2>2. SchedOK(sched')
    BY <1>5, CleanupFields DEF DisableRule
  <2>3. RulesOK(rules', heap')
    <3>1. RulesOK(rules, [heap EXCEPT ![rules[r]] = Switched(heap[rules[r]], FALSE)])
      BY <2>1, SwitchRules
    <3> QED
      BY <1>5, <3>1 DEF DisableRule
  <2> QED
    BY <2>2, <2>3
<1>6. CASE UNCHANGED ruleVars
  BY <1>6 DEF ruleVars, SchedOK, RulesOK
<1> QED
  BY <1>1, <1>2, <1>3, <1>4, <1>5, <1>6 DEF Next

(* The variables keep their types.                                            *)
THEOREM TypeCorrect == Spec => []TypeOK
<1> DEFINE StatsOK == stats \in [total : Nat, active : Nat]
<1>1. Init => Shape /\ StatsOK
  BY ShapeInit DEF Init
<1>2. StatsOK /\ [Next]_ruleVars => StatsOK'
  <2>1. [Next]_ruleVars => stats' = stats \/ stats' = Count(rules', heap')
    BY DEF Next, AddRule, UpdateRule, RemoveRule, EnableRule, DisableRule, ruleVars
  <2> QED
    BY <2>1, CountType
<1>3. Shape /\ StatsOK => TypeOK
  BY DEF Shape, SchedOK, RulesOK, TypeOK
<1> QED
  BY <1>1, <1>2, <1>3, ShapeNext, PTL DEF Spec

-----------------------------------------------------------------------------
(* Enabled rules are armed.                                                   *)

Armed(s, o, rule) ==
    \A i \in DOMAIN rule.triggers :
        \E c \in s.cron :
            c.rule = rule.id /\ c.obj = o /\ c.trig = rule.triggers[i].id

(* What an enabled rule needs besides, so that UpdateRule can restore it: its *)
(* triggers were all accepted once, and will be again.                        *)
Ready(s, table, objs) ==
    \A r \in RuleIds :
        table[r] # NoObj /\ objs[table[r]].enabled =>
            ~SetupFails(objs[table[r]]) /\ Armed(s, table[r], objs[table[r]])

LEMMA SetupArms ==
  ASSUME NEW s, SchedOK(s), NEW o \in Nat, NEW rule, FromBody(rule),
         rule.enabled = TRUE, ~SetupFails(rule)
  PROVE  Armed(SetupTriggers(s, o, rule), o, rule)
<1> DEFINE new == SetupTriggers(s, o, rule)
<1> SUFFICES ASSUME NEW i \in DOMAIN rule.triggers
             PROVE  \E c \in new.cron :
                      c.rule = rule.id /\ c.obj = o /\ c.trig = rule.triggers[i].id
  BY DEF Armed
<1>1. i \in Scheduled(rule)
  BY DEF SetupFails
<1>2. NewEntry(s, o, rule, i) \in new.cron
  BY <1>1, SetupFields
<1> QED
  BY <1>1, <1>2, NewEntryFacts

(* Cron entries of other rules survive what is done to a rule.                *)
OthersKept(s, new, r) == \A c \in s.cron : c.rule # r => c \in new.cron

LEMMA CleanupKeepsOthers ==
  ASSUME NEW s, SchedOK(s), NEW r
  PROVE  OthersKept(s, CleanupTriggers(s, r), r)
<1>1. \A t \in Known(s, r) : s.triggers[t].rule = r
  BY DEF Known
<1> QED
  BY <1>1, CleanupFields DEF OthersKept

LEMMA SetupKeepsAll ==
  ASSUME NEW s, SchedOK(s), NEW o, NEW rule, FromBody(rule)
  PROVE  s.cron \subseteq SetupTriggers(s, o, rule).cron
<1>1. CASE rule.enabled = TRUE
  BY <1>1, SetupFields
<1>2. CASE rule.enabled = FALSE
  BY <1>2, SetupDisabled
<1> QED
  BY <1>1, <1>2, EnabledOrNot

(* One rule changes: the others stay ready, and it is if it was seen to.      *)
LEMMA ReadyStep ==
  ASSUME NEW s, NEW table, NEW objs, RulesOK(table, objs), Ready(s, table, objs),
         NEW new, NEW after, NEW more, NEW r \in RuleIds,
         OthersKept(s, new, r),
         \A q \in RuleIds \ {r} :
            /\ after[q] = table[q]
            /\ table[q] # NoObj => more[table[q]] = objs[table[q]],
         after[r] # NoObj /\ more[after[r]].enabled =>
            ~SetupFails(more[after[r]]) /\ Armed(new, after[r], more[after[r]])
  PROVE  Ready(new, after, more)
<1> SUFFICES ASSUME NEW q \in RuleIds, q # r,
                    after[q] # NoObj, more[after[q]].enabled
             PROVE  ~SetupFails(more[after[q]]) /\ Armed(new, after[q], more[after[q]])
  BY DEF Ready
<1>1. /\ after[q] = table[q] /\ more[after[q]] = objs[table[q]]
      /\ objs[table[q]].id = q
  BY DEF RulesOK
<1>2. ~SetupFails(objs[table[q]]) /\ Armed(s, table[q], objs[table[q]])
  BY <1>1 DEF Ready
<1>3. Armed(new, table[q], objs[table[q]])
  BY <1>1, <1>2 DEF Armed, OthersKept
<1> QED
  BY <1>1, <1>2, <1>3

LEMMA ReadyNext == Shape /\ Ready(sched, rules, heap) /\ [Next]_ruleVars
                     => Ready(sched, rules, heap)'
<1> SUFFICES ASSUME Shape, Ready(sched, rules, heap), [Next]_ruleVars
             PROVE  Ready(sched', rules', heap')
  OBVIOUS
<1> USE DEF Shape
<1>0. \A r \in RuleIds : rules[r] # NoObj => rules[r] \in DOMAIN heap
  BY RegisteredObject
<1>1. ASSUME NEW b \in Bodies, AddRule(b) PROVE Ready(sched', rules', heap')
  <2>1. FromBody(b) /\ b.id \in RuleIds /\ NextObj \in Nat
    BY BodyFacts, AllocRules DEF NextObj
  <2>2. /\ heap'[NextObj] = b
        /\ \A k \in DOMAIN heap : heap'[k] = heap[k]
    BY <1>1, AllocRules DEF AddRule, Alloc, NextObj
  <2>3. OthersKept(sched, sched', b.id)
    BY <1>1, <2>1, SetupKeepsAll DEF AddRule, OthersKept
  <2>4. \A q \in RuleIds \ {b.id} : rules'[q] = rules[q]
    BY <1>1 DEF AddRule, RulesOK
  <2>5. ASSUME rules'[b.id] # NoObj, heap'[rules'[b.id]].enabled
        PROVE  /\ ~SetupFails(heap'[rules'[b.id]])
               /\ Armed(sched', rules'[b.id], heap'[rules'[b.id]])
    <3>1. ~SetupFails(b) /\ rules'[b.id] = NextObj
      BY <1>1, <2>1, <2>5 DEF AddRule, RulesOK
    <3>2. b.enabled = TRUE
      BY <2>1, <2>2, <2>5, <3>1, EnabledOrNot
    <3>3. Armed(sched', NextObj, b)
      BY <1>1, <2>1, <3>1, <3>2, SetupArms DEF AddRule
    <3> QED
      BY <2>2, <3>1, <3>3
  <2>6. \A q \in RuleIds \ {b.id} :
           rules'[q] = rules[q] /\ (rules[q] # NoObj => heap'[rules[q]] = heap[rules[q]])
    BY <1>0, <2>2, <2>4
  <2> QED
    BY <2>1, <2>3, <2>5, <2>6, ReadyStep
<1>2. ASSUME NEW b \in Bodies, UpdateRule(b) PROVE Ready(sched', rules', heap')
  <2> DEFINE clean == CleanupTriggers(sched, b.id)
             s == SetupTriggers(clean, NextObj, b)
             old == ObjOf(b.id)
  <2>1. FromBody(b) /\ b.id \in RuleIds /\ NextObj \in Nat
    BY BodyFacts, AllocRules DEF NextObj
  <2>2. /\ heap'[NextObj] = b
        /\ \A k \in DOMAIN heap : heap'[k] = heap[k]
    BY <1>2, AllocRules DEF UpdateRule, Alloc, NextObj
  <2>3. FromBody(old) /\ rules[b.id] \in Nat /\ rules[b.id] # NoObj
    BY <1>2, <2>1, RegisteredObject DEF UpdateRule
  <2>4. SchedOK(clean) /\ SchedOK(s)
    BY <2>1, CleanupFields, SetupType
  <2>5. OthersKept(sched, s, b.id)
    BY <2>1, <2>4, CleanupKeepsOthers, SetupKeepsAll DEF OthersKept
  <2>6. CASE SetupFails(b)
    <3>1. /\ sched' = SetupTriggers(s, rules[b.id], old)
          /\ rules' = rules
      BY <1>2, <2>6 DEF UpdateRule
    <3> HIDE DEF s, clean
    <3>2. OthersKept(sched, sched', b.id)
      BY <2>3, <2>4, <2>5, <3>1, SetupKeepsAll DEF OthersKept
    <3>3. heap'[rules[b.id]] = old
      BY <1>0, <2>1, <2>2, <2>3 DEF ObjOf
    <3>4. ASSUME old.enabled
          PROVE  ~SetupFails(old) /\ Armed(sched', rules[b.id], old)
      <4>1. ~SetupFails(old) /\ old.enabled = TRUE
        BY <2>1, <2>3, <3>4, EnabledOrNot DEF Ready, ObjOf
      <4> QED
        BY <2>3, <2>4, <3>1, <4>1, SetupArms
    <3> HIDE DEF old
    <3>5. heap'[rules[b.id]].enabled =>
             /\ ~SetupFails(heap'[rules[b.id]])
             /\ Armed(sched', rules[b.id], heap'[rules[b.id]])
      BY <3>3, <3>4
    <3> QED
      BY <1>0, <2>1, <2>2, <3>1, <3>2, <3>5, ReadyStep
  <2>7. CASE ~SetupFails(b)
    <3>1. /\ sched' = s
          /\ rules' = [rules EXCEPT ![b.id] = NextObj]
      BY <1>2, <2>7 DEF UpdateRule
    <3>2. b.enabled => Armed(s, NextObj, b)
      BY <2>1, <2>4, <2>7, EnabledOrNot, SetupArms
    <3> HIDE DEF s, clean
    <3>3. /\ rules'[b.id] = NextObj
          /\ \A q \in RuleIds \ {b.id} : rules'[q] = rules[q]
      BY <2>1, <3>1 DEF RulesOK
    <3>4. OthersKept(sched, sched', b.id)
      BY <2>5, <3>1
    <3>5. heap'[rules'[b.id]].enabled =>
             /\ ~SetupFails(heap'[rules'[b.id]])
             /\ Armed(sched', rules'[b.id], heap'[rules'[b.id]])
      BY <2>2, <2>7, <3>1, <3>2, <3>3
    <3> QED
      BY <1>0, <2>1, <2>2, <3>3, <3>4, <3>5, ReadyStep
  <2> QED
    BY <2>6, <2>7
<1>3. ASSUME NEW r \in RuleIds, RemoveRule(r) PROVE Ready(sched', rules', heap')
  <2>1. OthersKept(sched, sched', r)
    BY <1>3, CleanupKeepsOthers DEF RemoveRule
  <2>2. /\ rules'[r] = NoObj /\ heap' = heap
        /\ \A q \in RuleIds \ {r} : rules'[q] = rules[q]
    BY <1>3 DEF RemoveRule, RulesOK
  <2> QED
    BY <2>1, <2>2, ReadyStep
<1>4. ASSUME NEW r \in RuleIds, EnableRule(r) PROVE Ready(sched', rules', heap')
  <2> DEFINE on == Switched(ObjOf(r), TRUE)
  <2>1. /\ rules[r] \in DOMAIN heap /\ rules[r] \in Nat /\ FromBody(on)
        /\ on.enabled = TRUE /\ ~ObjOf(r).enabled
    BY <1>4, RegisteredObject, SwitchedFacts DEF EnableRule
  <2>2. \A q \in RuleIds \ {r} : rules[q] # NoObj => rules[q] # rules[r]
    BY <1>4 DEF EnableRule, RulesOK
  <2>3. sched' = SetupTriggers(sched, rules[r], on) /\ rules' = rules
    BY <1>4 DEF EnableRule
  <2>4. OthersKept(sched, sched', r)
    BY <2>1, <2>3, SetupKeepsAll DEF OthersKept
  <2>5. CASE SetupFails(on)
    <3>1. heap' = heap
      BY <1>4, <2>5 DEF EnableRule
    <3> QED
      BY <2>1, <2>3, <2>4, <3>1, ReadyStep DEF ObjOf
  <2>6. CASE ~SetupFails(on)
    <3>1. heap' = [heap EXCEPT ![rules[r]] = on]
      BY <1>4, <2>6 DEF EnableRule
    <3>2. /\ heap'[rules[r]] = on
          /\ \A k \in DOMAIN heap : k # rules[r] => heap'[k] = heap[k]
      BY <2>1, <3>1, SwitchRules DEF ObjOf
    <3>3. Armed(sched', rules[r], on)
      BY <2>1, <2>3, <2>6, SetupArms
    <3>4. \A q \in RuleIds \ {r} :
             rules'[q] = rules[q] /\ (rules[q] # NoObj => heap'[rules[q]] = heap[rules[q]])
      BY <1>0, <2>2, <2>3, <3>2
    <3>5. /\ ~SetupFails(heap'[rules'[r]])
          /\ Armed(sched', rules'[r], heap'[rules'[r]])
      BY <2>3, <2>6, <3>2, <3>3
    <3> QED
      BY <2>4, <3>4, <3>5, ReadyStep
  <2> QED
    BY <2>5, <2>6
<1>5. ASSUME NEW r \in RuleIds, DisableRule(r) PROVE Ready(sched', rules', heap')
  <2>1. rules[r] \in DOMAIN heap /\ FromBody(ObjOf(r)) /\ rules' = rules
    BY <1>5, RegisteredObject DEF DisableRule
  <2>2. \A q \in RuleIds \ {r} : rules[q] # NoObj => rules[q] # rules[r]
    BY <1>5 DEF DisableRule, RulesOK
  <2>3. OthersKept(sched, sched', r)
    BY <1>5, CleanupKeepsOthers DEF DisableRule
  <2>4. /\ heap'[rules[r]] = Switched(heap[rules[r]], FALSE)
        /\ \A k \in DOMAIN heap : k # rules[r] => heap'[k] = heap[k]
    BY <1>5, <2>1, SwitchRules DEF DisableRule
  <2>5. Switched(ObjOf(r), FALSE).enabled = FALSE
    BY <2>1, SwitchedFacts
  <2>6. ~heap'[rules'[r]].enabled
    BY <2>1, <2>4, <2>5 DEF ObjOf
  <2>7. \A q \in RuleIds \ {r} :
           rules'[q] = rules[q] /\ (rules[q] # NoObj => heap'[rules[q]] = heap[rules[q]])
    BY <1>0, <2>1, <2>2, <2>4
  <2> QED
    BY <2>3, <2>6, <2>7, ReadyStep
<1>6. CASE UNCHANGED ruleVars
  BY <1>6 DEF ruleVars
<1> QED
  BY <1>1, <1>2, <1>3, <1>4, <1>5, <1>6 DEF Next

(* An enabled rule is armed, whatever requests came before: the one way back  *)
(* from a failed update sets up triggers that were accepted once already.     *)
THEOREM ArmedHolds == Spec => []EnabledRuleArmed
<1>1. Init => Shape /\ Ready(sched, rules, heap)
  BY ShapeInit DEF Init, Ready
<1>2. Shape /\ Ready(sched, rules, heap) => EnabledRuleArmed
  BY RegisteredObject DEF Shape, Ready, Armed, EnabledRuleArmed, ObjOf
<1> QED
  BY <1>1, <1>2, ShapeNext, ReadyNext, PTL DEF Spec

-----------------------------------------------------------------------------
(* What fires belongs to an enabled rule; what is left over had to be.        *)

(* Every entry was made for a trigger of an object of its rule.               *)
Made(s, objs) ==
    \A c \in s.cron :
        /\ c # NoEntry /\ c.obj \in DOMAIN objs /\ objs[c.obj].id = c.rule
        /\ \E i \in DOMAIN objs[c.obj].triggers : objs[c.obj].triggers[i].id = c.trig

(* The two ways in which an entry comes to belong to no rule (EntriesOwned).  *)
Excused(c, table, objs) ==
    \/ ~AllScheduled(objs[c.obj])
    \/ c.rule \in Reposted /\ table[c.rule] # c.obj
InTable(s, c) == s.triggers[c.trig] = c
OwnedEntry(s, table, objs, c) ==
    \/ Excused(c, table, objs)
    \/ InTable(s, c) /\ table[c.rule] = c.obj /\ objs[c.obj].enabled
    \/ ~InTable(s, c) /\ SharedTrigger(c.trig)
Owned(s, table, objs) == \A c \in s.cron : OwnedEntry(s, table, objs, c)

OwnedInv == Made(sched, heap) /\ Owned(sched, rules, heap)

(* After a cleanup the table knows no entry of the rule.                      *)
LEMMA CleanupKnown ==
  ASSUME NEW s, SchedOK(s), NEW objs, Made(s, objs), NEW r
  PROVE  LET new == CleanupTriggers(s, r)
         IN  /\ Made(new, objs)
             /\ \A c \in new.cron :
                   /\ c \in s.cron /\ (InTable(new, c) <=> InTable(s, c))
                   /\ c.rule = r => ~InTable(new, c)
<1> DEFINE new == CleanupTriggers(s, r)
<1>1. /\ \A c : c \in new.cron <=>
             c \in s.cron /\ \A t \in Known(s, r) : c # s.triggers[t]
      /\ \A t \in TriggerIds :
             new.triggers[t] = IF t \in Known(s, r) THEN NoEntry ELSE s.triggers[t]
  BY CleanupFields
<1>2. \A c \in s.cron : c.trig \in TriggerIds /\ c # NoEntry
  BY DEF SchedOK, Entry, Made
<1> HIDE DEF new
<1>3. Made(new, objs)
  BY <1>1 DEF Made
<1>4. ASSUME NEW c \in new.cron
      PROVE  /\ c \in s.cron /\ (InTable(new, c) <=> InTable(s, c))
             /\ c.rule = r => ~InTable(new, c)
  <2>1. c \in s.cron /\ c.trig \in TriggerIds /\ c # NoEntry
    BY <1>1, <1>2
  <2>2. InTable(s, c) => c.trig \notin Known(s, r)
    BY <1>1 DEF InTable
  <2>3. InTable(new, c) <=> InTable(s, c)
    BY <1>1, <2>1, <2>2 DEF InTable
  <2>4. c.rule = r /\ InTable(s, c) => c.trig \in Known(s, r)
    BY <2>1 DEF InTable, Known
  <2> QED
    BY <2>1, <2>2, <2>3, <2>4
<1> QED
  BY <1>3, <1>4 DEF new

(* A rule's ID moves, or its object is switched: nothing changes for the      *)
(* entries of other rules, and its own are out of the table or excused.       *)
Moved(s, r, table, objs, table2, objs2) ==
    /\ \A c \in s.cron : c.rule # r => table2[c.rule] = table[c.rule]
    /\ table2[r] = table[r] \/ table2[r] \notin DOMAIN objs
    /\ \A k \in DOMAIN objs :
          /\ k \in DOMAIN objs2 /\ objs2[k].id = objs[k].id
          /\ objs2[k].triggers = objs[k].triggers
          /\ objs[k].id # r => objs2[k] = objs[k]
    /\ \A c \in s.cron : c.rule = r /\ InTable(s, c) =>
          Excused(c, table2, objs2) \/ Excused(c, table, objs)

LEMMA OwnedTransfer ==
  ASSUME NEW s, NEW table, NEW objs, NEW table2, NEW objs2, NEW r,
         Made(s, objs), Owned(s, table, objs), Moved(s, r, table, objs, table2, objs2)
  PROVE  Made(s, objs2) /\ Owned(s, table2, objs2)
<1>1. Made(s, objs2)
  BY DEF Made, Moved
<1>2. ASSUME NEW c \in s.cron PROVE OwnedEntry(s, table2, objs2, c)
  <2>1. c.obj \in DOMAIN objs /\ objs[c.obj].id = c.rule
    BY DEF Made
  <2>2. Excused(c, table, objs) => Excused(c, table2, objs2)
    BY <2>1 DEF Excused, AllScheduled, Scheduled, Moved
  <2>3. CASE c.rule = r
    BY <2>2, <2>3 DEF Owned, OwnedEntry, Moved
  <2>4. CASE c.rule # r
    <3>1. table2[c.rule] = table[c.rule] /\ objs2[c.obj] = objs[c.obj]
      BY <2>1, <2>4 DEF Moved
    <3> QED
      BY <2>2, <3>1 DEF Owned, OwnedEntry
  <2> QED
    BY <2>3, <2>4
<1> QED
  BY <1>1, <1>2 DEF Owned

(* What a set-up adds, and what it pushes out of the table.                   *)
LEMMA SetupEntries ==
  ASSUME NEW s, SchedOK(s), NEW o \in Nat, NEW rule, FromBody(rule),
         NEW c \in SetupTriggers(s, o, rule).cron
  PROVE  LET new == SetupTriggers(s, o, rule)
         IN  \/ /\ c \in s.cron
                /\ InTable(new, c) => InTable(s, c)
                /\ InTable(s, c) /\ ~InTable(new, c) =>
                      \E i \in DOMAIN rule.triggers : rule.triggers[i].id = c.trig
             \/ /\ rule.enabled /\ c # NoEntry /\ c.obj = o /\ c.rule = rule.id
                /\ \E i \in DOMAIN rule.triggers :
                      /\ rule.triggers[i].id = c.trig
                      /\ ~InTable(new, c) =>
                            \E j \in DOMAIN rule.triggers :
                                j # i /\ rule.triggers[j].id = c.trig
<1> DEFINE new == SetupTriggers(s, o, rule)
<1>1. CASE rule.enabled = FALSE
  BY <1>1, SetupDisabled
<1>2. CASE rule.enabled = TRUE
  <2> HIDE DEF new
  <2>1. /\ \/ c \in s.cron
           \/ \E i \in Scheduled(rule) : c = NewEntry(s, o, rule, i)
        /\ \A t \in TriggerIds : new.triggers[t] = Indexed(s, o, rule, t)
    <3>1. /\ \A d : d \in new.cron <=>
               \/ d \in s.cron
               \/ \E i \in Scheduled(rule) : d = NewEntry(s, o, rule, i)
          /\ \A t \in TriggerIds : new.triggers[t] = Indexed(s, o, rule, t)
      BY <1>2, SetupFields DEF new
    <3>2. c \in new.cron
      BY DEF new
    <3> QED
      BY <3>1, <3>2
  <2>0. Scheduled(rule) \subseteq DOMAIN rule.triggers /\ DOMAIN rule.triggers \subseteq Nat
    BY ScheduledSubset
  <2>2. CASE \E i \in Scheduled(rule) : c = NewEntry(s, o, rule, i)
    <3>1. PICK i \in Scheduled(rule) : c = NewEntry(s, o, rule, i)
      BY <2>2
    <3>2. /\ c # NoEntry /\ c.obj = o /\ c.rule = rule.id
          /\ c.trig = rule.triggers[i].id
      BY <3>1, NewEntryFacts
    <3>3. c.trig \in TriggerIds /\ i \in DOMAIN rule.triggers
      BY <2>0, <3>2, FromBodyFacts
    <3>4. ASSUME ~InTable(new, c)
          PROVE  \E j \in DOMAIN rule.triggers : j # i /\ rule.triggers[j].id = c.trig
      <4>1. Indexed(s, o, rule, c.trig) # c
        BY <2>1, <3>3, <3>4 DEF InTable
      <4>2. CASE ~IsLast(rule, i, c.trig)
        <5>1. PICK j \in Scheduled(rule) : j > i /\ rule.triggers[j].id = c.trig
          BY <3>2, <4>2 DEF IsLast
        <5> QED
          BY <2>0, <3>3, <5>1
      <4>3. CASE IsLast(rule, i, c.trig)
        <5>1. PICK j \in Scheduled(rule) :
                 /\ rule.triggers[j].id = c.trig
                 /\ Indexed(s, o, rule, c.trig) = NewEntry(s, o, rule, j)
          BY <3>3, <4>3, IndexedFacts
        <5> QED
          BY <2>0, <3>1, <4>1, <5>1
      <4> QED
        BY <4>2, <4>3
    <3> QED
      BY <1>2, <3>2, <3>3, <3>4 DEF new
  <2>3. CASE ~\E i \in Scheduled(rule) : c = NewEntry(s, o, rule, i)
    <3>1. c \in s.cron /\ c.trig \in TriggerIds
      BY <2>1, <2>3 DEF SchedOK, Entry
    <3>2. \/ Indexed(s, o, rule, c.trig) = s.triggers[c.trig]
          \/ \E i \in Scheduled(rule) :
                /\ rule.triggers[i].id = c.trig
                /\ Indexed(s, o, rule, c.trig) = NewEntry(s, o, rule, i)
      BY <3>1, IndexedFacts
    <3> QED
      BY <2>0, <2>1, <2>3, <3>1, <3>2 DEF InTable, new
  <2> QED
    BY <2>2, <2>3
<1> QED
  BY <1>1, <1>2, EnabledOrNot

LEMMA Sharing ==
  ASSUME NEW rule, FromBody(rule), NEW other, FromBody(other),
         NEW i \in DOMAIN rule.triggers, NEW j \in DOMAIN other.triggers,
         other.triggers[j].id = rule.triggers[i].id,
         other.id # rule.id \/ (other = rule /\ i # j)
  PROVE  SharedTrigger(rule.triggers[i].id)
  BY DEF FromBody, SharedTrigger

(* A set-up for a rule none of whose entries the table knows, excused ones    *)
(* apart, leaves the entries as they should be.                               *)
LEMMA SetupOwned ==
  ASSUME NEW s, SchedOK(s), NEW table, NEW objs, RulesOK(table, objs),
         Made(s, objs), Owned(s, table, objs),
         NEW o \in DOMAIN objs, o \in Nat, NEW rule, FromBody(rule),
         objs[o].id = rule.id, objs[o].triggers = rule.triggers,
         rule.enabled /\ AllScheduled(rule) => table[rule.id] = o /\ objs[o].enabled,
         \A c \in s.cron : c.rule = rule.id /\ InTable(s, c) => Excused(c, table, objs)
  PROVE  LET new == SetupTriggers(s, o, rule)
         IN  /\ Made(new, objs) /\ Owned(new, table, objs)
             /\ \A c \in new.cron :
                   \/ c.obj = o
                   \/ c \in s.cron /\ (InTable(new, c) => InTable(s, c))
<1> DEFINE new == SetupTriggers(s, o, rule)
<1>1. ASSUME NEW c \in new.cron
      PROVE  /\ c # NoEntry /\ c.obj \in DOMAIN objs /\ objs[c.obj].id = c.rule
             /\ \E i \in DOMAIN objs[c.obj].triggers : objs[c.obj].triggers[i].id = c.trig
             /\ OwnedEntry(new, table, objs, c)
             /\ c.obj = o \/ (c \in s.cron /\ (InTable(new, c) => InTable(s, c)))
  <2>1. CASE /\ c \in s.cron
             /\ InTable(new, c) => InTable(s, c)
             /\ InTable(s, c) /\ ~InTable(new, c) =>
                   \E i \in DOMAIN rule.triggers : rule.triggers[i].id = c.trig
    <3> HIDE DEF new
    <3>1. /\ c # NoEntry /\ c.obj \in DOMAIN objs /\ objs[c.obj].id = c.rule
          /\ \E i \in DOMAIN objs[c.obj].triggers : objs[c.obj].triggers[i].id = c.trig
      BY <2>1 DEF Made
    <3>2. OwnedEntry(s, table, objs, c)
      BY <2>1 DEF Owned
    <3>3. CASE InTable(s, c) /\ ~InTable(new, c) /\ c.rule # rule.id
      <4>1. FromBody(objs[c.obj])
        BY <3>1 DEF RulesOK
      <4>2. SharedTrigger(c.trig)
        BY <2>1, <3>1, <3>3, <4>1, Sharing
      <4> QED
        BY <2>1, <3>1, <3>3, <4>2 DEF OwnedEntry
    <3>4. CASE InTable(s, c) /\ c.rule = rule.id
      BY <2>1, <3>1, <3>4 DEF OwnedEntry
    <3>5. CASE InTable(s, c) <=> InTable(new, c)
      BY <2>1, <3>1, <3>2, <3>5 DEF OwnedEntry
    <3> QED
      BY <2>1, <3>3, <3>4, <3>5
  <2>2. CASE /\ rule.enabled /\ c # NoEntry /\ c.obj = o /\ c.rule = rule.id
             /\ \E i \in DOMAIN rule.triggers :
                   /\ rule.triggers[i].id = c.trig
                   /\ ~InTable(new, c) =>
                         \E j \in DOMAIN rule.triggers :
                             j # i /\ rule.triggers[j].id = c.trig
    <3> HIDE DEF new
    <3>1. ~InTable(new, c) => SharedTrigger(c.trig)
      BY <2>2, Sharing
    <3>2. ~AllScheduled(rule) => Excused(c, table, objs)
      BY <2>2 DEF Excused, AllScheduled, Scheduled
    <3> QED
      BY <2>2, <3>1, <3>2 DEF OwnedEntry
  <2> QED
    BY <2>1, <2>2, SetupEntries
<1> QED
  BY <1>1 DEF Made, Owned

LEMMA OwnedNext == Shape /\ OwnedInv /\ [Next]_ruleVars => OwnedInv'
<1> SUFFICES ASSUME Shape, OwnedInv, [Next]_ruleVars
             PROVE  Made(sched', heap') /\ Owned(sched', rules', heap')
  BY DEF OwnedInv
<1> USE DEF Shape, OwnedInv
<1>0. /\ \A r \in RuleIds : rules[r] # NoObj => rules[r] \in DOMAIN heap
      /\ \A c \in sched.cron : c.rule \in RuleIds
      /\ NoObj \notin DOMAIN heap /\ NextObj \notin DOMAIN heap
  BY RegisteredObject DEF SchedOK, Entry, RulesOK, NoObj, NextObj
<1>1. ASSUME NEW b \in Bodies, AddRule(b)
      PROVE  Made(sched', heap') /\ Owned(sched', rules', heap')
  <2>1. /\ FromBody(b) /\ b.id \in RuleIds /\ NextObj \in Nat
        /\ rules[b.id] = NoObj \/ b.id \in Reposted
    BY <1>1, BodyFacts, AllocRules DEF NextObj, AddRule
  <2>2. /\ NextObj \in DOMAIN heap' /\ heap'[NextObj] = b
        /\ \A k \in DOMAIN heap : k \in DOMAIN heap' /\ heap'[k] = heap[k]
    BY <1>1, AllocRules DEF AddRule, Alloc, NextObj
  <2>3. rules' = [rules EXCEPT ![b.id] = IF SetupFails(b) THEN NoObj ELSE NextObj]
    BY <1>1 DEF AddRule
  <2>4. /\ rules'[b.id] = IF SetupFails(b) THEN NoObj ELSE NextObj
        /\ \A q \in RuleIds : q # b.id => rules'[q] = rules[q]
    BY <2>1, <2>3 DEF RulesOK
  <2>5. ASSUME NEW c \in sched.cron, c.rule = b.id, InTable(sched, c)
        PROVE  Excused(c, rules', heap') \/ Excused(c, rules, heap)
    <3>1. c.obj \in DOMAIN heap
      BY DEF Made
    <3>2. Excused(c, rules, heap) \/ rules[c.rule] = c.obj
      BY <2>5 DEF Owned, OwnedEntry
    <3> QED
      BY <1>0, <2>1, <2>4, <2>5, <3>1, <3>2 DEF Excused
  <2>6. Made(sched, heap') /\ Owned(sched, rules', heap')
    <3>1. \A c \in sched.cron : c.rule # b.id => rules'[c.rule] = rules[c.rule]
      BY <1>0, <2>4
    <3>2. rules'[b.id] \notin DOMAIN heap
      BY <1>0, <2>4
    <3>3. \A k \in DOMAIN heap :
             /\ k \in DOMAIN heap' /\ heap'[k].id = heap[k].id
             /\ heap'[k].triggers = heap[k].triggers
             /\ heap[k].id # b.id => heap'[k] = heap[k]
      BY <2>2
    <3>4. Moved(sched, b.id, rules, heap, rules', heap')
      BY <2>5, <3>1, <3>2, <3>3 DEF Moved
    <3> QED
      BY <3>4, OwnedTransfer
  <2>7. \A c \in sched.cron : c.rule = b.id /\ InTable(sched, c) =>
           Excused(c, rules', heap')
    <3>1. \A c \in sched.cron : c.obj # rules'[b.id]
      BY <1>0, <2>4 DEF Made
    <3> QED
      BY <2>6, <3>1 DEF Owned, OwnedEntry
  <2>8. sched' = SetupTriggers(sched, NextObj, b) /\ RulesOK(rules', heap')
    BY <1>1, ShapeNext DEF AddRule
  <2>9. b.enabled /\ AllScheduled(b) => rules'[b.id] = NextObj /\ heap'[NextObj].enabled
    BY <2>2, <2>4 DEF SetupFails, AllScheduled
  <2> QED
    BY <2>1, <2>2, <2>6, <2>7, <2>8, <2>9, SetupOwned
<1>2. ASSUME NEW b \in Bodies, UpdateRule(b)
      PROVE  Made(sched', heap') /\ Owned(sched', rules', heap')
  <2> DEFINE clean == CleanupTriggers(sched, b.id)
             s == SetupTriggers(clean, NextObj, b)
             old == ObjOf(b.id)
  <2>1. /\ FromBody(b) /\ b.id \in RuleIds /\ NextObj \in Nat /\ rules[b.id] # NoObj
    BY <1>2, BodyFacts, AllocRules DEF NextObj, UpdateRule
  <2>2. /\ NextObj \in DOMAIN heap' /\ heap'[NextObj] = b
        /\ \A k \in DOMAIN heap : k \in DOMAIN heap' /\ heap'[k] = heap[k]
    BY <1>2, AllocRules DEF UpdateRule, Alloc, NextObj
  <2>3. /\ FromBody(old) /\ old.id = b.id /\ rules[b.id] \in Nat
        /\ rules[b.id] \in DOMAIN heap /\ old = heap[rules[b.id]]
    BY <2>1, RegisteredObject DEF ObjOf
  <2>4. /\ SchedOK(clean) /\ Made(clean, heap)
        /\ \A c \in clean.cron :
              /\ c \in sched.cron /\ (InTable(clean, c) <=> InTable(sched, c))
              /\ c.rule = b.id => ~InTable(clean, c)
    BY CleanupFields, CleanupKnown
  <2>5. SchedOK(s)
    BY <2>1, <2>4, SetupType
  <2>6. rules' = IF SetupFails(b) THEN rules ELSE [rules EXCEPT ![b.id] = NextObj]
    BY <1>2 DEF UpdateRule
  <2>7. /\ rules'[b.id] = IF SetupFails(b) THEN rules[b.id] ELSE NextObj
        /\ \A q \in RuleIds : q # b.id => rules'[q] = rules[q]
        /\ RulesOK(rules', heap')
    BY <2>1, <2>6, ShapeNext DEF RulesOK
  <2>8. sched' = IF SetupFails(b) THEN SetupTriggers(s, rules[b.id], old) ELSE s
    BY <1>2 DEF UpdateRule
  <2> HIDE DEF clean, old
  <2>9. Owned(clean, rules, heap)
    BY <2>4 DEF Owned, OwnedEntry
  <2>10. \A c \in clean.cron : c.rule \in RuleIds
    BY <1>0, <2>4
  <2>11. Made(clean, heap') /\ Owned(clean, rules', heap')
    <3>1. \A c \in clean.cron : c.rule # b.id => rules'[c.rule] = rules[c.rule]
      BY <2>7, <2>10
    <3>2. rules'[b.id] = rules[b.id] \/ rules'[b.id] \notin DOMAIN heap
      BY <1>0, <2>7
    <3>3. \A k \in DOMAIN heap :
             /\ k \in DOMAIN heap' /\ heap'[k].id = heap[k].id
             /\ heap'[k].triggers = heap[k].triggers
             /\ heap[k].id # b.id => heap'[k] = heap[k]
      BY <2>2
    <3>4. Moved(clean, b.id, rules, heap, rules', heap')
      BY <2>4, <3>1, <3>2, <3>3 DEF Moved
    <3> QED
      BY <2>4, <2>9, <3>4, OwnedTransfer
  <2>12. b.enabled /\ AllScheduled(b) => rules'[b.id] = NextObj /\ heap'[NextObj].enabled
    BY <2>2, <2>7 DEF SetupFails, AllScheduled
  <2>13. /\ Made(s, heap') /\ Owned(s, rules', heap')
         /\ \A c \in s.cron :
               \/ c.obj = NextObj
               \/ c \in clean.cron /\ (InTable(s, c) => InTable(clean, c))
    BY <2>1, <2>2, <2>4, <2>7, <2>11, <2>12, SetupOwned
  <2> HIDE DEF s
  <2>14. CASE SetupFails(b)
    <3>1. rules' = rules /\ sched' = SetupTriggers(s, rules[b.id], old)
      BY <2>6, <2>8, <2>14
    <3>2. \A c \in s.cron : c.rule = b.id /\ InTable(s, c) => Excused(c, rules', heap')
      BY <2>2, <2>4, <2>13, <2>14 DEF Excused, SetupFails, AllScheduled
    <3>3. heap'[rules[b.id]] = old
      BY <2>2, <2>3
    <3>4. /\ rules[b.id] \in DOMAIN heap' /\ old.id = b.id
          /\ old.enabled => heap'[rules[b.id]].enabled
      BY <2>2, <2>3, <3>3
    <3>5. /\ heap'[rules[b.id]].id = old.id /\ heap'[rules[b.id]].triggers = old.triggers
          /\ rules'[old.id] = rules[b.id]
      BY <3>1, <3>3, <3>4
    <3> QED
      BY <2>3, <2>5, <2>7, <2>13, <3>1, <3>2, <3>4, <3>5, SetupOwned
  <2>15. CASE ~SetupFails(b)
    BY <2>8, <2>13, <2>15
  <2> QED
    BY <2>14, <2>15
<1>3. ASSUME NEW r \in RuleIds, RemoveRule(r)
      PROVE  Made(sched', heap') /\ Owned(sched', rules', heap')
  <2>1. /\ Made(sched', heap)
        /\ \A c \in sched'.cron :
              /\ c \in sched.cron /\ (InTable(sched', c) <=> InTable(sched, c))
              /\ c.rule = r => ~InTable(sched', c)
    BY <1>3, CleanupKnown DEF RemoveRule
  <2>2. /\ heap' = heap /\ rules'[r] = NoObj
        /\ \A q \in RuleIds : q # r => rules'[q] = rules[q]
    BY <1>3 DEF RemoveRule, RulesOK
  <2>3. Owned(sched', rules, heap)
    BY <2>1 DEF Owned, OwnedEntry
  <2>4. \A c \in sched'.cron : c.rule \in RuleIds
    BY <1>0, <2>1
  <2>5. Moved(sched', r, rules, heap, rules', heap')
    BY <1>0, <2>1, <2>2, <2>4 DEF Moved
  <2> QED
    BY <2>1, <2>3, <2>5, OwnedTransfer
<1>4. ASSUME NEW r \in RuleIds, EnableRule(r)
      PROVE  Made(sched', heap') /\ Owned(sched', rules', heap')
  <2> DEFINE on == Switched(ObjOf(r), TRUE)
  <2>1. /\ rules[r] \in DOMAIN heap /\ rules[r] \in Nat
        /\ FromBody(on) /\ on.id = r /\ on.enabled = TRUE /\ ~ObjOf(r).enabled
        /\ ObjOf(r) = heap[rules[r]] /\ heap[rules[r]].id = r
        /\ on.triggers = heap[rules[r]].triggers
    BY <1>4, RegisteredObject, SwitchedFacts DEF EnableRule, ObjOf
  <2>2. sched' = SetupTriggers(sched, rules[r], on) /\ rules' = rules
    BY <1>4 DEF EnableRule
  <2>3. /\ SetupFails(on) => heap' = heap
        /\ ~SetupFails(on) => heap' = [heap EXCEPT ![rules[r]] = on]
    BY <1>4 DEF EnableRule
  <2>4. /\ ~SetupFails(on) => heap'[rules[r]] = on
        /\ DOMAIN heap' = DOMAIN heap
        /\ \A k \in DOMAIN heap : k # rules[r] => heap'[k] = heap[k]
    <3>1. CASE SetupFails(on)
      BY <2>3, <3>1
    <3>2. CASE ~SetupFails(on)
      <4>1. on = Switched(heap[rules[r]], TRUE) /\ heap' = [heap EXCEPT ![rules[r]] = on]
        BY <2>1, <2>3, <3>2
      <4> QED
        BY <2>1, <4>1, SwitchRules
    <3> QED
      BY <3>1, <3>2
  <2> HIDE DEF on
  <2>5. \A k \in DOMAIN heap :
           /\ k \in DOMAIN heap' /\ heap'[k].id = heap[k].id
           /\ heap'[k].triggers = heap[k].triggers
           /\ heap[k].id # r => heap'[k] = heap[k]
    BY <2>1, <2>3, <2>4
  <2>6. ASSUME NEW c \in sched.cron, c.rule = r, InTable(sched, c)
        PROVE  Excused(c, rules, heap)
    <3>1. OwnedEntry(sched, rules, heap, c)
      BY DEF Owned
    <3> QED
      BY <2>1, <2>6, <3>1 DEF OwnedEntry
  <2>7. Made(sched, heap') /\ Owned(sched, rules', heap')
    <3>1. Moved(sched, r, rules, heap, rules', heap')
      BY <2>2, <2>5, <2>6 DEF Moved
    <3> QED
      BY <3>1, OwnedTransfer
  <2>8. \A c \in sched.cron : c.rule = r /\ InTable(sched, c) => Excused(c, rules', heap')
    BY <2>2, <2>5, <2>6 DEF Excused, Made, AllScheduled, Scheduled
  <2>9. AllScheduled(on) => heap'[rules[r]].enabled
    BY <2>1, <2>4 DEF SetupFails, AllScheduled
  <2>10. /\ rules[r] \in DOMAIN heap'
         /\ heap'[rules[r]].id = on.id /\ heap'[rules[r]].triggers = on.triggers
    BY <2>1, <2>5
  <2> QED
    BY <2>1, <2>2, <2>7, <2>8, <2>9, <2>10, ShapeNext, SetupOwned
<1>5. ASSUME NEW r \in RuleIds, DisableRule(r)
      PROVE  Made(sched', heap') /\ Owned(sched', rules', heap')
  <2>1. /\ Made(sched', heap)
        /\ \A c \in sched'.cron :
              /\ c \in sched.cron /\ (InTable(sched', c) <=> InTable(sched, c))
              /\ c.rule = r => ~InTable(sched', c)
    BY <1>5, CleanupKnown DEF DisableRule
  <2>2. /\ rules[r] \in DOMAIN heap /\ rules' = rules /\ heap[rules[r]].id = r
        /\ FromBody(heap[rules[r]])
    BY <1>5, RegisteredObject DEF DisableRule, ObjOf
  <2>3. \A k \in DOMAIN heap :
           /\ k \in DOMAIN heap' /\ heap'[k].id = heap[k].id
           /\ heap'[k].triggers = heap[k].triggers
           /\ heap[k].id # r => heap'[k] = heap[k]
    <3>1. /\ DOMAIN heap' = DOMAIN heap
          /\ heap'[rules[r]] = Switched(heap[rules[r]], FALSE)
          /\ \A k \in DOMAIN heap : k # rules[r] => heap'[k] = heap[k]
      BY <1>5, <2>2, SwitchRules DEF DisableRule
    <3>2. LET off == Switched(heap[rules[r]], FALSE)
          IN  off.id = r /\ off.triggers = heap[rules[r]].triggers
      BY <2>2, SwitchedFacts
    <3> QED
      BY <2>2, <3>1, <3>2
  <2>4. Owned(sched', rules, heap)
    BY <2>1 DEF Owned, OwnedEntry
  <2>5. Moved(sched', r, rules, heap, rules', heap')
    BY <2>1, <2>2, <2>3 DEF Moved
  <2> QED
    BY <2>1, <2>4, <2>5, OwnedTransfer
<1>6. CASE UNCHANGED ruleVars
  BY <1>6 DEF ruleVars, Made, Owned, OwnedEntry, Excused, InTable
<1> QED
  BY <1>1, <1>2, <1>3, <1>4, <1>5, <1>6 DEF Next

(* What fires belongs to an enabled rule, and an entry nothing can find was   *)
(* pushed out of the table by a trigger ID that is used twice, whatever       *)
(* requests came before; refused set-ups and re-posted IDs apart.             *)
THEOREM OwnedHolds == Spec => []EntriesOwned
<1>1. Init => Shape /\ OwnedInv
  BY ShapeInit DEF Init, OwnedInv, Made, Owned
<1>2. Shape /\ OwnedInv /\ [Next]_ruleVars => OwnedInv'
  BY OwnedNext
<1>3. OwnedInv => EntriesOwned
  BY DEF OwnedInv, Owned, OwnedEntry, Excused, InTable, EntriesOwned
<1> QED
  BY <1>1, <1>2, <1>3, ShapeNext, PTL DEF Spec

-----------------------------------------------------------------------------
(* The statistics.                                                            *)

LEMMA SameCount ==
  ASSUME NEW table, NEW objs, NEW more,
         \A r \in RuleIds : table[r] # NoObj => more[table[r]] = objs[table[r]]
  PROVE  Count(table, more) = Count(table, objs)
<1>1. {r \in Registered(table) : more[table[r]].enabled}
        = {r \in Registered(table) : objs[table[r]].enabled}
  BY DEF Registered
<1> QED
  BY <1>1 DEF Count

(* The statistics count the rules, when no ID is posted twice: only a failed  *)
(* add removes a rule without counting, and then there was none to remove.    *)
THEOREM StatsHold == Reposted = {} => (Spec => []StatsAgree)
<1> SUFFICES ASSUME Reposted = {} PROVE Spec => []StatsAgree
  OBVIOUS
<1>1. Init => StatsAgree
  <2> SUFFICES ASSUME Init PROVE StatsAgree
    OBVIOUS
  <2>1. Registered(rules) = {} /\ {r \in Registered(rules) : heap[rules[r]].enabled} = {}
    BY DEF Init, Registered
  <2> QED
    BY <2>1, FS_EmptySet DEF Init, StatsAgree, Count
<1>2. Shape /\ StatsAgree /\ [Next]_ruleVars => StatsAgree'
  <2> SUFFICES ASSUME Shape, StatsAgree, [Next]_ruleVars PROVE stats' = Count(rules', heap')
    BY DEF StatsAgree
  <2>0. \A r \in RuleIds : rules[r] # NoObj => rules[r] \in DOMAIN heap
    BY RegisteredObject DEF Shape
  <2>1. ASSUME NEW b \in Bodies, Alloc(b), rules' = rules, stats' = stats
        PROVE  stats' = Count(rules', heap')
    <3>1. \A k \in DOMAIN heap : heap'[k] = heap[k]
      BY <2>1, AllocRules DEF Alloc, Shape
    <3> QED
      BY <2>0, <2>1, <3>1, SameCount DEF StatsAgree
  <2>2. ASSUME NEW b \in Bodies, AddRule(b) PROVE stats' = Count(rules', heap')
    <3>1. CASE SetupFails(b)
      <4>1. rules' = rules /\ stats' = stats
        BY <2>2, <3>1 DEF AddRule, Shape, RulesOK
      <4> QED
        BY <2>1, <2>2, <4>1 DEF AddRule
    <3>2. CASE ~SetupFails(b)
      BY <2>2, <3>2 DEF AddRule
    <3> QED
      BY <3>1, <3>2
  <2>3. ASSUME NEW b \in Bodies, UpdateRule(b) PROVE stats' = Count(rules', heap')
    <3>1. CASE SetupFails(b)
      BY <2>1, <2>3, <3>1 DEF UpdateRule
    <3>2. CASE ~SetupFails(b)
      BY <2>3, <3>2 DEF UpdateRule
    <3> QED
      BY <3>1, <3>2
  <2>4. ASSUME NEW r \in RuleIds, RemoveRule(r) \/ EnableRule(r) \/ DisableRule(r)
        PROVE  stats' = Count(rules', heap')
    BY <2>4 DEF RemoveRule, EnableRule, DisableRule, StatsAgree
  <2>5. CASE UNCHANGED ruleVars
    BY <2>5 DEF ruleVars, StatsAgree
  <2> QED
    BY <2>2, <2>3, <2>4, <2>5 DEF Next
<1> QED
  BY <1>1, <1>2, ShapeInit, ShapeNext, PTL DEF Spec
=============================================================================
