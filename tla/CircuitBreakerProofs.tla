------------------------ MODULE CircuitBreakerProofs ------------------------
(* Theorems about CircuitBreaker for any callers and any limits.              *)
EXTENDS CircuitBreaker, TLAPS

USE CircuitBreakerAssumption

Half == HalfOpenMaxCalls \div 2

(* What the counters say in each state. The history agrees with them.         *)
Counted ==
    /\ state = "closed" => failures < MaxFailures /\ failures = streak
    /\ state = "half-open" =>
          /\ halfOpenCalls = halfOpenSuccesses /\ halfOpenSuccesses = probes
          /\ halfOpenSuccesses = 0 \/ halfOpenSuccesses < Half

Inv == TypeOK /\ Counted

LEMMA HalfFits ==
  /\ Half \in Nat /\ Half < HalfOpenMaxCalls
  /\ Needed = IF Half = 0 THEN 1 ELSE Half
  BY DEF Needed, Half

LEMMA CountedGivesNeverWedged == Inv => NeverWedged
  BY HalfFits DEF Inv, TypeOK, Counted, NeverWedged

LEMMA InvInit == Init => Inv
<1> SUFFICES ASSUME Init PROVE Inv
  OBVIOUS
<1>1. /\ pc \in [Callers -> {"idle", "upgrade", "recheck", "run", "record"}]
      /\ attempt \in [Callers -> 1 .. MaxAttempts]
  BY DEF Init
<1>2. TypeOK
  <2>1. expired \in BOOLEAN
    BY Zenon DEF Init
  <2>2. /\ state = "closed" /\ failures = 0 /\ halfOpenCalls = 0 /\ halfOpenSuccesses = 0
        /\ err = {} /\ faults = 0 /\ streak = 0 /\ probes = 0
    BY DEF Init
  <2> QED
    BY <1>1, <2>1, <2>2 DEF TypeOK
<1>3. Counted
  <2>1. state = "closed" /\ failures = 0 /\ streak = 0
    BY DEF Init
  <2> QED
    BY <2>1 DEF Counted
<1> QED
  BY <1>2, <1>3 DEF Inv

-----------------------------------------------------------------------------
(* What each step does to the breaker.                                        *)

(* Where a caller goes, and which run it is at.                               *)
LEMMA PlacesStay ==
  ASSUME TypeOK, NEW c \in Callers, Step(c)
  PROVE  /\ pc' \in [Callers -> {"idle", "upgrade", "recheck", "run", "record"}]
         /\ attempt' \in [Callers -> 1 .. MaxAttempts]
         /\ err' \subseteq Callers
         /\ faults' \in 0 .. MaxFaults
<1>1. pc' \in [Callers -> {"idle", "upgrade", "recheck", "run", "record"}]
  <2>1. CASE allowRequest(c)
    BY <2>1 DEF TypeOK, allowRequest, Goto
  <2>2. CASE Upgrade(c) \/ Recheck(c)
    BY <2>2 DEF TypeOK, Upgrade, Recheck, Goto
  <2>3. CASE Succeed(c) \/ Retry(c) \/ GiveUp(c) \/ Panic(c)
    BY <2>3 DEF TypeOK, Succeed, Retry, GiveUp, Panic, Goto
  <2>4. CASE recordResult(c)
    BY <2>4 DEF TypeOK, recordResult, Goto
  <2> QED
    BY <2>1, <2>2, <2>3, <2>4 DEF Step
<1>2. attempt' \in [Callers -> 1 .. MaxAttempts]
  <2>1. CASE allowRequest(c)
    BY <2>1 DEF TypeOK, allowRequest
  <2>2. CASE Retry(c)
    <3>1. attempt[c] \in 1 .. MaxAttempts /\ attempt[c] < MaxAttempts
      BY <2>2 DEF TypeOK, Retry
    <3>2. attempt[c] + 1 \in 1 .. MaxAttempts
      BY <3>1
    <3> QED
      BY <2>2, <3>2 DEF TypeOK, Retry
  <2>3. CASE UNCHANGED attempt
    BY <2>3 DEF TypeOK
  <2> QED
    BY <2>1, <2>2, <2>3 DEF Step, Upgrade, Recheck, Succeed, GiveUp, Panic, recordResult
<1>3. err' \subseteq Callers
  BY DEF TypeOK, Step, allowRequest, Upgrade, Recheck, Succeed, Retry, GiveUp, Panic,
     recordResult
<1>4. faults' \in 0 .. MaxFaults
  BY DEF TypeOK, Step, allowRequest, Upgrade, Recheck, Succeed, Retry, GiveUp, Panic,
     recordResult, Fault
<1> QED
  BY <1>1, <1>2, <1>3, <1>4

LEMMA InvQuiet ==
  ASSUME Inv, UNCHANGED <<breaker, history>>
  PROVE  /\ Counted'
         /\ state' \in {"closed", "half-open", "open"} /\ expired' \in BOOLEAN
         /\ failures' \in Nat /\ halfOpenCalls' \in Nat /\ halfOpenSuccesses' \in Nat
         /\ streak' \in Nat /\ probes' \in Nat
  BY DEF Inv, TypeOK, Counted, breaker, history

LEMMA InvUpgrade ==
  ASSUME Inv, NEW c \in Callers, Upgrade(c)
  PROVE  /\ Counted'
         /\ state' \in {"closed", "half-open", "open"} /\ expired' \in BOOLEAN
         /\ failures' \in Nat /\ halfOpenCalls' \in Nat /\ halfOpenSuccesses' \in Nat
         /\ streak' \in Nat /\ probes' \in Nat
<1>1. CASE state = "open" /\ expired = TRUE
  BY <1>1 DEF Inv, TypeOK, Counted, Upgrade
<1>2. CASE ~(state = "open" /\ expired = TRUE)
  BY <1>2 DEF Inv, TypeOK, Counted, Upgrade
<1> QED
  BY <1>1, <1>2

LEMMA InvRecordFailure ==
  ASSUME Inv, recordFailure
  PROVE  /\ Counted'
         /\ state' \in {"closed", "half-open", "open"} /\ expired' \in BOOLEAN
         /\ failures' \in Nat /\ halfOpenCalls' \in Nat /\ halfOpenSuccesses' \in Nat
         /\ streak' \in Nat /\ probes' \in Nat
<1>1. /\ streak' = streak + 1 /\ streak \in Nat /\ failures \in Nat
      /\ UNCHANGED <<probes, halfOpenCalls, halfOpenSuccesses>>
      /\ probes \in Nat /\ halfOpenCalls \in Nat /\ halfOpenSuccesses \in Nat
      /\ expired \in BOOLEAN
  BY DEF Inv, TypeOK, recordFailure
<1>2. CASE state = "closed"
  <2>1. failures' = failures + 1 /\ failures = streak
    BY <1>2 DEF Inv, Counted, recordFailure
  <2>2. CASE failures + 1 >= MaxFailures
    <3>1. state' = "open"
      BY <1>2, <2>1, <2>2 DEF recordFailure
    <3>2. expired' \in BOOLEAN
      BY <1>2, <2>1, <2>2, Zenon DEF recordFailure
    <3>3. failures' \in Nat
      BY <1>1, <2>1
    <3>4. Counted'
      BY <3>1 DEF Counted
    <3> QED
      BY <1>1, <3>1, <3>2, <3>3, <3>4
  <2>3. CASE ~(failures + 1 >= MaxFailures)
    <3>1. state' = "closed" /\ expired' = expired
      BY <1>2, <2>1, <2>3 DEF recordFailure
    <3> QED
      BY <1>1, <2>1, <2>3, <3>1 DEF Counted
  <2> QED
    BY <2>2, <2>3
<1>3. CASE state # "closed"
  <2>1. state' = "open"
    BY <1>3 DEF recordFailure
  <2>2. expired' \in BOOLEAN
    BY <1>1, <1>3, Zenon DEF recordFailure
  <2>3. failures' = failures + 1 \/ failures' = failures
    BY <1>3 DEF recordFailure
  <2>4. failures' \in Nat
    BY <1>1, <2>3
  <2>5. Counted'
    BY <2>1 DEF Counted
  <2> QED
    BY <1>1, <2>1, <2>2, <2>4, <2>5
<1> QED
  BY <1>2, <1>3

LEMMA InvRecordSuccess ==
  ASSUME Inv, recordSuccess
  PROVE  /\ Counted'
         /\ state' \in {"closed", "half-open", "open"} /\ expired' \in BOOLEAN
         /\ failures' \in Nat /\ halfOpenCalls' \in Nat /\ halfOpenSuccesses' \in Nat
         /\ streak' \in Nat /\ probes' \in Nat
<1>1. CASE state = "half-open"
  <2>0. /\ streak' = 0 /\ probes' = probes + 1 /\ halfOpenSuccesses' = halfOpenSuccesses + 1
        /\ halfOpenCalls' = halfOpenCalls + 1 /\ UNCHANGED expired
        /\ IF halfOpenSuccesses' >= Half
           THEN state' = "closed" /\ failures' = 0
           ELSE UNCHANGED <<state, failures>>
    BY <1>1 DEF recordSuccess, Half
  <2>1. CASE halfOpenSuccesses + 1 >= Half
    BY <1>1, <2>0, <2>1, HalfFits DEF Inv, TypeOK, Counted
  <2>2. CASE ~(halfOpenSuccesses + 1 >= Half)
    BY <1>1, <2>0, <2>2, HalfFits DEF Inv, TypeOK, Counted
  <2> QED
    BY <2>1, <2>2
<1>2. CASE state # "half-open"
  BY <1>2 DEF Inv, TypeOK, Counted, recordSuccess, breaker
<1> QED
  BY <1>1, <1>2

LEMMA InvNext == Inv /\ [Next]_cbVars => Inv'
<1> SUFFICES ASSUME Inv, [Next]_cbVars PROVE Inv'
  OBVIOUS
<1>1. CASE UNCHANGED cbVars
  BY <1>1 DEF Inv, TypeOK, Counted, cbVars, breaker, history
<1>2. CASE Expire
  BY <1>2 DEF Inv, TypeOK, Counted, Expire, history
<1>3. ASSUME NEW c \in Callers, Step(c) PROVE Inv'
  <2>1. /\ Counted'
        /\ state' \in {"closed", "half-open", "open"} /\ expired' \in BOOLEAN
        /\ failures' \in Nat /\ halfOpenCalls' \in Nat /\ halfOpenSuccesses' \in Nat
        /\ streak' \in Nat /\ probes' \in Nat
    <3>1. CASE allowRequest(c) \/ Recheck(c) \/ Succeed(c) \/ Retry(c) \/ GiveUp(c) \/ Panic(c)
      <4>1. UNCHANGED <<breaker, history>>
        BY <3>1 DEF allowRequest, Recheck, Succeed, Retry, GiveUp, Panic
      <4> QED
        BY <4>1, InvQuiet
    <3>2. CASE Upgrade(c)
      BY <3>2, InvUpgrade
    <3>3. CASE recordResult(c)
      BY <3>3, InvRecordFailure, InvRecordSuccess DEF recordResult
    <3> QED
      BY <1>3, <3>1, <3>2, <3>3 DEF Step
  <2> QED
    BY <1>3, <2>1, PlacesStay DEF Inv, TypeOK
<1> QED
  BY <1>1, <1>2, <1>3 DEF Next

LEMMA Invariance == Spec => []Inv
<1> QED
  BY InvInit, InvNext, PTL DEF Spec

(* The variables keep their types; no call runs its function more often than  *)
(* the executor's policy allows.                                              *)
THEOREM BreakerTypes == Spec => []TypeOK
<1>1. Inv => TypeOK
  BY DEF Inv
<1> QED
  BY <1>1, Invariance, PTL

(* A half-open circuit always has room for another call.                      *)
THEOREM NeverWedgedHolds == Spec => []NeverWedged
<1> QED
  BY CountedGivesNeverWedged, Invariance, PTL

-----------------------------------------------------------------------------
(* What may change the circuit's state, and when.                             *)
Legal ==
    state' # state =>
       \/ state = "closed" /\ state' = "open" /\ streak' >= MaxFailures
       \/ state = "open" /\ state' = "half-open" /\ expired
       \/ state = "half-open" /\ state' = "open" /\ streak' >= 1
       \/ state = "half-open" /\ state' = "closed" /\ probes' >= Needed

LEMMA StepsAreLegal == Inv /\ [Next]_cbVars => Legal
<1> SUFFICES ASSUME Inv, [Next]_cbVars, state' # state PROVE Legal
  BY DEF Legal
<1>1. PICK c \in Callers : Upgrade(c) \/ recordResult(c)
  BY DEF Next, Step, Expire, allowRequest, Recheck, Succeed, Retry, GiveUp, Panic, breaker,
     cbVars
<1>2. CASE Upgrade(c)
  BY <1>2 DEF Upgrade, Legal
<1>3. CASE recordResult(c) /\ c \in err
  <2>1. recordFailure
    BY <1>3 DEF recordResult
  <2>2. CASE state = "closed"
    BY <2>1, <2>2 DEF recordFailure, Inv, TypeOK, Counted, Legal
  <2>3. CASE state = "half-open"
    BY <2>1, <2>3 DEF recordFailure, Inv, TypeOK, Legal
  <2> QED
    BY <2>1, <2>2, <2>3 DEF recordFailure
<1>4. CASE recordResult(c) /\ c \notin err
  <2>1. recordSuccess
    BY <1>4 DEF recordResult
  <2>2. state = "half-open" /\ state' = "closed"
    BY <2>1 DEF recordSuccess, breaker
  <2>3. halfOpenSuccesses + 1 >= Half /\ probes' = halfOpenSuccesses + 1
    BY <2>1, <2>2 DEF recordSuccess, Inv, Counted, Half
  <2>4. probes' >= Needed
    BY <2>3, HalfFits DEF Inv, TypeOK
  <2> QED
    BY <2>2, <2>4 DEF Legal
<1> QED
  BY <1>1, <1>2, <1>3, <1>4

(* The circuit changes as it should, whatever its callers see in between.     *)
THEOREM TransitionsHold == Spec => Transitions
<1>1. Inv /\ [Next]_cbVars => [Legal]_cbVars
  BY StepsAreLegal
<1>2. [][Legal]_cbVars => Transitions
  BY PTL DEF Legal, Transitions
<1> QED
  BY <1>1, <1>2, Invariance, PTL DEF Spec

Admits == \A c \in Callers : pc'[c] = "run" => pc[c] = "run"

LEMMA OpenAdmitsNone == Inv /\ [Next]_cbVars /\ state = "open" /\ ~expired => Admits
<1> SUFFICES ASSUME Inv, [Next]_cbVars, state = "open", expired = FALSE PROVE Admits
  BY DEF Inv, TypeOK
<1>1. CASE UNCHANGED pc
  BY <1>1 DEF Admits
<1>2. ASSUME NEW c \in Callers, Step(c) PROVE Admits
  <2>1. PICK place : Goto(c, place) \/ UNCHANGED pc
    BY <1>2 DEF Step, allowRequest, Upgrade, Recheck, Succeed, Retry, GiveUp, Panic,
       recordResult
  <2>2. \A d \in Callers : d # c => pc'[d] = pc[d]
    BY <2>1 DEF Goto, Inv, TypeOK
  <2>3. pc'[c] = "run" => pc[c] = "run"
    BY <1>2 DEF Step, allowRequest, Allowed, Upgrade, Recheck, Succeed, Retry, GiveUp, Panic,
       recordResult, Goto, Inv, TypeOK
  <2> QED
    BY <2>2, <2>3 DEF Admits
<1> QED
  BY <1>1, <1>2 DEF Next, Expire, cbVars

(* An open circuit whose timeout has not passed lets nobody through.          *)
THEOREM NothingWhileOpenHolds == Spec => NothingWhileOpen
<1>1. Inv /\ [Next]_cbVars => [state = "open" /\ ~expired => Admits]_cbVars
  BY OpenAdmitsNone
<1>2. [][state = "open" /\ ~expired => Admits]_cbVars => NothingWhileOpen
  BY PTL DEF Admits, NothingWhileOpen
<1> QED
  BY <1>1, <1>2, Invariance, PTL DEF Spec
=============================================================================
