--------------------------- MODULE CircuitBreaker ---------------------------
(***************************************************************************)
(* CircuitBreaker and RetryExecutor of pkg/errors/recovery, as             *)
(* RecoveryManager.ExecuteWithRecovery puts them together: the breaker     *)
(* admits a call, the executor runs the function until it succeeds or is   *)
(* not to be tried again, and the breaker records how that ended.          *)
(*                                                                         *)
(* Every caller runs ExecuteWithRecovery on the same breaker, one call     *)
(* after the other. allowRequest holds the lock for reading, gives it up   *)
(* to take it for writing, gives that up and takes it for reading again:   *)
(* three steps. Nothing links a recorded result with the state in which    *)
(* its call was admitted. Time is kept as one fact: whether resetTimeout   *)
(* has passed since the circuit opened.                                    *)
(***************************************************************************)
EXTENDS Integers

CONSTANTS Callers,
          MaxFailures,      \* failures in a row that open the circuit
          HalfOpenMaxCalls, \* half of them, in successes, closes it
          MaxAttempts,      \* runs of the function per call
          MaxFaults         \* bound: runs and calls that go wrong

ASSUME CircuitBreakerAssumption ==
    /\ MaxFailures \in Nat \ {0} /\ HalfOpenMaxCalls \in Nat \ {0}
    /\ MaxAttempts \in Nat \ {0} /\ MaxFaults \in Nat

VARIABLES state, failures,
          halfOpenCalls, halfOpenSuccesses,
          expired,   \* resetTimeout has passed since lastFailTime
          pc,        \* where each caller is
          attempt,   \* the run of the function its call is at
          err,       \* callers whose call ended in an error
          faults,
          streak,    \* history: failures recorded since the last success
          probes     \* history: successes recorded since the circuit was half-open

breaker == <<state, failures, halfOpenCalls, halfOpenSuccesses, expired>>
history == <<streak, probes>>
cbVars == <<breaker, pc, attempt, err, faults, history>>

TypeOK ==
    /\ state \in {"closed", "half-open", "open"}
    /\ failures \in Nat /\ halfOpenCalls \in Nat /\ halfOpenSuccesses \in Nat
    /\ expired \in BOOLEAN
    /\ pc \in [Callers -> {"idle", "upgrade", "recheck", "run", "record"}]
    /\ attempt \in [Callers -> 1 .. MaxAttempts]
    /\ err \subseteq Callers
    /\ faults \in 0 .. MaxFaults
    /\ streak \in Nat /\ probes \in Nat

Init ==
    /\ state = "closed" /\ failures = 0
    /\ halfOpenCalls = 0 /\ halfOpenSuccesses = 0 /\ expired = FALSE
    /\ pc = [c \in Callers |-> "idle"]
    /\ attempt = [c \in Callers |-> 1]
    /\ err = {} /\ faults = 0 /\ streak = 0 /\ probes = 0

-----------------------------------------------------------------------------
(* allowRequest *)

Goto(c, place) == pc' = [pc EXCEPT ![c] = place]

\* What the first look at the state decides.
Allowed(place) ==
    \/ state = "closed" /\ place = "run"
    \/ state = "half-open" /\ place = (IF halfOpenCalls < HalfOpenMaxCalls THEN "run" ELSE "idle")
    \/ state = "open" /\ place = (IF expired THEN "upgrade" ELSE "idle")

allowRequest(c) ==
    /\ pc[c] = "idle"
    /\ \E place \in {"run", "idle", "upgrade"} : Allowed(place) /\ Goto(c, place)
    /\ attempt' = [attempt EXCEPT ![c] = 1]
    /\ UNCHANGED <<breaker, err, faults, history>>

\* mutant: what was seen under the read lock is not looked at again
UpgradeBlindly(c) ==
    /\ pc[c] = "upgrade"
    /\ state' = "half-open" /\ halfOpenCalls' = 0 /\ halfOpenSuccesses' = 0 /\ probes' = 0
    /\ Goto(c, "recheck")
    /\ UNCHANGED <<failures, expired, attempt, err, faults, streak>>

\* Under the write lock: the circuit becomes half-open, if it still is open.
Upgrade(c) ==
    /\ pc[c] = "upgrade"
    /\ IF state = "open" /\ expired
       THEN state' = "half-open" /\ halfOpenCalls' = 0 /\ halfOpenSuccesses' = 0 /\ probes' = 0
       ELSE UNCHANGED <<state, halfOpenCalls, halfOpenSuccesses, probes>>
    /\ Goto(c, "recheck")
    /\ UNCHANGED <<failures, expired, attempt, err, faults, streak>>

\* mutant: whoever upgraded is let through
RecheckAllows(c) ==
    /\ pc[c] = "recheck"
    /\ Goto(c, "run")
    /\ UNCHANGED <<breaker, attempt, err, faults, history>>

\* Under the read lock again: a circuit that is half-open lets the call through,
\* one that has opened or closed in between does not.
Recheck(c) ==
    /\ pc[c] = "recheck"
    /\ Goto(c, IF state = "half-open" THEN "run" ELSE "idle")
    /\ UNCHANGED <<breaker, attempt, err, faults, history>>

-----------------------------------------------------------------------------
(* RetryExecutor.Execute *)

Succeed(c) ==
    /\ pc[c] = "run"
    /\ err' = err \ {c}
    /\ Goto(c, "record")
    /\ UNCHANGED <<breaker, attempt, faults, history>>

Fault == faults < MaxFaults /\ faults' = faults + 1

\* An error that is worth another attempt: the executor waits, and tries again.
Retry(c) ==
    /\ pc[c] = "run" /\ Fault /\ attempt[c] < MaxAttempts
    /\ attempt' = [attempt EXCEPT ![c] = @ + 1]
    /\ UNCHANGED <<breaker, pc, err, history>>

\* An error that is not, the last attempt's, or a context that is done.
GiveUp(c) ==
    /\ pc[c] = "run" /\ Fault
    /\ err' = err \cup {c}
    /\ Goto(c, "record")
    /\ UNCHANGED <<breaker, attempt, history>>

\* The executor notes the attempts in the context of an enhanced error; one that
\* has no context, or none with a map, panics, and the call is never recorded.
Panic(c) ==
    /\ pc[c] = "run" /\ Fault
    /\ Goto(c, "idle")
    /\ UNCHANGED <<breaker, attempt, err, history>>

-----------------------------------------------------------------------------
(* recordResult *)

\* mutant: the circuit closes on more successes than calls it admits
recordSuccessOverAll ==
    /\ streak' = 0
    /\ \/ /\ state = "closed"
          /\ failures' = 0
          /\ UNCHANGED <<state, halfOpenCalls, halfOpenSuccesses, expired, probes>>
       \/ /\ state = "half-open"
          /\ probes' = probes + 1
          /\ halfOpenSuccesses' = halfOpenSuccesses + 1
          /\ halfOpenCalls' = halfOpenCalls + 1
          /\ IF halfOpenSuccesses' > HalfOpenMaxCalls
             THEN state' = "closed" /\ failures' = 0
             ELSE UNCHANGED <<state, failures>>
          /\ UNCHANGED expired
       \/ state = "open" /\ UNCHANGED <<breaker, probes>>

recordSuccess ==
    /\ streak' = 0
    /\ \/ /\ state = "closed"
          /\ failures' = 0
          /\ UNCHANGED <<state, halfOpenCalls, halfOpenSuccesses, expired, probes>>
       \/ /\ state = "half-open"
          /\ probes' = probes + 1
          /\ halfOpenSuccesses' = halfOpenSuccesses + 1
          /\ halfOpenCalls' = halfOpenCalls + 1
          /\ IF halfOpenSuccesses' >= HalfOpenMaxCalls \div 2
             THEN state' = "closed" /\ failures' = 0
             ELSE UNCHANGED <<state, failures>>
          /\ UNCHANGED expired
       \/ state = "open" /\ UNCHANGED <<breaker, probes>>

recordFailure ==
    /\ streak' = streak + 1
    /\ UNCHANGED <<probes, halfOpenCalls, halfOpenSuccesses>>
    /\ \/ /\ state = "closed"
          /\ failures' = failures + 1
          /\ IF failures' >= MaxFailures
             THEN state' = "open" /\ expired' = FALSE
             ELSE UNCHANGED <<state, expired>>
       \/ /\ state = "half-open"
          /\ state' = "open" /\ expired' = FALSE
          /\ failures' = failures + 1
       \/ state = "open" /\ UNCHANGED <<state, failures, expired>>

recordResult(c) ==
    /\ pc[c] = "record"
    /\ IF c \in err THEN recordFailure ELSE recordSuccess
    /\ Goto(c, "idle")
    /\ UNCHANGED <<attempt, err, faults>>

Expire ==
    /\ state = "open" /\ ~expired
    /\ expired' = TRUE
    /\ UNCHANGED <<state, failures, halfOpenCalls, halfOpenSuccesses, pc, attempt, err, faults,
                   history>>

-----------------------------------------------------------------------------
Step(c) ==
    \/ allowRequest(c) \/ Upgrade(c) \/ Recheck(c)
    \/ Succeed(c) \/ Retry(c) \/ GiveUp(c) \/ Panic(c)
    \/ recordResult(c)

Next == Expire \/ \E c \in Callers : Step(c)

Spec == Init /\ [][Next]_cbVars

\* Time passes, goroutines run, and somebody goes on calling: a breaker changes
\* only when it is used. What goes wrong is bounded.
FairSpec == Spec /\ WF_cbVars(Expire) /\ \A c \in Callers : WF_cbVars(Step(c))

-----------------------------------------------------------------------------
(* Properties *)

\* Successes that close a half-open circuit.
Needed == IF HalfOpenMaxCalls \div 2 = 0 THEN 1 ELSE HalfOpenMaxCalls \div 2

\* A half-open circuit admits calls: its counters reach their limit only by
\* leaving it, whichever results are recorded in it, those of calls admitted
\* before it opened too. It cannot be left half-open and refusing.
NeverWedged ==
    state = "half-open" => halfOpenCalls = halfOpenSuccesses /\ halfOpenCalls < HalfOpenMaxCalls

\* The circuit opens on as many failures in a row as configured or on one while
\* half-open, becomes half-open only after its timeout, and closes only on
\* enough successes since then, however the callers' looks at it interleave.
Transitions ==
    [][state' # state =>
          \/ state = "closed" /\ state' = "open" /\ streak' >= MaxFailures
          \/ state = "open" /\ state' = "half-open" /\ expired
          \/ state = "half-open" /\ state' = "open" /\ streak' >= 1
          \/ state = "half-open" /\ state' = "closed" /\ probes' >= Needed]_cbVars

\* While the circuit is open and its timeout has not passed no call is let
\* through, not even that of a caller who found it expired before it was tried
\* and opened again.
NothingWhileOpen ==
    [][state = "open" /\ ~expired =>
          \A c \in Callers : pc'[c] = "run" => pc[c] = "run"]_cbVars

\* Once nothing goes wrong any more the circuit closes for good.
ClosesAgain == <>[](state = "closed")
=============================================================================
