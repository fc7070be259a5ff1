--------------------------- MODULE EnergyTracking ---------------------------
(***************************************************************************)
(* The energy service (internal/core/energymgr): a goroutine that records  *)
(* the consumption on every tick of a ticker, started and stopped by API   *)
(* requests and by changes of the settings, which the database keeps.      *)
(*                                                                         *)
(* Everything that changes the settings or the ticker holds the mutex, so  *)
(* that one operation runs at a time; op is the place it has reached. The  *)
(* goroutines read the ticker without the mutex, each time they come to    *)
(* their select, and keep the channel they found while they wait. stopChan *)
(* is unbuffered and the stop is sent without waiting: it reaches one      *)
(* goroutine that waits in its select at that moment, or nobody.           *)
(*                                                                         *)
(* Of the settings, the model keeps whether tracking is enabled and the    *)
(* interval; the rate, the currency and the retention period are "other    *)
(* settings". What is measured and stored is left out. As of Go 1.23 a     *)
(* ticker that has been stopped delivers nothing. The kernel may end the   *)
(* process at any time; it is started again.                               *)
(***************************************************************************)
EXTENDS Naturals, FiniteSets

CONSTANTS Loops,      \* goroutines that can exist at a time (a bound)
          Intervals,  \* update intervals that are sent, in seconds
          Default     \* DefaultUpdateInterval

\* The interval of a request is not looked at: 0 (or less) comes through.
ASSUME EnergyTrackingAssumption ==
    Intervals \subseteq Nat /\ Default \in Intervals \ {0} /\ IsFiniteSet(Loops)

VARIABLES proc,      \* "up", or how the process ended
          stage,     \* "new" until initialize has the settings, then "loaded"; "ready" is isInitialized
          settings,  \* as the service has them
          stored,    \* as the database has them
          ticker,    \* interval of updateTicker, 0 if that is nil
          loops,     \* where each tracking goroutine is
          op,        \* where the operation that holds the mutex is, "idle" if none does
          stops,     \* history: "missed" if a stop found a goroutine outside its select, else "heard"
          acked,     \* history: the settings as the last successful request left them
          row,       \* history: what may have become of them in the database since
          memory     \* history: whether the service, as it is in memory, still follows its row

history == <<stops, acked, row, memory>>
etVars == <<proc, stage, settings, stored, ticker, loops, op, history>>

Settings == [enabled : BOOLEAN, interval : Intervals]
DefaultSettings == [enabled |-> TRUE, interval |-> Default]

\* "acked": they are there. "reset": a start could not read the row. "open": a
\* request stored its own and was not answered.
Rows == {"acked", "reset", "open"}

\* "clean": it follows it. "unstarted": the start has failed, tracking never began.
\* "changed": a request has failed half-way.
Memories == {"clean", "unstarted", "changed"}

\* "top": about to read the ticker. "armed" and "waiting": has its channel, and
\* waits on it. "late" and "orphan": the same, and the ticker has been stopped.
Places == {"none", "top", "armed", "waiting", "late", "orphan", "busy", "stored"}

TypeOK ==
    /\ proc \in {"up", "killed", "ticker", "interval"}
    /\ stage \in {"new", "loaded", "ready"}
    /\ settings \in Settings /\ stored \in Settings /\ acked \in Settings
    /\ ticker \in Intervals \cup {0}
    /\ loops \in [Loops -> Places]
    /\ op \in {"idle", "init", "save", "saveRestart", "halt", "signal", "restart",
               "signalStop", "record"}
    /\ stops \in {"heard", "missed"} /\ row \in Rows /\ memory \in Memories

Init ==
    /\ proc = "up" /\ stage = "new" /\ op = "idle"
    /\ settings = DefaultSettings /\ stored = DefaultSettings /\ acked = DefaultSettings
    /\ ticker = 0
    /\ loops = [l \in Loops |-> "none"]
    /\ stops = "heard" /\ row = "acked" /\ memory = "clean"

Running == {l \in Loops : loops[l] # "none"}
InSelect == {l \in Loops : loops[l] \in {"waiting", "orphan"}}

-----------------------------------------------------------------------------
(* startTracking and stopTracking *)

\* mutant: no new goroutine where there is one
StartsTheFirst ==
    /\ ticker' = settings.interval
    /\ IF Running = {}
       THEN \E l \in Loops : loops[l] = "none" /\ loops' = [loops EXCEPT ![l] = "top"]
       ELSE UNCHANGED loops

\* A new ticker, and a goroutine for it.
startTracking ==
    /\ ticker' = settings.interval
    /\ \E l \in Loops : loops[l] = "none" /\ loops' = [loops EXCEPT ![l] = "top"]

\* The ticker is stopped and forgotten.
stopTracking ==
    /\ ticker' = 0
    /\ loops' = [l \in Loops |-> CASE loops[l] = "armed"   -> "late"
                                   [] loops[l] = "waiting" -> "orphan"
                                   [] OTHER                -> loops[l]]
    /\ stops' = IF \A l \in Running : loops[l] = "waiting" THEN stops ELSE "missed"

\* mutant: nothing is sent
SignalNobody == UNCHANGED loops

\* mutant: the stop is sent as an ordinary send
SignalWaits == \E l \in InSelect : loops' = [loops EXCEPT ![l] = "none"]

\* One of the goroutines in their select takes the stop and returns.
Signal ==
    \/ InSelect = {} /\ UNCHANGED loops
    \/ \E l \in InSelect : loops' = [loops EXCEPT ![l] = "none"]

-----------------------------------------------------------------------------
(* initialize, in a goroutine of its own *)

\* Whatever keeps the settings from being read, the defaults replace them.
LoadSettings ==
    /\ proc = "up" /\ stage = "new" /\ op = "idle"
    /\ stage' = "loaded"
    /\ \/ settings' = stored /\ op' = "init" /\ memory' = "clean"
          /\ UNCHANGED <<stored, row>>
       \/ settings' = DefaultSettings /\ op' = "init" /\ memory' = "clean"
          /\ stored' = DefaultSettings /\ row' = "reset"
       \/ settings' = DefaultSettings /\ op' = "idle" /\ memory' = "unstarted"
          /\ UNCHANGED <<stored, row>>
    /\ UNCHANGED <<proc, ticker, loops, stops, acked>>

\* Loads the history, then tracks. A ticker of 0 seconds panics, here in a
\* goroutine that nothing guards.
StartService ==
    /\ op = "init" /\ op' = "idle"
    /\ \/ /\ memory' = "unstarted"
          /\ UNCHANGED <<proc, stage, ticker, loops>>
       \/ /\ ~settings.enabled
          /\ stage' = "ready"
          /\ UNCHANGED <<proc, ticker, loops, memory>>
       \/ /\ settings.enabled /\ settings.interval # 0
          /\ stage' = "ready" /\ startTracking
          /\ UNCHANGED <<proc, memory>>
       \/ /\ settings.enabled /\ settings.interval = 0
          /\ proc' = "interval"
          /\ UNCHANGED <<stage, ticker, loops, memory>>
    /\ UNCHANGED <<settings, stored, stops, acked, row>>

-----------------------------------------------------------------------------
(* Requests. Each ends with the answer; a panic ends it, is recovered, and   *)
(* lets go of the mutex.                                                     *)

Request == proc = "up" /\ op = "idle"
HasRoom == Running # Loops

\* UpdateSettings changes the settings in place. Before initialize has some, it
\* panics and nothing is changed.
UpdateSettings ==
    /\ Request /\ stage # "new" /\ HasRoom
    /\ \/ settings' \in Settings /\ op' = "saveRestart"
       \/ UNCHANGED settings /\ op' = "save"
    /\ UNCHANGED <<proc, stage, stored, ticker, loops, history>>

\* Success is answered: what the service has is what was asked for.
Acknowledge == acked' = settings /\ row' = "acked" /\ memory' = "clean"

\* mutant: tracking is not restarted
SavedIsEnough ==
    /\ op \in {"save", "saveRestart"}
    /\ stored' = settings /\ acked' = settings /\ op' = "idle"
    /\ row' = "acked" /\ memory' = IF op = "save" THEN memory ELSE "clean"
    /\ UNCHANGED <<proc, stage, settings, ticker, loops, stops>>

\* They are stored, the other settings too, and a change of the interval or of
\* the switch restarts tracking.
Saved ==
    /\ op \in {"save", "saveRestart"}
    /\ stored' = settings
    /\ IF op = "save"
       THEN op' = "idle" /\ acked' = settings /\ row' = "acked"
       ELSE op' = "halt" /\ UNCHANGED <<acked, row>>
    /\ UNCHANGED <<proc, stage, settings, ticker, loops, stops, memory>>

\* If that fails the settings in memory stay as they were changed.
NotSaved ==
    /\ op \in {"save", "saveRestart"}
    /\ op' = "idle"
    /\ memory' = IF op = "saveRestart" THEN "changed" ELSE memory
    /\ UNCHANGED <<proc, stage, settings, stored, ticker, loops, stops, acked, row>>

Halt ==
    /\ op = "halt" /\ op' = "signal"
    /\ stopTracking
    /\ UNCHANGED <<proc, stage, settings, stored, acked, row, memory>>

SignalHalt ==
    /\ op = "signal" /\ op' = "restart"
    /\ Signal
    /\ UNCHANGED <<proc, stage, settings, stored, ticker, history>>

Restart ==
    /\ op = "restart" /\ op' = "idle"
    /\ \/ /\ ~settings.enabled
          /\ Acknowledge
          /\ UNCHANGED <<ticker, loops>>
       \/ /\ settings.enabled /\ settings.interval # 0
          /\ Acknowledge
          /\ startTracking
       \/ /\ settings.enabled /\ settings.interval = 0
          /\ row' = "open" /\ memory' = "changed"
          /\ UNCHANGED <<ticker, loops, acked>>
    /\ UNCHANGED <<proc, stage, settings, stored, stops>>

\* A refusal, or the panic of a ticker of 0 seconds, changes nothing.
StartTracking ==
    /\ Request /\ stage = "ready" /\ ticker = 0 /\ settings.interval # 0 /\ HasRoom
    /\ startTracking
    /\ settings' = [settings EXCEPT !.enabled = TRUE]
    /\ op' = "record"
    /\ UNCHANGED <<proc, stage, stored, history>>

StopTracking ==
    /\ Request /\ stage = "ready" /\ ticker # 0
    /\ stopTracking
    /\ op' = "signalStop"
    /\ UNCHANGED <<proc, stage, settings, stored, acked, row, memory>>

SignalStop ==
    /\ op = "signalStop" /\ op' = "record"
    /\ Signal
    /\ settings' = [settings EXCEPT !.enabled = FALSE]
    /\ UNCHANGED <<proc, stage, stored, ticker, history>>

\* StartTracking and StopTracking store what they have done.
Recorded ==
    /\ op = "record" /\ op' = "idle"
    /\ stored' = settings /\ Acknowledge
    /\ UNCHANGED <<proc, stage, settings, ticker, loops, stops>>

NotRecorded ==
    /\ op = "record" /\ op' = "idle"
    /\ memory' = "changed"
    /\ UNCHANGED <<proc, stage, settings, stored, ticker, loops, stops, acked, row>>

Operation ==
    \/ LoadSettings \/ StartService
    \/ Saved \/ NotSaved \/ Halt \/ SignalHalt \/ Restart
    \/ SignalStop \/ Recorded \/ NotRecorded

-----------------------------------------------------------------------------
(* The tracking goroutines *)

\* An update that has stored its settings and still restarts tracking.
Restarting == op \in {"halt", "signal", "restart"}

\* The process ends, whatever it was doing.
Ends(how) ==
    /\ proc = "up" /\ proc' = how
    /\ row' = IF Restarting THEN "open" ELSE row
    /\ UNCHANGED <<stage, settings, stored, ticker, loops, op, stops, acked, memory>>

Moves(l, from, to) ==
    /\ proc = "up"
    /\ loops[l] = from /\ loops' = [loops EXCEPT ![l] = to]
    /\ UNCHANGED <<proc, stage, settings, stored, ticker, op, history>>

\* The select reads s.updateTicker.C, and there may be no ticker any more.
Evaluate(l) ==
    \/ ticker # 0 /\ Moves(l, "top", "armed")
    \/ ticker = 0 /\ loops[l] = "top" /\ Ends("ticker")

Park(l) == Moves(l, "armed", "waiting") \/ Moves(l, "late", "orphan")

Tick(l) == Moves(l, "waiting", "busy")

\* updateEnergyData stores the snapshot, and takes the mutex to remember it.
Store(l) == Moves(l, "busy", "stored")
Remember(l) == op = "idle" /\ Moves(l, "stored", "top")

\* mutant: an update that fails ends the goroutine
FailureReturns(l) == Moves(l, "busy", "none")

\* If the entities cannot be read or a row not stored, the error is logged.
UpdateFails(l) == Moves(l, "busy", "top")

Loop(l) == Evaluate(l) \/ Park(l) \/ Tick(l) \/ Store(l) \/ Remember(l) \/ UpdateFails(l)

-----------------------------------------------------------------------------
(* The process *)

Kill == Ends("killed")

Boot ==
    /\ proc # "up" /\ proc' = "up"
    /\ stage' = "new" /\ op' = "idle" /\ ticker' = 0
    /\ loops' = [l \in Loops |-> "none"]
    /\ stops' = "heard"
    /\ UNCHANGED <<settings, stored, acked, row, memory>>

Next ==
    \/ proc = "up" /\ Operation
    \/ UpdateSettings \/ StartTracking \/ StopTracking
    \/ \E l \in Loops : Loop(l)
    \/ Kill \/ Boot

Spec == Init /\ [][Next]_etVars

\* The goroutine that holds the mutex runs on; so do the tracking goroutines,
\* whose ticker ticks, and among many attempts to store a snapshot some succeed. A
\* Go mutex is handed to whoever has waited for it for long.
FairSpec ==
    /\ Spec
    /\ WF_etVars(proc = "up" /\ Operation)
    /\ \A l \in Loops : /\ WF_etVars(Evaluate(l)) /\ WF_etVars(Park(l)) /\ WF_etVars(Tick(l))
                        /\ SF_etVars(Store(l)) /\ SF_etVars(Remember(l))

-----------------------------------------------------------------------------

\* While there is a ticker, a goroutine waits on it or will come to read it: no
\* stop ever reaches the goroutine that was started last but the stop of its own
\* ticker, whatever stops were lost before (startTracking, stopTracking).
TickerServed ==
    proc = "up" /\ ticker # 0 =>
        \E l \in Loops : loops[l] \in {"top", "armed", "waiting", "busy", "stored"}

\* As long as every stop has found the goroutine in its select, there is only one
\* of them and it never reads a ticker that is not there. (One that is busy gets no
\* stop: two goroutines after a restart, the end of the process without one.)
LoneLoop ==
    stops = "heard" => proc # "ticker" /\ Cardinality(Running) <= 1

\* Through requests that succeed, fail or are not answered, through starts that
\* succeed or fail, and crashes between any two steps: the database keeps what was
\* acknowledged. Two things alone may take its place, the defaults, if a start could
\* not read it, and the settings of an update that stored them and was not answered
\* (of which nothing is said). A failed request leaves the row as it was; the memory
\* it has changed goes its own way until the next start or success. Otherwise the
\* service has what the database has, and its ticker is that of its settings, unless
\* the start failed: then there is none until tracking is asked for. A start dies of
\* nothing but a stored interval of 0.
InForce == IF settings.enabled THEN settings.interval ELSE 0
Settled ==
    /\ row = "acked" /\ ~Restarting => stored = acked
    /\ row = "reset" /\ ~Restarting => stored \in {acked, DefaultSettings}
    /\ proc = "up" /\ op = "idle" /\ stage # "new" =>
           /\ memory = "clean" => settings = stored /\ ticker = InForce
           /\ memory = "unstarted" => settings \in {stored, DefaultSettings} /\ ticker = 0
    /\ proc = "interval" => stored.enabled /\ stored.interval = 0

\* No request holds the mutex for ever, though the stop has to reach goroutines
\* that wait for the mutex themselves.
CallsReturn == (op # "idle") ~> (op = "idle" \/ proc # "up")

\* While there is a ticker, snapshots go on being stored and remembered.
Records ==
    <>[](proc = "up" /\ ticker # 0) => []<><<\E l \in Loops : Remember(l)>>_etVars
=============================================================================
