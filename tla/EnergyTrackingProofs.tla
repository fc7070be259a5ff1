------------------------ MODULE EnergyTrackingProofs ------------------------
(***************************************************************************)
(* Proofs about EnergyTracking: types, and that a ticker is served, one    *)
(* goroutine serves it as long as stops find it waiting, and what was      *)
(* acknowledged stays in the database and in force, but for the losses     *)
(* Settled names, for any set of goroutines and any intervals.             *)
(***************************************************************************)
EXTENDS EnergyTracking, FiniteSetTheorems, TLAPS

USE EnergyTrackingAssumption

LEMMA DefaultIsValid == DefaultSettings \in Settings
BY DEF DefaultSettings, Settings

LEMMA InitTypes == Init => TypeOK
BY DefaultIsValid DEF Init, TypeOK, Places, Rows, Memories

LEMMA NextTypes == TypeOK /\ [Next]_etVars => TypeOK'
<1> SUFFICES ASSUME TypeOK, [Next]_etVars PROVE TypeOK'
  OBVIOUS
<1> USE DEF TypeOK, Places, Running, InSelect, Rows, Memories, Acknowledge
<1>1. CASE UNCHANGED etVars
  BY <1>1 DEF etVars, history
<1>2. CASE LoadSettings
  BY <1>2, DefaultIsValid DEF LoadSettings
<1>3. CASE StartService
  BY <1>3 DEF StartService, startTracking, Settings
<1>4. CASE UpdateSettings \/ Saved \/ NotSaved
  BY <1>4 DEF UpdateSettings, Saved, NotSaved, history
<1>5. CASE Halt \/ SignalHalt
  BY <1>5 DEF Halt, SignalHalt, stopTracking, Signal, history
<1>6. CASE Restart \/ StartTracking
  BY <1>6 DEF Restart, StartTracking, startTracking, history, Settings
<1>7. CASE StopTracking \/ SignalStop
  BY <1>7 DEF StopTracking, SignalStop, stopTracking, Signal, history, Settings
<1>8. CASE Recorded \/ NotRecorded
  BY <1>8 DEF Recorded, NotRecorded
<1>9. CASE \E l \in Loops : Loop(l)
  BY <1>9 DEF Loop, Evaluate, Park, Tick, Store, Remember, UpdateFails, Moves, Ends, history
<1>10. CASE Kill \/ Boot
  BY <1>10 DEF Kill, Ends, Boot
<1> QED
  BY <1>1, <1>2, <1>3, <1>4, <1>5, <1>6, <1>7, <1>8, <1>9, <1>10 DEF Next, Operation

\* The type invariant, for every behaviour.
THEOREM TrackingTypes == Spec => []TypeOK
BY InitTypes, NextTypes, PTL DEF Spec

-----------------------------------------------------------------------------
(* A ticker is served. What the invariant lacks is that there is no ticker   *)
(* where one is about to be made, and while a stop is on its way.            *)

Stopped ==
    /\ ticker # 0 => op \notin {"init", "signal", "signalStop", "restart"}
    /\ stage = "new" => op = "idle" /\ ticker = 0

LEMMA InitServed == Init => Stopped /\ TickerServed
BY DEF Init, Stopped, TickerServed

LEMMA NextStopped == TypeOK /\ Stopped /\ [Next]_etVars => Stopped'
<1> SUFFICES ASSUME TypeOK, Stopped, [Next]_etVars PROVE Stopped'
  OBVIOUS
<1> USE DEF Stopped
<1>1. CASE UNCHANGED etVars
  BY <1>1 DEF etVars
<1>2. CASE LoadSettings \/ StartService
  BY <1>2 DEF LoadSettings, StartService, startTracking
<1>3. CASE UpdateSettings \/ Saved \/ NotSaved \/ Recorded \/ NotRecorded
  BY <1>3 DEF UpdateSettings, Saved, NotSaved, Recorded, NotRecorded
<1>4. CASE Halt \/ SignalHalt \/ StopTracking \/ SignalStop
  BY <1>4 DEF Halt, SignalHalt, StopTracking, SignalStop, stopTracking
<1>5. CASE Restart \/ StartTracking
  BY <1>5 DEF Restart, StartTracking, startTracking
<1>6. CASE \E l \in Loops : Loop(l)
  BY <1>6 DEF Loop, Evaluate, Park, Tick, Store, Remember, UpdateFails, Moves, Ends
<1>7. CASE Kill \/ Boot
  BY <1>7 DEF Kill, Ends, Boot
<1> QED
  BY <1>1, <1>2, <1>3, <1>4, <1>5, <1>6, <1>7 DEF Next, Operation

LEMMA NextServed ==
    TypeOK /\ Stopped /\ TickerServed /\ [Next]_etVars => TickerServed'
<1> SUFFICES ASSUME TypeOK, Stopped, TickerServed, [Next]_etVars,
                    proc' = "up", ticker' # 0
             PROVE  \E l \in Loops : loops'[l] \in {"top", "armed", "waiting", "busy", "stored"}
  BY DEF TickerServed
<1> DEFINE Serves(m) == m \in {"top", "armed", "waiting", "busy", "stored"}
<1> USE DEF TypeOK
<1>1. CASE UNCHANGED etVars
  BY <1>1 DEF etVars, TickerServed
<1>2. CASE startTracking
  BY <1>2 DEF startTracking
<1>3. CASE UNCHANGED <<proc, ticker, loops>>
  BY <1>3 DEF TickerServed
<1>4. CASE Halt \/ StopTracking
  BY <1>4 DEF Halt, StopTracking, stopTracking
<1>5. CASE SignalHalt \/ SignalStop
  BY <1>5 DEF SignalHalt, SignalStop, Stopped
<1>6. ASSUME NEW l \in Loops, Loop(l)
      PROVE  \E k \in Loops : Serves(loops'[k])
  <2>1. PICK k \in Loops : Serves(loops[k])
    BY <1>6 DEF TickerServed, Loop, Evaluate, Park, Tick, Store, Remember, UpdateFails, Moves, Ends
  <2>2. CASE k # l
    BY <1>6, <2>1, <2>2
       DEF Loop, Evaluate, Park, Tick, Store, Remember, UpdateFails, Moves, Ends
  <2>3. CASE k = l
    BY <1>6, <2>1, <2>3
       DEF Loop, Evaluate, Park, Tick, Store, Remember, UpdateFails, Moves, Ends
  <2> QED
    BY <2>2, <2>3
<1>7. CASE Kill \/ Boot
  BY <1>7 DEF Kill, Ends, Boot
<1>8. CASE LoadSettings \/ StartService \/ UpdateSettings \/ Saved \/ NotSaved \/ Restart
           \/ StartTracking \/ Recorded \/ NotRecorded
  BY <1>2, <1>3, <1>8
     DEF LoadSettings, StartService, UpdateSettings, Saved, NotSaved, Restart,
         StartTracking, Recorded, NotRecorded
<1> QED
  BY <1>1, <1>4, <1>5, <1>6, <1>7, <1>8 DEF Next, Operation

\* A ticker is served by a goroutine that no stop will reach before that ticker's own.
THEOREM TickerServedHolds == Spec => []TickerServed
BY InitTypes, NextTypes, InitServed, NextStopped, NextServed, PTL DEF Spec

-----------------------------------------------------------------------------
(* One goroutine, as long as stops find it in its select. It is the only     *)
(* one, its channel is that of the ticker while there is one, and without a  *)
(* ticker it is gone, or in its select and about to take the stop.           *)

Alone ==
    stops = "heard" =>
        /\ proc # "ticker"
        /\ \A k, l \in Running : k = l
        /\ ticker # 0 => \A l \in Loops : loops[l] \notin {"late", "orphan"}
        /\ ticker = 0 => \/ Running = {}
                         \/ /\ op \in {"signal", "signalStop"}
                            /\ \A l \in Running : loops[l] = "orphan"

LEMMA InitAlone == Init => Alone
BY DEF Init, Alone, Running

LEMMA NextAlone == TypeOK /\ Stopped /\ Alone /\ [Next]_etVars => Alone'
<1> SUFFICES ASSUME TypeOK, Stopped, Alone, [Next]_etVars PROVE Alone'
  OBVIOUS
<1> USE DEF TypeOK, Running
<1>1. CASE UNCHANGED etVars
  BY <1>1 DEF etVars, history, Alone
<1>2. ASSUME startTracking, settings.interval # 0, ticker = 0, op \notin {"signal", "signalStop"},
             UNCHANGED <<proc, stops>>
      PROVE  Alone'
  BY <1>2 DEF startTracking, Alone
<1>3. ASSUME UNCHANGED <<ticker, loops, stops>>, proc' \in {proc, "interval"},
             op \notin {"signal", "signalStop"} \/ op' = op
      PROVE  Alone'
  BY <1>3 DEF Alone
<1>4. CASE Halt \/ StopTracking
  <2> SUFFICES ASSUME stops' = "heard" PROVE Alone'
    BY DEF Alone
  <2>1. stops = "heard" /\ \A l \in Running : loops[l] = "waiting"
    BY <1>4 DEF Halt, StopTracking, stopTracking
  <2>2. \A l \in Loops : loops'[l] = IF loops[l] = "waiting" THEN "orphan" ELSE loops[l]
    BY <1>4, <2>1 DEF Halt, StopTracking, stopTracking
  <2>3. Running' = Running /\ \A l \in Running : loops'[l] = "orphan"
    BY <2>1, <2>2
  <2>4. ticker' = 0 /\ op' \in {"signal", "signalStop"} /\ proc' = proc
    BY <1>4 DEF Halt, StopTracking, stopTracking
  <2> QED
    BY <2>1, <2>3, <2>4 DEF Alone
<1>5. CASE SignalHalt \/ SignalStop
  BY <1>5 DEF SignalHalt, SignalStop, Signal, InSelect, Stopped, history, Alone
<1>6. ASSUME NEW l \in Loops, Loop(l)
      PROVE  Alone'
  BY <1>6 DEF Loop, Evaluate, Park, Tick, Store, Remember, UpdateFails, Moves, Ends, history, Alone
<1>7. CASE Boot
  BY <1>7 DEF Boot, Alone
<1>8. CASE Kill
  BY <1>8 DEF Kill, Ends, Alone
<1>9. CASE StartService \/ Restart \/ StartTracking
  <2>1. op \notin {"signal", "signalStop"}
    BY <1>9 DEF StartService, Restart, StartTracking, Request
  <2>2. ticker = 0
    BY <1>9 DEF StartService, Restart, StartTracking, Stopped
  <2>3. UNCHANGED stops
    BY <1>9 DEF StartService, Restart, StartTracking, history
  <2>4. \/ startTracking /\ settings.interval # 0 /\ UNCHANGED proc
        \/ UNCHANGED <<ticker, loops>> /\ proc' \in {proc, "interval"}
    BY <1>9 DEF StartService, Restart, StartTracking
  <2> QED
    BY <1>2, <1>3, <2>1, <2>2, <2>3, <2>4
<1>10. CASE LoadSettings \/ UpdateSettings \/ Saved \/ NotSaved \/ Recorded \/ NotRecorded
  <2>1. op \notin {"signal", "signalStop"} /\ UNCHANGED <<proc, ticker, loops, stops>>
    BY <1>10
       DEF LoadSettings, UpdateSettings, Request, Saved, NotSaved, Recorded, NotRecorded, history
  <2> QED
    BY <1>3, <2>1
<1> QED
  BY <1>1, <1>4, <1>5, <1>6, <1>7, <1>8, <1>9, <1>10 DEF Next, Operation

LEMMA AloneMeansOne == Alone => LoneLoop
<1> SUFFICES ASSUME Alone, stops = "heard" PROVE Cardinality(Running) <= 1
  BY DEF Alone, LoneLoop
<1>1. CASE Running = {}
  BY <1>1, FS_EmptySet
<1>2. CASE Running # {}
  <2>1. PICK l \in Running : Running = {l}
    BY <1>2 DEF Alone
  <2> QED
    BY <2>1, FS_Singleton
<1> QED
  BY <1>1, <1>2

\* One goroutine, as long as every stop has found it in its select.
THEOREM LoneLoopHolds == Spec => []LoneLoop
BY InitTypes, NextTypes, InitServed, NextStopped, InitAlone, NextAlone, AloneMeansOne,
   PTL DEF Spec

-----------------------------------------------------------------------------
(* What was acknowledged. The invariant follows an operation from place to   *)
(* place: what is stored while tracking is restarted is what will be         *)
(* acknowledged, and what StartTracking and StopTracking store is what they  *)
(* have done already.                                                        *)

Underway ==
    /\ Restarting => stored = settings
    /\ op = "record" => ticker = InForce /\ (settings.enabled => settings.interval # 0)

Matching ==
    /\ row = "acked" /\ ~Restarting => stored = acked
    /\ row = "reset" /\ ~Restarting => stored \in {acked, DefaultSettings}
    /\ op = "init" => settings = stored /\ memory = "clean"
    /\ proc # "up" /\ Restarting => row = "open"
    /\ proc = "up" /\ stage # "new" /\ op \in {"idle", "save"} =>
           /\ memory = "clean" => settings = stored /\ ticker = InForce
           /\ memory = "unstarted" => settings \in {stored, DefaultSettings} /\ ticker = 0
    /\ proc = "interval" => stored.enabled /\ stored.interval = 0

LEMMA InitMatching == Init => Underway /\ Matching
BY DEF Init, Underway, Matching, Restarting, DefaultSettings

LEMMA NextUnderway == TypeOK /\ Stopped /\ Underway /\ [Next]_etVars => Underway'
<1> SUFFICES ASSUME TypeOK, Stopped, Underway, [Next]_etVars PROVE Underway'
  OBVIOUS
<1> USE DEF Underway, Restarting, InForce
<1>1. CASE UNCHANGED etVars
  BY <1>1 DEF etVars
<1>2. CASE LoadSettings \/ StartService \/ UpdateSettings \/ Saved \/ NotSaved \/ Recorded
           \/ NotRecorded \/ Restart \/ Boot
  BY <1>2 DEF LoadSettings, StartService, UpdateSettings, Saved, NotSaved, Recorded,
              NotRecorded, Restart, Boot
<1>3. CASE Halt \/ SignalHalt \/ StopTracking
  BY <1>3 DEF Halt, SignalHalt, StopTracking
<1>4. CASE SignalStop
  <2>1. settings'.enabled = FALSE /\ ticker' = ticker /\ op' = "record"
    BY <1>4 DEF SignalStop, TypeOK, Settings
  <2> QED
    BY <1>4, <2>1 DEF SignalStop, Stopped
<1>5. CASE StartTracking
  <2>1. settings'.interval = settings.interval /\ op' = "record"
    BY <1>5 DEF StartTracking, TypeOK, Settings
  <2>2. ticker' = settings.interval /\ settings.interval # 0
    BY <1>5 DEF StartTracking, startTracking
  <2>3. settings'.enabled
    BY <1>5 DEF StartTracking, TypeOK, Settings
  <2> QED
    BY <2>1, <2>2, <2>3
<1>6. CASE \E l \in Loops : Loop(l)
  BY <1>6 DEF Loop, Evaluate, Park, Tick, Store, Remember, UpdateFails, Moves, Ends
<1>7. CASE Kill
  BY <1>7 DEF Kill, Ends
<1> QED
  BY <1>1, <1>2, <1>3, <1>4, <1>5, <1>6, <1>7 DEF Next, Operation

LEMMA NextMatching ==
    TypeOK /\ Stopped /\ Underway /\ Matching /\ [Next]_etVars => Matching'
<1> SUFFICES ASSUME TypeOK, Stopped, Underway, Matching, [Next]_etVars PROVE Matching'
  OBVIOUS
<1> USE DEF Matching, Restarting, InForce, Acknowledge
<1>1. CASE UNCHANGED etVars
  BY <1>1 DEF etVars, history
<1>2. CASE proc = "up" /\ LoadSettings
  BY <1>2 DEF LoadSettings, Stopped
<1>3. CASE proc = "up" /\ StartService
  BY <1>3 DEF StartService, startTracking, Stopped
<1>4. CASE UpdateSettings
  BY <1>4 DEF UpdateSettings, Request, history
<1>5. CASE proc = "up" /\ (Saved \/ NotSaved)
  BY <1>5 DEF Saved, NotSaved
<1>6. CASE Halt \/ SignalHalt \/ StopTracking
  BY <1>6 DEF Halt, SignalHalt, StopTracking, stopTracking, Request, history
<1>7. CASE proc = "up" /\ Restart
  BY <1>7 DEF Restart, startTracking, Stopped, Underway
<1>8. CASE StartTracking \/ SignalStop
  BY <1>8 DEF StartTracking, SignalStop, Request, history
<1>9. CASE proc = "up" /\ (Recorded \/ NotRecorded)
  BY <1>9 DEF Recorded, NotRecorded, Underway
<1>10. CASE \E l \in Loops : Loop(l)
  BY <1>10 DEF Loop, Evaluate, Park, Tick, Store, Remember, UpdateFails, Moves, Ends, history
<1>11. CASE Kill \/ Boot
  BY <1>11 DEF Kill, Ends, Boot
<1> QED
  BY <1>1, <1>2, <1>3, <1>4, <1>5, <1>6, <1>7, <1>8, <1>9, <1>10, <1>11 DEF Next, Operation

LEMMA MatchingMeansSettled == Matching => Settled
BY DEF Matching, Settled, Restarting

\* The database keeps what was acknowledged but for the two losses Settled names,
\* and the service follows its row but after a request or a start that failed.
THEOREM SettledHolds == Spec => []Settled
BY InitTypes, NextTypes, InitServed, NextStopped, InitMatching, NextUnderway, NextMatching,
   MatchingMeansSettled, PTL DEF Spec
=============================================================================
