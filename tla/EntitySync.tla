----------------------------- MODULE EntitySync -----------------------------
(***************************************************************************)
(* UnifiedEntityService (internal/core/unified/entity_service) over the    *)
(* entity registry: synchronisation with Home Assistant, the scheduler of  *)
(* the periodic synchronisation, and the API handler that writes entities. *)
(*                                                                         *)
(* Synchronisations run in any number of goroutines at once: the one after *)
(* start-up (Boot, NewHandlers), the periodic loop (Loop), and one per API *)
(* request. None holds a lock across its steps. Each asks Home Assistant,  *)
(* stamps what it was told with the time it converted it, then for each    *)
(* entity looks the ID up in the registry, decides, and acts on the        *)
(* decision. The API handler (an editor) looks up, stamps and writes.      *)
(*                                                                         *)
(* Time stamps are kept as an order: ahead[p] is the set of IDs whose      *)
(* registered copy was stamped after p's, since[p] the processes still at  *)
(* work that stamped after p. An answer is stamped as a whole here, though *)
(* the code reads the clock once per entity of it.                         *)
(***************************************************************************)
EXTENDS EntityRegistry

CONSTANTS HA, PMA,      \* the sources: Home Assistant, and the API's own entities
          Gone,         \* what Home Assistant has for an ID it does not know
          Boot, Loop,   \* the start-up goroutine and the periodic loop
          Requests,     \* API requests for a synchronisation
          Editors,      \* API requests that create or update an entity
          MaxChanges,   \* bound: changes of state at Home Assistant
          MaxEdits      \* bound: entities created or updated over the API

Syncers == {Boot, Loop} \cup Requests

Procs == Syncers \cup Editors

ASSUME EntitySyncAssumption ==
    /\ Types # {} /\ States # {}
    /\ HA \in Sources /\ PMA \in Sources /\ HA # PMA
    /\ Gone \notin States
    /\ Boot # Loop /\ Boot \notin Requests /\ Loop \notin Requests
    /\ Syncers \cap Editors = {}
    /\ MaxChanges \in Nat /\ MaxEdits \in Nat

VARIABLES world,      \* what Home Assistant would answer about each ID
          connected,  \* the adapter is connected to it
          pc,         \* where each process is
          ans,        \* the answer a synchronisation works on
          todo,       \* IDs of the answer it has not come to
          turn,       \* the ID it is at and what it decided: <<id, decision>>
          ahead,      \* see above
          since,      \* see above
          overlapped, \* history: synchronisations that were not alone
          raced,      \* history: those whose decision another write overtook
          running,    \* syncRunning
          ticker,     \* syncTicker is not nil
          token,      \* syncStopChan holds a value
          crashed,    \* the process died of a nil dereference
          changes, edits

worldVars == <<world, changes>>
stampVars == <<ahead, since, raced>>
schedVars == <<running, ticker, token, crashed>>
syncVars == <<registryVars, worldVars, connected, pc, ans, todo, turn, stampVars,
              overlapped, schedVars, edits>>

AtWork == {"fetch", "stamp", "next", "act", "write"}

NoAnswer == [id \in Ids |-> Gone]

NoTurn == <<>>

SyncTypeOK ==
    /\ TypeOK
    /\ world \in [Ids -> States \cup {Gone}]
    /\ connected \in BOOLEAN
    /\ pc \in [Procs -> AtWork \cup {"connect", "start", "over", "off", "enter", "select",
                                     "ended", "idle"}]
    /\ ans \in [Syncers -> [Ids -> States \cup {Gone}]]
    /\ todo \in [Syncers -> SUBSET Ids]
    /\ \A p \in Procs : turn[p] # NoTurn =>
          pc[p] \in {"act", "stamp", "write"} /\ turn[p][2] \in {"register", "update"}
    /\ ahead \in [Procs -> SUBSET Ids]
    /\ since \in [Procs -> SUBSET Procs]
    /\ overlapped \subseteq Syncers /\ raced \subseteq Syncers
    /\ running \in BOOLEAN /\ ticker \in BOOLEAN /\ token \in BOOLEAN /\ crashed \in BOOLEAN
    /\ changes \in 0 .. MaxChanges /\ edits \in 0 .. MaxEdits

\* No state is special: what Home Assistant has at first is in one of them.
SyncInit ==
    /\ Init
    /\ world \in [Ids -> {CHOOSE s \in States : TRUE, Gone}]
    /\ connected = FALSE
    /\ pc = [p \in Procs |-> IF p = Boot THEN "connect" ELSE IF p = Loop THEN "off" ELSE "idle"]
    /\ ans = [p \in Syncers |-> NoAnswer]
    /\ todo = [p \in Syncers |-> {}]
    /\ turn = [p \in Procs |-> NoTurn]
    /\ ahead = [p \in Procs |-> {}]
    /\ since = [p \in Procs |-> {}]
    /\ overlapped = {} /\ raced = {}
    /\ running = FALSE /\ ticker = FALSE /\ token = FALSE /\ crashed = FALSE
    /\ changes = 0 /\ edits = 0

-----------------------------------------------------------------------------
(* Stamps *)

Stamped(p) == pc[p] \in {"next", "act", "write"}

\* time.Now(): p's stamp is after that of everything registered and of every
\* process that has one.
TakeStamp(p) ==
    /\ UNCHANGED raced
    /\ ahead' = [ahead EXCEPT ![p] = {}]
    /\ since' = [q \in Procs |-> IF Stamped(q) THEN since[q] \cup {p} ELSE since[q]]

\* p's copy of id is the registered one from now on.
Written(p, id) ==
    /\ ahead' = [q \in Procs |->
                   IF p \in since[q] THEN ahead[q] \cup {id} ELSE ahead[q] \ {id}]
    /\ raced' = (raced \ {p}) \cup
                {q \in Syncers \ {p} : pc[q] = "act" /\ turn[q][1] = id}

Forget(p) ==
    since' = [q \in Procs |-> IF q = p THEN {} ELSE since[q] \ {p}]

\* Processes at work when p starts, which p is from now on no longer alone with.
Overlap(p) ==
    LET others == {q \in Procs \ {p} : pc[q] \in AtWork}
    IN  overlapped' = IF others = {} THEN overlapped \ {p}
                      ELSE overlapped \cup ((others \cup {p}) \cap Syncers)

-----------------------------------------------------------------------------
(* SyncFromSource *)

\* Where a synchronisation returns to.
Rest(p) == IF p = Boot THEN "start" ELSE IF p = Loop THEN "enter" ELSE "idle"

Begin(p, from) ==
    /\ pc[p] = from
    /\ pc' = [pc EXCEPT ![p] = "fetch"]
    /\ Overlap(p)
    /\ UNCHANGED <<registryVars, worldVars, connected, ans, todo, turn, stampVars, edits>>

\* mutant: an error ends the goroutine, the loop's included
FetchErrorReturns(p) ==
    /\ pc[p] = "fetch"
    /\ pc' = [pc EXCEPT ![p] = IF p = Loop THEN "ended" ELSE Rest(p)]
    /\ UNCHANGED <<registryVars, worldVars, connected, ans, todo, turn, stampVars, overlapped,
                   schedVars, edits>>

\* SyncEntities fails, for want of a connection or of an answer, or the context
\* runs out: nothing is registered.
FetchFails(p) ==
    /\ pc[p] = "fetch"
    /\ pc' = [pc EXCEPT ![p] = Rest(p)]
    /\ UNCHANGED <<registryVars, worldVars, connected, ans, todo, turn, stampVars, overlapped,
                   schedVars, edits>>

\* Home Assistant answers with what it has now.
Answer(p) ==
    /\ pc[p] = "fetch" /\ connected
    /\ ans' = [ans EXCEPT ![p] = world]
    /\ pc' = [pc EXCEPT ![p] = "stamp"]
    /\ UNCHANGED <<registryVars, worldVars, connected, todo, turn, stampVars, overlapped,
                   schedVars, edits>>

\* The answer has arrived and is converted: LastUpdated is the clock's time.
Convert(p) ==
    /\ p \in Syncers /\ pc[p] = "stamp"
    /\ TakeStamp(p)
    /\ todo' = [todo EXCEPT ![p] = {id \in Ids : ans[p][id] # Gone}]
    /\ pc' = [pc EXCEPT ![p] = "next"]
    /\ UNCHANGED <<registryVars, worldVars, connected, ans, turn, overlapped, schedVars, edits>>

\* mutant: a registered copy is updated whatever its stamp
updateAlways(p, id) == TRUE

\* shouldUpdateEntity: the answer's stamp is after the registered copy's.
shouldUpdateEntity(p, id) == id \notin ahead[p]

\* mutant: every entity is handed to RegisterEntity
LookupRegisters(p, id) ==
    /\ pc[p] = "next" /\ id \in todo[p]
    /\ todo' = [todo EXCEPT ![p] = @ \ {id}]
    /\ turn' = [turn EXCEPT ![p] = <<id, "register">>]
    /\ pc' = [pc EXCEPT ![p] = "act"]
    /\ UNCHANGED <<registryVars, worldVars, connected, ans, stampVars, overlapped, schedVars,
                   edits>>

\* GetEntity, and the decision taken on what it returned.
Lookup(p, id) ==
    /\ pc[p] = "next" /\ id \in todo[p]
    /\ todo' = [todo EXCEPT ![p] = @ \ {id}]
    /\ IF Registered(id) /\ ~shouldUpdateEntity(p, id)
       THEN UNCHANGED <<turn, pc>>
       ELSE /\ turn' = [turn EXCEPT ![p] = <<id, IF Registered(id) THEN "update" ELSE "register">>]
            /\ pc' = [pc EXCEPT ![p] = "act"]
    /\ UNCHANGED <<registryVars, worldVars, connected, ans, stampVars, overlapped, schedVars,
                   edits>>

\* What a converted entity of the answer is.
Converted(p, id) ==
    [type |-> CHOOSE t \in Types : TRUE, source |-> HA, room |-> NoRoom, state |-> ans[p][id]]

\* Whether a write by p goes through, with e the entity written.
Store(p, id, e) ==
    IF turn[p][2] = "update"
    THEN UpdateEntity(id, e) /\ Written(p, id)
    ELSE /\ RegisterEntity(id, e)
         /\ IF Registered(id) /\ entities[id].source # e.source
            THEN raced' = raced \ {p} /\ UNCHANGED ahead
            ELSE Written(p, id)

\* mutant: the decision is carried over to the next entity
ActKeepsTurn(p) ==
    /\ p \in Syncers /\ pc[p] = "act"
    /\ Store(p, turn[p][1], Converted(p, turn[p][1]))
    /\ pc' = [pc EXCEPT ![p] = "next"]
    /\ UNCHANGED <<worldVars, connected, ans, todo, turn, since, overlapped, schedVars, edits>>

\* RegisterEntity or UpdateEntity as decided; an error is noted and the next
\* entity taken.
Act(p) ==
    /\ p \in Syncers /\ pc[p] = "act"
    /\ Store(p, turn[p][1], Converted(p, turn[p][1]))
    /\ turn' = [turn EXCEPT ![p] = NoTurn]
    /\ pc' = [pc EXCEPT ![p] = "next"]
    /\ UNCHANGED <<worldVars, connected, ans, todo, since, overlapped, schedVars, edits>>

Finish(p) ==
    /\ p \in Syncers /\ pc[p] = "next" /\ todo[p] = {}
    /\ pc' = [pc EXCEPT ![p] = Rest(p)]
    /\ ans' = [ans EXCEPT ![p] = NoAnswer]
    /\ ahead' = [ahead EXCEPT ![p] = {}]
    /\ Forget(p)
    /\ UNCHANGED <<raced, registryVars, worldVars, connected, todo, turn, overlapped, schedVars, edits>>

-----------------------------------------------------------------------------
(* Start-up, the scheduler, and its end *)

quiet == <<registryVars, worldVars, ans, todo, turn, stampVars, edits>>

\* The adapter connects and the first synchronisation starts; if it does not
\* connect the goroutine ends, and nobody tries again.
Connect ==
    /\ connected' = TRUE
    /\ pc[Boot] = "connect"
    /\ pc' = [pc EXCEPT ![Boot] = "fetch"]
    /\ Overlap(Boot)
    /\ UNCHANGED <<quiet, schedVars>>

ConnectFails ==
    /\ pc[Boot] = "connect"
    /\ pc' = [pc EXCEPT ![Boot] = "over"]
    /\ UNCHANGED <<quiet, connected, overlapped, schedVars>>

\* StartPeriodicSync, whatever became of the first synchronisation.
StartPeriodicSync ==
    /\ pc[Boot] = "start"
    /\ pc' = [pc EXCEPT ![Boot] = "over", ![Loop] = "enter"]
    /\ ticker' = TRUE /\ running' = TRUE
    /\ UNCHANGED <<quiet, connected, overlapped, token, crashed>>

\* The loop comes to its select, which evaluates s.syncTicker.C: a nil ticker
\* is dereferenced.
Enter ==
    /\ pc[Loop] = "enter"
    /\ pc' = [pc EXCEPT ![Loop] = IF ticker THEN "select" ELSE "ended"]
    /\ crashed' = ~ticker
    /\ UNCHANGED <<quiet, connected, overlapped, running, ticker, token>>

Tick ==
    /\ ticker
    /\ Begin(Loop, "select")
    /\ UNCHANGED schedVars

\* The loop takes the value StopPeriodicSync sent.
Stopped ==
    /\ pc[Loop] = "select" /\ token
    /\ pc' = [pc EXCEPT ![Loop] = "ended"]
    /\ token' = FALSE
    /\ UNCHANGED <<quiet, connected, overlapped, running, ticker, crashed>>

\* mutant: the stop is sent only to a loop that is waiting for it
StopNotSent ==
    /\ running
    /\ token' = (pc[Loop] = "select") /\ running' = FALSE
    /\ UNCHANGED <<quiet, connected, overlapped, pc, ticker, crashed>>

\* StopPeriodicSync, from main at shutdown. The channel has room for the one
\* value it is ever sent.
StopPeriodicSync ==
    /\ running
    /\ ticker' = FALSE /\ token' = TRUE /\ running' = FALSE
    /\ UNCHANGED <<quiet, connected, overlapped, pc, crashed>>

\* POST /entities/sync, and the full synchronisation of the test endpoints.
RequestSync(r) ==
    /\ Begin(r, "idle")
    /\ UNCHANGED schedVars

-----------------------------------------------------------------------------
(* CreateOrUpdateEntity, the API handler *)

\* The handler looks the ID up; turn keeps what it found.
EditLookup(e, id) ==
    /\ pc[e] = "idle" /\ edits < MaxEdits
    /\ edits' = edits + 1
    /\ turn' = [turn EXCEPT ![e] = <<id, IF Registered(id) THEN "update" ELSE "register">>]
    /\ pc' = [pc EXCEPT ![e] = "stamp"]
    /\ overlapped' = overlapped \cup {p \in Syncers : pc[p] \in AtWork}
    /\ UNCHANGED <<registryVars, worldVars, connected, ans, todo, stampVars, schedVars>>

EditStamp(e) ==
    /\ e \in Editors /\ pc[e] = "stamp"
    /\ TakeStamp(e)
    /\ pc' = [pc EXCEPT ![e] = "write"]
    /\ UNCHANGED <<registryVars, worldVars, connected, ans, todo, turn, overlapped, schedVars,
                   edits>>

\* Without metadata in the request the entity's source is PMA.
EditWrite(e, state) ==
    /\ pc[e] = "write"
    /\ Store(e, turn[e][1], [type |-> CHOOSE t \in Types : TRUE, source |-> PMA,
                             room |-> NoRoom, state |-> state])
    /\ turn' = [turn EXCEPT ![e] = NoTurn]
    /\ pc' = [pc EXCEPT ![e] = "idle"]
    /\ Forget(e)
    /\ UNCHANGED <<worldVars, connected, ans, todo, overlapped, schedVars, edits>>

\* Home Assistant's own changes, and those ExecuteAction has it make: the
\* refresh after an action drops what Home Assistant answers.
Change(id, state) ==
    /\ changes < MaxChanges /\ state # world[id]
    /\ changes' = changes + 1
    /\ world' = [world EXCEPT ![id] = state]
    /\ UNCHANGED <<registryVars, connected, pc, ans, todo, turn, stampVars, overlapped,
                   schedVars, edits>>

-----------------------------------------------------------------------------
SyncStep(p) ==
    \/ Answer(p)
    \/ Convert(p)
    \/ \E id \in Ids : Lookup(p, id)
    \/ Act(p)
    \/ Finish(p)

EditStep(e) == EditStamp(e) \/ \E state \in States : EditWrite(e, state)

SyncNext ==
    /\ ~crashed
    /\ \/ Connect \/ ConnectFails \/ StartPeriodicSync \/ Enter \/ Tick \/ Stopped
       \/ StopPeriodicSync
       \/ \E p \in Syncers : SyncStep(p) \/ FetchFails(p)
       \/ \E r \in Requests : RequestSync(r)
       \/ \E e \in Editors : EditStep(e) \/ \E id \in Ids : EditLookup(e, id)
       \/ \E id \in Ids, state \in States \cup {Gone} : Change(id, state)

\* Goroutines are scheduled, the ticker ticks, requests that were taken up are
\* served, and Home Assistant does not refuse every answer for ever. Nothing
\* makes it change, anybody ask, or main stop.
SyncFairness ==
    /\ WF_syncVars(~crashed /\ (Connect \/ ConnectFails))
    /\ WF_syncVars(~crashed /\ StartPeriodicSync)
    /\ WF_syncVars(~crashed /\ (Enter \/ Tick))
    /\ SF_syncVars(~crashed /\ Stopped)
    /\ \A p \in Syncers : /\ WF_syncVars(~crashed /\ (SyncStep(p) \/ FetchFails(p)))
                          /\ SF_syncVars(~crashed /\ Answer(p))
    /\ \A e \in Editors : WF_syncVars(~crashed /\ EditStep(e))

SyncSpec == SyncInit /\ [][SyncNext]_syncVars

LiveSyncSpec == SyncSpec /\ SyncFairness

-----------------------------------------------------------------------------
(* Properties *)

\* A synchronisation that overlaps with no other and with no API write leaves
\* the registry equal to the answer it was given, whatever was registered
\* before and from whatever source: no entity of the answer is skipped for its
\* stamp, refused for its source, or left behind by an earlier failure.
AloneMirrors ==
    [][\A p \in Syncers : Finish(p) /\ p \notin overlapped =>
          \A id \in Ids : ans[p][id] # Gone =>
             /\ Registered(id)
             /\ entities[id].source = HA
             /\ entities[id].state = ans[p][id]]_syncVars

\* An entity is never replaced by one stamped earlier, unless the newer copy was
\* written between the decision and the act: GetEntity and UpdateEntity are two
\* critical sections, and nothing is compared in the second.
StaleOnlyIfRaced ==
    \A p \in Syncers : pc[p] = "act" /\ turn[p][2] = "update" /\ turn[p][1] \in ahead[p]
        => p \in raced

Mirror ==
    \A id \in Ids : world[id] # Gone =>
        Registered(id) /\ entities[id].source = HA /\ entities[id].state = world[id]

\* Overlapping synchronisations and API writes can leave a stale copy, which a
\* later one repairs: once Home Assistant and the API are quiet, a process
\* whose scheduler is running ends up with every entity Home Assistant has, as
\* Home Assistant has it.
Converges == <>[](Mirror \/ ~running)

\* StopPeriodicSync gets rid of the loop it found running: it ends, by the
\* value it was sent or by its nil ticker.
StopEndsLoop == (pc[Loop] # "off" /\ ~running) ~> (pc[Loop] = "ended")
=============================================================================
