---------------------------- MODULE WebSocketHub ----------------------------
(* The WebSocket hub: one goroutine, Run, that owns the set of clients, two   *)
(* goroutines for each client, readPump and writePump, and the goroutines of  *)
(* requests that broadcast.  They talk over unbuffered channels to the hub    *)
(* and a buffered one, send, to each client.                                  *)
(*                                                                            *)
(* An unbuffered send and what the hub does with it are one step: only Run    *)
(* changes the hub's tables.  Topics are left out: nothing ever enters        *)
(* topicClients, so that BroadcastToTopic returns at once.  So are the        *)
(* subscriptions a client may ask for: no sender looks at them.               *)
EXTENDS Naturals, Sequences, FiniteSets

CONSTANTS Clients,  \* connections, one Client object each
          Callers,  \* request goroutines in BroadcastToAll
          BufSize,  \* capacity of send (256)
          MaxMsgs,  \* bound: messages broadcast
          MaxPings  \* bound: "ping" messages a client sends

ASSUME WebSocketHubAssumption ==
    /\ IsFiniteSet(Clients)
    /\ BufSize \in Nat \ {0} /\ MaxMsgs \in Nat /\ MaxPings \in Nat

(* The messages in a buffer: the n-th broadcast is n.                         *)
Welcome == 0
Pong == MaxMsgs + 1
Broadcasts == 1..MaxMsgs

VARIABLES hub,      \* where Run is: in its select, or stuck in sendHeartbeat
          clients,  \* h.clients
          send,     \* the buffer of each client's channel
          closed,   \* the clients whose channel is closed
          conn,     \* the clients whose connection is open
          reader, writer,  \* where the pumps are
          evictors, \* goroutines in h.unregister <- c, made by broadcastMessage
          calling,  \* the callers in h.broadcast <-
          pings,    \* pings each client has sent
          crashed,  \* a send on or a close of a closed channel: the process ends
          served,   \* history: messages broadcast so far
          from,     \* history: served when the client was registered
          got       \* history: the broadcasts written to the connection
hubVars == <<hub, clients, closed, evictors, served, from>>
pumpVars == <<conn, reader, writer, pings, got>>
vars == <<hubVars, pumpVars, send, calling, crashed>>

Init ==
    /\ hub = "select" /\ clients = {} /\ closed = {} /\ conn = {}
    /\ send = [c \in Clients |-> << >>]
    /\ reader = [c \in Clients |-> "new"]
    /\ writer = [c \in Clients |-> "new"]
    /\ evictors = [c \in Clients |-> 0]
    /\ calling = {} /\ pings = [c \in Clients |-> 0] /\ crashed = FALSE
    /\ served = 0 /\ from = [c \in Clients |-> 0]
    /\ got = [c \in Clients |-> {}]

Full(c) == Len(send[c]) >= BufSize
Buffered(c) == {send[c][i] : i \in DOMAIN send[c]} \cap Broadcasts

-----------------------------------------------------------------------------
(* HandleWebSocket waits for the hub and then starts the pumps.  A connection *)
(* may end at any time: the peer leaves, or does not answer pings.            *)
Connect(c) ==
    /\ ~crashed /\ reader[c] = "new"
    /\ reader' = [reader EXCEPT ![c] = "register"]
    /\ conn' = conn \cup {c}
    /\ UNCHANGED <<hubVars, writer, pings, got, send, calling, crashed>>

PeerGone(c) ==
    /\ ~crashed /\ c \in conn
    /\ conn' = conn \ {c}
    /\ UNCHANGED <<hubVars, reader, writer, pings, got, send, calling, crashed>>

Register(c) ==
    /\ ~crashed /\ hub = "select" /\ reader[c] = "register"
    /\ clients' = clients \cup {c}
    /\ send' = [send EXCEPT ![c] = <<Welcome>>]
    /\ from' = [from EXCEPT ![c] = served]
    /\ reader' = [reader EXCEPT ![c] = "read"]
    /\ writer' = [writer EXCEPT ![c] = "wait"]
    /\ UNCHANGED <<hub, closed, evictors, served, conn, pings, got, calling, crashed>>

(* unregisterClient: both pumps' end and an eviction lead here, in any order. *)
UnregisterAlways(c) ==   \* mutant: without looking whether it is registered
    /\ clients' = clients \ {c} /\ closed' = closed \cup {c}
    /\ crashed' = (c \in closed \/ (reader[c] = "pong" /\ Full(c)))
Unregister(c) ==
    IF c \in clients
    THEN /\ clients' = clients \ {c} /\ closed' = closed \cup {c}
         /\ crashed' = (c \in closed \/ (reader[c] = "pong" /\ Full(c)))
    ELSE UNCHANGED <<clients, closed, crashed>>

-----------------------------------------------------------------------------
(* Broadcasts.                                                                *)
Call(b) ==
    /\ ~crashed /\ b \notin calling /\ served + Cardinality(calling) < MaxMsgs
    /\ calling' = calling \cup {b}
    /\ UNCHANGED <<hubVars, pumpVars, send, crashed>>

(* A client whose buffer is full misses the message, and a goroutine is       *)
(* started to have it removed.                                                *)
BroadcastDropping ==   \* mutant: a full buffer is skipped
    /\ send' = [c \in Clients |-> IF c \in clients /\ ~Full(c)
                                  THEN Append(send[c], served') ELSE send[c]]
    /\ UNCHANGED evictors
BroadcastMessage ==
    /\ send' = [c \in Clients |-> IF c \in clients /\ ~Full(c)
                                  THEN Append(send[c], served') ELSE send[c]]
    /\ evictors' = [c \in Clients |-> IF c \in clients /\ Full(c)
                                      THEN evictors[c] + 1 ELSE evictors[c]]

Broadcast(b) ==
    /\ ~crashed /\ hub = "select" /\ b \in calling
    /\ calling' = calling \ {b}
    /\ served' = served + 1
    /\ BroadcastMessage
    /\ crashed' = (clients \cap closed # {})
    /\ UNCHANGED <<hub, clients, closed, from, pumpVars>>

Evict(c) ==
    /\ ~crashed /\ hub = "select" /\ evictors[c] > 0
    /\ Unregister(c)
    /\ evictors' = [evictors EXCEPT ![c] = @ - 1]
    /\ UNCHANGED <<hub, served, from, pumpVars, send, calling>>

(* sendHeartbeat sends to h.broadcast, which only Run receives from.          *)
SendHeartbeat ==
    /\ ~crashed /\ hub = "select"
    /\ hub' = "stuck"
    /\ UNCHANGED <<clients, closed, evictors, served, from, pumpVars, send, calling, crashed>>

-----------------------------------------------------------------------------
(* The pumps of a client.                                                     *)
ReadPing(c) ==
    /\ ~crashed /\ reader[c] = "read" /\ c \in conn /\ pings[c] < MaxPings
    /\ pings' = [pings EXCEPT ![c] = @ + 1]
    /\ reader' = [reader EXCEPT ![c] = "pong"]
    /\ UNCHANGED <<hubVars, conn, writer, got, send, calling, crashed>>

(* c.send <- pong: waits while the buffer is full, panics when it is closed.  *)
SendPong(c) ==
    /\ ~crashed /\ reader[c] = "pong"
    /\ \/ /\ c \in closed
          /\ crashed' = TRUE
          /\ UNCHANGED <<reader, send>>
       \/ /\ c \notin closed /\ ~Full(c)
          /\ send' = [send EXCEPT ![c] = Append(@, Pong)]
          /\ reader' = [reader EXCEPT ![c] = "read"]
          /\ UNCHANGED crashed
    /\ UNCHANGED <<hubVars, conn, writer, pings, got, calling>>

ReadFails(c) ==
    /\ ~crashed /\ reader[c] = "read" /\ c \notin conn
    /\ reader' = [reader EXCEPT ![c] = "leave"]
    /\ UNCHANGED <<hubVars, conn, writer, pings, got, send, calling, crashed>>

Leave(c) ==
    /\ ~crashed /\ hub = "select" /\ reader[c] = "leave"
    /\ Unregister(c)
    /\ reader' = [reader EXCEPT ![c] = "done"]
    /\ UNCHANGED <<hub, evictors, served, from, conn, writer, pings, got, send, calling>>

(* One message, and those that wait behind it, in one frame; or an error,     *)
(* before or after the others are taken.                                      *)
Write(c) ==
    /\ ~crashed /\ writer[c] = "wait" /\ send[c] # << >>
    /\ IF c \in conn
       THEN /\ got' = [got EXCEPT ![c] = @ \cup Buffered(c)]
            /\ send' = [send EXCEPT ![c] = << >>]
            /\ UNCHANGED writer
       ELSE /\ \/ send' = [send EXCEPT ![c] = Tail(@)]
               \/ send' = [send EXCEPT ![c] = << >>]
            /\ writer' = [writer EXCEPT ![c] = "done"]
            /\ UNCHANGED got
    /\ UNCHANGED <<hubVars, conn, reader, pings, calling, crashed>>

WriterEndsOpen(c) ==   \* mutant: the connection is not closed
    /\ ~crashed /\ writer[c] = "wait"
    /\ c \notin conn \/ (c \in closed /\ send[c] = << >>)
    /\ writer' = [writer EXCEPT ![c] = "done"]
    /\ UNCHANGED <<hubVars, conn, reader, pings, got, send, calling, crashed>>
(* The channel is closed and empty, or a ping cannot be written.              *)
WriterEnds(c) ==
    /\ ~crashed /\ writer[c] = "wait"
    /\ c \notin conn \/ (c \in closed /\ send[c] = << >>)
    /\ writer' = [writer EXCEPT ![c] = "done"]
    /\ conn' = conn \ {c}
    /\ UNCHANGED <<hubVars, reader, pings, got, send, calling, crashed>>

-----------------------------------------------------------------------------
Run ==
    \/ \E c \in Clients : Register(c) \/ Evict(c) \/ Leave(c)
    \/ \E b \in Callers : Broadcast(b)
Reader(c) == SendPong(c) \/ ReadFails(c)
Writer(c) == Write(c) \/ WriterEnds(c)

Next ==
    \/ Run \/ SendHeartbeat
    \/ \E b \in Callers : Call(b)
    \/ \E c \in Clients : Connect(c) \/ PeerGone(c) \/ ReadPing(c) \/ Reader(c) \/ Writer(c)

Spec == Init /\ [][Next]_vars

(* Run serves whoever waits, the pumps run on.  What is sent in all is        *)
(* bounded, so that nobody is passed over for ever.                           *)
FairSpec ==
    /\ Spec /\ WF_vars(Run)
    /\ \A c \in Clients : WF_vars(Reader(c)) /\ WF_vars(Writer(c))

-----------------------------------------------------------------------------
(* The variables have these types.                                            *)
TypeOK ==
    /\ hub \in {"select", "stuck"} /\ crashed \in BOOLEAN
    /\ clients \subseteq Clients /\ closed \subseteq Clients /\ conn \subseteq Clients
    /\ calling \subseteq Callers
    /\ send \in [Clients -> Seq(0..Pong)]
    /\ \A c \in Clients : Len(send[c]) <= BufSize
    /\ reader \in [Clients -> {"new", "register", "read", "pong", "leave", "done"}]
    /\ writer \in [Clients -> {"new", "wait", "done"}]
    /\ evictors \in [Clients -> Nat] /\ pings \in [Clients -> 0..MaxPings]
    /\ served \in 0..MaxMsgs /\ from \in [Clients -> 0..MaxMsgs]
    /\ got \in [Clients -> SUBSET Broadcasts]

(* The hub closes a channel once and never sends on a closed one, although    *)
(* readPump and any number of evictions ask for the same client's removal:    *)
(* the process can only be brought down by the answer to a "ping".            *)
CrashOnlyByPong == crashed => \E c \in closed : reader[c] = "pong"

(* A registered client is sent what it had not been sent before, in order,    *)
(* and as long as it is written to it has got, or has in its buffer, every    *)
(* message since it was registered; the only exception is one that missed a   *)
(* message and whose eviction is under way.                                   *)
InOrder(c) ==
    \A j \in DOMAIN send[c] :
        send[c][j] \in Broadcasts =>
            /\ \A n \in got[c] : n < send[c][j]
            /\ \A i \in 1..(j - 1) : send[c][i] \in Broadcasts => send[c][i] < send[c][j]
NoSilentGap ==
    \A c \in clients :
        /\ InOrder(c)
        /\ writer[c] = "wait" /\ evictors[c] = 0 =>
              got[c] \cup Buffered(c) = (from[c] + 1)..served

(* A client that is evicted or has lost its connection is forgotten and its   *)
(* goroutines end, while the hub serves; except a reader that has a pong to   *)
(* send and nobody to empty the buffer.                                       *)
Gone(c) == c \notin clients /\ reader[c] = "done" /\ writer[c] = "done"
PongStuck(c) == reader[c] = "pong" /\ writer[c] = "done" /\ Full(c)
GoneReaped ==
    \A c \in Clients :
        c \in closed \/ (reader[c] # "new" /\ c \notin conn) ~>
            Gone(c) \/ PongStuck(c) \/ hub = "stuck" \/ crashed
=============================================================================
