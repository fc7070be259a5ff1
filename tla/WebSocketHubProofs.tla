------------------------- MODULE WebSocketHubProofs -------------------------
(* Theorems about WebSocketHub for any number of connections and callers and  *)
(* any buffer size.                                                           *)
EXTENDS WebSocketHub, FiniteSetTheorems, TLAPS

USE WebSocketHubAssumption

(* The bound on messages is kept by the callers that have not been served.    *)
Budget == IsFiniteSet(calling) /\ served + Cardinality(calling) <= MaxMsgs

(* A channel is open as long as its client is registered; a client that has   *)
(* not been has nothing of its own yet.                                       *)
Channels ==
    /\ clients \cap closed = {}
    /\ \A c \in Clients : reader[c] \in {"new", "register"} =>
          c \notin clients /\ c \notin closed /\ got[c] = {} /\ writer[c] # "wait"

(* Nothing is sent before it is broadcast.                                    *)
Past ==
    \A c \in Clients :
        /\ from[c] <= served
        /\ \A n \in got[c] : n <= served
        /\ \A i \in DOMAIN send[c] : send[c][i] \in Broadcasts => send[c][i] <= served

Inv == TypeOK /\ Budget /\ Channels /\ Past /\ CrashOnlyByPong /\ NoSilentGap

-----------------------------------------------------------------------------
(* Buffers.                                                                   *)

LEMMA Messages ==
  /\ Pong \in Nat /\ Pong \notin Broadcasts
  /\ Welcome \in 0..Pong /\ Welcome \notin Broadcasts
  /\ Broadcasts \subseteq 0..Pong
  BY DEF Pong, Broadcasts, Welcome

LEMMA BufferFacts ==
  ASSUME TypeOK, NEW c \in Clients
  PROVE  /\ send[c] \in Seq(0..Pong) /\ Len(send[c]) \in Nat
         /\ DOMAIN send[c] = 1..Len(send[c])
         /\ \A i \in DOMAIN send[c] : send[c][i] \in 0..Pong
<1>1. send[c] \in Seq(0..Pong)
  BY DEF TypeOK
<1> DEFINE s == send[c]
           M == 0..Pong
<1>2. s \in Seq(M)
  BY <1>1
<1> HIDE DEF s, M
<1>3. Len(s) \in Nat /\ DOMAIN s = 1..Len(s) /\ \A i \in DOMAIN s : s[i] \in M
  BY <1>2
<1> QED
  BY <1>2, <1>3 DEF s, M

(* What a buffer holds after a message is appended.                           *)
LEMMA AppendFacts ==
  ASSUME NEW M, NEW t \in Seq(M), NEW m \in M
  PROVE  LET s == Append(t, m)
         IN  /\ s \in Seq(M) /\ Len(s) = Len(t) + 1
             /\ DOMAIN s = 1..(Len(t) + 1)
             /\ \A i \in DOMAIN t : i \in DOMAIN s /\ s[i] = t[i]
             /\ s[Len(t) + 1] = m
  OBVIOUS

LEMMA TailFacts ==
  ASSUME NEW M, NEW t \in Seq(M), t # << >>
  PROVE  LET s == Tail(t)
         IN  /\ s \in Seq(M) /\ Len(s) <= Len(t)
             /\ DOMAIN s = 1..(Len(t) - 1)
             /\ \A i \in DOMAIN s : i + 1 \in DOMAIN t /\ s[i] = t[i + 1]
  OBVIOUS

-----------------------------------------------------------------------------
LEMMA InvInit == Init => Inv
<1> SUFFICES ASSUME Init PROVE Inv
  OBVIOUS
<1>1. IsFiniteSet({}) /\ Cardinality({}) = 0
  BY FS_EmptySet
<1>2. Budget
  BY <1>1 DEF Init, Budget
<1>3. TypeOK
  <2>1. << >> \in Seq(0..Pong) /\ Len(<< >>) = 0
    OBVIOUS
  <2>2. /\ send \in [Clients -> Seq(0..Pong)]
        /\ \A c \in Clients : Len(send[c]) <= BufSize
    BY <2>1 DEF Init
  <2>3. hub \in {"select", "stuck"} /\ crashed \in BOOLEAN
    BY DEF Init
  <2>4. /\ clients \subseteq Clients /\ closed \subseteq Clients /\ conn \subseteq Clients
        /\ calling \subseteq Callers
        /\ reader \in [Clients -> {"new", "register", "read", "pong", "leave", "done"}]
        /\ writer \in [Clients -> {"new", "wait", "done"}]
        /\ got \in [Clients -> SUBSET Broadcasts]
        /\ evictors \in [Clients -> Nat]
    BY DEF Init
  <2>5. pings \in [Clients -> 0..MaxPings]
    BY DEF Init
  <2>6. served \in 0..MaxMsgs /\ from \in [Clients -> 0..MaxMsgs]
    BY DEF Init
  <2> QED
    BY <2>2, <2>3, <2>4, <2>5, <2>6 DEF TypeOK
<1>4. Channels /\ Past /\ CrashOnlyByPong /\ NoSilentGap
  BY DEF Init, Channels, Past, CrashOnlyByPong, NoSilentGap
<1> QED
  BY <1>2, <1>3, <1>4 DEF Inv

-----------------------------------------------------------------------------
(* The steps that touch neither a buffer nor the hub's tables.                *)
LEMMA InvQuiet ==
  ASSUME Inv, TypeOK', ~crashed, UNCHANGED <<hubVars, send, got, crashed>>, Budget',
         \A c \in Clients : writer'[c] = "wait" => writer[c] = "wait",
         \A c \in Clients : reader'[c] \in {"new", "register"} =>
             reader[c] \in {"new", "register"}
  PROVE  Inv'
<1>1. Channels'
  BY DEF Inv, Channels, hubVars
<1>2. Past'
  BY DEF Inv, Past, hubVars
<1>3. CrashOnlyByPong'
  BY DEF CrashOnlyByPong
<1>4. NoSilentGap'
  <2> SUFFICES ASSUME NEW c \in clients'
               PROVE  InOrder(c)' /\ (writer'[c] = "wait" /\ evictors'[c] = 0 =>
                          got'[c] \cup Buffered(c)' = (from'[c] + 1)..served')
    BY DEF NoSilentGap
  <2>1. c \in clients /\ c \in Clients
    BY DEF hubVars, Inv, TypeOK
  <2>2. InOrder(c)' = InOrder(c) /\ Buffered(c)' = Buffered(c)
    BY DEF InOrder, Buffered
  <2> QED
    BY <2>1, <2>2 DEF Inv, NoSilentGap, hubVars
<1> QED
  BY <1>1, <1>2, <1>3, <1>4 DEF Inv

LEMMA InvConnect == ASSUME Inv, NEW c \in Clients, Connect(c) PROVE Inv'
<1>1. TypeOK'
  <2>1. /\ reader' \in [Clients -> {"new", "register", "read", "pong", "leave", "done"}]
        /\ conn' \subseteq Clients
    BY DEF Inv, TypeOK, Connect
  <2> QED
    BY <2>1 DEF Inv, TypeOK, Connect, hubVars
<1>2. \A d \in Clients : reader'[d] \in {"new", "register"} => reader[d] \in {"new", "register"}
  BY DEF Inv, TypeOK, Connect
<1> QED
  BY <1>1, <1>2, InvQuiet DEF Connect, Inv, Budget, hubVars

LEMMA InvPeerGone == ASSUME Inv, NEW c \in Clients, PeerGone(c) PROVE Inv'
<1>1. TypeOK'
  BY DEF Inv, TypeOK, PeerGone, hubVars
<1> QED
  BY <1>1, InvQuiet DEF PeerGone, Inv, Budget, hubVars

LEMMA InvReadPing == ASSUME Inv, NEW c \in Clients, ReadPing(c) PROVE Inv'
<1>1. TypeOK'
  <2>1. reader' \in [Clients -> {"new", "register", "read", "pong", "leave", "done"}]
    BY DEF Inv, TypeOK, ReadPing
  <2>2. pings' \in [Clients -> 0..MaxPings]
    BY DEF Inv, TypeOK, ReadPing
  <2> QED
    BY <2>1, <2>2 DEF Inv, TypeOK, ReadPing, hubVars
<1>2. \A d \in Clients : reader'[d] \in {"new", "register"} => reader[d] \in {"new", "register"}
  BY DEF Inv, TypeOK, ReadPing
<1> QED
  BY <1>1, <1>2, InvQuiet DEF ReadPing, Inv, Budget, hubVars

LEMMA InvReadFails == ASSUME Inv, NEW c \in Clients, ReadFails(c) PROVE Inv'
<1>1. TypeOK'
  <2>1. reader' \in [Clients -> {"new", "register", "read", "pong", "leave", "done"}]
    BY DEF Inv, TypeOK, ReadFails
  <2> QED
    BY <2>1 DEF Inv, TypeOK, ReadFails, hubVars
<1>2. \A d \in Clients : reader'[d] \in {"new", "register"} => reader[d] \in {"new", "register"}
  BY DEF Inv, TypeOK, ReadFails
<1> QED
  BY <1>1, <1>2, InvQuiet DEF ReadFails, Inv, Budget, hubVars

LEMMA InvWriterEnds == ASSUME Inv, NEW c \in Clients, WriterEnds(c) PROVE Inv'
<1>1. TypeOK'
  <2>1. writer' \in [Clients -> {"new", "wait", "done"}] /\ conn' \subseteq Clients
    BY DEF Inv, TypeOK, WriterEnds
  <2> QED
    BY <2>1 DEF Inv, TypeOK, WriterEnds, hubVars
<1>2. \A d \in Clients : writer'[d] = "wait" => writer[d] = "wait"
  BY DEF Inv, TypeOK, WriterEnds
<1> QED
  BY <1>1, <1>2, InvQuiet DEF WriterEnds, Inv, Budget, hubVars

LEMMA InvCall == ASSUME Inv, NEW b \in Callers, Call(b) PROVE Inv'
<1>1. TypeOK'
  BY DEF Inv, TypeOK, Call, hubVars, pumpVars
<1>2. Budget'
  <2>1. /\ IsFiniteSet(calling \cup {b})
        /\ Cardinality(calling \cup {b}) = Cardinality(calling) + 1
    BY FS_AddElement DEF Inv, Budget, Call
  <2>2. Cardinality(calling) \in Nat /\ served \in Nat
    BY FS_CardinalityType DEF Inv, Budget, TypeOK
  <2> QED
    BY <2>1, <2>2 DEF Inv, Budget, Call, hubVars
<1> QED
  BY <1>1, <1>2, InvQuiet DEF Call, hubVars, pumpVars

LEMMA InvHeartbeat == ASSUME Inv, SendHeartbeat PROVE Inv'
<1>1. TypeOK'
  BY DEF Inv, TypeOK, SendHeartbeat, pumpVars
<1>2. Budget' /\ Channels' /\ Past' /\ CrashOnlyByPong'
  BY DEF Inv, Budget, Channels, Past, CrashOnlyByPong, SendHeartbeat, pumpVars
<1>3. NoSilentGap'
  <2>1. \A c : InOrder(c)' = InOrder(c) /\ Buffered(c)' = Buffered(c)
    BY DEF InOrder, Buffered, SendHeartbeat, pumpVars
  <2> QED
    BY <2>1 DEF Inv, NoSilentGap, SendHeartbeat, pumpVars
<1> QED
  BY <1>1, <1>2, <1>3 DEF Inv

-----------------------------------------------------------------------------
(* The steps of the hub's tables and of one client's buffer.                  *)
LEMMA SameBuffer ==
  ASSUME NEW d, send'[d] = send[d], got'[d] = got[d]
  PROVE  InOrder(d)' = InOrder(d) /\ Buffered(d)' = Buffered(d)
  BY DEF InOrder, Buffered

(* What NoSilentGap says of one client.                                       *)
GapOf(c) ==
    /\ InOrder(c)
    /\ writer[c] = "wait" /\ evictors[c] = 0 =>
          got[c] \cup Buffered(c) = (from[c] + 1)..served

LEMMA SameGap ==
  ASSUME NEW d, send'[d] = send[d], got'[d] = got[d], from'[d] = from[d],
         served' = served, writer'[d] = writer[d], evictors'[d] = evictors[d], GapOf(d)
  PROVE  GapOf(d)'
  BY SameBuffer DEF GapOf

LEMMA GapIsNoSilentGap == NoSilentGap <=> \A c \in clients : GapOf(c)
  BY DEF NoSilentGap, GapOf

LEMMA InvRegister == ASSUME Inv, NEW c \in Clients, Register(c) PROVE Inv'
<1> USE DEF Register
<1>1. /\ send[c] \in Seq(0..Pong) /\ <<Welcome>> \in Seq(0..Pong) /\ Len(<<Welcome>>) = 1
      /\ DOMAIN <<Welcome>> = {1} /\ <<Welcome>>[1] = Welcome
  BY BufferFacts, Messages DEF Inv
<1>2. c \notin clients /\ c \notin closed /\ got[c] = {}
  BY DEF Inv, Channels
<1>3. send'[c] = <<Welcome>> /\ \A d \in Clients \ {c} : send'[d] = send[d]
  BY DEF Inv, TypeOK
<1>4. from'[c] = served /\ \A d \in Clients \ {c} : from'[d] = from[d]
  BY DEF Inv, TypeOK
<1>5. reader'[c] = "read" /\ \A d \in Clients \ {c} : reader'[d] = reader[d]
  BY DEF Inv, TypeOK
<1>6. writer'[c] = "wait" /\ \A d \in Clients \ {c} : writer'[d] = writer[d]
  BY DEF Inv, TypeOK
<1>7. TypeOK'
  <2>1. send' \in [Clients -> Seq(0..Pong)]
    BY <1>1 DEF Inv, TypeOK
  <2>2. \A d \in Clients : Len(send'[d]) <= BufSize
    BY <1>1, <1>3 DEF Inv, TypeOK
  <2>3. /\ reader' \in [Clients -> {"new", "register", "read", "pong", "leave", "done"}]
        /\ writer' \in [Clients -> {"new", "wait", "done"}] /\ clients' \subseteq Clients
    BY DEF Inv, TypeOK
  <2>4. from' \in [Clients -> 0..MaxMsgs]
    BY DEF Inv, TypeOK
  <2> QED
    BY <2>1, <2>2, <2>3, <2>4 DEF Inv, TypeOK
<1>8. Budget'
  BY DEF Inv, Budget
<1>9. Channels'
  BY <1>2, <1>5, <1>6 DEF Inv, Channels
<1>10. Past'
  <2>1. from'[c] <= served' /\ (\A n \in got'[c] : n <= served')
    BY <1>2, <1>4 DEF Inv, TypeOK
  <2>2. \A i \in DOMAIN send'[c] : send'[c][i] \notin Broadcasts
    BY <1>1, <1>3, Messages
  <2> QED
    BY <2>1, <2>2, <1>3, <1>4 DEF Inv, Past
<1>11. CrashOnlyByPong'
  BY DEF CrashOnlyByPong
<1>12. GapOf(c)'
  <2>1. \A i \in DOMAIN send'[c] : send'[c][i] \notin Broadcasts
    BY <1>1, <1>3, Messages
  <2>2. InOrder(c)' /\ Buffered(c)' = {}
    BY <2>1 DEF InOrder, Buffered
  <2>3. (from'[c] + 1)..served' = {}
    BY <1>4 DEF Inv, TypeOK
  <2> QED
    BY <2>2, <2>3, <1>2 DEF GapOf
<1>13. \A d \in clients : GapOf(d)'
  <2> TAKE d \in clients
  <2>1. d # c /\ d \in Clients /\ GapOf(d)
    BY <1>2, GapIsNoSilentGap DEF Inv, TypeOK
  <2> QED
    BY <2>1, <1>3, <1>4, <1>6, SameGap
<1>14. NoSilentGap'
  <2>1. \A d \in clients' : GapOf(d)'
    BY <1>12, <1>13
  <2> QED
    BY <2>1 DEF NoSilentGap, GapOf
<1> QED
  BY <1>7, <1>8, <1>9, <1>10, <1>11, <1>14 DEF Inv

(* Unregister takes its client out, and that takes nothing from the others;   *)
(* the clients stay disjoint from the closed channels.                        *)
LEMMA InvUnregister ==
  ASSUME Inv, NEW c \in Clients, Unregister(c), ~crashed,
         UNCHANGED <<hub, served, from, conn, writer, pings, got, send, calling>>,
         TypeOK',
         \A d \in Clients \ {c} : evictors'[d] = evictors[d],
         \A d \in Clients \ {c} : reader'[d] = reader[d],
         reader'[c] \in {"new", "register"} => reader[c] = reader'[c],
         reader[c] = "pong" => reader'[c] = "pong"
  PROVE  Inv'
<1>1. clients' = clients \ {c} /\ closed \subseteq closed' /\ closed' \subseteq closed \cup {c}
      /\ (c \notin clients => closed' = closed)
  BY DEF Unregister
<1>2. Budget'
  BY DEF Inv, Budget
<1>3. Channels'
  <2>1. clients' \cap closed' = {}
    BY <1>1 DEF Inv, Channels
  <2> QED
    BY <2>1, <1>1 DEF Inv, Channels
<1>4. Past'
  BY DEF Inv, Past
<1>5. CrashOnlyByPong'
  <2> SUFFICES ASSUME crashed' PROVE \E d \in closed' : reader'[d] = "pong"
    BY DEF CrashOnlyByPong
  <2>1. c \in clients
    BY DEF Unregister
  <2>2. c \notin closed
    BY <2>1 DEF Inv, Channels
  <2>3. reader[c] = "pong" /\ c \in closed'
    BY <2>1, <2>2 DEF Unregister
  <2> QED
    BY <2>3
<1>6. NoSilentGap'
  <2>1. \A d \in clients' : GapOf(d)'
    <3> TAKE d \in clients'
    <3>1. d # c /\ d \in clients /\ d \in Clients
      BY <1>1 DEF Inv, TypeOK
    <3>2. GapOf(d)
      BY <3>1, GapIsNoSilentGap DEF Inv
    <3> QED
      BY <3>1, <3>2, SameGap
  <2> QED
    BY <2>1 DEF NoSilentGap, GapOf
<1> QED
  BY <1>2, <1>3, <1>4, <1>5, <1>6 DEF Inv

LEMMA UnregisterTypes ==
  ASSUME TypeOK, NEW c \in Clients, Unregister(c)
  PROVE  clients' \subseteq Clients /\ closed' \subseteq Clients /\ crashed' \in BOOLEAN
<1>1. CASE c \in clients
  <2>1. clients' \subseteq Clients /\ closed' \subseteq Clients
    BY <1>1 DEF Unregister, TypeOK
  <2>2. crashed' \in BOOLEAN
    BY <1>1 DEF Unregister
  <2> QED
    BY <2>1, <2>2
<1>2. CASE c \notin clients
  BY <1>2 DEF Unregister, TypeOK
<1> QED
  BY <1>1, <1>2

LEMMA InvEvict == ASSUME Inv, NEW c \in Clients, Evict(c) PROVE Inv'
<1>1. clients' \subseteq Clients /\ closed' \subseteq Clients /\ crashed' \in BOOLEAN
  BY UnregisterTypes DEF Inv, Evict
<1>2. evictors' \in [Clients -> Nat] /\ \A d \in Clients \ {c} : evictors'[d] = evictors[d]
  BY DEF Inv, TypeOK, Evict
<1>3. TypeOK'
  BY <1>1, <1>2 DEF Inv, TypeOK, Evict, pumpVars
<1> QED
  BY <1>2, <1>3, InvUnregister DEF Evict, pumpVars

LEMMA InvLeave == ASSUME Inv, NEW c \in Clients, Leave(c) PROVE Inv'
<1>1. clients' \subseteq Clients /\ closed' \subseteq Clients /\ crashed' \in BOOLEAN
  BY UnregisterTypes DEF Inv, Leave
<1>2. /\ reader' \in [Clients -> {"new", "register", "read", "pong", "leave", "done"}]
      /\ reader'[c] = "done" /\ \A d \in Clients \ {c} : reader'[d] = reader[d]
  BY DEF Inv, TypeOK, Leave
<1>3. TypeOK'
  BY <1>1, <1>2 DEF Inv, TypeOK, Leave
<1> QED
  BY <1>2, <1>3, InvUnregister DEF Leave

LEMMA InvSendPong == ASSUME Inv, NEW c \in Clients, SendPong(c) PROVE Inv'
<1>1. CASE c \in closed /\ crashed' = TRUE /\ UNCHANGED <<reader, send>>
  <2>1. UNCHANGED <<hubVars, conn, writer, pings, got, calling, send, reader>>
    BY <1>1 DEF SendPong
  <2>2. TypeOK' /\ Budget' /\ Channels' /\ Past'
    BY <1>1, <2>1 DEF Inv, TypeOK, Budget, Channels, Past, hubVars
  <2>3. CrashOnlyByPong'
    BY <1>1, <2>1 DEF CrashOnlyByPong, SendPong, hubVars
  <2>4. \A d \in clients' : GapOf(d)'
    BY <2>1, SameGap, GapIsNoSilentGap DEF Inv, hubVars
  <2> QED
    BY <2>2, <2>3, <2>4 DEF Inv, NoSilentGap, GapOf
<1>2. CASE /\ c \notin closed /\ ~Full(c)
           /\ send' = [send EXCEPT ![c] = Append(@, Pong)]
           /\ reader' = [reader EXCEPT ![c] = "read"]
           /\ UNCHANGED crashed
  <2>1. UNCHANGED <<hubVars, conn, writer, pings, got, calling>> /\ ~crashed /\ reader[c] = "pong"
    BY DEF SendPong
  <2>2. /\ send[c] \in Seq(0..Pong) /\ Len(send[c]) \in Nat /\ Pong \in 0..Pong
        /\ DOMAIN send[c] = 1..Len(send[c])
    BY BufferFacts, Messages DEF Inv
  <2>3. send'[c] = Append(send[c], Pong) /\ \A d \in Clients \ {c} : send'[d] = send[d]
    BY <1>2 DEF Inv, TypeOK
  <2>4. /\ send'[c] \in Seq(0..Pong) /\ Len(send'[c]) = Len(send[c]) + 1
        /\ DOMAIN send'[c] = 1..(Len(send[c]) + 1)
        /\ \A i \in DOMAIN send[c] : i \in DOMAIN send'[c] /\ send'[c][i] = send[c][i]
        /\ send'[c][Len(send[c]) + 1] = Pong
    BY <2>2, <2>3, AppendFacts
  <2>5. Pong \notin Broadcasts
    BY Messages
  <2>6. \A i \in DOMAIN send'[c] : send'[c][i] \in Broadcasts =>
            i \in DOMAIN send[c] /\ send'[c][i] = send[c][i]
    BY <2>2, <2>4, <2>5
  <2>7. TypeOK'
    <3>1. send' \in [Clients -> Seq(0..Pong)]
      BY <1>2, <2>3, <2>4 DEF Inv, TypeOK
    <3>2. \A d \in Clients : Len(send'[d]) <= BufSize
      BY <1>2, <2>2, <2>3, <2>4 DEF Inv, TypeOK, Full
    <3>3. reader' \in [Clients -> {"new", "register", "read", "pong", "leave", "done"}]
      BY <1>2 DEF Inv, TypeOK
    <3> QED
      BY <1>2, <2>1, <3>1, <3>2, <3>3 DEF Inv, TypeOK, hubVars
  <2>8. Budget'
    BY <2>1 DEF Inv, Budget, hubVars
  <2>9. Channels'
    BY <1>2, <2>1 DEF Inv, Channels, TypeOK, hubVars
  <2>10. Past'
    <3>1. \A i \in DOMAIN send'[c] : send'[c][i] \in Broadcasts => send'[c][i] <= served
      BY <2>6 DEF Inv, Past
    <3> QED
      BY <3>1, <2>1, <2>3 DEF Inv, Past, hubVars
  <2>11. CrashOnlyByPong'
    BY <1>2, <2>1 DEF CrashOnlyByPong
  <2>12. InOrder(c) => InOrder(c)'
    <3> SUFFICES ASSUME InOrder(c), NEW j \in DOMAIN send'[c], send'[c][j] \in Broadcasts
                 PROVE  /\ \A n \in got'[c] : n < send'[c][j]
                        /\ \A i \in 1..(j - 1) : send'[c][i] \in Broadcasts =>
                               send'[c][i] < send'[c][j]
      BY DEF InOrder
    <3>1. j \in DOMAIN send[c] /\ send'[c][j] = send[c][j]
      BY <2>6
    <3>2. \A i \in 1..(j - 1) : send'[c][i] = send[c][i]
      <4>1. j \in 1..Len(send[c])
        BY <3>1, <2>2
      <4>2. 1..(j - 1) \subseteq 1..Len(send[c])
        BY <4>1, <2>2
      <4> QED
        BY <4>2, <2>2, <2>4
    <3> QED
      BY <3>1, <3>2, <2>1 DEF InOrder
  <2>13. Buffered(c)' = Buffered(c)
    <3>1. \A m : m \in Buffered(c)' => m \in Buffered(c)
      BY <2>6 DEF Buffered
    <3>2. \A m : m \in Buffered(c) => m \in Buffered(c)'
      BY <2>4 DEF Buffered
    <3> QED
      BY <3>1, <3>2
  <2>14. \A d \in clients' : GapOf(d)'
    <3> TAKE d \in clients'
    <3>1. d \in clients /\ d \in Clients /\ GapOf(d)
      BY <2>1, GapIsNoSilentGap DEF Inv, TypeOK, hubVars
    <3>2. CASE d = c
      BY <3>1, <3>2, <2>1, <2>12, <2>13 DEF GapOf, hubVars
    <3>3. CASE d # c
      BY <3>1, <3>3, <2>1, <2>3, SameGap DEF hubVars
    <3> QED
      BY <3>2, <3>3
  <2>15. NoSilentGap'
    BY <2>14 DEF NoSilentGap, GapOf
  <2> QED
    BY <2>7, <2>8, <2>9, <2>10, <2>11, <2>15 DEF Inv
<1> QED
  BY <1>1, <1>2 DEF SendPong

LEMMA InvBroadcast == ASSUME Inv, NEW b \in Callers, Broadcast(b) PROVE Inv'
<1> DEFINE m == served + 1
<1>1. UNCHANGED <<hub, clients, closed, from, conn, reader, writer, pings, got, crashed>>
      /\ ~crashed /\ b \in calling /\ calling' = calling \ {b} /\ served' = m
  <2>1. crashed' = FALSE /\ crashed = FALSE
    BY DEF Broadcast, Inv, TypeOK, Channels
  <2> QED
    BY <2>1 DEF Broadcast, pumpVars
<1>2. served \in Nat /\ m \in Broadcasts /\ m \in 0..Pong /\ Budget'
  <2>1. /\ IsFiniteSet(calling') /\ Cardinality(calling) \in Nat
        /\ Cardinality(calling') = Cardinality(calling) - 1
    BY <1>1, FS_RemoveElement, FS_CardinalityType DEF Inv, Budget
  <2>2. Cardinality(calling') \in Nat
    BY <2>1, FS_CardinalityType
  <2>3. served \in Nat /\ served + Cardinality(calling) <= MaxMsgs
    BY DEF Inv, Budget, TypeOK
  <2>4. m \in 1..MaxMsgs /\ served' + Cardinality(calling') <= MaxMsgs
    BY <2>1, <2>2, <2>3, <1>1
  <2> QED
    BY <2>1, <2>3, <2>4, Messages DEF Budget, Broadcasts
<1>3. \A c \in Clients : c \in clients /\ ~Full(c) => send'[c] = Append(send[c], m)
  BY <1>1 DEF Broadcast, BroadcastMessage
<1>4. \A c \in Clients : ~(c \in clients /\ ~Full(c)) => send'[c] = send[c]
  BY DEF Broadcast, BroadcastMessage
<1>5. \A c \in Clients : evictors'[c] = IF c \in clients /\ Full(c) THEN evictors[c] + 1
                                        ELSE evictors[c]
  BY DEF Broadcast, BroadcastMessage
<1> HIDE DEF m
<1>6. \A c \in Clients : c \in clients /\ ~Full(c) =>
          /\ send[c] \in Seq(0..Pong) /\ Len(send[c]) \in Nat
          /\ DOMAIN send[c] = 1..Len(send[c])
          /\ send'[c] \in Seq(0..Pong) /\ Len(send'[c]) = Len(send[c]) + 1
          /\ DOMAIN send'[c] = 1..(Len(send[c]) + 1)
          /\ \A i \in DOMAIN send[c] : i \in DOMAIN send'[c] /\ send'[c][i] = send[c][i]
          /\ send'[c][Len(send[c]) + 1] = m
  <2> SUFFICES ASSUME NEW c \in Clients, c \in clients, ~Full(c)
               PROVE  /\ send[c] \in Seq(0..Pong) /\ Len(send[c]) \in Nat
                      /\ DOMAIN send[c] = 1..Len(send[c])
                      /\ send'[c] \in Seq(0..Pong) /\ Len(send'[c]) = Len(send[c]) + 1
                      /\ DOMAIN send'[c] = 1..(Len(send[c]) + 1)
                      /\ \A i \in DOMAIN send[c] : i \in DOMAIN send'[c] /\ send'[c][i] = send[c][i]
                      /\ send'[c][Len(send[c]) + 1] = m
    OBVIOUS
  <2>1. send[c] \in Seq(0..Pong) /\ Len(send[c]) \in Nat /\ DOMAIN send[c] = 1..Len(send[c])
    BY BufferFacts DEF Inv
  <2>2. send'[c] = Append(send[c], m)
    BY <1>3
  <2> QED
    BY <2>1, <2>2, <1>2, AppendFacts
<1>7. TypeOK'
  <2>1. send' \in [Clients -> Seq(0..Pong)]
    <3>1. \A c \in Clients : send'[c] \in Seq(0..Pong)
      BY <1>4, <1>6 DEF Inv, TypeOK
    <3>2. send' = [c \in Clients |-> send'[c]]
      BY DEF Broadcast, BroadcastMessage
    <3> QED
      BY <3>1, <3>2
  <2>2. \A c \in Clients : Len(send'[c]) <= BufSize
    <3> TAKE c \in Clients
    <3>1. CASE c \in clients /\ ~Full(c)
      BY <3>1, <1>6 DEF Full
    <3>2. CASE ~(c \in clients /\ ~Full(c))
      BY <3>2, <1>4 DEF Inv, TypeOK
    <3> QED
      BY <3>1, <3>2
  <2>3. evictors' \in [Clients -> Nat]
    <3>1. \A c \in Clients : evictors[c] \in Nat
      BY DEF Inv, TypeOK
    <3>3. \A c \in Clients : evictors'[c] \in Nat
      BY <3>1, <1>5
    <3>2. evictors' = [c \in Clients |-> evictors'[c]]
      BY DEF Broadcast, BroadcastMessage
    <3> QED
      BY <3>3, <3>2
  <2>4. served' \in 0..MaxMsgs /\ calling' \subseteq Callers
    BY <1>1, <1>2 DEF Inv, TypeOK, Broadcasts
  <2> QED
    BY <1>1, <2>1, <2>2, <2>3, <2>4 DEF Inv, TypeOK
<1>8. Channels' /\ CrashOnlyByPong'
  BY <1>1 DEF Inv, Channels, CrashOnlyByPong
<1>9. m = served + 1
  BY DEF m
<1>10. Past'
  <2> SUFFICES ASSUME NEW c \in Clients
               PROVE  /\ from'[c] <= served'
                      /\ \A n \in got'[c] : n <= served'
                      /\ \A i \in DOMAIN send'[c] :
                             send'[c][i] \in Broadcasts => send'[c][i] <= served'
    BY DEF Past
  <2>1. from'[c] <= served'
    BY <1>1, <1>2, <1>9 DEF Inv, Past, TypeOK
  <2>2. \A n \in got'[c] : n <= served'
    BY <1>1, <1>2, <1>9 DEF Inv, Past, TypeOK, Broadcasts
  <2>3. \A i \in DOMAIN send[c] : send[c][i] \in Broadcasts => send[c][i] <= m
    BY <1>2, <1>9 DEF Inv, Past, Broadcasts
  <2>4. \A i \in DOMAIN send'[c] : send'[c][i] \in Broadcasts => send'[c][i] <= m
    <3>1. CASE c \in clients /\ ~Full(c)
      <4>1. \A i \in DOMAIN send'[c] : i \in DOMAIN send[c] \/ i = Len(send[c]) + 1
        BY <3>1, <1>6
      <4> QED
        BY <4>1, <3>1, <1>2, <1>6, <2>3 DEF Broadcasts
    <3>2. CASE ~(c \in clients /\ ~Full(c))
      BY <3>2, <1>4, <2>3
    <3> QED
      BY <3>1, <3>2
  <2> QED
    BY <1>1, <2>1, <2>2, <2>4
<1>11. ASSUME NEW c \in clients PROVE GapOf(c)'
  <2>1. c \in Clients /\ GapOf(c)
    BY <1>11, GapIsNoSilentGap DEF Inv, TypeOK
  <2>2. CASE Full(c)
    <3>1. send'[c] = send[c] /\ evictors'[c] = evictors[c] + 1 /\ evictors[c] \in Nat
      BY <2>1, <2>2, <1>4, <1>5, <1>11 DEF Inv, TypeOK
    <3>2. InOrder(c)'
      BY <3>1, <2>1, <1>1, SameBuffer DEF GapOf
    <3>3. evictors'[c] # 0
      BY <3>1
    <3> QED
      BY <3>2, <3>3 DEF GapOf
  <2>3. CASE ~Full(c)
    <3> DEFINE k == Len(send[c]) + 1
    <3>1. /\ send[c] \in Seq(0..Pong) /\ Len(send[c]) \in Nat
          /\ DOMAIN send[c] = 1..Len(send[c])
          /\ DOMAIN send'[c] = 1..k
          /\ \A i \in DOMAIN send[c] : i \in DOMAIN send'[c] /\ send'[c][i] = send[c][i]
          /\ send'[c][k] = m
      BY <2>1, <2>3, <1>6
    <3>2. evictors'[c] = evictors[c]
      BY <2>1, <2>3, <1>5
    <3>3. k \in Nat \ {0} /\ 1..(k - 1) = DOMAIN send[c]
      BY <3>1
    <3> HIDE DEF k
    <3>4. \A i \in DOMAIN send'[c] : i \in DOMAIN send[c] \/ i = k
      BY <3>1, <3>3
    <3>5. InOrder(c)'
      <4> SUFFICES ASSUME NEW j \in DOMAIN send'[c], send'[c][j] \in Broadcasts
                   PROVE  /\ \A n \in got'[c] : n < send'[c][j]
                          /\ \A i \in 1..(j - 1) : send'[c][i] \in Broadcasts =>
                                 send'[c][i] < send'[c][j]
        BY DEF InOrder
      <4>1. CASE j \in DOMAIN send[c]
        <5>1. send'[c][j] = send[c][j]
          BY <4>1, <3>1
        <5>2. \A i \in 1..(j - 1) : i \in DOMAIN send[c]
          BY <4>1, <3>1
        <5>3. \A i \in 1..(j - 1) : send'[c][i] = send[c][i]
          BY <5>2, <3>1
        <5> QED
          BY <4>1, <5>1, <5>3, <2>1, <1>1 DEF GapOf, InOrder
      <4>2. CASE j = k
        <5>1. \A n \in got[c] : n < m
          BY <2>1, <1>2, <1>9 DEF Inv, Past, TypeOK, Broadcasts
        <5>2. \A i \in 1..(j - 1) : send'[c][i] = send[c][i] /\ i \in DOMAIN send[c]
          BY <4>2, <3>1, <3>3
        <5>3. \A i \in DOMAIN send[c] : send[c][i] \in Broadcasts => send[c][i] < m
          BY <2>1, <1>2, <1>9 DEF Inv, Past, Broadcasts
        <5> QED
          BY <4>2, <5>1, <5>2, <5>3, <3>1, <1>1
      <4> QED
        BY <4>1, <4>2, <3>4
    <3>6. Buffered(c)' = Buffered(c) \cup {m}
      <4>1. \A n : n \in Buffered(c)' => n \in Buffered(c) \cup {m}
        BY <3>1, <3>4 DEF Buffered
      <4>2. \A n : n \in Buffered(c) => n \in Buffered(c)'
        BY <3>1 DEF Buffered
      <4>3. m \in Buffered(c)'
        <5>1. k \in DOMAIN send'[c]
          BY <3>1, <3>3
        <5> QED
          BY <5>1, <3>1, <1>2 DEF Buffered
      <4> QED
        BY <4>1, <4>2, <4>3
    <3>7. (from[c] + 1)..served' = ((from[c] + 1)..served) \cup {m}
      <4>1. from[c] \in Nat /\ from[c] <= served
        BY <2>1 DEF Inv, Past, TypeOK
      <4> QED
        BY <4>1, <1>1, <1>2, <1>9
    <3> QED
      BY <3>2, <3>5, <3>6, <3>7, <2>1, <1>1 DEF GapOf
  <2> QED
    BY <2>2, <2>3
<1>12. NoSilentGap'
  <2>1. \A c \in clients' : GapOf(c)'
    BY <1>1, <1>11
  <2> QED
    BY <2>1 DEF NoSilentGap, GapOf
<1> QED
  BY <1>2, <1>7, <1>8, <1>10, <1>12 DEF Inv

LEMMA InvWrite == ASSUME Inv, NEW c \in Clients, Write(c) PROVE Inv'
<1>1. UNCHANGED <<hubVars, conn, reader, pings, calling, crashed>> /\ ~crashed
      /\ writer[c] = "wait" /\ send[c] # << >>
  BY DEF Write
<1>2. /\ send[c] \in Seq(0..Pong) /\ Len(send[c]) \in Nat
      /\ DOMAIN send[c] = 1..Len(send[c])
  BY BufferFacts DEF Inv
<1>3. Budget' /\ Channels'
  <2>1. Budget'
    BY <1>1 DEF Inv, Budget, hubVars
  <2>3. \A d \in Clients : writer'[d] = "wait" => writer[d] = "wait"
    BY DEF Inv, TypeOK, Write
  <2>2. \A d \in Clients : reader[d] \in {"new", "register"} => got'[d] = {}
    <3>1. CASE got' = got
      BY <3>1 DEF Inv, Channels
    <3>2. CASE got' # got
      <4>1. got' = [got EXCEPT ![c] = @ \cup Buffered(c)]
        BY <3>2 DEF Write
      <4>2. reader[c] \notin {"new", "register"}
        BY <1>1 DEF Inv, Channels
      <4> QED
        BY <4>1, <4>2 DEF Inv, Channels, TypeOK
    <3> QED
      BY <3>1, <3>2
  <2> QED
    BY <1>1, <2>1, <2>2, <2>3 DEF Inv, Channels, hubVars
<1>4. CrashOnlyByPong'
  BY <1>1 DEF CrashOnlyByPong
<1>5. CASE /\ got' = [got EXCEPT ![c] = @ \cup Buffered(c)]
           /\ send' = [send EXCEPT ![c] = << >>]
           /\ UNCHANGED writer
  <2>1. send'[c] = << >> /\ \A d \in Clients \ {c} : send'[d] = send[d]
    BY <1>5 DEF Inv, TypeOK
  <2>2. got'[c] = got[c] \cup Buffered(c) /\ \A d \in Clients \ {c} : got'[d] = got[d]
    BY <1>5 DEF Inv, TypeOK
  <2>3. Buffered(c) \subseteq Broadcasts
    BY DEF Buffered
  <2>4. TypeOK'
    <3>1. << >> \in Seq(0..Pong) /\ Len(<< >>) = 0
      OBVIOUS
    <3>2. send' \in [Clients -> Seq(0..Pong)] /\ \A d \in Clients : Len(send'[d]) <= BufSize
      BY <1>5, <2>1, <3>1 DEF Inv, TypeOK
    <3>3. got' \in [Clients -> SUBSET Broadcasts]
      BY <1>5, <2>2, <2>3 DEF Inv, TypeOK
    <3> QED
      BY <1>1, <1>5, <3>2, <3>3 DEF Inv, TypeOK, hubVars
  <2>5. \A n \in Buffered(c) : n <= served
    BY DEF Inv, Past, Buffered
  <2>6. Past'
    <3>1. \A n \in got'[c] : n <= served
      BY <2>2, <2>5 DEF Inv, Past
    <3>2. DOMAIN send'[c] = {}
      BY <2>1
    <3> QED
      BY <3>1, <3>2, <1>1, <2>1, <2>2 DEF Inv, Past, hubVars
  <2>7. InOrder(c)' /\ Buffered(c)' = {}
    <3>1. DOMAIN send'[c] = {}
      BY <2>1
    <3> QED
      BY <3>1 DEF InOrder, Buffered
  <2>8. \A d \in clients' : GapOf(d)'
    <3> TAKE d \in clients'
    <3>1. d \in clients /\ d \in Clients /\ GapOf(d)
      BY <1>1, GapIsNoSilentGap DEF Inv, TypeOK, hubVars
    <3>2. CASE d = c
      BY <3>1, <3>2, <1>1, <1>5, <2>2, <2>7 DEF GapOf, hubVars
    <3>3. CASE d # c
      BY <3>1, <3>3, <1>1, <1>5, <2>1, <2>2, SameGap DEF hubVars
    <3> QED
      BY <3>2, <3>3
  <2>9. NoSilentGap'
    BY <2>8 DEF NoSilentGap, GapOf
  <2> QED
    BY <1>3, <1>4, <2>4, <2>6, <2>9, <1>1, <1>5 DEF Inv, hubVars
<1>6. CASE /\ \/ send' = [send EXCEPT ![c] = Tail(@)]
              \/ send' = [send EXCEPT ![c] = << >>]
           /\ writer' = [writer EXCEPT ![c] = "done"]
           /\ UNCHANGED got
  <2>1. send'[c] \in {Tail(send[c]), << >>} /\ \A d \in Clients \ {c} : send'[d] = send[d]
    BY <1>6 DEF Inv, TypeOK
  <2>2. writer'[c] = "done" /\ \A d \in Clients \ {c} : writer'[d] = writer[d]
    BY <1>6 DEF Inv, TypeOK
  <2>3. /\ send'[c] \in Seq(0..Pong) /\ Len(send'[c]) <= Len(send[c])
        /\ DOMAIN send'[c] \in {1..(Len(send[c]) - 1), {}}
        /\ \A i \in DOMAIN send'[c] : i + 1 \in DOMAIN send[c] /\ send'[c][i] = send[c][i + 1]
    <3>1. CASE send'[c] = Tail(send[c])
      BY <3>1, <1>1, <1>2, TailFacts
    <3>2. CASE send'[c] = << >>
      <4>1. << >> \in Seq(0..Pong) /\ Len(<< >>) = 0 /\ DOMAIN << >> = {}
        OBVIOUS
      <4> QED
        BY <4>1, <3>2, <1>2
    <3> QED
      BY <3>1, <3>2, <2>1
  <2>4. TypeOK'
    <3>1. send' \in [Clients -> Seq(0..Pong)]
      <4>1. Tail(send[c]) \in Seq(0..Pong)
        BY <1>1, <1>2, TailFacts
      <4>2. << >> \in Seq(0..Pong)
        OBVIOUS
      <4> QED
        BY <1>6, <4>1, <4>2 DEF Inv, TypeOK
    <3>2. \A d \in Clients : Len(send'[d]) <= BufSize
      <4>1. Len(send'[c]) \in Nat /\ Len(send[c]) <= BufSize
        BY <2>3 DEF Inv, TypeOK
      <4>2. Len(send'[c]) <= BufSize
        BY <4>1, <2>3, <1>2
      <4> QED
        BY <4>2, <2>1 DEF Inv, TypeOK
    <3>3. writer' \in [Clients -> {"new", "wait", "done"}]
      BY <1>6 DEF Inv, TypeOK
    <3> QED
      BY <1>1, <1>6, <3>1, <3>2, <3>3 DEF Inv, TypeOK, hubVars
  <2>5. Past'
    <3>1. \A i \in DOMAIN send'[c] : send'[c][i] \in Broadcasts => send'[c][i] <= served
      BY <2>3 DEF Inv, Past
    <3> QED
      BY <3>1, <1>1, <1>6, <2>1 DEF Inv, Past, hubVars
  <2>6. InOrder(c) => InOrder(c)'
    <3> SUFFICES ASSUME InOrder(c), NEW j \in DOMAIN send'[c], send'[c][j] \in Broadcasts
                 PROVE  /\ \A n \in got'[c] : n < send'[c][j]
                        /\ \A i \in 1..(j - 1) : send'[c][i] \in Broadcasts =>
                               send'[c][i] < send'[c][j]
      BY DEF InOrder
    <3>1. j + 1 \in DOMAIN send[c] /\ send'[c][j] = send[c][j + 1] /\ j \in Nat
      BY <2>3, <1>2
    <3>2. \A i \in 1..(j - 1) : i \in DOMAIN send'[c] /\ i + 1 \in 1..(j + 1 - 1)
      BY <3>1, <2>3, <1>2
    <3>3. \A n \in got[c] : n < send[c][j + 1]
      BY <3>1 DEF InOrder
    <3>4. \A i \in 1..(j + 1 - 1) : send[c][i] \in Broadcasts => send[c][i] < send[c][j + 1]
      BY <3>1 DEF InOrder
    <3> QED
      BY <3>1, <3>2, <3>3, <3>4, <2>3, <1>6
  <2>7. \A d \in clients' : GapOf(d)'
    <3> TAKE d \in clients'
    <3>1. d \in clients /\ d \in Clients /\ GapOf(d)
      BY <1>1, GapIsNoSilentGap DEF Inv, TypeOK, hubVars
    <3>2. CASE d = c
      BY <3>1, <3>2, <2>2, <2>6 DEF GapOf
    <3>3. CASE d # c
      BY <3>1, <3>3, <1>1, <1>6, <2>1, <2>2, SameGap DEF hubVars
    <3> QED
      BY <3>2, <3>3
  <2>8. NoSilentGap'
    BY <2>7 DEF NoSilentGap, GapOf
  <2> QED
    BY <1>3, <1>4, <2>4, <2>5, <2>8, <1>1, <2>2 DEF Inv, hubVars
<1> QED
  BY <1>5, <1>6 DEF Write

-----------------------------------------------------------------------------
LEMMA InvNext == Inv /\ [Next]_vars => Inv'
<1> SUFFICES ASSUME Inv, [Next]_vars PROVE Inv'
  OBVIOUS
<1>1. ASSUME NEW c \in Clients, Register(c) \/ Evict(c) \/ Leave(c) PROVE Inv'
  BY <1>1, InvRegister, InvEvict, InvLeave
<1>2. ASSUME NEW b \in Callers, Broadcast(b) \/ Call(b) PROVE Inv'
  BY <1>2, InvBroadcast, InvCall
<1>3. CASE SendHeartbeat
  BY <1>3, InvHeartbeat
<1>4. ASSUME NEW c \in Clients, Connect(c) \/ PeerGone(c) \/ ReadPing(c) PROVE Inv'
  BY <1>4, InvConnect, InvPeerGone, InvReadPing
<1>5. ASSUME NEW c \in Clients, Reader(c) PROVE Inv'
  BY <1>5, InvSendPong, InvReadFails DEF Reader
<1>6. ASSUME NEW c \in Clients, Writer(c) PROVE Inv'
  BY <1>6, InvWrite, InvWriterEnds DEF Writer
<1>7. CASE UNCHANGED vars
  <2>1. TypeOK' /\ Budget' /\ Channels' /\ Past' /\ CrashOnlyByPong'
    BY <1>7 DEF Inv, TypeOK, Budget, Channels, Past, CrashOnlyByPong, vars, hubVars, pumpVars
  <2>2. NoSilentGap'
    BY <1>7 DEF Inv, NoSilentGap, InOrder, Buffered, vars, hubVars, pumpVars
  <2> QED
    BY <2>1, <2>2 DEF Inv
<1> QED
  BY <1>1, <1>2, <1>3, <1>4, <1>5, <1>6, <1>7 DEF Next, Run

LEMMA Invariance == Spec => []Inv
<1> QED
  BY InvInit, InvNext, PTL DEF Spec

(* The variables keep their types, and in particular no buffer is ever over   *)
(* its capacity: the hub's non-blocking sends and the reader's pongs compete  *)
(* for its last place.                                                        *)
THEOREM TypeCorrect == Spec => []TypeOK
<1>1. Inv => TypeOK
  BY DEF Inv
<1> QED
  BY <1>1, Invariance, PTL

(* However removals from the pumps and from evictions are ordered, no channel *)
(* is closed twice and the hub sends on no closed one.                        *)
THEOREM CrashOnlyByPongHolds == Spec => []CrashOnlyByPong
<1>1. Inv => CrashOnlyByPong
  BY DEF Inv
<1> QED
  BY <1>1, Invariance, PTL

(* A registered client that has not been marked for eviction has, written or  *)
(* buffered and in order, every message broadcast since it was registered.    *)
THEOREM NoSilentGapHolds == Spec => []NoSilentGap
<1>1. Inv => NoSilentGap
  BY DEF Inv
<1> QED
  BY <1>1, Invariance, PTL
=============================================================================
