---------------------------- MODULE EventStream ----------------------------
(***************************************************************************)
(* EventsHandler (internal/api/handlers/events): server-sent events.       *)
(*                                                                         *)
(* A request for the stream makes a connection with a buffered channel and *)
(* stays in its handler, which writes to the client what it takes from the *)
(* channel. Two other goroutines send to the channel, never waiting for    *)
(* room: whoever broadcasts, and one that was started with the connection  *)
(* and reports the system's status 100 ms later. The channel is closed by  *)
(* the handler as it returns and by Shutdown.                              *)
(*                                                                         *)
(* A broadcast is one step, though it holds the read lock over a send to   *)
(* each connection: connections come and go under the write lock, and      *)
(* channels of different connections have nothing to do with each other.   *)
(* The n-th broadcast is the number n. A panic in a handler is recovered   *)
(* by the error middleware; one in another goroutine ends the process.     *)
(***************************************************************************)
EXTENDS Naturals, Sequences

CONSTANTS Conns,    \* connections, each made once
          BufSize,  \* capacity of a channel (100)
          Status,   \* the status message
          MaxMsgs   \* bound: broadcasts

ASSUME EventStreamAssumption == BufSize \in Nat \ {0} /\ MaxMsgs \in Nat /\ Status \notin Nat

VARIABLES connections,  \* the handler's map of connections
          chan,         \* what each channel holds
          closed,       \* channels that have been closed
          pc,           \* where the handler of each connection is
          reporter,     \* where its status goroutine is
          left,         \* clients that have gone
          msgs,         \* broadcasts so far
          crash,        \* the goroutine that ended the process, if one has
          from,         \* history: broadcasts made before a connection was registered
          got,          \* history: what was taken from a channel
          skipped       \* history: broadcasts a connection had no room for

history == <<from, got, skipped>>
esVars == <<connections, chan, closed, pc, reporter, left, msgs, crash, history>>

Messages == 1 .. MaxMsgs \cup {Status}

TypeOK ==
    /\ connections \subseteq Conns /\ closed \subseteq Conns /\ left \subseteq Conns
    /\ chan \in [Conns -> Seq(Messages)] /\ got \in [Conns -> Seq(Messages)]
    /\ \A c \in Conns : Len(chan[c]) <= BufSize
    /\ pc \in [Conns -> {"none", "greet", "loop", "leaving", "closing", "gone"}]
    /\ reporter \in [Conns -> {"none", "waiting", "over"}]
    /\ msgs \in 0 .. MaxMsgs
    /\ crash \in {"none", "reporter", "broadcast"}
    /\ from \in [Conns -> 0 .. MaxMsgs]
    /\ skipped \in [Conns -> SUBSET (1 .. MaxMsgs)]

Init ==
    /\ connections = {} /\ closed = {} /\ left = {}
    /\ chan = [c \in Conns |-> <<>>] /\ got = [c \in Conns |-> <<>>]
    /\ pc = [c \in Conns |-> "none"]
    /\ reporter = [c \in Conns |-> "none"]
    /\ msgs = 0 /\ crash = "none"
    /\ from = [c \in Conns |-> 0]
    /\ skipped = [c \in Conns |-> {}]

HasRoom(c) == Len(chan[c]) < BufSize

-----------------------------------------------------------------------------
(* GetEventStream *)

Connect(c) ==
    /\ pc[c] = "none"
    /\ connections' = connections \cup {c}
    /\ from' = [from EXCEPT ![c] = msgs]
    /\ pc' = [pc EXCEPT ![c] = "greet"]
    /\ UNCHANGED <<chan, closed, reporter, left, msgs, crash, got, skipped>>

\* The first message is written past the channel, its error ignored; the
\* status goroutine starts.
Greet(c) ==
    /\ pc[c] = "greet"
    /\ reporter' = [reporter EXCEPT ![c] = "waiting"]
    /\ pc' = [pc EXCEPT ![c] = "loop"]
    /\ UNCHANGED <<connections, chan, closed, left, msgs, crash, history>>

\* The status goroutine wakes: it sends if there is room. It asks for nobody's
\* lock, and the channel may be closed by now.
Report(c) ==
    /\ reporter[c] = "waiting"
    /\ reporter' = [reporter EXCEPT ![c] = "over"]
    /\ IF c \in closed
       THEN crash' = "reporter" /\ UNCHANGED chan
       ELSE /\ chan' = IF HasRoom(c) THEN [chan EXCEPT ![c] = Append(@, Status)] ELSE chan
            /\ UNCHANGED crash
    /\ UNCHANGED <<connections, closed, pc, left, msgs, history>>

\* A write fails only if the client has gone; it need not.
AfterWrite(c) == {"loop"} \cup (IF c \in left THEN {"leaving"} ELSE {})

\* The handler takes a message and writes it. One that cannot be marshalled ends
\* the handler as a failed write does, though its client is there.
Deliver(c) ==
    /\ pc[c] = "loop" /\ chan[c] # <<>>
    /\ chan' = [chan EXCEPT ![c] = Tail(@)]
    /\ got' = [got EXCEPT ![c] = Append(@, Head(chan[c]))]
    /\ \E next \in {"loop", "leaving"} : pc' = [pc EXCEPT ![c] = next]
    /\ UNCHANGED <<connections, closed, reporter, left, msgs, crash, from, skipped>>

\* A closed channel that is empty gives empty messages, one after the other; and
\* after 30 s without a message a keepalive is written. Either tells whether the
\* client is there.
WriteNothing(c) ==
    /\ pc[c] = "loop" /\ chan[c] = <<>>
    /\ \E next \in AfterWrite(c) : pc' = [pc EXCEPT ![c] = next]
    /\ UNCHANGED <<connections, chan, closed, reporter, left, msgs, crash, history>>

\* The request's context is done.
Return(c) ==
    /\ pc[c] = "loop" /\ c \in left
    /\ pc' = [pc EXCEPT ![c] = "leaving"]
    /\ UNCHANGED <<connections, chan, closed, reporter, left, msgs, crash, history>>

\* mutant: the channel is closed before the connection is forgotten
CloseFirst(c) ==
    /\ pc[c] = "leaving"
    /\ closed' = closed \cup {c}
    /\ connections' = IF c \in closed THEN connections \ {c} ELSE connections
    /\ pc' = [pc EXCEPT ![c] = IF c \in closed THEN "closing" ELSE "leaving"]
    /\ UNCHANGED <<chan, reporter, left, msgs, crash, history>>

\* mutant: the connection stays in the map
ForgetNothing(c) ==
    /\ pc[c] = "leaving"
    /\ pc' = [pc EXCEPT ![c] = "closing"]
    /\ UNCHANGED <<connections, chan, closed, reporter, left, msgs, crash, history>>

\* The deferred clean-up forgets the connection, under the lock.
Forget(c) ==
    /\ pc[c] = "leaving"
    /\ connections' = connections \ {c}
    /\ pc' = [pc EXCEPT ![c] = "closing"]
    /\ UNCHANGED <<chan, closed, reporter, left, msgs, crash, history>>

\* Then it closes the channel, without the lock. A second close panics, which
\* the middleware recovers: the handler has returned in either case.
Close(c) ==
    /\ pc[c] = "closing"
    /\ closed' = closed \cup {c}
    /\ pc' = [pc EXCEPT ![c] = "gone"]
    /\ UNCHANGED <<connections, chan, reporter, left, msgs, crash, history>>

-----------------------------------------------------------------------------
(* Broadcasts, Shutdown, clients *)

\* mutant: a full channel loses its oldest message
BroadcastReplaces ==
    /\ msgs < MaxMsgs
    /\ msgs' = msgs + 1
    /\ IF connections \cap closed # {}
       THEN crash' = "broadcast" /\ UNCHANGED <<chan, skipped>>
       ELSE /\ chan' = [c \in Conns |->
                          IF c \notin connections THEN chan[c]
                          ELSE IF HasRoom(c) THEN Append(chan[c], msgs + 1)
                          ELSE Append(Tail(chan[c]), msgs + 1)]
            /\ UNCHANGED <<crash, skipped>>
    /\ UNCHANGED <<connections, closed, pc, reporter, left, from, got>>

\* BroadcastMessage, from the heartbeat or from any other caller: connections
\* without room are skipped. A closed channel would not be skipped: a select
\* with a send on it panics, whether or not it has a default.
BroadcastMessage ==
    /\ msgs < MaxMsgs
    /\ msgs' = msgs + 1
    /\ IF connections \cap closed # {}
       THEN crash' = "broadcast" /\ UNCHANGED <<chan, skipped>>
       ELSE /\ chan' = [c \in Conns |-> IF c \in connections /\ HasRoom(c)
                                        THEN Append(chan[c], msgs + 1) ELSE chan[c]]
            /\ skipped' = [c \in Conns |-> IF c \in connections /\ ~HasRoom(c)
                                           THEN skipped[c] \cup {msgs + 1} ELSE skipped[c]]
            /\ UNCHANGED crash
    /\ UNCHANGED <<connections, closed, pc, reporter, left, from, got>>

Shutdown ==
    /\ connections # {}
    /\ closed' = closed \cup connections
    /\ connections' = {}
    /\ UNCHANGED <<chan, pc, reporter, left, msgs, crash, history>>

\* The client goes, or the server gives it up.
Disconnect(c) ==
    /\ pc[c] \in {"greet", "loop"} /\ c \notin left
    /\ left' = left \cup {c}
    /\ UNCHANGED <<connections, chan, closed, pc, reporter, msgs, crash, history>>

-----------------------------------------------------------------------------
Serve(c) == Greet(c) \/ Deliver(c) \/ WriteNothing(c) \/ Return(c) \/ Forget(c) \/ Close(c)

Next ==
    /\ crash = "none"
    /\ \/ \E c \in Conns : Connect(c) \/ Serve(c) \/ Report(c) \/ Disconnect(c)
       \/ BroadcastMessage
       \/ Shutdown

Spec == Init /\ [][Next]_esVars

\* Handlers run; Go's select does not pass over a context that is done for
\* ever. Nothing makes clients come or go, or anybody broadcast.
FairSpec ==
    /\ Spec
    /\ \A c \in Conns : /\ WF_esVars(crash = "none" /\ Serve(c))
                        /\ SF_esVars(crash = "none" /\ Return(c))

-----------------------------------------------------------------------------
(* Properties *)

\* A broadcast never sends on a closed channel, however connections end and
\* whether Shutdown or the handler closes: only the status goroutine of a
\* connection that ended within its 100 ms does, and ends the process.
CrashOnlyByReporter == crash # "broadcast"

\* What was taken from the channel of a connection or waits in it.
Taken(c) == got[c] \o chan[c]

InOrder(c) ==
    \A i, j \in 1 .. Len(Taken(c)) :
        i < j /\ Taken(c)[i] # Status /\ Taken(c)[j] # Status => Taken(c)[i] < Taken(c)[j]

\* Whether the channel of c was given n.
Had(c, n) == \E i \in 1 .. Len(Taken(c)) : Taken(c)[i] = n

\* A registered connection was given every broadcast since it was made, in order
\* and once, but those it had no room for.
NothingLost ==
    \A c \in connections :
        /\ InOrder(c)
        /\ \A n \in 1 .. MaxMsgs :
              n \in from[c] + 1 .. msgs <=> (Had(c, n) \/ n \in skipped[c])
        /\ \A n \in skipped[c] : ~Had(c, n)

\* The handler has returned and leaves no connection and no open channel.
Returned(c) == pc[c] = "gone" /\ c \in closed /\ c \notin connections

\* The handler of a client that goes returns, with messages in the channel or
\* after Shutdown too, and leaves nothing behind.
GoneForgotten == \A c \in Conns : (c \in left) ~> (Returned(c) \/ crash # "none")
=============================================================================
