------------------------- MODULE EventStreamProofs -------------------------
(* Theorems about EventStream for any number of connections and any buffer.   *)
EXTENDS EventStream, TLAPS

USE EventStreamAssumption

(* A connection that has not been made has nothing of its own.                *)
Fresh ==
    \A c \in Conns : pc[c] = "none" =>
        /\ chan[c] = <<>> /\ got[c] = <<>> /\ skipped[c] = {}
        /\ c \notin closed /\ c \notin connections /\ reporter[c] = "none"

(* A registered connection's handler has not begun to close its channel.      *)
Open ==
    /\ connections \cap closed = {}
    /\ \A c \in connections : pc[c] \in {"greet", "loop", "leaving"} /\ from[c] <= msgs

Inv == TypeOK /\ Fresh /\ Open /\ NothingLost /\ CrashOnlyByReporter

-----------------------------------------------------------------------------
(* Sequences of messages.                                                     *)

Sorted(s) ==
    \A i, j \in 1 .. Len(s) : i < j /\ s[i] # Status /\ s[j] # Status => s[i] < s[j]

Has(s, n) == \E i \in 1 .. Len(s) : s[i] = n

(* What NothingLost says of a connection that was given s.                    *)
Whole(s, lo, hi, gaps) ==
    /\ Sorted(s)
    /\ \A n \in 1 .. MaxMsgs : n \in lo + 1 .. hi <=> (Has(s, n) \/ n \in gaps)
    /\ \A n \in gaps : ~Has(s, n)

LEMMA NothingLostIsWhole ==
  NothingLost <=> \A c \in connections : Whole(Taken(c), from[c], msgs, skipped[c])
  BY DEF NothingLost, Whole, Sorted, InOrder, Has, Had

LEMMA AppendFacts ==
  ASSUME NEW M, NEW t \in Seq(M), NEW m \in M
  PROVE  LET s == Append(t, m)
         IN  /\ s \in Seq(M) /\ Len(s) = Len(t) + 1 /\ Len(t) \in Nat
             /\ \A i \in 1 .. Len(t) : s[i] = t[i] /\ t[i] \in M
             /\ s[Len(t) + 1] = m
  OBVIOUS

LEMMA HasAppend ==
  ASSUME NEW M, NEW t \in Seq(M), NEW m \in M, NEW n
  PROVE  Has(Append(t, m), n) <=> Has(t, n) \/ n = m
<1> DEFINE s == Append(t, m)
<1>1. /\ Len(s) = Len(t) + 1 /\ Len(t) \in Nat
      /\ \A i \in 1 .. Len(t) : s[i] = t[i]
      /\ s[Len(t) + 1] = m
  BY AppendFacts
<1> HIDE DEF s
<1>2. Has(s, n) <=> Has(t, n) \/ n = m
  BY <1>1 DEF Has
<1> QED
  BY <1>2 DEF s

LEMMA WholeAppend ==
  ASSUME NEW s \in Seq(Messages), NEW lo \in Nat, NEW hi \in Nat, lo <= hi, hi < MaxMsgs,
         NEW gaps \in SUBSET (1 .. MaxMsgs), Whole(s, lo, hi, gaps)
  PROVE  Whole(Append(s, hi + 1), lo, hi + 1, gaps)
<1>1. hi + 1 \in Messages /\ hi + 1 \in 1 .. MaxMsgs
  BY DEF Messages
<1>2. \A n : Has(Append(s, hi + 1), n) <=> Has(s, n) \/ n = hi + 1
  BY <1>1, HasAppend
<1>3. \A n \in 1 .. MaxMsgs : Has(s, n) \/ n \in gaps => n <= hi
  BY DEF Whole
<1>4. Sorted(Append(s, hi + 1))
  <2> DEFINE t == Append(s, hi + 1)
  <2>1. /\ Len(t) = Len(s) + 1 /\ Len(s) \in Nat
        /\ \A i \in 1 .. Len(s) : t[i] = s[i] /\ s[i] \in Messages
        /\ t[Len(s) + 1] = hi + 1
    BY <1>1, AppendFacts
  <2> HIDE DEF t
  <2> SUFFICES ASSUME NEW i \in 1 .. Len(t), NEW j \in 1 .. Len(t), i < j,
                      t[i] # Status, t[j] # Status
               PROVE  t[i] < t[j]
    BY DEF Sorted, t
  <2>2. CASE j \in 1 .. Len(s)
    BY <2>1, <2>2 DEF Whole, Sorted
  <2>3. CASE j = Len(s) + 1
    <3>1. i \in 1 .. Len(s) /\ t[j] = hi + 1
      BY <2>1, <2>3
    <3>2. t[i] = s[i] /\ s[i] \in 1 .. MaxMsgs /\ Has(s, s[i])
      BY <3>1, <2>1 DEF Messages, Has
    <3>3. s[i] <= hi
      BY <3>2, <1>3
    <3> QED
      BY <3>1, <3>2, <3>3
  <2> QED
    BY <2>1, <2>2, <2>3
<1>5. \A n \in 1 .. MaxMsgs :
         n \in lo + 1 .. hi + 1 <=> (Has(Append(s, hi + 1), n) \/ n \in gaps)
  <2> TAKE n \in 1 .. MaxMsgs
  <2>1. n \in lo + 1 .. hi + 1 <=> n \in lo + 1 .. hi \/ n = hi + 1
    OBVIOUS
  <2>2. n \in lo + 1 .. hi <=> (Has(s, n) \/ n \in gaps)
    BY DEF Whole
  <2> QED
    BY <2>1, <2>2, <1>2
<1>6. \A n \in gaps : ~Has(Append(s, hi + 1), n)
  <2> TAKE n \in gaps
  <2>1. n # hi + 1
    BY <1>3
  <2> QED
    BY <2>1, <1>2 DEF Whole
<1> QED
  BY <1>4, <1>5, <1>6 DEF Whole

LEMMA WholeStatus ==
  ASSUME NEW s \in Seq(Messages), NEW lo \in Nat, NEW hi \in Nat,
         NEW gaps \in SUBSET (1 .. MaxMsgs), Whole(s, lo, hi, gaps)
  PROVE  Whole(Append(s, Status), lo, hi, gaps)
<1>1. Status \in Messages /\ \A n \in 1 .. MaxMsgs : n # Status
  BY DEF Messages
<1>2. \A n : Has(Append(s, Status), n) <=> Has(s, n) \/ n = Status
  BY <1>1, HasAppend
<1>3. Sorted(Append(s, Status))
  <2> DEFINE t == Append(s, Status)
  <2>1. /\ Len(t) = Len(s) + 1 /\ Len(s) \in Nat
        /\ \A i \in 1 .. Len(s) : t[i] = s[i]
        /\ t[Len(s) + 1] = Status
    BY <1>1, AppendFacts
  <2> HIDE DEF t
  <2> SUFFICES ASSUME NEW i \in 1 .. Len(t), NEW j \in 1 .. Len(t), i < j,
                      t[i] # Status, t[j] # Status
               PROVE  t[i] < t[j]
    BY DEF Sorted, t
  <2>2. i \in 1 .. Len(s) /\ j \in 1 .. Len(s)
    BY <2>1
  <2> QED
    BY <2>1, <2>2 DEF Whole, Sorted
<1> QED
  BY <1>1, <1>2, <1>3 DEF Whole

LEMMA WholeSkip ==
  ASSUME NEW s, NEW lo \in Nat, NEW hi \in Nat, lo <= hi, hi < MaxMsgs,
         NEW gaps \in SUBSET (1 .. MaxMsgs), Whole(s, lo, hi, gaps)
  PROVE  Whole(s, lo, hi + 1, gaps \cup {hi + 1})
<1>1. hi + 1 \in 1 .. MaxMsgs /\ hi + 1 \notin lo + 1 .. hi
  OBVIOUS
<1>2. ~Has(s, hi + 1)
  BY <1>1 DEF Whole
<1>3. \A n \in 1 .. MaxMsgs : n \in lo + 1 .. hi + 1 <=> n \in lo + 1 .. hi \/ n = hi + 1
  OBVIOUS
<1> QED
  BY <1>2, <1>3 DEF Whole

LEMMA WholeEmpty ==
  ASSUME NEW m \in Nat
  PROVE  Whole(<<>>, m, m, {})
  BY DEF Whole, Sorted, Has

-----------------------------------------------------------------------------
LEMMA InvInit == Init => Inv
<1> SUFFICES ASSUME Init PROVE Inv
  OBVIOUS
<1>1. <<>> \in Seq(Messages) /\ Len(<<>>) = 0
  OBVIOUS
<1>2. /\ chan \in [Conns -> Seq(Messages)] /\ got \in [Conns -> Seq(Messages)]
      /\ \A c \in Conns : Len(chan[c]) <= BufSize
  BY <1>1 DEF Init
<1>3. TypeOK
  BY <1>2 DEF Init, TypeOK
<1> QED
  BY <1>3 DEF Inv, Init, Fresh, Open, NothingLost, CrashOnlyByReporter

(* The steps that leave the channels alone and register nothing.              *)
LEMMA InvQuiet ==
  ASSUME Inv, TypeOK', UNCHANGED <<chan, msgs, history>>, connections' \subseteq connections,
         closed \cap connections' = closed' \cap connections',
         \A c \in Conns : pc'[c] = "none" =>
             pc[c] = "none" /\ reporter'[c] = reporter[c] /\ (c \in closed' => c \in closed),
         \A c \in connections' : pc'[c] \in {"greet", "loop", "leaving"},
         crash' # "broadcast"
  PROVE  Inv'
<1>1. Fresh'
  BY DEF Inv, Fresh, history
<1>2. Open'
  BY DEF Inv, Open, history
<1>3. NothingLost'
  <2> SUFFICES ASSUME NEW c \in connections'
               PROVE  Whole(Taken(c), from[c], msgs, skipped[c])'
    BY NothingLostIsWhole DEF NothingLost, Whole, Sorted, InOrder, Has, Had
  <2>1. c \in connections
    OBVIOUS
  <2>2. Whole(Taken(c), from[c], msgs, skipped[c])
    BY <2>1, NothingLostIsWhole DEF Inv
  <2> QED
    BY <2>2 DEF Whole, Sorted, Has, Taken, history
<1> QED
  BY <1>1, <1>2, <1>3 DEF Inv, CrashOnlyByReporter

LEMMA InvGreet == ASSUME Inv, NEW c \in Conns, Greet(c), crash = "none" PROVE Inv'
<1>1. TypeOK'
  BY DEF Inv, TypeOK, Greet, history
<1>2. \A d \in Conns : d # c => pc'[d] = pc[d] /\ reporter'[d] = reporter[d]
  BY DEF Inv, TypeOK, Greet
<1>3. pc[c] = "greet" /\ pc'[c] = "loop"
  BY DEF Inv, TypeOK, Greet
<1>4. \A d \in connections' : pc'[d] \in {"greet", "loop", "leaving"}
  BY <1>2, <1>3 DEF Inv, TypeOK, Open, Greet
<1> QED
  BY <1>1, <1>2, <1>3, <1>4, InvQuiet DEF Greet

(* A handler moves on, and the channels are as they were.                     *)
LEMMA InvMove ==
  ASSUME Inv, NEW c \in Conns, NEW next \in {"loop", "leaving"}, pc[c] = "loop",
         pc' = [pc EXCEPT ![c] = next], crash = "none",
         UNCHANGED <<connections, chan, closed, reporter, left, msgs, crash, history>>
  PROVE  Inv'
<1>1. TypeOK'
  BY DEF Inv, TypeOK, history
<1>2. \A d \in Conns : d # c => pc'[d] = pc[d]
  BY DEF Inv, TypeOK
<1>3. pc'[c] = next
  BY DEF Inv, TypeOK
<1>4. \A d \in connections' : pc'[d] \in {"greet", "loop", "leaving"}
  BY <1>2, <1>3 DEF Inv, TypeOK, Open
<1> QED
  BY <1>1, <1>2, <1>3, <1>4, InvQuiet

LEMMA InvWriteNothing == ASSUME Inv, NEW c \in Conns, WriteNothing(c), crash = "none" PROVE Inv'
<1>1. PICK next \in AfterWrite(c) : pc' = [pc EXCEPT ![c] = next]
  BY DEF WriteNothing
<1>2. next \in {"loop", "leaving"}
  BY <1>1 DEF AfterWrite
<1> QED
  BY <1>1, <1>2, InvMove DEF WriteNothing

LEMMA InvReturn == ASSUME Inv, NEW c \in Conns, Return(c), crash = "none" PROVE Inv'
  BY InvMove DEF Return

LEMMA InvForget == ASSUME Inv, NEW c \in Conns, Forget(c), crash = "none" PROVE Inv'
<1>1. TypeOK'
  BY DEF Inv, TypeOK, Forget, history
<1>2. \A d \in Conns : d # c => pc'[d] = pc[d]
  BY DEF Inv, TypeOK, Forget
<1>3. pc[c] = "leaving" /\ pc'[c] = "closing"
  BY DEF Inv, TypeOK, Forget
<1>4. \A d \in connections' : pc'[d] \in {"greet", "loop", "leaving"}
  BY <1>2 DEF Inv, TypeOK, Open, Forget
<1> QED
  BY <1>1, <1>2, <1>3, <1>4, InvQuiet DEF Forget

LEMMA InvClose == ASSUME Inv, NEW c \in Conns, Close(c), crash = "none" PROVE Inv'
<1>1. TypeOK'
  BY DEF Inv, TypeOK, Close, history
<1>2. \A d \in Conns : d # c => pc'[d] = pc[d]
  BY DEF Inv, TypeOK, Close
<1>3. pc[c] = "closing" /\ pc'[c] = "gone"
  BY DEF Inv, TypeOK, Close
<1>4. c \notin connections
  BY <1>3 DEF Inv, Open
<1>5. \A d \in connections' : pc'[d] \in {"greet", "loop", "leaving"}
  BY <1>2, <1>4 DEF Inv, TypeOK, Open, Close
<1> QED
  BY <1>1, <1>2, <1>3, <1>4, <1>5, InvQuiet DEF Close

LEMMA InvDisconnect == ASSUME Inv, NEW c \in Conns, Disconnect(c), crash = "none" PROVE Inv'
<1>1. TypeOK'
  BY DEF Inv, TypeOK, Disconnect, history
<1> QED
  BY <1>1, InvQuiet DEF Disconnect, Inv, Open

LEMMA InvShutdown == ASSUME Inv, Shutdown, crash = "none" PROVE Inv'
<1>1. TypeOK'
  BY DEF Inv, TypeOK, Shutdown, history
<1>2. \A c \in connections : pc[c] # "none"
  BY DEF Inv, Open
<1> QED
  BY <1>1, <1>2, InvQuiet DEF Shutdown

-----------------------------------------------------------------------------
(* The steps of the channels.                                                 *)

LEMMA InvConnect == ASSUME Inv, NEW c \in Conns, Connect(c), crash = "none" PROVE Inv'
<1> USE DEF Connect
<1>1. TypeOK'
  BY DEF Inv, TypeOK
<1>2. /\ chan[c] = <<>> /\ got[c] = <<>> /\ skipped[c] = {}
      /\ c \notin closed /\ c \notin connections
  BY DEF Inv, Fresh
<1>3. \A d \in Conns : d # c => pc'[d] = pc[d] /\ from'[d] = from[d]
  BY DEF Inv, TypeOK
<1>4. pc'[c] = "greet" /\ from'[c] = msgs
  BY DEF Inv, TypeOK
<1>5. Fresh'
  BY <1>3, <1>4 DEF Inv, Fresh
<1>6. Open'
  BY <1>2, <1>3, <1>4 DEF Inv, Open, TypeOK
<1>7. NothingLost'
  <2> SUFFICES ASSUME NEW d \in connections'
               PROVE  Whole(Taken(d), from[d], msgs, skipped[d])'
    BY DEF NothingLost, Whole, Sorted, InOrder, Has, Had
  <2>1. Taken(d)' = Taken(d) /\ skipped'[d] = skipped[d] /\ msgs' = msgs
    BY DEF Taken
  <2>2. CASE d = c
    <3>1. Taken(d) = <<>>
      BY <1>2, <2>2 DEF Taken
    <3>2. Whole(<<>>, msgs, msgs, {})
      BY WholeEmpty DEF Inv, TypeOK
    <3> QED
      BY <3>1, <3>2, <2>1, <2>2, <1>2, <1>4 DEF Whole, Sorted, Has
  <2>3. CASE d # c
    <3>1. d \in connections /\ from'[d] = from[d]
      BY <2>3, <1>3 DEF Inv, TypeOK
    <3>2. Whole(Taken(d), from[d], msgs, skipped[d])
      BY <3>1, NothingLostIsWhole DEF Inv
    <3> QED
      BY <3>1, <3>2, <2>1 DEF Whole, Sorted, Has
  <2> QED
    BY <2>2, <2>3
<1> QED
  BY <1>1, <1>5, <1>6, <1>7 DEF Inv, CrashOnlyByReporter

LEMMA InvReport == ASSUME Inv, NEW c \in Conns, Report(c), crash = "none" PROVE Inv'
<1> USE DEF Report
<1>1. CASE c \in closed \/ ~HasRoom(c)
  <2>1. UNCHANGED <<chan, connections, closed, pc, left, msgs, history>>
        /\ crash' \in {"none", "reporter"}
    BY <1>1
  <2>2. TypeOK'
    BY <2>1 DEF Inv, TypeOK, history
  <2>3. pc[c] # "none" /\ \A d \in Conns : d # c => reporter'[d] = reporter[d]
    BY DEF Inv, TypeOK, Fresh
  <2> QED
    BY <2>1, <2>2, <2>3, InvQuiet DEF Inv, Open
<1>2. CASE c \notin closed /\ HasRoom(c)
  <2>1. /\ chan' = [chan EXCEPT ![c] = Append(@, Status)]
        /\ UNCHANGED <<crash, connections, closed, pc, left, msgs, history>>
    BY <1>2
  <2>2. /\ chan[c] \in Seq(Messages) /\ got[c] \in Seq(Messages)
        /\ Status \in Messages
    BY DEF Inv, TypeOK, Messages
  <2>3. chan'[c] = Append(chan[c], Status) /\ \A d \in Conns : d # c => chan'[d] = chan[d]
    BY <2>1 DEF Inv, TypeOK
  <2>4. Append(chan[c], Status) \in Seq(Messages)
        /\ Len(Append(chan[c], Status)) = Len(chan[c]) + 1 /\ Len(chan[c]) \in Nat
    BY <2>2, AppendFacts
  <2>5. TypeOK'
    <3>1. chan' \in [Conns -> Seq(Messages)]
      BY <2>1, <2>4 DEF Inv, TypeOK
    <3>2. Len(chan'[c]) <= BufSize
      <4>1. Len(chan[c]) < BufSize
        BY <1>2 DEF HasRoom
      <4> QED
        BY <4>1, <2>3, <2>4
    <3>3. \A d \in Conns : Len(chan'[d]) <= BufSize
      BY <2>3, <3>2 DEF Inv, TypeOK
    <3> QED
      BY <3>1, <3>3, <2>1 DEF Inv, TypeOK, history
  <2>6. pc[c] # "none"
    BY DEF Inv, Fresh
  <2>7. Fresh'
    <3>1. \A d \in Conns : d # c => reporter'[d] = reporter[d]
      BY DEF Inv, TypeOK
    <3> QED
      BY <3>1, <2>1, <2>3, <2>6 DEF Inv, Fresh, history
  <2>8. Open'
    BY <2>1 DEF Inv, Open, history
  <2>9. NothingLost'
    <3> SUFFICES ASSUME NEW d \in connections'
                 PROVE  Whole(Taken(d), from[d], msgs, skipped[d])'
      BY DEF NothingLost, Whole, Sorted, InOrder, Has, Had
    <3>1. d \in connections /\ d \in Conns /\ UNCHANGED <<from, skipped, msgs>>
      BY <2>1 DEF Inv, TypeOK, history
    <3>2. Whole(Taken(d), from[d], msgs, skipped[d])
      BY <3>1, NothingLostIsWhole DEF Inv
    <3>3. CASE d # c
      <4>1. Taken(d)' = Taken(d)
        BY <3>1, <3>3, <2>1, <2>3 DEF Taken, history
      <4> QED
        BY <4>1, <3>1, <3>2 DEF Whole, Sorted, Has
    <3>4. CASE d = c
      <4>0. /\ got[c] \o chan[c] \in Seq(Messages)
            /\ got[c] \o Append(chan[c], Status) = Append(got[c] \o chan[c], Status)
        <5> DEFINE g == got[c]
                   q == chan[c]
                   M == Messages
        <5>1. g \in Seq(M) /\ q \in Seq(M) /\ Status \in M
          BY <2>2
        <5> HIDE DEF g, q, M
        <5>2. g \o q \in Seq(M) /\ g \o Append(q, Status) = Append(g \o q, Status)
          BY <5>1
        <5> QED
          BY <5>2 DEF g, q, M
      <4>1. Taken(c) \in Seq(Messages) /\ Taken(c)' = Append(Taken(c), Status)
        BY <4>0, <2>1, <2>3 DEF Taken, history
      <4>2. Whole(Append(Taken(c), Status), from[c], msgs, skipped[c])
        BY <3>2, <3>4, <4>1, WholeStatus DEF Inv, TypeOK
      <4> QED
        BY <4>1, <4>2, <3>1, <3>4 DEF Whole, Sorted, Has
    <3> QED
      BY <3>3, <3>4
  <2> QED
    BY <2>1, <2>5, <2>7, <2>8, <2>9 DEF Inv, CrashOnlyByReporter
<1> QED
  BY <1>1, <1>2

LEMMA InvDeliver == ASSUME Inv, NEW c \in Conns, Deliver(c), crash = "none" PROVE Inv'
<1> USE DEF Deliver
<1>1. PICK next \in {"loop", "leaving"} : pc' = [pc EXCEPT ![c] = next]
  OBVIOUS
<1>2. next \in {"loop", "leaving"}
  BY <1>1
<1>3. /\ chan[c] \in Seq(Messages) /\ got[c] \in Seq(Messages) /\ chan[c] # <<>>
      /\ UNCHANGED <<connections, closed, reporter, left, msgs, crash, from, skipped>>
  BY DEF Inv, TypeOK
<1>4. /\ chan'[c] = Tail(chan[c]) /\ got'[c] = Append(got[c], Head(chan[c]))
      /\ \A d \in Conns : d # c => chan'[d] = chan[d] /\ got'[d] = got[d]
  BY DEF Inv, TypeOK
<1>5. /\ Append(got[c], Head(chan[c])) \in Seq(Messages) /\ Tail(chan[c]) \in Seq(Messages)
      /\ Len(Tail(chan[c])) = Len(chan[c]) - 1 /\ Len(chan[c]) \in Nat
      /\ Append(got[c], Head(chan[c])) \o Tail(chan[c]) = got[c] \o chan[c]
  <2> DEFINE g == got[c]
             q == chan[c]
             M == Messages
  <2>1. g \in Seq(M) /\ q \in Seq(M) /\ q # <<>>
    BY <1>3
  <2> HIDE DEF g, q, M
  <2>2. /\ Append(g, Head(q)) \in Seq(M) /\ Tail(q) \in Seq(M)
        /\ Len(Tail(q)) = Len(q) - 1 /\ Len(q) \in Nat
        /\ Append(g, Head(q)) \o Tail(q) = g \o q
    BY <2>1
  <2> QED
    BY <2>2 DEF g, q, M
<1>6. pc[c] = "loop" /\ pc'[c] = next /\ \A d \in Conns : d # c => pc'[d] = pc[d]
  BY <1>1 DEF Inv, TypeOK
<1>7. TypeOK'
  <2>1. /\ chan' \in [Conns -> Seq(Messages)] /\ got' \in [Conns -> Seq(Messages)]
    BY <1>5 DEF Inv, TypeOK
  <2>2. \A d \in Conns : Len(chan'[d]) <= BufSize
    <3>1. Len(chan[c]) <= BufSize
      BY DEF Inv, TypeOK
    <3>2. Len(chan'[c]) <= BufSize
      BY <3>1, <1>4, <1>5
    <3> QED
      BY <1>4, <3>2 DEF Inv, TypeOK
  <2>3. pc' \in [Conns -> {"none", "greet", "loop", "leaving", "closing", "gone"}]
    BY <1>1, <1>2 DEF Inv, TypeOK
  <2> QED
    BY <2>1, <2>2, <2>3, <1>3 DEF Inv, TypeOK
<1>8. Fresh'
  BY <1>2, <1>3, <1>4, <1>6 DEF Inv, Fresh
<1>9. Open'
  BY <1>2, <1>3, <1>6 DEF Inv, Open, TypeOK
<1>10. \A d \in Conns : Taken(d)' = Taken(d)
  BY <1>4, <1>5 DEF Taken
<1>11. NothingLost'
  <2> SUFFICES ASSUME NEW d \in connections'
               PROVE  Whole(Taken(d), from[d], msgs, skipped[d])'
    BY DEF NothingLost, Whole, Sorted, InOrder, Has, Had
  <2>1. d \in connections /\ Taken(d)' = Taken(d)
    BY <1>3, <1>10 DEF Inv, TypeOK
  <2>2. Whole(Taken(d), from[d], msgs, skipped[d])
    BY <2>1, NothingLostIsWhole DEF Inv
  <2> QED
    BY <2>1, <2>2, <1>3 DEF Whole, Sorted, Has
<1> QED
  BY <1>7, <1>8, <1>9, <1>11, <1>3 DEF Inv, CrashOnlyByReporter

LEMMA InvBroadcast == ASSUME Inv, BroadcastMessage, crash = "none" PROVE Inv'
<1> DEFINE given(c) == c \in connections /\ HasRoom(c)
           missed(c) == c \in connections /\ ~HasRoom(c)
<1>1. connections \cap closed = {}
  BY DEF Inv, Open
<1>2. /\ chan' = [c \in Conns |-> IF given(c) THEN Append(chan[c], msgs + 1) ELSE chan[c]]
      /\ skipped' = [c \in Conns |-> IF missed(c) THEN skipped[c] \cup {msgs + 1}
                                     ELSE skipped[c]]
      /\ msgs < MaxMsgs /\ msgs' = msgs + 1 /\ msgs \in Nat
      /\ UNCHANGED <<connections, closed, pc, reporter, left, crash, from, got>>
  BY <1>1 DEF BroadcastMessage, Inv, TypeOK
<1>3. msgs + 1 \in 1 .. MaxMsgs /\ msgs + 1 \in Messages
  BY <1>2 DEF Messages
<1>4. \A c \in Conns :
         /\ chan[c] \in Seq(Messages) /\ got[c] \in Seq(Messages)
         /\ Append(chan[c], msgs + 1) \in Seq(Messages)
         /\ Len(Append(chan[c], msgs + 1)) = Len(chan[c]) + 1 /\ Len(chan[c]) \in Nat
  <2> TAKE c \in Conns
  <2>1. chan[c] \in Seq(Messages) /\ got[c] \in Seq(Messages)
    BY DEF Inv, TypeOK
  <2> QED
    BY <2>1, <1>3, AppendFacts
<1>5. TypeOK'
  <2>1. chan' \in [Conns -> Seq(Messages)]
    BY <1>2, <1>4
  <2>2. \A c \in Conns : Len(chan'[c]) <= BufSize
    <3> TAKE c \in Conns
    <3>1. CASE given(c)
      <4>1. Len(chan[c]) < BufSize
        BY <3>1 DEF HasRoom
      <4>2. chan'[c] = Append(chan[c], msgs + 1)
        BY <3>1, <1>2
      <4> QED
        BY <4>1, <4>2, <1>4
    <3>2. CASE ~given(c)
      <4>1. chan'[c] = chan[c]
        BY <3>2, <1>2
      <4> QED
        BY <4>1 DEF Inv, TypeOK
    <3> QED
      BY <3>1, <3>2
  <2>3. skipped' \in [Conns -> SUBSET (1 .. MaxMsgs)]
    <3>1. \A c \in Conns : skipped[c] \in SUBSET (1 .. MaxMsgs)
      BY DEF Inv, TypeOK
    <3> HIDE DEF missed
    <3> QED
      BY <1>2, <1>3, <3>1
  <2>4. msgs' \in 0 .. MaxMsgs
    BY <1>2
  <2> QED
    BY <2>1, <2>2, <2>3, <2>4, <1>2 DEF Inv, TypeOK
<1>6. Fresh'
  BY <1>2 DEF Inv, Fresh
<1>7. Open'
  <2>1. connections \subseteq Conns /\ from \in [Conns -> 0 .. MaxMsgs]
    BY DEF Inv, TypeOK
  <2>2. \A c \in connections : from[c] \in 0 .. MaxMsgs
    BY <2>1
  <2> QED
    BY <2>2, <1>2 DEF Inv, Open
<1>8. NothingLost'
  <2> SUFFICES ASSUME NEW c \in connections'
               PROVE  Whole(Taken(c), from[c], msgs, skipped[c])'
    BY DEF NothingLost, Whole, Sorted, InOrder, Has, Had
  <2>1. /\ c \in connections /\ c \in Conns
        /\ from'[c] = from[c] /\ msgs' = msgs + 1 /\ got'[c] = got[c]
    BY <1>2 DEF Inv, TypeOK
  <2>2. /\ from[c] \in Nat /\ from[c] <= msgs
        /\ skipped[c] \in SUBSET (1 .. MaxMsgs)
        /\ Whole(Taken(c), from[c], msgs, skipped[c])
    BY <2>1, NothingLostIsWhole DEF Inv, TypeOK, Open
  <2>3. CASE HasRoom(c)
    <3>1. chan'[c] = Append(chan[c], msgs + 1) /\ skipped'[c] = skipped[c]
      BY <2>1, <2>3, <1>2
    <3>2. /\ got[c] \o chan[c] \in Seq(Messages)
          /\ got[c] \o Append(chan[c], msgs + 1) = Append(got[c] \o chan[c], msgs + 1)
      <4> DEFINE g == got[c]
                 q == chan[c]
                 m == msgs + 1
                 M == Messages
      <4>1. g \in Seq(M) /\ q \in Seq(M) /\ m \in M
        BY <2>1, <1>3, <1>4
      <4> HIDE DEF g, q, m, M
      <4>2. g \o q \in Seq(M) /\ g \o Append(q, m) = Append(g \o q, m)
        BY <4>1
      <4> QED
        BY <4>2 DEF g, q, m, M
    <3>3. Taken(c) \in Seq(Messages) /\ Taken(c)' = Append(Taken(c), msgs + 1)
      BY <3>1, <3>2, <2>1 DEF Taken
    <3>4. Whole(Append(Taken(c), msgs + 1), from[c], msgs + 1, skipped[c])
      BY <3>3, <2>2, <1>2, WholeAppend
    <3> QED
      BY <3>1, <3>3, <3>4, <2>1 DEF Whole, Sorted, Has
  <2>4. CASE ~HasRoom(c)
    <3>1. chan'[c] = chan[c] /\ skipped'[c] = skipped[c] \cup {msgs + 1}
      BY <2>1, <2>4, <1>2
    <3>2. Taken(c)' = Taken(c)
      BY <3>1, <2>1 DEF Taken
    <3>3. Whole(Taken(c), from[c], msgs + 1, skipped[c] \cup {msgs + 1})
      BY <2>2, <1>2, WholeSkip
    <3> QED
      BY <3>1, <3>2, <3>3, <2>1 DEF Whole, Sorted, Has
  <2> QED
    BY <2>3, <2>4
<1> QED
  BY <1>2, <1>5, <1>6, <1>7, <1>8 DEF Inv, CrashOnlyByReporter

-----------------------------------------------------------------------------
LEMMA InvNext == Inv /\ [Next]_esVars => Inv'
<1> SUFFICES ASSUME Inv, [Next]_esVars PROVE Inv'
  OBVIOUS
<1>1. CASE UNCHANGED esVars
  <2>1. \A c : Taken(c)' = Taken(c)
    BY <1>1 DEF esVars, history, Taken
  <2>2. NothingLost'
    BY <1>1, <2>1 DEF Inv, NothingLost, InOrder, Had, esVars, history
  <2> QED
    BY <1>1, <2>2 DEF Inv, TypeOK, Fresh, Open, CrashOnlyByReporter, esVars, history
<1>2. CASE Next
  <2>1. crash = "none"
    BY <1>2 DEF Next
  <2>2. ASSUME NEW c \in Conns, Connect(c) \/ Serve(c) \/ Report(c) \/ Disconnect(c)
        PROVE  Inv'
    BY <2>1, <2>2, InvConnect, InvGreet, InvDeliver, InvWriteNothing, InvReturn, InvForget,
       InvClose, InvReport, InvDisconnect DEF Serve
  <2> QED
    BY <1>2, <2>1, <2>2, InvBroadcast, InvShutdown DEF Next
<1> QED
  BY <1>1, <1>2

LEMMA Invariance == Spec => []Inv
<1> QED
  BY InvInit, InvNext, PTL DEF Spec

(* The variables keep their types; no channel holds more than fits in it.     *)
THEOREM StreamTypes == Spec => []TypeOK
<1>1. Inv => TypeOK
  BY DEF Inv
<1> QED
  BY <1>1, Invariance, PTL

(* BroadcastMessage never sends on a channel that has been closed, by the     *)
(* handler or by Shutdown.                                                    *)
THEOREM BroadcastsAreSafe == Spec => []CrashOnlyByReporter
<1>1. Inv => CrashOnlyByReporter
  BY DEF Inv
<1> QED
  BY <1>1, Invariance, PTL

(* A registered connection was given every broadcast it had room for, in      *)
(* order and once.                                                            *)
THEOREM NothingLostHolds == Spec => []NothingLost
<1>1. Inv => NothingLost
  BY DEF Inv
<1> QED
  BY <1>1, Invariance, PTL
=============================================================================
