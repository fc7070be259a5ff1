------------------------ MODULE EntityRegistryProofs ------------------------
(* Theorems about EntityRegistry for any sets of IDs, types, sources, rooms   *)
(* and states, and lists of any length; and about EntitySync, which writes    *)
(* that registry, for any requests and editors.                               *)
EXTENDS EntitySync, TLAPS

USE EntityRegistryAssumption

Inv == TypeOK /\ RoomIndexExact /\ KindIndexExact /\ NeverHidden

-----------------------------------------------------------------------------
(* Lists of IDs.                                                              *)

LEMMA AppendList ==
  ASSUME NEW M, NEW s \in Seq(M), NEW x \in M, NEW y
  PROVE  /\ Append(s, x) \in Seq(M)
         /\ Listed(Append(s, x), y) <=> Listed(s, y) \/ y = x
         /\ AtMostOnce(s, y) /\ (y = x => ~Listed(s, y)) => AtMostOnce(Append(s, x), y)
<1> DEFINE t == Append(s, x)
           n == Len(s)
<1>1. n \in Nat /\ DOMAIN s = 1..n
  OBVIOUS
<1>2. t \in Seq(M) /\ DOMAIN t = 1..(n + 1) /\ t[n + 1] = x /\ \A i \in 1..n : t[i] = s[i]
  OBVIOUS
<1> HIDE DEF t, n
<1>3. Listed(t, y) <=> Listed(s, y) \/ y = x
  BY <1>1, <1>2 DEF Listed
<1>4. AtMostOnce(s, y) /\ (y = x => ~Listed(s, y)) => AtMostOnce(t, y)
  BY <1>1, <1>2 DEF AtMostOnce, Listed
<1> QED
  BY <1>2, <1>3, <1>4 DEF t

(* Removal takes out one occurrence of x and keeps those of every other ID.   *)
LEMMA RemoveList ==
  ASSUME NEW M, NEW s \in Seq(M), NEW x, NEW y
  PROVE  /\ removeFromSlice(s, x) \in Seq(M)
         /\ y # x => /\ Listed(removeFromSlice(s, x), y) <=> Listed(s, y)
                     /\ AtMostOnce(s, y) => AtMostOnce(removeFromSlice(s, x), y)
         /\ AtMostOnce(s, x) => ~Listed(removeFromSlice(s, x), x)
<1>1. CASE ~Listed(s, x)
  BY <1>1 DEF removeFromSlice
<1>2. CASE Listed(s, x)
  <2> DEFINE n == Len(s)
             t == removeFromSlice(s, x)
             Passed(k) == \E j \in 1..k : s[j] = x
  <2>1. n \in Nat /\ DOMAIN s = 1..n /\ \A i \in 1..n : s[i] \in M
    OBVIOUS
  <2>2. PICK p \in 1..n : s[p] = x
    BY <1>2, <2>1 DEF Listed
  <2>3. t = [k \in 1..(n - 1) |-> IF Passed(k) THEN s[k + 1] ELSE s[k]]
    BY <1>2 DEF removeFromSlice
  <2>4. DOMAIN t = 1..(n - 1) /\ \A k \in 1..(n - 1) : t[k] = IF Passed(k) THEN s[k + 1] ELSE s[k]
    BY <2>3
  <2>5. t \in Seq(M)
    <3>1. n - 1 \in Nat
      BY <2>1, <2>2
    <3>2. \A k \in 1..(n - 1) : t[k] \in M
      BY <2>1, <2>4
    <3>3. t \in [1..(n - 1) -> M]
      BY <2>3, <3>2, <2>4
    <3> HIDE DEF t, n
    <3> QED
      BY <3>1, <3>3
  <2> HIDE DEF t, n
  <2>6. ASSUME y # x PROVE Listed(t, y) <=> Listed(s, y)
    <3>1. ASSUME Listed(t, y) PROVE Listed(s, y)
      BY <3>1, <2>1, <2>4 DEF Listed
    <3>2. ASSUME NEW m \in 1..n, s[m] = y PROVE Listed(t, y)
      <4>1. CASE Passed(m)
        <5>1. m - 1 \in 1..(n - 1) /\ Passed(m - 1)
          BY <4>1, <3>2, <2>6, <2>1
        <5>2. t[m - 1] = y
          BY <5>1, <2>4, <3>2, <2>1
        <5> QED
          BY <5>1, <5>2, <2>4 DEF Listed
      <4>2. CASE ~Passed(m)
        <5>1. m \in 1..(n - 1)
          BY <4>2, <2>2, <2>1
        <5>2. t[m] = y
          BY <5>1, <4>2, <2>4, <3>2
        <5> QED
          BY <5>1, <5>2, <2>4 DEF Listed
      <4> QED
        BY <4>1, <4>2
    <3> QED
      BY <3>1, <3>2, <2>1 DEF Listed
  <2>7. ASSUME y # x, AtMostOnce(s, y) PROVE AtMostOnce(t, y)
    <3> SUFFICES ASSUME NEW i \in 1..(n - 1), NEW j \in 1..(n - 1), t[i] = y, t[j] = y
                 PROVE  i = j
      BY <2>4 DEF AtMostOnce
    <3> DEFINE Old(k) == IF Passed(k) THEN k + 1 ELSE k
    <3>1. \A k \in 1..(n - 1) : Old(k) \in 1..n /\ t[k] = s[Old(k)]
      BY <2>1, <2>4
    <3>2. Old(i) = Old(j)
      BY <3>1, <2>7, <2>1 DEF AtMostOnce
    <3>3. ASSUME NEW k \in 1..(n - 1), NEW l \in 1..(n - 1), k < l, Old(k) = Old(l)
          PROVE  s[Old(k)] = x
      <4>1. Passed(k) /\ ~Passed(l)
        BY <3>3, <2>1
      <4> QED
        BY <4>1, <3>3, <2>1
    <3>4. ~(i < j) /\ ~(j < i)
      BY <3>1, <3>2, <3>3, <2>7
    <3> QED
      BY <3>4, <2>1
  <2>8. ASSUME AtMostOnce(s, x) PROVE ~Listed(t, x)
    <3> SUFFICES ASSUME NEW k \in 1..(n - 1), t[k] = x PROVE FALSE
      BY <2>4 DEF Listed
    <3>1. CASE Passed(k)
      <4>1. s[k + 1] = x /\ k + 1 \in 1..n
        BY <3>1, <2>4, <2>1
      <4>2. PICK j \in 1..k : s[j] = x
        BY <3>1
      <4> QED
        BY <4>1, <4>2, <2>8, <2>1 DEF AtMostOnce
    <3>2. CASE ~Passed(k)
      BY <3>2, <2>4, <2>1
    <3> QED
      BY <3>1, <3>2
  <2> QED
    BY <2>5, <2>6, <2>7, <2>8 DEF t
<1> QED
  BY <1>1, <1>2

-----------------------------------------------------------------------------
(* Indexes of lists of IDs: one list changes.                                 *)

LEMMA AddIndex ==
  ASSUME NEW K, NEW index \in [K -> Seq(Ids)], NEW k \in K, NEW x \in Ids
  PROVE  /\ Add(index, k, x) \in [K -> Seq(Ids)]
         /\ \A l \in K : Add(index, k, x)[l] = IF l = k THEN Append(index[l], x) ELSE index[l]
<1>1. Append(index[k], x) \in Seq(Ids)
  BY AppendList
<1>2. Add(index, k, x) \in [K -> Seq(Ids)]
  BY <1>1 DEF Add
<1>3. \A l \in K : Add(index, k, x)[l] = IF l = k THEN Append(index[l], x) ELSE index[l]
  BY DEF Add
<1> QED
  BY <1>2, <1>3

LEMMA DropIndex ==
  ASSUME NEW K, NEW index \in [K -> Seq(Ids)], NEW k \in K, NEW x \in Ids
  PROVE  /\ Drop(index, k, x) \in [K -> Seq(Ids)]
         /\ \A l \in K : Drop(index, k, x)[l] = IF l = k THEN removeFromSlice(index[l], x) ELSE index[l]
<1>1. removeFromSlice(index[k], x) \in Seq(Ids)
  BY RemoveList
<1>2. Drop(index, k, x) \in [K -> Seq(Ids)]
  BY <1>1 DEF Drop
<1>3. \A l \in K : Drop(index, k, x)[l] = IF l = k THEN removeFromSlice(index[l], x) ELSE index[l]
  BY DEF Drop
<1> QED
  BY <1>2, <1>3

LEMMA RoomAdd ==
  ASSUME NEW index \in [Rooms -> Seq(Ids)], NEW room \in Rooms \cup {NoRoom}, NEW x \in Ids
  PROVE  /\ AddToRoom(index, room, x) \in [Rooms -> Seq(Ids)]
         /\ \A r \in Rooms :
               AddToRoom(index, room, x)[r] = IF r = room THEN Append(index[r], x) ELSE index[r]
<1>1. CASE room = NoRoom
  BY <1>1 DEF AddToRoom
<1>2. CASE room \in Rooms
  BY <1>2, AddIndex DEF AddToRoom
<1> QED
  BY <1>1, <1>2

LEMMA RoomDrop ==
  ASSUME NEW index \in [Rooms -> Seq(Ids)], NEW room \in Rooms \cup {NoRoom}, NEW x \in Ids
  PROVE  /\ DropFromRoom(index, room, x) \in [Rooms -> Seq(Ids)]
         /\ \A r \in Rooms :
               DropFromRoom(index, room, x)[r]
                  = IF r = room THEN removeFromSlice(index[r], x) ELSE index[r]
<1>1. CASE room = NoRoom
  BY <1>1 DEF DropFromRoom
<1>2. CASE room \in Rooms
  BY <1>2, DropIndex DEF DropFromRoom
<1> QED
  BY <1>1, <1>2

-----------------------------------------------------------------------------
LEMMA InvInit == Init => Inv
<1> SUFFICES ASSUME Init PROVE Inv
  OBVIOUS
<1>1. << >> \in Seq(Ids)
  OBVIOUS
<1>2. \A id : ~Listed(<< >>, id) /\ AtMostOnce(<< >>, id)
  BY DEF Listed, AtMostOnce
<1>3. \A id \in Ids : ~Registered(id)
  BY DEF Init, Registered
<1>4. TypeOK
  BY <1>1 DEF Init, TypeOK
<1>5. RoomIndexExact
  BY <1>2, <1>3 DEF Init, RoomIndexExact, Exact
<1>6. KindIndexExact
  BY <1>2, <1>3 DEF Init, KindIndexExact, Exact
<1>7. NeverHidden
  BY <1>3 DEF NeverHidden
<1> QED
  BY <1>4, <1>5, <1>6, <1>7 DEF Inv

LEMMA InvRegisterNew ==
  ASSUME Inv, NEW id \in Ids, NEW e \in Entity, RegisterNew(id, e)
  PROVE  Inv'
<1> USE DEF Inv
<1>1. /\ e.type \in Types /\ e.source \in Sources /\ e.room \in Rooms \cup {NoRoom}
      /\ e # None /\ entities[id] = None
  BY DEF Entity, RegisterNew, Registered
<1>2. /\ byType \in [Types -> Seq(Ids)] /\ bySource \in [Sources -> Seq(Ids)]
      /\ byRoom \in [Rooms -> Seq(Ids)]
  BY DEF TypeOK
<1>3. /\ byType' = Add(byType, e.type, id) /\ bySource' = Add(bySource, e.source, id)
      /\ byRoom' = AddToRoom(byRoom, e.room, id) /\ moved' = moved
      /\ entities' = [entities EXCEPT ![id] = e]
  BY DEF RegisterNew
<1>4. entities'[id] = e /\ \A y \in Ids : y # id => entities'[y] = entities[y]
  BY <1>3 DEF TypeOK
<1>5. ASSUME NEW t \in Types, NEW y \in Ids
      PROVE  LET l == byType[t]
                 m == byType'[t]
             IN  /\ Listed(m, y) <=> Listed(l, y) \/ (t = e.type /\ y = id)
                 /\ AtMostOnce(l, y) /\ (t = e.type /\ y = id => ~Listed(l, y)) => AtMostOnce(m, y)
  <2>1. byType'[t] = IF t = e.type THEN Append(byType[t], id) ELSE byType[t]
    <3>1. Add(byType, e.type, id)[t] = IF t = e.type THEN Append(byType[t], id) ELSE byType[t]
      BY <1>1, <1>2 DEF Add
    <3> QED
      BY <1>3, <3>1
  <2>2. byType[t] \in Seq(Ids)
    BY <1>2
  <2> QED
    BY <2>1, <2>2, AppendList
<1>6. ASSUME NEW s \in Sources, NEW y \in Ids
      PROVE  LET l == bySource[s]
                 m == bySource'[s]
             IN  /\ Listed(m, y) <=> Listed(l, y) \/ (s = e.source /\ y = id)
                 /\ AtMostOnce(l, y) /\ (s = e.source /\ y = id => ~Listed(l, y)) => AtMostOnce(m, y)
  <2>1. bySource'[s] = IF s = e.source THEN Append(bySource[s], id) ELSE bySource[s]
    <3>1. Add(bySource, e.source, id)[s] = IF s = e.source THEN Append(bySource[s], id) ELSE bySource[s]
      BY <1>1, <1>2 DEF Add
    <3> QED
      BY <1>3, <3>1
  <2>2. bySource[s] \in Seq(Ids)
    BY <1>2
  <2> QED
    BY <2>1, <2>2, AppendList
<1>7. ASSUME NEW r \in Rooms, NEW y \in Ids
      PROVE  LET l == byRoom[r]
                 m == byRoom'[r]
             IN  /\ Listed(m, y) <=> Listed(l, y) \/ (r = e.room /\ y = id)
                 /\ AtMostOnce(l, y) /\ (r = e.room /\ y = id => ~Listed(l, y)) => AtMostOnce(m, y)
  <2>1. byRoom'[r] = IF r = e.room THEN Append(byRoom[r], id) ELSE byRoom[r]
    BY <1>1, <1>2, <1>3, RoomAdd
  <2>2. byRoom[r] \in Seq(Ids)
    BY <1>2
  <2> QED
    BY <2>1, <2>2, AppendList
<1>8. TypeOK'
  <2>1. byType' \in [Types -> Seq(Ids)]
    BY <1>1, <1>2, <1>3, AddIndex
  <2>2. bySource' \in [Sources -> Seq(Ids)]
    BY <1>1, <1>2, <1>3, AddIndex
  <2>3. byRoom' \in [Rooms -> Seq(Ids)]
    BY <1>1, <1>2, <1>3, RoomAdd
  <2>4. entities' \in [Ids -> Entity \cup {None}]
    BY <1>3 DEF TypeOK
  <2> QED
    BY <2>1, <2>2, <2>3, <2>4, <1>3 DEF TypeOK
<1>9. RoomIndexExact'
  <2> SUFFICES ASSUME NEW r \in Rooms, NEW y \in Ids
               PROVE  Exact(byRoom'[r], y, entities'[y] # None /\ entities'[y].room = r)
    BY DEF RoomIndexExact, Registered
  <2>1. Exact(byRoom[r], y, entities[y] # None /\ entities[y].room = r)
    BY DEF RoomIndexExact, Registered
  <2> QED
    BY <1>1, <1>4, <1>7, <2>1 DEF Exact
<1>10. KindIndexExact'
  <2> SUFFICES ASSUME NEW y \in Ids \ moved
               PROVE  /\ \A t \in Types :
                            Exact(byType'[t], y, entities'[y] # None /\ entities'[y].type = t)
                      /\ \A s \in Sources :
                            Exact(bySource'[s], y, entities'[y] # None /\ entities'[y].source = s)
    BY <1>3 DEF KindIndexExact, Registered
  <2>1. ASSUME NEW t \in Types
        PROVE  Exact(byType'[t], y, entities'[y] # None /\ entities'[y].type = t)
    <3>1. Exact(byType[t], y, entities[y] # None /\ entities[y].type = t)
      BY DEF KindIndexExact, Registered
    <3> QED
      BY <1>1, <1>4, <1>5, <3>1 DEF Exact
  <2>2. ASSUME NEW s \in Sources
        PROVE  Exact(bySource'[s], y, entities'[y] # None /\ entities'[y].source = s)
    <3>1. Exact(bySource[s], y, entities[y] # None /\ entities[y].source = s)
      BY DEF KindIndexExact, Registered
    <3> QED
      BY <1>1, <1>4, <1>6, <3>1 DEF Exact
  <2> QED
    BY <2>1, <2>2
<1>11. NeverHidden'
  <2> SUFFICES ASSUME NEW y \in Ids, entities'[y] # None
               PROVE  /\ \E t \in Types : Listed(byType'[t], y)
                      /\ \E s \in Sources : Listed(bySource'[s], y)
    BY DEF NeverHidden, Registered, Query
  <2>1. CASE y = id
    BY <1>1, <1>5, <1>6, <2>1
  <2>2. CASE y # id
    <3>1. /\ \E t \in Types : Listed(byType[t], y)
          /\ \E s \in Sources : Listed(bySource[s], y)
      BY <1>4, <2>2 DEF NeverHidden, Registered, Query
    <3> QED
      BY <1>5, <1>6, <3>1
  <2> QED
    BY <2>1, <2>2
<1> QED
  BY <1>8, <1>9, <1>10, <1>11

(* An update moves the ID between two rooms and leaves the other indexes.     *)
LEMMA InvUpdate ==
  ASSUME Inv, NEW id \in Ids, NEW e \in Entity, Registered(id), updateEntityInternal(id, e)
  PROVE  Inv'
<1> USE DEF Inv
<1> DEFINE d == entities[id]
           mid == DropFromRoom(byRoom, d.room, id)
<1>1. /\ e.room \in Rooms \cup {NoRoom} /\ d.room \in Rooms \cup {NoRoom}
      /\ e # None /\ d # None
  BY DEF Entity, TypeOK, Registered
<1>2. byRoom \in [Rooms -> Seq(Ids)] /\ entities \in [Ids -> Entity \cup {None}]
  BY DEF TypeOK
<1>3. /\ byRoom' = Reindex(byRoom, d.room, e.room, id)
      /\ entities' = [entities EXCEPT ![id] = e]
      /\ moved' = (IF e.type = d.type /\ e.source = d.source THEN moved ELSE moved \cup {id})
      /\ byType' = byType /\ bySource' = bySource
  BY DEF updateEntityInternal
<1>4. entities'[id] = e /\ \A y \in Ids : y # id => entities'[y] = entities[y]
  BY <1>2, <1>3
<1>5. mid \in [Rooms -> Seq(Ids)]
  BY <1>1, <1>2, RoomDrop
<1>6. ASSUME NEW r \in Rooms, NEW y \in Ids
      PROVE  LET l == byRoom[r]
                 m == mid[r]
             IN  /\ r # d.room \/ y # id => (Listed(m, y) <=> Listed(l, y))
                 /\ r # d.room \/ y # id => (AtMostOnce(l, y) => AtMostOnce(m, y))
                 /\ r = d.room /\ y = id /\ AtMostOnce(l, y) => ~Listed(m, y) /\ AtMostOnce(m, y)
  <2>1. mid[r] = IF r = d.room THEN removeFromSlice(byRoom[r], id) ELSE byRoom[r]
    BY <1>1, <1>2, RoomDrop
  <2>2. byRoom[r] \in Seq(Ids)
    BY <1>2
  <2>3. \A l : ~Listed(l, id) => AtMostOnce(l, id)
    BY DEF Listed, AtMostOnce
  <2> HIDE DEF mid, d
  <2> QED
    BY <2>1, <2>2, <2>3, RemoveList
<1>7. ASSUME NEW r \in Rooms, NEW y \in Ids
      PROVE  LET l == mid[r]
                 m == AddToRoom(mid, e.room, id)[r]
             IN  /\ Listed(m, y) <=> Listed(l, y) \/ (r = e.room /\ y = id)
                 /\ AtMostOnce(l, y) /\ (r = e.room /\ y = id => ~Listed(l, y)) => AtMostOnce(m, y)
  <2> HIDE DEF mid
  <2>1. AddToRoom(mid, e.room, id)[r] = IF r = e.room THEN Append(mid[r], id) ELSE mid[r]
    BY <1>1, <1>5, RoomAdd
  <2>2. mid[r] \in Seq(Ids)
    BY <1>5
  <2> QED
    BY <2>1, <2>2, AppendList
<1>8. TypeOK'
  <2>1. byRoom' \in [Rooms -> Seq(Ids)]
    <3>1. AddToRoom(mid, e.room, id) \in [Rooms -> Seq(Ids)]
      <4> HIDE DEF mid
      <4> QED
        BY <1>1, <1>5, RoomAdd
    <3> QED
      BY <1>2, <1>3, <3>1 DEF Reindex
  <2>2. entities' \in [Ids -> Entity \cup {None}]
    BY <1>2, <1>3
  <2>3. moved' \subseteq Ids
    BY <1>3 DEF TypeOK
  <2> QED
    BY <2>1, <2>2, <2>3, <1>3 DEF TypeOK
<1>9. RoomIndexExact'
  <2> SUFFICES ASSUME NEW r \in Rooms, NEW y \in Ids
               PROVE  Exact(byRoom'[r], y, entities'[y] # None /\ entities'[y].room = r)
    BY DEF RoomIndexExact, Registered
  <2>1. Exact(byRoom[r], y, entities[y] # None /\ entities[y].room = r)
    BY DEF RoomIndexExact, Registered
  <2>2. CASE d.room = e.room
    <3>1. byRoom' = byRoom
      BY <1>3, <2>2 DEF Reindex
    <3> QED
      BY <1>1, <1>4, <2>1, <2>2, <3>1 DEF Exact
  <2>3. CASE d.room # e.room
    <3>1. byRoom' = AddToRoom(mid, e.room, id)
      BY <1>3, <2>3 DEF Reindex
    <3>2. y = id => ~Listed(mid[r], y) /\ AtMostOnce(mid[r], y)
      <4> HIDE DEF mid
      <4> QED
        BY <1>6, <2>1 DEF Exact
    <3>3. y # id => Exact(mid[r], y, entities[y] # None /\ entities[y].room = r)
      <4> HIDE DEF mid
      <4> QED
        BY <1>6, <2>1 DEF Exact
    <3> HIDE DEF mid, d
    <3> QED
      BY <1>1, <1>4, <1>7, <3>1, <3>2, <3>3 DEF Exact
  <2> QED
    BY <2>2, <2>3
<1>10. KindIndexExact'
  <2> SUFFICES ASSUME NEW y \in Ids \ moved'
               PROVE  /\ \A t \in Types :
                            Exact(byType'[t], y, entities'[y] # None /\ entities'[y].type = t)
                      /\ \A s \in Sources :
                            Exact(bySource'[s], y, entities'[y] # None /\ entities'[y].source = s)
    BY DEF KindIndexExact, Registered
  <2>1. y \in Ids \ moved
    BY <1>3
  <2>2. /\ entities'[y].type = entities[y].type /\ entities'[y].source = entities[y].source
        /\ entities'[y] # None <=> entities[y] # None
    BY <1>1, <1>3, <1>4
  <2>3. /\ \A t \in Types : Exact(byType[t], y, entities[y] # None /\ entities[y].type = t)
        /\ \A s \in Sources : Exact(bySource[s], y, entities[y] # None /\ entities[y].source = s)
    BY <2>1 DEF KindIndexExact, Registered
  <2> QED
    BY <1>3, <2>2, <2>3 DEF Exact
<1>11. NeverHidden'
  <2>1. \A y \in Ids : entities'[y] # None => entities[y] # None
    BY <1>1, <1>4
  <2> QED
    BY <1>3, <2>1 DEF NeverHidden, Registered, Query
<1> QED
  BY <1>8, <1>9, <1>10, <1>11

LEMMA InvUnregister ==
  ASSUME Inv, NEW id \in Ids, UnregisterEntity(id)
  PROVE  Inv'
<1> USE DEF Inv
<1> DEFINE d == entities[id]
<1>1. /\ d.type \in Types /\ d.source \in Sources /\ d.room \in Rooms \cup {NoRoom}
      /\ d # None
  BY DEF Entity, TypeOK, Registered, UnregisterEntity
<1>2. /\ byType \in [Types -> Seq(Ids)] /\ bySource \in [Sources -> Seq(Ids)]
      /\ byRoom \in [Rooms -> Seq(Ids)]
  BY DEF TypeOK
<1>3. /\ byType' = Drop(byType, d.type, id) /\ bySource' = Drop(bySource, d.source, id)
      /\ byRoom' = DropFromRoom(byRoom, d.room, id) /\ moved' = moved
      /\ entities' = [entities EXCEPT ![id] = None]
  BY DEF UnregisterEntity
<1>4. entities'[id] = None /\ \A y \in Ids : y # id => entities'[y] = entities[y]
  BY <1>3 DEF TypeOK
<1> HIDE DEF d
<1>5. ASSUME NEW t \in Types, NEW y \in Ids
      PROVE  LET l == byType[t]
                 m == byType'[t]
             IN  /\ t # d.type \/ y # id => (Listed(m, y) <=> Listed(l, y))
                 /\ t # d.type \/ y # id => (AtMostOnce(l, y) => AtMostOnce(m, y))
                 /\ t = d.type /\ y = id /\ AtMostOnce(l, y) => ~Listed(m, y) /\ AtMostOnce(m, y)
  <2>1. byType'[t] = IF t = d.type THEN removeFromSlice(byType[t], id) ELSE byType[t]
    <3>1. Drop(byType, d.type, id)[t] = IF t = d.type THEN removeFromSlice(byType[t], id) ELSE byType[t]
      BY <1>1, <1>2 DEF Drop
    <3> QED
      BY <1>3, <3>1
  <2>2. byType[t] \in Seq(Ids)
    BY <1>2
  <2>3. \A l : ~Listed(l, id) => AtMostOnce(l, id)
    BY DEF Listed, AtMostOnce
  <2> QED
    BY <2>1, <2>2, <2>3, RemoveList
<1>6. ASSUME NEW s \in Sources, NEW y \in Ids
      PROVE  LET l == bySource[s]
                 m == bySource'[s]
             IN  /\ s # d.source \/ y # id => (Listed(m, y) <=> Listed(l, y))
                 /\ s # d.source \/ y # id => (AtMostOnce(l, y) => AtMostOnce(m, y))
                 /\ s = d.source /\ y = id /\ AtMostOnce(l, y) => ~Listed(m, y) /\ AtMostOnce(m, y)
  <2>1. bySource'[s] = IF s = d.source THEN removeFromSlice(bySource[s], id) ELSE bySource[s]
    <3>1. Drop(bySource, d.source, id)[s] = IF s = d.source THEN removeFromSlice(bySource[s], id) ELSE bySource[s]
      BY <1>1, <1>2 DEF Drop
    <3> QED
      BY <1>3, <3>1
  <2>2. bySource[s] \in Seq(Ids)
    BY <1>2
  <2>3. \A l : ~Listed(l, id) => AtMostOnce(l, id)
    BY DEF Listed, AtMostOnce
  <2> QED
    BY <2>1, <2>2, <2>3, RemoveList
<1>7. ASSUME NEW r \in Rooms, NEW y \in Ids
      PROVE  LET l == byRoom[r]
                 m == byRoom'[r]
             IN  /\ r # d.room \/ y # id => (Listed(m, y) <=> Listed(l, y))
                 /\ r # d.room \/ y # id => (AtMostOnce(l, y) => AtMostOnce(m, y))
                 /\ r = d.room /\ y = id /\ AtMostOnce(l, y) => ~Listed(m, y) /\ AtMostOnce(m, y)
  <2>1. byRoom'[r] = IF r = d.room THEN removeFromSlice(byRoom[r], id) ELSE byRoom[r]
    BY <1>1, <1>2, <1>3, RoomDrop
  <2>2. byRoom[r] \in Seq(Ids)
    BY <1>2
  <2>3. \A l : ~Listed(l, id) => AtMostOnce(l, id)
    BY DEF Listed, AtMostOnce
  <2> QED
    BY <2>1, <2>2, <2>3, RemoveList
<1>8. TypeOK'
  <2>1. byType' \in [Types -> Seq(Ids)]
    BY <1>1, <1>2, <1>3, DropIndex
  <2>2. bySource' \in [Sources -> Seq(Ids)]
    BY <1>1, <1>2, <1>3, DropIndex
  <2>3. byRoom' \in [Rooms -> Seq(Ids)]
    BY <1>1, <1>2, <1>3, RoomDrop
  <2>4. entities' \in [Ids -> Entity \cup {None}]
    BY <1>3 DEF TypeOK
  <2> QED
    BY <2>1, <2>2, <2>3, <2>4, <1>3 DEF TypeOK
<1>9. RoomIndexExact'
  <2> SUFFICES ASSUME NEW r \in Rooms, NEW y \in Ids
               PROVE  Exact(byRoom'[r], y, entities'[y] # None /\ entities'[y].room = r)
    BY DEF RoomIndexExact, Registered
  <2>1. Exact(byRoom[r], y, entities[y] # None /\ entities[y].room = r)
    BY DEF RoomIndexExact, Registered
  <2> QED
    BY <1>1, <1>4, <1>7, <2>1 DEF Exact, d
<1>10. KindIndexExact'
  <2> SUFFICES ASSUME NEW y \in Ids \ moved
               PROVE  /\ \A t \in Types :
                            Exact(byType'[t], y, entities'[y] # None /\ entities'[y].type = t)
                      /\ \A s \in Sources :
                            Exact(bySource'[s], y, entities'[y] # None /\ entities'[y].source = s)
    BY <1>3 DEF KindIndexExact, Registered
  <2>1. ASSUME NEW t \in Types
        PROVE  Exact(byType'[t], y, entities'[y] # None /\ entities'[y].type = t)
    <3>1. Exact(byType[t], y, entities[y] # None /\ entities[y].type = t)
      BY DEF KindIndexExact, Registered
    <3> QED
      BY <1>1, <1>4, <1>5, <3>1 DEF Exact, d
  <2>2. ASSUME NEW s \in Sources
        PROVE  Exact(bySource'[s], y, entities'[y] # None /\ entities'[y].source = s)
    <3>1. Exact(bySource[s], y, entities[y] # None /\ entities[y].source = s)
      BY DEF KindIndexExact, Registered
    <3> QED
      BY <1>1, <1>4, <1>6, <3>1 DEF Exact, d
  <2> QED
    BY <2>1, <2>2
<1>11. NeverHidden'
  <2> SUFFICES ASSUME NEW y \in Ids, entities'[y] # None
               PROVE  /\ \E t \in Types : Listed(byType'[t], y)
                      /\ \E s \in Sources : Listed(bySource'[s], y)
    BY DEF NeverHidden, Registered, Query
  <2>1. y # id
    BY <1>4
  <2>2. /\ \E t \in Types : Listed(byType[t], y)
        /\ \E s \in Sources : Listed(bySource[s], y)
    BY <1>4, <2>1 DEF NeverHidden, Registered, Query
  <2> QED
    BY <1>5, <1>6, <2>1, <2>2
<1> QED
  BY <1>8, <1>9, <1>10, <1>11

LEMMA InvStutter == ASSUME Inv, UNCHANGED registryVars PROVE Inv'
  BY DEF Inv, registryVars, TypeOK, RoomIndexExact, KindIndexExact, NeverHidden,
         Registered, Exact, Query

LEMMA InvNext == Inv /\ [Next]_registryVars => Inv'
<1> SUFFICES ASSUME Inv, [Next]_registryVars PROVE Inv'
  OBVIOUS
<1>1. ASSUME NEW id \in Ids, NEW e \in Entity, RegisterEntity(id, e) PROVE Inv'
  <2>1. CASE RegisterNew(id, e)
    BY <2>1, InvRegisterNew
  <2>2. CASE RegisterAgain(id, e)
    BY <2>2, InvUpdate DEF RegisterAgain
  <2>3. CASE RegisterRefused(id, e)
    BY <2>3, InvStutter DEF RegisterRefused
  <2> QED
    BY <1>1, <2>1, <2>2, <2>3 DEF RegisterEntity
<1>2. ASSUME NEW id \in Ids, NEW e \in Entity, UpdateEntity(id, e) PROVE Inv'
  BY <1>2, InvUpdate DEF UpdateEntity
<1>3. ASSUME NEW id \in Ids, UnregisterEntity(id) PROVE Inv'
  BY <1>3, InvUnregister
<1>4. ASSUME NEW id \in Ids, NotFound(id) PROVE Inv'
  BY <1>4, InvStutter DEF NotFound
<1>5. CASE UNCHANGED registryVars
  BY <1>5, InvStutter
<1> QED
  BY <1>1, <1>2, <1>3, <1>4, <1>5 DEF Next

-----------------------------------------------------------------------------
LEMMA InvAlways == Spec => []Inv
  BY InvInit, InvNext, PTL DEF Spec

(* Every list holds IDs and every registered value is an entity.              *)
THEOREM RegistryTypes == Spec => []TypeOK
<1>1. Inv => TypeOK
  BY DEF Inv
<1> QED
  BY InvAlways, <1>1, PTL

(* Whatever operations come in whatever order, a query by room returns the    *)
(* entities of that room, each once.                                          *)
THEOREM RoomIndexCorrect == Spec => []RoomIndexExact
<1>1. Inv => RoomIndexExact
  BY DEF Inv
<1> QED
  BY InvAlways, <1>1, PTL

(* The same for queries by type and by source, for every entity no update has *)
(* given another type or source.                                              *)
THEOREM KindIndexCorrect == Spec => []KindIndexExact
<1>1. Inv => KindIndexExact
  BY DEF Inv
<1> QED
  BY InvAlways, <1>1, PTL

(* No registered entity is absent from every type list or every source list.  *)
THEOREM NothingHidden == Spec => []NeverHidden
<1>1. Inv => NeverHidden
  BY DEF Inv
<1> QED
  BY InvAlways, <1>1, PTL

-----------------------------------------------------------------------------
(* EntitySync.  A process holds a decision exactly between its lookup and its *)
(* write; what it is about to write is an entity of its answer.               *)

USE EntitySyncAssumption

Turns == Ids \X {"register", "update"}

SyncTyped ==
  /\ world \in [Ids -> States \cup {Gone}]
  /\ connected \in BOOLEAN
  /\ pc \in [Procs -> AtWork \cup {"connect", "start", "over", "off", "enter", "select",
                                   "ended", "idle"}]
  /\ ans \in [Syncers -> [Ids -> States \cup {Gone}]]
  /\ todo \in [Syncers -> SUBSET Ids]
  /\ turn \in [Procs -> {NoTurn} \cup Turns]
  /\ ahead \in [Procs -> SUBSET Ids]
  /\ since \in [Procs -> SUBSET Procs]
  /\ overlapped \subseteq Syncers /\ raced \subseteq Syncers
  /\ running \in BOOLEAN /\ ticker \in BOOLEAN /\ token \in BOOLEAN /\ crashed \in BOOLEAN
  /\ changes \in 0 .. MaxChanges /\ edits \in 0 .. MaxEdits
PlacesOK ==
  /\ \A e \in Editors : pc[e] \in {"idle", "stamp", "write"}
  /\ \A p \in Syncers : pc[p] # "write"
  /\ pc[Loop] = "off" \/ pc[Boot] = "over"
TurnsOK ==
  /\ \A p \in Syncers : turn[p] # NoTurn <=> pc[p] = "act"
  /\ \A e \in Editors : turn[e] # NoTurn <=> pc[e] # "idle"
AnswersOK ==
  \A p \in Syncers :
    /\ pc[p] \in {"next", "act"} => \A id \in todo[p] : ans[p][id] # Gone
    /\ pc[p] = "act" => ans[p][turn[p][1]] # Gone
Shape == SyncTyped /\ PlacesOK /\ TurnsOK /\ AnswersOK

LEMMA Places ==
  /\ Boot \in Syncers /\ Loop \in Syncers /\ Boot # Loop
  /\ Requests \subseteq Syncers
  /\ \A p \in Syncers : p \in Procs /\ p \notin Editors
  /\ \A e \in Editors : e \in Procs /\ e \notin Syncers
  /\ \A p \in Procs : p \in Syncers \/ p \in Editors
  BY DEF Syncers, Procs

LEMMA NoTurnIsNone == NoTurn \notin Turns
  BY DEF NoTurn, Turns

LEMMA TurnParts ==
  ASSUME NEW t \in Turns
  PROVE  t[1] \in Ids /\ t[2] \in {"register", "update"}
  BY DEF Turns

LEMMA MakeTurn ==
  ASSUME NEW id \in Ids, NEW d \in {"register", "update"}
  PROVE  <<id, d>> \in Turns /\ <<id, d>>[1] = id /\ <<id, d>>[2] = d
  BY DEF Turns

LEMMA ShapeTypes == Shape /\ TypeOK => SyncTypeOK
<1> SUFFICES ASSUME Shape, TypeOK PROVE SyncTypeOK
  OBVIOUS
<1>1. ASSUME NEW p \in Procs, turn[p] # NoTurn
      PROVE  pc[p] \in {"act", "stamp", "write"} /\ turn[p][2] \in {"register", "update"}
  <2>1. turn[p] \in Turns
    BY <1>1 DEF Shape, SyncTyped
  <2>2. turn[p][2] \in {"register", "update"}
    BY <2>1, TurnParts
  <2>3. pc[p] \in {"act", "stamp", "write"}
    BY <1>1 DEF Shape, TurnsOK, PlacesOK, Procs
  <2> QED
    BY <2>2, <2>3
<1> QED
  BY <1>1 DEF Shape, SyncTyped, SyncTypeOK

LEMMA ShapeInit == SyncInit => Shape
<1> SUFFICES ASSUME SyncInit PROVE Shape
  OBVIOUS
<1> DEFINE initial == CHOOSE s \in States : TRUE
<1>1. initial \in States
  OBVIOUS
<1>2. SyncTyped
  <2>1. world \in [Ids -> {initial, Gone}]
    BY DEF SyncInit
  <2> HIDE DEF initial
  <2>2. world \in [Ids -> States \cup {Gone}]
    BY <1>1, <2>1
  <2>3. pc \in [Procs -> {"connect", "off", "idle"}]
    BY DEF SyncInit
  <2>4. 0 \in 0 .. MaxChanges /\ 0 \in 0 .. MaxEdits
    OBVIOUS
  <2>5. ans \in [Syncers -> [Ids -> States \cup {Gone}]]
    BY DEF SyncInit, NoAnswer
  <2> QED
    BY <2>2, <2>3, <2>4, <2>5 DEF SyncInit, SyncTyped
<1>3. PlacesOK /\ TurnsOK /\ AnswersOK
  BY Places DEF SyncInit, PlacesOK, TurnsOK, AnswersOK, Procs, Syncers
<1> QED
  BY <1>2, <1>3 DEF Shape

(* Steps that move one process between places where it holds no decision, and *)
(* touch neither answers nor decisions.                                       *)
Unheld == {"connect", "start", "enter", "select", "ended", "idle", "fetch", "stamp"}

LEMMA MoveShape ==
  ASSUME Shape, NEW p \in Syncers, NEW to \in Unheld \cup {"over"}, pc[p] \in Unheld,
         pc' = [pc EXCEPT ![p] = to], UNCHANGED <<ans, todo, turn, ahead, since, raced>>,
         SyncTyped'
  PROVE  Shape'
<1>1. p \notin Editors /\ p \in Procs
  BY DEF Procs
<1>2. \A q \in Procs : q # p => pc'[q] = pc[q]
  BY DEF Shape, SyncTyped
<1>3. pc'[p] = to
  BY <1>1 DEF Shape, SyncTyped
<1>4. PlacesOK'
  BY <1>1, <1>2, <1>3, Places DEF Shape, PlacesOK, Unheld
<1>5. TurnsOK'
  BY <1>1, <1>2, <1>3 DEF Shape, TurnsOK, Procs, Unheld
<1>6. AnswersOK'
  BY <1>1, <1>2, <1>3 DEF Shape, AnswersOK, Procs, Unheld
<1> QED
  BY <1>4, <1>5, <1>6 DEF Shape

LEMMA RestIsUnheld ==
  ASSUME NEW p PROVE Rest(p) \in {"start", "enter", "idle"}
  BY DEF Rest

LEMMA OverlapTyped ==
  ASSUME overlapped \subseteq Syncers, NEW p \in Syncers, Overlap(p)
  PROVE  overlapped' \subseteq Syncers
  BY DEF Overlap

LEMMA BeginShape ==
  ASSUME Shape, NEW p \in Syncers, NEW from \in {"idle", "select"}, Begin(p, from),
         UNCHANGED schedVars
  PROVE  Shape'
<1>1. /\ pc[p] \in Unheld /\ pc' = [pc EXCEPT ![p] = "fetch"]
      /\ UNCHANGED <<world, changes, connected, ans, todo, turn, ahead, since, raced, edits,
                     running, ticker, token, crashed>>
  BY DEF Begin, Unheld, worldVars, stampVars, schedVars
<1>2. SyncTyped'
  BY <1>1, OverlapTyped, Places DEF Shape, SyncTyped, Begin, AtWork
<1> QED
  BY <1>1, <1>2, MoveShape DEF Unheld

LEMMA SchedulerShape ==
  ASSUME Shape,
         \/ Connect \/ ConnectFails \/ StartPeriodicSync \/ Enter \/ Tick \/ Stopped
         \/ StopPeriodicSync
  PROVE  Shape'
<1>1. CASE Connect
  <2>1. /\ pc[Boot] \in Unheld /\ pc' = [pc EXCEPT ![Boot] = "fetch"]
        /\ connected' = TRUE /\ Overlap(Boot)
        /\ UNCHANGED <<world, changes, ans, todo, turn, ahead, since, raced, edits,
                       running, ticker, token, crashed>>
    BY <1>1 DEF Connect, Unheld, quiet, worldVars, stampVars, schedVars
  <2>2. SyncTyped'
    BY <2>1, OverlapTyped, Places DEF Shape, SyncTyped, AtWork
  <2> QED
    BY <2>1, <2>2, Places, MoveShape DEF Unheld
<1>2. CASE ConnectFails
  <2>1. /\ pc[Boot] \in Unheld /\ pc' = [pc EXCEPT ![Boot] = "over"]
        /\ UNCHANGED <<world, changes, connected, ans, todo, turn, ahead, since, raced,
                       edits, overlapped, running, ticker, token, crashed>>
    BY <1>2 DEF ConnectFails, Unheld, quiet, worldVars, stampVars, schedVars
  <2>2. SyncTyped'
    BY <2>1, Places DEF Shape, SyncTyped
  <2> QED
    BY <2>1, <2>2, Places, MoveShape DEF Unheld
<1>3. CASE StartPeriodicSync
  <2>1. /\ pc[Boot] = "start" /\ pc' = [pc EXCEPT ![Boot] = "over", ![Loop] = "enter"]
        /\ ticker' = TRUE /\ running' = TRUE
        /\ UNCHANGED <<world, changes, connected, ans, todo, turn, ahead, since, raced,
                       edits, overlapped, token, crashed>>
    BY <1>3 DEF StartPeriodicSync, quiet, worldVars, stampVars
  <2>2. pc[Loop] = "off"
    BY <2>1 DEF Shape, PlacesOK
  <2>3. /\ pc'[Boot] = "over" /\ pc'[Loop] = "enter"
        /\ \A q \in Procs : q \notin {Boot, Loop} => pc'[q] = pc[q]
        /\ pc' \in [Procs -> AtWork \cup {"connect", "start", "over", "off", "enter",
                                        "select", "ended", "idle"}]
    BY <2>1, Places DEF Shape, SyncTyped
  <2>4. SyncTyped'
    BY <2>1, <2>3 DEF Shape, SyncTyped
  <2>5. PlacesOK'
    BY <2>3, Places DEF Shape, PlacesOK
  <2>6. TurnsOK'
    BY <2>1, <2>2, <2>3, Places DEF Shape, TurnsOK
  <2>7. AnswersOK'
    BY <2>1, <2>3, Places DEF Shape, AnswersOK
  <2> QED
    BY <2>4, <2>5, <2>6, <2>7 DEF Shape
<1>4. CASE Enter
  <2>1. PICK to \in {"select", "ended"} : pc' = [pc EXCEPT ![Loop] = to]
    BY <1>4 DEF Enter
  <2>2. /\ pc[Loop] \in Unheld /\ crashed' \in BOOLEAN
        /\ UNCHANGED <<world, changes, connected, ans, todo, turn, ahead, since, raced,
                       edits, overlapped, running, ticker, token>>
    BY <1>4 DEF Enter, Unheld, quiet, worldVars, stampVars
  <2>3. SyncTyped'
    BY <2>1, <2>2, Places DEF Shape, SyncTyped
  <2> QED
    BY <2>1, <2>2, <2>3, Places, MoveShape DEF Unheld
<1>5. CASE Tick
  BY <1>5, Places, BeginShape DEF Tick
<1>6. CASE Stopped
  <2>1. /\ pc[Loop] \in Unheld /\ pc' = [pc EXCEPT ![Loop] = "ended"] /\ token' = FALSE
        /\ UNCHANGED <<world, changes, connected, ans, todo, turn, ahead, since, raced,
                       edits, overlapped, running, ticker, crashed>>
    BY <1>6 DEF Stopped, Unheld, quiet, worldVars, stampVars
  <2>2. SyncTyped'
    BY <2>1, Places DEF Shape, SyncTyped
  <2> QED
    BY <2>1, <2>2, Places, MoveShape DEF Unheld
<1>7. CASE StopPeriodicSync
  BY <1>7 DEF StopPeriodicSync, quiet, worldVars, stampVars, Shape, SyncTyped, PlacesOK,
              TurnsOK, AnswersOK
<1> QED
  BY <1>1, <1>2, <1>3, <1>4, <1>5, <1>6, <1>7

(* What a write does: the registry has the entity written, unless another     *)
(* source's registration refused it; every other decision on that ID that the *)
(* write overtook is noted.                                                   *)
Overtakes(p, id) ==
  \A q \in Procs \ {p} :
    /\ q \in raced => q \in raced'
    /\ \A x \in ahead'[q] :
         \/ x \in ahead[q]
         \/ x = id /\ (q \in Syncers /\ pc[q] = "act" /\ turn[q][1] = id => q \in raced')

LEMMA WrittenEffect ==
  ASSUME Shape, NEW p \in Procs, NEW id \in Ids, Written(p, id)
  PROVE  /\ ahead' \in [Procs -> SUBSET Ids] /\ raced' \subseteq Syncers
         /\ Overtakes(p, id)
         /\ p \notin since[p] => ahead'[p] \subseteq ahead[p]
<1>1. ahead \in [Procs -> SUBSET Ids] /\ raced \subseteq Syncers
  BY DEF Shape, SyncTyped
<1>2. ahead' = [q \in Procs |-> IF p \in since[q] THEN ahead[q] \cup {id} ELSE ahead[q] \ {id}]
  BY DEF Written
<1>3. raced' = (raced \ {p}) \cup {q \in Syncers \ {p} : pc[q] = "act" /\ turn[q][1] = id}
  BY DEF Written
<1>4. \A q \in Procs : ahead'[q] = IF p \in since[q] THEN ahead[q] \cup {id} ELSE ahead[q] \ {id}
  BY <1>2
<1>5. ahead' \in [Procs -> SUBSET Ids] /\ raced' \subseteq Syncers
  BY <1>1, <1>2, <1>3
<1>6. Overtakes(p, id)
  BY <1>3, <1>4 DEF Overtakes
<1> QED
  BY <1>4, <1>5, <1>6

LEMMA StoreEffect ==
  ASSUME Shape, TypeOK, NEW p \in Procs, NEW id \in Ids, NEW e \in Entity, Store(p, id, e)
  PROVE  /\ ahead' \in [Procs -> SUBSET Ids] /\ raced' \subseteq Syncers
         /\ Overtakes(p, id)
         /\ p \notin since[p] => ahead'[p] \subseteq ahead[p]
         /\ RegisterEntity(id, e) \/ UpdateEntity(id, e)
<1>1. CASE Written(p, id)
  BY <1>1, WrittenEffect DEF Store
<1>2. CASE ~Written(p, id)
  <2>1. raced' = raced \ {p} /\ UNCHANGED ahead /\ RegisterEntity(id, e)
    BY <1>2 DEF Store
  <2>2. ahead \in [Procs -> SUBSET Ids] /\ raced \subseteq Syncers
    BY DEF Shape, SyncTyped
  <2> QED
    BY <2>1, <2>2 DEF Overtakes
<1> QED
  BY <1>1, <1>2

(* What a goroutine is about to write is an entity.                           *)
LEMMA HeldTurn ==
  ASSUME Shape, NEW p \in Procs,
         (p \in Syncers /\ pc[p] = "act") \/ (p \in Editors /\ pc[p] # "idle")
  PROVE  turn[p] \in Turns /\ turn[p][1] \in Ids /\ turn[p][2] \in {"register", "update"}
<1>1. turn[p] # NoTurn
  BY DEF Shape, TurnsOK
<1>2. turn[p] \in Turns
  BY <1>1 DEF Shape, SyncTyped
<1> QED
  BY <1>2, TurnParts

LEMMA ConvertedIsEntity ==
  ASSUME Shape, NEW p \in Syncers, NEW id \in Ids, ans[p][id] # Gone
  PROVE  /\ Converted(p, id) \in Entity
         /\ Converted(p, id).source = HA /\ Converted(p, id).state = ans[p][id]
<1> DEFINE any == CHOOSE t \in Types : TRUE
<1>1. any \in Types
  OBVIOUS
<1>2. ans[p][id] \in States
  BY DEF Shape, SyncTyped
<1>3. Converted(p, id) = [type |-> any, source |-> HA, room |-> NoRoom, state |-> ans[p][id]]
  BY DEF Converted
<1> HIDE DEF any
<1> QED
  BY <1>1, <1>2, <1>3 DEF Entity

Edited(state) ==
  [type |-> CHOOSE t \in Types : TRUE, source |-> PMA, room |-> NoRoom, state |-> state]

LEMMA EditedIsEntity == ASSUME NEW state \in States PROVE Edited(state) \in Entity
<1> DEFINE any == CHOOSE t \in Types : TRUE
<1>1. any \in Types
  OBVIOUS
<1>2. Edited(state) = [type |-> any, source |-> PMA, room |-> NoRoom, state |-> state]
  BY DEF Edited
<1> HIDE DEF any
<1> QED
  BY <1>1, <1>2 DEF Entity

LEMMA SyncShape ==
  ASSUME Shape, TypeOK, NEW p \in Syncers, SyncStep(p) \/ FetchFails(p)
  PROVE  Shape'
<1>0. p \in Procs /\ p \notin Editors
  BY Places
<1>1. CASE Answer(p)
  <2>1. /\ pc[p] = "fetch" /\ pc' = [pc EXCEPT ![p] = "stamp"]
        /\ ans' = [ans EXCEPT ![p] = world]
        /\ UNCHANGED <<world, changes, connected, todo, turn, ahead, since, raced, edits,
                       overlapped, running, ticker, token, crashed>>
    BY <1>1 DEF Answer, worldVars, stampVars, schedVars
  <2>2. SyncTyped'
    BY <2>1 DEF Shape, SyncTyped, AtWork
  <2>3. /\ pc'[p] = "stamp" /\ \A q \in Procs : q # p => pc'[q] = pc[q]
        /\ \A q \in Syncers : q # p => ans'[q] = ans[q]
    BY <1>0, <2>1 DEF Shape, SyncTyped
  <2>4. PlacesOK' /\ TurnsOK' /\ AnswersOK'
    BY <1>0, <2>1, <2>3, Places DEF Shape, PlacesOK, TurnsOK, AnswersOK
  <2> QED
    BY <2>2, <2>4 DEF Shape
<1>2. CASE Convert(p)
  <2>1. /\ pc[p] = "stamp" /\ pc' = [pc EXCEPT ![p] = "next"]
        /\ todo' = [todo EXCEPT ![p] = {id \in Ids : ans[p][id] # Gone}]
        /\ ahead' = [ahead EXCEPT ![p] = {}]
        /\ since' = [q \in Procs |-> IF Stamped(q) THEN since[q] \cup {p} ELSE since[q]]
        /\ UNCHANGED <<world, changes, connected, ans, turn, raced, edits, overlapped,
                       running, ticker, token, crashed>>
    BY <1>2 DEF Convert, TakeStamp, worldVars, schedVars
  <2>2. SyncTyped'
    BY <1>0, <2>1 DEF Shape, SyncTyped, AtWork
  <2>3. /\ pc'[p] = "next" /\ \A q \in Procs : q # p => pc'[q] = pc[q]
        /\ \A q \in Syncers : q # p => todo'[q] = todo[q]
        /\ todo'[p] = {id \in Ids : ans[p][id] # Gone}
    BY <1>0, <2>1 DEF Shape, SyncTyped
  <2>4. PlacesOK' /\ TurnsOK'
    BY <1>0, <2>1, <2>3, Places DEF Shape, PlacesOK, TurnsOK
  <2>5. AnswersOK'
    BY <1>0, <2>1, <2>3, Places DEF Shape, AnswersOK
  <2> QED
    BY <2>2, <2>4, <2>5 DEF Shape
<1>3. ASSUME NEW id \in Ids, Lookup(p, id)
      PROVE  Shape'
  <2>1. /\ pc[p] = "next" /\ id \in todo[p] /\ todo' = [todo EXCEPT ![p] = @ \ {id}]
        /\ UNCHANGED <<world, changes, connected, ans, ahead, since, raced, edits,
                       overlapped, running, ticker, token, crashed>>
    BY <1>3 DEF Lookup, worldVars, stampVars, schedVars
  <2>2. /\ ans[p][id] # Gone
        /\ \A x \in todo[p] : ans[p][x] # Gone
    BY <2>1 DEF Shape, AnswersOK
  <2>3. /\ todo'[p] \subseteq todo[p] /\ todo' \in [Syncers -> SUBSET Ids]
        /\ \A q \in Syncers : q # p => todo'[q] = todo[q]
    BY <2>1 DEF Shape, SyncTyped
  <2>4. CASE UNCHANGED <<turn, pc>>
    <3>1. SyncTyped'
      BY <2>1, <2>3, <2>4 DEF Shape, SyncTyped
    <3>2. PlacesOK' /\ TurnsOK'
      BY <2>4 DEF Shape, PlacesOK, TurnsOK
    <3>3. AnswersOK'
      BY <2>1, <2>3, <2>4 DEF Shape, AnswersOK
    <3> QED
      BY <3>1, <3>2, <3>3 DEF Shape
  <2>5. CASE ~UNCHANGED <<turn, pc>>
    <3>1. PICK d \in {"register", "update"} : turn' = [turn EXCEPT ![p] = <<id, d>>]
      BY <1>3, <2>5 DEF Lookup
    <3>2. pc' = [pc EXCEPT ![p] = "act"]
      BY <1>3, <2>5 DEF Lookup
    <3>3. <<id, d>> \in Turns /\ <<id, d>>[1] = id
      BY MakeTurn
    <3>4. SyncTyped'
      BY <1>0, <2>1, <2>3, <3>1, <3>2, <3>3 DEF Shape, SyncTyped, AtWork
    <3>5. /\ pc'[p] = "act" /\ \A q \in Procs : q # p => pc'[q] = pc[q] /\ turn'[q] = turn[q]
          /\ turn'[p] = <<id, d>>
      BY <1>0, <3>1, <3>2 DEF Shape, SyncTyped
    <3>6. turn'[p] # NoTurn /\ turn'[p][1] = id
      BY <3>3, <3>5, NoTurnIsNone
    <3>7. PlacesOK' /\ TurnsOK'
      BY <1>0, <2>1, <3>5, <3>6, Places DEF Shape, PlacesOK, TurnsOK
    <3>8. AnswersOK'
      BY <1>0, <2>1, <2>2, <2>3, <3>5, <3>6, Places DEF Shape, AnswersOK
    <3> QED
      BY <3>4, <3>7, <3>8 DEF Shape
  <2> QED
    BY <2>4, <2>5
<1>4. CASE Act(p)
  <2>1. /\ pc[p] = "act" /\ Store(p, turn[p][1], Converted(p, turn[p][1]))
        /\ turn' = [turn EXCEPT ![p] = NoTurn] /\ pc' = [pc EXCEPT ![p] = "next"]
        /\ UNCHANGED <<world, changes, connected, ans, todo, since, edits, overlapped,
                       running, ticker, token, crashed>>
    BY <1>4 DEF Act, worldVars, schedVars
  <2>2. turn[p][1] \in Ids /\ ans[p][turn[p][1]] # Gone
    BY <1>0, <2>1, HeldTurn DEF Shape, AnswersOK
  <2>3. Converted(p, turn[p][1]) \in Entity
    BY <2>2, ConvertedIsEntity
  <2>4. ahead' \in [Procs -> SUBSET Ids] /\ raced' \subseteq Syncers
    BY <1>0, <2>1, <2>2, <2>3, StoreEffect
  <2>5. SyncTyped'
    BY <1>0, <2>1, <2>4 DEF Shape, SyncTyped, AtWork
  <2>6. /\ pc'[p] = "next" /\ \A q \in Procs : q # p => pc'[q] = pc[q] /\ turn'[q] = turn[q]
        /\ turn'[p] = NoTurn
    BY <1>0, <2>1 DEF Shape, SyncTyped
  <2>7. PlacesOK' /\ TurnsOK'
    BY <1>0, <2>1, <2>6, Places DEF Shape, PlacesOK, TurnsOK
  <2>8. AnswersOK'
    BY <1>0, <2>1, <2>6, Places DEF Shape, AnswersOK
  <2> QED
    BY <2>5, <2>7, <2>8 DEF Shape
<1>5. CASE Finish(p)
  <2>1. /\ pc[p] = "next" /\ pc' = [pc EXCEPT ![p] = Rest(p)]
        /\ ans' = [ans EXCEPT ![p] = NoAnswer] /\ ahead' = [ahead EXCEPT ![p] = {}]
        /\ since' = [q \in Procs |-> IF q = p THEN {} ELSE since[q] \ {p}]
        /\ UNCHANGED <<world, changes, connected, todo, turn, raced, edits, overlapped,
                       running, ticker, token, crashed>>
    BY <1>5 DEF Finish, Forget, worldVars, schedVars
  <2>2. PICK to \in {"start", "enter", "idle"} : to = Rest(p)
    BY RestIsUnheld
  <2>3. pc' = [pc EXCEPT ![p] = to] /\ NoAnswer \in [Ids -> States \cup {Gone}]
    BY <2>1, <2>2 DEF NoAnswer
  <2>4. SyncTyped'
    BY <1>0, <2>1, <2>3 DEF Shape, SyncTyped
  <2>5. /\ pc'[p] = to /\ \A q \in Procs : q # p => pc'[q] = pc[q]
        /\ \A q \in Syncers : q # p => ans'[q] = ans[q]
    BY <1>0, <2>1, <2>3 DEF Shape, SyncTyped
  <2>6. PlacesOK' /\ TurnsOK' /\ AnswersOK'
    BY <1>0, <2>1, <2>5, Places DEF Shape, PlacesOK, TurnsOK, AnswersOK
  <2> QED
    BY <2>4, <2>6 DEF Shape
<1>6. CASE FetchFails(p)
  <2>1. /\ pc[p] \in Unheld /\ pc' = [pc EXCEPT ![p] = Rest(p)]
        /\ UNCHANGED <<world, changes, connected, ans, todo, turn, ahead, since, raced,
                       edits, overlapped, running, ticker, token, crashed>>
    BY <1>6 DEF FetchFails, Unheld, worldVars, stampVars, schedVars
  <2>2. PICK to \in {"start", "enter", "idle"} : pc' = [pc EXCEPT ![p] = to]
    BY <2>1, RestIsUnheld
  <2>3. SyncTyped'
    BY <2>1, <2>2 DEF Shape, SyncTyped
  <2> QED
    BY <2>1, <2>2, <2>3, MoveShape DEF Unheld
<1> QED
  BY <1>1, <1>2, <1>3, <1>4, <1>5, <1>6 DEF SyncStep

LEMMA EditShape ==
  ASSUME Shape, TypeOK, NEW e \in Editors,
         EditStep(e) \/ \E id \in Ids : EditLookup(e, id)
  PROVE  Shape'
<1>0. e \in Procs /\ e \notin Syncers
  BY Places
<1>1. ASSUME NEW id \in Ids, EditLookup(e, id)
      PROVE  Shape'
  <2>1. /\ pc[e] = "idle" /\ pc' = [pc EXCEPT ![e] = "stamp"]
        /\ edits < MaxEdits /\ edits' = edits + 1
        /\ overlapped' = overlapped \cup {p \in Syncers : pc[p] \in AtWork}
        /\ UNCHANGED <<world, changes, connected, ans, todo, ahead, since, raced,
                       running, ticker, token, crashed>>
    BY <1>1 DEF EditLookup, worldVars, stampVars, schedVars
  <2>2. PICK d \in {"register", "update"} : turn' = [turn EXCEPT ![e] = <<id, d>>]
    BY <1>1 DEF EditLookup
  <2>3. <<id, d>> \in Turns
    BY MakeTurn
  <2>4. edits' \in 0 .. MaxEdits
    BY <2>1 DEF Shape, SyncTyped
  <2>5. SyncTyped'
    BY <1>0, <2>1, <2>2, <2>3, <2>4 DEF Shape, SyncTyped, AtWork
  <2>6. /\ pc'[e] = "stamp" /\ \A q \in Procs : q # e => pc'[q] = pc[q] /\ turn'[q] = turn[q]
        /\ turn'[e] # NoTurn
    BY <1>0, <2>1, <2>2, <2>3, NoTurnIsNone DEF Shape, SyncTyped
  <2>7. PlacesOK' /\ TurnsOK' /\ AnswersOK'
    BY <1>0, <2>1, <2>6, Places DEF Shape, PlacesOK, TurnsOK, AnswersOK
  <2> QED
    BY <2>5, <2>7 DEF Shape
<1>2. CASE EditStamp(e)
  <2>1. /\ pc[e] = "stamp" /\ pc' = [pc EXCEPT ![e] = "write"]
        /\ ahead' = [ahead EXCEPT ![e] = {}]
        /\ since' = [q \in Procs |-> IF Stamped(q) THEN since[q] \cup {e} ELSE since[q]]
        /\ UNCHANGED <<world, changes, connected, ans, todo, turn, raced, edits, overlapped,
                       running, ticker, token, crashed>>
    BY <1>2 DEF EditStamp, TakeStamp, worldVars, schedVars
  <2>2. SyncTyped'
    BY <1>0, <2>1 DEF Shape, SyncTyped, AtWork
  <2>3. pc'[e] = "write" /\ \A q \in Procs : q # e => pc'[q] = pc[q]
    BY <1>0, <2>1 DEF Shape, SyncTyped
  <2>4. PlacesOK' /\ TurnsOK' /\ AnswersOK'
    BY <1>0, <2>1, <2>3, Places DEF Shape, PlacesOK, TurnsOK, AnswersOK
  <2> QED
    BY <2>2, <2>4 DEF Shape
<1>3. ASSUME NEW state \in States, EditWrite(e, state)
      PROVE  Shape'
  <2>1. /\ pc[e] = "write" /\ Store(e, turn[e][1], Edited(state))
        /\ turn' = [turn EXCEPT ![e] = NoTurn] /\ pc' = [pc EXCEPT ![e] = "idle"]
        /\ since' = [q \in Procs |-> IF q = e THEN {} ELSE since[q] \ {e}]
        /\ UNCHANGED <<world, changes, connected, ans, todo, edits, overlapped,
                       running, ticker, token, crashed>>
    BY <1>3 DEF EditWrite, Edited, Forget, worldVars, schedVars
  <2>2. turn[e][1] \in Ids /\ Edited(state) \in Entity
    BY <1>0, <2>1, HeldTurn, EditedIsEntity
  <2>3. ahead' \in [Procs -> SUBSET Ids] /\ raced' \subseteq Syncers
    BY <1>0, <2>1, <2>2, StoreEffect
  <2>4. SyncTyped'
    BY <1>0, <2>1, <2>3 DEF Shape, SyncTyped
  <2>5. /\ pc'[e] = "idle" /\ \A q \in Procs : q # e => pc'[q] = pc[q] /\ turn'[q] = turn[q]
        /\ turn'[e] = NoTurn
    BY <1>0, <2>1 DEF Shape, SyncTyped
  <2>6. PlacesOK' /\ TurnsOK' /\ AnswersOK'
    BY <1>0, <2>1, <2>5, Places DEF Shape, PlacesOK, TurnsOK, AnswersOK
  <2> QED
    BY <2>4, <2>6 DEF Shape
<1> QED
  BY <1>1, <1>2, <1>3 DEF EditStep

LEMMA ChangeShape ==
  ASSUME Shape, NEW id \in Ids, NEW state \in States \cup {Gone}, Change(id, state)
  PROVE  Shape'
<1>1. /\ changes < MaxChanges /\ changes' = changes + 1
      /\ world' = [world EXCEPT ![id] = state]
      /\ UNCHANGED <<connected, pc, ans, todo, turn, ahead, since, raced, edits, overlapped,
                     running, ticker, token, crashed>>
  BY DEF Change, stampVars, schedVars
<1>2. changes' \in 0 .. MaxChanges
  BY <1>1 DEF Shape, SyncTyped
<1>3. world' \in [Ids -> States \cup {Gone}]
  BY <1>1 DEF Shape, SyncTyped
<1>4. SyncTyped'
  BY <1>1, <1>2, <1>3 DEF Shape, SyncTyped
<1> QED
  BY <1>1, <1>4 DEF Shape, PlacesOK, TurnsOK, AnswersOK

LEMMA NextShape == Shape /\ TypeOK /\ [SyncNext]_syncVars => Shape'
<1> SUFFICES ASSUME Shape, TypeOK, [SyncNext]_syncVars PROVE Shape'
  OBVIOUS
<1>1. CASE UNCHANGED syncVars
  BY <1>1 DEF syncVars, worldVars, stampVars, schedVars, Shape, SyncTyped, PlacesOK, TurnsOK,
              AnswersOK
<1>2. ASSUME NEW r \in Requests, RequestSync(r)
      PROVE  Shape'
  BY <1>2, Places, BeginShape DEF RequestSync
<1> QED
  BY <1>1, <1>2, SchedulerShape, SyncShape, EditShape, ChangeShape DEF SyncNext

-----------------------------------------------------------------------------
(* The registry under EntitySync.  Every step writes an entity or leaves the  *)
(* registry alone, so its invariant carries over, to any number of concurrent *)
(* synchronisations and API requests.                                         *)

LEMMA WriteKeepsInv ==
  ASSUME Inv, NEW id \in Ids, NEW e \in Entity, RegisterEntity(id, e) \/ UpdateEntity(id, e)
  PROVE  Inv'
<1>1. CASE RegisterNew(id, e)
  BY <1>1, InvRegisterNew
<1>2. CASE RegisterAgain(id, e)
  BY <1>2, InvUpdate DEF RegisterAgain
<1>3. CASE RegisterRefused(id, e)
  BY <1>3, InvStutter DEF RegisterRefused
<1>4. CASE UpdateEntity(id, e)
  BY <1>4, InvUpdate DEF UpdateEntity
<1> QED
  BY <1>1, <1>2, <1>3, <1>4 DEF RegisterEntity

LEMMA SyncKeepsInv == Inv /\ Shape /\ [SyncNext]_syncVars => Inv'
<1> SUFFICES ASSUME Inv, Shape, [SyncNext]_syncVars PROVE Inv'
  OBVIOUS
<1>0. TypeOK
  BY DEF Inv
<1>1. ASSUME NEW p \in Syncers, Act(p)
      PROVE  Inv'
  <2>1. pc[p] = "act" /\ Store(p, turn[p][1], Converted(p, turn[p][1]))
    BY <1>1 DEF Act
  <2>2. PICK id \in Ids : id = turn[p][1]
    BY <2>1, HeldTurn, Places
  <2>3. ans[p][id] # Gone
    BY <2>1, <2>2 DEF Shape, AnswersOK
  <2>4. PICK e \in Entity : e = Converted(p, id)
    BY <2>3, ConvertedIsEntity
  <2>5. Store(p, id, e)
    BY <2>1, <2>2, <2>4
  <2> QED
    BY <1>0, <2>5, StoreEffect, WriteKeepsInv, Places
<1>2. ASSUME NEW a \in Editors, NEW state \in States, EditWrite(a, state)
      PROVE  Inv'
  <2>1. pc[a] = "write" /\ Store(a, turn[a][1], Edited(state))
    BY <1>2 DEF EditWrite, Edited
  <2>2. PICK id \in Ids : id = turn[a][1]
    BY <2>1, HeldTurn, Places
  <2>3. PICK e \in Entity : e = Edited(state)
    BY EditedIsEntity
  <2>4. Store(a, id, e)
    BY <2>1, <2>2, <2>3
  <2> QED
    BY <1>0, <2>4, StoreEffect, WriteKeepsInv, Places
<1>3. CASE UNCHANGED registryVars
  BY <1>3, InvStutter
<1>4. \/ \E p \in Syncers : Act(p)
      \/ \E a \in Editors, state \in States : EditWrite(a, state)
      \/ UNCHANGED registryVars
  BY DEF SyncNext, Connect, ConnectFails, StartPeriodicSync, Enter, Tick, Stopped,
         StopPeriodicSync, SyncStep, FetchFails, RequestSync, EditStep, EditLookup, Change,
         Begin, Answer, Convert, Lookup, Finish, EditStamp, quiet, syncVars
<1> QED
  BY <1>1, <1>2, <1>3, <1>4

-----------------------------------------------------------------------------
(* Stamps.  A decision to update is taken on an ID that is not ahead, and a   *)
(* write that puts it ahead later notes the decisions it overtakes.           *)

(* A goroutine keeps the decision it had.                                     *)
KeepsTurn(q) ==
  /\ pc[q] = "act" /\ turn'[q] = turn[q]
  /\ q \in raced => q \in raced'

LEMMA StaleKept ==
  ASSUME StaleOnlyIfRaced,
         \A q \in Syncers : pc'[q] = "act" =>
            \/ KeepsTurn(q) /\ ahead'[q] \subseteq ahead[q]
            \/ turn'[q][2] = "update" => turn'[q][1] \notin ahead'[q] \/ q \in raced'
  PROVE  StaleOnlyIfRaced'
  BY DEF StaleOnlyIfRaced, KeepsTurn

(* The write of p, of an entity id, seen by another goroutine.                *)
LEMMA StaleWritten ==
  ASSUME Shape, StaleOnlyIfRaced, NEW p \in Procs, NEW id \in Ids, Overtakes(p, id),
         pc'[p] # "act",
         \A q \in Procs \ {p} : pc'[q] = pc[q] /\ turn'[q] = turn[q]
  PROVE  StaleOnlyIfRaced'
<1> SUFFICES ASSUME NEW q \in Syncers, pc'[q] = "act", turn'[q][2] = "update",
                    turn'[q][1] \in ahead'[q]
             PROVE  q \in raced'
  BY DEF StaleOnlyIfRaced
<1>1. q \in Procs \ {p} /\ pc[q] = "act" /\ turn'[q] = turn[q]
  BY Places
<1>2. CASE turn[q][1] \in ahead[q]
  BY <1>1, <1>2 DEF StaleOnlyIfRaced, Overtakes
<1>3. CASE turn[q][1] \notin ahead[q]
  BY <1>1, <1>3 DEF Overtakes
<1> QED
  BY <1>2, <1>3

LEMMA StaleSync ==
  ASSUME Shape, TypeOK, StaleOnlyIfRaced, NEW p \in Syncers, SyncStep(p) \/ FetchFails(p)
  PROVE  StaleOnlyIfRaced'
<1>0. p \in Procs /\ p \notin Editors
  BY Places
<1>1. ASSUME NEW to, to # "act", pc' = [pc EXCEPT ![p] = to], UNCHANGED <<turn, raced>>,
             ahead' = ahead \/ ahead' = [ahead EXCEPT ![p] = {}]
      PROVE  StaleOnlyIfRaced'
  <2>1. ASSUME NEW q \in Syncers, pc'[q] = "act"
        PROVE  KeepsTurn(q) /\ ahead'[q] \subseteq ahead[q]
    <3>1. q # p /\ q \in Procs
      BY <1>0, <1>1, <2>1, Places DEF Shape, SyncTyped
    <3> QED
      BY <1>1, <2>1, <3>1 DEF Shape, SyncTyped, KeepsTurn
  <2> QED
    BY <2>1, StaleKept
<1>2. CASE Answer(p)
  BY <1>1, <1>2 DEF Answer, stampVars
<1>3. CASE Convert(p)
  BY <1>1, <1>3 DEF Convert, TakeStamp
<1>4. ASSUME NEW id \in Ids, Lookup(p, id)
      PROVE  StaleOnlyIfRaced'
  <2>1. UNCHANGED <<ahead, raced>>
    BY <1>4 DEF Lookup, stampVars
  <2>2. CASE UNCHANGED <<turn, pc>>
    BY <2>1, <2>2 DEF StaleOnlyIfRaced
  <2>3. CASE ~UNCHANGED <<turn, pc>>
    <3>1. PICK d \in {"register", "update"} :
             /\ turn' = [turn EXCEPT ![p] = <<id, d>>]
             /\ d = "update" => id \notin ahead[p]
      <4>1. CASE Registered(id)
        BY <1>4, <2>3, <4>1 DEF Lookup, shouldUpdateEntity
      <4>2. CASE ~Registered(id)
        BY <1>4, <2>3, <4>2 DEF Lookup
      <4> QED
        BY <4>1, <4>2
    <3>2. pc' = [pc EXCEPT ![p] = "act"]
      BY <1>4, <2>3 DEF Lookup
    <3>3. turn'[p] = <<id, d>>
      BY <1>0, <3>1 DEF Shape, SyncTyped
    <3>4. turn'[p][1] = id /\ turn'[p][2] = d
      BY <3>3, MakeTurn
    <3>5. \A q \in Syncers : q # p => pc'[q] = pc[q] /\ turn'[q] = turn[q]
      BY <3>1, <3>2, Places DEF Shape, SyncTyped
    <3>6. turn'[p][2] = "update" => turn'[p][1] \notin ahead'[p]
      BY <2>1, <3>1, <3>4
    <3> QED
      BY <2>1, <3>5, <3>6, StaleKept DEF KeepsTurn
  <2> QED
    BY <2>2, <2>3
<1>5. CASE Act(p)
  <2>1. /\ pc[p] = "act" /\ Store(p, turn[p][1], Converted(p, turn[p][1]))
        /\ turn' = [turn EXCEPT ![p] = NoTurn] /\ pc' = [pc EXCEPT ![p] = "next"]
    BY <1>5 DEF Act
  <2>2. PICK id \in Ids : id = turn[p][1]
    BY <1>0, <2>1, HeldTurn
  <2>3. Converted(p, id) \in Entity
    BY <2>1, <2>2, ConvertedIsEntity DEF Shape, AnswersOK
  <2>4. PICK e \in Entity : e = Converted(p, id)
    BY <2>3
  <2>5. Overtakes(p, id)
    BY <1>0, <2>1, <2>2, <2>4, StoreEffect
  <2>6. pc'[p] # "act" /\ \A q \in Procs \ {p} : pc'[q] = pc[q] /\ turn'[q] = turn[q]
    BY <1>0, <2>1 DEF Shape, SyncTyped
  <2> QED
    BY <1>0, <2>5, <2>6, StaleWritten
<1>6. CASE Finish(p)
  BY <1>1, <1>6, RestIsUnheld DEF Finish
<1>7. CASE FetchFails(p)
  BY <1>1, <1>7, RestIsUnheld DEF FetchFails, stampVars
<1> QED
  BY <1>2, <1>3, <1>4, <1>5, <1>6, <1>7 DEF SyncStep

LEMMA StaleEdit ==
  ASSUME Shape, TypeOK, StaleOnlyIfRaced, NEW e \in Editors,
         EditStep(e) \/ \E id \in Ids : EditLookup(e, id)
  PROVE  StaleOnlyIfRaced'
<1>0. e \in Procs /\ e \notin Syncers
  BY Places
<1>1. ASSUME NEW id \in Ids, EditLookup(e, id)
      PROVE  StaleOnlyIfRaced'
  <2>1. PICK d \in {"register", "update"} : turn' = [turn EXCEPT ![e] = <<id, d>>]
    BY <1>1 DEF EditLookup
  <2>2. pc' = [pc EXCEPT ![e] = "stamp"] /\ UNCHANGED <<ahead, raced>>
    BY <1>1 DEF EditLookup, stampVars
  <2>3. \A q \in Syncers : pc'[q] = pc[q] /\ turn'[q] = turn[q]
    BY <1>0, <2>1, <2>2, Places DEF Shape, SyncTyped
  <2> QED
    BY <2>2, <2>3, StaleKept DEF KeepsTurn
<1>2. CASE EditStamp(e)
  <2>1. /\ pc' = [pc EXCEPT ![e] = "write"] /\ UNCHANGED <<turn, raced>>
        /\ ahead' = [ahead EXCEPT ![e] = {}]
    BY <1>2 DEF EditStamp, TakeStamp
  <2>2. \A q \in Syncers : pc'[q] = pc[q] /\ ahead'[q] = ahead[q]
    BY <1>0, <2>1, Places DEF Shape, SyncTyped
  <2> QED
    BY <2>1, <2>2, StaleKept DEF KeepsTurn
<1>3. ASSUME NEW state \in States, EditWrite(e, state)
      PROVE  StaleOnlyIfRaced'
  <2>1. /\ pc[e] = "write" /\ Store(e, turn[e][1], Edited(state))
        /\ turn' = [turn EXCEPT ![e] = NoTurn] /\ pc' = [pc EXCEPT ![e] = "idle"]
    BY <1>3 DEF EditWrite, Edited
  <2>2. PICK id \in Ids : id = turn[e][1]
    BY <1>0, <2>1, HeldTurn
  <2>3. PICK x \in Entity : x = Edited(state)
    BY EditedIsEntity
  <2>4. Overtakes(e, id)
    BY <1>0, <2>1, <2>2, <2>3, StoreEffect
  <2>5. pc'[e] # "act" /\ \A q \in Procs \ {e} : pc'[q] = pc[q] /\ turn'[q] = turn[q]
    BY <1>0, <2>1 DEF Shape, SyncTyped
  <2> QED
    BY <1>0, <2>4, <2>5, StaleWritten
<1> QED
  BY <1>1, <1>2, <1>3 DEF EditStep

(* Steps that leave stamps and decisions alone, and move a goroutine anywhere *)
(* but to a decision.                                                         *)
LEMMA StaleMove ==
  ASSUME Shape, StaleOnlyIfRaced, NEW p \in Procs, NEW to, to # "act",
         pc' = [pc EXCEPT ![p] = to], UNCHANGED <<turn, ahead, raced>>
  PROVE  StaleOnlyIfRaced'
<1>1. \A q \in Syncers : pc'[q] = "act" => pc[q] = "act"
  BY Places DEF Shape, SyncTyped
<1> QED
  BY <1>1 DEF StaleOnlyIfRaced

LEMMA StaleNext ==
  Shape /\ TypeOK /\ StaleOnlyIfRaced /\ [SyncNext]_syncVars => StaleOnlyIfRaced'
<1> SUFFICES ASSUME Shape, TypeOK, StaleOnlyIfRaced, [SyncNext]_syncVars
             PROVE  StaleOnlyIfRaced'
  OBVIOUS
<1> USE DEF quiet, stampVars
<1>1. CASE UNCHANGED <<pc, turn, ahead, raced>>
  BY <1>1 DEF StaleOnlyIfRaced
<1>2. CASE Connect
  BY <1>2, StaleMove, Places DEF Connect
<1>3. CASE ConnectFails
  BY <1>3, StaleMove, Places DEF ConnectFails
<1>4. CASE StartPeriodicSync
  <2>1. /\ pc' = [pc EXCEPT ![Boot] = "over", ![Loop] = "enter"]
        /\ UNCHANGED <<turn, ahead, raced>>
    BY <1>4 DEF StartPeriodicSync
  <2>2. \A q \in Syncers : pc'[q] = "act" => pc[q] = "act"
    BY <2>1, Places DEF Shape, SyncTyped
  <2> QED
    BY <2>1, <2>2 DEF StaleOnlyIfRaced
<1>5. CASE Enter
  <2>1. PICK to \in {"select", "ended"} : pc' = [pc EXCEPT ![Loop] = to]
    BY <1>5 DEF Enter
  <2> QED
    BY <1>5, <2>1, StaleMove, Places DEF Enter
<1>6. CASE Tick
  BY <1>6, StaleMove, Places DEF Tick, Begin
<1>7. CASE Stopped
  BY <1>7, StaleMove, Places DEF Stopped
<1>8. ASSUME NEW r \in Requests, RequestSync(r)
      PROVE  StaleOnlyIfRaced'
  BY <1>8, StaleMove, Places DEF RequestSync, Begin
<1>9. CASE UNCHANGED syncVars \/ StopPeriodicSync
           \/ \E id \in Ids, state \in States \cup {Gone} : Change(id, state)
  BY <1>1, <1>9 DEF syncVars, StopPeriodicSync, Change
<1> QED
  BY <1>2, <1>3, <1>4, <1>5, <1>6, <1>7, <1>8, <1>9, StaleSync, StaleEdit DEF SyncNext

-----------------------------------------------------------------------------
(* A synchronisation on its own.  While it is, nobody else is at work, nothing *)
(* is stamped after it, every entity of the answer it has come to is as the   *)
(* answer has it, and the decision it acts on is still right.                 *)

AloneP(p) == pc[p] \in AtWork /\ p \notin overlapped

Only(p) == \A q \in Procs \ {p} : pc[q] \notin AtWork

Done(p, id) ==
  ans[p][id] # Gone =>
    Registered(id) /\ entities[id].source = HA /\ entities[id].state = ans[p][id]

AloneOK(p) ==
  AloneP(p) =>
    /\ Only(p)
    /\ pc[p] \in {"next", "act"} => ahead[p] = {}
    /\ pc[p] = "next" => \A id \in Ids \ todo[p] : Done(p, id)
    /\ pc[p] = "act" =>
         /\ \A id \in Ids \ (todo[p] \cup {turn[p][1]}) : Done(p, id)
         /\ turn[p][2] = "update" <=> Registered(turn[p][1])

StampsOK == \A p \in Procs : p \notin since[p]

LEMMA StampsKept == Shape /\ StampsOK /\ [SyncNext]_syncVars => StampsOK'
<1> SUFFICES ASSUME Shape, StampsOK, [SyncNext]_syncVars PROVE StampsOK'
  OBVIOUS
<1>1. CASE UNCHANGED since
  BY <1>1 DEF StampsOK
<1>2. ASSUME NEW p \in Procs, pc[p] = "stamp", TakeStamp(p)
      PROVE  StampsOK'
  BY <1>2 DEF StampsOK, TakeStamp, Stamped
<1>3. ASSUME NEW p \in Procs, Forget(p)
      PROVE  StampsOK'
  BY <1>3 DEF StampsOK, Forget
<1>4. \/ UNCHANGED since
      \/ \E p \in Procs : pc[p] = "stamp" /\ TakeStamp(p)
      \/ \E p \in Procs : Forget(p)
  BY Places
     DEF SyncNext, Connect, ConnectFails, StartPeriodicSync, Enter, Tick, Stopped,
         StopPeriodicSync, SyncStep, FetchFails, RequestSync, EditStep, EditLookup, Change,
         Begin, Answer, Convert, Lookup, Act, Finish, EditStamp, EditWrite, quiet, stampVars,
         syncVars
<1> QED
  BY <1>1, <1>2, <1>3, <1>4

(* Steps that leave p, and the entities, as they are.                         *)
LEMMA AloneKept ==
  ASSUME NEW p \in Syncers, AloneOK(p), UNCHANGED entities,
         pc'[p] = pc[p], ans'[p] = ans[p], todo'[p] = todo[p], turn'[p] = turn[p],
         ahead'[p] = ahead[p], overlapped \subseteq overlapped',
         \A q \in Procs \ {p} : pc'[q] \in AtWork => pc[q] \in AtWork
  PROVE  AloneOK(p)'
<1>1. \A id \in Ids : Done(p, id) => Done(p, id)'
  BY DEF Done, Registered
<1>2. AloneP(p)' => AloneP(p)
  BY DEF AloneP
<1>3. Only(p) => Only(p)'
  BY DEF Only
<1>5. Registered(turn[p][1])' <=> Registered(turn[p][1])
  BY DEF Registered
<1> QED
  BY <1>1, <1>2, <1>3, <1>5 DEF AloneOK

(* A step of another goroutine at work, or the start of one: p is not alone.  *)
LEMMA AloneBusy ==
  ASSUME NEW p \in Syncers, NEW q \in Procs, q # p, AloneOK(p), pc[q] \in AtWork,
         pc'[p] = pc[p], UNCHANGED overlapped
  PROVE  AloneOK(p)'
  BY DEF AloneOK, AloneP, Only

LEMMA AloneJoined ==
  ASSUME Shape, NEW p \in Syncers, NEW q \in Syncers, q # p, Overlap(q), pc'[p] = pc[p]
  PROVE  AloneOK(p)'
<1>1. ASSUME pc[p] \in AtWork
      PROVE  p \in overlapped'
  BY <1>1, Places DEF Overlap
<1> QED
  BY <1>1 DEF AloneOK, AloneP

(* The start of p itself: alone, if nobody is at work.                        *)
LEMMA AloneStart ==
  ASSUME Shape, NEW p \in Syncers, Overlap(p), pc' = [pc EXCEPT ![p] = "fetch"]
  PROVE  AloneOK(p)'
<1>1. pc'[p] = "fetch" /\ \A q \in Procs \ {p} : pc'[q] = pc[q]
  BY Places DEF Shape, SyncTyped
<1>2. p \notin overlapped' => \A q \in Procs \ {p} : pc[q] \notin AtWork
  BY Places DEF Overlap
<1> QED
  BY <1>1, <1>2 DEF AloneOK, AloneP, Only

LEMMA AloneBegins ==
  ASSUME Shape, NEW p \in Syncers, AloneOK(p), NEW q \in Syncers, Overlap(q),
         pc' = [pc EXCEPT ![q] = "fetch"]
  PROVE  AloneOK(p)'
<1>1. CASE q = p
  BY <1>1, AloneStart
<1>2. CASE q # p
  <2>1. pc'[p] = pc[p]
    BY <1>2, Places DEF Shape, SyncTyped
  <2> QED
    BY <1>2, <2>1, AloneJoined
<1> QED
  BY <1>1, <1>2

(* A goroutine moves between places where it is not at work.                  *)
LEMMA AloneMoves ==
  ASSUME Shape, NEW p \in Syncers, AloneOK(p), NEW q \in Syncers, NEW to, to \notin AtWork,
         pc[q] \notin AtWork, pc' = [pc EXCEPT ![q] = to],
         UNCHANGED <<entities, ans, todo, turn, ahead, overlapped>>
  PROVE  AloneOK(p)'
<1>1. pc'[q] = to /\ \A x \in Procs : x # q => pc'[x] = pc[x]
  BY Places DEF Shape, SyncTyped
<1>2. CASE q = p
  BY <1>1, <1>2 DEF AloneOK, AloneP
<1>3. CASE q # p
  <2>1. pc'[p] = pc[p]
    BY <1>1, <1>3, Places
  <2>2. \A x \in Procs \ {p} : pc'[x] \in AtWork => pc[x] \in AtWork
    BY <1>1
  <2> QED
    BY <2>1, <2>2, AloneKept
<1> QED
  BY <1>2, <1>3

LEMMA AloneScheduler ==
  ASSUME Shape, NEW p \in Syncers, AloneOK(p),
         \/ Connect \/ ConnectFails \/ StartPeriodicSync \/ Enter \/ Tick \/ Stopped
         \/ StopPeriodicSync \/ \E r \in Requests : RequestSync(r)
  PROVE  AloneOK(p)'
<1> USE DEF quiet, registryVars, stampVars
<1>1. CASE Connect
  BY <1>1, AloneBegins, Places DEF Connect
<1>2. CASE ConnectFails
  BY <1>2, AloneMoves, Places DEF ConnectFails, AtWork
<1>3. CASE StartPeriodicSync
  <2>1. /\ pc' = [pc EXCEPT ![Boot] = "over", ![Loop] = "enter"]
        /\ pc[Boot] = "start"
        /\ UNCHANGED <<entities, ans, todo, turn, ahead, overlapped>>
    BY <1>3 DEF StartPeriodicSync
  <2>2. /\ pc'[Boot] = "over" /\ pc'[Loop] = "enter"
        /\ \A q \in Procs : q \notin {Boot, Loop} => pc'[q] = pc[q]
    BY <2>1, Places DEF Shape, SyncTyped
  <2>3. CASE p \in {Boot, Loop}
    BY <2>2, <2>3 DEF AloneOK, AloneP, AtWork
  <2>4. CASE p \notin {Boot, Loop}
    <3>1. pc'[p] = pc[p] /\ \A q \in Procs \ {p} : pc'[q] \in AtWork => pc[q] \in AtWork
      BY <2>2, <2>4, Places DEF AtWork
    <3> QED
      BY <2>1, <3>1, AloneKept
  <2> QED
    BY <2>3, <2>4
<1>4. CASE Enter
  <2>1. PICK to \in {"select", "ended"} : pc' = [pc EXCEPT ![Loop] = to]
    BY <1>4 DEF Enter
  <2>2. pc[Loop] \notin AtWork /\ to \notin AtWork
    BY <1>4 DEF Enter, AtWork
  <2> QED
    BY <1>4, <2>1, <2>2, AloneMoves, Places DEF Enter
<1>5. CASE Tick
  BY <1>5, AloneBegins, Places DEF Tick, Begin
<1>6. CASE Stopped
  BY <1>6, AloneMoves, Places DEF Stopped, AtWork
<1>7. CASE StopPeriodicSync
  BY <1>7, AloneKept DEF StopPeriodicSync
<1>8. ASSUME NEW r \in Requests, RequestSync(r)
      PROVE  AloneOK(p)'
  BY <1>8, AloneBegins, Places DEF RequestSync, Begin
<1> QED
  BY <1>1, <1>2, <1>3, <1>4, <1>5, <1>6, <1>7, <1>8

(* With the decision still right, the write goes through.                     *)
LEMMA StoreSucceeds ==
  ASSUME TypeOK, NEW p \in Syncers, NEW id \in Ids, NEW e \in Entity, Store(p, id, e),
         turn[p][2] = "update" <=> Registered(id)
  PROVE  entities'[id] = e /\ \A x \in Ids : x # id => entities'[x] = entities[x]
<1>1. entities' = [entities EXCEPT ![id] = e]
  <2>1. CASE Registered(id)
    BY <2>1 DEF Store, UpdateEntity, updateEntityInternal
  <2>2. CASE ~Registered(id)
    BY <2>2 DEF Store, RegisterEntity, RegisterNew, RegisterAgain, RegisterRefused
  <2> QED
    BY <2>1, <2>2
<1> QED
  BY <1>1 DEF TypeOK

(* The steps of p itself.                                                     *)
LEMMA AloneOwn ==
  ASSUME Shape, TypeOK, StampsOK, NEW p \in Syncers, AloneOK(p), SyncStep(p) \/ FetchFails(p)
  PROVE  AloneOK(p)'
<1>0. p \in Procs
  BY Places
<1>1. CASE Answer(p)
  <2>1. pc[p] = "fetch" /\ pc' = [pc EXCEPT ![p] = "stamp"] /\ UNCHANGED overlapped
    BY <1>1 DEF Answer
  <2>2. pc'[p] = "stamp" /\ \A q \in Procs \ {p} : pc'[q] = pc[q]
    BY <1>0, <2>1 DEF Shape, SyncTyped
  <2> QED
    BY <2>1, <2>2 DEF AloneOK, AloneP, Only, AtWork
<1>2. CASE Convert(p)
  <2>1. /\ pc[p] = "stamp" /\ pc' = [pc EXCEPT ![p] = "next"]
        /\ todo' = [todo EXCEPT ![p] = {id \in Ids : ans[p][id] # Gone}]
        /\ ahead' = [ahead EXCEPT ![p] = {}]
        /\ UNCHANGED <<ans, overlapped>>
    BY <1>2 DEF Convert, TakeStamp
  <2>2. /\ pc'[p] = "next" /\ \A q \in Procs \ {p} : pc'[q] = pc[q]
        /\ ahead'[p] = {} /\ todo'[p] = {id \in Ids : ans[p][id] # Gone}
    BY <1>0, <2>1 DEF Shape, SyncTyped
  <2>3. \A id \in Ids \ todo'[p] : Done(p, id)'
    BY <2>1, <2>2 DEF Done
  <2> QED
    BY <2>1, <2>2, <2>3 DEF AloneOK, AloneP, Only, AtWork
<1>3. ASSUME NEW id \in Ids, Lookup(p, id), AloneP(p)'
      PROVE  AloneOK(p)'
  <2>1. /\ pc[p] = "next" /\ id \in todo[p] /\ todo' = [todo EXCEPT ![p] = @ \ {id}]
        /\ UNCHANGED <<entities, ans, ahead, overlapped>>
    BY <1>3 DEF Lookup, registryVars, stampVars
  <2>2. /\ AloneP(p) /\ Only(p) /\ ahead[p] = {}
        /\ \A x \in Ids \ todo[p] : Done(p, x)
    BY <1>3, <2>1 DEF AloneOK, AloneP, AtWork
  <2>3. PICK d \in {"register", "update"} :
           /\ turn' = [turn EXCEPT ![p] = <<id, d>>]
           /\ d = "update" <=> Registered(id)
    <3>1. CASE Registered(id)
      BY <1>3, <2>2, <3>1 DEF Lookup, shouldUpdateEntity
    <3>2. CASE ~Registered(id)
      BY <1>3, <3>2 DEF Lookup
    <3> QED
      BY <3>1, <3>2
  <2>4. pc' = [pc EXCEPT ![p] = "act"]
    BY <1>3, <2>2 DEF Lookup, shouldUpdateEntity
  <2>5. /\ pc'[p] = "act" /\ \A q \in Procs \ {p} : pc'[q] = pc[q]
        /\ turn'[p] = <<id, d>> /\ todo'[p] = todo[p] \ {id}
    BY <1>0, <2>1, <2>3, <2>4 DEF Shape, SyncTyped
  <2>6. turn'[p][1] = id /\ turn'[p][2] = d
    BY <2>5, MakeTurn
  <2>7. \A x \in Ids \ todo[p] : Done(p, x)'
    BY <2>1, <2>2 DEF Done, Registered
  <2>8. \A x \in Ids \ (todo'[p] \cup {turn'[p][1]}) : Done(p, x)'
    BY <2>1, <2>5, <2>6, <2>7
  <2>9. (turn[p][2] = "update" <=> Registered(turn[p][1]))'
    BY <2>1, <2>3, <2>6 DEF Registered
  <2>10. ahead'[p] = {} /\ Only(p)'
    BY <2>1, <2>2, <2>5 DEF Only
  <2> QED
    BY <2>5, <2>8, <2>9, <2>10 DEF AloneOK
<1>4. ASSUME Act(p), AloneP(p)'
      PROVE  AloneOK(p)'
  <2>1. /\ pc[p] = "act" /\ Store(p, turn[p][1], Converted(p, turn[p][1]))
        /\ pc' = [pc EXCEPT ![p] = "next"]
        /\ UNCHANGED <<ans, todo, overlapped>>
    BY <1>4 DEF Act
  <2>2. PICK id \in Ids : id = turn[p][1]
    BY <1>0, <2>1, HeldTurn
  <2>3. ans[p][id] # Gone
    BY <2>1, <2>2 DEF Shape, AnswersOK
  <2>4. PICK e \in Entity :
           e = Converted(p, id) /\ e.source = HA /\ e.state = ans[p][id]
    BY <2>3, ConvertedIsEntity
  <2>5. Store(p, id, e)
    BY <2>1, <2>2, <2>4
  <2>6. /\ AloneP(p) /\ Only(p) /\ ahead[p] = {}
        /\ \A x \in Ids \ (todo[p] \cup {id}) : Done(p, x)
        /\ turn[p][2] = "update" <=> Registered(id)
    BY <1>4, <2>1, <2>2 DEF AloneOK, AloneP, AtWork
  <2>7. entities'[id] = e /\ \A x \in Ids : x # id => entities'[x] = entities[x]
    BY <2>5, <2>6, StoreSucceeds
  <2>8. ahead'[p] = {}
    BY <1>0, <2>5, <2>6, StoreEffect DEF StampsOK
  <2>9. pc'[p] = "next" /\ \A q \in Procs \ {p} : pc'[q] = pc[q]
    BY <1>0, <2>1 DEF Shape, SyncTyped
  <2>10. Done(p, id)'
    BY <2>1, <2>4, <2>7 DEF Done, Registered, Entity
  <2>11. \A x \in Ids \ (todo[p] \cup {id}) : Done(p, x)'
    BY <2>1, <2>6, <2>7 DEF Done, Registered
  <2>12. \A x \in Ids \ todo'[p] : Done(p, x)'
    BY <2>1, <2>10, <2>11
  <2> QED
    BY <2>6, <2>8, <2>9, <2>12 DEF AloneOK, Only
<1>5. CASE Finish(p) \/ FetchFails(p)
  <2>1. pc' = [pc EXCEPT ![p] = Rest(p)]
    BY <1>5 DEF Finish, FetchFails
  <2>2. pc'[p] = Rest(p)
    BY <1>0, <2>1 DEF Shape, SyncTyped
  <2>3. pc'[p] \notin AtWork
    BY <2>2, RestIsUnheld DEF AtWork
  <2> QED
    BY <2>3 DEF AloneOK, AloneP
<1> QED
  BY <1>1, <1>2, <1>3, <1>4, <1>5 DEF SyncStep, AloneOK

LEMMA AloneNext ==
  ASSUME Shape, TypeOK, StampsOK, NEW p \in Syncers, AloneOK(p), [SyncNext]_syncVars
  PROVE  AloneOK(p)'
<1>1. ASSUME NEW q \in Syncers, SyncStep(q) \/ FetchFails(q)
      PROVE  AloneOK(p)'
  <2>1. CASE q = p
    BY <1>1, <2>1, AloneOwn
  <2>2. CASE q # p
    <3>1. pc[q] \in AtWork /\ UNCHANGED overlapped
      BY <1>1 DEF SyncStep, FetchFails, Answer, Convert, Lookup, Act, Finish, AtWork
    <3>2. \E to : pc' = [pc EXCEPT ![q] = to]
      <4>1. CASE UNCHANGED pc
        BY <4>1 DEF Shape, SyncTyped
      <4>2. CASE ~UNCHANGED pc
        BY <1>1, <4>2 DEF SyncStep, FetchFails, Answer, Convert, Lookup, Act, Finish
      <4> QED
        BY <4>1, <4>2
    <3>3. pc'[p] = pc[p]
      BY <2>2, <3>2, Places DEF Shape, SyncTyped
    <3> QED
      BY <2>2, <3>1, <3>3, AloneBusy, Places
  <2> QED
    BY <2>1, <2>2
<1>2. ASSUME NEW e \in Editors, EditStep(e)
      PROVE  AloneOK(p)'
  <2>1. pc[e] \in AtWork /\ UNCHANGED overlapped
    BY <1>2 DEF EditStep, EditStamp, EditWrite, AtWork
  <2>2. PICK to : pc' = [pc EXCEPT ![e] = to]
    BY <1>2 DEF EditStep, EditStamp, EditWrite
  <2>3. e \in Procs /\ e # p /\ pc'[p] = pc[p]
    BY <2>2, Places DEF Shape, SyncTyped
  <2> QED
    BY <2>1, <2>3, AloneBusy
<1>3. ASSUME NEW e \in Editors, NEW id \in Ids, EditLookup(e, id)
      PROVE  AloneOK(p)'
  <2>1. /\ pc' = [pc EXCEPT ![e] = "stamp"]
        /\ overlapped' = overlapped \cup {x \in Syncers : pc[x] \in AtWork}
    BY <1>3 DEF EditLookup
  <2>2. pc'[p] = pc[p]
    BY <2>1, Places DEF Shape, SyncTyped
  <2> QED
    BY <2>1, <2>2 DEF AloneOK, AloneP
<1>4. CASE UNCHANGED syncVars \/ \E id \in Ids, state \in States \cup {Gone} : Change(id, state)
  BY <1>4, AloneKept DEF syncVars, registryVars, stampVars, Change
<1> QED
  BY <1>1, <1>2, <1>3, <1>4, AloneScheduler DEF SyncNext

-----------------------------------------------------------------------------
LEMMA SyncInvInit ==
  SyncInit => /\ Inv /\ Shape /\ StaleOnlyIfRaced /\ StampsOK
              /\ \A p \in Syncers : AloneOK(p)
<1> SUFFICES ASSUME SyncInit
             PROVE  /\ Inv /\ Shape /\ StaleOnlyIfRaced /\ StampsOK
                    /\ \A p \in Syncers : AloneOK(p)
  OBVIOUS
<1>1. Inv
  BY InvInit DEF SyncInit
<1>2. \A p \in Procs : pc[p] \notin AtWork /\ since[p] = {}
  BY DEF SyncInit, AtWork
<1>3. StaleOnlyIfRaced /\ \A p \in Syncers : AloneOK(p)
  BY <1>2, Places DEF StaleOnlyIfRaced, AloneOK, AloneP, AtWork
<1>4. StampsOK
  BY <1>2 DEF StampsOK
<1> QED
  BY <1>1, <1>3, <1>4, ShapeInit

LEMMA SyncInvAlways == SyncSpec => [](Inv /\ Shape)
<1>1. SyncInit => Inv /\ Shape
  BY SyncInvInit
<1>2. Inv /\ Shape /\ [SyncNext]_syncVars => (Inv /\ Shape)'
  BY NextShape, SyncKeepsInv DEF Inv
<1> QED
  BY <1>1, <1>2, PTL DEF SyncSpec

(* Every answer, decision and stamp is of the kind the code's types say, and  *)
(* a decision is held only between the lookup and the write it is for, for    *)
(* any number of synchronisations and API requests.                           *)
THEOREM SyncTypes == SyncSpec => []SyncTypeOK
<1>1. Inv /\ Shape => SyncTypeOK
  BY ShapeTypes DEF Inv
<1> QED
  BY SyncInvAlways, <1>1, PTL

(* Synchronisations and API requests that interleave between lookup and write *)
(* never corrupt the indexes of the registry: it is only which copy is kept   *)
(* that they can get wrong.                                                   *)
THEOREM SyncIndexes == SyncSpec => [](RoomIndexExact /\ KindIndexExact /\ NeverHidden)
<1>1. Inv => RoomIndexExact /\ KindIndexExact /\ NeverHidden
  BY DEF Inv
<1> QED
  BY SyncInvAlways, <1>1, PTL

(* shouldUpdateEntity keeps an older copy from replacing a newer one, except  *)
(* in the window between its answer and the update.                           *)
THEOREM StaleOnlyInWindow == SyncSpec => []StaleOnlyIfRaced
<1>1. SyncInit => StaleOnlyIfRaced
  BY SyncInvInit
<1>2. (Inv /\ Shape) /\ StaleOnlyIfRaced /\ [SyncNext]_syncVars => StaleOnlyIfRaced'
  BY StaleNext DEF Inv
<1> QED
  BY <1>1, <1>2, SyncInvAlways, PTL DEF SyncSpec

Mirrors ==
  \A p \in Syncers : Finish(p) /\ p \notin overlapped =>
    \A id \in Ids : ans[p][id] # Gone =>
       /\ Registered(id)
       /\ entities[id].source = HA
       /\ entities[id].state = ans[p][id]

(* A synchronisation nobody overlaps with leaves the registry equal to its    *)
(* answer: nothing is skipped, refused or left behind, whatever was there.    *)
THEOREM AloneSyncMirrors == SyncSpec => AloneMirrors
<1> DEFINE Own == StampsOK /\ \A p \in Syncers : AloneOK(p)
<1>1. SyncInit => Own
  BY SyncInvInit
<1>2. (Inv /\ Shape) /\ Own /\ [SyncNext]_syncVars => Own'
  <2> SUFFICES ASSUME Inv, Shape, Own, [SyncNext]_syncVars PROVE Own'
    OBVIOUS
  <2>1. StampsOK'
    BY StampsKept
  <2>2. \A p \in Syncers : AloneOK(p)'
    BY AloneNext DEF Inv
  <2> QED
    BY <2>1, <2>2
<1>3. Own => Mirrors
  <2> SUFFICES ASSUME Own, NEW p \in Syncers, Finish(p), p \notin overlapped
               PROVE  \A id \in Ids : Done(p, id)
    BY DEF Done, Mirrors
  <2>1. pc[p] = "next" /\ todo[p] = {} /\ AloneP(p)
    BY DEF Finish, AloneP, AtWork
  <2> QED
    BY <2>1 DEF AloneOK
<1> HIDE DEF Own
<1>4. SyncSpec => []Own
  BY <1>1, <1>2, SyncInvAlways, PTL DEF SyncSpec
<1>5. Own => [Mirrors]_syncVars
  BY <1>3
<1>6. [][Mirrors]_syncVars => AloneMirrors
  BY PTL DEF Mirrors, AloneMirrors
<1> QED
  BY <1>4, <1>5, <1>6, PTL
=============================================================================
