--------------------------- MODULE EntityRegistry ---------------------------
(***************************************************************************)
(* DefaultEntityRegistry (internal/core/types/registries/entity_registry): *)
(* the map from an entity's ID to the entity, and three indexes kept       *)
(* beside it, each a list of IDs per type, per source and per room. Every  *)
(* operation holds the registry's lock from its first check to its last    *)
(* assignment, so each is one action here. An update moves the ID between  *)
(* the lists of two rooms, and leaves the lists of types and sources as    *)
(* they are whatever the entity's new type and source.                     *)
(*                                                                         *)
(* The value of an entity is the four fields somebody asks about: its      *)
(* type, its source, its room, and a state standing for everything else.   *)
(* A missing room ID and an empty one are both NoRoom: the code treats     *)
(* them alike.                                                             *)
(***************************************************************************)
EXTENDS Integers, Sequences

CONSTANTS Ids,        \* the IDs of entities
          Types,      \* types of entities
          Sources,    \* where entities come from
          Rooms,      \* rooms of the house
          NoRoom,     \* the room of an entity that is in none
          States,     \* what an entity may report
          None,       \* the value of an ID that is not registered
          MaxListed   \* bound: the longest list the exploration lets grow

Entity == [type : Types, source : Sources, room : Rooms \cup {NoRoom}, state : States]

ASSUME EntityRegistryAssumption ==
    /\ NoRoom \notin Rooms
    /\ None \notin Entity
    /\ MaxListed \in Nat

VARIABLES entities,   \* entities: the registered entity of each ID, or None
          byType,     \* entitiesByType: the IDs listed under each type
          bySource,   \* entitiesBySource
          byRoom,     \* entitiesByRoom
          moved       \* history: IDs an update ever gave another type or source

registryVars == <<entities, byType, bySource, byRoom, moved>>

Registered(id) == entities[id] # None

Listed(s, id) == \E i \in DOMAIN s : s[i] = id

AtMostOnce(s, id) == \A i, j \in DOMAIN s : s[i] = id /\ s[j] = id => i = j

\* The list s has id exactly when it should, and then once.
Exact(s, id, should) == (Listed(s, id) <=> should) /\ AtMostOnce(s, id)

TypeOK ==
    /\ entities \in [Ids -> Entity \cup {None}]
    /\ byType \in [Types -> Seq(Ids)]
    /\ bySource \in [Sources -> Seq(Ids)]
    /\ byRoom \in [Rooms -> Seq(Ids)]
    /\ moved \subseteq Ids

Init ==
    /\ entities = [id \in Ids |-> None]
    /\ byType = [t \in Types |-> <<>>]
    /\ bySource = [s \in Sources |-> <<>>]
    /\ byRoom = [r \in Rooms |-> <<>>]
    /\ moved = {}

-----------------------------------------------------------------------------
\* GetEntitiesByType, BySource, ByRoom: IDs of the list that are still registered.
Query(index, key) == {id \in Ids : Registered(id) /\ Listed(index[key], id)}

\* removeFromSlice: the first occurrence goes and the rest moves up one place.
removeFromSlice(s, id) ==
    IF Listed(s, id)
    THEN [k \in 1 .. Len(s) - 1 |-> IF \E j \in 1 .. k : s[j] = id THEN s[k + 1] ELSE s[k]]
    ELSE s

\* A list is deleted from its index when it is empty: here it stays, empty.
Add(index, key, id) == [index EXCEPT ![key] = Append(@, id)]

Drop(index, key, id) == [index EXCEPT ![key] = removeFromSlice(@, id)]

AddToRoom(index, room, id) == IF room = NoRoom THEN index ELSE Add(index, room, id)

DropFromRoom(index, room, id) == IF room = NoRoom THEN index ELSE Drop(index, room, id)

\* mutant: an update forgets to take the entity out of its old room
ReindexKeepsOld(index, old, new, id) ==
    IF old = new THEN index ELSE AddToRoom(index, new, id)

\* updateEntityInternal's part for the rooms.
Reindex(index, old, new, id) ==
    IF old = new THEN index ELSE AddToRoom(DropFromRoom(index, old, id), new, id)

\* mutant: an update takes the entity out of the list of its old type only
UpdateDropsType(id, e) ==
    /\ byRoom' = Reindex(byRoom, entities[id].room, e.room, id)
    /\ entities' = [entities EXCEPT ![id] = e]
    /\ moved' = IF e.type = entities[id].type /\ e.source = entities[id].source
                THEN moved ELSE moved \cup {id}
    /\ byType' = IF e.type = entities[id].type THEN byType
                 ELSE Drop(byType, entities[id].type, id)
    /\ UNCHANGED bySource

\* updateEntityInternal, on an ID that is registered.
updateEntityInternal(id, e) ==
    /\ byRoom' = Reindex(byRoom, entities[id].room, e.room, id)
    /\ entities' = [entities EXCEPT ![id] = e]
    /\ moved' = IF e.type = entities[id].type /\ e.source = entities[id].source
                THEN moved ELSE moved \cup {id}
    /\ UNCHANGED <<byType, bySource>>

-----------------------------------------------------------------------------
\* mutant: registering a known ID of the same source is taken for a new one
AddTwice(id, e) ==
    /\ entities' = [entities EXCEPT ![id] = e]
    /\ byType' = Add(byType, e.type, id)
    /\ bySource' = Add(bySource, e.source, id)
    /\ byRoom' = AddToRoom(byRoom, e.room, id)
    /\ UNCHANGED moved

\* RegisterEntity of an ID that is new.
RegisterNew(id, e) ==
    /\ ~Registered(id)
    /\ entities' = [entities EXCEPT ![id] = e]
    /\ byType' = Add(byType, e.type, id)
    /\ bySource' = Add(bySource, e.source, id)
    /\ byRoom' = AddToRoom(byRoom, e.room, id)
    /\ UNCHANGED moved

\* RegisterEntity of an ID the same source has registered: an update.
RegisterAgain(id, e) ==
    /\ Registered(id)
    /\ entities[id].source = e.source
    /\ updateEntityInternal(id, e)

\* RegisterEntity returns ErrEntityAlreadyRegistered, UpdateEntity and
\* UnregisterEntity return ErrEntityNotFound: nothing is touched.
RegisterRefused(id, e) ==
    /\ Registered(id)
    /\ entities[id].source # e.source
    /\ UNCHANGED registryVars

RegisterEntity(id, e) ==
    RegisterNew(id, e) \/ RegisterAgain(id, e) \/ RegisterRefused(id, e)

UpdateEntity(id, e) ==
    /\ Registered(id)
    /\ updateEntityInternal(id, e)

NotFound(id) == ~Registered(id) /\ UNCHANGED registryVars

\* UnregisterEntity takes the ID out of the lists of the type, the source and
\* the room the entity has now.
UnregisterEntity(id) ==
    /\ Registered(id)
    /\ entities' = [entities EXCEPT ![id] = None]
    /\ byType' = Drop(byType, entities[id].type, id)
    /\ bySource' = Drop(bySource, entities[id].source, id)
    /\ byRoom' = DropFromRoom(byRoom, entities[id].room, id)
    /\ UNCHANGED moved

Unfilled ==
    /\ \A t \in Types : Len(byType[t]) < MaxListed
    /\ \A s \in Sources : Len(bySource[s]) < MaxListed

Next ==
    \E id \in Ids :
       \/ \E e \in Entity : Unfilled /\ RegisterEntity(id, e)
       \/ \E e \in Entity : UpdateEntity(id, e)
       \/ UnregisterEntity(id)
       \/ NotFound(id)

Spec == Init /\ [][Next]_registryVars

-----------------------------------------------------------------------------
(* Properties *)

\* The room index is exact: an ID is in the list of a room exactly when it is
\* registered with that room, and then once. GetEntitiesByRoom therefore
\* returns every entity of the room, and no other, once each, whatever
\* sequence of registrations, moves and removals went before.
RoomIndexExact ==
    \A r \in Rooms, id \in Ids :
       Exact(byRoom[r], id, Registered(id) /\ entities[id].room = r)

\* For the IDs no update ever gave another type or source, the other two
\* indexes are exact in the same way, re-registrations included. The proviso
\* is needed: updateEntityInternal leaves these lists alone.
KindIndexExact ==
    \A id \in Ids \ moved :
       /\ \A t \in Types :
             Exact(byType[t], id, Registered(id) /\ entities[id].type = t)
       /\ \A s \in Sources :
             Exact(bySource[s], id, Registered(id) /\ entities[id].source = s)

\* A registered entity, moved ones included, is under some type and some
\* source: no sequence of updates hides it from every query.
NeverHidden ==
    \A id \in Ids : Registered(id) =>
       /\ \E t \in Types : id \in Query(byType, t)
       /\ \E s \in Sources : id \in Query(bySource, s)
=============================================================================
