-------------------------- MODULE ActionLifecycle --------------------------
(* What the action queue promises to those who enqueue: one runner at a time, *)
(* no start after a success, an end that only a handler still running may     *)
(* overwrite, a removal that nothing undoes.  What the table says of an       *)
(* action and whether somebody runs it are two things: a crash or a failed    *)
(* database call may leave an action busy with nobody running it, and a       *)
(* cancellation, an expiry or a deletion does not stop the one who runs it.   *)
CONSTANT Ids

VARIABLES state,    \* what the table says of each action
          running,  \* the actions somebody is running
          won       \* the actions whose handler has succeeded
vars == <<state, running, won>>

States == {"none", "queued", "busy", "ended", "removed"}

Init == state = [id \in Ids |-> "none"] /\ running = {} /\ won = {}

Move(id, from, to) ==
    /\ state[id] \in from
    /\ state' = [state EXCEPT ![id] = to]
Leave(id) ==
    /\ id \in running
    /\ running' = running \ {id}
    /\ UNCHANGED won

Submit(id) == Move(id, {"none"}, "queued") /\ UNCHANGED <<running, won>>
Start(id) ==
    /\ id \notin running \cup won
    /\ Move(id, {"queued"}, "busy")
    /\ running' = running \cup {id}
    /\ UNCHANGED won
Win(id) ==
    /\ id \in running \ won
    /\ won' = won \cup {id}
    /\ UNCHANGED <<state, running>>

(* The runner's own outcome, written over an end that came while it ran: the *)
(* only way from "ended" back to "queued" is a retry by a handler that was   *)
(* still running when the action ended, and that has not succeeded.          *)
Finish(id) == Leave(id) /\ Move(id, {"busy", "ended"}, "ended")
Retry(id) == id \notin won /\ Leave(id) /\ Move(id, {"busy", "ended"}, "queued")

(* Cancelled or expired by somebody who does not run it, removed by anybody. *)
End(id) == Move(id, {"queued", "busy"}, "ended") /\ UNCHANGED <<running, won>>
Remove ==
    /\ UNCHANGED <<running, won>>
    /\ \E ids \in SUBSET {id \in Ids : state[id] # "none"} :
         state' = [id \in Ids |-> IF id \in ids THEN "removed" ELSE state[id]]

(* Runners are lost, several at once when the process dies.                  *)
Lose ==
    /\ UNCHANGED <<state, won>>
    /\ running' \subseteq running

Next ==
    \/ Lose \/ Remove
    \/ \E id \in Ids :
         Submit(id) \/ Start(id) \/ Win(id) \/ Finish(id) \/ Retry(id) \/ End(id)

Spec == Init /\ [][Next]_vars
=============================================================================
