---------------------------- MODULE MCTaskQueue ----------------------------
(* Instances of TaskQueue for TLC.                                           *)
EXTENDS TaskQueue, TLC

CONSTANTS w1, w2, c1, c2, j1

After(id, kind) == [on |-> id, kind |-> kind]
Item(weight, deadline, links) ==
    [weight |-> weight, start |-> NULL, deadline |-> deadline,
     handled |-> TRUE, deps |-> links]
One(item) == [items |-> <<item>>, sequential |-> FALSE]
Sequence(items) == [items |-> items, sequential |-> TRUE]

(* queue_races: one action, whose type has a registered handler or none.     *)
OneBulk == {One([Item(5, NULL, {}) EXCEPT !.handled = h]) : h \in BOOLEAN}

(* queue_links: an action with a deadline, and one that needs the first to   *)
(* succeed.                                                                  *)
LinkedBulks ==
    {One(Item(5, 1, {})), One(Item(5, NULL, {After(1, "success")}))}

(* No action and no property of queue_links reads action_results.            *)
AllButResults == <<rows, lastId, deps, now, locals, history>>

(* queue_single: plain actions and a sequential pair, all of one priority.   *)
SingleBulks ==
    {One(Item(5, NULL, {})), Sequence(<<Item(5, NULL, {}), Item(5, NULL, {})>>)}

ClientSymmetry == Permutations({c1, c2})
=============================================================================
