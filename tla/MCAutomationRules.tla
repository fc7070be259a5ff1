------------------------- MODULE MCAutomationRules -------------------------
(* Instances of AutomationRules for TLC.                                     *)
EXTENDS AutomationRules

Body(id, enabled, triggers) ==
    [id |-> id, enabled |-> enabled, mode |-> "single", triggers |-> triggers]
Good(t) == [id |-> t, ok |-> TRUE]
Bad(t) == [id |-> t, ok |-> FALSE]

(* rules_owned: two rules that share a trigger ID, one of which is posted    *)
(* again while in use, and a rule whose second trigger may be refused.       *)
OwnedBodies ==
    {Body("a", on, <<Good("t0"), Good("t1")>>) : on \in BOOLEAN}
    \cup {Body("b", on, <<Good("t0")>>) : on \in BOOLEAN}
    \cup {Body("c", on, <<Good("c0"), second>>) :
            on \in BOOLEAN, second \in {Good("c1"), Bad("c1")}}
Posted == {"b"}
=============================================================================
