------------------------ MODULE MCAutomationEngine ------------------------
(* Instances of AutomationEngine for TLC.                                    *)
EXTENDS AutomationEngine

Body(enabled, mode, t, ok) ==
    [id |-> "a", enabled |-> enabled, mode |-> mode,
     triggers |-> <<[id |-> t, ok |-> ok]>>]

(* One rule, sent enabled; sent disabled with a trigger cron refuses.        *)
RunBodies == {Body(TRUE, "single", "a0", TRUE), Body(FALSE, "parallel", "a1", FALSE)}
SingleBody == {Body(TRUE, "single", "a0", TRUE)}
===========================================================================
