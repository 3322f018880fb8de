-------------------------------- MODULE MCNight --------------------------------
(* Night with consolidation, a diary that costs more than a whole night,   *)
(* a strategy review once a night, and a report with its own budget.       *)
EXTENDS Night, TLC

CONSTANTS consolidate, diary, strategy, report

ByPriority == <<consolidate, diary, strategy, report>>
OnceANight == {strategy}
OwnBudget == {report}
Prices == (consolidate :> 1) @@ (diary :> 3) @@ (strategy :> 1) @@ (report :> 5)
Ceilings == (TRUE :> 4) @@ (FALSE :> 2)
=============================================================================
