------------------------------ MODULE MCPlane ------------------------------
(***************************************************************************)
(* The components behind the apply loop, checked one at a time: the state  *)
(* backend with its index, the status tracker, the health gatherer, the    *)
(* upgrade manager and the converge engine.  A behaviour has one of them   *)
(* in focus, the others rest in their initial states.                      *)
(***************************************************************************)
EXTENDS TFState, StatusPlane, Upgrade, Converge

CONSTANTS m1, m2

VARIABLE focus

\* Rows come in the order of their names, so the worker is listed first.
MCMachineList == <<m2, m1>>

PlaneInit ==
  /\ TFStateInit /\ StatusPlaneInit /\ UpgradeInit /\ ConvergeInit
  /\ focus \in {"tfstate", "tracker", "gather", "upgrade", "converge"}

Except(vars) == UNCHANGED focus /\ UNCHANGED vars
PlaneNext ==
  \/ /\ focus = "tfstate" /\ TFStateNext
     /\ Except(<<statusPlaneVars, upgradeVars, convergeVars>>)
  \/ /\ focus = "tracker" /\ TrackerNext
     /\ Except(<<tfStateVars, upgradeVars, convergeVars>>)
  \/ /\ focus = "gather" /\ GatherNext
     /\ Except(<<tfStateVars, upgradeVars, convergeVars>>)
  \/ /\ focus = "upgrade" /\ UpgradeNext
     /\ Except(<<tfStateVars, statusPlaneVars, convergeVars>>)
  \/ /\ focus = "converge" /\ ConvergeNext
     /\ Except(<<tfStateVars, statusPlaneVars, upgradeVars>>)
=============================================================================
