------------------------------ MODULE SideTools ------------------------------
(***************************************************************************)
(* The programs around a run, each modelled in a module of its own.  They  *)
(* share no state with one another, so a behaviour is one of a single      *)
(* program while the others rest.                                          *)
(***************************************************************************)
EXTENDS Publish, Upgrade, CallGraph, ScanBody, HarnessStats

VARIABLE tool   \* the program that works

toolVars == <<publishVars, upgradeVars, graphVars, scanVars, harnessVars, tool>>

PublishRests ==
    /\ rows = <<>> /\ run = "trapped" /\ site = <<>> /\ tmps = <<>>
    /\ job = [d \in Renderers |-> Idle("rest")] /\ faults = 0
    /\ overlapped = FALSE /\ lost = {} /\ clean = FALSE /\ saw = FALSE /\ shown = 0

UpgradeRests ==
    /\ hasRunId = TRUE /\ notNull = FALSE
    /\ bucketRows = <<>> /\ foundIn = <<>> /\ triaged = {}
    /\ opening = [p \in Openers |-> [at |-> "start", nulls |-> {}]]

GraphRests ==
    /\ GraphInit
    /\ calls = [n \in Nodes |-> {}] /\ roots = {CHOOSE n \in Nodes : TRUE}

ToolInit ==
    /\ HarnessInit /\ ScanInit
    /\ \/ tool = "publish" /\ PublishInit /\ UpgradeRests /\ GraphRests
       \/ tool = "upgrade" /\ PublishRests /\ UpgradeInit /\ GraphRests
       \/ tool = "graph" /\ PublishRests /\ UpgradeRests /\ GraphInit
       \/ tool \in {"scan", "harness"} /\ PublishRests /\ UpgradeRests /\ GraphRests

ToolNext ==
    /\ \/ /\ tool = "publish" /\ PublishNext
          /\ UNCHANGED <<upgradeVars, graphVars, scanVars, harnessVars>>
       \/ /\ tool = "upgrade" /\ UpgradeNext
          /\ UNCHANGED <<publishVars, graphVars, scanVars, harnessVars>>
       \/ /\ tool = "graph" /\ GraphNext
          /\ UNCHANGED <<publishVars, upgradeVars, scanVars, harnessVars>>
       \/ /\ tool = "scan" /\ ScanNext
          /\ UNCHANGED <<publishVars, upgradeVars, graphVars, harnessVars>>
       \/ /\ tool = "harness" /\ HarnessNext
          /\ UNCHANGED <<publishVars, upgradeVars, graphVars, scanVars>>
    /\ UNCHANGED tool

ToolSpec == ToolInit /\ [][ToolNext]_toolVars /\ PublishFairness
=============================================================================
