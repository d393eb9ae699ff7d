-------------------------- MODULE MC_DeployWizard ---------------------------
(* A production org and a sandbox, a row to deploy and a row to delete. When  *)
(* the target could not be read the first has no difference to show.         *)
EXTENDS DeployWizard, TLC

CONSTANTS prod, dev, differs, extra

MCStatus == (differs :> "changed") @@ (extra :> "missing-source")
=============================================================================
