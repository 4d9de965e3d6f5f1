----------------------------- MODULE MCIamProbe -----------------------------
(***************************************************************************)
(* The environments in which IamProbe is checked.                          *)
(***************************************************************************)
EXTENDS IamProbe

\* Everything.
AnyEnv == EnvKinds

\* The StatefulSet is created once and then updated in place; the probe Job is
\* created.  For the Job a touch is what any other update is.
UpdatingEnv ==
  {"create", "touch", "status", "dryRun", "reject", "jobFails", "apiError", "crash"}

\* Nothing but the StatefulSet controller's status writes.
StatusEnv == {"create", "status"}

DryRunEnv == {"dryRun"}

TouchEnv == {"create", "touch"}
=============================================================================
