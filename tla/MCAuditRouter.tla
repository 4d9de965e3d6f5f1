--------------------------- MODULE MCAuditRouter ---------------------------
(***************************************************************************)
(* Instances of AuditRouter: sink 1 is Cloud Logging, sink 2 Cloud Storage.*)
(***************************************************************************)
EXTENDS AuditRouter

AnyEnv == EnvKinds

FailingEnv == {"request", "sinkFails"}
=============================================================================
