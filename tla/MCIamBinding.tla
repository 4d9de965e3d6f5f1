---------------------------- MODULE MCIamBinding ----------------------------
(***************************************************************************)
(* Instances of IamBinding.  "dev" needs no reason, "adm" does, and no     *)
(* configuration matches "odd".                                            *)
(***************************************************************************)
EXTENDS IamBinding

MCMaxDuration == [g \in Groups |-> 1]

\* In the beginning everyone is a member of every group.
MCMembers == SAs \X Groups

\* Everything.
AnyEnv == EnvKinds

\* What the reconciler has to cope with.
LiveEnv == {"create", "delete", "revoke", "gcp", "foreign", "tamper", "apiError", "crash"}
=============================================================================
