-------------------------- MODULE MCFolderPrecreator --------------------------
(***************************************************************************)
(* Instances of FolderPrecreator: folder "sub" is in folder "top".         *)
(***************************************************************************)
EXTENDS FolderPrecreator

MCPath == [f \in {"top", "sub"} |-> IF f = "sub" THEN {"top", "sub"} ELSE {"top"}]

AnyEnv == EnvKinds
=============================================================================
