--------------------------- MODULE MCBucketMounts ---------------------------
(***************************************************************************)
(* Two teams with a standard bucket "p" each.  The administrators' group   *)
(* of team a matches two configurations, the group "odd" none.             *)
(* The annotations can name a bucket that shadows the standard mount       *)
(* point, team a's standard bucket, and a shared one whose volume has the  *)
(* name of that bucket's.                                                  *)
(***************************************************************************)
EXTENDS BucketMounts

MCConfigs == 2
MCGroups == {"dev-a", "adm-a", "dev-b", "odd"}
MCSuffix ==
  [g \in MCGroups |-> CASE g = "adm-a" -> {1, 2} [] g = "odd" -> {} [] OTHER -> {2}]
MCToTeam == [c \in 1..MCConfigs |-> [g \in MCGroups |-> IF g = "dev-b" THEN "b" ELSE "a"]]
MCReasonRequired == {1}

MCTeams == {"a", "b"}
MCPoints == {"p", "pa", "s"}
MCNames == {"v-p", "v-pa"}
MCBuckets == {"p", "pa", "pb", "shared"}
MCVolume == [m \in MCPoints |-> IF m = "p" THEN "v-p" ELSE "v-pa"]
MCExtra == {"p", "pa"}
MCShared == {"s"}
MCSharedBucket == [m \in MCShared |-> "shared"]
MCStandard == [t \in MCTeams |-> {<<"p", IF t = "a" THEN "pa" ELSE "pb">>}]
MCDurations == {1, BadDur}

AnyEnv == EnvKinds
CreateEnv == {"create"}
=============================================================================
