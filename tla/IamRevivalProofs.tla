-------------------------- MODULE IamRevivalProofs --------------------------
(***************************************************************************)
(* Proofs about IamProbe, continued: which probe revives a StatefulSet,    *)
(* how long its Job stays, and with how many replicas the StatefulSet is   *)
(* revived.  They rest on the types and the coherence of the copies that   *)
(* IamProbeProofs establishes.                                             *)
(***************************************************************************)
EXTENDS IamProbeProofs

-----------------------------------------------------------------------------
(* What the steps do, in the terms of the invariants below.                *)

\* What a user submits to the webhook: a new object, or the stored one, whose
\* annotation only a reset or a replacement takes away.
Asked(o, want) ==
  /\ o.live /\ o.rv = sfs.rv
  /\ \/ ~sfs.live /\ ~o.deleting /\ o.status = "none"
     \/ /\ sfs.live /\ o.uid = sfs.uid /\ o.deleting = sfs.deleting
        /\ \/ o.status = sfs.status
           \/ o.status = "none" /\ ~Without({"reset", "replace"})'
  /\ Without({"touch", "reset", "unmanage"})' =>
       o.replicas = want /\ want \in Counts /\ (sfs.live => o.managed = sfs.managed)

LEMMA UserSteps ==
  ASSUME TypeOK, User
  PROVE  \/ \E o \in Sfs : \E want \in Nat : \E dry \in BOOLEAN :
              Asked(o, want) /\ Admit(o, want, dry)
         \/ \E n \in Counts : UserSubScale(n)
         \/ \E f \in BOOLEAN : UserDelete(f)
<1>. DEFINE Goal == \E o \in Sfs : \E want \in Nat : \E dry \in BOOLEAN :
                      Asked(o, want) /\ Admit(o, want, dry)
<1>. sfs \in Sfs /\ wanted \in Nat /\ uids \in Nat /\ Counts \subseteq Nat
  BY CountsAssumption DEF TypeOK
<1>1. ASSUME NEW n \in Counts, NEW m \in BOOLEAN
      PROVE  NewSfs(n, m) \in Sfs /\ (~sfs.live => Asked(NewSfs(n, m), n))
  <2>1. NewSfs(n, m) \in Sfs
    BY DEF NewSfs, Sfs
  <2>2. ~sfs.live => Asked(NewSfs(n, m), n)
    BY DEF NewSfs, Asked
  <2>. QED  BY <2>1, <2>2
<1>2. ASSUME NEW n \in Counts, NEW m \in BOOLEAN, UserCreate(n, m) PROVE Goal
  BY <1>1, <1>2 DEF UserCreate
<1>3. ASSUME NEW n \in Counts, UserDryRun(n) PROVE Goal
  BY <1>1, <1>3 DEF UserDryRun
<1>4. ASSUME NEW n \in Counts, UserScale(n) PROVE Goal
  <2>. DEFINE o == [sfs EXCEPT !.replicas = n]
  <2>1. o \in Sfs
    BY DEF Sfs
  <2>2. Asked(o, n)
    BY <1>4 DEF UserScale, Asked, Sfs
  <2>. QED  BY <1>4, <2>1, <2>2 DEF UserScale
<1>5. ASSUME NEW n \in Counts, UserReplace(n) PROVE Goal
  <2>. DEFINE o == [sfs EXCEPT !.status = "none", !.saved = 0, !.replicas = n, !.mounts = 0]
  <2>1. o \in Sfs
    BY DEF Sfs
  <2>2. ~Without({"reset", "replace"})'
    BY <1>5 DEF UserReplace, Event, Without
  <2>3. Asked(o, n)
    BY <1>5, <2>2 DEF UserReplace, Asked, Sfs
  <2>. QED  BY <1>5, <2>1, <2>3 DEF UserReplace
<1>6. CASE UserTouch
  <2>1. ~Without({"touch", "reset", "unmanage"})'
    BY <1>6 DEF UserTouch, Event, Without
  <2>2. Asked(sfs, wanted)
    BY <1>6, <2>1 DEF UserTouch, Asked
  <2>. QED  BY <1>6, <2>2 DEF UserTouch
<1>7. CASE UserReset
  <2>. DEFINE o == [sfs EXCEPT !.status = "none", !.saved = 0]
  <2>1. o \in Sfs
    BY DEF Sfs
  <2>2. ~Without({"touch", "reset", "unmanage"})' /\ ~Without({"reset", "replace"})'
    BY <1>7 DEF UserReset, Event, Without
  <2>3. Asked(o, wanted)
    BY <1>7, <2>2 DEF UserReset, Asked, Sfs
  <2>. QED  BY <1>7, <2>1, <2>3 DEF UserReset
<1>8. CASE UserUnmanage
  <2>. DEFINE o == [sfs EXCEPT !.managed = ~sfs.managed]
  <2>1. o \in Sfs
    BY DEF Sfs
  <2>2. ~Without({"touch", "reset", "unmanage"})'
    BY <1>8 DEF UserUnmanage, Event, Without
  <2>3. Asked(o, wanted)
    BY <1>8, <2>2 DEF UserUnmanage, Asked, Sfs
  <2>. QED  BY <1>8, <2>1, <2>3 DEF UserUnmanage
<1>. QED
  BY <1>2, <1>3, <1>4, <1>5, <1>6, <1>7, <1>8 DEF User

\* Handle changes the count and the annotation of an object, and marks nothing
\* as done.
LEMMA MutatedFields ==
  ASSUME NEW o \in Sfs
  PROVE  /\ Mutated(o) \in Sfs
         /\ Mutated(o).live = o.live /\ Mutated(o).rv = o.rv /\ Mutated(o).uid = o.uid
         /\ Mutated(o).managed = o.managed /\ Mutated(o).deleting = o.deleting
         /\ Mutated(o).status = "done" <=> o.status = "done"
<1>1. Mutated(o) \in Sfs
  BY MutatedType
<1>2. CASE Probes(o)
  BY <1>1, <1>2 DEF Mutated, Probes, Sfs
<1>3. CASE ~Probes(o)
  BY <1>1, <1>3 DEF Mutated
<1>. QED  BY <1>2, <1>3

\* The probe's Job is replaced only when there is none.
LEMMA LaunchedJob ==
  ASSUME NEW o, LaunchIamProbe(o)
  PROVE  job' = job \/ (~job.live /\ job' = ProbeJob)
BY DEF LaunchIamProbe

\* The reconciler goes on only with a StatefulSet that is not done.
ReadUnprobed == pc \in {"createCM", "updSfs"} => lSfs.live /\ lSfs.status # "done"

LEMMA ReadsInvariant == Spec => []ReadUnprobed
<1>1. Init => ReadUnprobed
  BY DEF Init, ReadUnprobed
<1>2. ReadUnprobed /\ [Next]_vars => ReadUnprobed'
  <2>. SUFFICES ASSUME ReadUnprobed, [Next]_vars PROVE ReadUnprobed'
    OBVIOUS
  <2>1. ASSUME UNCHANGED <<pc, lSfs>> PROVE ReadUnprobed'
    BY <2>1 DEF ReadUnprobed
  <2>2. CASE User
    BY <2>1, <2>2 DEF User, UserCreate, UserDryRun, UserScale, UserSubScale,
       UserReplace, UserTouch, UserReset, UserUnmanage, UserDelete, Admit, local
  <2>3. CASE Cluster
    BY <2>1, <2>3 DEF Cluster, FinishDelete, Store, Reject, WriteStatus, JobCompletes,
       JobFails, TtlDeletes, CollectConfigMap, SyncSfs, SyncJob, Resync, local
  <2>4. ASSUME Idle PROVE ReadUnprobed'
    BY <2>4 DEF Idle, ReadUnprobed
  <2>5. CASE GetJob
    BY <2>4, <2>5 DEF GetJob, ReadUnprobed
  <2>6. CASE GetSfs
    BY <2>4, <2>6 DEF GetSfs, Goto, Path, Requeue, ReadUnprobed
  <2>7. CASE DeleteJob \/ UpdateJob
    BY <2>4, <2>7 DEF DeleteJob, UpdateJob, Return, Requeue
  <2>8. CASE CreateConfigMap
    BY <2>4, <2>8 DEF CreateConfigMap, Goto, Requeue, ReadUnprobed
  <2>9. CASE UpdateSfs
    BY <2>4, <2>9 DEF UpdateSfs, Goto, Requeue, ReadUnprobed
  <2>10. CASE ApiError \/ Crash
    BY <2>4, <2>10 DEF ApiError, Crash, Requeue
  <2>11. CASE UNCHANGED vars
    BY <2>1, <2>11 DEF vars
  <2>. QED
    BY <2>2, <2>3, <2>5, <2>6, <2>7, <2>8, <2>9, <2>10, <2>11 DEF Next, Reconcile
<1>. QED
  BY <1>1, <1>2, PTL DEF Spec
-----------------------------------------------------------------------------
(***************************************************************************)
(* The replica count.  While every write states the count, an admitted     *)
(* object carries the count its request states, in the annotation or in    *)
(* spec.replicas, and so does the stored object with the last request that *)
(* storage took.  The reconciler's write moves it from one to the other,   *)
(* of the object as it is stored: its copy is current when it is taken.    *)
(***************************************************************************)
CountKept(o, want) ==
  o.live /\ o.managed /\ ~o.deleting =>
    /\ o.status = "running" => o.saved = want
    /\ o.status = "done" => o.replicas = want

CountInv ==
  /\ SuspensionInv
  /\ CountKept(sfs, wanted)
  /\ req.live => CountKept(req.obj, req.want)

Stated == {"touch", "reset", "unmanage", "subscale"}

\* An object that states the count is admitted with it.
LEMMA MutatedKeepsCount ==
  ASSUME NEW o \in Sfs, NEW want, o.replicas = want
  PROVE  CountKept(Mutated(o), want)
<1>1. CASE Probes(o)
  BY <1>1 DEF Mutated, CountKept, Sfs
<1>2. CASE ~Probes(o)
  BY <1>2 DEF Mutated, Probes, CountKept, Sfs
<1>. QED  BY <1>1, <1>2

LEMMA VersionKeepsCount ==
  ASSUME NEW o \in Sfs, NEW want, NEW rv \in Nat, CountKept(o, want)
  PROVE  CountKept([o EXCEPT !.rv = rv], want)
BY DEF CountKept, Sfs

\* What the reconciler's Update stores, when the API server takes it.
LEMMA RevivedObject ==
  ASSUME TypeOK, MountInv, UpdateSfs, UnchangedSince(sfs, lSfs)
  PROVE  /\ lSfs = sfs /\ sfs.live
         /\ sfs' \in Sfs
         /\ sfs' = [sfs EXCEPT !.status = "done", !.saved = 0, !.mounts = sfs.mounts + 1,
                               !.replicas = SavedReplicas(sfs), !.rv = sfs.rv + 1]
<1>. sfs \in Sfs /\ sfs.rv + 1 \in Nat
  BY DEF TypeOK, Sfs
<1>1. sfs.live /\ lSfs = sfs
  BY DEF UnchangedSince, MountInv, CopiesCoherent, Coherent
<1>2. Revived(sfs) \in Sfs /\ Revived(sfs).status = "done"
  BY RevivedType DEF Revived, Sfs
<1>3. Mutated(Revived(sfs)) = Revived(sfs)
  BY <1>2 DEF Mutated, Probes
<1>4. sfs' = [Revived(sfs) EXCEPT !.rv = sfs.rv + 1]
  BY <1>1, <1>3 DEF UpdateSfs
<1>. QED  BY <1>1, <1>2, <1>4 DEF Revived, Sfs

LEMMA CountStep ==
  ASSUME TypeOK, MountInv, ReadUnprobed, CountInv, [Next]_vars, Without(Stated)'
  PROVE  CountInv'
<1>. sfs \in Sfs /\ sfs.rv + 1 \in Nat
  BY DEF TypeOK, Sfs
<1>1. SuspensionInv'
  BY SuspensionStep DEF CountInv, Without, Stated
<1>2. ASSUME UNCHANGED <<sfs, wanted>>, req' = req \/ ~req'.live
      PROVE  CountInv'
  BY <1>1, <1>2 DEF CountInv, CountKept
<1>3. ASSUME CountKept(sfs', wanted'), req' = req \/ ~req'.live, UNCHANGED wanted
      PROVE  CountInv'
  BY <1>1, <1>3 DEF CountInv, CountKept
<1>4. CASE User
  <2>1. ASSUME NEW o \in Sfs, NEW want \in Nat, NEW dry \in BOOLEAN,
               Asked(o, want), Admit(o, want, dry)
        PROVE  CountInv'
    <3>1. o.replicas = want
      BY <2>1 DEF Asked, Without, Stated
    <3>2. CountKept(Mutated(o), want)
      BY <3>1, MutatedKeepsCount
    <3>3. UNCHANGED <<sfs, wanted>> /\ req'.obj = Mutated(o) /\ req'.want = want
      BY <2>1 DEF Admit
    <3>. QED  BY <1>1, <3>2, <3>3 DEF CountInv, CountKept
  <2>2. ASSUME NEW n \in Counts, UserSubScale(n)
        PROVE  CountInv'
    BY <2>2 DEF UserSubScale, Event, Without, Stated
  <2>3. ASSUME NEW f \in BOOLEAN, UserDelete(f)
        PROVE  CountInv'
    <3>1. sfs'.deleting \/ ~sfs'.live
      BY <2>3 DEF UserDelete, NoSfs, Sfs
    <3>. QED  BY <1>3, <2>3, <3>1 DEF UserDelete, CountKept
  <2>. QED  BY <1>4, <2>1, <2>2, <2>3, UserSteps
<1>5. CASE FinishDelete
  BY <1>3, <1>5 DEF FinishDelete, CountKept, NoSfs
<1>6. CASE Store
  <2>1. req.live /\ ~req'.live
    BY <1>6 DEF Store, NoRequest
  <2>2. CASE ~req.dry /\ req.obj.rv = sfs.rv
    <3>1. req.obj \in Sfs
      BY DEF TypeOK, Request
    <3>2. CountKept([req.obj EXCEPT !.rv = sfs.rv + 1], req.want)
      BY <2>1, <3>1, VersionKeepsCount DEF CountInv
    <3>3. sfs' = [req.obj EXCEPT !.rv = sfs.rv + 1] /\ wanted' = req.want
      BY <1>6, <2>2 DEF Store
    <3>. QED  BY <1>1, <2>1, <3>2, <3>3 DEF CountInv, CountKept
  <2>3. CASE ~(~req.dry /\ req.obj.rv = sfs.rv)
    BY <1>2, <1>6, <2>1, <2>3 DEF Store
  <2>. QED  BY <2>2, <2>3
<1>7. CASE WriteStatus
  <2>1. CountKept([sfs EXCEPT !.rv = sfs.rv + 1], wanted)
    BY VersionKeepsCount DEF CountInv
  <2>. QED  BY <1>3, <1>7, <2>1 DEF WriteStatus
<1>8. CASE Reject
  BY <1>2, <1>8 DEF Reject, NoRequest
<1>9. CASE UpdateSfs
  <2>1. CASE ~UnchangedSince(sfs, lSfs)
    BY <1>2, <1>9, <2>1 DEF UpdateSfs
  <2>2. CASE UnchangedSince(sfs, lSfs)
    <3>1. /\ lSfs = sfs /\ sfs.live
          /\ sfs' = [sfs EXCEPT !.status = "done", !.saved = 0, !.mounts = sfs.mounts + 1,
                                !.replicas = SavedReplicas(sfs), !.rv = sfs.rv + 1]
      BY <1>9, <2>2, RevivedObject
    <3>2. /\ sfs'.live = sfs.live /\ sfs'.managed = sfs.managed
          /\ sfs'.deleting = sfs.deleting /\ sfs'.status = "done"
          /\ sfs'.replicas = SavedReplicas(sfs)
      BY <3>1 DEF Sfs
    <3>3. sfs.status # "done"
      BY <1>9, <3>1 DEF UpdateSfs, ReadUnprobed
    <3>4. CountKept(sfs', wanted)
      BY <3>2, <3>3
         DEF CountInv, SuspensionInv, SuspendedIfUnprobed, CountKept, SavedReplicas
    <3>. QED  BY <1>3, <1>9, <3>4 DEF UpdateSfs
  <2>. QED  BY <2>1, <2>2
<1>10. ASSUME UNCHANGED <<sfs, wanted, req>>
       PROVE  CountInv'
  BY <1>2, <1>10
<1>. QED
  BY <1>4, <1>5, <1>6, <1>7, <1>8, <1>9, <1>10
     DEF Next, Cluster, Reconcile, JobCompletes, JobFails, TtlDeletes,
         CollectConfigMap, SyncSfs, SyncJob, Resync, GetJob, GetSfs, DeleteJob,
         CreateConfigMap, UpdateJob, ApiError, Crash, k8s, vars

LEMMA CountInvariant == Spec => [](Without(Stated) => CountInv)
<1>. DEFINE Inv == Without(Stated) => CountInv
<1>1. Init => Inv
  BY DEF Init, CountInv, CountKept, SuspensionInv, SuspendedIfUnprobed, NoSfs, NoRequest
<1>2. TypeOK /\ MountInv /\ ReadUnprobed /\ Inv /\ [Next]_vars => Inv'
  BY SeenGrows, CountStep DEF Without
<1>. QED
  BY <1>1, <1>2, TypeCorrect, MountsInvariant, ReadsInvariant, PTL DEF Spec

\* The count the user asked for last is the one a StatefulSet is suspended
\* with and revived with, for any counts and any number of writes, conflicts,
\* re-creations, lost answers and restarts, as long as every write states it.
THEOREM Remembering == Spec => []WantedReplicasRemembered
<1>1. (Without(Stated) => CountInv) => WantedReplicasRemembered
  BY DEF CountInv, CountKept, WantedReplicasRemembered, OriginalReplicasKept, Managed, Stated
<1>. QED  BY <1>1, CountInvariant, PTL
-----------------------------------------------------------------------------
(***************************************************************************)
(* One incarnation.  Until the StatefulSet is deleted, every copy of it is *)
(* of the stored incarnation, and so is the owner of the ConfigMap, which  *)
(* is therefore not collected.                                             *)
(***************************************************************************)
SameIncarnation(x) == x.live => sfs.live /\ x.uid = sfs.uid

OneIncarnation ==
  /\ ~sfs.deleting
  /\ SameIncarnation(sfsCache) /\ SameIncarnation(lSfs)
  /\ cm.live => sfs.live /\ cm.owner = sfs.uid
  /\ req.live => req.obj.live /\ ~req.obj.deleting /\ (sfs.live => req.obj.uid = sfs.uid)

\* A write of the same incarnation.
LEMMA IncarnationKept ==
  ASSUME OneIncarnation, sfs.live => sfs'.live /\ sfs'.uid = sfs.uid, ~sfs'.deleting,
         ~sfs.live /\ sfs'.live => ~req'.live,
         sfsCache' = sfsCache \/ sfsCache' = sfs', lSfs' = lSfs \/ ~lSfs'.live,
         UNCHANGED cm, req' = req \/ ~req'.live
  PROVE  OneIncarnation'
BY DEF OneIncarnation, SameIncarnation

LEMMA IncarnationStep ==
  ASSUME TypeOK, MountInv, ReadUnprobed, OneIncarnation, [Next]_vars, Without({"delete"})'
  PROVE  OneIncarnation'
<1>. sfs \in Sfs
  BY DEF TypeOK
<1>1. CASE User
  <2>1. ASSUME NEW o \in Sfs, NEW want \in Nat, NEW dry \in BOOLEAN,
               Asked(o, want), Admit(o, want, dry)
        PROVE  OneIncarnation'
    <3>1. UNCHANGED <<sfs, cm, sfsCache, lSfs>> /\ req'.obj = Mutated(o)
      BY <2>1 DEF Admit, local
    <3>2. req'.obj.live /\ ~req'.obj.deleting /\ (sfs.live => req'.obj.uid = sfs.uid)
      BY <2>1, <3>1, MutatedFields DEF Asked, OneIncarnation
    <3>. QED  BY <3>1, <3>2 DEF OneIncarnation, SameIncarnation
  <2>2. ASSUME NEW n \in Counts, UserSubScale(n)
        PROVE  OneIncarnation'
    <3>1. sfs'.live = sfs.live /\ sfs'.uid = sfs.uid /\ sfs'.deleting = sfs.deleting
      BY <2>2 DEF UserSubScale, Sfs
    <3>. QED  BY <2>2, <3>1, IncarnationKept DEF UserSubScale, local, OneIncarnation
  <2>3. ASSUME NEW f \in BOOLEAN, UserDelete(f)
        PROVE  FALSE
    BY <2>3 DEF UserDelete, Event, Without
  <2>. QED  BY <1>1, <2>1, <2>2, <2>3, UserSteps
<1>2. CASE FinishDelete
  BY <1>2 DEF FinishDelete, OneIncarnation
<1>3. CASE Store
  <2>1. UNCHANGED <<cm, sfsCache, lSfs>> /\ req.live /\ ~req'.live /\ req.obj \in Sfs
    BY <1>3 DEF Store, NoRequest, local, TypeOK, Request
  <2>2. \/ sfs' = sfs
        \/ /\ sfs'.live = req.obj.live /\ sfs'.uid = req.obj.uid
           /\ sfs'.deleting = req.obj.deleting
    BY <1>3, <2>1 DEF Store, Sfs
  <2>. QED  BY <2>1, <2>2, IncarnationKept DEF OneIncarnation
<1>4. CASE Reject
  BY <1>4, IncarnationKept DEF Reject, NoRequest, local, OneIncarnation
<1>5. CASE WriteStatus
  <2>1. sfs'.live = sfs.live /\ sfs'.uid = sfs.uid /\ sfs'.deleting = sfs.deleting
    BY <1>5 DEF WriteStatus, Sfs
  <2>. QED  BY <1>5, <2>1, IncarnationKept DEF WriteStatus, local, OneIncarnation
<1>6. CASE CollectConfigMap
  BY <1>6 DEF CollectConfigMap, OneIncarnation
<1>7. CASE SyncSfs
  BY <1>7, IncarnationKept DEF SyncSfs, k8s, local, OneIncarnation
<1>8. CASE GetSfs
  BY <1>8 DEF GetSfs, Requeue, Idle, NoSfs, k8s, OneIncarnation, SameIncarnation
<1>9. CASE CreateConfigMap
  <2>1. CASE cm.live
    BY <1>9, <2>1, IncarnationKept DEF CreateConfigMap, Requeue, Idle, NoSfs, OneIncarnation
  <2>2. CASE ~cm.live
    <3>1. /\ cm'.live /\ cm'.owner = lSfs.uid
          /\ UNCHANGED <<sfs, req, sfsCache, lSfs>>
      BY <1>9, <2>2 DEF CreateConfigMap, RefreshConfigMap
    <3>2. lSfs.live
      BY <1>9 DEF CreateConfigMap, ReadUnprobed
    <3>. QED  BY <3>1, <3>2 DEF OneIncarnation, SameIncarnation
  <2>. QED  BY <2>1, <2>2
<1>10. CASE UpdateSfs
  <2>1. CASE UnchangedSince(sfs, lSfs)
    <3>1. sfs'.live /\ sfs'.uid = sfs.uid /\ sfs'.deleting = sfs.deleting /\ sfs.live
      BY <1>10, <2>1, RevivedObject DEF Sfs
    <3>. QED  BY <1>10, <2>1, <3>1, IncarnationKept DEF UpdateSfs, OneIncarnation
  <2>2. CASE ~UnchangedSince(sfs, lSfs)
    BY <1>10, <2>2, IncarnationKept DEF UpdateSfs, Requeue, Idle, NoSfs, OneIncarnation
  <2>. QED  BY <2>1, <2>2
<1>11. CASE GetJob \/ DeleteJob \/ UpdateJob
  BY <1>11, IncarnationKept
     DEF GetJob, DeleteJob, UpdateJob, Return, Requeue, Idle, NoSfs, k8s, OneIncarnation
<1>12. CASE ApiError \/ Crash
  BY <1>12, IncarnationKept DEF ApiError, Crash, Requeue, Idle, NoSfs, k8s, OneIncarnation
<1>13. ASSUME UNCHANGED <<sfs, cm, sfsCache, lSfs, req>>
       PROVE  OneIncarnation'
  BY <1>13 DEF OneIncarnation, SameIncarnation
<1>. QED
  BY <1>1, <1>2, <1>3, <1>4, <1>5, <1>6, <1>7, <1>8, <1>9, <1>10, <1>11, <1>12, <1>13
     DEF Next, Cluster, Reconcile, JobCompletes, JobFails, TtlDeletes, SyncJob, Resync,
         k8s, local, vars

LEMMA IncarnationInvariant == Spec => [](Without({"delete"}) => OneIncarnation)
<1>. DEFINE Inv == Without({"delete"}) => OneIncarnation
<1>1. Init => Inv
  BY DEF Init, OneIncarnation, SameIncarnation, NoSfs, NoConfigMap, NoRequest
<1>2. TypeOK /\ MountInv /\ ReadUnprobed /\ Inv /\ [Next]_vars => Inv'
  BY SeenGrows, IncarnationStep DEF Without
<1>. QED
  BY <1>1, <1>2, TypeCorrect, MountsInvariant, ReadsInvariant, PTL DEF Spec

-----------------------------------------------------------------------------
(***************************************************************************)
(* The annotation only moves towards done with the reconciler, and away    *)
(* from done with a user who takes it off.  A request that was built from  *)
(* the object that is stored now says so.                                  *)
(***************************************************************************)
RequestDone ==
  req.live /\ req.obj.rv = sfs.rv /\ req.obj.status = "done" => sfs.status = "done"

Done(o) == o.live /\ o.status = "done"

RequestStaysDone ==
  req.live /\ req.obj.rv = sfs.rv /\ Done(sfs) => Done(req.obj)

\* An admitted request outlives no write of the StatefulSet.
LEMMA OldRequest ==
  ASSUME TypeOK, MountInv, sfs'.rv = sfs.rv + 1, req' = req \/ ~req'.live
  PROVE  RequestDone' /\ RequestStaysDone'
<1>1. req.live => req.obj.rv <= sfs.rv
  BY DEF MountInv, RequestMounts, SameMounts
<1>2. sfs.rv \in Nat /\ req.obj.rv \in Nat
  BY DEF TypeOK, Sfs, Request
<1>. QED  BY <1>1, <1>2 DEF RequestDone, RequestStaysDone

\* Every write of the StatefulSet gives it a new version.
LEMMA SfsWrites ==
  ASSUME TypeOK, MountInv, [Next]_vars
  PROVE  \/ \E o \in Sfs : \E want \in Nat : \E dry \in BOOLEAN :
              Asked(o, want) /\ Admit(o, want, dry)
         \/ sfs'.rv = sfs.rv + 1 /\ (req' = req \/ ~req'.live)
         \/ sfs' = sfs /\ (req' = req \/ ~req'.live)
<1>. DEFINE Goal == \/ sfs'.rv = sfs.rv + 1 /\ (req' = req \/ ~req'.live)
                    \/ sfs' = sfs /\ (req' = req \/ ~req'.live)
<1>. sfs \in Sfs
  BY DEF TypeOK
<1>1. ASSUME NEW n \in Counts, UserSubScale(n) PROVE Goal
  BY <1>1 DEF UserSubScale, Sfs
<1>2. ASSUME NEW f \in BOOLEAN, UserDelete(f) PROVE Goal
  BY <1>2 DEF UserDelete, NoSfs, Sfs
<1>3. CASE FinishDelete
  BY <1>3 DEF FinishDelete, NoSfs
<1>4. CASE Store
  <2>1. ~req'.live
    BY <1>4 DEF Store, NoRequest
  <2>2. req.obj \in Sfs
    BY DEF TypeOK, Request
  <2>. QED  BY <1>4, <2>1, <2>2 DEF Store, Sfs
<1>5. CASE WriteStatus
  BY <1>5 DEF WriteStatus, Sfs
<1>6. CASE Reject
  BY <1>6 DEF Reject, NoRequest
<1>7. CASE UpdateSfs
  <2>1. CASE UnchangedSince(sfs, lSfs)
    <3>1. sfs'.rv = sfs.rv + 1
      BY <1>7, <2>1, RevivedObject DEF Sfs
    <3>. QED  BY <1>7, <3>1 DEF UpdateSfs
  <2>2. CASE ~UnchangedSince(sfs, lSfs)
    BY <1>7, <2>2 DEF UpdateSfs
  <2>. QED  BY <2>1, <2>2
<1>8. ASSUME UNCHANGED <<sfs, req>> PROVE Goal
  BY <1>8
<1>. QED
  BY <1>1, <1>2, <1>3, <1>4, <1>5, <1>6, <1>7, <1>8, UserSteps
     DEF Next, Cluster, Reconcile, JobCompletes, JobFails, TtlDeletes,
         CollectConfigMap, SyncSfs, SyncJob, Resync, GetJob, GetSfs, DeleteJob,
         CreateConfigMap, UpdateJob, ApiError, Crash, k8s, vars

LEMMA RequestStep ==
  ASSUME TypeOK, MountInv, [Next]_vars
  PROVE  /\ RequestDone => RequestDone'
         /\ RequestStaysDone /\ Without({"reset", "replace"})' => RequestStaysDone'
<1>1. ASSUME NEW o \in Sfs, NEW want \in Nat, NEW dry \in BOOLEAN,
             Asked(o, want), Admit(o, want, dry)
      PROVE  RequestDone' /\ (Without({"reset", "replace"})' => RequestStaysDone')
  <2>1. (req'.obj.status = "done" <=> o.status = "done") /\ req'.obj.live = o.live
    BY <1>1, MutatedFields DEF Admit
  <2>2. sfs' = sfs
    BY <1>1 DEF Admit
  <2>. QED  BY <1>1, <2>1, <2>2 DEF Asked, RequestDone, RequestStaysDone, Done
<1>2. CASE sfs'.rv = sfs.rv + 1 /\ (req' = req \/ ~req'.live)
  BY <1>2, OldRequest
<1>3. CASE sfs' = sfs /\ (req' = req \/ ~req'.live)
  BY <1>3 DEF RequestDone, RequestStaysDone, Done
<1>. QED  BY <1>1, <1>2, <1>3, SfsWrites
-----------------------------------------------------------------------------
(***************************************************************************)
(* The Job outlives the suspension.  Its finalizer is dropped only by a    *)
(* reconciler that has written done or has read it.  While nobody takes    *)
(* the annotation off or deletes the StatefulSet, done is for ever, so     *)
(* what was read, however long ago, is still true.                         *)
(***************************************************************************)
InPlace == {"replace", "delete", "reset"}

FinalizerInv ==
  /\ RequestStaysDone
  /\ Done(sfsCache) => Done(sfs)
  /\ pc = "updJob" => Done(sfs)
  /\ job.live /\ ~job.fin => Done(sfs)

\* Done is for ever.
LEMMA DoneStays ==
  ASSUME TypeOK, MountInv, OneIncarnation, FinalizerInv,
         [Next]_vars, Without(InPlace)', Done(sfs)
  PROVE  Done(sfs')
<1>. sfs \in Sfs
  BY DEF TypeOK
<1>1. ASSUME NEW n \in Counts, UserSubScale(n) PROVE Done(sfs')
  BY <1>1 DEF UserSubScale, Done, Sfs
<1>2. ASSUME NEW f \in BOOLEAN, UserDelete(f) PROVE FALSE
  BY <1>2 DEF UserDelete, Event, Without, InPlace
<1>3. CASE FinishDelete
  BY <1>3 DEF FinishDelete, OneIncarnation
<1>4. CASE Store
  <2>1. req.live /\ req.obj \in Sfs
    BY <1>4 DEF Store, TypeOK, Request
  <2>. QED  BY <1>4, <2>1 DEF Store, FinalizerInv, RequestStaysDone, Done, Sfs
<1>5. CASE WriteStatus
  BY <1>5 DEF WriteStatus, Done, Sfs
<1>6. CASE UpdateSfs
  <2>1. CASE UnchangedSince(sfs, lSfs)
    BY <1>6, <2>1, RevivedObject DEF Done, Sfs
  <2>. QED  BY <1>6, <2>1 DEF UpdateSfs
<1>7. ASSUME UNCHANGED sfs PROVE Done(sfs')
  BY <1>7
<1>. QED
  BY <1>1, <1>2, <1>3, <1>4, <1>5, <1>6, <1>7, UserSteps
     DEF Next, Cluster, Reconcile, Reject, JobCompletes, JobFails, TtlDeletes,
         CollectConfigMap, SyncSfs, SyncJob, Resync, GetJob, GetSfs, DeleteJob,
         CreateConfigMap, UpdateJob, ApiError, Crash, Admit, k8s, vars

\* Every way in which the Job changes.
JobFinishes ==
  /\ job.live /\ job.state = "running"
  /\ \E st \in {"complete", "failed"} : job' = [job EXCEPT !.state = st, !.rv = job.rv + 1]

LEMMA JobWrites ==
  ASSUME TypeOK, [Next]_vars
  PROVE  \/ job' = job
         \/ ~job.live /\ job' = ProbeJob
         \/ JobFinishes
         \/ job.live /\ job' = Deleted(job) /\ UNCHANGED events
         \/ UpdateJob /\ job' = WithoutFinalizer(job)
<1>1. CASE User
  BY <1>1, UserSteps, LaunchedJob DEF Admit, UserSubScale, UserDelete
<1>2. CASE JobCompletes \/ JobFails
  BY <1>2 DEF JobCompletes, JobFails, JobFinishes
<1>3. CASE TtlDeletes \/ DeleteJob
  BY <1>3 DEF TtlDeletes, DeleteJob
<1>4. CASE UpdateJob
  BY <1>4 DEF UpdateJob
<1>5. ASSUME UNCHANGED job
      PROVE  job' = job
  BY <1>5
<1>. QED
  BY <1>1, <1>2, <1>3, <1>4, <1>5
     DEF Next, Cluster, Reconcile, FinishDelete, Store, Reject, WriteStatus,
         CollectConfigMap, SyncSfs, SyncJob, Resync, GetJob, GetSfs,
         CreateConfigMap, UpdateSfs, ApiError, Crash, k8s, vars

\* The informers take what is stored.
LEMMA CacheWrites ==
  ASSUME TypeOK, [Next]_vars
  PROVE  /\ sfsCache' = sfsCache \/ (sfsCache' = sfs /\ sfs' = sfs)
         /\ jobCache' = jobCache \/ (jobCache' = job /\ job' = job)
<1>1. CASE User
  BY <1>1, UserSteps DEF Admit, UserSubScale, UserDelete
<1>. QED
  BY <1>1
     DEF Next, Cluster, Reconcile, FinishDelete, Store, Reject, WriteStatus,
         JobCompletes, JobFails, TtlDeletes, CollectConfigMap, SyncSfs, SyncJob, Resync,
         GetJob, GetSfs, DeleteJob, CreateConfigMap, UpdateSfs, UpdateJob,
         ApiError, Crash, k8s, vars

\* How the reconciler comes to each of its steps.
LEMMA WorkerSteps ==
  ASSUME TypeOK, [Next]_vars
  PROVE  \/ UNCHANGED <<pc, lJob, lSfs>>
         \/ Idle
         \/ GetJob /\ pc = "idle" /\ Relevant(jobCache) /\ pc' = "getSfs" /\ lJob' = jobCache
              /\ UNCHANGED lSfs
         \/ GetSfs /\ pc = "getSfs" /\ pc' = Path(sfsCache) /\ lSfs' = sfsCache
              /\ UNCHANGED lJob
         \/ CreateConfigMap /\ pc = "createCM" /\ pc' = "updSfs" /\ ~cm.live
              /\ UNCHANGED <<lJob, lSfs>>
         \/ UpdateSfs /\ pc = "updSfs" /\ pc' = "updJob" /\ UnchangedSince(sfs, lSfs)
              /\ UNCHANGED <<lJob, lSfs>>
<1>1. CASE User
  BY <1>1, UserSteps DEF Admit, UserSubScale, UserDelete, local
<1>2. CASE Cluster
  BY <1>2
     DEF Cluster, FinishDelete, Store, Reject, WriteStatus, JobCompletes, JobFails,
         TtlDeletes, CollectConfigMap, SyncSfs, SyncJob, Resync, local
<1>3. CASE GetJob
  BY <1>3 DEF GetJob
<1>4. CASE GetSfs
  BY <1>4 DEF GetSfs, Goto, Requeue
<1>5. CASE DeleteJob \/ UpdateJob
  BY <1>5 DEF DeleteJob, UpdateJob, Return, Requeue
<1>6. CASE CreateConfigMap
  BY <1>6 DEF CreateConfigMap, Goto, Requeue
<1>7. CASE UpdateSfs
  BY <1>7 DEF UpdateSfs, Goto, Requeue
<1>8. CASE ApiError \/ Crash
  BY <1>8 DEF ApiError, Crash, Requeue
<1>9. CASE UNCHANGED vars
  BY <1>9 DEF vars
<1>. QED
  BY <1>1, <1>2, <1>3, <1>4, <1>5, <1>6, <1>7, <1>8, <1>9 DEF Next, Reconcile

LEMMA DeletedFields ==
  ASSUME NEW j \in Job
  PROVE  /\ Deleted(j) \in Job
         /\ j.fin => /\ Deleted(j).live = j.live /\ Deleted(j).fin
                     /\ Deleted(j).state = j.state
         /\ ~j.fin => ~Deleted(j).live
<1>1. Deleted(j) \in Job
  BY DeletedType
<1>. QED  BY <1>1 DEF Deleted, NoJob, Job

\* A Job without finalizer is one that the reconciler let go.
LEMMA FinalizerStep ==
  ASSUME TypeOK, MountInv, OneIncarnation, FinalizerInv, [Next]_vars, Without(InPlace)'
  PROVE  /\ FinalizerInv'
         /\ job.live /\ ~job'.live => sfs.status = "done"
<1>. job \in Job /\ sfs \in Sfs
  BY DEF TypeOK
<1>1. RequestStaysDone'
  BY RequestStep DEF FinalizerInv, Without, InPlace
<1>2. Done(sfs) => Done(sfs')
  BY DoneStays
<1>3. Done(sfsCache') => Done(sfs')
  BY <1>2, CacheWrites DEF FinalizerInv
<1>4. pc' = "updJob" => Done(sfs')
  <2>1. CASE UNCHANGED <<pc, lJob, lSfs>>
    BY <1>2, <2>1 DEF FinalizerInv
  <2>2. CASE GetSfs /\ pc' = Path(sfsCache)
    <3>1. sfs' = sfs
      BY <2>2 DEF GetSfs, k8s
    <3>. QED  BY <2>2, <3>1 DEF Path, FinalizerInv, Done
  <2>3. CASE UpdateSfs /\ UnchangedSince(sfs, lSfs)
    <3>1. sfs'.live /\ sfs'.status = "done"
      BY <2>3, RevivedObject DEF Sfs
    <3>. QED  BY <3>1 DEF Done
  <2>. QED  BY <2>1, <2>2, <2>3, WorkerSteps DEF Idle
<1>5. /\ job'.live /\ ~job'.fin => Done(sfs')
      /\ job.live /\ ~job'.live => Done(sfs)
  <2>1. CASE job' = job
    BY <1>2, <2>1 DEF FinalizerInv
  <2>2. CASE ~job.live /\ job' = ProbeJob
    BY <2>2 DEF ProbeJob
  <2>3. CASE JobFinishes
    <3>1. job'.live /\ job'.fin = job.fin
      BY <2>3 DEF JobFinishes, Job
    <3>. QED  BY <1>2, <2>3, <3>1 DEF FinalizerInv, JobFinishes
  <2>4. CASE job.live /\ job' = Deleted(job)
    BY <1>2, <2>4, DeletedFields DEF FinalizerInv
  <2>5. CASE UpdateJob
    BY <1>2, <2>5 DEF UpdateJob, FinalizerInv
  <2>. QED  BY <2>1, <2>2, <2>3, <2>4, <2>5, JobWrites
<1>. QED  BY <1>1, <1>3, <1>4, <1>5 DEF FinalizerInv, Done

LEMMA FinalizerInvariant == Spec => [](Without(InPlace) => FinalizerInv)
<1>. DEFINE Inv == Without(InPlace) => FinalizerInv
<1>1. Init => Inv
  BY DEF Init, FinalizerInv, RequestStaysDone, Done, NoSfs, NoJob, NoRequest
<1>2. /\ Without(InPlace)' /\ [Next]_vars => Without(InPlace)
      /\ Without(InPlace) => Without({"delete"})
  BY SeenGrows DEF Without, InPlace
<1>3. TypeOK /\ MountInv /\ (Without({"delete"}) => OneIncarnation) /\ Inv /\ [Next]_vars => Inv'
  BY <1>2, FinalizerStep
<1>. QED
  BY <1>1, <1>3, TypeCorrect, MountsInvariant, IncarnationInvariant, PTL DEF Spec

\* The Job of a suspended StatefulSet is not lost, whenever its time to live
\* ends and however stale the reconciler's copies are, as long as the
\* StatefulSet is updated in place and keeps its annotation.
THEOREM Outliving == Spec => JobOutlivesSuspension
<1>. DEFINE Inv == Without(InPlace) => FinalizerInv
<1>1. Without(InPlace) => Without({"delete"})
  BY DEF Without, InPlace
<1>2. TypeOK /\ MountInv /\ (Without({"delete"}) => OneIncarnation) /\ Inv /\ [Next]_vars =>
        [Without(InPlace) /\ job.live /\ ~job'.live => ~sfs.live \/ sfs.status = "done"]_vars
  <2>. SUFFICES ASSUME TypeOK, MountInv, Without({"delete"}) => OneIncarnation, Inv, [Next]_vars,
                       Without(InPlace), job.live, ~job'.live
                PROVE  sfs.status = "done"
    OBVIOUS
  <2>1. UNCHANGED events
    <3>1. ~ (job' = job \/ (~job.live /\ job' = ProbeJob) \/ JobFinishes)
      <4>1. JobFinishes => job'.live
        BY DEF JobFinishes, TypeOK, Job
      <4>. QED  BY <4>1
    <3>. QED  BY <3>1, JobWrites DEF UpdateJob
  <2>2. Without(InPlace)'
    BY <2>1 DEF Without
  <2>. QED  BY <1>1, <2>2, FinalizerStep
<1>. QED
  BY <1>2, TypeCorrect, MountsInvariant, IncarnationInvariant, FinalizerInvariant, PTL
     DEF Spec, JobOutlivesSuspension, InPlace
-----------------------------------------------------------------------------
(***************************************************************************)
(* The first revival.  A ConfigMap that exists stops Reconcile before it   *)
(* writes the StatefulSet, and until the StatefulSet is deleted it stays.  *)
(* So whoever may still write done, has created it in this very call, and  *)
(* nobody has dropped a finalizer before: the completed Job that he read   *)
(* is still there, marked for deletion perhaps.                            *)
(***************************************************************************)
Unrevived == ~cm.live \/ pc = "updSfs"

ProbeHeld ==
  Unrevived =>
    /\ sfs.status # "done" /\ sfsCache.status # "done" /\ lSfs.status # "done"
    /\ req.live => req.obj.status # "done"
    /\ pc # "updJob"
    /\ Relevant(jobCache) => Relevant(job)
    /\ pc # "idle" => Relevant(job)

RevivalInv ==
  /\ pc = "updSfs" => cm.live
  /\ ProbeHeld

\* Until the StatefulSet is deleted, its ConfigMap stays.
LEMMA ConfigMapStays ==
  ASSUME TypeOK, OneIncarnation, [Next]_vars, cm.live
  PROVE  cm'.live
<1>1. ~CollectConfigMap
  BY DEF CollectConfigMap, OneIncarnation
<1>2. CASE User
  BY <1>2, UserSteps DEF Admit, UserSubScale, UserDelete
<1>. QED
  BY <1>1, <1>2
     DEF Next, Cluster, Reconcile, FinishDelete, Store, Reject, WriteStatus,
         JobCompletes, JobFails, TtlDeletes, SyncSfs, SyncJob, Resync,
         GetJob, GetSfs, DeleteJob, CreateConfigMap, UpdateSfs, UpdateJob,
         ApiError, Crash, k8s, vars

\* Where done comes from.
LEMMA DoneSource ==
  ASSUME TypeOK, MountInv, [Next]_vars
  PROVE  \/ UpdateSfs /\ UnchangedSince(sfs, lSfs)
         \/ /\ sfs'.status = "done" => sfs.status = "done" \/ (Store /\ req.obj.status = "done")
            /\ req'.live /\ req'.obj.status = "done" =>
                 sfs.status = "done" \/ (req.live /\ req.obj.status = "done")
<1>. DEFINE Goal ==
       /\ sfs'.status = "done" => sfs.status = "done" \/ (Store /\ req.obj.status = "done")
       /\ req'.live /\ req'.obj.status = "done" =>
            sfs.status = "done" \/ (req.live /\ req.obj.status = "done")
<1>. sfs \in Sfs
  BY DEF TypeOK
<1>1. CASE User
  <2>1. ASSUME NEW o \in Sfs, NEW want \in Nat, NEW dry \in BOOLEAN,
               Asked(o, want), Admit(o, want, dry)
        PROVE  Goal
    <3>1. sfs' = sfs /\ (req'.obj.status = "done" <=> o.status = "done")
      BY <2>1, MutatedFields DEF Admit
    <3>. QED  BY <2>1, <3>1 DEF Asked
  <2>2. ASSUME NEW n \in Counts, UserSubScale(n)
        PROVE  Goal
    BY <2>2 DEF UserSubScale, Sfs
  <2>3. ASSUME NEW f \in BOOLEAN, UserDelete(f)
        PROVE  Goal
    BY <2>3 DEF UserDelete, NoSfs, Sfs
  <2>. QED  BY <1>1, <2>1, <2>2, <2>3, UserSteps
<1>2. CASE FinishDelete
  BY <1>2 DEF FinishDelete, NoSfs
<1>3. CASE Store
  <2>1. req.live /\ ~req'.live /\ req.obj \in Sfs
    BY <1>3 DEF Store, NoRequest, TypeOK, Request
  <2>. QED  BY <1>3, <2>1 DEF Store, Sfs
<1>4. CASE Reject
  BY <1>4 DEF Reject, NoRequest
<1>5. CASE WriteStatus
  BY <1>5 DEF WriteStatus, Sfs
<1>6. CASE UpdateSfs /\ ~UnchangedSince(sfs, lSfs)
  BY <1>6 DEF UpdateSfs
<1>7. ASSUME UNCHANGED <<sfs, req>>
      PROVE  Goal
  BY <1>7
<1>. QED
  BY <1>1, <1>2, <1>3, <1>4, <1>5, <1>6, <1>7
     DEF Next, Cluster, Reconcile, JobCompletes, JobFails, TtlDeletes,
         CollectConfigMap, SyncSfs, SyncJob, Resync, GetJob, GetSfs, DeleteJob,
         CreateConfigMap, UpdateJob, ApiError, Crash, k8s, vars

\* A completed Job with its finalizer stays one until the reconciler lets go.
LEMMA RelevantStays ==
  ASSUME TypeOK, [Next]_vars, Relevant(job), ~UpdateJob
  PROVE  Relevant(job')
<1>. job \in Job
  BY DEF TypeOK
<1>1. ~JobFinishes /\ job.live
  BY DEF JobFinishes, Relevant
<1>2. Relevant(Deleted(job))
  BY DeletedFields DEF Relevant
<1>. QED  BY <1>1, <1>2, JobWrites

LEMMA RevivalStep ==
  ASSUME TypeOK, MountInv, ReadUnprobed, OneIncarnation, RevivalInv, [Next]_vars
  PROVE  RevivalInv'
<1>1. pc' = "updSfs" => cm'.live
  <2>1. CASE CreateConfigMap /\ ~cm.live
    BY <2>1 DEF CreateConfigMap, RefreshConfigMap
  <2>2. CASE UNCHANGED <<pc, lJob, lSfs>>
    BY <2>2, ConfigMapStays DEF RevivalInv
  <2>. QED  BY <2>1, <2>2, WorkerSteps DEF Idle, Path
<1>2. ASSUME Unrevived'
      PROVE  Unrevived
  <2>1. CASE ~cm'.live
    BY <2>1, ConfigMapStays DEF Unrevived
  <2>2. CASE pc' = "updSfs"
    BY <2>2, WorkerSteps DEF Unrevived, Idle, Path
  <2>. QED  BY <1>2, <2>1, <2>2 DEF Unrevived
<1>3. ASSUME Unrevived'
      PROVE  ~UpdateJob /\ ~(UpdateSfs /\ UnchangedSince(sfs, lSfs))
  <2>1. ~UpdateJob
    BY <1>2, <1>3 DEF UpdateJob, RevivalInv, ProbeHeld
  <2>2. ASSUME UpdateSfs, UnchangedSince(sfs, lSfs)
        PROVE  FALSE
    BY <1>1, <1>3, <2>2 DEF UpdateSfs, Goto, Unrevived, RevivalInv
  <2>. QED  BY <2>1, <2>2
<1>4. ASSUME Unrevived'
      PROVE  /\ sfs'.status # "done" /\ sfsCache'.status # "done" /\ lSfs'.status # "done"
             /\ req'.live => req'.obj.status # "done"
             /\ pc' # "updJob"
  <2>1. /\ sfs.status # "done" /\ sfsCache.status # "done" /\ lSfs.status # "done"
        /\ req.live => req.obj.status # "done"
        /\ pc # "updJob"
    BY <1>2, <1>4 DEF RevivalInv, ProbeHeld
  <2>2. sfs'.status # "done" /\ (req'.live => req'.obj.status # "done")
    BY <1>3, <1>4, <2>1, DoneSource DEF Store
  <2>3. sfsCache'.status # "done"
    BY <2>1, CacheWrites
  <2>4. lSfs'.status # "done" /\ pc' # "updJob"
    BY <1>3, <1>4, <2>1, WorkerSteps DEF Idle, NoSfs, Path
  <2>. QED  BY <2>2, <2>3, <2>4
<1>5. ASSUME Unrevived'
      PROVE  /\ Relevant(jobCache') => Relevant(job')
             /\ pc' # "idle" => Relevant(job')
  <2>1. /\ Relevant(jobCache) => Relevant(job)
        /\ pc # "idle" => Relevant(job)
    BY <1>2, <1>5 DEF RevivalInv, ProbeHeld
  <2>2. Relevant(job) => Relevant(job')
    BY <1>3, <1>5, RelevantStays
  <2>3. Relevant(jobCache') => Relevant(job')
    BY <2>1, <2>2, CacheWrites
  <2>4. pc' # "idle" => Relevant(job')
    BY <2>1, <2>2, WorkerSteps DEF Idle
  <2>. QED  BY <2>3, <2>4
<1>6. ProbeHeld'
  BY <1>4, <1>5 DEF ProbeHeld, Relevant
<1>. QED  BY <1>1, <1>6 DEF RevivalInv

LEMMA RevivalInvariant == Spec => [](Without({"delete"}) => RevivalInv)
<1>. DEFINE Once == Without({"delete"}) => OneIncarnation
            Inv == Without({"delete"}) => RevivalInv
<1>1. Init => Inv
  BY DEF Init, RevivalInv, ProbeHeld, Unrevived, Relevant, NoSfs, NoJob, NoRequest, NoConfigMap
<1>2. Without({"delete"})' /\ [Next]_vars => Without({"delete"})
  BY SeenGrows DEF Without
<1>3. TypeOK /\ MountInv /\ ReadUnprobed /\ Once /\ Inv /\ [Next]_vars => Inv'
  BY <1>2, RevivalStep
<1>. QED
  BY <1>1, <1>3, TypeCorrect, MountsInvariant, ReadsInvariant, IncarnationInvariant, PTL
     DEF Spec

LEMMA RequestDoneInvariant == Spec => []RequestDone
<1>1. Init => RequestDone
  BY DEF Init, RequestDone, NoRequest
<1>2. TypeOK /\ MountInv /\ RequestDone /\ [Next]_vars => RequestDone'
  BY RequestStep
<1>. QED
  BY <1>1, <1>2, TypeCorrect, MountsInvariant, PTL DEF Spec

\* Only the StatefulSet's own probe, completed, revives it: a stale read, a Job
\* whose finalizer is gone or a Job that a later write launched never does, for
\* any number of writes, conflicts, failed calls and restarts.
THEOREM Revival == Spec => RevivedByCompletedProbe
<1>. DEFINE Inv == Without({"delete"}) => RevivalInv
<1>1. TypeOK /\ MountInv /\ Inv /\ RequestDone /\ [Next]_vars =>
        [Without({"delete"}) /\ sfs.status # "done" /\ sfs'.status = "done" =>
           job.live /\ job.state = "complete"]_vars
  <2>. SUFFICES ASSUME TypeOK, MountInv, Inv, RequestDone, [Next]_vars,
                       Without({"delete"}), sfs.status # "done", sfs'.status = "done"
                PROVE  job.live /\ job.state = "complete"
    OBVIOUS
  <2>1. CASE UpdateSfs
    BY <2>1 DEF UpdateSfs, RevivalInv, ProbeHeld, Unrevived, Relevant
  <2>2. CASE Store
    <3>1. req.live /\ req.obj \in Sfs
      BY <2>2 DEF Store, TypeOK, Request
    <3>. QED  BY <2>2, <3>1 DEF Store, RequestDone, Sfs
  <2>3. CASE ~UpdateSfs /\ ~Store
    BY <2>3, DoneSource
  <2>. QED  BY <2>1, <2>2, <2>3
<1>. QED
  BY <1>1, TypeCorrect, MountsInvariant, RevivalInvariant, RequestDoneInvariant, PTL
     DEF Spec, RevivedByCompletedProbe
=============================================================================
