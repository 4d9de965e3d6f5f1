--------------------------- MODULE IamProbeProofs ---------------------------
(***************************************************************************)
(* Proofs about IamProbe.                                                  *)
(***************************************************************************)
EXTENDS IamProbe, TLAPS

-----------------------------------------------------------------------------
(* Types of what the operators build.                                      *)

LEMMA AbsentTypes ==
  ASSUME NEW rv \in Nat
  PROVE  NoSfs(rv) \in Sfs /\ NoJob(rv) \in Job
  BY DEF NoSfs, NoJob, Sfs, Job

LEMMA MutatedType ==
  ASSUME NEW o \in Sfs
  PROVE  Mutated(o) \in Sfs
  BY DEF Mutated, Probes, Sfs

LEMMA DeletedType ==
  ASSUME NEW j \in Job
  PROVE  Deleted(j) \in Job /\ WithoutFinalizer(j) \in Job
<1>1. j.rv + 1 \in Nat
  BY DEF Job
<1>2. NoJob(j.rv + 1) \in Job
  BY <1>1, AbsentTypes
<1>3. [j EXCEPT !.deleting = TRUE, !.rv = j.rv + 1] \in Job
  BY <1>1 DEF Job
<1>4. [j EXCEPT !.fin = FALSE, !.rv = j.rv + 1] \in Job
  BY <1>1 DEF Job
<1>. QED
  BY <1>2, <1>3, <1>4 DEF Deleted, WithoutFinalizer

LEMMA FinishedType ==
  ASSUME NEW j \in Job, NEW st \in {"complete", "failed"}
  PROVE  [j EXCEPT !.state = st, !.rv = j.rv + 1] \in Job
<1>1. j.rv + 1 \in Nat
  BY DEF Job
<1>2. st \in {"running", "complete", "failed"}
  OBVIOUS
<1>. QED
  BY <1>1, <1>2 DEF Job

LEMMA RevivedType ==
  ASSUME NEW o \in Sfs
  PROVE  Revived(o) \in Sfs
<1>1. SavedReplicas(o) \in Nat /\ o.mounts + 1 \in Nat
  BY DEF SavedReplicas, Sfs
<1>. QED
  BY <1>1 DEF Revived, Sfs

LEMMA AdmitType ==
  ASSUME TypeOK, NEW o \in Sfs, NEW want \in Nat, NEW dry \in BOOLEAN,
         Admit(o, want, dry), uids' \in Nat, events' \in Events
  PROVE  TypeOK'
<1>1. Mutated(o) \in Sfs
  BY MutatedType
<1>2. req' \in Request
  BY <1>1 DEF Admit, Request
<1>3. ProbeJob \in Job
  <2>1. job.rv + 1 \in Nat /\ o.uid \in Nat
    BY DEF TypeOK, Job, Sfs
  <2>. QED
    BY <2>1 DEF ProbeJob, Job
<1>4. job' \in Job
  BY <1>3 DEF Admit, LaunchIamProbe, TypeOK
<1>. QED
  BY <1>2, <1>4 DEF Admit, TypeOK, local

LEMMA EventType ==
  ASSUME TypeOK, NEW k, Event(k)
  PROVE  events' \in Events
<1>1. events.left - 1 \in 0..MaxEvents /\ events.seen \cup {k} \in SUBSET EnvKinds
  BY MaxEventsAssumption, EnvAssumption DEF Event, TypeOK, Events
<1>. QED
  BY <1>1 DEF Event, Events

\* The invariant TypeOK holds in every reachable state: no operation of the
\* webhook, the reconciler or the cluster leaves the range of a field, the
\* replica counts and versions included.
THEOREM TypeCorrect == Spec => []TypeOK
<1>1. Init => TypeOK
  <2>1. NoSfs(0) \in Sfs /\ NoJob(0) \in Job
    BY AbsentTypes
  <2>2. NoConfigMap \in ConfigMap /\ NoRequest \in Request
    BY <2>1 DEF NoConfigMap, ConfigMap, NoRequest, Request
  <2>3. 0 \in Nat /\ [left |-> MaxEvents, seen |-> {}] \in Events
    BY MaxEventsAssumption DEF Events
  <2>4. ASSUME Init PROVE TypeOK
    BY <2>1, <2>2, <2>3, <2>4 DEF Init, TypeOK
  <2>. QED
    BY <2>4
<1>2. TypeOK /\ [Next]_vars => TypeOK'
  <2>. SUFFICES ASSUME TypeOK, [Next]_vars PROVE TypeOK'
    OBVIOUS
  <2>1. ASSUME NEW n \in Counts, NEW m \in BOOLEAN, UserCreate(n, m) PROVE TypeOK'
    <3>1. NewSfs(n, m) \in Sfs /\ n \in Nat
      BY CountsAssumption DEF NewSfs, Sfs, TypeOK
    <3>2. events' \in Events /\ uids' \in Nat
      BY <2>1, EventType DEF UserCreate, TypeOK
    <3>. QED
      BY <2>1, <3>1, <3>2, AdmitType DEF UserCreate
  <2>2. ASSUME NEW n \in Counts, UserDryRun(n) PROVE TypeOK'
    <3>1. NewSfs(n, TRUE) \in Sfs /\ n \in Nat
      BY CountsAssumption DEF NewSfs, Sfs, TypeOK
    <3>2. events' \in Events /\ uids' \in Nat
      BY <2>2, EventType DEF UserDryRun, TypeOK
    <3>. QED
      BY <2>2, <3>1, <3>2, AdmitType DEF UserDryRun
  <2>3. ASSUME NEW n \in Counts, UserScale(n) PROVE TypeOK'
    <3>1. [sfs EXCEPT !.replicas = n] \in Sfs /\ n \in Nat
      BY CountsAssumption DEF Sfs, TypeOK
    <3>2. events' \in Events /\ uids' \in Nat
      BY <2>3, EventType DEF UserScale, TypeOK
    <3>. QED
      BY <2>3, <3>1, <3>2, AdmitType DEF UserScale
  <2>4. ASSUME NEW n \in Counts, UserReplace(n) PROVE TypeOK'
    <3>1. /\ [sfs EXCEPT !.status = "none", !.saved = 0, !.replicas = n, !.mounts = 0] \in Sfs
          /\ n \in Nat
      BY CountsAssumption DEF Sfs, TypeOK
    <3>2. events' \in Events /\ uids' \in Nat
      BY <2>4, EventType DEF UserReplace, TypeOK
    <3>. QED
      BY <2>4, <3>1, <3>2, AdmitType DEF UserReplace
  <2>5. CASE UserTouch
    <3>2. events' \in Events /\ uids' \in Nat
      BY <2>5, EventType DEF UserTouch, TypeOK
    <3>. QED
      BY <2>5, <3>2, AdmitType DEF UserTouch, TypeOK
  <2>6. CASE UserReset
    <3>1. [sfs EXCEPT !.status = "none", !.saved = 0] \in Sfs /\ wanted \in Nat
      BY DEF Sfs, TypeOK
    <3>2. events' \in Events /\ uids' \in Nat
      BY <2>6, EventType DEF UserReset, TypeOK
    <3>. QED
      BY <2>6, <3>1, <3>2, AdmitType DEF UserReset
  <2>7. CASE UserUnmanage
    <3>1. [sfs EXCEPT !.managed = ~sfs.managed] \in Sfs /\ wanted \in Nat
      BY DEF Sfs, TypeOK
    <3>2. events' \in Events /\ uids' \in Nat
      BY <2>7, EventType DEF UserUnmanage, TypeOK
    <3>. QED
      BY <2>7, <3>1, <3>2, AdmitType DEF UserUnmanage
  <2>8. ASSUME NEW n \in Counts, UserSubScale(n) PROVE TypeOK'
    <3>2. events' \in Events
      BY <2>8, EventType DEF UserSubScale
    <3>3. n \in Nat /\ sfs.rv + 1 \in Nat
      BY CountsAssumption DEF TypeOK, Sfs
    <3>4. [sfs EXCEPT !.replicas = n, !.rv = sfs.rv + 1] \in Sfs
      BY <3>3 DEF TypeOK, Sfs
    <3>. QED
      BY <2>8, <3>2, <3>3, <3>4 DEF UserSubScale, TypeOK, local
  <2>9. ASSUME NEW f \in BOOLEAN, UserDelete(f) PROVE TypeOK'
    <3>2. events' \in Events
      BY <2>9, EventType DEF UserDelete
    <3>3. sfs.rv + 1 \in Nat
      BY DEF TypeOK, Sfs
    <3>4. [sfs EXCEPT !.deleting = TRUE, !.rv = sfs.rv + 1] \in Sfs
      BY <3>3 DEF TypeOK, Sfs
    <3>5. NoSfs(sfs.rv + 1) \in Sfs
      BY <3>3, AbsentTypes
    <3>. QED
      BY <2>9, <3>2, <3>4, <3>5 DEF UserDelete, TypeOK, local
  <2>10. CASE FinishDelete
    <3>1. sfs.rv + 1 \in Nat
      BY DEF TypeOK, Sfs
    <3>2. NoSfs(sfs.rv + 1) \in Sfs
      BY <3>1, AbsentTypes
    <3>. QED
      BY <2>10, <3>2 DEF FinishDelete, TypeOK, local
  <2>11. CASE Store
    <3>1. req.obj \in Sfs /\ req.want \in Nat /\ sfs.rv + 1 \in Nat
      BY DEF TypeOK, Request, Sfs
    <3>2. [req.obj EXCEPT !.rv = sfs.rv + 1] \in Sfs
      BY <3>1 DEF Sfs
    <3>3. NoRequest \in Request
      BY AbsentTypes DEF NoRequest, Request
    <3>. QED
      BY <2>11, <3>1, <3>2, <3>3 DEF Store, TypeOK, local
  <2>12. CASE Reject
    <3>2. events' \in Events
      BY <2>12, EventType DEF Reject
    <3>. QED
      BY <2>12, <3>2 DEF Reject, TypeOK, Sfs, NoSfs, Request, NoRequest, local
  <2>13. CASE WriteStatus
    <3>2. events' \in Events
      BY <2>13, EventType DEF WriteStatus
    <3>. QED
      BY <2>13, <3>2 DEF WriteStatus, TypeOK, Sfs, local
  <2>14. CASE JobCompletes
    <3>1. [job EXCEPT !.state = "complete", !.rv = job.rv + 1] \in Job
      BY FinishedType DEF TypeOK
    <3>. QED
      BY <2>14, <3>1 DEF JobCompletes, TypeOK, local
  <2>15. CASE JobFails
    <3>2. events' \in Events
      BY <2>15, EventType DEF JobFails
    <3>3. [job EXCEPT !.state = "failed", !.rv = job.rv + 1] \in Job
      BY FinishedType DEF TypeOK
    <3>. QED
      BY <2>15, <3>2, <3>3 DEF JobFails, TypeOK, local
  <2>16. CASE TtlDeletes
    BY <2>16, DeletedType DEF TtlDeletes, TypeOK, local
  <2>17. CASE CollectConfigMap
    BY <2>17 DEF CollectConfigMap, NoConfigMap, ConfigMap, TypeOK, local
  <2>18. CASE SyncSfs \/ SyncJob \/ Resync
    BY <2>18 DEF SyncSfs, SyncJob, Resync, TypeOK, k8s, local
  <2>19. CASE GetJob
    BY <2>19, AbsentTypes DEF GetJob, Idle, TypeOK, k8s
  <2>20. CASE GetSfs
    BY <2>20, AbsentTypes DEF GetSfs, Goto, Path, Requeue, Idle, TypeOK, k8s
  <2>21. CASE DeleteJob
    BY <2>21, AbsentTypes, DeletedType DEF DeleteJob, Return, Idle, TypeOK
  <2>22. CASE CreateConfigMap
    <3>1. RefreshConfigMap(lSfs) \in ConfigMap
      BY DEF RefreshConfigMap, ConfigMap, TypeOK, Sfs
    <3>. QED
      BY <2>22, <3>1, AbsentTypes DEF CreateConfigMap, Goto, Requeue, Idle, TypeOK
  <2>23. CASE UpdateSfs
    <3>1. Mutated(Revived(lSfs)) \in Sfs
      BY RevivedType, MutatedType DEF TypeOK
    <3>2. [Mutated(Revived(lSfs)) EXCEPT !.rv = sfs.rv + 1] \in Sfs
      BY <3>1 DEF Sfs, TypeOK
    <3>. QED
      BY <2>23, <3>2, AbsentTypes DEF UpdateSfs, Goto, Requeue, Idle, TypeOK
  <2>24. CASE UpdateJob
    BY <2>24, AbsentTypes, DeletedType DEF UpdateJob, Return, Requeue, Idle, TypeOK
  <2>25. CASE ApiError
    <3>2. events' \in Events
      BY <2>25, EventType DEF ApiError
    <3>. QED
      BY <2>25, <3>2, AbsentTypes DEF ApiError, Requeue, Idle, TypeOK, k8s
  <2>26. CASE Crash
    <3>2. events' \in Events
      BY <2>26, EventType DEF Crash
    <3>. QED
      BY <2>26, <3>2, AbsentTypes DEF Crash, Idle, TypeOK, k8s, Job
  <2>27. CASE UNCHANGED vars
    BY <2>27 DEF vars, TypeOK
  <2>. QED
    BY <2>1, <2>2, <2>3, <2>4, <2>5, <2>6, <2>7, <2>8, <2>9, <2>10, <2>11, <2>12,
       <2>13, <2>14, <2>15, <2>16, <2>17, <2>18, <2>19, <2>20, <2>21, <2>22, <2>23,
       <2>24, <2>25, <2>26, <2>27
       DEF Next, User, Cluster, Reconcile
<1>. QED
  BY <1>1, <1>2, PTL DEF Spec

-----------------------------------------------------------------------------
(***************************************************************************)
(* Suspension.  Storage takes what Handle admitted, so the admitted object *)
(* has to be as suspended as the stored one; the reconciler's write is     *)
(* marked done.                                                            *)
(***************************************************************************)
SuspendedIfUnprobed(o) ==
  o.live /\ o.managed /\ ~o.deleting /\ o.status # "done" =>
    o.status = "running" /\ o.replicas = 0

SuspensionInv ==
  /\ SuspendedIfUnprobed(sfs)
  /\ req.live => SuspendedIfUnprobed(req.obj)

\* Handle suspends every managed object whose probe is not done.
LEMMA MutatedSuspended ==
  ASSUME NEW o \in Sfs
  PROVE  SuspendedIfUnprobed(Mutated(o))
  BY DEF SuspendedIfUnprobed, Mutated, Probes, Sfs

LEMMA VersionKeepsSuspension ==
  ASSUME NEW o \in Sfs, NEW rv \in Nat, SuspendedIfUnprobed(o)
  PROVE  SuspendedIfUnprobed([o EXCEPT !.rv = rv])
  BY DEF SuspendedIfUnprobed, Sfs

LEMMA AdmitSuspends ==
  ASSUME SuspensionInv, NEW o \in Sfs, NEW want, NEW dry, Admit(o, want, dry)
  PROVE  SuspensionInv'
  BY MutatedSuspended DEF SuspensionInv, SuspendedIfUnprobed, Admit

\* No step forgets that a kind of event has happened.
LEMMA SeenGrows == [Next]_vars => events.seen \subseteq events'.seen
<1>. SUFFICES ASSUME [Next]_vars PROVE events.seen \subseteq events'.seen
  OBVIOUS
<1>1. ASSUME NEW k, Event(k) PROVE events.seen \subseteq events'.seen
  BY <1>1 DEF Event
<1>2. CASE User
  BY <1>1, <1>2 DEF User, UserCreate, UserDryRun, UserScale, UserSubScale,
     UserReplace, UserTouch, UserReset, UserUnmanage, UserDelete
<1>3. CASE Cluster
  BY <1>1, <1>3 DEF Cluster, FinishDelete, Store, Reject, WriteStatus, JobCompletes,
     JobFails, TtlDeletes, CollectConfigMap, SyncSfs, SyncJob, Resync
<1>4. CASE Reconcile
  BY <1>4 DEF Reconcile, GetJob, GetSfs, DeleteJob, CreateConfigMap, UpdateSfs, UpdateJob
<1>5. CASE ApiError \/ Crash
  BY <1>1, <1>5 DEF ApiError, Crash
<1>6. CASE UNCHANGED vars
  BY <1>6 DEF vars
<1>. QED
  BY <1>2, <1>3, <1>4, <1>5, <1>6 DEF Next

\* The induction step for as long as nothing goes past the webhook.
LEMMA SuspensionStep ==
  TypeOK /\ SuspensionInv /\ [Next]_vars /\ Without({"subscale"})' => SuspensionInv'
<1>. SUFFICES ASSUME TypeOK, SuspensionInv, [Next]_vars, Without({"subscale"})'
              PROVE  SuspensionInv'
  OBVIOUS
<1>1. ASSUME User PROVE SuspensionInv'
  <2>1. ASSUME NEW n \in Counts, NEW m \in BOOLEAN, UserCreate(n, m)
        PROVE  SuspensionInv'
    <3>1. NewSfs(n, m) \in Sfs
      BY CountsAssumption DEF NewSfs, Sfs, TypeOK
    <3>. QED
      BY <2>1, <3>1, AdmitSuspends DEF UserCreate
  <2>2. ASSUME NEW n \in Counts, UserDryRun(n) PROVE SuspensionInv'
    <3>1. NewSfs(n, TRUE) \in Sfs
      BY CountsAssumption DEF NewSfs, Sfs, TypeOK
    <3>. QED
      BY <2>2, <3>1, AdmitSuspends DEF UserDryRun
  <2>3. ASSUME NEW n \in Counts, UserScale(n) PROVE SuspensionInv'
    <3>1. [sfs EXCEPT !.replicas = n] \in Sfs
      BY CountsAssumption DEF Sfs, TypeOK
    <3>. QED
      BY <2>3, <3>1, AdmitSuspends DEF UserScale
  <2>4. ASSUME NEW n \in Counts, UserReplace(n) PROVE SuspensionInv'
    <3>1. [sfs EXCEPT !.status = "none", !.saved = 0, !.replicas = n, !.mounts = 0] \in Sfs
      BY CountsAssumption DEF Sfs, TypeOK
    <3>. QED
      BY <2>4, <3>1, AdmitSuspends DEF UserReplace
  <2>5. CASE UserTouch
    BY <2>5, AdmitSuspends DEF UserTouch, TypeOK
  <2>6. CASE UserReset
    <3>1. [sfs EXCEPT !.status = "none", !.saved = 0] \in Sfs
      BY DEF Sfs, TypeOK
    <3>. QED
      BY <2>6, <3>1, AdmitSuspends DEF UserReset
  <2>7. CASE UserUnmanage
    <3>1. [sfs EXCEPT !.managed = ~sfs.managed] \in Sfs
      BY DEF Sfs, TypeOK
    <3>. QED
      BY <2>7, <3>1, AdmitSuspends DEF UserUnmanage
  <2>8. ASSUME NEW n \in Counts, UserSubScale(n) PROVE SuspensionInv'
    BY <2>8 DEF UserSubScale, Event, Without
  <2>9. ASSUME NEW f \in BOOLEAN, UserDelete(f) PROVE SuspensionInv'
    BY <2>9 DEF UserDelete, SuspensionInv, SuspendedIfUnprobed, NoSfs, TypeOK, Sfs
  <2>. QED
    BY <1>1, <2>1, <2>2, <2>3, <2>4, <2>5, <2>6, <2>7, <2>8, <2>9 DEF User
<1>2. CASE FinishDelete
  BY <1>2 DEF FinishDelete, SuspensionInv, SuspendedIfUnprobed, NoSfs
<1>3. CASE Store
  <2>1. req.obj \in Sfs /\ sfs.rv + 1 \in Nat
    BY DEF TypeOK, Request, Sfs
  <2>2. SuspendedIfUnprobed([req.obj EXCEPT !.rv = sfs.rv + 1])
    BY <1>3, <2>1, VersionKeepsSuspension DEF Store, SuspensionInv
  <2>3. ~NoRequest.live
    BY DEF NoRequest
  <2>. QED
    BY <1>3, <2>2, <2>3 DEF Store, SuspensionInv
<1>4. CASE WriteStatus
  <2>1. sfs \in Sfs /\ sfs.rv + 1 \in Nat
    BY DEF TypeOK, Sfs
  <2>. QED
    BY <1>4, <2>1, VersionKeepsSuspension DEF WriteStatus, SuspensionInv
<1>5. CASE Reject
  BY <1>5 DEF Reject, SuspensionInv, SuspendedIfUnprobed, NoRequest
<1>6. CASE UpdateSfs
  <2>1. Revived(lSfs) \in Sfs /\ sfs.rv + 1 \in Nat
    BY RevivedType DEF TypeOK, Sfs
  <2>2. Mutated(Revived(lSfs)) \in Sfs
    BY <2>1, MutatedType
  <2>3. SuspendedIfUnprobed([Mutated(Revived(lSfs)) EXCEPT !.rv = sfs.rv + 1])
    BY <2>1, <2>2, MutatedSuspended, VersionKeepsSuspension
  <2>. QED
    BY <1>6, <2>3 DEF UpdateSfs, SuspensionInv
<1>7. ASSUME UNCHANGED <<sfs, req>> PROVE SuspensionInv'
  BY <1>7 DEF SuspensionInv, SuspendedIfUnprobed
<1>. QED
  BY <1>1, <1>2, <1>3, <1>4, <1>5, <1>6, <1>7
     DEF Next, Cluster, Reconcile, JobCompletes, JobFails, TtlDeletes,
         CollectConfigMap, SyncSfs, SyncJob, Resync, GetJob, GetSfs, DeleteJob,
         CreateConfigMap, UpdateJob, ApiError, Crash, k8s, vars

\* Whatever users, faults and other controllers do, a managed StatefulSet has
\* no replicas before its probe is done, until a write reaches it past the
\* webhook through the scale subresource.
THEOREM Suspension == Spec => []SuspendedUntilProbed
<1>. DEFINE Inv == Without({"subscale"}) => SuspensionInv
<1>1. Init => Inv
  BY DEF Init, SuspensionInv, SuspendedIfUnprobed, NoSfs, NoRequest
<1>2. TypeOK /\ Inv /\ [Next]_vars => Inv'
  BY SeenGrows, SuspensionStep DEF Without
<1>3. Inv => SuspendedUntilProbed
  BY DEF SuspensionInv, SuspendedIfUnprobed, SuspendedUntilProbed, Managed
<1>. QED
  BY <1>1, <1>2, <1>3, TypeCorrect, PTL DEF Spec

-----------------------------------------------------------------------------
(***************************************************************************)
(* The refresh-buckets ConfigMap.  The reconciler mounts it in a copy that *)
(* may be stale, so the invariant relates every copy of the StatefulSet to *)
(* the stored one by its resourceVersion: a copy with the stored version   *)
(* is the stored object.  Between creating the ConfigMap and updating the  *)
(* StatefulSet, a copy that is still current has no mount yet and the      *)
(* ConfigMap is there for it.                                              *)
(***************************************************************************)
Coherent(x) == x.rv <= sfs.rv /\ (x.rv = sfs.rv => x = sfs)

CopiesCoherent == Coherent(sfsCache) /\ Coherent(lSfs) /\ Coherent(NoSfs(0))

SameMounts(o) ==
  /\ o.rv <= sfs.rv
  /\ o.rv = sfs.rv /\ o.mounts > 0 =>
       /\ sfs.live
       /\ o.mounts = sfs.mounts
       /\ o.uid = sfs.uid
       /\ o.deleting = sfs.deleting

RequestMounts == req.live => SameMounts(req.obj)

ConfigMapReady ==
  pc = "updSfs" /\ sfs.live /\ ~sfs.deleting /\ lSfs.rv = sfs.rv =>
    cm.live /\ cm.owner = sfs.uid /\ sfs.mounts = 0

MountInv ==
  CopiesCoherent /\ RequestMounts /\ ConfigMapReady /\ RefreshScriptMounted

\* A write makes every copy an old one.
LEMMA NewVersion ==
  ASSUME TypeOK, MountInv,
         sfs'.rv = sfs.rv + 1,
         UNCHANGED sfsCache,
         lSfs' = lSfs \/ lSfs' = NoSfs(0),
         req' = req \/ ~req'.live,
         RefreshScriptMounted'
  PROVE  MountInv'
<1>1. sfs.rv \in Nat /\ sfsCache.rv \in Nat /\ lSfs.rv \in Nat /\ req.obj.rv \in Nat
  BY DEF TypeOK, Sfs, Request
<1>2. sfsCache.rv <= sfs.rv /\ lSfs.rv <= sfs.rv /\ (req.live => req.obj.rv <= sfs.rv)
  BY DEF MountInv, CopiesCoherent, Coherent, RequestMounts, SameMounts
<1>3. NoSfs(0).rv = 0
  BY DEF NoSfs
<1>4. lSfs'.rv <= sfs.rv /\ lSfs'.rv \in Nat
  BY <1>1, <1>2, <1>3
<1>5. CopiesCoherent'
  BY <1>1, <1>2, <1>3, <1>4 DEF CopiesCoherent, Coherent, NoSfs
<1>6. RequestMounts'
  BY <1>1, <1>2 DEF RequestMounts, SameMounts
<1>7. ConfigMapReady'
  BY <1>1, <1>4 DEF ConfigMapReady
<1>. QED
  BY <1>5, <1>6, <1>7 DEF MountInv

\* What Handle does leaves the mounts alone, and so does an admission.
LEMMA AdmitMounts ==
  ASSUME TypeOK, MountInv, NEW o \in Sfs, NEW want, NEW dry,
         Admit(o, want, dry), SameMounts(o)
  PROVE  MountInv'
<1>1. /\ Mutated(o).rv = o.rv
      /\ Mutated(o).mounts = o.mounts
      /\ Mutated(o).uid = o.uid
      /\ Mutated(o).deleting = o.deleting
  BY DEF Mutated, Sfs
<1>2. UNCHANGED <<sfs, cm, sfsCache, lSfs, pc>> /\ req'.obj = Mutated(o)
  BY DEF Admit, local
<1>3. SameMounts(req'.obj)
  BY <1>1, <1>2 DEF SameMounts
<1>4. RequestMounts'
  BY <1>2, <1>3 DEF RequestMounts, SameMounts
<1>5. CopiesCoherent' /\ ConfigMapReady' /\ RefreshScriptMounted'
  BY <1>2 DEF MountInv, CopiesCoherent, Coherent, NoSfs, ConfigMapReady, RefreshScriptMounted
<1>. QED
  BY <1>4, <1>5 DEF MountInv

LEMMA SfsFields ==
  ASSUME NEW o \in Sfs
  PROVE  /\ o.rv \in Nat /\ o.mounts \in Nat /\ o.uid \in Nat
         /\ o.live \in BOOLEAN /\ o.deleting \in BOOLEAN
  BY DEF Sfs

\* A user's update keeps the version and either keeps or drops the mounts.
LEMMA UserMounts ==
  ASSUME TypeOK, MountInv, User
  PROVE  MountInv'
<1>. sfs \in Sfs
  BY DEF TypeOK
<1>1. ASSUME NEW n \in Counts, NEW m \in BOOLEAN
      PROVE  NewSfs(n, m) \in Sfs /\ SameMounts(NewSfs(n, m))
  <2>1. NewSfs(n, m) \in Sfs
    BY CountsAssumption DEF NewSfs, Sfs, TypeOK
  <2>2. NewSfs(n, m).rv = sfs.rv /\ NewSfs(n, m).mounts = 0 /\ sfs.rv \in Nat
    BY SfsFields DEF NewSfs
  <2>. QED
    BY <2>1, <2>2 DEF SameMounts
<1>2. ASSUME NEW n \in Counts, NEW m \in BOOLEAN, UserCreate(n, m) PROVE MountInv'
  BY <1>1, <1>2, AdmitMounts DEF UserCreate
<1>3. ASSUME NEW n \in Counts, UserDryRun(n) PROVE MountInv'
  BY <1>1, <1>3, AdmitMounts DEF UserDryRun
<1>4. ASSUME NEW n \in Counts, UserScale(n) PROVE MountInv'
  <2>. DEFINE o == [sfs EXCEPT !.replicas = n]
  <2>1. o \in Sfs
    BY CountsAssumption DEF Sfs
  <2>2. SameMounts(o)
    BY <1>4, SfsFields DEF SameMounts, UserScale, Sfs
  <2>. QED
    BY <1>4, <2>1, <2>2, AdmitMounts DEF UserScale
<1>5. ASSUME NEW n \in Counts, UserReplace(n) PROVE MountInv'
  <2>. DEFINE o == [sfs EXCEPT !.status = "none", !.saved = 0, !.replicas = n, !.mounts = 0]
  <2>1. o \in Sfs
    BY CountsAssumption DEF Sfs
  <2>2. o.rv = sfs.rv /\ o.mounts = 0
    BY DEF Sfs
  <2>3. SameMounts(o)
    BY <2>2, SfsFields DEF SameMounts
  <2>. QED
    BY <1>5, <2>1, <2>3, AdmitMounts DEF UserReplace
<1>6. CASE UserTouch
  <2>1. SameMounts(sfs)
    BY <1>6, SfsFields DEF SameMounts, UserTouch
  <2>. QED
    BY <1>6, <2>1, AdmitMounts DEF UserTouch
<1>7. CASE UserReset
  <2>. DEFINE o == [sfs EXCEPT !.status = "none", !.saved = 0]
  <2>1. o \in Sfs
    BY DEF Sfs
  <2>2. SameMounts(o)
    BY <1>7, SfsFields DEF SameMounts, UserReset, Sfs
  <2>. QED
    BY <1>7, <2>1, <2>2, AdmitMounts DEF UserReset
<1>8. CASE UserUnmanage
  <2>. DEFINE o == [sfs EXCEPT !.managed = ~sfs.managed]
  <2>1. o \in Sfs
    BY DEF Sfs
  <2>2. SameMounts(o)
    BY <1>8, SfsFields DEF SameMounts, UserUnmanage, Sfs
  <2>. QED
    BY <1>8, <2>1, <2>2, AdmitMounts DEF UserUnmanage
<1>9. ASSUME NEW n \in Counts, UserSubScale(n) PROVE MountInv'
  <2>1. /\ sfs'.rv = sfs.rv + 1 /\ sfs'.mounts = sfs.mounts /\ sfs'.uid = sfs.uid
        /\ sfs'.live = sfs.live /\ sfs'.deleting = sfs.deleting
    BY <1>9 DEF UserSubScale, Sfs
  <2>2. UNCHANGED <<cm, sfsCache, lSfs, req>>
    BY <1>9 DEF UserSubScale, local
  <2>3. RefreshScriptMounted'
    BY <2>1, <2>2 DEF MountInv, RefreshScriptMounted
  <2>. QED
    BY <2>1, <2>2, <2>3, NewVersion
<1>10. ASSUME NEW f \in BOOLEAN, UserDelete(f) PROVE MountInv'
  <2>1. sfs'.rv = sfs.rv + 1 /\ (~sfs'.live \/ sfs'.deleting)
    BY <1>10 DEF UserDelete, NoSfs, Sfs
  <2>2. UNCHANGED <<cm, sfsCache, lSfs, req>>
    BY <1>10 DEF UserDelete, local
  <2>3. RefreshScriptMounted'
    BY <2>1 DEF RefreshScriptMounted
  <2>. QED
    BY <2>1, <2>2, <2>3, NewVersion
<1>. QED
  BY <1>2, <1>3, <1>4, <1>5, <1>6, <1>7, <1>8, <1>9, <1>10 DEF User

LEMMA ClusterMounts ==
  ASSUME TypeOK, MountInv, Cluster
  PROVE  MountInv'
<1>. sfs \in Sfs
  BY DEF TypeOK
<1>1. CASE FinishDelete
  <2>1. sfs'.rv = sfs.rv + 1 /\ ~sfs'.live
    BY <1>1 DEF FinishDelete, NoSfs
  <2>2. UNCHANGED <<cm, sfsCache, lSfs, req>>
    BY <1>1 DEF FinishDelete, local
  <2>3. RefreshScriptMounted'
    BY <2>1 DEF RefreshScriptMounted
  <2>. QED
    BY <2>1, <2>2, <2>3, NewVersion
<1>2. CASE Store
  <2>1. UNCHANGED <<cm, sfsCache, lSfs, pc>> /\ ~req'.live /\ req.live
    BY <1>2 DEF Store, NoRequest, local
  <2>2. CASE ~req.dry /\ req.obj.rv = sfs.rv
    <3>1. req.obj \in Sfs
      BY DEF TypeOK, Request
    <3>2. /\ sfs'.rv = sfs.rv + 1 /\ sfs'.mounts = req.obj.mounts
          /\ sfs'.uid = req.obj.uid /\ sfs'.deleting = req.obj.deleting
      BY <1>2, <2>2, <3>1 DEF Store, Sfs
    <3>3. RefreshScriptMounted'
      BY <2>1, <2>2, <3>2 DEF MountInv, RequestMounts, SameMounts, RefreshScriptMounted
    <3>. QED
      BY <2>1, <3>2, <3>3, NewVersion
  <2>3. CASE ~(~req.dry /\ req.obj.rv = sfs.rv)
    BY <1>2, <2>1, <2>3
       DEF Store, MountInv, CopiesCoherent, Coherent, NoSfs, RequestMounts,
           ConfigMapReady, RefreshScriptMounted
  <2>. QED
    BY <2>2, <2>3
<1>3. CASE Reject
  BY <1>3 DEF Reject, NoRequest, local, MountInv, CopiesCoherent, Coherent, NoSfs,
              RequestMounts, ConfigMapReady, RefreshScriptMounted
<1>4. CASE WriteStatus
  <2>1. /\ sfs'.rv = sfs.rv + 1 /\ sfs'.mounts = sfs.mounts /\ sfs'.uid = sfs.uid
        /\ sfs'.live = sfs.live /\ sfs'.deleting = sfs.deleting
    BY <1>4 DEF WriteStatus, Sfs
  <2>2. UNCHANGED <<cm, sfsCache, lSfs, req>>
    BY <1>4 DEF WriteStatus, local
  <2>3. RefreshScriptMounted'
    BY <2>1, <2>2 DEF MountInv, RefreshScriptMounted
  <2>. QED
    BY <2>1, <2>2, <2>3, NewVersion
<1>5. CASE CollectConfigMap
  <2>1. UNCHANGED <<sfs, sfsCache, lSfs, req, pc>>
    BY <1>5 DEF CollectConfigMap, local
  <2>2. ~(sfs.live /\ ~sfs.deleting /\ sfs.uid = cm.owner)
    BY <1>5 DEF CollectConfigMap
  <2>3. CopiesCoherent' /\ RequestMounts'
    BY <2>1 DEF MountInv, CopiesCoherent, Coherent, NoSfs, RequestMounts, SameMounts
  <2>4. ConfigMapReady' /\ RefreshScriptMounted'
    BY <2>1, <2>2 DEF MountInv, ConfigMapReady, RefreshScriptMounted
  <2>. QED
    BY <2>3, <2>4 DEF MountInv
<1>6. CASE SyncSfs
  <2>1. UNCHANGED <<sfs, cm, lSfs, req, pc>> /\ sfsCache' = sfs
    BY <1>6 DEF SyncSfs, k8s, local
  <2>2. CopiesCoherent'
    BY <2>1, SfsFields DEF MountInv, CopiesCoherent, Coherent, NoSfs
  <2>. QED
    BY <2>1, <2>2
       DEF MountInv, RequestMounts, SameMounts, ConfigMapReady, RefreshScriptMounted
<1>7. ASSUME UNCHANGED <<sfs, cm, sfsCache, lSfs, req, pc>> PROVE MountInv'
  BY <1>7 DEF MountInv, CopiesCoherent, Coherent, NoSfs, RequestMounts, SameMounts,
              ConfigMapReady, RefreshScriptMounted
<1>. QED
  BY <1>1, <1>2, <1>3, <1>4, <1>5, <1>6, <1>7
     DEF Cluster, JobCompletes, JobFails, TtlDeletes, SyncJob, Resync, k8s, local

\* A step of the worker that leaves the StatefulSet and the ConfigMap alone and
\* does not lead to updating the StatefulSet.
LEMMA WorkerMoves ==
  ASSUME TypeOK, MountInv, UNCHANGED <<sfs, cm, req>>,
         sfsCache' = sfsCache \/ sfsCache' = sfs,
         lSfs' = lSfs \/ lSfs' = NoSfs(0) \/ lSfs' = sfsCache,
         pc' # "updSfs"
  PROVE  MountInv'
<1>1. CopiesCoherent'
  <2>1. sfs \in Sfs
    BY DEF TypeOK
  <2>2. Coherent(sfs)
    BY <2>1, SfsFields DEF Coherent
  <2>3. Coherent(sfsCache) /\ Coherent(lSfs) /\ Coherent(NoSfs(0))
    BY DEF MountInv, CopiesCoherent
  <2>4. Coherent(sfsCache') /\ Coherent(lSfs')
    BY <2>2, <2>3
  <2>5. sfs' = sfs
    OBVIOUS
  <2>. QED
    BY <2>3, <2>4, <2>5 DEF CopiesCoherent, Coherent, NoSfs
<1>2. RequestMounts' /\ RefreshScriptMounted'
  BY DEF MountInv, RequestMounts, SameMounts, RefreshScriptMounted
<1>3. ConfigMapReady'
  BY DEF ConfigMapReady
<1>. QED
  BY <1>1, <1>2, <1>3 DEF MountInv

LEMMA ReconcileMounts ==
  ASSUME TypeOK, MountInv, Reconcile
  PROVE  MountInv'
<1>. sfs \in Sfs /\ lSfs \in Sfs
  BY DEF TypeOK
<1>1. CASE GetJob
  BY <1>1, WorkerMoves DEF GetJob, Idle, k8s
<1>2. CASE GetSfs
  <2>1. pc' # "updSfs"
    BY <1>2 DEF GetSfs, Goto, Path, Requeue, Idle
  <2>. QED
    BY <1>2, <2>1, WorkerMoves DEF GetSfs, Requeue, Idle, k8s
<1>3. CASE DeleteJob
  BY <1>3, WorkerMoves DEF DeleteJob, Return, Idle
<1>4. CASE CreateConfigMap
  <2>1. CASE cm.live
    BY <1>4, <2>1, WorkerMoves DEF CreateConfigMap, Requeue, Idle
  <2>2. CASE ~cm.live
    <3>1. /\ cm'.live /\ cm'.owner = lSfs.uid
          /\ UNCHANGED <<sfs, req, sfsCache, lSfs>>
      BY <1>4, <2>2 DEF CreateConfigMap, RefreshConfigMap, Requeue
    <3>2. lSfs.rv = sfs.rv => lSfs = sfs
      BY DEF MountInv, CopiesCoherent, Coherent
    <3>3. sfs.live /\ ~sfs.deleting => sfs.mounts = 0
      BY <2>2, SfsFields DEF MountInv, RefreshScriptMounted
    <3>4. ConfigMapReady'
      BY <3>1, <3>2, <3>3 DEF ConfigMapReady
    <3>5. RefreshScriptMounted'
      BY <3>1, <3>3 DEF RefreshScriptMounted
    <3>6. CopiesCoherent' /\ RequestMounts'
      BY <3>1 DEF MountInv, CopiesCoherent, Coherent, NoSfs, RequestMounts, SameMounts
    <3>. QED
      BY <3>4, <3>5, <3>6 DEF MountInv
  <2>. QED
    BY <2>1, <2>2
<1>5. CASE UpdateSfs
  <2>1. CASE ~UnchangedSince(sfs, lSfs)
    BY <1>5, <2>1, WorkerMoves DEF UpdateSfs, Requeue, Idle
  <2>2. CASE UnchangedSince(sfs, lSfs)
    <3>1. sfs.live /\ lSfs = sfs /\ pc = "updSfs"
      BY <1>5, <2>2
         DEF UpdateSfs, UnchangedSince, MountInv, CopiesCoherent, Coherent
    <3>2. Revived(sfs) \in Sfs
      BY RevivedType
    <3>3. /\ Revived(sfs).mounts = sfs.mounts + 1 /\ Revived(sfs).uid = sfs.uid
          /\ Revived(sfs).deleting = sfs.deleting /\ Revived(sfs).status = "done"
      BY DEF Revived, Sfs
    <3>4. Mutated(Revived(sfs)) = Revived(sfs)
      BY <3>3 DEF Mutated, Probes
    <3>5. sfs' = [Revived(sfs) EXCEPT !.rv = sfs.rv + 1]
      BY <1>5, <2>2, <3>1, <3>4 DEF UpdateSfs
    <3>6. /\ sfs'.rv = sfs.rv + 1 /\ sfs'.mounts = sfs.mounts + 1
          /\ sfs'.uid = sfs.uid /\ sfs'.deleting = sfs.deleting
      BY <3>2, <3>3, <3>5 DEF Sfs
    <3>7. UNCHANGED <<cm, req, sfsCache>> /\ lSfs' = lSfs
      BY <1>5, <2>2 DEF UpdateSfs
    <3>8. RefreshScriptMounted'
      BY <3>1, <3>6, <3>7, SfsFields DEF MountInv, ConfigMapReady, RefreshScriptMounted
    <3>. QED
      BY <3>6, <3>7, <3>8, NewVersion
  <2>. QED
    BY <2>1, <2>2
<1>6. CASE UpdateJob
  BY <1>6, WorkerMoves DEF UpdateJob, Return, Requeue, Idle
<1>. QED
  BY <1>1, <1>2, <1>3, <1>4, <1>5, <1>6 DEF Reconcile

\* The copies of the StatefulSet are coherent in every reachable state, and
\* with them what its pod template mounts.
LEMMA MountsInvariant == Spec => []MountInv
<1>1. Init => MountInv
  BY DEF Init, MountInv, CopiesCoherent, Coherent, NoSfs, RequestMounts, NoRequest,
         ConfigMapReady, RefreshScriptMounted
<1>2. TypeOK /\ MountInv /\ [Next]_vars => MountInv'
  <2>. SUFFICES ASSUME TypeOK, MountInv, [Next]_vars PROVE MountInv'
    OBVIOUS
  <2>1. CASE User
    BY <2>1, UserMounts
  <2>2. CASE Cluster
    BY <2>2, ClusterMounts
  <2>3. CASE Reconcile
    BY <2>3, ReconcileMounts
  <2>4. CASE ApiError
    BY <2>4, WorkerMoves DEF ApiError, Requeue, Idle, k8s
  <2>5. CASE Crash
    BY <2>5, WorkerMoves DEF Crash, Idle, k8s
  <2>6. CASE UNCHANGED vars
    BY <2>6 DEF vars, MountInv, CopiesCoherent, Coherent, NoSfs, RequestMounts,
                SameMounts, ConfigMapReady, RefreshScriptMounted
  <2>. QED
    BY <2>1, <2>2, <2>3, <2>4, <2>5, <2>6 DEF Next
<1>. QED
  BY <1>1, <1>2, TypeCorrect, PTL DEF Spec

\* Every pod template that mounts the refresh-buckets ConfigMap mounts it once
\* and finds it, for any number of users' writes, re-creations of the
\* StatefulSet, stale reads, failed calls and restarts of the manager.
THEOREM RefreshScript == Spec => []RefreshScriptMounted
<1>1. MountInv => RefreshScriptMounted
  BY DEF MountInv
<1>. QED
  BY <1>1, MountsInvariant, PTL
=============================================================================
