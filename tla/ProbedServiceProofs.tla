------------------------ MODULE ProbedServiceProofs ------------------------
(***************************************************************************)
(* IamProbe implements ProbedService.  The invariants of IamRevivalProofs  *)
(* say what is saved, what a request under way may store and which Job a   *)
(* reconciler acts for; here they give the steps of the abstract service.  *)
(***************************************************************************)
EXTENDS IamRevivalProofs

-----------------------------------------------------------------------------
(* The Job as the reconciler reads it: only a completed one is let go.     *)

JobCopy(x) == x.live => x.rv <= job.rv /\ (x.rv = job.rv => x = job)

JobInv ==
  /\ JobCopy(jobCache) /\ JobCopy(lJob)
  /\ pc # "idle" => Relevant(lJob)
  /\ job.live /\ ~job.fin => job.state = "complete"

\* Every write gives the Job a new version.
LEMMA JobVersion ==
  ASSUME TypeOK, [Next]_vars
  PROVE  job' = job \/ job'.rv = job.rv + 1
<1>. job \in Job
  BY DEF TypeOK
<1>1. JobFinishes => job'.rv = job.rv + 1
  BY DEF JobFinishes, Job
<1>2. Deleted(job) = job \/ Deleted(job).rv = job.rv + 1
  BY DEF Deleted, NoJob, Job
<1>3. WithoutFinalizer(job).rv = job.rv + 1
  BY DEF WithoutFinalizer, NoJob, Job
<1>4. ~job.live /\ job' = ProbeJob => job'.rv = job.rv + 1
  BY DEF ProbeJob
<1>5. UpdateJob => job' = job \/ job' = WithoutFinalizer(job)
  BY DEF UpdateJob
<1>. QED  BY <1>1, <1>2, <1>3, <1>4, <1>5, JobWrites

LEMMA WithoutFinalizerFields ==
  ASSUME NEW j \in Job
  PROVE  WithoutFinalizer(j).live => j.live /\ WithoutFinalizer(j).state = j.state
BY DEF WithoutFinalizer, NoJob, Job

\* The reconciler lets go of the Job that it has read.
LEMMA LetGo ==
  ASSUME TypeOK, JobInv, UpdateJob, job' # job
  PROVE  job.state = "complete" /\ job' = WithoutFinalizer(job)
<1>1. UnchangedSince(job, lJob) /\ job' = WithoutFinalizer(job) /\ pc # "idle"
  BY DEF UpdateJob
<1>2. lJob = job
  BY <1>1 DEF UnchangedSince, JobInv, JobCopy, Relevant
<1>. QED  BY <1>1, <1>2 DEF JobInv, Relevant

LEMMA JobStep ==
  ASSUME TypeOK, TypeOK', JobInv, [Next]_vars
  PROVE  JobInv'
<1>. job \in Job /\ jobCache \in Job /\ lJob \in Job /\ job.rv \in Nat /\ job' \in Job
  BY DEF TypeOK, Job
<1>1. ASSUME NEW x \in Job, JobCopy(x)
      PROVE  x.live => x.rv <= job'.rv /\ (x.rv = job'.rv => x = job')
  BY <1>1, JobVersion DEF JobCopy, Job
<1>2. JobCopy(jobCache)'
  BY <1>1, CacheWrites DEF JobInv, JobCopy, Job
<1>3. JobCopy(lJob)' /\ (pc' # "idle" => Relevant(lJob'))
  <2>1. CASE UNCHANGED <<lJob, pc>>
    BY <1>1, <2>1 DEF JobInv, JobCopy
  <2>2. CASE Idle
    BY <2>2 DEF Idle, NoJob, JobCopy
  <2>3. CASE GetJob /\ Relevant(jobCache) /\ lJob' = jobCache
    BY <1>1, <2>3 DEF JobInv, JobCopy
  <2>4. CASE pc # "idle" /\ lJob' = lJob
    BY <1>1, <2>4 DEF JobInv, JobCopy
  <2>. QED  BY <2>1, <2>2, <2>3, <2>4, WorkerSteps
<1>4. job'.live /\ ~job'.fin => job'.state = "complete"
  <2>1. CASE JobFinishes
    BY <2>1 DEF JobFinishes, JobInv, Job
  <2>2. CASE job' = Deleted(job)
    BY <2>2, DeletedFields DEF JobInv
  <2>3. CASE ~job.live /\ job' = ProbeJob
    BY <2>3 DEF ProbeJob
  <2>4. CASE UpdateJob /\ job' # job
    BY <2>4, LetGo, WithoutFinalizerFields
  <2>. QED  BY <2>1, <2>2, <2>3, <2>4, JobWrites DEF JobInv
<1>. QED  BY <1>2, <1>3, <1>4 DEF JobInv

LEMMA JobInvariant == Spec => []JobInv
<1>1. Init => JobInv
  BY DEF Init, JobInv, JobCopy, NoJob
<1>2. TypeOK /\ TypeOK' /\ JobInv /\ [Next]_vars => JobInv'
  BY JobStep
<1>. QED
  BY <1>1, <1>2, TypeCorrect, PTL DEF Spec

-----------------------------------------------------------------------------
(* The request under way, until somebody meddles with the service.         *)

Quiet == Without(Meddling)

RequestInv ==
  /\ ~sfs.live => sfs.status = "none"
  /\ req.live => req.want \in Counts
  /\ req.live /\ sfs.live /\ req.obj.rv = sfs.rv => req.obj.managed = sfs.managed

\* How the StatefulSet is written.
LEMMA QuietWrites ==
  ASSUME TypeOK, MountInv, OneIncarnation, [Next]_vars, Quiet'
  PROVE  \/ UNCHANGED <<sfs, wanted>>
         \/ WriteStatus
         \/ /\ Store /\ req.live /\ req.obj.rv = sfs.rv
            /\ sfs' = [req.obj EXCEPT !.rv = sfs.rv + 1] /\ wanted' = req.want
         \/ UpdateSfs /\ UnchangedSince(sfs, lSfs) /\ UNCHANGED wanted
<1>1. ASSUME NEW n \in Counts, UserSubScale(n) PROVE FALSE
  BY <1>1 DEF UserSubScale, Event, Quiet, Without, Meddling
<1>2. ASSUME NEW f \in BOOLEAN, UserDelete(f) PROVE FALSE
  BY <1>2 DEF UserDelete, Event, Quiet, Without, Meddling
<1>3. CASE User
  BY <1>1, <1>2, <1>3, UserSteps DEF Admit
<1>4. CASE FinishDelete
  BY <1>4 DEF FinishDelete, OneIncarnation
<1>5. CASE Store
  BY <1>5 DEF Store
<1>6. CASE UpdateSfs
  BY <1>6 DEF UpdateSfs
<1>. QED
  BY <1>3, <1>4, <1>5, <1>6
     DEF Next, Cluster, Reconcile, Reject, JobCompletes, JobFails, TtlDeletes,
         CollectConfigMap, SyncSfs, SyncJob, Resync, GetJob, GetSfs, DeleteJob,
         CreateConfigMap, UpdateJob, ApiError, Crash, k8s, vars

LEMMA RequestInvStep ==
  ASSUME TypeOK, MountInv, OneIncarnation, RequestInv, [Next]_vars, Quiet'
  PROVE  RequestInv'
<1>. sfs \in Sfs /\ sfs.rv \in Nat /\ (req.live => req.obj \in Sfs /\ req.obj.rv \in Nat)
  BY DEF TypeOK, Sfs, Request
<1>1. ~sfs'.live => sfs'.status = "none"
  <2>1. CASE UNCHANGED <<sfs, wanted>>
    BY <2>1 DEF RequestInv
  <2>2. CASE WriteStatus
    BY <2>2 DEF WriteStatus, Sfs
  <2>3. CASE Store /\ req.live /\ sfs' = [req.obj EXCEPT !.rv = sfs.rv + 1]
    BY <2>3 DEF OneIncarnation, Sfs
  <2>4. CASE UpdateSfs /\ UnchangedSince(sfs, lSfs)
    BY <2>4, RevivedObject DEF Sfs
  <2>. QED  BY <2>1, <2>2, <2>3, <2>4, QuietWrites
<1>2. ASSUME NEW o \in Sfs, NEW want \in Nat, NEW dry \in BOOLEAN,
             Asked(o, want), Admit(o, want, dry)
      PROVE  RequestInv'
  <2>1. want \in Counts /\ (sfs.live => o.managed = sfs.managed)
    BY <1>2 DEF Asked, Quiet, Without, Meddling
  <2>2. req'.want = want /\ req'.obj.managed = o.managed /\ sfs' = sfs
    BY <1>2, MutatedFields DEF Admit
  <2>. QED  BY <1>1, <2>1, <2>2 DEF RequestInv
<1>3. CASE sfs'.rv = sfs.rv + 1 /\ (req' = req \/ ~req'.live)
  <2>1. req.live => req.obj.rv <= sfs.rv
    BY DEF MountInv, RequestMounts, SameMounts
  <2>. QED  BY <1>1, <1>3, <2>1 DEF RequestInv
<1>4. CASE sfs' = sfs /\ (req' = req \/ ~req'.live)
  BY <1>4 DEF RequestInv
<1>. QED  BY <1>2, <1>3, <1>4, SfsWrites

-----------------------------------------------------------------------------
(* The steps of the service.                                               *)

World ==
  /\ TypeOK /\ MountInv /\ ReadUnprobed /\ RequestDone /\ JobInv
  /\ CountInv /\ OneIncarnation /\ FinalizerInv /\ RevivalInv /\ RequestInv

\* Storage takes a request: a StatefulSet is created, with or without a group,
\* or scaled.
LEMMA StoreServes ==
  ASSUME World, Quiet, Quiet', Store, req.live, req.obj.rv = sfs.rv,
         sfs' = [req.obj EXCEPT !.rv = sfs.rv + 1], wanted' = req.want
  PROVE  \/ UNCHANGED <<Phase, Chosen, Pods>>
         \/ /\ Phase = "absent" /\ Phase' = "suspended"
            /\ Chosen' = req.want /\ UNCHANGED Pods
         \/ /\ Phase \in {"suspended", "running"} /\ UNCHANGED Phase
            /\ Chosen' = req.want
            /\ Pods' = IF Phase = "running" THEN req.want ELSE 0
<1>. DEFINE o == req.obj
<1>. o \in Sfs /\ sfs \in Sfs
  BY DEF World, TypeOK, Request
<1>1. /\ sfs'.live = o.live /\ sfs'.managed = o.managed /\ sfs'.deleting = o.deleting
      /\ sfs'.status = o.status /\ sfs'.replicas = o.replicas
  BY DEF Sfs
<1>2. o.live /\ ~o.deleting /\ ~sfs.deleting
  BY DEF World, OneIncarnation
<1>3. o.managed => /\ o.status # "done" => o.replicas = 0
                   /\ o.status = "done" => o.replicas = req.want
  BY <1>2 DEF World, CountInv, CountKept, SuspensionInv, SuspendedIfUnprobed
<1>4. CASE sfs.live
  <2>1. o.managed = sfs.managed /\ (o.status = "done" <=> sfs.status = "done")
    BY <1>4 DEF World, RequestInv, RequestDone, FinalizerInv, RequestStaysDone, Done
  <2>. QED  BY <1>1, <1>2, <1>3, <1>4, <2>1 DEF Phase, Served, Chosen, Pods, Managed, Quiet
<1>5. CASE ~sfs.live
  <2>1. o.status # "done"
    BY <1>5 DEF World, RequestInv, RequestDone
  <2>. QED  BY <1>1, <1>2, <1>3, <1>5, <2>1 DEF Phase, Served, Chosen, Pods, Managed, Quiet
<1>. QED  BY <1>4, <1>5

\* The reconciler's write revives the service with what was chosen.
LEMMA UpdateRevives ==
  ASSUME World, Quiet, Quiet', UpdateSfs, UnchangedSince(sfs, lSfs), UNCHANGED wanted
  PROVE  \/ UNCHANGED <<Phase, Chosen, Pods>>
         \/ /\ Phase = "suspended" /\ ProbeState = "complete" /\ Phase' = "running"
            /\ Pods' = Chosen /\ UNCHANGED Chosen
<1>. sfs \in Sfs
  BY DEF World, TypeOK
<1>1. /\ lSfs = sfs /\ sfs.live
      /\ sfs' = [sfs EXCEPT !.status = "done", !.saved = 0, !.mounts = sfs.mounts + 1,
                            !.replicas = SavedReplicas(sfs), !.rv = sfs.rv + 1]
  BY RevivedObject DEF World
<1>2. /\ sfs'.live = sfs.live /\ sfs'.managed = sfs.managed
      /\ sfs'.deleting = sfs.deleting /\ sfs'.status = "done"
      /\ sfs'.replicas = SavedReplicas(sfs)
  BY <1>1 DEF Sfs
<1>3. sfs.status # "done" /\ job.live /\ job.state = "complete"
  BY <1>1 DEF UpdateSfs, World, ReadUnprobed, RevivalInv, ProbeHeld, Unrevived, Relevant
<1>4. CASE Managed
  <2>1. SavedReplicas(sfs) = wanted
    BY <1>3, <1>4 DEF Managed, World, CountInv, CountKept, SuspensionInv,
       SuspendedIfUnprobed, SavedReplicas
  <2>. QED
    BY <1>2, <1>3, <1>4, <2>1 DEF Phase, Served, Chosen, Pods, ProbeState, Managed, Quiet
<1>5. CASE ~Managed
  BY <1>2, <1>5 DEF Phase, Served, Chosen, Pods, Managed, Quiet
<1>. QED  BY <1>4, <1>5

\* Nobody launches a probe for a service that runs.
LEMMA LaunchedUnprobed ==
  ASSUME World, Quiet', [Next]_vars, ~job.live, job'.live
  PROVE  ~(Managed /\ sfs.status = "done")
<1>1. ASSUME NEW o \in Sfs, NEW want \in Nat, NEW dry \in BOOLEAN,
             Asked(o, want), Admit(o, want, dry)
      PROVE  ~(Managed /\ sfs.status = "done")
  <2>1. Probes(o)
    BY <1>1 DEF Admit, LaunchIamProbe
  <2>. QED
    BY <1>1, <2>1 DEF Asked, Probes, Managed, Quiet, Without, Meddling
<1>2. CASE User
  BY <1>1, <1>2, UserSteps DEF World, UserSubScale, UserDelete
<1>. QED
  BY <1>2
     DEF Next, Cluster, Reconcile, FinishDelete, Store, Reject, WriteStatus,
         JobCompletes, JobFails, TtlDeletes, CollectConfigMap, SyncSfs, SyncJob, Resync,
         GetJob, GetSfs, DeleteJob, CreateConfigMap, UpdateSfs, UpdateJob,
         ApiError, Crash, UnchangedSince, k8s, vars

\* What happens to the probe.
LEMMA ProbeMoves ==
  ASSUME World, Quiet, Quiet', [Next]_vars
  PROVE  \/ UNCHANGED ProbeState
         \/ ProbeState = "none" /\ Phase \in {"absent", "suspended"} /\ ProbeState' = "running"
         \/ ProbeState = "running" /\ ProbeState' \in {"complete", "failed"}
         \/ ProbeState = "complete" /\ Phase \in {"absent", "running"} /\ ProbeState' = "none"
<1>. job \in Job /\ Without(Meddling) /\ Without(Meddling)' /\ TypeOK
  BY DEF World, TypeOK, Quiet
<1>1. Phase \in {"absent", "suspended", "running"}
  BY DEF Phase
<1>2. CASE ~job.live /\ job' = ProbeJob
  <2>1. job'.live /\ job'.state = "running"
    BY <1>2 DEF ProbeJob
  <2>2. Phase \in {"absent", "suspended"}
    BY <1>2, <2>1, LaunchedUnprobed DEF Phase
  <2>. QED  BY <1>2, <2>1, <2>2 DEF ProbeState
<1>3. CASE JobFinishes
  <2>1. job.live /\ job.state = "running" /\ job'.live /\ job'.state \in {"complete", "failed"}
    BY <1>3 DEF JobFinishes, Job
  <2>. QED  BY <2>1 DEF ProbeState
<1>4. ASSUME job.live, job'.live => job'.state = job.state,
             ~job'.live => job.state = "complete"
      PROVE  \/ UNCHANGED ProbeState
             \/ /\ ProbeState = "complete" /\ Phase \in {"absent", "running"}
                /\ ProbeState' = "none"
  <2>1. ~job'.live => ~Managed \/ sfs.status = "done"
    <3>1. Without(InPlace)'
      BY DEF InPlace, Without, Meddling
    <3>. QED  BY <1>4, <3>1, FinalizerStep DEF World
  <2>. QED  BY <1>1, <1>4, <2>1 DEF ProbeState, Phase
<1>5. CASE job.live /\ job' = Deleted(job)
  BY <1>4, <1>5, DeletedFields DEF World, JobInv
<1>6. CASE UpdateJob /\ job' # job
  <2>1. job.state = "complete" /\ job' = WithoutFinalizer(job)
    BY <1>6, LetGo DEF World
  <2>2. job.live
    BY <1>6 DEF UpdateJob, UnchangedSince
  <2>. QED  BY <1>4, <2>1, <2>2, WithoutFinalizerFields
<1>7. CASE UNCHANGED job
  BY <1>7 DEF ProbeState
<1>. QED  BY <1>2, <1>3, <1>5, <1>6, <1>7, JobWrites

LEMMA ServiceStep ==
  ASSUME World, [Next]_vars, Quiet, Quiet'
  PROVE  [Probed!Next]_<<Phase, Chosen, Pods, ProbeState>>
<1>. sfs \in Sfs /\ TypeOK
  BY DEF World, TypeOK
<1>1. ASSUME UNCHANGED <<Phase, Chosen, Pods>>
      PROVE  [Probed!Next]_<<Phase, Chosen, Pods, ProbeState>>
  BY <1>1, ProbeMoves DEF Probed!Next, Probed!Launch, Probed!Finish, Probed!Release
<1>2. CASE UNCHANGED <<sfs, wanted>>
  <2>1. UNCHANGED <<Phase, Chosen, Pods>>
    BY <1>2 DEF Phase, Chosen, Pods, Served, Managed, Quiet
  <2>. QED  BY <1>1, <2>1
<1>3. CASE WriteStatus
  <2>1. UNCHANGED wanted /\ sfs' = [sfs EXCEPT !.rv = sfs.rv + 1]
    BY <1>3 DEF WriteStatus
  <2>2. /\ sfs'.live = sfs.live /\ sfs'.managed = sfs.managed /\ sfs'.deleting = sfs.deleting
        /\ sfs'.status = sfs.status /\ sfs'.replicas = sfs.replicas
    BY <2>1 DEF Sfs
  <2>3. UNCHANGED <<Phase, Chosen, Pods>>
    BY <2>1, <2>2 DEF Phase, Chosen, Pods, Served, Managed, Quiet
  <2>. QED  BY <1>1, <2>3
<1>4. CASE /\ Store /\ req.live /\ req.obj.rv = sfs.rv
           /\ sfs' = [req.obj EXCEPT !.rv = sfs.rv + 1] /\ wanted' = req.want
  <2>1. req.want \in Counts
    BY <1>4 DEF World, RequestInv
  <2>2. UNCHANGED ProbeState
    BY <1>4 DEF Store, ProbeState, Quiet
  <2>. QED
    BY <1>1, <1>4, <2>1, <2>2, StoreServes DEF Probed!Next, Probed!Create, Probed!Scale
<1>5. CASE UpdateSfs /\ UnchangedSince(sfs, lSfs) /\ UNCHANGED wanted
  <2>1. UNCHANGED ProbeState
    BY <1>5 DEF UpdateSfs, ProbeState, Quiet
  <2>. QED  BY <1>1, <1>5, <2>1, UpdateRevives DEF Probed!Next, Probed!Revive
<1>. QED  BY <1>2, <1>3, <1>4, <1>5, QuietWrites DEF World

LEMMA RequestInvariant == Spec => [](Quiet => RequestInv)
<1>. DEFINE Inv  == Quiet => RequestInv
            Once == Without({"delete"}) => OneIncarnation
<1>1. Init => Inv
  BY DEF Init, RequestInv, NoSfs, NoRequest
<1>2. Quiet' /\ [Next]_vars => Quiet /\ Without({"delete"})
  BY SeenGrows DEF Quiet, Without, Meddling
<1>3. TypeOK /\ MountInv /\ Once /\ Inv /\ [Next]_vars => Inv'
  BY <1>2, RequestInvStep
<1>. QED
  BY <1>1, <1>3, TypeCorrect, MountsInvariant, IncarnationInvariant, PTL DEF Spec

\* Until somebody meddles with it, a service is what ProbedService promises:
\* for any counts, any number of requests, conflicts, failed and repeated
\* calls, stale caches and restarts of the JobReconciler.
THEOREM Implementation == Spec => ImplementsProbedService
<1>. DEFINE I1 == Without(Stated) => CountInv
            I2 == Without({"delete"}) => OneIncarnation
            I3 == Without(InPlace) => FinalizerInv
            I4 == Without({"delete"}) => RevivalInv
            I5 == Quiet => RequestInv
            Inv == TypeOK /\ MountInv /\ ReadUnprobed /\ RequestDone /\ JobInv
                   /\ I1 /\ I2 /\ I3 /\ I4 /\ I5
            view == <<Phase, Chosen, Pods, ProbeState>>
<1>1. Spec => []Inv
  BY TypeCorrect, MountsInvariant, ReadsInvariant, RequestDoneInvariant, JobInvariant,
     CountInvariant, IncarnationInvariant, FinalizerInvariant, RevivalInvariant,
     RequestInvariant, PTL
<1>2. Init => Probed!Init
  <2>. SUFFICES ASSUME Init PROVE Probed!Init
    OBVIOUS
  <2>1. Without(Meddling) /\ ~Managed /\ ~job.live
    BY DEF Init, Without, Managed, NoSfs, NoJob
  <2>. QED  BY <2>1 DEF Probed!Init, Phase, Chosen, Pods, Served, ProbeState
<1>3. Inv /\ [Next]_vars => [Probed!Next]_view
  <2>. SUFFICES ASSUME Inv, [Next]_vars PROVE [Probed!Next]_view
    OBVIOUS
  <2>1. CASE Quiet'
    <3>1. Quiet
      BY <2>1, SeenGrows DEF Quiet, Without
    <3>2. World
      BY <3>1 DEF World, Quiet, Without, Meddling, Stated, InPlace
    <3>. QED  BY <2>1, <3>1, <3>2, ServiceStep
  <2>2. CASE ~Quiet'
    <3>1. Probed!Meddle
      BY <2>2 DEF Probed!Meddle, Phase, Chosen, Pods, Served, ProbeState, Quiet
    <3>. QED  BY <3>1 DEF Probed!Next
  <2>. QED  BY <2>1, <2>2
<1>. QED
  BY <1>1, <1>2, <1>3, PTL DEF Spec, ImplementsProbedService, Probed!Spec, Probed!vars
=============================================================================
