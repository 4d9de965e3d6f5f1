------------------------------ MODULE IamProbe ------------------------------
(***************************************************************************)
(* The IAM probe: the StatefulSet webhook suspends a StatefulSet (replicas *)
(* 0) and creates a probe Job; once the Job has completed, the             *)
(* JobReconciler restores the replica count, mounts the refresh-buckets    *)
(* ConfigMap and drops the Job's finalizer.                                *)
(*                                                                         *)
(* One StatefulSet name is modelled, hence one Job key and one ConfigMap   *)
(* name; the StatefulSet may be deleted and created again.  Objects carry  *)
(* the resourceVersion (rv) that the API server bumps on every write and   *)
(* compares on every Update.  An absent object keeps the last rv of its    *)
(* name, so that no rv is used twice.  The reconciler reads through the    *)
(* manager's informer caches, which lag behind the API server.             *)
(***************************************************************************)
EXTENDS Integers

CONSTANTS
  Counts,    \* replica counts a user asks for
  Env,       \* the environment events that may happen, a subset of EnvKinds
  MaxEvents  \* how many of them may happen in one behaviour

(***************************************************************************)
(* create, delete   a user creates or deletes the StatefulSet              *)
(* scale            an update that sets spec.replicas                      *)
(* touch            an update that leaves spec.replicas as it is stored    *)
(* reset            an update that removes the iam-probe annotation        *)
(* replace          a PUT of the user's manifest, which has neither that   *)
(*                  annotation nor the refresh-buckets volume              *)
(* unmanage         an update that adds or removes the impersonate-group   *)
(*                  annotation                                             *)
(* subscale         a write of the scale subresource, which the webhook's  *)
(*                  rule (resources=statefulsets) does not intercept       *)
(* status           the StatefulSet controller writes the status           *)
(*                  subresource, which bumps the resourceVersion           *)
(* dryRun, reject   a request that is not stored although the webhook      *)
(*                  admitted it                                            *)
(* launchFails      the webhook's Create of the probe Job fails            *)
(* jobFails         the probe Job runs into its activeDeadlineSeconds      *)
(* apiError         an API call of the reconciler fails, or succeeds and   *)
(*                  the answer is lost                                     *)
(* crash            the manager restarts                                   *)
(***************************************************************************)
EnvKinds ==
  {"create", "delete", "scale", "touch", "reset", "replace", "unmanage",
   "subscale", "status", "dryRun", "reject", "launchFails", "jobFails",
   "apiError", "crash"}

ASSUME CountsAssumption == Counts \subseteq Nat
ASSUME EnvAssumption == Env \subseteq EnvKinds
ASSUME MaxEventsAssumption == MaxEvents \in Nat

VARIABLES
  sfs,       \* the StatefulSet in the API server
  job,       \* the probe Job in the API server
  cm,        \* the refresh-buckets ConfigMap
  req,       \* an admitted request that has not reached storage yet
  sfsCache,  \* the manager's informer caches
  jobCache,
  queued,    \* the Job's key is in the JobReconciler's work queue
  pc,        \* where the JobReconciler is
  lJob,      \* the Job and the StatefulSet it has read
  lSfs,
  uids,      \* how many uids the API server has handed out
  wanted,    \* history: the replica count the user asked for last
  events     \* environment events left, and the kinds seen

k8s   == <<sfs, job, cm, req, uids, wanted>>
local == <<queued, pc, lJob, lSfs>>
vars  == <<sfs, job, cm, req, sfsCache, jobCache, queued, pc, lJob, lSfs,
           uids, wanted, events>>

(***************************************************************************)
(* status and saved are the iam-probe-completed annotation: "running" with *)
(* saved = n stands for the text running-replicas-n.  managed: the object  *)
(* has the impersonate-group annotation.  svc: the container the service-  *)
(* container-name annotation names exists.  mounts counts the refresh-     *)
(* buckets volumes in the pod template.                                    *)
(***************************************************************************)
Sfs == [live: BOOLEAN, uid: Nat, rv: Nat, deleting: BOOLEAN, managed: BOOLEAN,
        svc: BOOLEAN, status: {"none", "running", "done"}, saved: Nat,
        replicas: Nat, mounts: Nat]

\* A finished Job is "complete" (CompletionTime set) or "failed" (not set).
Job == [live: BOOLEAN, rv: Nat, state: {"running", "complete", "failed"},
        fin: BOOLEAN, deleting: BOOLEAN]

ConfigMap == [live: BOOLEAN, owner: Nat]

Events == [left: 0..MaxEvents, seen: SUBSET EnvKinds]

Request == [live: BOOLEAN, obj: Sfs, dry: BOOLEAN, want: Nat]

NoSfs(rv) ==
  [live |-> FALSE, uid |-> 0, rv |-> rv, deleting |-> FALSE,
   managed |-> FALSE, svc |-> FALSE, status |-> "none", saved |-> 0,
   replicas |-> 0, mounts |-> 0]

NoJob(rv) ==
  [live |-> FALSE, rv |-> rv, state |-> "running", fin |-> FALSE,
   deleting |-> FALSE]

NoConfigMap == [live |-> FALSE, owner |-> 0]

NoRequest == [live |-> FALSE, obj |-> NoSfs(0), dry |-> FALSE, want |-> 0]

Init ==
  /\ sfs = NoSfs(0)
  /\ job = NoJob(0)
  /\ cm = NoConfigMap
  /\ req = NoRequest
  /\ sfsCache = NoSfs(0)
  /\ jobCache = NoJob(0)
  /\ queued = FALSE
  /\ pc = "idle"
  /\ lJob = NoJob(0)
  /\ lSfs = NoSfs(0)
  /\ uids = 0
  /\ wanted = 0
  /\ events = [left |-> MaxEvents, seen |-> {}]

Event(kind) ==
  /\ kind \in Env
  /\ events.left > 0
  /\ events' = [left |-> events.left - 1, seen |-> events.seen \cup {kind}]

-----------------------------------------------------------------------------
(* The StatefulSet webhook.                                                *)

\* Mutant: Handle takes any iam-probe annotation for a finished probe.
ProbesUnlessAnnotated(o) == o.managed /\ ~o.deleting /\ o.status = "none"

\* Handle reaches launchIamProbe for this object.
Probes(o) == o.managed /\ ~o.deleting /\ o.status # "done"

\* What Handle makes of the probe-related part of the object.
Mutated(o) ==
  IF Probes(o)
  THEN [o EXCEPT !.status = "running", !.saved = o.replicas, !.replicas = 0]
  ELSE o

\* Mutant: launchIamProbe does not add the finalizer.
ProbeJobWithoutFinalizer ==
  [live |-> TRUE, rv |-> job.rv + 1, state |-> "running", fin |-> FALSE,
   deleting |-> FALSE]

ProbeJob ==
  [live |-> TRUE, rv |-> job.rv + 1, state |-> "running", fin |-> TRUE,
   deleting |-> FALSE]

\* Mutant: Handle launches a probe with every write of a service.
LaunchWithEveryWrite(o) ==
  \/ o.managed /\ ~job.live /\ job' = ProbeJob
  \/ (~o.managed \/ job.live \/ "launchFails" \in Env) /\ UNCHANGED job

\* Handle creates the Job on the spot, before the object is stored.  A Create
\* that fails, because the Job exists or for another reason, is only logged.
LaunchIamProbe(o) ==
  \/ Probes(o) /\ ~job.live /\ job' = ProbeJob
  \/ ~Probes(o) /\ UNCHANGED job
  \/ Probes(o) /\ (job.live \/ "launchFails" \in Env) /\ UNCHANGED job

\* Handle returns an error for a managed object without its container.
Admissible(o) == o.managed /\ ~o.deleting => o.svc

\* The API server calls the webhook for object o; the answer is stored, or
\* not, in a later step.
Admit(o, want, dry) ==
  /\ ~req.live
  /\ Admissible(o)
  /\ req' = [live |-> TRUE, obj |-> Mutated(o), dry |-> dry, want |-> want]
  /\ LaunchIamProbe(o)
  /\ UNCHANGED <<sfs, cm, wanted, sfsCache, jobCache, local>>

-----------------------------------------------------------------------------
(* Users and the API server's storage.                                     *)

NewSfs(n, managed) ==
  [live |-> TRUE, uid |-> uids + 1, rv |-> sfs.rv, deleting |-> FALSE,
   managed |-> managed, svc |-> managed, status |-> "none", saved |-> 0,
   replicas |-> n, mounts |-> 0]

UserCreate(n, managed) ==
  /\ ~sfs.live
  /\ managed \/ "unmanage" \in Env
  /\ Event("create")
  /\ uids' = uids + 1
  /\ Admit(NewSfs(n, managed), n, FALSE)

UserDryRun(n) ==
  /\ ~sfs.live
  /\ Event("dryRun")
  /\ uids' = uids + 1
  /\ Admit(NewSfs(n, TRUE), n, TRUE)

UserScale(n) ==
  /\ sfs.live
  /\ Event("scale")
  /\ UNCHANGED uids
  /\ Admit([sfs EXCEPT !.replicas = n], n, FALSE)

UserTouch ==
  /\ sfs.live
  /\ Event("touch")
  /\ UNCHANGED uids
  /\ Admit(sfs, wanted, FALSE)

UserReset ==
  /\ sfs.live
  /\ sfs.status # "none"
  /\ Event("reset")
  /\ UNCHANGED uids
  /\ Admit([sfs EXCEPT !.status = "none", !.saved = 0], wanted, FALSE)

UserReplace(n) ==
  /\ sfs.live
  /\ Event("replace")
  /\ UNCHANGED uids
  /\ Admit([sfs EXCEPT !.status = "none", !.saved = 0, !.replicas = n,
                       !.mounts = 0], n, FALSE)

UserUnmanage ==
  /\ sfs.live
  /\ Event("unmanage")
  /\ UNCHANGED uids
  /\ Admit([sfs EXCEPT !.managed = ~sfs.managed], wanted, FALSE)

\* Writes of the two subresources do not pass the webhook.
UserSubScale(n) ==
  /\ sfs.live
  /\ Event("subscale")
  /\ sfs' = [sfs EXCEPT !.replicas = n, !.rv = sfs.rv + 1]
  /\ wanted' = n
  /\ UNCHANGED <<job, cm, req, uids, sfsCache, jobCache, local>>

WriteStatus ==
  /\ sfs.live
  /\ Event("status")
  /\ sfs' = [sfs EXCEPT !.rv = sfs.rv + 1]
  /\ UNCHANGED <<job, cm, req, uids, wanted, sfsCache, jobCache, local>>

\* Background deletion removes the object; foreground deletion first sets
\* deletionTimestamp, and the garbage collector finishes it.
UserDelete(foreground) ==
  /\ sfs.live
  /\ ~sfs.deleting
  /\ Event("delete")
  /\ sfs' = IF foreground
            THEN [sfs EXCEPT !.deleting = TRUE, !.rv = sfs.rv + 1]
            ELSE NoSfs(sfs.rv + 1)
  /\ UNCHANGED <<job, cm, req, uids, wanted, sfsCache, jobCache, local>>

FinishDelete ==
  /\ sfs.deleting
  /\ sfs' = NoSfs(sfs.rv + 1)
  /\ UNCHANGED <<job, cm, req, uids, wanted, sfsCache, jobCache, local, events>>

\* Storage takes the admitted object unless the request was a dry run or the
\* stored object has changed since the request was built.
Store ==
  /\ req.live
  /\ req' = NoRequest
  /\ IF ~req.dry /\ req.obj.rv = sfs.rv
     THEN /\ sfs' = [req.obj EXCEPT !.rv = sfs.rv + 1]
          /\ wanted' = req.want
     ELSE UNCHANGED <<sfs, wanted>>
  /\ UNCHANGED <<job, cm, uids, sfsCache, jobCache, local, events>>

\* A later admission plugin or validation turns the request down.
Reject ==
  /\ req.live
  /\ Event("reject")
  /\ req' = NoRequest
  /\ UNCHANGED <<sfs, job, cm, uids, wanted, sfsCache, jobCache, local>>

-----------------------------------------------------------------------------
(* Kubernetes controllers.                                                 *)

\* Delete on a Job: with a finalizer it only marks the object, once.
Deleted(j) ==
  IF ~j.fin THEN NoJob(j.rv + 1)
  ELSE IF j.deleting THEN j
  ELSE [j EXCEPT !.deleting = TRUE, !.rv = j.rv + 1]

JobCompletes ==
  /\ job.live
  /\ job.state = "running"
  /\ job' = [job EXCEPT !.state = "complete", !.rv = job.rv + 1]
  /\ UNCHANGED <<sfs, cm, req, uids, wanted, sfsCache, jobCache, local, events>>

JobFails ==
  /\ job.live
  /\ job.state = "running"
  /\ Event("jobFails")
  /\ job' = [job EXCEPT !.state = "failed", !.rv = job.rv + 1]
  /\ UNCHANGED <<sfs, cm, req, uids, wanted, sfsCache, jobCache, local>>

\* ttlSecondsAfterFinished = 0: a finished Job is deleted at once.
TtlDeletes ==
  /\ job.live
  /\ job.state # "running"
  /\ ~job.deleting
  /\ job' = Deleted(job)
  /\ UNCHANGED <<sfs, cm, req, uids, wanted, sfsCache, jobCache, local, events>>

\* The garbage collector removes a ConfigMap whose owner is gone or is being
\* deleted in the foreground.
CollectConfigMap ==
  /\ cm.live
  /\ ~(sfs.live /\ ~sfs.deleting /\ sfs.uid = cm.owner)
  /\ cm' = NoConfigMap
  /\ UNCHANGED <<sfs, job, req, uids, wanted, sfsCache, jobCache, local, events>>

\* The informers; a change of the Job puts its key into the work queue.
SyncSfs ==
  /\ sfsCache # sfs
  /\ sfsCache' = sfs
  /\ UNCHANGED <<k8s, jobCache, local, events>>

SyncJob ==
  /\ jobCache # job
  /\ jobCache' = job
  /\ queued' = TRUE
  /\ UNCHANGED <<k8s, sfsCache, pc, lJob, lSfs, events>>

\* The periodic resync of the Job informer.
Resync ==
  /\ jobCache.live
  /\ ~queued
  /\ queued' = TRUE
  /\ UNCHANGED <<k8s, sfsCache, jobCache, pc, lJob, lSfs, events>>

-----------------------------------------------------------------------------
(* The JobReconciler.                                                      *)

\* Between two calls of Reconcile the worker holds nothing.
Idle == pc' = "idle" /\ lJob' = NoJob(0) /\ lSfs' = NoSfs(0)

Goto(l) == pc' = l /\ UNCHANGED queued
Return  == Idle /\ UNCHANGED queued
Requeue == Idle /\ queued' = TRUE

\* Mutant: Reconcile does not look at the CompletionTime.
RelevantEvenIfRunning(j) == j.live /\ j.fin

\* Mutant: Reconcile skips a Job that is being deleted.
RelevantUnlessDeleted(j) == j.live /\ j.state = "complete" /\ j.fin /\ ~j.deleting

\* A Job that has completed and still has the finalizer.
Relevant(j) == j.live /\ j.state = "complete" /\ j.fin

GetJob ==
  /\ pc = "idle"
  /\ queued
  /\ queued' = FALSE
  /\ \/ Relevant(jobCache) /\ pc' = "getSfs" /\ lJob' = jobCache /\ UNCHANGED lSfs
     \/ ~Relevant(jobCache) /\ Idle
  /\ UNCHANGED <<k8s, sfsCache, jobCache, events>>

\* Mutant: Reconcile returns at once for a StatefulSet that is done.
GetSfsKeepingFinalizer ==
  /\ pc = "getSfs"
  /\ \/ /\ sfsCache.live /\ sfsCache.status # "done"
        /\ lSfs' = sfsCache
        /\ Goto("createCM")
        /\ UNCHANGED lJob
     \/ ~(sfsCache.live /\ sfsCache.status # "done") /\ Return
  /\ UNCHANGED <<k8s, sfsCache, jobCache, events>>

\* Where Reconcile goes with the StatefulSet it has read.
Path(o) ==
  IF ~o.live THEN "delJob" ELSE IF o.status = "done" THEN "updJob" ELSE "createCM"

\* Reconcile needs the service container of a StatefulSet it is to revive.
GetSfs ==
  /\ pc = "getSfs"
  /\ \/ /\ Path(sfsCache) = "createCM" => sfsCache.svc
        /\ lSfs' = sfsCache
        /\ Goto(Path(sfsCache))
        /\ UNCHANGED lJob
     \/ Path(sfsCache) = "createCM" /\ ~sfsCache.svc /\ Requeue
  /\ UNCHANGED <<k8s, sfsCache, jobCache, events>>

\* Delete of a Job that is gone by now answers NotFound, which is ignored.
DeleteJob ==
  /\ pc = "delJob"
  /\ job' = IF job.live THEN Deleted(job) ELSE job
  /\ Return
  /\ UNCHANGED <<sfs, cm, req, uids, wanted, sfsCache, jobCache, events>>

RefreshConfigMap(o) == [live |-> TRUE, owner |-> o.uid]

\* Mutant: AlreadyExists is taken for success.
CreateConfigMapOrKeep ==
  /\ pc = "createCM"
  /\ cm' = IF cm.live THEN cm ELSE RefreshConfigMap(lSfs)
  /\ Goto("updSfs")
  /\ UNCHANGED <<sfs, job, req, uids, wanted, sfsCache, jobCache, lJob, lSfs, events>>

\* Create answers AlreadyExists for an existing ConfigMap.
CreateConfigMap ==
  /\ pc = "createCM"
  /\ \/ /\ ~cm.live
        /\ cm' = RefreshConfigMap(lSfs)
        /\ Goto("updSfs")
        /\ UNCHANGED <<lJob, lSfs>>
     \/ cm.live /\ Requeue /\ UNCHANGED cm
  /\ UNCHANGED <<sfs, job, req, uids, wanted, sfsCache, jobCache, events>>

\* Mutant: the prefix is trimmed without its final dash, which is left to
\* Atoi as a sign.
SavedReplicasSigned(o) == IF o.status = "running" THEN -o.saved ELSE 1

\* strconv.Atoi of the text after running-replicas-, 1 when it is no number.
SavedReplicas(o) == IF o.status = "running" THEN o.saved ELSE 1

Revived(o) ==
  [o EXCEPT !.status = "done", !.saved = 0, !.replicas = SavedReplicas(o),
            !.mounts = o.mounts + 1]

\* The API server takes an Update only with the current resourceVersion.
UnchangedSince(stored, read) == stored.live /\ stored.rv = read.rv

\* Mutant: the StatefulSet is patched, whatever its version.
PatchSfs ==
  /\ pc = "updSfs"
  /\ \/ /\ sfs.live
        /\ sfs' = [Mutated(Revived(lSfs)) EXCEPT !.rv = sfs.rv + 1]
        /\ Goto("updJob")
        /\ UNCHANGED <<lJob, lSfs>>
     \/ ~sfs.live /\ Requeue /\ UNCHANGED sfs
  /\ UNCHANGED <<job, cm, req, uids, wanted, sfsCache, jobCache, events>>

\* The Update passes the webhook, which has nothing to add to a probed object.
UpdateSfs ==
  /\ pc = "updSfs"
  /\ \/ /\ UnchangedSince(sfs, lSfs)
        /\ sfs' = [Mutated(Revived(lSfs)) EXCEPT !.rv = sfs.rv + 1]
        /\ Goto("updJob")
        /\ UNCHANGED <<lJob, lSfs>>
     \/ ~UnchangedSince(sfs, lSfs) /\ Requeue /\ UNCHANGED sfs
  /\ UNCHANGED <<job, cm, req, uids, wanted, sfsCache, jobCache, events>>

WithoutFinalizer(j) ==
  IF j.deleting THEN NoJob(j.rv + 1) ELSE [j EXCEPT !.fin = FALSE, !.rv = j.rv + 1]

UpdateJob ==
  /\ pc = "updJob"
  /\ \/ UnchangedSince(job, lJob) /\ job' = WithoutFinalizer(job) /\ Return
     \/ ~UnchangedSince(job, lJob) /\ Requeue /\ UNCHANGED job
  /\ UNCHANGED <<sfs, cm, req, uids, wanted, sfsCache, jobCache, events>>

Reconcile ==
  GetJob \/ GetSfs \/ DeleteJob \/ CreateConfigMap \/ UpdateSfs \/ UpdateJob

\* An error ends Reconcile and requeues the key.
ApiError ==
  /\ pc # "idle"
  /\ Event("apiError")
  /\ Requeue
  /\ UNCHANGED <<k8s, sfsCache, jobCache>>

\* After a restart the informers list everything anew.
Crash ==
  /\ Event("crash")
  /\ sfsCache' = sfs
  /\ jobCache' = job
  /\ queued' = job.live
  /\ Idle
  /\ UNCHANGED k8s

-----------------------------------------------------------------------------
User ==
  \/ \E n \in Counts, managed \in BOOLEAN : UserCreate(n, managed)
  \/ \E n \in Counts : UserDryRun(n) \/ UserScale(n) \/ UserSubScale(n) \/ UserReplace(n)
  \/ UserTouch \/ UserReset \/ UserUnmanage
  \/ \E foreground \in BOOLEAN : UserDelete(foreground)

Cluster ==
  \/ FinishDelete \/ Store \/ Reject \/ WriteStatus
  \/ JobCompletes \/ JobFails \/ TtlDeletes \/ CollectConfigMap
  \/ SyncSfs \/ SyncJob \/ Resync

Next == User \/ Cluster \/ Reconcile \/ ApiError \/ Crash

(***************************************************************************)
(* Weak fairness of what runs by itself: the API server's own work, the    *)
(* Kubernetes controllers (activeDeadlineSeconds bounds the Job), the      *)
(* informers with their resync, and the reconciler's worker, which takes   *)
(* queued keys and retries after an error.  Nothing is assumed of users or *)
(* faults.                                                                 *)
(***************************************************************************)
Fairness ==
  /\ WF_vars(FinishDelete)
  /\ WF_vars(Store)
  /\ WF_vars(JobCompletes \/ JobFails)
  /\ WF_vars(TtlDeletes)
  /\ WF_vars(CollectConfigMap)
  /\ WF_vars(SyncSfs)
  /\ WF_vars(SyncJob)
  /\ WF_vars(Resync)
  /\ WF_vars(Reconcile)

Spec == Init /\ [][Next]_vars

FairSpec == Spec /\ Fairness

-----------------------------------------------------------------------------
(* Properties.                                                             *)

\* The objects have their types, wherever a copy of them is held.
TypeOK ==
  /\ sfs \in Sfs /\ sfsCache \in Sfs /\ lSfs \in Sfs
  /\ job \in Job /\ jobCache \in Job /\ lJob \in Job
  /\ cm \in ConfigMap
  /\ req \in Request
  /\ queued \in BOOLEAN
  /\ pc \in {"idle", "getSfs", "delJob", "createCM", "updSfs", "updJob"}
  /\ uids \in Nat
  /\ wanted \in Nat
  /\ events \in Events

Managed == sfs.live /\ sfs.managed /\ ~sfs.deleting

\* Nothing of these kinds has happened so far.
Without(kinds) == events.seen \cap kinds = {}

\* A StatefulSet with the impersonate-group annotation runs no pods until the
\* JobReconciler has marked its probe as done: whatever users write, Handle
\* keeps it suspended, with a replica count to restore.  Handle does not see
\* writes of the scale subresource.
SuspendedUntilProbed ==
  Without({"subscale"}) /\ Managed /\ sfs.status # "done" =>
    sfs.status = "running" /\ sfs.replicas = 0

\* A pod template refers to the refresh-buckets ConfigMap at most once, and
\* while it does the ConfigMap exists and belongs to this incarnation of the
\* StatefulSet: Reconcile creates it first and stops when it exists already.
RefreshScriptMounted ==
  sfs.live /\ ~sfs.deleting /\ sfs.mounts > 0 =>
    sfs.mounts = 1 /\ cm.live /\ cm.owner = sfs.uid

\* The original replica count, the one the user asked for last, is in the
\* annotation while the probe runs and in spec.replicas afterwards.
OriginalReplicasKept ==
  Managed => /\ sfs.status = "running" => sfs.saved = wanted
             /\ sfs.status = "done" => sfs.replicas = wanted

\* As long as users state the replica count with every write and Handle sees
\* it, the count survives suspension and revival: through conflicts, requests
\* that are not stored, lost answers, deletion, a manifest put anew, restarts.
WantedReplicasRemembered ==
  Without({"touch", "reset", "unmanage", "subscale"}) => OriginalReplicasKept

\* The Job's finalizer keeps the Job until its StatefulSet has been revived, as
\* long as the StatefulSet is updated in place and its annotation left alone.
JobOutlivesSuspension ==
  [][Without({"replace", "delete", "reset"}) /\ job.live /\ ~job'.live =>
       ~sfs.live \/ sfs.status = "done"]_vars

\* Only a probe that completed marks a StatefulSet as done, and the Job that
\* ran it is still there, unless it was another incarnation's.
RevivedByCompletedProbe ==
  [][Without({"delete"}) /\ sfs.status # "done" /\ sfs'.status = "done" =>
       job.live /\ job.state = "complete"]_vars

\* The Job that Reconcile finds without a StatefulSet is deleted.
OrphanJobDeleted ==
  (job.live /\ job.state = "complete" /\ ~sfs.live /\ ~req.live) ~>
    (~job.live \/ sfs.live \/ req.live)

Suspended == Managed /\ sfs.status = "running"

\* A suspended StatefulSet is revived.
SuspensionEnds == Suspended ~> ~Suspended

\* These keep the probe from completing, or take the StatefulSet out of the
\* reconciler's hands.
Ending == {"jobFails", "delete", "replace", "reset", "unmanage"}

\* These make a try of the reconciler fail, so that there is another one.
Disturbing == {"scale", "touch", "subscale", "status", "apiError", "crash"}

\* A suspended StatefulSet that has its probe Job is revived in the end, also
\* after requests that were not stored.  Restarts, failed calls and other
\* writes may keep it suspended only once the refresh-buckets ConfigMap exists,
\* at which every further try stops: before that Reconcile is tried again.
UndisturbedSuspensionEnds ==
  (Suspended /\ job.live /\ Without(Ending)) ~>
    (~Suspended \/ ~Without(Ending) \/ (cm.live /\ ~Without(Disturbing)))

\* Once the StatefulSet is revived the Job that probed it goes away, through
\* restarts, failed calls, stale copies and whatever else is written.
ProbedJobDeleted ==
  (job.live /\ sfs.live /\ sfs.status = "done" /\ Without({"jobFails"})) ~>
    (~job.live \/ ~sfs.live \/ sfs.status # "done" \/ ~Without({"jobFails"}))

-----------------------------------------------------------------------------
(***************************************************************************)
(* ProbedService, as long as the StatefulSet is updated in place, its      *)
(* users leave the annotations alone, and every write states the count.    *)
(* What the users chose is what storage took last; the annotation in which *)
(* the count waits, the request under way, the ConfigMap and all copies    *)
(* are hidden.                                                             *)
(***************************************************************************)
Meddling == {"touch", "reset", "unmanage", "subscale", "replace", "delete"}

Phase ==
  IF ~Without(Meddling) THEN "meddled"
  ELSE IF ~Managed THEN "absent"
  ELSE IF sfs.status = "done" THEN "running"
  ELSE "suspended"

Served     == Phase \in {"suspended", "running"}
Chosen     == IF Served THEN wanted ELSE 0
Pods       == IF Served THEN sfs.replicas ELSE 0
ProbeState == IF Without(Meddling) /\ job.live THEN job.state ELSE "none"

Probed == INSTANCE ProbedService WITH
  phase <- Phase, chosen <- Chosen, pods <- Pods, probe <- ProbeState

\* Webhook, JobReconciler, stale copies, conflicts and restarts together
\* suspend a service until its probe is done and then revive it, as
\* ProbedService says.
ImplementsProbedService == Probed!Spec
=============================================================================
