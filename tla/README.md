# A TLA+ model of ssbucketeer

ssbucketeer is a Kubernetes manager (controller-runtime v0.19) that lets the
users of a Dapla Lab cluster work on behalf of an access group. A user's
StatefulSet names a group in an annotation; from there

1. the **StatefulSet webhook** (`internal/controller/statefulset_webhook.go`)
   copies the request to the user's ServiceAccount, mounts the group's buckets,
   suspends the StatefulSet and creates an **IAM probe Job**;
2. the **ServiceAccount validator** (`serviceaccount_webhook.go`) admits the
   ServiceAccount only if the user is a member of the group, and records an
   audit entry through the **audit router** (`internal/audit`);
3. the **ServiceAccountReconciler** (`serviceaccount_controller.go`) binds the
   ServiceAccount in the IAM policy of the group's Google service account, and
   removes the binding before the ServiceAccount goes;
4. the **JobReconciler** (`job_controller.go`) revives the StatefulSet once the
   probe Job has seen that the binding works;
5. in the pod, the **folder precreator** (`cmd/folder-precreator`) makes the
   folders of the mounted buckets.

This directory holds the specifications, their TLC configurations and the
TLAPS proofs. `PROJECT.json` maps every definition to the lines it models and
lists the runs, the hazards and the theorems. Paths below are relative to `src/`.

## Inventory

| Part | State it keeps | Operations | Talks to | What is hard | What makes it correct |
|---|---|---|---|---|---|
| StatefulSet webhook, probe part (`Handle`, `launchIamProbe`) | none of its own: the `iam-probe-completed` annotation and `spec.replicas` of the object it is shown | suspend the object, create the Job | API server (Create Job), before the object is stored | side effect during admission; runs again on its own output; users write the same annotation | no pod before the probe; the replica count is not lost |
| JobReconciler | none: Job, StatefulSet, ConfigMap in the API server | look up, create ConfigMap, update StatefulSet, drop the finalizer, delete an orphan Job | API server, through an informer cache | three writes without a transaction; stale reads; conflicts; restarts; name reuse | the right StatefulSet is revived, once, with its replicas and its ConfigMap; the Job goes |
| StatefulSet webhook, ServiceAccount part (`handleServiceAccount`) | none | copy group, reason and duration to the ServiceAccount | API server | the ServiceAccount may be in use already | only what the validator accepts |
| ServiceAccountValidator | none | accept or refuse create and update | GoogleAuther, audit router | sees the reconciler's own updates; does not see objects being deleted | nobody gets a group they are no member of, nor for too long |
| ServiceAccountReconciler | none: finalizer and annotation on the ServiceAccount, binding in a Google policy | add finalizer, add or correct binding, annotate, remove binding, remove finalizer | API server, Google IAM (read, edit, write back with etag) | two systems without a transaction; stale reads; other writers of the policy | no binding without owner; nobody else's binding is touched; deletion completes |
| GoogleAuther (`google.go`) | none | `CheckMembership` | Cloud Identity | the answer is out of date as soon as it is given | an input of the above |
| Audit router and sinks | ring of 100 payload hashes and an index; the logging client's buffer | `RecordAll`, `FlushAll` | Cloud Logging, Cloud Storage | no lock around the ring; one of several sinks fails; buffered entries at exit | no entry is lost; repeats are dropped |
| Bucket volumes, mounts, precreator container (`volumes.go`, `precreator.go`, `statefulset_webhook.go:119-190`) | none: volumes, mounts and containers of the pod template | add, keep, replace, remove | bucket listing, group configurations | runs on its own output and compares names only; expiry; cut names; the service container and the group change | the template has what the last write wanted, of the right bucket, and nothing once access has expired; the API server takes it |
| Group configurations (`common.go`) | parsed once | `GetConfig`, `ToTeam` | – | suffix matching, first match wins | the group's team and whether a reason is needed |
| Folder precreator (`cmd/folder-precreator`) | a mutex; folders on disk | populate, refresh | Cloud Storage, the mounts | `TryLock` between requests and none for the initial population; partial failure; buckets that change while listed | populations do not overlap; the answer is true; every request is answered |
| Standard project and bucket lookup | none | read-only queries | Google Cloud | – | inputs of the mounts |
| Templates (`internal/template`) | none | `text/template` | – | – | – |
| Manager (`cmd/main.go`) | – | set-up, shutdown | all | `os.Exit` runs no defers | the sinks are flushed |

## Modules

| Module | What it is |
|---|---|
| `IamProbe` | webhook (probe part) and JobReconciler over the API server, caches and Kubernetes controllers |
| `ProbedService` | what a service with a group is promised; `IamProbe` refines it |
| `MCIamProbe` | the environments in which TLC runs it |
| `IamProbeProofs`, `IamRevivalProofs`, `ProbedServiceProofs` | TLAPS proofs: types, suspension and mounts; count, Job and revival; the refinement |
| `IamBinding` | validator, `handleServiceAccount`, ServiceAccountReconciler over the API server and Google IAM |
| `GroupAccess` | what is promised about access to groups; `IamBinding` refines it |
| `MCIamBinding`, `IamBindingProofs`, `GroupAccessProofs` | instances and proofs |
| `AuditRouter` | `RecordAll` word by word, the sinks, start and end of the process |
| `DedupWindow` | what the router promises callers that take turns at the ring; `AuditRouter` refines it |
| `MCAuditRouter`, `AuditRouterProofs` | instances and proofs |
| `BucketMounts` | webhook, bucket part: group configurations, mount map, volumes, mounts, precreator, expiry |
| `MCBucketMounts`, `BucketMountsProofs` | instances and proofs |
| `FolderPrecreator` | the folder precreator over changing buckets and mounts |
| `MCFolderPrecreator`, `FolderPrecreatorProofs` | instances and proofs |

In every component module the constant `Env` says which events of the
environment may happen (each is named and explained next to `EnvKinds`) and
`MaxEvents` how many of them may happen in one behaviour. What the program, the
API server and Kubernetes do by themselves is never bounded. In `IamProbe` and
`BucketMounts` `events.seen` remembers the kinds that have happened: a property
that some kind of event breaks names it, and is checked in the full environment.
Definitions marked `Mutant:` are plausible mistakes in
the definition after them; no specification uses them. `PROJECT.json` names for
each property the mutant with which it fails.

### IamProbe

State and code:

* `sfs`, `job`, `cm` are the objects in the API server. `status`/`saved` are the
  two halves of the annotation `dapla.ssb.no/iam-probe-completed`: the text
  `running-replicas-n` is `status = "running"`, `saved = n`. `rv` is the
  resourceVersion, with which the API server refuses an Update of an old copy.
* `req` is a request the webhook has answered and storage has not seen yet.
  `Handle` creates the Job while it answers, so that anything may happen between
  the two: a conflict (`Store` drops the request), a rejection, a dry run.
* `sfsCache`, `jobCache` are the informer caches that `r.Get` reads;
  `pc`, `lJob`, `lSfs` are the reconciler and its copies.

Actions and code: `Admit` is the probe part of `Handle` with `launchIamProbe`
(a failed Create is only logged). `GetJob`, `GetSfs`, `DeleteJob`,
`CreateConfigMap`, `UpdateSfs`, `UpdateJob` are the API calls of
`JobReconciler.Reconcile` in their order, each with the computation up to the
next call. `ApiError` and `Crash` may end it between any two of them; since the
call before may have taken effect, a call that succeeds with its answer lost is
included. One StatefulSet name is modelled: Jobs, ConfigMaps and StatefulSets
of different names share nothing but the worker. Kubernetes itself (status
writes, `ttlSecondsAfterFinished: 0`, garbage collection, foreground deletion)
is modelled from what the code sets on the objects, and marked external.

`ProbedService` says what a user is promised: a service is absent, suspended or
running; it is revived only after a probe has completed, with the count that was
chosen last; a running service is never probed or suspended again; a probe that has
not completed is not released. Requests under way, copies, the annotation, the
finalizer and the ConfigMap are hidden. The mapping goes to `meddled`, where nothing is promised, with
the first event of `Meddling`: each of these breaks the promise (see Observations).

### IamBinding

* `sa` are the ServiceAccounts in the API server, `cache` the informer cache.
  `pol[g]` is the policy of group g's Google service account: `b[s]` is the
  binding whose condition title names ServiceAccount s, `foreign` says that the
  policy has a binding without a condition, `etag` changes with every write.
* `Valid` is `validate`. `Store` is every write of a ServiceAccount: all of
  them, the reconciler's own included, pass the validator.
* `Get`, `AddFinalizer`, `GetToAdd`, `UpdateIamPolicy`, `Annotate`,
  `GetToRemove`, `RemoveFinalizer` are the calls of
  `ServiceAccountReconciler.Reconcile`. `copy` is the policy that was read and
  edited and is about to be written back.
* The search for the own binding dereferences `Condition` of each binding
  (`serviceaccount_controller.go:169`): at a binding without one it panics,
  which controller-runtime turns into an error and a retry. Whether the own
  binding comes first depends on the order in the policy and is left open.
* `abandoned` and `accepted` are history variables, for the properties.
* `GroupAccess` says what all of it is for: a ServiceAccount is absent, present or
  leaving; access is granted only if accepted and within the limit, withdrawn
  only from one that does not stay, and none goes before its access. The mapping
  (`PhaseOf`, `AccessOf`) forgets caches, queues, copies, etags and finalizers.
* Durations are natural numbers, absent, or a text that does not parse.
  Negative durations are left out: they only end access earlier.
* `handleServiceAccount` updates the copy it read; it conflicts unless the copy
  is current, and the StatefulSet is then denied. `Impersonate` is the case in
  which it is current.

### AuditRouter and DedupWindow

The webhook server runs one goroutine per request and `Router` has no lock, so
`slices.Contains` and `recordHash` are modelled by their reads and writes of
shared words. A Go string is a pointer and a length: the write of a slot that
was empty may be seen half done (`Torn`), and comparing it then panics; after
that every slot has the same length and only the pointer changes. The second
read of the index in `recordHash` may or may not be merged with the first by
the compiler (`RereadIndex` is optional). `CloudLogging.Record` buffers,
`CloudStorage.Record` writes through. `Stop` is a return from `main`, which runs
the deferred `FlushAll`; `Crash` is a kill or `os.Exit`. `raced` is a history
variable: two handlers have been at the ring of this process at once.

### BucketMounts

* `sfs` is the StatefulSet: its annotations (`group`, `svc`, `extra`, `shared`,
  `std`, `dur`) and what the webhook has put into the pod template: `vols` are
  the bucket volumes (each by its mount point and bucket), `mounts` the volume
  mounts per container, `adc` the containers with the variable that names the
  acting group, `pre` the precreator container. `now` is the clock, `image` the
  `PRECREATOR_IMAGE` of the running manager.
* `last`, `given` and `refused` are history variables: what the last write
  wanted, what writes have wanted since the template was last without volumes
  (`Since`), and whether the API server has refused a write whose mount map was
  unambiguous.
* A mount map is a set of pairs of mount point and bucket; `Over` is Go's
  assignment of map entries, in the order of `Handle`: extra, shared, standard.
  `Volume` is `maxLengthVolumeName`, a constant: all that matters of it is which
  mount points it gives the same name.
* `Write` is one request: `Admissible` (the denials), `WithGroup`, then either
  `RemoveAccess` or the map, `AddBuckets` and the precreator, and at last `Take`:
  the API server refuses duplicate volumes, mounts without volume and duplicate
  mount paths (external), and stores the rest. `Create`, `Edit`, `Regroup`,
  `Rename`, `Replace`, `Touch` and `Revive` (the JobReconciler's Update) are the
  writes.
* The lookups of project and buckets give an input, which may be cut short.
* Labels, the `TeamGcpProject` variable and the pod annotations are functions of
  the last write that nothing reads, and are left out.

### FolderPrecreator

* `pc` and `work` are the goroutines with their local variables: `Main` for the
  initial population, one per client for `/refresh-folders`. `lock` is the mutex,
  `remote` the folders the buckets have, `disk` those in the mounts, `files` the
  names that files have taken.
* `ReadDir`, `NextBucket`, `ListFolder`, `ListFails`, `CreateFolder` and `Finish` are
  the steps of `PopulateAllBucketFolders` and of who called it; buckets may change
  between any two. `TryLock` answers 429 when the mutex is locked.
* `due` (the folders there all the time) and `skipped` (those an error was met
  for) are history variables.

## Runs

Passing runs:

| Run | Shows |
|---|---|
| `probe_safety` | with every event: `RefreshScriptMounted` (a pod template that mounts the refresh-buckets ConfigMap mounts it once, and the ConfigMap exists and belongs to this StatefulSet), `SuspendedUntilProbed`, `WantedReplicasRemembered`, `JobOutlivesSuspension`, `RevivedByCompletedProbe`, and all of it together as the refinement `ImplementsProbedService` |
| `probe_revival` | with updates in place, faults and restarts: `UndisturbedSuspensionEnds` (a suspended StatefulSet that has its Job is revived, unless the probe fails or a disturbed try leaves the ConfigMap behind) and `ProbedJobDeleted` (then the Job goes away, whatever disturbs the reconciler) |
| `bind_safety` | with every event: `NoOrphanBinding`, `BindingWasAccepted` and `LimitedAccess` (access that needs a reason ends within `maxDuration` from now), and all of it together, with who loses access and when, as the refinement `ImplementsGroupAccess` |
| `bind_live` | two ServiceAccounts and other writers share a policy: `OnlyOwnBinding`, `DeletionCompletes`, `BindingEstablished`, through faults and restarts |
| `audit_races` | handlers race, sinks fail, the manager stops and crashes: `SuppressedIsTried` (none drops a payload that nobody handles), `AnsweredIsStored`, and the refinement `ImplementsDedupWindow` until two handlers meet at the ring |
| `mounts` | with every kind of write: `WantedMounted` (each bucket of the last write has its volume, a mount at its mount point and one in the precreator, unless another has claimed its volume name), `RightBucket`, `ActsForItsGroup`, `ExpiredLeavesNothing`, `RefusedOnlyAfterRename` and `RevivedKeepsAccess` |
| `folders` | with every event: `OneAtATime`, `FoldersMade` (an answered refresh has made what was there all the time, or met an error for it), `LockReleased`, `RequestAnswered` |

Runs that show a disagreement between the code and what the repository says
(`PROJECT.json`, "findings", quotes the line and names the code):

| Run | Shows |
|---|---|
| `probe_v_stuck` | a status write between read and Update makes the retry stop at the ConfigMap that the first try created: the StatefulSet stays suspended |
| `probe_v_orphan` | a Job without StatefulSet is "deleted" with its finalizer on it, and stays |
| `probe_v_touch` | an update that does not mention `replicas` while the probe runs saves the 0 that the webhook itself had set (`OriginalReplicasKept`) |
| `audit_v_recorded` | a payload that a sink failed to record is dropped when it comes again |
| `mounts_v_empty` | a StatefulSet without buckets gets a precreator container, with nothing to mount, although "skip precreator sidecar if no buckets are mounted" (`NoPrecreatorWithoutBuckets`) |

### Observations

Where a property names kinds of events that must not have happened, it does so
because it fails with them:

* `SuspendedUntilProbed` with `subscale`: the webhook's rule names `statefulsets`
  and not `statefulsets/scale`, so a write of the scale subresource starts pods
  before the probe is done.
* `WantedReplicasRemembered` with `touch`: `probe_v_touch`. With `reset` and
  `unmanage`: likewise, a write that keeps the stored 0.
* `JobOutlivesSuspension` with `replace`: a manifest replaced between the
  reconciler's two Updates is suspended again, the Create of its new Job fails
  (the old one is there), and the old Job is released: nobody revives it. With
  `delete`: the same with a StatefulSet that was created anew, whose
  predecessor the cache still shows.
* `UndisturbedSuspensionEnds` once the refresh-buckets ConfigMap is there: a write
  of the StatefulSet, a failed call or a restart between its Create and the Update
  keeps the StatefulSet suspended (`probe_v_stuck`). Before that they only cause
  another try. With `launchFails` or `jobFails` there is no probe to end the
  suspension.
* `ActsForItsGroup` with `regroup`: the variable that names the acting group is
  added if it is missing and never corrected (`statefulset_webhook.go:126`).
* `RefusedOnlyAfterRename`: when `service-container-name` changes, the mounts of
  the old service container stay; once access has expired the volumes go, those
  mounts do not, and the API server refuses every further write.
* `WantedMounted` and `RightBucket` once two mount points or two buckets have been
  wanted under one volume name since the template was last without volumes. After
  a change of group the volume keeps the old team's bucket, while a replaced
  precreator calls it by the new one's name. Of two mount points with one name
  (say an extra bucket first, a shared one later) the later one has no volume; in
  the same container it has no mount either, and after a rename of the container
  it is its mount that shows the earlier one's bucket. Expiry, or a put of the
  manifest, ends this: the history `given` starts again with it.

More that the models show and a reader of the code should know:

* The Job is created during admission whatever becomes of the request; a dry
  run leaves a Job behind, although the webhook declares `sideEffects=None`.
* A Job names its StatefulSet by name only. The Job of a deleted StatefulSet
  revives its successor of the same name, whose own probe never ran.
* `validate` looks at the duration only where a reason is required;
  `handleGcpSa` uses it for every group. And two simultaneous requests with the
  same audit payload both pass the check and are both recorded.
* Nothing runs `Handle` when access expires: volumes and mounts go with the next
  write of the StatefulSet (the binding ends by itself).
* On CREATE the access of a group that needs a reason always counts as expired;
  the write that ends the suspension mounts the buckets. `RevivedKeepsAccess`
  says why that is enough, and relies on that write.
* Buckets taken out of an annotation stay mounted, and so do all of them when
  the group annotation is removed; only expiry unmounts.
* The precreator's mounts are compared in the random order of a Go map: with two
  buckets or more any write may replace an equal precreator by an equal one in
  another order, which restarts the pods.
* A listing that ends early drops the missing buckets from the precreator while
  the service container keeps them.
* Two mount points with one bucket, or with one volume name, in one map may give a
  template that the API server refuses.
* A refresh that is answered 429 may be lost: the population under way may
  already be past the bucket in question. A folder that is removed between
  listing and `MkdirAll` comes back.
* The second query of `CheckMembership` for user names with `kons` repeats the
  first one (`google.go:31-34`).

### Bounds

* `MaxEvents` is 3 or 4 in the passing runs. An event is one act of a user, a fault,
  a request or another writer; the reactions to it are unbounded. The violations
  above need 1 to 3.
* `Counts = {1, 2}`: two values tell "the saved count" from "the count", and 0
  is what the webhook itself writes.
* One StatefulSet name (see above), but any number of incarnations.
* One or two ServiceAccounts: two are needed only where they meet, in the work
  queue and in a policy (`bind_live`). Groups: one that needs a reason, one that
  does not and one that no configuration matches. `MaxDuration` is 1, with
  durations 1 (at the limit), 2 (beyond it), none, and one that does not parse;
  the clock goes to 1 where time matters.
* Two handlers, three payloads for a window of two, and four events: the ring
  fills, wraps and forgets, in turns and while the handlers race.
* `mounts`: two teams whose standard bucket has the same mount point; a group
  that two configurations match, one that none does; an extra bucket that
  shadows the standard mount point, one that is a standard bucket, and a shared
  one with its volume name; two containers, one image or none. Three writes are
  a creation, a change and a change of something else, with any number of ticks
  up to two and the reviving write between them; a duration is 1 or unparsable.
* `folders`: two clients, so that one meets the other's lock; two buckets, so that
  one fails and the other does not; a folder within a folder.
* Deadlock checking is off: with its events used up, the system may well have
  nothing left to do.

The proofs need none of these bounds.

### Fairness

`IamProbe`: weak fairness of storage, of the Kubernetes controllers (the Job is
bounded by `activeDeadlineSeconds`), of the informers and their resync, and of
the reconciler, whose worker takes queued keys and retries after errors.
`IamBinding`: weak fairness of informer, resync and of the worker within a
reconciliation; strong fairness of `Get(s)`, because it is enabled only between
two reconciliations and the work queue is first in, first out, with a back-off
that keeps a failing key from crowding out the others. `AuditRouter`: goroutines
run on, and the logging client sends its buffer. `FolderPrecreator`: goroutines
run on, and calls of Cloud Storage and of the mount return. `BucketMounts` has no
liveness: nothing but writes happens in it. Nothing is assumed of users,
other writers or faults; faults are bounded by `MaxEvents`, which is what "the
API server works again at some point" means here.

## Proofs

All proofs hold for every value of the constants under the `ASSUME`s of the
component module (types, and that the values for "absent" are not real ones),
for `Spec`, that is without fairness.

`IamProbeProofs`

* `TypeCorrect`: `Spec => []TypeOK`.
* `Suspension`: `Spec => []SuspendedUntilProbed`. Not inductive as it stands,
  because `Store` writes what was admitted earlier; `SuspensionInv` says the same
  of the request under way. It holds until the first write of the scale
  subresource, and `events.seen` never shrinks (`SeenGrows`).
* `RefreshScript`: `Spec => []RefreshScriptMounted`. `MountInv` adds that every
  copy (cache, reconciler, request) is no newer than the object and, if it has
  its version, is the object; that a request under way adds no mount; and
  `ConfigMapReady`: when the reconciler is about to update the StatefulSet with a
  copy that is still current, the ConfigMap is there, is this StatefulSet's, and
  nothing mounts it yet. The last part is where it matters that an existing
  ConfigMap is an error: it is what stops a second mount, and it is also what
  `probe_v_stuck` is about.

`IamRevivalProofs`. Each invariant here holds until one of the kinds of events happens
that its property names, and `events.seen` never shrinks (`SeenGrows`). `UserSteps` lists what a user can submit,
`JobWrites`, `CacheWrites` and `WorkerSteps` what a step can do to a Job, to the
caches and to the reconciler.

* `Remembering`: `Spec => []WantedReplicasRemembered`. `CountInv`: the stored object
  carries the count of the last request that storage took, and the request under
  way its own. The reconciler moves the count only in a copy that is current
  (`RevivedObject`, from `MountInv`), so that a stale copy cannot bring back an
  older one.
* `Outliving`: `Spec => JobOutlivesSuspension`. `OneIncarnation`: without a deletion all
  copies are of the stored StatefulSet. `FinalizerInv` says when a Job may be without
  finalizer, and that whoever is about to take it off knows the StatefulSet to be
  done; for this a request built from the object that is stored now has to say the
  same of the probe (`RequestStaysDone`).
* `Revival`: `Spec => RevivedByCompletedProbe`. `RevivalInv`: the ConfigMap stays until
  the StatefulSet is deleted, and one that exists stops the reconciler before it writes. So
  whoever may still write `done` has created it in this reconciliation; until
  then nobody is done, no finalizer was dropped, and the completed Job that was read
  is still there (`ProbeHeld`).

`ProbedServiceProofs`

* `Implementation`: `Spec => ImplementsProbedService`, from all the invariants above.
  Missing were two more: `JobInv`, that the Job copy with which the reconciler
  drops the finalizer is coherent, so that the Job it lets go is the completed one it
  read; and `RequestInv`, that a request built from the stored object agrees
  with it on the group. `StoreServes`, `UpdateRevives` and `ProbeMoves` give the
  abstract steps; no step is both a write of the StatefulSet and of the Job.

`IamBindingProofs`

* `TypeCorrect`: types, and that a busy worker has a key and a copy that names
  a group (`Working`).
* `PolicyInvariant`: `PolicyInv`. The central part is `CopyInv`: while the policy has
  still the etag of the copy, the two differ only in the binding at hand.
* `OwnBindingOnly`: `Spec => OnlyOwnBinding`, a step property that follows from
  `PolicyInv` and the etag check of `SetIamPolicy`.
* `Acceptance`: `Spec => []BindingWasAccepted`, and `Access`: `Spec => []LimitedAccess`.
  The reconciler grants what an old copy says, so `GrantInv` says of every copy,
  in the API server, in the cache or in the reconciler's hands, that what it asks
  for was accepted once, unless it is being deleted, and that such a copy is
  never on the way to a grant.
* `NoOrphan`: `Spec => []NoOrphanBinding`. `OrphanInv` adds that copies are
  coherent with their object (`CacheInv`, `SnapInv`); that whoever has seen the
  finalizer on an object that was not being deleted can rely on it being still
  there or the pair being abandoned (`HeldInv`); and that no binding is there
  when the finalizer is about to be removed (`RemovedInv`). That the reconciler
  has one worker is used here: nobody adds a binding while it is removed.

`GroupAccessProofs`

* `Implementation`: `Spec => ImplementsGroupAccess`. The invariants above give the
  guards of `Grant` and `Go`. That of `Withdraw` needs `GoingInv`: the reconciler may
  act on the cached deletion of a ServiceAccount that has been created anew, but
  then the new one has no finalizer yet, since the reconciler adds it only when
  the cache shows the new one. `Lifecycle` lists what a step can do to a
  ServiceAccount, `PolicyChanges` what it can do to a policy.

`AuditRouterProofs`

* `TypeCorrect`: types, and that a handler that is not idle has a payload (`Busy`).
* `NothingForgotten`: `Spec => []SuppressedIsTried`. `RingInv` says that whatever is in
  the ring is with every sink or on the way (`Handled`), which `recordHash` before
  the sinks brings about, and `LoopInv` that a handler at a sink has been at those
  before it.
* `Deduplication`: `Spec => ImplementsDedupWindow`, for any handlers and a ring of any
  size. `WindowInv`: the slots before the index are in use, and the others too or not
  at all (`Contiguous`); a scan has passed no slot with its payload, and a handler
  beyond the scan has a payload that no slot has. It holds of every handler until two
  have met at the ring (`WindowsInv`); those at the sinks do not count (`SinksHandler`).
  `RingLookup` and `RingWrite` relate ring and window: searching all slots is searching
  the window, and a write at the index is an append that drops the oldest entry once the
  ring is full. After a race nothing is claimed until the process is a new one: two
  requests with one payload both pass, and an index may be passed twice.

`BucketMountsProofs` rests on two lemmas: `Steps` (every step is a write of an
object that somebody may submit, an upgrade, a tick or a stutter) and `Outcome`
(a write is refused, leaves an unmanaged object, strips the object or equips it).

* `TypeCorrect`.
* `Expiry`: `Spec => []ExpiredLeavesNothing`, for any containers: what
  `removeBucketsFromPodSpec` leaves in other containers the API server refuses.
* `Mounting`: `Spec => []WantedMounted`. `addBucketsToPodSpec` leaves something under
  each wanted volume name; that it is the wanted mount point and bucket, or another
  claimant's, takes `GivenInv` (theorem `Backing`): what is stored is valid, and
  whatever volume, mount and precreator mount it has, some write has wanted since the
  template was last without volumes. Validity is needed where the history starts
  again: a valid template without volumes has no mounts.
* `RevivedAccess`: `Spec => []RevivedKeepsAccess`. `AccessInv`: what is stored has a
  creationTimestamp, and nothing is revived before it is stored.
* `ActingGroup`: `Spec => []ActsForItsGroup`. `GroupInv`: without `regroup` no
  StatefulSet is without group, and what is not stored has no variable yet.
* `BucketsAsWanted`: `Spec => []RightBucket`, from `GivenInv` as well.
* `Acceptance`: `Spec => []RefusedOnlyAfterRename`. `ValidInv`: what is stored is valid,
  and before a rename its mounts are all in the service container of now; the first
  is what `AddBucketsValid` preserves for an unambiguous map, the second is what expiry
  needs, which takes the mounts from that container only.

`FolderPrecreatorProofs`

* `TypeCorrect`.
* `MutualExclusion`: `Spec => []OneAtATime`. `MutexInv`: before the server is up only
  main runs; afterwards a client that populates has the mutex to itself.
* `Refreshed`: `Spec => []FoldersMade`. `Progress(p)`: what p owes is made, skipped or
  still pending, and it has skipped nothing without remembering an error.

Only model-checked: liveness, because fairness is out of the prover's reach
(`UndisturbedSuspensionEnds`, `ProbedJobDeleted`, `DeletionCompletes`, `BindingEstablished`,
`AnsweredIsStored`, `LockReleased`, `RequestAnswered`), and the violations. Every
invariant, step property and refinement of the passing runs is proved.

## Not modelled

* Volume names as texts (`Volume` is any function), group names as texts (`Suffix`
  says which configurations match). An empty `mount-buckets` annotation, whose one
  entry is the empty name.
* The denials of `Handle` that have nothing to do with the probe are requests
  that do not happen. `IamProbeImage = ""`, which turns the probe off, is left out.
* A StatefulSet without `replicas`: the API server sets the default before the
  webhook is called.
* Users who remove the finalizers themselves. Force deletion.
* Users who write `done` into the `iam-probe-completed` annotation: they may remove
  it (`reset`) or drop it with the manifest (`replace`), but `done` is written by the
  JobReconciler only. `RevivedByCompletedProbe` and `ImplementsProbedService`, and
  the theorems about them, are to be read with that: whoever writes `done` has no
  probe at all.
* Several managers: leader election is on in the manifests; a new leader after
  an old one is `Crash`.
* Wording, formats, file names, metrics, health checks, flags, templates,
  manifests, the bucket and project lookups (read-only).

## Plan

Done: `IamProbe`, `IamBinding` with `GroupAccess`, `AuditRouter`, `BucketMounts`,
`FolderPrecreator`, each with runs and proofs.

A composition of webhook, ServiceAccount, binding and probe is left: the probe
completes only when the binding is effective, hence no pod runs before its
access does.
