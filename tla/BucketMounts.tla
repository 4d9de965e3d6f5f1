---------------------------- MODULE BucketMounts ----------------------------
(***************************************************************************)
(* What the StatefulSet webhook makes of a pod template: a volume for each *)
(* bucket the user's group may use, its mount in the service container,    *)
(* and the precreator container, which mounts all of them; or nothing of   *)
(* that, once access has expired.  Handle runs on every write of the       *)
(* StatefulSet, hence on its own output, and keeps what it finds there.    *)
(*                                                                         *)
(* A mount map is a set of pairs <<mount point, bucket>>, one per mount    *)
(* point.  A write is one step: Handle, the API server's validation of     *)
(* what it returns, and storage (IamProbe splits them).                    *)
(***************************************************************************)
EXTENDS Integers, FiniteSets

CONSTANTS
  Groups, Teams, Points, Names, Buckets, Containers, Images, Durations,
  Configs,         \* GroupConfigs is the sequence 1..Configs
  Suffix,          \* Suffix[g]: the configurations whose name g ends with
  ReasonRequired,  \* the configurations with reasonRequired
  ToTeam,          \* ToTeam[c][g]: the team of group g under configuration c
  Volume,          \* maxLengthVolumeName
  Extra,           \* the buckets that the mount-buckets annotation can name
  Shared,          \* the mount points of mount-shared-buckets
  SharedBucket,    \* SharedBucket[m]: the bucket that the template gives for m
  Standard,        \* Standard[t]: the mounts of the buckets of team t
  NoGroup, NoImage, NoTime, BadDur,
  Env,             \* the kinds of writes that may happen, a subset of EnvKinds
  MaxEvents,       \* how many of them may happen in one behaviour
  MaxTime          \* the clock stops there

(***************************************************************************)
(* create     the StatefulSet is created                                   *)
(* edit       an annotation about buckets, or the duration, is changed     *)
(* regroup    the group annotation is changed, added or removed            *)
(* rename     the service-container-name annotation names another container*)
(* replace    a PUT of the user's manifest, which has no buckets           *)
(* touch      a write of anything else                                     *)
(* upgrade    the manager restarts with another PRECREATOR_IMAGE, or none  *)
(* lookupFails   a lookup of the project fails, or a listing of buckets    *)
(*               ends early                                                *)
(***************************************************************************)
EnvKinds ==
  {"create", "edit", "regroup", "rename", "replace", "touch", "upgrade", "lookupFails"}

Mounts == Points \X Buckets

ASSUME ConfigAssumption ==
  /\ Configs \in Nat
  /\ Suffix \in [Groups -> SUBSET (1..Configs)]
  /\ \A g \in Groups : Suffix[g] # {} => \E c \in Suffix[g] : \A d \in Suffix[g] : c <= d
  /\ ReasonRequired \subseteq 1..Configs
  /\ ToTeam \in [1..Configs -> [Groups -> Teams]]
ASSUME MountAssumption ==
  /\ Volume \in [Points -> Names]
  /\ Extra \subseteq Points \cap Buckets
  /\ Shared \subseteq Points /\ SharedBucket \in [Shared -> Buckets]
  /\ Standard \in [Teams -> SUBSET Mounts]
ASSUME AbsentAssumption ==
  NoGroup \notin Groups /\ NoImage \notin Images /\ NoTime \notin Nat /\ BadDur \notin Nat
ASSUME DurationAssumption == Durations # {} /\ Durations \subseteq Nat \cup {BadDur}
ASSUME ContainerAssumption == Containers # {}
ASSUME BoundAssumption == Env \subseteq EnvKinds /\ MaxEvents \in Nat /\ MaxTime \in Nat

VARIABLES
  sfs,      \* the StatefulSet
  now,      \* the time
  image,    \* PrecreatorImage
  last,     \* history: the map and the image of the last write, and if expired
  given,    \* history: what writes have wanted since the template had no volumes
  refused,  \* history: a write was refused although its map was unambiguous
  events    \* writes left, and the kinds seen

vars == <<sfs, now, image, last, given, refused, events>>

\* vols are the bucket volumes, mounts the pairs <<container, mount point>>,
\* adc the pairs <<container, value of its ADC environment variable>>, pre the
\* precreator container with its pairs <<volume name, bucket>>.
Precreator == [image: Images \cup {NoImage}, mounts: SUBSET (Names \X Buckets)]

StatefulSet ==
  [live: BOOLEAN, created: Nat \cup {NoTime}, revived: BOOLEAN,
   group: Groups \cup {NoGroup}, svc: Containers, extra: SUBSET Extra,
   shared: SUBSET Shared, std: BOOLEAN, dur: Durations,
   vols: SUBSET Mounts, mounts: SUBSET (Containers \X Points),
   adc: SUBSET (Containers \X Groups), pre: Precreator]

NoPrecreator == [image |-> NoImage, mounts |-> {}]

\* The template of a manifest.
Bare(o) == [o EXCEPT !.vols = {}, !.mounts = {}, !.adc = {}, !.pre = NoPrecreator]

Event(kind) ==
  /\ kind \in Env
  /\ events.left > 0
  /\ events' = [left |-> events.left - 1, seen |-> events.seen \cup {kind}]

-----------------------------------------------------------------------------
(* Group configurations.                                                   *)

Configured(g) == Suffix[g] # {}

\* The first configuration whose name is a suffix.
GetConfig(g) == CHOOSE c \in Suffix[g] : \A d \in Suffix[g] : c <= d

Team(g) == ToTeam[GetConfig(g)][g]

Reasoned(o) == GetConfig(o.group) \in ReasonRequired

\* Handle denies other objects.
Admissible(o) ==
  o.group # NoGroup => Configured(o.group) /\ (Reasoned(o) => o.dur # BadDur)

-----------------------------------------------------------------------------
(* The mount map.                                                          *)

\* Writing the entries of map a over those of map b.
Over(a, b) == a \cup {y \in b : \A x \in a : x[1] # y[1]}

\* The mount point of an extra bucket is its name.
ExtraMounts(o) == {<<b, b>> : b \in o.extra}

SharedMounts(o) == {<<m, SharedBucket[m]>> : m \in o.shared}

\* No project, no buckets; what was listed before an error stays in the map.
StandardMounts(o) ==
  LET all == IF o.std THEN Standard[Team(o.group)] ELSE {}
  IN  {all} \cup (IF "lookupFails" \in Env THEN SUBSET all ELSE {})

\* Later entries overwrite earlier ones.
Wanted(o, standard) == Over(standard, Over(SharedMounts(o), ExtraMounts(o)))

VolumeNames(map) == {Volume[x[1]] : x \in map}

-----------------------------------------------------------------------------
(* volumes.go and precreator.go.                                           *)

\* Mutant: addBucketsToPodSpec compares the whole volume.
NewVolumesByValue(o, map) == map \ o.vols

\* A volume is added unless there is one of its name.
NewVolumes(o, map) == {x \in map : Volume[x[1]] \notin VolumeNames(o.vols)}

\* Mutant: a mount is added together with its volume only.
NewMountsOfNewVolumes(o, map) == {<<o.svc, x[1]>> : x \in NewVolumes(o, map)}

NewMounts(o, map) ==
  {<<o.svc, x[1]>> : x \in {x \in map :
     \A m \in o.mounts : m[1] = o.svc => Volume[m[2]] # Volume[x[1]]}}

\* Mutant: the precreator mounts a volume at the path of the service container.
PrecreatorMountsByPoint(map) == {{<<Volume[x[1]], x[1]>> : x \in map}}

\* The mounts of a new precreator: one per volume name, for colliding names
\* the one that comes last in the map's random order.
PrecreatorMounts(map) ==
  {p \in SUBSET {<<Volume[x[1]], x[2]>> : x \in map} :
     \A n \in VolumeNames(map) : Cardinality({m \in p : m[1] = n}) = 1}

MountedNames(pre) == {m[1] : m \in pre.mounts}

\* The comparison with the existing precreator looks at image and names.
UpToDate(pre, new) == pre.image = new.image /\ MountedNames(pre) = MountedNames(new)

\* addOrUpdatePrecreator.  The lists it compares are in random order: with two
\* mounts or more a precreator that is up to date may be replaced as well.
Precreators(pre, map) ==
  LET new == {[image |-> image, mounts |-> p] : p \in PrecreatorMounts(map)}
  IN  {q \in new : ~UpToDate(pre, q) \/ Cardinality(q.mounts) > 1}
        \cup {q \in {pre} : \E r \in new : UpToDate(q, r)}

RemovePrecreator(o) == [o EXCEPT !.pre = NoPrecreator]

AddBuckets(o, map) ==
  LET p == [o EXCEPT !.vols = @ \cup NewVolumes(o, map),
                     !.mounts = @ \cup NewMounts(o, map)]
  IN  IF image = NoImage
      THEN {RemovePrecreator(p)}
      ELSE {[p EXCEPT !.pre = q] : q \in Precreators(o.pre, map)}

\* Only the current service container is cleaned.
RemoveBuckets(o) == [o EXCEPT !.vols = {}, !.mounts = {m \in @ : m[1] # o.svc}]

\* Mutant: the precreator stays.
RemoveBucketsOnly(o) == RemoveBuckets(o)

RemoveAccess(o) == RemovePrecreator(RemoveBuckets(o))

\* Mutant: the time of creation is not looked at.
ExpiredSinceEver(o) == Reasoned(o)

\* On CREATE the object has no creationTimestamp; the zero time is long ago.
Expired(o) == Reasoned(o) /\ (o.created # NoTime => now > o.created + o.dur)

\* Mutant: the variable is looked for in all containers.
WithGroupAnywhere(o) ==
  IF o.adc # {} THEN o ELSE [o EXCEPT !.adc = {<<o.svc, o.group>>}]

\* The variable that names the group is added, and never corrected.
WithGroup(o) ==
  IF \E e \in o.adc : e[1] = o.svc
  THEN o
  ELSE [o EXCEPT !.adc = @ \cup {<<o.svc, o.group>>}]

-----------------------------------------------------------------------------
(* Writes.                                                                 *)

\* What the API server requires of volumes and mounts.
Valid(o) ==
  /\ \A v, w \in o.vols : Volume[v[1]] = Volume[w[1]] => v = w
  /\ \A m \in o.mounts : Volume[m[2]] \in VolumeNames(o.vols)
  /\ MountedNames(o.pre) \subseteq VolumeNames(o.vols)
  /\ \A m, n \in o.pre.mounts : m[2] = n[2] => m = n

\* No two mount points have one volume name, and none one bucket.
Unambiguous(map) ==
  \A x, y \in map : Volume[x[1]] = Volume[y[1]] \/ x[2] = y[2] => x = y

\* The API server sets the creationTimestamp of what it stores first.
Stored(o) == IF o.created = NoTime THEN [o EXCEPT !.created = now] ELSE o

\* What has been wanted for the volumes that a submitted template has.
Since(o) == IF o.vols = {} THEN {} ELSE given

\* Storage takes what Handle has made of o, unless it is not valid.
Take(o, map, wanted) ==
  \/ /\ Valid(o)
     /\ sfs' = Stored(o)
     /\ last' = map
     /\ given' = wanted
     /\ UNCHANGED refused
  \/ /\ ~Valid(o)
     /\ refused' = (refused \/ Unambiguous(map.mounts))
     /\ UNCHANGED <<sfs, last, given>>

\* Handle, for an object that has a group.
Mutate(o) ==
  \/ /\ Expired(o)
     /\ Take(RemoveAccess(o), [mounts |-> {}, image |-> NoImage, expired |-> TRUE], {})
  \/ /\ ~Expired(o)
     /\ \E standard \in StandardMounts(o) :
          LET map == Wanted(o, standard)
          IN  \E p \in AddBuckets(o, map) :
                Take(p, [mounts |-> map, image |-> image, expired |-> FALSE],
                     Since(o) \cup map)

Write(o) ==
  /\ Admissible(o)
  /\ \/ o.group # NoGroup /\ Mutate(WithGroup(o))
     \/ o.group = NoGroup /\ Take(o, [last EXCEPT !.mounts = {}], Since(o))
  /\ UNCHANGED <<now, image>>

Create(g, extra, shared, std, dur) ==
  /\ ~sfs.live
  /\ Event("create")
  /\ Write([sfs EXCEPT !.live = TRUE, !.group = g, !.extra = extra,
                       !.shared = shared, !.std = std, !.dur = dur])

Edits ==
  {[sfs EXCEPT !.extra = x] : x \in SUBSET Extra}
    \cup {[sfs EXCEPT !.shared = x] : x \in SUBSET Shared}
    \cup {[sfs EXCEPT !.std = x] : x \in BOOLEAN}
    \cup {[sfs EXCEPT !.dur = x] : x \in Durations}

Edit ==
  /\ sfs.live
  /\ Event("edit")
  /\ \E o \in Edits \ {sfs} : Write(o)

Regroup(g) ==
  /\ sfs.live
  /\ g # sfs.group
  /\ Event("regroup")
  /\ Write([sfs EXCEPT !.group = g])

Rename(c) ==
  /\ sfs.live
  /\ c # sfs.svc
  /\ Event("rename")
  /\ Write([sfs EXCEPT !.svc = c])

Replace ==
  /\ sfs.live
  /\ Event("replace")
  /\ Write(Bare(sfs))

Touch ==
  /\ sfs.live
  /\ Event("touch")
  /\ Write(sfs)

\* The JobReconciler's Update after the probe, which gives the service pods.
Revive ==
  /\ sfs.live
  /\ ~sfs.revived
  /\ Write([sfs EXCEPT !.revived = TRUE])
  /\ UNCHANGED events

Upgrade ==
  /\ Event("upgrade")
  /\ \E i \in (Images \cup {NoImage}) \ {image} : image' = i
  /\ UNCHANGED <<sfs, now, last, given, refused>>

Tick ==
  /\ now < MaxTime
  /\ now' = now + 1
  /\ UNCHANGED <<sfs, image, last, given, refused, events>>

Init ==
  /\ sfs = [live |-> FALSE, created |-> NoTime, revived |-> FALSE,
            group |-> NoGroup, svc |-> CHOOSE c \in Containers : TRUE,
            extra |-> {}, shared |-> {}, std |-> FALSE,
            dur |-> CHOOSE d \in Durations : TRUE,
            vols |-> {}, mounts |-> {}, adc |-> {}, pre |-> NoPrecreator]
  /\ now = 0
  /\ image \in Images \cup {NoImage}
  /\ last = [mounts |-> {}, image |-> NoImage, expired |-> FALSE]
  /\ given = {}
  /\ refused = FALSE
  /\ events = [left |-> MaxEvents, seen |-> {}]

Next ==
  \/ \E g \in Groups, extra \in SUBSET Extra, shared \in SUBSET Shared,
        std \in BOOLEAN, d \in Durations : Create(g, extra, shared, std, d)
  \/ \E g \in Groups \cup {NoGroup} : Regroup(g)
  \/ \E c \in Containers : Rename(c)
  \/ Edit \/ Replace \/ Touch \/ Revive \/ Upgrade \/ Tick

Spec == Init /\ [][Next]_vars

-----------------------------------------------------------------------------
(* Properties.                                                             *)

\* Types: the stored StatefulSet and the histories have the shapes that
\* Handle (statefulset_webhook.go) gives them.
TypeOK ==
  /\ sfs \in StatefulSet
  /\ now \in Nat
  /\ image \in Images \cup {NoImage}
  /\ last \in [mounts: SUBSET Mounts, image: Images \cup {NoImage}, expired: BOOLEAN]
  /\ given \subseteq Mounts
  /\ refused \in BOOLEAN
  /\ events \in [left: Nat, seen: SUBSET EnvKinds]

Managed == sfs.live /\ sfs.group # NoGroup

\* What has been wanted under the volume name of mount point m.
Claims(m) == {y \in given : Volume[y[1]] = Volume[m]}

\* However often Handle has run on its own output, and whatever was renamed,
\* regrouped or half listed in between, the last write has what it wanted: each
\* of its buckets has its volume, a mount at its mount point in the service
\* container of now, and one in the precreator at the bucket's name; and the
\* precreator, of the image of that write, mounts nothing else.
\* addBucketsToPodSpec and addOrUpdatePrecreator compare volume names only: once
\* two mount points or two buckets have been wanted under one name, volume and
\* mount may be those of another that has claimed it since the template was
\* last without volumes; otherwise Claims(x[1]) is {x} and each clause is about
\* x itself.  Whether there is a precreator when nothing is wanted is left to
\* NoPrecreatorWithoutBuckets.
WantedMounted ==
  Managed /\ ~last.expired =>
    /\ \A x \in last.mounts :
         /\ x \in Claims(x[1])
         /\ \E y \in Claims(x[1]) : y \in sfs.vols
         /\ \E y \in Claims(x[1]) : <<sfs.svc, y[1]>> \in sfs.mounts
         /\ last.image # NoImage =>
              \E y \in Claims(x[1]) : <<Volume[x[1]], y[2]>> \in sfs.pre.mounts
    /\ last.mounts # {} => sfs.pre.image = last.image
    /\ MountedNames(sfs.pre) =
         IF last.image = NoImage THEN {} ELSE VolumeNames(last.mounts)

\* A volume is of the bucket it was asked for, also when the last write no
\* longer wants it, and the precreator calls it by the name of that bucket,
\* unless different buckets have been wanted under one volume name since the
\* template was last without volumes: the webhook keeps the bucket of a team
\* that the StatefulSet has left, until access expires or the manifest is put.
RightBucket ==
  \A m \in Points, b \in Buckets :
    {y[2] : y \in Claims(m)} = {b} =>
      /\ \A v \in sfs.vols : Volume[v[1]] = Volume[m] => v[2] = b
      /\ \A n \in sfs.pre.mounts : n[1] = Volume[m] => n[2] = b

\* The service container acts for the group whose buckets it has, and none for
\* two, unless the group was changed: Handle leaves an existing variable alone.
ActsForItsGroup ==
  Managed /\ "regroup" \notin events.seen => {e[2] : e \in sfs.adc} = {sfs.group}
                                          /\ \E e \in sfs.adc : e[1] = sfs.svc

\* A write that finds access expired leaves no way to a bucket: no volume, no
\* precreator, and no mount in any container, although Handle cleans only the
\* service container of now (removeBucketsFromPodSpec, removePrecreator).
ExpiredLeavesNothing ==
  last.expired => sfs.vols = {} /\ sfs.mounts = {} /\ sfs.pre = NoPrecreator

\* What Handle makes of a StatefulSet is valid for the API server, whose
\* rejection a user sees as a failed edit, unless the map itself is ambiguous
\* or the service container was changed: its old mounts then outlive the
\* volumes, when access expires.
RefusedOnlyAfterRename == refused => "rename" \in events.seen

\* On CREATE the zero creationTimestamp makes any access look expired; the
\* write that revives the service puts the buckets back, so that pods run
\* without them only when the requested duration is really over.
RevivedKeepsAccess ==
  Managed /\ sfs.revived /\ last.expired => now > sfs.created + sfs.dur

\* "skip precreator sidecar if no buckets are mounted" (CHANGELOG.md:410): a
\* template without bucket volumes has no precreator container.  Handle adds it
\* for an empty map as well (addOrUpdatePrecreator).
NoPrecreatorWithoutBuckets ==
  Managed /\ sfs.vols = {} => sfs.pre = NoPrecreator
=============================================================================
