------------------------- MODULE BucketMountsProofs -------------------------
(***************************************************************************)
(* Proofs about BucketMounts.  Every change of the stored StatefulSet is a *)
(* Write(o) of some object o made from it, so each property is shown once  *)
(* for Write, and then for the steps by what they do to o.                 *)
(***************************************************************************)
EXTENDS BucketMounts, TLAPS, FiniteSetTheorems

\* What a step submits to the webhook.
Submitted(o) ==
  \/ /\ ~sfs.live
     /\ \E g \in Groups, x \in SUBSET Extra, s \in SUBSET Shared, b \in BOOLEAN, d \in Durations :
          o = [sfs EXCEPT !.live = TRUE, !.group = g, !.extra = x,
                          !.shared = s, !.std = b, !.dur = d]
     /\ Event("create")
  \/ /\ sfs.live
     /\ \/ /\ o \in Edits
           /\ Event("edit")
        \/ /\ \E g \in Groups \cup {NoGroup} : o = [sfs EXCEPT !.group = g]
           /\ Event("regroup")
        \/ /\ \E c \in Containers : o = [sfs EXCEPT !.svc = c]
           /\ Event("rename")
        \/ /\ o = Bare(sfs)
           /\ Event("replace")
        \/ /\ o = sfs
           /\ Event("touch")
        \/ /\ o = [sfs EXCEPT !.revived = TRUE]
           /\ events' = events

\* A step is a write of a submitted object, an upgrade, a tick or a stutter.
LEMMA Steps ==
  ASSUME [Next]_vars
  PROVE  \/ \E o : Submitted(o) /\ Write(o)
         \/ Upgrade
         \/ Tick
         \/ UNCHANGED vars
<1>1. ASSUME NEW g \in Groups, NEW x \in SUBSET Extra, NEW s \in SUBSET Shared,
             NEW b \in BOOLEAN, NEW d \in Durations, Create(g, x, s, b, d)
      PROVE  \E o : Submitted(o) /\ Write(o)
  <2>. DEFINE o == [sfs EXCEPT !.live = TRUE, !.group = g, !.extra = x,
                               !.shared = s, !.std = b, !.dur = d]
  <2>1. Write(o)
    BY <1>1 DEF Create
  <2>2. Submitted(o)
    BY <1>1 DEF Create, Submitted
  <2>. QED  BY <2>1, <2>2
<1>2. ASSUME NEW g \in Groups \cup {NoGroup}, Regroup(g)
      PROVE  \E o : Submitted(o) /\ Write(o)
  <2>1. Submitted([sfs EXCEPT !.group = g])
    BY <1>2 DEF Regroup, Submitted
  <2>. QED  BY <1>2, <2>1 DEF Regroup
<1>3. ASSUME NEW c \in Containers, Rename(c)
      PROVE  \E o : Submitted(o) /\ Write(o)
  <2>1. Submitted([sfs EXCEPT !.svc = c])
    BY <1>3 DEF Rename, Submitted
  <2>. QED  BY <1>3, <2>1 DEF Rename
<1>4. ASSUME Edit
      PROVE  \E o : Submitted(o) /\ Write(o)
  <2>1. PICK o \in Edits : Write(o)
    BY <1>4 DEF Edit
  <2>2. Submitted(o)
    BY <1>4 DEF Edit, Submitted
  <2>. QED  BY <2>1, <2>2
<1>5. ASSUME Replace
      PROVE  \E o : Submitted(o) /\ Write(o)
  BY <1>5 DEF Replace, Submitted
<1>6. ASSUME Touch
      PROVE  \E o : Submitted(o) /\ Write(o)
  BY <1>6 DEF Touch, Submitted
<1>7. ASSUME Revive
      PROVE  \E o : Submitted(o) /\ Write(o)
  <2>1. Submitted([sfs EXCEPT !.revived = TRUE])
    BY <1>7 DEF Revive, Submitted
  <2>. QED  BY <1>7, <2>1 DEF Revive
<1>. QED  BY <1>1, <1>2, <1>3, <1>4, <1>5, <1>6, <1>7 DEF Next

-----------------------------------------------------------------------------
(* Types.                                                                  *)

\* GetConfig finds one of the configurations.
LEMMA FirstConfig ==
  ASSUME NEW g \in Groups, Configured(g)
  PROVE  GetConfig(g) \in 1..Configs
<1>1. \E c \in Suffix[g] : \A d \in Suffix[g] : c <= d
  BY ConfigAssumption DEF Configured
<1>2. GetConfig(g) \in Suffix[g]
  BY <1>1 DEF GetConfig
<1>. QED  BY <1>2, ConfigAssumption

\* The map has the type of a mount map.
LEMMA MapType ==
  ASSUME NEW o \in StatefulSet, o.group # NoGroup, Configured(o.group),
         NEW standard \in StandardMounts(o)
  PROVE  Wanted(o, standard) \subseteq Mounts
<1>1. o.group \in Groups
  BY DEF StatefulSet
<1>2. Team(o.group) \in Teams
  BY <1>1, FirstConfig, ConfigAssumption DEF Team
<1>3. standard \subseteq Mounts
  <2>1. Standard[Team(o.group)] \subseteq Mounts
    BY <1>2, MountAssumption
  <2>. QED  BY <2>1 DEF StandardMounts
<1>4. o.extra \subseteq Extra /\ o.shared \subseteq Shared
  BY DEF StatefulSet
<1>5. ExtraMounts(o) \subseteq Mounts
  BY <1>4, MountAssumption DEF ExtraMounts, Mounts
<1>6. SharedMounts(o) \subseteq Mounts
  BY <1>4, MountAssumption DEF SharedMounts, Mounts
<1>. QED  BY <1>3, <1>5, <1>6 DEF Wanted, Over

\* A new precreator has one mount for each volume name of the map.
LEMMA PrecreatorNames ==
  ASSUME NEW map \in SUBSET Mounts, NEW p \in PrecreatorMounts(map)
  PROVE  /\ p \subseteq Names \X Buckets
         /\ {m[1] : m \in p} = VolumeNames(map)
<1>1. p \subseteq {<<Volume[x[1]], x[2]>> : x \in map}
  BY DEF PrecreatorMounts
<1>2. p \subseteq Names \X Buckets
  BY <1>1, MountAssumption DEF Mounts
<1>3. {m[1] : m \in p} \subseteq VolumeNames(map)
  BY <1>1 DEF VolumeNames
<1>4. ASSUME NEW n \in VolumeNames(map)
      PROVE  \E m \in p : m[1] = n
  <2>1. Cardinality({m \in p : m[1] = n}) = 1
    BY DEF PrecreatorMounts
  <2>2. {m \in p : m[1] = n} # {}
    BY <2>1, FS_EmptySet
  <2>. QED  BY <2>2
<1>. QED  BY <1>2, <1>3, <1>4

\* What addOrUpdatePrecreator leaves is of the image and mounts the names of
\* the map, whether it is kept or replaced.
LEMMA PrecreatorFits ==
  ASSUME NEW pre \in Precreator, NEW map \in SUBSET Mounts,
         image \in Images \cup {NoImage},
         NEW q \in Precreators(pre, map)
  PROVE  /\ q \in Precreator
         /\ q.image = image
         /\ MountedNames(q) = VolumeNames(map)
<1>. DEFINE new == {[image |-> image, mounts |-> p] : p \in PrecreatorMounts(map)}
<1>1. ASSUME NEW r \in new
      PROVE  r \in Precreator /\ r.image = image /\ MountedNames(r) = VolumeNames(map)
  <2>1. PICK p \in PrecreatorMounts(map) : r = [image |-> image, mounts |-> p]
    OBVIOUS
  <2>. QED  BY <2>1, PrecreatorNames DEF Precreator, MountedNames
<1>2. CASE q \in new
  BY <1>1, <1>2
<1>3. CASE q = pre /\ \E r \in new : UpToDate(q, r)
  BY <1>1, <1>3 DEF UpToDate
<1>. QED  BY <1>2, <1>3 DEF Precreators

\* AddBuckets keeps everything but volumes, mounts and precreator.
LEMMA AddBucketsFits ==
  ASSUME NEW o \in StatefulSet, NEW map \in SUBSET Mounts,
         image \in Images \cup {NoImage}, NEW p \in AddBuckets(o, map)
  PROVE  /\ p \in StatefulSet
         /\ p = [o EXCEPT !.vols = p.vols, !.mounts = p.mounts, !.pre = p.pre]
         /\ p.vols = o.vols \cup NewVolumes(o, map)
         /\ p.mounts = o.mounts \cup NewMounts(o, map)
         /\ p.pre.image = image
         /\ MountedNames(p.pre) = IF image = NoImage THEN {} ELSE VolumeNames(map)
<1>1. NewVolumes(o, map) \subseteq Mounts
  BY DEF NewVolumes
<1>2. NewMounts(o, map) \subseteq Containers \X Points
  BY DEF NewMounts, StatefulSet, Mounts
<1>3. NoPrecreator \in Precreator
  BY DEF NoPrecreator, Precreator
<1>4. CASE image = NoImage
  <2>1. p = [o EXCEPT !.vols = @ \cup NewVolumes(o, map),
                      !.mounts = @ \cup NewMounts(o, map), !.pre = NoPrecreator]
    BY <1>4 DEF AddBuckets, RemovePrecreator, StatefulSet
  <2>2. MountedNames(NoPrecreator) = {} /\ NoPrecreator.image = NoImage
    BY DEF MountedNames, NoPrecreator
  <2>. QED  BY <2>1, <2>2, <1>1, <1>2, <1>3, <1>4 DEF StatefulSet
<1>5. CASE image # NoImage
  <2>1. PICK q \in Precreators(o.pre, map) :
          p = [o EXCEPT !.vols = @ \cup NewVolumes(o, map),
                        !.mounts = @ \cup NewMounts(o, map), !.pre = q]
    BY <1>5 DEF AddBuckets, StatefulSet
  <2>2. o.pre \in Precreator
    BY DEF StatefulSet
  <2>3. q \in Precreator /\ q.image = image /\ MountedNames(q) = VolumeNames(map)
    BY <2>2, PrecreatorFits
  <2>. QED  BY <2>1, <2>3, <1>1, <1>2, <1>5 DEF StatefulSet
<1>. QED  BY <1>4, <1>5

LEMMA WithGroupFits ==
  ASSUME NEW o \in StatefulSet, o.group # NoGroup
  PROVE  /\ WithGroup(o) \in StatefulSet
         /\ WithGroup(o) = [o EXCEPT !.adc = WithGroup(o).adc]
<1>1. o.group \in Groups /\ o.svc \in Containers
  BY DEF StatefulSet
<1>2. o.adc \cup {<<o.svc, o.group>>} \subseteq Containers \X Groups
  BY <1>1 DEF StatefulSet
<1>3. CASE \E e \in o.adc : e[1] = o.svc
  BY <1>3 DEF WithGroup, StatefulSet
<1>4. CASE ~\E e \in o.adc : e[1] = o.svc
  <2>1. WithGroup(o) = [o EXCEPT !.adc = @ \cup {<<o.svc, o.group>>}]
    BY <1>4 DEF WithGroup
  <2>. QED  BY <2>1, <1>2 DEF StatefulSet
<1>. QED  BY <1>3, <1>4

LEMMA RemoveAccessFits ==
  ASSUME NEW o \in StatefulSet
  PROVE  RemoveAccess(o) \in StatefulSet
BY DEF RemoveAccess, RemoveBuckets, RemovePrecreator, StatefulSet, NoPrecreator, Precreator

LEMMA StoredFits ==
  ASSUME NEW o \in StatefulSet, now \in Nat
  PROVE  /\ Stored(o) \in StatefulSet
         /\ Stored(o) = [o EXCEPT !.created = Stored(o).created]
         /\ Stored(o).created \in Nat
         /\ o.created # NoTime => Stored(o) = o
BY DEF Stored, StatefulSet

\* The ways in which a write ends: refused, not managed, expired, mounted.
Refused == UNCHANGED <<sfs, last, given>>

Unmanaged(o) ==
  /\ o.group = NoGroup
  /\ Valid(o)
  /\ sfs' = Stored(o)
  /\ last' = [last EXCEPT !.mounts = {}]
  /\ given' = Since(o)
  /\ UNCHANGED refused

Stripped(o) ==
  /\ o.group # NoGroup
  /\ Expired(WithGroup(o))
  /\ Valid(RemoveAccess(WithGroup(o)))
  /\ sfs' = Stored(RemoveAccess(WithGroup(o)))
  /\ last' = [mounts |-> {}, image |-> NoImage, expired |-> TRUE]
  /\ given' = {}
  /\ UNCHANGED refused

Equipped(o, map, p) ==
  /\ o.group # NoGroup
  /\ map \in SUBSET Mounts
  /\ p \in AddBuckets(WithGroup(o), map)
  /\ Valid(p)
  /\ sfs' = Stored(p)
  /\ last' = [mounts |-> map, image |-> image, expired |-> FALSE]
  /\ given' = Since(o) \cup map
  /\ UNCHANGED refused

LEMMA Outcome ==
  ASSUME TypeOK, NEW o \in StatefulSet, Write(o)
  PROVE  /\ UNCHANGED <<now, image>>
         /\ refused' \in BOOLEAN
         /\ given' \subseteq Mounts
         /\ Refused \/ Unmanaged(o) \/ Stripped(o) \/ \E map, p : Equipped(o, map, p)
<1>1. UNCHANGED <<now, image>> /\ Admissible(o)
  BY DEF Write
<1>2. Since(o) \in SUBSET Mounts
  BY DEF Since, TypeOK
<1>3. ASSUME NEW p, NEW map, NEW wanted \in SUBSET Mounts, Take(p, map, wanted)
      PROVE  refused' \in BOOLEAN /\ given' \subseteq Mounts
  <2>1. refused \in BOOLEAN /\ given \subseteq Mounts
    BY DEF TypeOK
  <2>2. refused' \in BOOLEAN
    BY <1>3, <2>1 DEF Take, Unambiguous
  <2>. QED  BY <1>3, <2>1, <2>2 DEF Take
<1>4. CASE o.group = NoGroup
  <2>. DEFINE m == [last EXCEPT !.mounts = {}]
  <2>1. Take(o, m, Since(o))
    BY <1>4 DEF Write
  <2>2. Refused \/ Unmanaged(o)
    BY <1>4, <2>1 DEF Take, Refused, Unmanaged
  <2>3. refused' \in BOOLEAN /\ given' \subseteq Mounts
    BY <2>1, <1>2, <1>3
  <2>. QED  BY <1>1, <2>2, <2>3
<1>5. CASE o.group # NoGroup
  <2>. DEFINE w == WithGroup(o)
  <2>1. w \in StatefulSet /\ w.group = o.group /\ Since(w) = Since(o)
    BY <1>5, WithGroupFits DEF StatefulSet, Since
  <2>2. Mutate(w)
    BY <1>5 DEF Write
  <2>3. CASE Expired(w)
    <3>. DEFINE m == [mounts |-> {}, image |-> NoImage, expired |-> TRUE]
    <3>1. Take(RemoveAccess(w), m, {})
      BY <2>2, <2>3 DEF Mutate
    <3>2. refused' \in BOOLEAN /\ given' \subseteq Mounts
      BY <3>1, <1>3
    <3>3. Refused \/ Stripped(o)
      BY <1>5, <2>3, <3>1 DEF Take, Refused, Stripped
    <3>. QED  BY <1>1, <3>2, <3>3
  <2>4. CASE ~Expired(w)
    <3>1. PICK standard \in StandardMounts(w) :
            \E p \in AddBuckets(w, Wanted(w, standard)) :
              Take(p, [mounts |-> Wanted(w, standard), image |-> image, expired |-> FALSE],
                   Since(w) \cup Wanted(w, standard))
      BY <2>2, <2>4 DEF Mutate
    <3>. DEFINE map == Wanted(w, standard)
                m == [mounts |-> map, image |-> image, expired |-> FALSE]
    <3>2. PICK p \in AddBuckets(w, map) : Take(p, m, Since(o) \cup map)
      BY <2>1, <3>1
    <3>3. Configured(w.group)
      BY <1>1, <1>5, <2>1 DEF Admissible
    <3>4. map \in SUBSET Mounts
      BY <1>5, <2>1, <3>3, MapType
    <3>5. refused' \in BOOLEAN /\ given' \subseteq Mounts
      BY <3>2, <3>4, <1>2, <1>3
    <3>6. Refused \/ Equipped(o, map, p)
      BY <1>5, <3>2, <3>4 DEF Take, Refused, Equipped
    <3>. QED  BY <1>1, <3>5, <3>6
  <2>. QED  BY <2>3, <2>4
<1>. QED  BY <1>4, <1>5

\* What is submitted is a StatefulSet.
LEMMA SubmittedFits ==
  ASSUME TypeOK, NEW o, Submitted(o)
  PROVE  /\ o \in StatefulSet
         /\ o.created = sfs.created
         /\ events' \in [left: Nat, seen: SUBSET EnvKinds]
         /\ events.seen \subseteq events'.seen
<1>1. sfs \in StatefulSet /\ events \in [left: Nat, seen: SUBSET EnvKinds]
  BY DEF TypeOK
<1>2. NoPrecreator \in Precreator
  BY DEF NoPrecreator, Precreator
<1>3. ASSUME NEW k, Event(k)
      PROVE  /\ events' \in [left: Nat, seen: SUBSET EnvKinds]
             /\ events.seen \subseteq events'.seen
  BY <1>1, <1>3, BoundAssumption DEF Event
<1>4. /\ events' \in [left: Nat, seen: SUBSET EnvKinds]
      /\ events.seen \subseteq events'.seen
  BY <1>1, <1>3 DEF Submitted
<1>5. CASE ~sfs.live
  <2>1. PICK g \in Groups, x \in SUBSET Extra, s \in SUBSET Shared, b \in BOOLEAN, d \in Durations :
          o = [sfs EXCEPT !.live = TRUE, !.group = g, !.extra = x,
                          !.shared = s, !.std = b, !.dur = d]
    BY <1>5 DEF Submitted
  <2>. QED  BY <1>1, <1>4, <2>1 DEF StatefulSet
<1>6. CASE o \in Edits
  BY <1>1, <1>4, <1>6 DEF Edits, StatefulSet
<1>7. CASE \E g \in Groups \cup {NoGroup} : o = [sfs EXCEPT !.group = g]
  BY <1>1, <1>4, <1>7 DEF StatefulSet
<1>8. CASE \E c \in Containers : o = [sfs EXCEPT !.svc = c]
  BY <1>1, <1>4, <1>8 DEF StatefulSet
<1>9. CASE o = Bare(sfs)
  BY <1>1, <1>2, <1>4, <1>9 DEF Bare, StatefulSet
<1>10. CASE o = sfs \/ o = [sfs EXCEPT !.revived = TRUE]
  BY <1>1, <1>4, <1>10 DEF StatefulSet
<1>. QED  BY <1>5, <1>6, <1>7, <1>8, <1>9, <1>10 DEF Submitted

LEMMA WriteType ==
  ASSUME TypeOK, NEW o, Submitted(o), Write(o)
  PROVE  TypeOK'
<1>1. o \in StatefulSet /\ events' \in [left: Nat, seen: SUBSET EnvKinds]
  BY SubmittedFits
<1>2. /\ UNCHANGED <<now, image>>
      /\ refused' \in BOOLEAN
      /\ given' \subseteq Mounts
  BY <1>1, Outcome
<1>3. /\ sfs' \in StatefulSet
      /\ last' \in [mounts: SUBSET Mounts, image: Images \cup {NoImage}, expired: BOOLEAN]
  <2>1. CASE Refused
    BY <2>1 DEF TypeOK, Refused
  <2>2. CASE Unmanaged(o)
    BY <2>2, <1>1, StoredFits DEF TypeOK, Unmanaged
  <2>3. CASE Stripped(o)
    <3>1. WithGroup(o) \in StatefulSet
      BY <1>1, <2>3, WithGroupFits DEF Stripped
    <3>2. RemoveAccess(WithGroup(o)) \in StatefulSet
      BY <3>1, RemoveAccessFits
    <3>. QED  BY <2>3, <3>2, StoredFits DEF TypeOK, Stripped
  <2>4. CASE \E map, p : Equipped(o, map, p)
    <3>1. PICK map, p : Equipped(o, map, p)
      BY <2>4
    <3>2. WithGroup(o) \in StatefulSet
      BY <1>1, <3>1, WithGroupFits DEF Equipped
    <3>3. p \in StatefulSet
      BY <3>1, <3>2, AddBucketsFits DEF Equipped, TypeOK
    <3>. QED  BY <3>1, <3>3, StoredFits DEF TypeOK, Equipped
  <2>. QED  BY <1>1, <2>1, <2>2, <2>3, <2>4, Outcome
<1>. QED  BY <1>1, <1>2, <1>3 DEF TypeOK

\* Types are kept by every step: statefulset_webhook.go writes well-formed
\* templates, for any groups, configurations, buckets and containers.
THEOREM TypeCorrect == Spec => []TypeOK
<1>1. Init => TypeOK
  <2>1. NoPrecreator \in Precreator
    BY DEF NoPrecreator, Precreator
  <2>2. /\ (CHOOSE c \in Containers : TRUE) \in Containers
        /\ (CHOOSE d \in Durations : TRUE) \in Durations
    BY ContainerAssumption, DurationAssumption
  <2>3. ASSUME Init  PROVE sfs \in StatefulSet
    BY <2>1, <2>2, <2>3 DEF Init, StatefulSet
  <2>4. ASSUME Init
        PROVE  /\ last \in [mounts: SUBSET Mounts, image: Images \cup {NoImage}, expired: BOOLEAN]
               /\ events \in [left: Nat, seen: SUBSET EnvKinds]
               /\ now \in Nat /\ image \in Images \cup {NoImage}
               /\ given \subseteq Mounts /\ refused \in BOOLEAN
    BY <2>4, BoundAssumption DEF Init
  <2>. QED  BY <2>3, <2>4 DEF TypeOK
<1>2. TypeOK /\ [Next]_vars => TypeOK'
  <2>. SUFFICES ASSUME TypeOK, [Next]_vars  PROVE TypeOK'
    OBVIOUS
  <2>1. CASE \E o : Submitted(o) /\ Write(o)
    BY <2>1, WriteType
  <2>2. CASE Upgrade
    BY <2>2, BoundAssumption DEF Upgrade, Event, TypeOK
  <2>3. CASE Tick
    BY <2>3 DEF Tick, TypeOK
  <2>4. CASE UNCHANGED vars
    BY <2>4 DEF vars, TypeOK
  <2>. QED  BY <2>1, <2>2, <2>3, <2>4, Steps
<1>. QED  BY <1>1, <1>2, PTL DEF Spec

-----------------------------------------------------------------------------
(* What the steps do to the object they submit.                            *)

\* A submitted object keeps all that a webhook has put into the template, or
\* nothing of it.
LEMMA SubmittedTemplate ==
  ASSUME TypeOK, NEW o, Submitted(o)
  PROVE  /\ o.live
         /\ ~sfs.live => o.revived = sfs.revived /\ o.adc = sfs.adc /\ o.group # NoGroup
         /\ \/ /\ o.vols = sfs.vols /\ o.mounts = sfs.mounts
               /\ o.adc = sfs.adc /\ o.pre = sfs.pre
            \/ o.vols = {} /\ o.mounts = {} /\ o.adc = {} /\ o.pre = NoPrecreator
         /\ sfs.live /\ "regroup" \notin events'.seen => o.group = sfs.group
<1>1. sfs \in StatefulSet /\ events \in [left: Nat, seen: SUBSET EnvKinds]
  BY DEF TypeOK
<1>2. CASE ~sfs.live
  <2>1. PICK g \in Groups, x \in SUBSET Extra, s \in SUBSET Shared, b \in BOOLEAN, d \in Durations :
          o = [sfs EXCEPT !.live = TRUE, !.group = g, !.extra = x,
                          !.shared = s, !.std = b, !.dur = d]
    BY <1>2 DEF Submitted
  <2>. QED  BY <1>1, <1>2, <2>1, AbsentAssumption DEF StatefulSet
<1>3. CASE sfs.live
  <2>1. CASE o \in Edits
    BY <1>1, <1>3, <2>1 DEF Edits, StatefulSet
  <2>2. CASE /\ \E g \in Groups \cup {NoGroup} : o = [sfs EXCEPT !.group = g]
             /\ Event("regroup")
    BY <1>1, <1>3, <2>2 DEF Event, StatefulSet
  <2>3. CASE \E c \in Containers : o = [sfs EXCEPT !.svc = c]
    BY <1>1, <1>3, <2>3 DEF StatefulSet
  <2>4. CASE o = Bare(sfs)
    BY <1>1, <1>3, <2>4 DEF Bare, StatefulSet
  <2>5. CASE o = sfs \/ o = [sfs EXCEPT !.revived = TRUE]
    BY <1>1, <1>3, <2>5 DEF StatefulSet
  <2>. QED  BY <1>3, <2>1, <2>2, <2>3, <2>4, <2>5 DEF Submitted
<1>. QED  BY <1>2, <1>3

\* What is stored of an object whose access has expired.
LEMMA StrippedObject ==
  ASSUME TypeOK, NEW o \in StatefulSet, Stripped(o)
  PROVE  /\ sfs' = [o EXCEPT !.vols = {}, !.mounts = {}, !.pre = NoPrecreator,
                             !.adc = WithGroup(o).adc, !.created = sfs'.created]
         /\ o.created # NoTime => sfs'.created = o.created
         /\ sfs'.created \in Nat
<1>. DEFINE w == WithGroup(o)
            r == RemoveAccess(w)
<1>1. w \in StatefulSet /\ w = [o EXCEPT !.adc = w.adc]
  BY WithGroupFits DEF Stripped
<1>2. /\ r \in StatefulSet
      /\ r = [w EXCEPT !.vols = {}, !.mounts = {m \in w.mounts : m[1] # w.svc},
                       !.pre = NoPrecreator]
  BY <1>1 DEF RemoveAccess, RemoveBuckets, RemovePrecreator, StatefulSet,
              NoPrecreator, Precreator
<1>3. r.mounts = {}
  <2>1. r.vols = {}
    BY <1>1, <1>2 DEF StatefulSet
  <2>2. VolumeNames(r.vols) = {}
    BY <2>1 DEF VolumeNames
  <2>. QED  BY <2>2 DEF Stripped, Valid
<1>4. r = [o EXCEPT !.vols = {}, !.mounts = {}, !.pre = NoPrecreator, !.adc = w.adc]
  BY <1>1, <1>2, <1>3 DEF StatefulSet
<1>5. sfs' = Stored(r) /\ now \in Nat
  BY DEF Stripped, TypeOK
<1>. QED  BY <1>2, <1>4, <1>5, StoredFits DEF StatefulSet

\* What is stored of an object that gets its buckets.
LEMMA EquippedObject ==
  ASSUME TypeOK, NEW o \in StatefulSet, NEW map, NEW p, Equipped(o, map, p)
  PROVE  /\ sfs' = [o EXCEPT !.vols = p.vols, !.mounts = p.mounts, !.pre = p.pre,
                             !.adc = WithGroup(o).adc, !.created = sfs'.created]
         /\ sfs'.created \in Nat
         /\ p.vols = o.vols \cup NewVolumes(o, map)
         /\ p.mounts = o.mounts \cup NewMounts(o, map)
         /\ p.pre.image = image
         /\ MountedNames(p.pre) = IF image = NoImage THEN {} ELSE VolumeNames(map)
<1>. DEFINE w == WithGroup(o)
<1>1. w \in StatefulSet /\ w = [o EXCEPT !.adc = w.adc]
  BY WithGroupFits DEF Equipped
<1>2. image \in Images \cup {NoImage} /\ now \in Nat
  BY DEF TypeOK
<1>3. map \in SUBSET Mounts /\ p \in AddBuckets(w, map) /\ sfs' = Stored(p)
  BY DEF Equipped
<1>4. /\ p \in StatefulSet
      /\ p = [w EXCEPT !.vols = p.vols, !.mounts = p.mounts, !.pre = p.pre]
      /\ p.vols = w.vols \cup NewVolumes(w, map)
      /\ p.mounts = w.mounts \cup NewMounts(w, map)
      /\ p.pre.image = image
      /\ MountedNames(p.pre) = IF image = NoImage THEN {} ELSE VolumeNames(map)
  BY <1>1, <1>2, <1>3, AddBucketsFits
<1>5. NewVolumes(w, map) = NewVolumes(o, map) /\ NewMounts(w, map) = NewMounts(o, map)
  BY <1>1 DEF NewVolumes, NewMounts, StatefulSet
<1>6. w.vols = o.vols /\ w.mounts = o.mounts
  BY <1>1 DEF StatefulSet
<1>7. /\ sfs' = [p EXCEPT !.created = sfs'.created]
      /\ sfs'.created \in Nat
  BY <1>2, <1>3, <1>4, StoredFits
<1>8. sfs' = [o EXCEPT !.vols = p.vols, !.mounts = p.mounts, !.pre = p.pre,
                       !.adc = WithGroup(o).adc, !.created = sfs'.created]
  BY <1>1, <1>4, <1>7 DEF StatefulSet
<1>. QED  BY <1>4, <1>5, <1>6, <1>7, <1>8

-----------------------------------------------------------------------------
(* The properties.                                                         *)

\* Steps that write nothing keep the object and the last write.
LEMMA OtherSteps ==
  ASSUME TypeOK, Upgrade \/ Tick \/ UNCHANGED vars
  PROVE  /\ UNCHANGED <<sfs, last>>
         /\ now' >= now
         /\ events.seen \subseteq events'.seen
BY DEF TypeOK, Upgrade, Tick, Event, vars

\* Expiry leaves no way to a bucket, whatever containers and buckets the
\* template had before: removeBucketsFromPodSpec and removePrecreator, and the
\* API server's refusal of mounts without volume.
THEOREM Expiry == Spec => []ExpiredLeavesNothing
<1>1. Init => ExpiredLeavesNothing
  BY DEF Init, ExpiredLeavesNothing
<1>2. TypeOK /\ ExpiredLeavesNothing /\ [Next]_vars => ExpiredLeavesNothing'
  <2>. SUFFICES ASSUME TypeOK, ExpiredLeavesNothing, [Next]_vars
                PROVE  ExpiredLeavesNothing'
    OBVIOUS
  <2>1. ASSUME NEW o, Submitted(o), Write(o)
        PROVE  ExpiredLeavesNothing'
    <3>1. o \in StatefulSet
      BY <2>1, SubmittedFits
    <3>2. CASE Refused
      BY <3>2 DEF Refused, ExpiredLeavesNothing
    <3>3. CASE Unmanaged(o)
      <4>1. last'.expired = last.expired
        BY <3>3 DEF Unmanaged, TypeOK
      <4>2. /\ sfs'.vols = o.vols /\ sfs'.mounts = o.mounts /\ sfs'.pre = o.pre
        BY <3>1, <3>3, StoredFits DEF Unmanaged, TypeOK, StatefulSet
      <4>. QED  BY <2>1, <4>1, <4>2, SubmittedTemplate DEF ExpiredLeavesNothing
    <3>4. CASE Stripped(o)
      BY <3>1, <3>4, StrippedObject DEF ExpiredLeavesNothing, StatefulSet
    <3>5. CASE \E map, p : Equipped(o, map, p)
      BY <3>5 DEF Equipped, ExpiredLeavesNothing
    <3>. QED  BY <2>1, <3>1, <3>2, <3>3, <3>4, <3>5, Outcome
  <2>2. CASE Upgrade \/ Tick \/ UNCHANGED vars
    BY <2>2, OtherSteps DEF ExpiredLeavesNothing
  <2>. QED  BY <2>1, <2>2, Steps
<1>. QED  BY <1>1, <1>2, TypeCorrect, PTL DEF Spec

\* What is stored has a creationTimestamp, and what is not stored was never
\* revived: why a revived StatefulSet is not taken for a new one.  Only a
\* duration that can be parsed expires.
AccessInv ==
  /\ sfs.live => sfs.created \in Nat
  /\ Managed /\ last.expired => sfs.dur \in Nat
  /\ ~sfs.live => ~sfs.revived
  /\ RevivedKeepsAccess

\* The zero creationTimestamp of a CREATE costs no running service its buckets,
\* for any durations and times.
THEOREM RevivedAccess == Spec => []RevivedKeepsAccess
<1>1. Init => AccessInv
  BY DEF Init, AccessInv, RevivedKeepsAccess, Managed
<1>2. TypeOK /\ AccessInv /\ [Next]_vars => AccessInv'
  <2>. SUFFICES ASSUME TypeOK, AccessInv, [Next]_vars
                PROVE  AccessInv'
    OBVIOUS
  <2>1. ASSUME NEW o, Submitted(o), Write(o)
        PROVE  AccessInv'
    <3>1. o \in StatefulSet /\ o.created = sfs.created
      BY <2>1, SubmittedFits
    <3>2. o.live /\ (~sfs.live => ~o.revived)
      BY <2>1, SubmittedTemplate DEF AccessInv
    <3>3. UNCHANGED now
      BY <2>1, <3>1, Outcome
    <3>4. CASE Refused
      BY <3>3, <3>4 DEF Refused, AccessInv, RevivedKeepsAccess, Managed
    <3>5. CASE Unmanaged(o)
      <4>1. sfs'.group = NoGroup /\ sfs'.live /\ sfs'.created \in Nat
        BY <3>1, <3>2, <3>5, StoredFits DEF Unmanaged, TypeOK, StatefulSet
      <4>. QED  BY <4>1 DEF AccessInv, RevivedKeepsAccess, Managed
    <3>6. CASE Stripped(o)
      <4>1. /\ sfs'.live /\ sfs'.created \in Nat
            /\ sfs'.revived = o.revived /\ sfs'.dur = o.dur
            /\ o.created # NoTime => sfs'.created = o.created
        <5>1. /\ sfs' = [o EXCEPT !.vols = {}, !.mounts = {}, !.pre = NoPrecreator,
                                  !.adc = WithGroup(o).adc, !.created = sfs'.created]
              /\ o.created # NoTime => sfs'.created = o.created
              /\ sfs'.created \in Nat
          BY <3>1, <3>6, StrippedObject
        <5>. QED  BY <3>1, <3>2, <5>1 DEF StatefulSet
      <4>2. sfs'.dur \in Nat
        <5>1. Reasoned(o)
          BY <3>1, <3>6, WithGroupFits DEF Stripped, Expired, Reasoned, StatefulSet
        <5>2. o.dur # BadDur
          BY <2>1, <3>6, <5>1 DEF Write, Admissible, Stripped
        <5>. QED  BY <3>1, <4>1, <5>2, DurationAssumption DEF StatefulSet
      <4>3. ASSUME sfs'.revived
            PROVE  now' > sfs'.created + sfs'.dur
        <5>1. o.created # NoTime
          BY <3>1, <3>2, <4>1, <4>3, AbsentAssumption DEF AccessInv
        <5>2. WithGroup(o).created = o.created /\ WithGroup(o).dur = o.dur
          BY <3>1, <3>6, WithGroupFits DEF Stripped, StatefulSet
        <5>3. now > o.created + o.dur
          BY <3>6, <5>1, <5>2 DEF Stripped, Expired
        <5>. QED  BY <3>3, <4>1, <5>1, <5>3
      <4>. QED  BY <4>1, <4>2, <4>3 DEF AccessInv, RevivedKeepsAccess
    <3>7. CASE \E map, p : Equipped(o, map, p)
      <4>1. PICK map, p : Equipped(o, map, p)
        BY <3>7
      <4>2. sfs'.live /\ sfs'.created \in Nat
        <5>1. /\ sfs' = [o EXCEPT !.vols = p.vols, !.mounts = p.mounts, !.pre = p.pre,
                                  !.adc = WithGroup(o).adc, !.created = sfs'.created]
              /\ sfs'.created \in Nat
          BY <3>1, <4>1, EquippedObject
        <5>. QED  BY <3>1, <3>2, <5>1 DEF StatefulSet
      <4>3. ~last'.expired
        BY <4>1 DEF Equipped
      <4>. QED  BY <4>2, <4>3 DEF AccessInv, RevivedKeepsAccess
    <3>. QED  BY <2>1, <3>1, <3>4, <3>5, <3>6, <3>7, Outcome
  <2>2. CASE Upgrade \/ Tick \/ UNCHANGED vars
    <3>1. UNCHANGED <<sfs, last>> /\ now' >= now /\ now' \in Nat
      BY <2>2, OtherSteps DEF TypeOK, Upgrade, Tick, vars
    <3>2. ASSUME Managed, sfs.revived, last.expired
          PROVE  now' > sfs.created + sfs.dur
      <4>1. now > sfs.created + sfs.dur
        BY <3>2 DEF AccessInv, RevivedKeepsAccess
      <4>2. UNCHANGED now \/ now' = now + 1
        BY <2>2 DEF Upgrade, Tick, vars
      <4>3. sfs.created \in Nat /\ sfs.dur \in Nat /\ now \in Nat
        BY <3>2 DEF AccessInv, TypeOK, Managed
      <4>. QED  BY <4>1, <4>2, <4>3
    <3>. QED  BY <3>1, <3>2 DEF AccessInv, RevivedKeepsAccess, Managed
  <2>. QED  BY <2>1, <2>2, Steps
<1>3. AccessInv => RevivedKeepsAccess
  BY DEF AccessInv
<1>. QED  BY <1>1, <1>2, <1>3, TypeCorrect, PTL DEF Spec

-----------------------------------------------------------------------------
(* The group that the service container acts for.                          *)

\* Without regroup no StatefulSet loses its group, and what is not stored has
\* no variable yet.
GroupInv ==
  /\ ~sfs.live => sfs.adc = {}
  /\ sfs.live /\ "regroup" \notin events.seen => sfs.group # NoGroup
  /\ ActsForItsGroup

\* The variable is there after Handle, and no other value is added.
LEMMA WithGroupNames ==
  ASSUME NEW o \in StatefulSet, \A e \in o.adc : e[2] = o.group
  PROVE  /\ {e[2] : e \in WithGroup(o).adc} = {o.group}
         /\ \E e \in WithGroup(o).adc : e[1] = o.svc
<1>1. CASE \E e \in o.adc : e[1] = o.svc
  BY <1>1 DEF WithGroup
<1>2. CASE ~\E e \in o.adc : e[1] = o.svc
  <2>1. WithGroup(o).adc = o.adc \cup {<<o.svc, o.group>>}
    BY <1>2 DEF WithGroup, StatefulSet
  <2>2. <<o.svc, o.group>>[1] = o.svc /\ <<o.svc, o.group>>[2] = o.group
    OBVIOUS
  <2>3. \A e \in WithGroup(o).adc : e[2] = o.group
    BY <2>1, <2>2
  <2>4. \E e \in WithGroup(o).adc : e[1] = o.svc /\ e[2] = o.group
    BY <2>1, <2>2
  <2>. QED  BY <2>3, <2>4
<1>. QED  BY <1>1, <1>2

\* Until its group is changed, every container that was the service container
\* acts for the group of the StatefulSet, however it is renamed, edited and
\* replaced.
THEOREM ActingGroup == Spec => []ActsForItsGroup
<1>1. Init => GroupInv
  BY DEF Init, GroupInv, ActsForItsGroup, Managed
<1>2. TypeOK /\ GroupInv /\ [Next]_vars => GroupInv'
  <2>. SUFFICES ASSUME TypeOK, GroupInv, [Next]_vars
                PROVE  GroupInv'
    OBVIOUS
  <2>1. ASSUME NEW o, Submitted(o), Write(o)
        PROVE  GroupInv'
    <3>1. o \in StatefulSet /\ events.seen \subseteq events'.seen
      BY <2>1, SubmittedFits
    <3>2. /\ o.live
          /\ ~sfs.live => o.adc = {} /\ o.group # NoGroup
          /\ o.adc = sfs.adc \/ o.adc = {}
          /\ sfs.live /\ "regroup" \notin events'.seen => o.group = sfs.group
      BY <2>1, SubmittedTemplate DEF GroupInv
    <3>3. ASSUME "regroup" \notin events'.seen
          PROVE  o.group # NoGroup /\ \A e \in o.adc : e[2] = o.group
      <4>1. CASE ~sfs.live
        BY <3>2, <4>1
      <4>2. CASE sfs.live
        <5>1. "regroup" \notin events.seen
          BY <3>1, <3>3
        <5>2. sfs.group # NoGroup /\ \A e \in sfs.adc : e[2] = sfs.group
          BY <4>2, <5>1 DEF GroupInv, ActsForItsGroup, Managed
        <5>. QED  BY <3>2, <3>3, <4>2, <5>2
      <4>. QED  BY <4>1, <4>2
    <3>4. CASE Refused
      BY <3>1, <3>4 DEF Refused, GroupInv, ActsForItsGroup, Managed
    <3>5. CASE Unmanaged(o)
      <4>1. sfs'.group = NoGroup /\ sfs'.live /\ o.group = NoGroup
        BY <3>1, <3>2, <3>5, StoredFits DEF Unmanaged, TypeOK, StatefulSet
      <4>. QED  BY <3>3, <4>1 DEF GroupInv, ActsForItsGroup, Managed
    <3>6. ASSUME /\ sfs'.live /\ sfs'.group = o.group /\ sfs'.svc = o.svc
                 /\ sfs'.adc = WithGroup(o).adc
          PROVE  GroupInv'
      <4>1. ASSUME "regroup" \notin events'.seen
            PROVE  /\ {e[2] : e \in sfs'.adc} = {sfs'.group}
                   /\ \E e \in sfs'.adc : e[1] = sfs'.svc
        BY <3>1, <3>3, <3>6, <4>1, WithGroupNames
      <4>. QED  BY <3>3, <3>6, <4>1 DEF GroupInv, ActsForItsGroup
    <3>7. CASE Stripped(o)
      <4>1. sfs' = [o EXCEPT !.vols = {}, !.mounts = {}, !.pre = NoPrecreator,
                             !.adc = WithGroup(o).adc, !.created = sfs'.created]
        BY <3>1, <3>7, StrippedObject
      <4>. QED  BY <3>1, <3>2, <3>6, <4>1 DEF StatefulSet
    <3>8. CASE \E map, p : Equipped(o, map, p)
      <4>1. PICK map, p : Equipped(o, map, p)
        BY <3>8
      <4>2. sfs' = [o EXCEPT !.vols = p.vols, !.mounts = p.mounts, !.pre = p.pre,
                             !.adc = WithGroup(o).adc, !.created = sfs'.created]
        BY <3>1, <4>1, EquippedObject
      <4>. QED  BY <3>1, <3>2, <3>6, <4>2 DEF StatefulSet
    <3>. QED  BY <2>1, <3>1, <3>4, <3>5, <3>7, <3>8, Outcome
  <2>2. CASE Upgrade \/ Tick \/ UNCHANGED vars
    BY <2>2, OtherSteps DEF GroupInv, ActsForItsGroup, Managed
  <2>. QED  BY <2>1, <2>2, Steps
<1>3. GroupInv => ActsForItsGroup
  BY DEF GroupInv
<1>. QED  BY <1>1, <1>2, <1>3, TypeCorrect, PTL DEF Spec
-----------------------------------------------------------------------------
(* Volumes, mounts and precreator, and what was asked for.                 *)

\* Every volume, mount and mount of the precreator is one that some write has
\* wanted since the template was last without volumes; and without volumes
\* there are no mounts either.
Backed(o, wanted) ==
  /\ o.vols \subseteq wanted
  /\ \A m \in o.mounts : \E y \in wanted : y[1] = m[2]
  /\ \A m \in o.pre.mounts : \E y \in wanted : m = <<Volume[y[1]], y[2]>>

GivenInv == Valid(sfs) /\ Backed(sfs, given)

\* A precreator is kept as it was, or made from the map.
LEMMA PrecreatorSource ==
  ASSUME NEW o \in StatefulSet, NEW map \in SUBSET Mounts,
         NEW p \in AddBuckets(o, map)
  PROVE  \/ p.pre = o.pre
         \/ p.pre.mounts \subseteq {<<Volume[x[1]], x[2]>> : x \in map}
<1>1. CASE image = NoImage
  <2>1. p.pre = NoPrecreator
    BY <1>1 DEF AddBuckets, RemovePrecreator, StatefulSet
  <2>. QED  BY <2>1 DEF NoPrecreator
<1>2. CASE image # NoImage
  <2>1. PICK q \in Precreators(o.pre, map) : p.pre = q
    BY <1>2 DEF AddBuckets, StatefulSet
  <2>2. CASE q = o.pre
    BY <2>1, <2>2
  <2>3. CASE \E m \in PrecreatorMounts(map) : q = [image |-> image, mounts |-> m]
    BY <2>1, <2>3 DEF PrecreatorMounts
  <2>. QED  BY <2>1, <2>2, <2>3 DEF Precreators
<1>. QED  BY <1>1, <1>2

\* A submitted template is backed as well, also after the history is reset: a
\* valid template without volumes has no mounts.
LEMMA SubmittedBacked ==
  ASSUME TypeOK, GivenInv, NEW o \in StatefulSet, Submitted(o)
  PROVE  Valid(o) /\ Backed(o, Since(o))
<1>1. CASE o.vols = {} /\ o.mounts = {} /\ o.pre = NoPrecreator
  BY <1>1 DEF Backed, Valid, MountedNames, NoPrecreator
<1>2. CASE o.vols = sfs.vols /\ o.mounts = sfs.mounts /\ o.pre = sfs.pre
  <2>1. Valid(o) /\ Backed(o, given)
    BY <1>2 DEF GivenInv, Valid, Backed
  <2>2. CASE o.vols = {}
    <3>1. o.mounts = {}
      BY <2>1, <2>2 DEF Valid, VolumeNames
    <3>2. o.pre.mounts = {}
      BY <2>1, <2>2 DEF Valid, VolumeNames, MountedNames
    <3>. QED  BY <2>1, <2>2, <3>1, <3>2 DEF Backed
  <2>. QED  BY <2>1, <2>2 DEF Since
<1>. QED  BY <1>1, <1>2, SubmittedTemplate

\* So is a template that has been given the buckets of a map.
LEMMA EquippedBacked ==
  ASSUME TypeOK, NEW o \in StatefulSet, Backed(o, Since(o)),
         NEW map, NEW p, Equipped(o, map, p)
  PROVE  Valid(sfs') /\ Backed(sfs', Since(o) \cup map)
<1>1. /\ sfs' = [o EXCEPT !.vols = p.vols, !.mounts = p.mounts, !.pre = p.pre,
                          !.adc = WithGroup(o).adc, !.created = sfs'.created]
      /\ p.vols = o.vols \cup NewVolumes(o, map)
      /\ p.mounts = o.mounts \cup NewMounts(o, map)
  BY EquippedObject
<1>2. sfs'.vols = p.vols /\ sfs'.mounts = p.mounts /\ sfs'.pre = p.pre
  BY <1>1 DEF StatefulSet
<1>3. Valid(sfs')
  BY <1>2 DEF Equipped, Valid
<1>4. p.vols \subseteq Since(o) \cup map
  BY <1>1 DEF NewVolumes, Backed
<1>5. \A m \in p.mounts : \E y \in Since(o) \cup map : y[1] = m[2]
  BY <1>1 DEF NewMounts, Backed
<1>6. \A m \in p.pre.mounts : \E y \in Since(o) \cup map : m = <<Volume[y[1]], y[2]>>
  <2>1. WithGroup(o) \in StatefulSet /\ WithGroup(o).pre = o.pre
    BY WithGroupFits DEF Equipped, StatefulSet
  <2>2. \/ p.pre = o.pre
        \/ p.pre.mounts \subseteq {<<Volume[x[1]], x[2]>> : x \in map}
    BY <2>1, PrecreatorSource DEF Equipped
  <2>. QED  BY <2>2 DEF Backed
<1>. QED  BY <1>2, <1>3, <1>4, <1>5, <1>6 DEF Backed

\* Nothing is in the template that was not asked for: for any writes, maps and
\* names (addBucketsToPodSpec, addOrUpdatePrecreator).
THEOREM Backing == Spec => []GivenInv
<1>1. Init => GivenInv
  BY DEF Init, GivenInv, Backed, Valid, MountedNames, NoPrecreator
<1>2. TypeOK /\ GivenInv /\ [Next]_vars => GivenInv'
  <2>. SUFFICES ASSUME TypeOK, GivenInv, [Next]_vars
                PROVE  GivenInv'
    OBVIOUS
  <2>1. ASSUME NEW o, Submitted(o), Write(o)
        PROVE  GivenInv'
    <3>1. o \in StatefulSet
      BY <2>1, SubmittedFits
    <3>2. Valid(o) /\ Backed(o, Since(o))
      BY <2>1, <3>1, SubmittedBacked
    <3>3. CASE Refused
      BY <3>3 DEF Refused, GivenInv, Valid, Backed
    <3>4. CASE Unmanaged(o)
      <4>1. /\ sfs'.vols = o.vols /\ sfs'.mounts = o.mounts /\ sfs'.pre = o.pre
            /\ given' = Since(o)
        BY <3>1, <3>4, StoredFits DEF Unmanaged, TypeOK, StatefulSet
      <4>. QED  BY <3>2, <4>1 DEF GivenInv, Valid, Backed
    <3>5. CASE Stripped(o)
      <4>1. sfs'.vols = {} /\ sfs'.mounts = {} /\ sfs'.pre = NoPrecreator
        BY <3>1, <3>5, StrippedObject DEF StatefulSet
      <4>. QED  BY <4>1 DEF GivenInv, Valid, Backed, MountedNames, NoPrecreator
    <3>6. CASE \E map, p : Equipped(o, map, p)
      <4>1. PICK map, p : Equipped(o, map, p)
        BY <3>6
      <4>2. given' = Since(o) \cup map
        BY <4>1 DEF Equipped
      <4>. QED  BY <3>1, <3>2, <4>1, <4>2, EquippedBacked DEF GivenInv
    <3>. QED  BY <2>1, <3>1, <3>3, <3>4, <3>5, <3>6, Outcome
  <2>2. CASE Upgrade \/ Tick \/ UNCHANGED vars
    <3>1. UNCHANGED <<sfs, given>>
      BY <2>2 DEF Upgrade, Tick, vars
    <3>. QED  BY <3>1 DEF GivenInv, Valid, Backed
  <2>. QED  BY <2>1, <2>2, Steps
<1>. QED  BY <1>1, <1>2, TypeCorrect, PTL DEF Spec

\* The last write has a volume, a mount and a mount of the precreator for each
\* bucket it wanted, at the mount point it wanted, for any maps, renames and
\* images: addBucketsToPodSpec completes whatever it finds, and what it finds
\* under a volume name is, by GivenInv, what was wanted under that name.
THEOREM Mounting == Spec => []WantedMounted
<1>1. Init => WantedMounted
  BY DEF Init, WantedMounted, Managed
<1>2. TypeOK /\ GivenInv /\ GivenInv' /\ WantedMounted /\ [Next]_vars => WantedMounted'
  <2>. SUFFICES ASSUME TypeOK, GivenInv, GivenInv', WantedMounted, [Next]_vars
                PROVE  WantedMounted'
    OBVIOUS
  <2>1. ASSUME NEW o, Submitted(o), Write(o)
        PROVE  WantedMounted'
    <3>1. o \in StatefulSet
      BY <2>1, SubmittedFits
    <3>2. CASE Refused
      BY <3>2 DEF Refused, WantedMounted, Claims, Managed
    <3>3. CASE Unmanaged(o)
      <4>1. sfs'.group = NoGroup
        BY <3>1, <3>3, StoredFits DEF Unmanaged, TypeOK, StatefulSet
      <4>. QED  BY <4>1 DEF WantedMounted, Managed
    <3>4. CASE Stripped(o)
      BY <3>4 DEF Stripped, WantedMounted
    <3>5. CASE \E map, p : Equipped(o, map, p)
      <4>1. PICK map, p : Equipped(o, map, p)
        BY <3>5
      <4>2. /\ sfs' = [o EXCEPT !.vols = p.vols, !.mounts = p.mounts, !.pre = p.pre,
                                !.adc = WithGroup(o).adc, !.created = sfs'.created]
            /\ p.vols = o.vols \cup NewVolumes(o, map)
            /\ p.mounts = o.mounts \cup NewMounts(o, map)
            /\ p.pre.image = image
            /\ MountedNames(p.pre) = IF image = NoImage THEN {} ELSE VolumeNames(map)
        BY <3>1, <4>1, EquippedObject
      <4>3. /\ sfs'.vols = p.vols /\ sfs'.mounts = p.mounts
            /\ sfs'.pre = p.pre /\ sfs'.svc = o.svc
        BY <3>1, <4>2 DEF StatefulSet
      <4>4. /\ last'.mounts = map /\ last'.image = image
            /\ given' = Since(o) \cup map
        BY <4>1 DEF Equipped
      <4>5. Backed(sfs', given')
        BY DEF GivenInv
      <4>6. ASSUME NEW x \in map
            PROVE  \E y \in Claims(x[1])' : y \in sfs'.vols
        <5>1. PICK y \in p.vols : Volume[y[1]] = Volume[x[1]]
          BY <4>2 DEF NewVolumes, VolumeNames
        <5>. QED  BY <4>3, <4>5, <5>1 DEF Backed, Claims
      <4>7. ASSUME NEW x \in map
            PROVE  \E y \in Claims(x[1])' : <<sfs'.svc, y[1]>> \in sfs'.mounts
        <5>1. PICK m \in p.mounts : m[1] = o.svc /\ Volume[m[2]] = Volume[x[1]]
          <6>1. CASE \E m \in o.mounts : m[1] = o.svc /\ Volume[m[2]] = Volume[x[1]]
            BY <4>2, <6>1
          <6>2. CASE \A m \in o.mounts : m[1] = o.svc => Volume[m[2]] # Volume[x[1]]
            <7>1. <<o.svc, x[1]>> \in NewMounts(o, map)
              BY <6>2 DEF NewMounts
            <7>. QED  BY <4>2, <7>1
          <6>. QED  BY <6>1, <6>2
        <5>2. PICK y \in given' : y[1] = m[2]
          BY <4>3, <4>5, <5>1 DEF Backed
        <5>3. m = <<sfs'.svc, y[1]>>
          <6>1. o.mounts \subseteq Containers \X Points
            BY <3>1 DEF StatefulSet
          <6>2. m = <<m[1], m[2]>>
            BY <4>2, <5>1, <6>1 DEF NewMounts
          <6>. QED  BY <4>3, <5>1, <5>2, <6>2
        <5>4. y \in Claims(x[1])'
          BY <5>1, <5>2 DEF Claims
        <5>. QED  BY <4>3, <5>1, <5>3, <5>4
      <4>8. ASSUME NEW x \in map, image # NoImage
            PROVE  \E y \in Claims(x[1])' : <<Volume[x[1]], y[2]>> \in sfs'.pre.mounts
        <5>1. PICK m \in p.pre.mounts : m[1] = Volume[x[1]]
          <6>1. Volume[x[1]] \in MountedNames(p.pre)
            BY <4>2, <4>8 DEF VolumeNames
          <6>. QED  BY <6>1 DEF MountedNames
        <5>2. PICK y \in given' : m = <<Volume[y[1]], y[2]>>
          BY <4>3, <4>5, <5>1 DEF Backed
        <5>3. y \in Claims(x[1])'
          BY <5>1, <5>2 DEF Claims
        <5>. QED  BY <4>3, <5>1, <5>2, <5>3
      <4>9. ASSUME NEW x \in map
            PROVE  x \in Claims(x[1])'
        BY <4>4 DEF Claims
      <4>. QED  BY <4>2, <4>3, <4>4, <4>6, <4>7, <4>8, <4>9 DEF WantedMounted
    <3>. QED  BY <2>1, <3>1, <3>2, <3>3, <3>4, <3>5, Outcome
  <2>2. CASE Upgrade \/ Tick \/ UNCHANGED vars
    <3>1. UNCHANGED <<sfs, last, given>>
      BY <2>2 DEF Upgrade, Tick, vars
    <3>. QED  BY <3>1 DEF WantedMounted, Claims, Managed
  <2>. QED  BY <2>1, <2>2, Steps
<1>. QED  BY <1>1, <1>2, TypeCorrect, Backing, PTL DEF Spec

\* The webhook never gives a StatefulSet another bucket than was asked for
\* under the volume's name, for any maps and names: the comparison by name
\* errs only when writes have asked for two buckets under one name.
THEOREM BucketsAsWanted == Spec => []RightBucket
<1>1. TypeOK /\ GivenInv => RightBucket
  <2>. SUFFICES ASSUME TypeOK, GivenInv,
                       NEW m \in Points, NEW b \in Buckets,
                       {y[2] : y \in Claims(m)} = {b}
                PROVE  /\ \A v \in sfs.vols : Volume[v[1]] = Volume[m] => v[2] = b
                       /\ \A n \in sfs.pre.mounts : n[1] = Volume[m] => n[2] = b
    BY DEF RightBucket
  <2>1. ASSUME NEW v \in sfs.vols, Volume[v[1]] = Volume[m]
        PROVE  v[2] = b
    <3>1. v \in Claims(m)
      BY <2>1 DEF GivenInv, Backed, Claims
    <3>. QED  BY <3>1
  <2>2. ASSUME NEW n \in sfs.pre.mounts, n[1] = Volume[m]
        PROVE  n[2] = b
    <3>1. PICK y \in given : n = <<Volume[y[1]], y[2]>>
      BY DEF GivenInv, Backed
    <3>2. y \in Claims(m)
      BY <2>2, <3>1 DEF Claims
    <3>. QED  BY <3>1, <3>2
  <2>. QED  BY <2>1, <2>2
<1>. QED  BY <1>1, TypeCorrect, Backing, PTL

-----------------------------------------------------------------------------
(* Refused writes.                                                         *)

\* The stored object is valid, and until a rename its mounts are all in the
\* service container of now, which is the one that Handle cleans.
ValidInv ==
  /\ Valid(sfs)
  /\ "rename" \notin events.seen => \A m \in sfs.mounts : m[1] = sfs.svc
  /\ RefusedOnlyAfterRename

\* A valid object remains valid when it is given the buckets of an unambiguous
\* map: new volumes have new names, every mount has its volume, and the
\* precreator mounts each bucket once.
LEMMA AddBucketsValid ==
  ASSUME NEW o \in StatefulSet, Valid(o), NEW map \in SUBSET Mounts, Unambiguous(map),
         image \in Images \cup {NoImage}, NEW p \in AddBuckets(o, map)
  PROVE  Valid(p)
<1>1. /\ p.vols = o.vols \cup NewVolumes(o, map)
      /\ p.mounts = o.mounts \cup NewMounts(o, map)
      /\ MountedNames(p.pre) = IF image = NoImage THEN {} ELSE VolumeNames(map)
  BY AddBucketsFits
<1>2. VolumeNames(o.vols) \cup VolumeNames(map) \subseteq VolumeNames(p.vols)
  BY <1>1 DEF VolumeNames, NewVolumes
<1>3. ASSUME NEW v \in p.vols, NEW w \in p.vols, Volume[v[1]] = Volume[w[1]]
      PROVE  v = w
  <2>1. CASE v \in o.vols /\ w \in o.vols
    BY <1>3, <2>1 DEF Valid
  <2>2. CASE v \in NewVolumes(o, map) /\ w \in NewVolumes(o, map)
    BY <1>3, <2>2 DEF NewVolumes, Unambiguous
  <2>3. \A x \in o.vols, y \in NewVolumes(o, map) : Volume[x[1]] # Volume[y[1]]
    BY DEF NewVolumes, VolumeNames
  <2>. QED  BY <1>1, <1>3, <2>1, <2>2, <2>3
<1>4. \A m \in p.mounts : Volume[m[2]] \in VolumeNames(p.vols)
  <2>1. \A m \in o.mounts : Volume[m[2]] \in VolumeNames(o.vols)
    BY DEF Valid
  <2>2. \A m \in NewMounts(o, map) : Volume[m[2]] \in VolumeNames(map)
    BY DEF NewMounts, VolumeNames
  <2>. QED  BY <1>1, <1>2, <2>1, <2>2
<1>5. MountedNames(p.pre) \subseteq VolumeNames(p.vols)
  BY <1>1, <1>2
<1>6. \A m, n \in p.pre.mounts : m[2] = n[2] => m = n
  <2>1. CASE p.pre = o.pre
    BY <2>1 DEF Valid
  <2>2. CASE p.pre.mounts \subseteq {<<Volume[x[1]], x[2]>> : x \in map}
    BY <2>2 DEF Unambiguous
  <2>. QED  BY <2>1, <2>2, PrecreatorSource
<1>. QED  BY <1>3, <1>4, <1>5, <1>6 DEF Valid

\* Why a write is refused, with an unambiguous map.
LEMMA Rejection ==
  ASSUME TypeOK, NEW o \in StatefulSet, Write(o), refused' # refused
  PROVE  \/ o.group = NoGroup /\ ~Valid(o)
         \/ o.group # NoGroup /\ ~Valid(RemoveAccess(WithGroup(o)))
         \/ /\ o.group # NoGroup
            /\ \E map \in SUBSET Mounts : \E p \in AddBuckets(WithGroup(o), map) :
                 Unambiguous(map) /\ ~Valid(p)
<1>1. ASSUME NEW p, NEW map, NEW wanted, Take(p, map, wanted)
      PROVE  ~Valid(p) /\ Unambiguous(map.mounts)
  <2>1. refused' = (refused \/ Unambiguous(map.mounts)) /\ ~Valid(p)
    BY <1>1 DEF Take
  <2>2. refused \in BOOLEAN
    BY DEF TypeOK
  <2>. QED  BY <2>1, <2>2 DEF Unambiguous
<1>2. CASE o.group = NoGroup
  BY <1>1, <1>2 DEF Write
<1>3. CASE o.group # NoGroup
  <2>. DEFINE w == WithGroup(o)
  <2>1. w \in StatefulSet /\ w.group = o.group
    BY <1>3, WithGroupFits DEF StatefulSet
  <2>2. Mutate(w) /\ Admissible(o)
    BY <1>3 DEF Write
  <2>3. CASE Expired(w)
    BY <1>1, <1>3, <2>2, <2>3 DEF Mutate
  <2>4. CASE ~Expired(w)
    <3>1. PICK standard \in StandardMounts(w) :
            \E p \in AddBuckets(w, Wanted(w, standard)) :
              Take(p, [mounts |-> Wanted(w, standard), image |-> image, expired |-> FALSE],
                   Since(w) \cup Wanted(w, standard))
      BY <2>2, <2>4 DEF Mutate
    <3>. DEFINE map == Wanted(w, standard)
    <3>2. PICK p \in AddBuckets(w, map) :
            Take(p, [mounts |-> map, image |-> image, expired |-> FALSE], Since(w) \cup map)
      BY <3>1
    <3>3. map \in SUBSET Mounts
      BY <1>3, <2>1, <2>2, MapType DEF Admissible
    <3>4. ~Valid(p) /\ Unambiguous(map)
      BY <1>1, <3>2
    <3>. QED  BY <1>3, <3>2, <3>3, <3>4
  <2>. QED  BY <2>3, <2>4
<1>. QED  BY <1>2, <1>3

\* No write is refused for what the webhook made of it, unless it asks for an
\* ambiguous map or the service container was changed before: for any number
\* of writes, any containers and any names of volumes.
THEOREM Acceptance == Spec => []RefusedOnlyAfterRename
<1>1. Init => ValidInv
  BY DEF Init, ValidInv, Valid, MountedNames, NoPrecreator, RefusedOnlyAfterRename
<1>2. TypeOK /\ ValidInv /\ [Next]_vars => ValidInv'
  <2>. SUFFICES ASSUME TypeOK, ValidInv, [Next]_vars
                PROVE  ValidInv'
    OBVIOUS
  <2>1. ASSUME NEW o, Submitted(o), Write(o)
        PROVE  ValidInv'
    <3>1. o \in StatefulSet /\ events.seen \subseteq events'.seen
      BY <2>1, SubmittedFits
    <3>2. Valid(o)
      <4>1. CASE /\ o.vols = sfs.vols /\ o.mounts = sfs.mounts /\ o.pre = sfs.pre
        BY <4>1 DEF ValidInv, Valid
      <4>2. CASE o.vols = {} /\ o.mounts = {} /\ o.pre = NoPrecreator
        BY <4>2 DEF Valid, MountedNames, NoPrecreator
      <4>. QED  BY <2>1, <4>1, <4>2, SubmittedTemplate
    <3>3. "rename" \notin events'.seen => \A m \in o.mounts : m[1] = o.svc
      <4>. SUFFICES ASSUME "rename" \notin events'.seen, NEW m \in o.mounts
                    PROVE  m[1] = o.svc
        OBVIOUS
      <4>1. o.svc = sfs.svc
        <5>1. sfs \in StatefulSet /\ events \in [left: Nat, seen: SUBSET EnvKinds]
          BY DEF TypeOK
        <5>2. ~Event("rename")
          BY <5>1 DEF Event
        <5>3. CASE ~sfs.live
          BY <2>1, <5>1, <5>3 DEF Submitted, StatefulSet
        <5>4. CASE o \in Edits
          BY <5>1, <5>4 DEF Edits, StatefulSet
        <5>5. CASE \E g \in Groups \cup {NoGroup} : o = [sfs EXCEPT !.group = g]
          BY <5>1, <5>5 DEF StatefulSet
        <5>6. CASE o = Bare(sfs) \/ o = sfs \/ o = [sfs EXCEPT !.revived = TRUE]
          BY <5>1, <5>6 DEF Bare, StatefulSet
        <5>. QED  BY <2>1, <5>2, <5>3, <5>4, <5>5, <5>6 DEF Submitted
      <4>2. m \in sfs.mounts
        BY <2>1, SubmittedTemplate
      <4>. QED  BY <3>1, <4>1, <4>2 DEF ValidInv
    <3>4. RefusedOnlyAfterRename'
      <4>. SUFFICES ASSUME refused', "rename" \notin events'.seen
                    PROVE  FALSE
        BY DEF RefusedOnlyAfterRename
      <4>1. refused' # refused
        BY <3>1 DEF ValidInv, RefusedOnlyAfterRename
      <4>2. CASE o.group # NoGroup
        <5>. DEFINE w == WithGroup(o)
        <5>1. w \in StatefulSet /\ w = [o EXCEPT !.adc = w.adc]
          BY <3>1, <4>2, WithGroupFits
        <5>2. w.vols = o.vols /\ w.mounts = o.mounts /\ w.pre = o.pre /\ w.svc = o.svc
          BY <3>1, <5>1 DEF StatefulSet
        <5>3. Valid(w)
          BY <3>2, <5>2 DEF Valid
        <5>4. Valid(RemoveAccess(w))
          <6>1. /\ RemoveAccess(w).vols = {} /\ RemoveAccess(w).pre = NoPrecreator
                /\ RemoveAccess(w).mounts = {m \in w.mounts : m[1] # w.svc}
            BY <5>1 DEF RemoveAccess, RemoveBuckets, RemovePrecreator, StatefulSet
          <6>2. RemoveAccess(w).mounts = {}
            BY <3>3, <5>2, <6>1
          <6>. QED  BY <6>1, <6>2 DEF Valid, MountedNames, NoPrecreator
        <5>5. ASSUME NEW map \in SUBSET Mounts, NEW p \in AddBuckets(w, map),
                     Unambiguous(map)
              PROVE  Valid(p)
          BY <5>1, <5>3, <5>5, AddBucketsValid DEF TypeOK
        <5>. QED  BY <2>1, <3>1, <4>1, <4>2, <5>4, <5>5, Rejection
      <4>3. CASE o.group = NoGroup
        BY <2>1, <3>1, <3>2, <4>1, <4>3, Rejection
      <4>. QED  BY <4>2, <4>3
    <3>5. ASSUME NEW q \in StatefulSet, Valid(q), sfs' = Stored(q)
          PROVE  Valid(sfs') /\ sfs'.mounts = q.mounts /\ sfs'.svc = q.svc
      <4>1. /\ sfs'.vols = q.vols /\ sfs'.mounts = q.mounts
            /\ sfs'.pre = q.pre /\ sfs'.svc = q.svc
        BY <3>5, StoredFits DEF TypeOK, StatefulSet
      <4>. QED  BY <3>5, <4>1 DEF Valid
    <3>6. CASE Refused
      BY <3>1, <3>4, <3>6 DEF Refused, ValidInv
    <3>7. CASE Unmanaged(o)
      BY <3>1, <3>3, <3>4, <3>5, <3>7 DEF Unmanaged, ValidInv
    <3>8. CASE Stripped(o)
      <4>1. RemoveAccess(WithGroup(o)) \in StatefulSet
        BY <3>1, <3>8, WithGroupFits, RemoveAccessFits DEF Stripped
      <4>2. Valid(sfs')
        BY <3>5, <3>8, <4>1 DEF Stripped
      <4>3. sfs'.mounts = {}
        BY <3>1, <3>8, StrippedObject DEF StatefulSet
      <4>. QED  BY <3>4, <4>2, <4>3 DEF ValidInv
    <3>9. CASE \E map, p : Equipped(o, map, p)
      <4>1. PICK map, p : Equipped(o, map, p)
        BY <3>9
      <4>2. p \in StatefulSet /\ p.svc = o.svc /\ p.mounts = o.mounts \cup NewMounts(o, map)
        <5>1. WithGroup(o) \in StatefulSet /\ WithGroup(o).svc = o.svc
          BY <3>1, <4>1, WithGroupFits DEF Equipped, StatefulSet
        <5>2. p \in StatefulSet
              /\ p = [WithGroup(o) EXCEPT !.vols = p.vols, !.mounts = p.mounts, !.pre = p.pre]
          BY <4>1, <5>1, AddBucketsFits DEF Equipped, TypeOK
        <5>3. p.mounts = o.mounts \cup NewMounts(o, map)
          BY <3>1, <4>1, EquippedObject
        <5>. QED  BY <5>1, <5>2, <5>3 DEF StatefulSet
      <4>3. Valid(sfs') /\ sfs'.mounts = p.mounts /\ sfs'.svc = o.svc
        BY <3>5, <4>1, <4>2 DEF Equipped
      <4>4. \A m \in NewMounts(o, map) : m[1] = o.svc
        BY DEF NewMounts
      <4>. QED  BY <3>3, <3>4, <4>2, <4>3, <4>4 DEF ValidInv
    <3>. QED  BY <2>1, <3>1, <3>6, <3>7, <3>8, <3>9, Outcome
  <2>2. CASE Upgrade \/ Tick \/ UNCHANGED vars
    <3>1. UNCHANGED <<sfs, refused>> /\ events.seen \subseteq events'.seen
      BY <2>2 DEF Upgrade, Tick, Event, vars, TypeOK
    <3>. QED  BY <3>1 DEF ValidInv, RefusedOnlyAfterRename, Valid
  <2>. QED  BY <2>1, <2>2, Steps
<1>3. ValidInv => RefusedOnlyAfterRename
  BY DEF ValidInv
<1>. QED  BY <1>1, <1>2, <1>3, TypeCorrect, PTL DEF Spec
=============================================================================
