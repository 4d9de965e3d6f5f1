-------------------------- MODULE IamBindingProofs --------------------------
(***************************************************************************)
(* Proofs about IamBinding.                                                *)
(***************************************************************************)
EXTENDS IamBinding, TLAPS

-----------------------------------------------------------------------------
(* Types.                                                                  *)

LEMMA AbsentTypes ==
  ASSUME NEW rv \in Nat
  PROVE  NoSA(rv) \in ServiceAccount
  BY DEF NoSA, ServiceAccount, Duration

LEMMA BindingTypes ==
  /\ NoBinding \in Binding
  /\ \A e \in BOOLEAN, t \in Nat : EmptyPolicy(e, t) \in Policy
  /\ NoPolicy \in Policy
<1>1. NoBinding \in Binding
  BY DEF NoBinding, Binding
<1>2. ASSUME NEW e \in BOOLEAN, NEW t \in Nat PROVE EmptyPolicy(e, t) \in Policy
  BY <1>1 DEF EmptyPolicy, Policy
<1>3. NoPolicy \in Policy
  BY <1>2 DEF NoPolicy
<1>. QED
  BY <1>1, <1>2, <1>3

LEMMA StoreType ==
  ASSUME TypeOK, NEW s \in SAs, NEW o \in ServiceAccount, Store(s, o)
  PROVE  /\ sa' \in [SAs -> ServiceAccount]
         /\ abandoned' \subseteq SAs \X (Groups \cup {NoGroup})
         /\ accepted' \subseteq SAs \X Groups
<1>1. sa[s] \in ServiceAccount
  BY DEF TypeOK
<1>2. sa[s].rv + 1 \in Nat /\ sa[s].group \in Groups \cup {NoGroup}
  BY <1>1 DEF ServiceAccount
<1>3. [o EXCEPT !.rv = sa[s].rv + 1] \in ServiceAccount
  BY <1>2 DEF ServiceAccount
<1>4. sa' \in [SAs -> ServiceAccount]
  BY <1>3 DEF Store, TypeOK
<1>5. abandoned' \subseteq SAs \X (Groups \cup {NoGroup})
  BY <1>2 DEF Store, TypeOK
<1>6. Entitled(s, o.group) => o.group \in Groups
  BY SubsetAssumption DEF Entitled
<1>7. accepted' \subseteq SAs \X Groups
  BY <1>6 DEF Store, TypeOK
<1>. QED
  BY <1>4, <1>5, <1>7

LEMMA VanishType ==
  ASSUME TypeOK, NEW s \in SAs, Vanish(s)
  PROVE  sa' \in [SAs -> ServiceAccount] /\ UNCHANGED <<abandoned, accepted>>
<1>1. sa[s].rv + 1 \in Nat
  BY DEF TypeOK, ServiceAccount
<1>2. NoSA(sa[s].rv + 1) \in ServiceAccount
  BY <1>1, AbsentTypes
<1>. QED
  BY <1>2 DEF Vanish, TypeOK

LEMMA EventType ==
  ASSUME TypeOK, NEW k, Event(k)
  PROVE  events' \in 0..MaxEvents
  BY NumberAssumption DEF Event, TypeOK

LEMMA UserType ==
  ASSUME TypeOK, NEW s \in SAs, User(s)
  PROVE  TypeOK'
<1>1. ASSUME NEW g \in Groups \cup {NoGroup}, NEW d \in Durations, NEW reason \in Reasons
      PROVE  d \in Duration /\ reason \in BOOLEAN
  BY NumberAssumption DEF Duration
<1>2. ASSUME NEW o \in ServiceAccount, Store(s, o), events' \in 0..MaxEvents,
             UNCHANGED <<cache, queue, worker, google, now>>
      PROVE  TypeOK'
  <2>1. /\ sa' \in [SAs -> ServiceAccount]
        /\ abandoned' \subseteq SAs \X (Groups \cup {NoGroup})
        /\ accepted' \subseteq SAs \X Groups
    BY <1>2, StoreType
  <2>. QED
    BY <1>2, <2>1 DEF TypeOK, worker, google
<1>3. ASSUME NEW g \in Groups \cup {NoGroup}, NEW d \in Durations, NEW reason \in Reasons,
             UserCreate(s, g, d, reason)
      PROVE  TypeOK'
  <2>. DEFINE o == [NoSA(0) EXCEPT !.live = TRUE, !.created = now, !.group = g,
                                   !.dur = d, !.reason = reason]
  <2>1. NoSA(0) \in ServiceAccount /\ now \in Nat
    BY AbsentTypes, NumberAssumption DEF TypeOK
  <2>2. o \in ServiceAccount
    BY <1>1, <2>1 DEF ServiceAccount
  <2>3. events' \in 0..MaxEvents
    BY <1>3, EventType DEF UserCreate
  <2>4. Store(s, o) /\ UNCHANGED <<cache, queue, worker, google, now>>
    BY <1>3 DEF UserCreate
  <2>. HIDE DEF o
  <2>. QED
    BY <1>2, <2>2, <2>3, <2>4
<1>4. ASSUME NEW g \in Groups \cup {NoGroup}, NEW d \in Durations, NEW reason \in Reasons,
             UserAnnotate(s, g, d, reason)
      PROVE  TypeOK'
  <2>. DEFINE o == [sa[s] EXCEPT !.group = g, !.dur = d, !.reason = reason]
  <2>1. sa[s] \in ServiceAccount
    BY DEF TypeOK
  <2>2. o \in ServiceAccount
    BY <1>1, <2>1 DEF ServiceAccount
  <2>3. events' \in 0..MaxEvents
    BY <1>4, EventType DEF UserAnnotate
  <2>4. Store(s, o) /\ UNCHANGED <<cache, queue, worker, google, now>>
    BY <1>4 DEF UserAnnotate
  <2>. HIDE DEF o
  <2>. QED
    BY <1>2, <2>2, <2>3, <2>4
<1>5. ASSUME NEW g \in Groups \cup {NoGroup}, NEW d \in Durations, NEW reason \in Reasons,
             Impersonate(s, g, d, reason)
      PROVE  TypeOK'
  <2>. DEFINE o == Annotated(sa[s], g, d, reason)
  <2>1. sa[s] \in ServiceAccount
    BY DEF TypeOK
  <2>2. (IF g \in ReasonRequired THEN d ELSE sa[s].dur) \in Duration
    BY <1>1, <2>1 DEF ServiceAccount
  <2>3. o \in ServiceAccount
    BY <1>1, <2>1, <2>2 DEF ServiceAccount, Annotated
  <2>4. events' \in 0..MaxEvents
    BY <1>5, EventType DEF Impersonate
  <2>5. Store(s, o) /\ UNCHANGED <<cache, queue, worker, google, now>>
    BY <1>5 DEF Impersonate
  <2>. HIDE DEF o
  <2>. QED
    BY <1>2, <2>3, <2>4, <2>5
<1>6. CASE UserDelete(s)
  <2>1. sa[s] \in ServiceAccount /\ sa[s].rv + 1 \in Nat
    BY DEF TypeOK, ServiceAccount
  <2>2. [sa[s] EXCEPT !.deleting = TRUE, !.rv = @ + 1] \in ServiceAccount
    BY <2>1 DEF ServiceAccount
  <2>3. sa' \in [SAs -> ServiceAccount] /\ UNCHANGED <<abandoned, accepted>>
    <3>1. CASE sa[s].fin
      BY <1>6, <2>2, <3>1 DEF UserDelete, TypeOK
    <3>2. CASE ~sa[s].fin
      BY <1>6, <3>2, VanishType DEF UserDelete
    <3>. QED
      BY <3>1, <3>2
  <2>4. events' \in 0..MaxEvents
    BY <1>6, EventType DEF UserDelete
  <2>. QED
    BY <1>6, <2>3, <2>4 DEF UserDelete, TypeOK, worker, google
<1>. QED
  BY <1>3, <1>4, <1>5, <1>6 DEF User

LEMMA GoogleType ==
  ASSUME TypeOK, GoogleCloud
  PROVE  TypeOK'
<1>1. ASSUME pol' \in [Groups -> Policy], events' \in 0..MaxEvents,
             UNCHANGED <<cluster, cache, queue, worker, member, now>>
      PROVE  TypeOK'
  BY <1>1 DEF TypeOK, cluster, worker
<1>2. ASSUME NEW s \in SAs, NEW g \in Groups, Revoke(s, g) PROVE TypeOK'
  <2>1. events' \in 0..MaxEvents
    BY <1>2, EventType DEF Revoke
  <2>. QED
    BY <1>2, <2>1 DEF Revoke, TypeOK, cluster, worker
<1>3. ASSUME NEW g \in Groups, GcpToggle(g) PROVE TypeOK'
  <2>. DEFINE e == ~pol[g].exists
              t == pol[g].etag + 1
  <2>1. pol[g] \in Policy
    BY DEF TypeOK
  <2>2. t \in Nat
    BY <2>1 DEF Policy
  <2>3. e \in BOOLEAN
    OBVIOUS
  <2>4. pol' = [pol EXCEPT ![g] = EmptyPolicy(e, t)]
    BY <1>3 DEF GcpToggle
  <2>. HIDE DEF e, t
  <2>5. EmptyPolicy(e, t) \in Policy
    BY <2>2, <2>3, BindingTypes
  <2>6. pol' \in [Groups -> Policy]
    BY <2>4, <2>5 DEF TypeOK
  <2>. QED
    BY <1>1, <1>3, <2>6, EventType DEF GcpToggle
<1>4. ASSUME NEW g \in Groups, Foreign(g) PROVE TypeOK'
  <2>1. pol[g] \in Policy /\ pol[g].etag + 1 \in Nat
    BY DEF TypeOK, Policy
  <2>2. [pol[g] EXCEPT !.foreign = ~pol[g].foreign, !.etag = @ + 1] \in Policy
    BY <2>1 DEF Policy
  <2>3. pol' \in [Groups -> Policy]
    BY <1>4, <2>2 DEF Foreign, TypeOK
  <2>. QED
    BY <1>1, <1>4, <2>3, EventType DEF Foreign
<1>5. ASSUME NEW s \in SAs, NEW g \in Groups, Tamper(s, g) PROVE TypeOK'
  <2>1. pol[g] \in Policy /\ pol[g].b[s] \in Binding /\ pol[g].etag + 1 \in Nat
    BY DEF TypeOK, Policy
  <2>2. [pol[g].b[s] EXCEPT !.ok = FALSE] \in Binding
    BY <2>1 DEF Binding
  <2>3. [pol[g].b EXCEPT ![s].ok = FALSE] \in [SAs -> Binding]
    BY <2>1, <2>2 DEF Policy
  <2>4. [pol[g] EXCEPT !.b[s].ok = FALSE, !.etag = @ + 1] \in Policy
    BY <2>1, <2>3 DEF Policy
  <2>5. pol' \in [Groups -> Policy]
    BY <1>5, <2>4 DEF Tamper, TypeOK
  <2>. QED
    BY <1>1, <1>5, <2>5, EventType DEF Tamper
<1>. QED
  BY <1>2, <1>3, <1>4, <1>5 DEF GoogleCloud

LEMMA IdleType ==
  ASSUME Idle
  PROVE  /\ pc' = "idle"
         /\ cur' \in SAs \cup {NoKey}
         /\ snap' \in ServiceAccount
         /\ copy' \in Policy
  BY AbsentTypes, BindingTypes DEF Idle

\* While it works, the worker has a key, and a copy that names a group.
Working ==
  pc # "idle" => cur \in SAs /\ snap.live /\ snap.group \in Groups

LEMMA StepType ==
  ASSUME TypeOK, Working, Step
  PROVE  TypeOK' /\ Working'
<1>. snap \in ServiceAccount /\ pol \in [Groups -> Policy]
  BY DEF TypeOK
<1>1. ASSUME Requeue, UNCHANGED <<cluster, cache, google, now, events>>, pc # "idle"
      PROVE  TypeOK' /\ Working'
  <2>1. cur \in SAs
    BY <1>1 DEF Working
  <2>. QED
    BY <1>1, <2>1, IdleType DEF TypeOK, Working, Requeue, cluster, google
<1>2. CASE AddFinalizer
  <2>. DEFINE o == [snap EXCEPT !.fin = TRUE]
  <2>1. cur \in SAs /\ snap.live /\ snap.group \in Groups /\ snap.rv + 1 \in Nat
    BY <1>2 DEF AddFinalizer, Working, ServiceAccount
  <2>2. o \in ServiceAccount /\ [o EXCEPT !.rv = snap.rv + 1] \in ServiceAccount
    BY <2>1 DEF ServiceAccount
  <2>3. CASE UpdateOk(o)
    <3>1. Store(cur, o) /\ pc' = "getToAdd" /\ cur' = cur /\ copy' = copy
          /\ snap' = [o EXCEPT !.rv = snap.rv + 1] /\ queue' = queue
      BY <1>2, <2>3 DEF AddFinalizer, Goto
    <3>2. snap'.live /\ snap'.group \in Groups
      BY <2>1, <3>1 DEF ServiceAccount
    <3>3. /\ sa' \in [SAs -> ServiceAccount]
          /\ abandoned' \subseteq SAs \X (Groups \cup {NoGroup})
          /\ accepted' \subseteq SAs \X Groups
      BY <2>1, <2>2, <3>1, StoreType
    <3>4. UNCHANGED <<cache, google, now, events>>
      BY <1>2 DEF AddFinalizer
    <3>5. snap' \in ServiceAccount
      BY <2>2, <3>1
    <3>. QED
      BY <2>1, <3>1, <3>2, <3>3, <3>4, <3>5 DEF TypeOK, Working, google
  <2>4. CASE ~UpdateOk(o)
    BY <1>1, <1>2, <2>4 DEF AddFinalizer
  <2>. QED
    BY <2>3, <2>4
<1>3. CASE GetToAdd
  <2>1. cur \in SAs /\ snap.live /\ snap.group \in Groups
    BY <1>3 DEF GetToAdd, Working
  <2>. DEFINE p == pol[snap.group]
              w == EnsureCorrectBinding(p.b[cur], WantedBinding(snap))
              q == [p EXCEPT !.b[cur] = EnsureCorrectBinding(@, WantedBinding(snap))]
  <2>2. p \in Policy /\ p.b \in [SAs -> Binding]
    BY <2>1 DEF Policy
  <2>3. snap.dur # BadDur => q \in Policy
    <3>1. SUFFICES ASSUME snap.dur # BadDur PROVE q \in Policy
      OBVIOUS
    <3>2. (IF snap.dur = NoDur THEN NoDur ELSE snap.created + snap.dur) \in Nat \cup {NoDur}
      BY <3>1 DEF ServiceAccount, Duration
    <3>3. WantedBinding(snap) \in Binding
      BY <3>2 DEF WantedBinding, Binding
    <3>4. w \in Binding
      BY <2>1, <2>2, <3>3 DEF EnsureCorrectBinding
    <3>5. [p.b EXCEPT ![cur] = w] \in [SAs -> Binding]
      BY <2>1, <2>2, <3>4
    <3>6. q = [p EXCEPT !.b = [p.b EXCEPT ![cur] = w]]
      BY <2>1, <2>2 DEF Policy
    <3>. QED
      BY <2>2, <3>5, <3>6 DEF Policy
  <2>4. UNCHANGED <<cluster, cache, google, now, events>>
    BY <1>3 DEF GetToAdd
  <2>5. CASE Requeue
    BY <1>1, <1>3, <2>4, <2>5 DEF GetToAdd
  <2>6. CASE ~Requeue
    <3>1. /\ pc' \in {"annotate", "setToAdd"} /\ cur' = cur /\ queue' = queue
          /\ snap' = snap
          /\ copy' = copy \/ (snap.dur # BadDur /\ copy' = q)
      BY <1>3, <2>6 DEF GetToAdd, Goto
    <3>2. copy' \in Policy
      BY <2>3, <3>1 DEF TypeOK
    <3>. QED
      BY <2>1, <2>4, <3>1, <3>2 DEF TypeOK, Working, cluster, google
  <2>. QED
    BY <2>5, <2>6
<1>4. CASE GetToRemove
  <2>1. cur \in SAs /\ snap.live /\ snap.group \in Groups
    BY <1>4 DEF GetToRemove, Working
  <2>. DEFINE p == pol[snap.group]
              q == [p EXCEPT !.b[cur] = NoBinding]
  <2>2. p \in Policy /\ p.b \in [SAs -> Binding]
    BY <2>1 DEF Policy
  <2>3. q \in Policy
    <3>1. [p.b EXCEPT ![cur] = NoBinding] \in [SAs -> Binding]
      BY <2>1, <2>2, BindingTypes
    <3>2. q = [p EXCEPT !.b = [p.b EXCEPT ![cur] = NoBinding]]
      BY <2>1, <2>2 DEF Policy
    <3>. QED
      BY <2>2, <3>1, <3>2 DEF Policy
  <2>4. UNCHANGED <<cluster, cache, google, now, events>>
    BY <1>4 DEF GetToRemove
  <2>5. CASE Requeue
    BY <1>1, <1>4, <2>4, <2>5 DEF GetToRemove
  <2>6. CASE ~Requeue
    <3>1. /\ pc' \in {"removeFinalizer", "setToRemove"} /\ cur' = cur /\ queue' = queue
          /\ snap' = snap
          /\ copy' = copy \/ copy' = q
      BY <1>4, <2>6 DEF GetToRemove, Goto
    <3>2. copy' \in Policy
      BY <2>3, <3>1 DEF TypeOK
    <3>. QED
      BY <2>1, <2>4, <3>1, <3>2 DEF TypeOK, Working, cluster, google
  <2>. QED
    BY <2>5, <2>6
<1>5. CASE UpdateIamPolicy
  <2>. SUFFICES ASSUME NEW from \in {"setToAdd", "setToRemove"},
                       NEW to \in {"annotate", "removeFinalizer"}, SetPolicy(from, to)
                PROVE  TypeOK' /\ Working'
    BY <1>5 DEF UpdateIamPolicy
  <2>1. cur \in SAs /\ snap.live /\ snap.group \in Groups
    BY DEF SetPolicy, Working
  <2>2. UNCHANGED <<cluster, cache, member, now, events>>
    BY DEF SetPolicy
  <2>3. CASE EtagMatches(snap.group)
    <3>1. copy \in Policy /\ pol[snap.group].etag + 1 \in Nat
      BY <2>1 DEF TypeOK, Policy
    <3>2. [copy EXCEPT !.etag = pol[snap.group].etag + 1] \in Policy
      BY <3>1 DEF Policy
    <3>3. pol' \in [Groups -> Policy]
      BY <2>1, <2>3, <3>2 DEF SetPolicy
    <3>4. pc' = to /\ cur' = cur /\ queue' = queue /\ snap' = snap /\ copy' \in Policy
      BY <2>3, BindingTypes DEF SetPolicy, Goto
    <3>. QED
      BY <2>1, <2>2, <3>3, <3>4 DEF TypeOK, Working, cluster
  <2>4. CASE ~EtagMatches(snap.group)
    BY <1>1, <2>2, <2>4 DEF SetPolicy, google
  <2>. QED
    BY <2>3, <2>4
<1>6. CASE Annotate
  <2>. DEFINE o == [snap EXCEPT !.wi = snap.group]
  <2>1. cur \in SAs /\ snap.group \in Groups
    BY <1>6 DEF Annotate, Working
  <2>2. o \in ServiceAccount
    BY <2>1 DEF ServiceAccount
  <2>3. UNCHANGED <<cache, google, now, events>>
    BY <1>6 DEF Annotate
  <2>4. CASE Return /\ UNCHANGED cluster
    BY <2>3, <2>4, IdleType DEF Return, TypeOK, Working, cluster, google
  <2>5. CASE Return /\ Store(cur, o)
    BY <2>1, <2>2, <2>3, <2>5, IdleType, StoreType DEF Return, TypeOK, Working, google
  <2>6. CASE Requeue /\ UNCHANGED cluster
    BY <1>1, <1>6, <2>3, <2>6 DEF Annotate
  <2>. QED
    BY <1>6, <2>4, <2>5, <2>6 DEF Annotate
<1>7. CASE RemoveFinalizer
  <2>1. cur \in SAs
    BY <1>7 DEF RemoveFinalizer, Working
  <2>2. UNCHANGED <<cache, google, now, events>>
    BY <1>7 DEF RemoveFinalizer
  <2>3. CASE Return /\ Vanish(cur)
    BY <2>1, <2>2, <2>3, IdleType, VanishType DEF Return, TypeOK, Working, google
  <2>4. CASE Requeue /\ UNCHANGED cluster
    BY <1>1, <1>7, <2>2, <2>4 DEF RemoveFinalizer
  <2>. QED
    BY <1>7, <2>3, <2>4 DEF RemoveFinalizer
<1>. QED
  BY <1>2, <1>3, <1>4, <1>5, <1>6, <1>7 DEF Step

LEMMA InitType == Init => TypeOK /\ Working
<1>1. 0 \in Nat /\ 0 \in 0..MaxTime /\ MaxEvents \in 0..MaxEvents
  BY NumberAssumption
<1>2. NoSA(0) \in ServiceAccount /\ EmptyPolicy(TRUE, 0) \in Policy /\ NoPolicy \in Policy
  BY AbsentTypes, BindingTypes
<1>. QED
  BY <1>1, <1>2, SubsetAssumption DEF Init, TypeOK, Working

\* Every step keeps the types, and gives a busy worker its key and its copy.
LEMMA NextType ==
  ASSUME TypeOK, Working, [Next]_vars
  PROVE  TypeOK' /\ Working'
<1>1. ASSUME NEW s \in SAs, User(s) PROVE TypeOK' /\ Working'
  <2>1. UNCHANGED worker
    BY <1>1 DEF User, UserCreate, UserAnnotate, Impersonate, UserDelete
  <2>. QED
    BY <1>1, <2>1, UserType DEF Working, worker
<1>2. ASSUME NEW s \in SAs, Sync(s) \/ Resync(s) PROVE TypeOK' /\ Working'
  BY <1>2 DEF Sync, Resync, TypeOK, Working, cluster, worker, google
<1>3. ASSUME NEW s \in SAs, Get(s) PROVE TypeOK' /\ Working'
  <2>1. cache[s] \in ServiceAccount
    BY DEF TypeOK
  <2>2. queue' \subseteq SAs /\ UNCHANGED <<cluster, cache, google, now, events>>
    BY <1>3 DEF Get, TypeOK
  <2>3. CASE Idle
    BY <2>2, <2>3, IdleType DEF TypeOK, Working, cluster, google
  <2>4. CASE ~Idle
    <3>1. /\ Path(cache[s]) # "idle" /\ pc' = Path(cache[s]) /\ cur' = s
          /\ snap' = cache[s] /\ copy' = copy
      BY <1>3, <2>4 DEF Get
    <3>2. cache[s].live /\ cache[s].group \in Groups
      BY <2>1, <3>1 DEF Path, ServiceAccount
    <3>3. pc' \in {"getToAdd", "addFinalizer", "getToRemove"}
      BY <3>1 DEF Path
    <3>. QED
      BY <2>1, <2>2, <3>1, <3>2, <3>3 DEF TypeOK, Working, cluster, google
  <2>. QED
    BY <2>3, <2>4
<1>4. CASE GoogleCloud
  <2>1. UNCHANGED worker
    BY <1>4 DEF GoogleCloud, Revoke, GcpToggle, Foreign, Tamper
  <2>. QED
    BY <1>4, <2>1, GoogleType DEF Working, worker
<1>5. CASE Step
  BY <1>5, StepType
<1>6. CASE Tick
  BY <1>6, NumberAssumption DEF Tick, TypeOK, Working, cluster, worker, google
<1>7. CASE ApiError
  <2>1. cur \in SAs /\ Requeue /\ UNCHANGED <<cluster, cache, google, now>>
    BY <1>7 DEF ApiError, Working
  <2>2. events' \in 0..MaxEvents
    BY <1>7, EventType DEF ApiError
  <2>. QED
    BY <2>1, <2>2, IdleType DEF Requeue, TypeOK, Working, cluster, google
<1>8. CASE Crash
  <2>1. events' \in 0..MaxEvents
    BY <1>8, EventType DEF Crash
  <2>. QED
    BY <1>8, <2>1, IdleType DEF Crash, TypeOK, Working, cluster, google
<1>9. CASE UNCHANGED vars
  BY <1>9 DEF vars, TypeOK, Working
<1>. QED
  BY <1>1, <1>2, <1>3, <1>4, <1>5, <1>6, <1>7, <1>8, <1>9 DEF Next

\* Whatever the environment does, the objects in the API server, in the cache
\* and in the reconciler's hands, and the policies written back by
\* updateIamPolicy, have their types; an idle worker apart, the reconciler
\* always works on a ServiceAccount that names a group.
THEOREM TypeCorrect == Spec => [](TypeOK /\ Working)
<1>1. Init => TypeOK /\ Working
  BY InitType
<1>2. TypeOK /\ Working /\ [Next]_vars => TypeOK' /\ Working'
  BY NextType
<1>. QED
  BY <1>1, <1>2, PTL DEF Spec

-----------------------------------------------------------------------------
(* Policies.                                                               *)

Setting == pc \in {"setToAdd", "setToRemove"}

\* A service account that does not exist has no bindings.
EmptyIfAbsent ==
  \A g \in Groups : ~pol[g].exists => \A s \in SAs : ~Bound(s, g)

\* The copy to be written back was taken from an existing policy and differs
\* from it only in the binding of the ServiceAccount at hand.  That is all one
\* can say as long as the policy has the copy's etag, and etags only grow.
CopyInv ==
  Setting =>
    /\ copy.exists
    /\ copy.etag <= pol[snap.group].etag
    /\ copy.etag = pol[snap.group].etag =>
         /\ copy.foreign = pol[snap.group].foreign
         /\ \A s \in SAs \ {cur} : copy.b[s] = pol[snap.group].b[s]
    /\ copy.b[cur] = IF pc = "setToAdd" THEN WantedBinding(snap) ELSE NoBinding

PolicyInv == TypeOK /\ Working /\ EmptyIfAbsent /\ CopyInv

LEMMA CopyInit == Init => EmptyIfAbsent /\ CopyInv
  BY DEF Init, EmptyIfAbsent, CopyInv, Setting, Bound, EmptyPolicy, NoBinding

\* Others change policies: the copy in the reconciler's hands is out of date.
LEMMA CopyGoogle ==
  ASSUME PolicyInv, GoogleCloud
  PROVE  EmptyIfAbsent' /\ CopyInv'
<1>. pol \in [Groups -> Policy] /\ copy \in Policy /\ snap \in ServiceAccount
  BY DEF PolicyInv, TypeOK
<1>1. pc' = pc /\ cur' = cur /\ snap' = snap /\ copy' = copy
  BY DEF GoogleCloud, Revoke, GcpToggle, Foreign, Tamper, worker
<1>2. Setting => snap.group \in Groups /\ cur \in SAs
  BY DEF PolicyInv, Working, Setting
<1>3. ASSUME NEW g \in Groups, NEW p \in Policy, p.etag = pol[g].etag + 1,
             pol' = [pol EXCEPT ![g] = p]
      PROVE  CopyInv'
  <2>1. SUFFICES ASSUME Setting
                 PROVE  /\ copy.etag <= pol'[snap.group].etag
                        /\ copy.etag = pol'[snap.group].etag =>
                             pol'[snap.group] = pol[snap.group]
    BY <1>1, <1>2 DEF CopyInv, Setting, PolicyInv, WantedBinding
  <2>2. copy.etag <= pol[snap.group].etag /\ copy.etag \in Nat /\ pol[snap.group].etag \in Nat
    BY <1>2, <2>1 DEF PolicyInv, CopyInv, Policy
  <2>. QED
    BY <1>2, <1>3, <2>1, <2>2
<1>4. ASSUME NEW g \in Groups, GcpToggle(g) PROVE EmptyIfAbsent' /\ CopyInv'
  <2>. DEFINE e == ~pol[g].exists
              t == pol[g].etag + 1
  <2>1. pol' = [pol EXCEPT ![g] = EmptyPolicy(e, t)]
    BY <1>4 DEF GcpToggle
  <2>2. t \in Nat /\ e \in BOOLEAN
    BY DEF Policy
  <2>3. EmptyPolicy(e, t).etag = pol[g].etag + 1 /\ \A s \in SAs : ~EmptyPolicy(e, t).b[s].on
    BY DEF EmptyPolicy, NoBinding
  <2>. HIDE DEF e, t
  <2>4. EmptyPolicy(e, t) \in Policy
    BY <2>2, BindingTypes
  <2>5. EmptyIfAbsent'
    BY <2>1, <2>3 DEF PolicyInv, EmptyIfAbsent, Bound
  <2>. QED
    BY <1>3, <2>1, <2>3, <2>4, <2>5
<1>5. ASSUME NEW g \in Groups, Foreign(g) PROVE EmptyIfAbsent' /\ CopyInv'
  <2>. DEFINE p == [pol[g] EXCEPT !.foreign = ~pol[g].foreign, !.etag = @ + 1]
  <2>1. pol[g] \in Policy /\ pol[g].etag + 1 \in Nat
    BY DEF Policy
  <2>2. p \in Policy
    BY <2>1 DEF Policy
  <2>3. p.etag = pol[g].etag + 1 /\ p.exists = pol[g].exists /\ p.b = pol[g].b
    BY <2>1 DEF Policy
  <2>4. pol' = [pol EXCEPT ![g] = p]
    BY <1>5 DEF Foreign
  <2>. HIDE DEF p
  <2>5. EmptyIfAbsent'
    BY <2>3, <2>4 DEF PolicyInv, EmptyIfAbsent, Bound
  <2>. QED
    BY <1>3, <2>2, <2>3, <2>4, <2>5
<1>6. ASSUME NEW s \in SAs, NEW g \in Groups, Tamper(s, g) PROVE EmptyIfAbsent' /\ CopyInv'
  <2>. DEFINE p == [pol[g] EXCEPT !.b[s].ok = FALSE, !.etag = @ + 1]
  <2>1. /\ pol[g] \in Policy /\ pol[g].etag + 1 \in Nat
        /\ pol[g].b \in [SAs -> Binding] /\ pol[g].b[s].on
    BY <1>6 DEF Tamper, Policy
  <2>2. [pol[g].b[s] EXCEPT !.ok = FALSE] \in Binding
    BY <2>1 DEF Binding
  <2>3. [pol[g].b EXCEPT ![s].ok = FALSE] \in [SAs -> Binding]
    BY <2>1, <2>2
  <2>4. p \in Policy /\ p.etag = pol[g].etag + 1
    BY <2>1, <2>3 DEF Policy
  <2>5. pol' = [pol EXCEPT ![g] = p]
    BY <1>6 DEF Tamper
  <2>6. p.exists = pol[g].exists /\ pol[g].exists
    BY <2>1 DEF Policy, PolicyInv, EmptyIfAbsent, Bound
  <2>. HIDE DEF p
  <2>7. EmptyIfAbsent'
    BY <2>5, <2>6 DEF PolicyInv, EmptyIfAbsent, Bound
  <2>. QED
    BY <1>3, <2>4, <2>5, <2>7
<1>7. ASSUME NEW s \in SAs, NEW g \in Groups, Revoke(s, g) PROVE EmptyIfAbsent' /\ CopyInv'
  BY <1>1, <1>7 DEF Revoke, PolicyInv, EmptyIfAbsent, Bound, CopyInv, Setting, WantedBinding
<1>. QED
  BY <1>4, <1>5, <1>6, <1>7 DEF GoogleCloud

LEMMA CopyStep ==
  ASSUME PolicyInv, Step
  PROVE  EmptyIfAbsent' /\ CopyInv'
<1>. pol \in [Groups -> Policy] /\ copy \in Policy /\ snap \in ServiceAccount
  BY DEF PolicyInv, TypeOK
<1>1. ASSUME UNCHANGED pol, ~Setting' PROVE EmptyIfAbsent' /\ CopyInv'
  BY <1>1 DEF PolicyInv, EmptyIfAbsent, Bound, CopyInv
<1>2. ASSUME Requeue \/ Return PROVE ~Setting'
  BY <1>2 DEF Requeue, Return, Idle, Setting
<1>3. CASE AddFinalizer
  BY <1>1, <1>2, <1>3 DEF AddFinalizer, google, Goto, Setting
<1>4. CASE GetToAdd
  <2>1. cur \in SAs /\ snap.group \in Groups
    BY <1>4 DEF GetToAdd, PolicyInv, Working
  <2>2. UNCHANGED pol
    BY <1>4 DEF GetToAdd, google
  <2>3. CASE ~Setting'
    BY <1>1, <2>2, <2>3
  <2>4. CASE Setting'
    <3>. DEFINE p == pol[snap.group]
                w == EnsureCorrectBinding(p.b[cur], WantedBinding(snap))
                q == [p EXCEPT !.b[cur] = EnsureCorrectBinding(@, WantedBinding(snap))]
    <3>1. /\ pc' = "setToAdd" /\ cur' = cur /\ snap' = snap
          /\ copy' = q /\ p.exists
      BY <1>2, <1>4, <2>4 DEF GetToAdd, Goto, Setting
    <3>2. p \in Policy /\ p.b \in [SAs -> Binding] /\ p.etag \in Nat
      BY <2>1 DEF Policy
    <3>3. q = [p EXCEPT !.b = [p.b EXCEPT ![cur] = w]]
      BY <2>1, <3>2 DEF Policy
    <3>4. w = WantedBinding(snap)
      BY DEF EnsureCorrectBinding
    <3>5. /\ q.exists = p.exists /\ q.etag = p.etag /\ q.foreign = p.foreign
          /\ q.b[cur] = w
          /\ \A s \in SAs \ {cur} : q.b[s] = p.b[s]
      BY <2>1, <3>2, <3>3 DEF Policy
    <3>. HIDE DEF q, w
    <3>6. CopyInv'
      BY <2>2, <3>1, <3>2, <3>4, <3>5 DEF CopyInv, WantedBinding
    <3>. QED
      BY <2>2, <3>6 DEF PolicyInv, EmptyIfAbsent, Bound
  <2>. QED
    BY <2>3, <2>4
<1>5. CASE GetToRemove
  <2>1. cur \in SAs /\ snap.group \in Groups
    BY <1>5 DEF GetToRemove, PolicyInv, Working
  <2>2. UNCHANGED pol
    BY <1>5 DEF GetToRemove, google
  <2>3. CASE ~Setting'
    BY <1>1, <2>2, <2>3
  <2>4. CASE Setting'
    <3>. DEFINE p == pol[snap.group]
                q == [p EXCEPT !.b[cur] = NoBinding]
    <3>1. /\ pc' = "setToRemove" /\ cur' = cur /\ snap' = snap
          /\ copy' = q /\ p.exists
      BY <1>2, <1>5, <2>4 DEF GetToRemove, Goto, Setting
    <3>2. p \in Policy /\ p.b \in [SAs -> Binding] /\ p.etag \in Nat
      BY <2>1 DEF Policy
    <3>3. q = [p EXCEPT !.b = [p.b EXCEPT ![cur] = NoBinding]]
      BY <2>1, <3>2 DEF Policy
    <3>4. /\ q.exists = p.exists /\ q.etag = p.etag /\ q.foreign = p.foreign
          /\ q.b[cur] = NoBinding
          /\ \A s \in SAs \ {cur} : q.b[s] = p.b[s]
      BY <2>1, <3>2, <3>3 DEF Policy
    <3>. HIDE DEF q
    <3>5. CopyInv'
      BY <2>2, <3>1, <3>2, <3>4 DEF CopyInv, NoBinding
    <3>. QED
      BY <2>2, <3>5 DEF PolicyInv, EmptyIfAbsent, Bound
  <2>. QED
    BY <2>3, <2>4
<1>6. CASE UpdateIamPolicy
  <2>. SUFFICES ASSUME NEW from \in {"setToAdd", "setToRemove"},
                       NEW to \in {"annotate", "removeFinalizer"}, SetPolicy(from, to)
                PROVE  EmptyIfAbsent' /\ CopyInv'
    BY <1>6 DEF UpdateIamPolicy
  <2>1. cur \in SAs /\ snap.group \in Groups /\ copy.exists
    BY DEF SetPolicy, PolicyInv, Working, CopyInv, Setting
  <2>2. CASE EtagMatches(snap.group)
    <3>. DEFINE p == [copy EXCEPT !.etag = pol[snap.group].etag + 1]
    <3>1. p.exists
      BY <2>1 DEF Policy
    <3>2. pol' = [pol EXCEPT ![snap.group] = p] /\ pc' = to
      BY <2>2 DEF SetPolicy, Goto
    <3>. HIDE DEF p
    <3>3. ~Setting'
      BY <3>2 DEF Setting
    <3>. QED
      BY <2>1, <3>1, <3>2, <3>3 DEF PolicyInv, EmptyIfAbsent, Bound, CopyInv
  <2>3. CASE ~EtagMatches(snap.group)
    BY <1>1, <1>2, <2>3 DEF SetPolicy
  <2>. QED
    BY <2>2, <2>3
<1>7. CASE Annotate
  BY <1>1, <1>2, <1>7 DEF Annotate, google
<1>8. CASE RemoveFinalizer
  BY <1>1, <1>2, <1>8 DEF RemoveFinalizer, google
<1>. QED
  BY <1>3, <1>4, <1>5, <1>6, <1>7, <1>8 DEF Step

LEMMA PolicyNext ==
  ASSUME PolicyInv, [Next]_vars
  PROVE  PolicyInv'
<1>1. TypeOK' /\ Working'
  BY NextType DEF PolicyInv
<1>2. ASSUME UNCHANGED pol, UNCHANGED worker \/ ~Setting'
      PROVE  EmptyIfAbsent' /\ CopyInv'
  BY <1>2 DEF PolicyInv, EmptyIfAbsent, Bound, CopyInv, Setting, worker, WantedBinding
<1>3. ASSUME NEW s \in SAs, User(s) PROVE UNCHANGED <<pol, worker>>
  BY <1>3 DEF User, UserCreate, UserAnnotate, Impersonate, UserDelete, google
<1>4. ASSUME NEW s \in SAs, Sync(s) \/ Resync(s) PROVE UNCHANGED <<pol, worker>>
  BY <1>4 DEF Sync, Resync, google
<1>5. ASSUME NEW s \in SAs, Get(s) PROVE UNCHANGED pol /\ ~Setting'
  BY <1>5 DEF Get, google, Idle, Setting, Path
<1>6. ASSUME Tick \/ UNCHANGED vars PROVE UNCHANGED <<pol, worker>>
  BY <1>6 DEF Tick, google, worker, vars
<1>7. ASSUME ApiError \/ Crash PROVE UNCHANGED pol /\ ~Setting'
  BY <1>7 DEF ApiError, Crash, Requeue, Idle, Setting, google
<1>. QED
  BY <1>1, <1>2, <1>3, <1>4, <1>5, <1>6, <1>7, CopyGoogle, CopyStep DEF Next, PolicyInv

\* What updateIamPolicy relies on when it writes a policy back: a Google service
\* account that does not exist has no bindings, and as long as the policy still
\* has the etag of the copy, the copy differs from it only in the binding of
\* the ServiceAccount at hand.
THEOREM PolicyInvariant == Spec => []PolicyInv
<1>1. Init => PolicyInv
  BY InitType, CopyInit DEF PolicyInv
<1>2. PolicyInv /\ [Next]_vars => PolicyInv'
  BY PolicyNext
<1>. QED
  BY <1>1, <1>2, PTL DEF Spec

\* Only the environment and updateIamPolicy change policies.
LEMMA PolicyChanges ==
  ASSUME [Next]_vars, pol' # pol
  PROVE  \/ /\ UNCHANGED worker
            /\ \E g \in Groups :
                 GcpToggle(g) \/ Foreign(g) \/ \E s \in SAs : Tamper(s, g)
         \/ UpdateIamPolicy /\ EtagMatches(snap.group)
<1>1. ASSUME NEW s \in SAs, User(s) PROVE UNCHANGED pol
  BY <1>1 DEF User, UserCreate, UserAnnotate, Impersonate, UserDelete, google
<1>2. ASSUME NEW s \in SAs, Sync(s) \/ Resync(s) \/ Get(s) PROVE UNCHANGED pol
  BY <1>2 DEF Sync, Resync, Get, google
<1>3. ASSUME Tick \/ UNCHANGED vars \/ ApiError \/ Crash PROVE UNCHANGED pol
  BY <1>3 DEF Tick, ApiError, Crash, google, vars
<1>4. ASSUME Step, ~UpdateIamPolicy PROVE UNCHANGED pol
  BY <1>4 DEF Step, AddFinalizer, GetToAdd, GetToRemove, Annotate, RemoveFinalizer, google
<1>5. ASSUME UpdateIamPolicy, ~EtagMatches(snap.group) PROVE UNCHANGED pol
  BY <1>5 DEF UpdateIamPolicy, SetPolicy
<1>6. ASSUME NEW s \in SAs, NEW g \in Groups, Revoke(s, g) PROVE UNCHANGED pol
  BY <1>6 DEF Revoke
<1>7. ASSUME GoogleCloud PROVE UNCHANGED worker
  BY <1>7 DEF GoogleCloud, Revoke, GcpToggle, Foreign, Tamper
<1>. QED
  BY <1>1, <1>2, <1>3, <1>4, <1>5, <1>6, <1>7 DEF Next, GoogleCloud

\* What updateIamPolicy writes: the policy it has read with one other binding.
LEMMA WrittenBack ==
  ASSUME PolicyInv, UpdateIamPolicy, EtagMatches(snap.group)
  PROVE  /\ cur \in SAs /\ snap.group \in Groups
         /\ \A g \in Groups \ {snap.group} : pol'[g] = pol[g]
         /\ pol'[snap.group].foreign = pol[snap.group].foreign
         /\ \A s \in SAs \ {cur} : pol'[snap.group].b[s] = pol[snap.group].b[s]
         /\ \/ pc = "setToAdd" /\ pc' = "annotate"
               /\ pol'[snap.group].b[cur] = WantedBinding(snap)
            \/ pc = "setToRemove" /\ pc' = "removeFinalizer"
               /\ pol'[snap.group].b[cur] = NoBinding
<1>. pol \in [Groups -> Policy] /\ copy \in Policy
  BY DEF PolicyInv, TypeOK
<1>1. Setting
  BY DEF UpdateIamPolicy, SetPolicy, Setting
<1>2. cur \in SAs /\ snap.group \in Groups
  BY <1>1 DEF PolicyInv, Working, Setting
<1>3. /\ copy.etag = pol[snap.group].etag
      /\ copy.foreign = pol[snap.group].foreign
      /\ \A s \in SAs \ {cur} : copy.b[s] = pol[snap.group].b[s]
      /\ copy.b[cur] = IF pc = "setToAdd" THEN WantedBinding(snap) ELSE NoBinding
  BY <1>1 DEF PolicyInv, CopyInv, EtagMatches
<1>. DEFINE p == [copy EXCEPT !.etag = pol[snap.group].etag + 1]
<1>4. p.foreign = copy.foreign /\ p.b = copy.b
  BY DEF Policy
<1>5. /\ pol' = [pol EXCEPT ![snap.group] = p]
      /\ \/ pc = "setToAdd" /\ pc' = "annotate"
         \/ pc = "setToRemove" /\ pc' = "removeFinalizer"
  BY DEF UpdateIamPolicy, SetPolicy, Goto
<1>. HIDE DEF p
<1>. QED
  BY <1>2, <1>3, <1>4, <1>5

\* SetIamPolicy never undoes what somebody else did to the policy between the
\* reconciler's GetIamPolicy and its own write, whether it adds a binding
\* (ensureCorrectBinding) or removes one (removeIamBinding).
THEOREM OwnBindingOnly == Spec => OnlyOwnBinding
<1>. DEFINE A == (pc \in {"setToAdd", "setToRemove"} /\ pc' # pc) =>
                   \A g \in Groups :
                     /\ pol'[g].foreign = pol[g].foreign
                     /\ \A s \in SAs \ {cur} : pol'[g].b[s] = pol[g].b[s]
<1>1. PolicyInv /\ [Next]_vars => [A]_vars
  <2>1. SUFFICES ASSUME PolicyInv, [Next]_vars, pc' # pc PROVE A
    OBVIOUS
  <2>2. CASE UNCHANGED pol
    BY <2>2
  <2>3. CASE ~UNCHANGED pol
    <3>1. UpdateIamPolicy /\ EtagMatches(snap.group)
      BY <2>1, <2>3, PolicyChanges DEF worker
    <3>. QED
      BY <2>1, <3>1, WrittenBack
  <2>. QED
    BY <2>2, <2>3
<1>. QED
  BY <1>1, PolicyInvariant, PTL DEF Spec, OnlyOwnBinding

\* A binding appears, or gets another time limit, only in setToAdd.
LEMMA BindingChanges ==
  ASSUME PolicyInv, [Next]_vars, NEW s \in SAs, NEW g \in Groups, pol'[g].b[s].on
  PROVE  \/ Bound(s, g) /\ pol'[g].b[s].until = pol[g].b[s].until
         \/ /\ pc = "setToAdd" /\ s = cur /\ g = snap.group
            /\ pol'[g].b[s] = WantedBinding(snap)
<1>. pol \in [Groups -> Policy]
  BY DEF PolicyInv, TypeOK
<1>1. CASE UNCHANGED pol
  BY <1>1 DEF Bound
<1>2. CASE UpdateIamPolicy /\ EtagMatches(snap.group)
  <2>1. CASE s = cur /\ g = snap.group
    BY <1>2, <2>1, WrittenBack DEF NoBinding
  <2>2. CASE g = snap.group /\ s # cur
    BY <1>2, <2>2, WrittenBack DEF Bound
  <2>3. CASE g # snap.group
    BY <1>2, <2>3, WrittenBack DEF Bound
  <2>. QED
    BY <2>1, <2>2, <2>3
<1>3. ASSUME NEW h \in Groups, GcpToggle(h) PROVE Bound(s, g) /\ pol'[g] = pol[g]
  <2>1. pol'[h].b[s] = NoBinding
    BY <1>3 DEF GcpToggle, EmptyPolicy
  <2>2. g # h
    BY <2>1 DEF NoBinding
  <2>3. pol'[g] = pol[g]
    BY <1>3, <2>2 DEF GcpToggle
  <2>. QED
    BY <2>3 DEF Bound
<1>4. ASSUME NEW h \in Groups, Foreign(h) PROVE Bound(s, g) /\ pol'[g].b = pol[g].b
  <2>1. pol'[g].b = pol[g].b
    BY <1>4 DEF Foreign, Policy
  <2>. QED
    BY <2>1 DEF Bound
<1>5. ASSUME NEW t \in SAs, NEW h \in Groups, Tamper(t, h)
      PROVE  Bound(s, g) /\ pol'[g].b[s].until = pol[g].b[s].until
  <2>1. CASE g = h /\ s = t
    <3>1. pol[g] \in Policy /\ pol[g].b \in [SAs -> Binding] /\ pol[g].b[s] \in Binding
      BY DEF Policy
    <3>2. pol'[g].b[s] = [pol[g].b[s] EXCEPT !.ok = FALSE]
      BY <1>5, <2>1, <3>1 DEF Tamper, Policy
    <3>. QED
      BY <3>1, <3>2 DEF Bound, Binding
  <2>2. CASE ~(g = h /\ s = t)
    <3>1. pol[g] \in Policy /\ pol[g].b \in [SAs -> Binding]
      BY DEF Policy
    <3>2. pol'[g].b[s] = pol[g].b[s]
      BY <1>5, <2>2, <3>1 DEF Tamper, Policy
    <3>. QED
      BY <3>2 DEF Bound
  <2>. QED
    BY <2>1, <2>2
<1>. QED
  BY <1>1, <1>2, <1>3, <1>4, <1>5, PolicyChanges

-----------------------------------------------------------------------------
(* Grants.                                                                 *)

\* A copy o of ServiceAccount s is not from the future, and what validate
\* demanded holds for it unless it is being deleted.
Granted(s, o, acc, t) ==
  /\ o.created <= t
  /\ o.live /\ ~o.deleting /\ o.group \in Groups =>
       <<s, o.group>> \in acc /\ Justified(o)

\* Every copy: in the API server, in the cache, in the reconciler's hands.
GrantInv ==
  /\ \A s \in SAs : Granted(s, sa[s], accepted, now) /\ Granted(s, cache[s], accepted, now)
  /\ pc # "idle" => Granted(cur, snap, accepted, now)
  /\ pc \in {"addFinalizer", "getToAdd", "setToAdd", "annotate"} => ~snap.deleting

BoundInv == BindingWasAccepted /\ LimitedAccess

AccessInv == PolicyInv /\ GrantInv /\ BoundInv

LEMMA GrantedLater ==
  ASSUME NEW s \in SAs, NEW o \in ServiceAccount, NEW acc, NEW bcc, acc \subseteq bcc,
         NEW t \in Nat, NEW u \in Nat, t <= u, Granted(s, o, acc, t)
  PROVE  Granted(s, o, bcc, u)
<1>1. o.created \in Nat
  BY DEF ServiceAccount
<1>. QED
  BY <1>1 DEF Granted

LEMMA StoreGranted ==
  ASSUME TypeOK, NEW s \in SAs, NEW o \in ServiceAccount, Store(s, o), o.created <= now
  PROVE  /\ accepted \subseteq accepted'
         /\ sa'[s] = [o EXCEPT !.rv = sa[s].rv + 1]
         /\ Granted(s, sa'[s], accepted', now)
         /\ \A t \in SAs \ {s} : sa'[t] = sa[t]
<1>1. accepted \subseteq accepted'
  BY DEF Store
<1>2. /\ sa'[s] = [o EXCEPT !.rv = sa[s].rv + 1]
      /\ \A t \in SAs \ {s} : sa'[t] = sa[t]
  BY DEF Store, TypeOK
<1>3. /\ sa'[s].created = o.created /\ sa'[s].live = o.live
      /\ sa'[s].deleting = o.deleting /\ sa'[s].group = o.group
      /\ sa'[s].dur = o.dur /\ sa'[s].reason = o.reason
  BY <1>2 DEF ServiceAccount
<1>4. ASSUME ~o.deleting, o.group \in Groups
      PROVE  <<s, o.group>> \in accepted' /\ Justified(o)
  <2>1. Entitled(s, o.group) /\ Justified(o)
    BY <1>4, AbsentAssumption DEF Store, Valid
  <2>. QED
    BY <1>4, <2>1 DEF Store
<1>5. Justified(o) => Justified(sa'[s])
  BY <1>3 DEF Justified
<1>6. Granted(s, sa'[s], accepted', now)
  BY <1>3, <1>4, <1>5 DEF Granted
<1>. QED
  BY <1>1, <1>2, <1>6

LEMMA VanishGranted ==
  ASSUME TypeOK, NEW s \in SAs, Vanish(s)
  PROVE  /\ accepted' = accepted
         /\ Granted(s, sa'[s], accepted, now)
         /\ \A t \in SAs \ {s} : sa'[t] = sa[t]
  BY NumberAssumption DEF Vanish, TypeOK, NoSA, Granted

\* What a user does is validated.
LEMMA GrantUser ==
  ASSUME TypeOK, GrantInv, NEW s \in SAs, User(s)
  PROVE  /\ accepted \subseteq accepted'
         /\ Granted(s, sa'[s], accepted', now)
         /\ \A t \in SAs \ {s} : sa'[t] = sa[t]
         /\ UNCHANGED <<cache, worker, now>>
<1>. sa[s] \in ServiceAccount /\ now \in Nat
  BY NumberAssumption DEF TypeOK
<1>. sa[s].created <= now
  BY DEF GrantInv, Granted
<1>1. UNCHANGED <<cache, worker, now>>
  BY DEF User, UserCreate, UserAnnotate, Impersonate, UserDelete
<1>2. ASSUME NEW g \in Groups \cup {NoGroup}, NEW d \in Durations, NEW reason \in Reasons,
             UserCreate(s, g, d, reason) \/ UserAnnotate(s, g, d, reason)
               \/ Impersonate(s, g, d, reason)
      PROVE  \E o \in ServiceAccount : Store(s, o) /\ o.created <= now
  <2>1. d \in Duration /\ reason \in BOOLEAN
    BY NumberAssumption DEF Duration
  <2>2. CASE UserCreate(s, g, d, reason)
    <3>. DEFINE o == [NoSA(0) EXCEPT !.live = TRUE, !.created = now, !.group = g,
                                     !.dur = d, !.reason = reason]
    <3>1. NoSA(0) \in ServiceAccount
      BY AbsentTypes
    <3>2. o \in ServiceAccount /\ o.created = now
      BY <2>1, <3>1 DEF ServiceAccount
    <3>3. Store(s, o)
      BY <2>2 DEF UserCreate
    <3>. HIDE DEF o
    <3>. QED
      BY <3>2, <3>3
  <2>3. CASE UserAnnotate(s, g, d, reason)
    <3>. DEFINE o == [sa[s] EXCEPT !.group = g, !.dur = d, !.reason = reason]
    <3>1. o \in ServiceAccount /\ o.created = sa[s].created
      BY <2>1 DEF ServiceAccount
    <3>2. Store(s, o)
      BY <2>3 DEF UserAnnotate
    <3>. HIDE DEF o
    <3>. QED
      BY <3>1, <3>2
  <2>4. CASE Impersonate(s, g, d, reason)
    <3>. DEFINE o == Annotated(sa[s], g, d, reason)
    <3>1. (IF g \in ReasonRequired THEN d ELSE sa[s].dur) \in Duration
      BY <2>1 DEF ServiceAccount
    <3>2. o \in ServiceAccount /\ o.created = sa[s].created
      BY <2>1, <3>1 DEF ServiceAccount, Annotated
    <3>3. Store(s, o)
      BY <2>4 DEF Impersonate
    <3>. HIDE DEF o
    <3>. QED
      BY <3>2, <3>3
  <2>. QED
    BY <1>2, <2>2, <2>3, <2>4
<1>3. CASE UserDelete(s)
  <2>1. CASE sa[s].fin
    <3>1. /\ sa' = [sa EXCEPT ![s].deleting = TRUE, ![s].rv = @ + 1]
          /\ accepted' = accepted
      BY <1>3, <2>1 DEF UserDelete
    <3>2. sa'[s].deleting /\ sa'[s].created = sa[s].created
      BY <3>1 DEF TypeOK, ServiceAccount
    <3>. QED
      BY <1>1, <3>1, <3>2 DEF Granted, TypeOK
  <2>2. CASE ~sa[s].fin
    BY <1>1, <1>3, <2>2, VanishGranted DEF UserDelete
  <2>. QED
    BY <2>1, <2>2
<1>. QED
  BY <1>1, <1>2, <1>3, StoreGranted DEF User

\* What the reconciler writes is a copy of what was validated.
LEMMA GrantStep ==
  ASSUME TypeOK, Working, GrantInv, Step
  PROVE  /\ accepted \subseteq accepted'
         /\ \A t \in SAs : Granted(t, sa'[t], accepted', now)
         /\ pc' # "idle" => Granted(cur', snap', accepted', now)
         /\ pc' \in {"addFinalizer", "getToAdd", "setToAdd", "annotate"} => ~snap'.deleting
         /\ UNCHANGED <<cache, now>>
<1>. snap \in ServiceAccount /\ now \in Nat /\ sa \in [SAs -> ServiceAccount]
  BY NumberAssumption DEF TypeOK
<1>. cur \in SAs /\ Granted(cur, snap, accepted, now) /\ snap.created <= now
  BY DEF Step, AddFinalizer, GetToAdd, GetToRemove, UpdateIamPolicy, SetPolicy, Annotate,
         RemoveFinalizer, Working, GrantInv, Granted
<1>1. UNCHANGED <<cache, now>>
  BY DEF Step, AddFinalizer, GetToAdd, GetToRemove, UpdateIamPolicy, SetPolicy, Annotate,
         RemoveFinalizer
<1>2. ASSUME accepted \subseteq accepted', \A t \in SAs \ {cur} : sa'[t] = sa[t]
      PROVE  \A t \in SAs \ {cur} : Granted(t, sa'[t], accepted', now)
  BY <1>2, GrantedLater DEF GrantInv
<1>3. ASSUME Requeue \/ Return PROVE pc' = "idle"
  BY <1>3 DEF Requeue, Return, Idle
<1>4. CASE AddFinalizer /\ UpdateOk([snap EXCEPT !.fin = TRUE])
  <2>. DEFINE o == [snap EXCEPT !.fin = TRUE]
  <2>1. o \in ServiceAccount /\ o.created = snap.created /\ o.deleting = snap.deleting
    BY DEF ServiceAccount
  <2>2. /\ Store(cur, o) /\ cur' = cur /\ snap' = [o EXCEPT !.rv = snap.rv + 1]
        /\ sa[cur].rv = snap.rv /\ ~snap.deleting
    BY <1>4 DEF AddFinalizer, Goto, UpdateOk, GrantInv
  <2>3. snap'.deleting = snap.deleting
    BY <2>2 DEF ServiceAccount
  <2>. HIDE DEF o
  <2>4. /\ accepted \subseteq accepted'
        /\ Granted(cur, sa'[cur], accepted', now)
        /\ sa'[cur] = snap'
        /\ \A t \in SAs \ {cur} : sa'[t] = sa[t]
    BY <2>1, <2>2, StoreGranted
  <2>. QED
    BY <1>1, <1>2, <2>2, <2>3, <2>4
<1>5. CASE Annotate /\ Store(cur, [snap EXCEPT !.wi = snap.group])
  <2>. DEFINE o == [snap EXCEPT !.wi = snap.group]
  <2>1. o \in ServiceAccount /\ o.created = snap.created
    BY DEF ServiceAccount
  <2>2. Store(cur, o) /\ pc' = "idle"
    BY <1>3, <1>5 DEF Annotate, Requeue, Idle, Return
  <2>. HIDE DEF o
  <2>3. /\ accepted \subseteq accepted'
        /\ Granted(cur, sa'[cur], accepted', now)
        /\ \A t \in SAs \ {cur} : sa'[t] = sa[t]
    BY <2>1, <2>2, StoreGranted
  <2>. QED
    BY <1>1, <1>2, <2>2, <2>3
<1>6. CASE RemoveFinalizer /\ Vanish(cur)
  <2>1. pc' = "idle"
    BY <1>6 DEF RemoveFinalizer, Requeue, Idle, Return
  <2>. QED
    BY <1>1, <1>2, <1>6, <2>1, VanishGranted
<1>7. ASSUME UNCHANGED cluster, pc' = "idle" \/ UNCHANGED <<cur, snap>>,
             pc' \in {"setToAdd", "annotate"} => pc \in {"getToAdd", "setToAdd"},
             pc' \notin {"addFinalizer", "getToAdd"}
      PROVE  /\ accepted \subseteq accepted'
             /\ \A t \in SAs : Granted(t, sa'[t], accepted', now)
             /\ pc' # "idle" => Granted(cur', snap', accepted', now)
             /\ pc' \in {"addFinalizer", "getToAdd", "setToAdd", "annotate"} => ~snap'.deleting
  BY <1>7 DEF GrantInv, cluster
<1>8. CASE GetToAdd
  BY <1>1, <1>3, <1>7, <1>8 DEF GetToAdd, Goto
<1>9. CASE GetToRemove
  BY <1>1, <1>3, <1>7, <1>9 DEF GetToRemove, Goto
<1>10. CASE UpdateIamPolicy
  BY <1>1, <1>3, <1>7, <1>10 DEF UpdateIamPolicy, SetPolicy, Goto
<1>11. CASE AddFinalizer /\ ~UpdateOk([snap EXCEPT !.fin = TRUE])
  BY <1>1, <1>3, <1>7, <1>11 DEF AddFinalizer
<1>12. CASE Annotate /\ UNCHANGED cluster /\ pc' = "idle"
  BY <1>1, <1>7, <1>12
<1>13. CASE RemoveFinalizer /\ UNCHANGED cluster /\ pc' = "idle"
  BY <1>1, <1>7, <1>13
<1>14. Annotate => \/ Store(cur, [snap EXCEPT !.wi = snap.group])
                   \/ UNCHANGED cluster /\ pc' = "idle"
  BY <1>3 DEF Annotate
<1>15. RemoveFinalizer => Vanish(cur) \/ (UNCHANGED cluster /\ pc' = "idle")
  BY <1>3 DEF RemoveFinalizer
<1>. QED
  BY <1>4, <1>5, <1>6, <1>8, <1>9, <1>10, <1>11, <1>12, <1>13, <1>14, <1>15 DEF Step

LEMMA GrantNext ==
  ASSUME TypeOK, Working, GrantInv, [Next]_vars
  PROVE  GrantInv' /\ accepted \subseteq accepted' /\ now <= now' /\ now \in Nat
<1>. /\ sa \in [SAs -> ServiceAccount] /\ cache \in [SAs -> ServiceAccount]
     /\ snap \in ServiceAccount /\ now \in Nat
  BY NumberAssumption DEF TypeOK
<1>1. pc # "idle" => cur \in SAs
  BY DEF Working
<1>2. ASSUME NEW s \in SAs, User(s) PROVE GrantInv' /\ accepted \subseteq accepted' /\ now' = now
  <2>1. /\ accepted \subseteq accepted'
        /\ Granted(s, sa'[s], accepted', now)
        /\ \A t \in SAs \ {s} : sa'[t] = sa[t]
        /\ UNCHANGED <<cache, worker, now>>
    BY <1>2, GrantUser
  <2>2. \A t \in SAs : Granted(t, cache[t], accepted', now)
    BY <2>1, GrantedLater DEF GrantInv
  <2>3. \A t \in SAs \ {s} : Granted(t, sa'[t], accepted', now)
    BY <2>1, GrantedLater DEF GrantInv
  <2>4. pc # "idle" => Granted(cur, snap, accepted', now)
    BY <1>1, <2>1, GrantedLater DEF GrantInv
  <2>. QED
    BY <2>1, <2>2, <2>3, <2>4 DEF GrantInv, worker
<1>3. ASSUME NEW s \in SAs, Sync(s) \/ Resync(s)
      PROVE  GrantInv' /\ accepted' = accepted /\ now' = now
  BY <1>3 DEF Sync, Resync, GrantInv, cluster, worker
<1>4. ASSUME NEW s \in SAs, Get(s) PROVE GrantInv' /\ accepted' = accepted /\ now' = now
  <2>1. UNCHANGED <<sa, accepted, cache, now>>
    BY <1>4 DEF Get, cluster
  <2>2. CASE Idle
    BY <2>1, <2>2 DEF Idle, GrantInv
  <2>3. CASE ~Idle
    <3>1. pc' = Path(cache[s]) /\ cur' = s /\ snap' = cache[s]
      BY <1>4, <2>3 DEF Get
    <3>2. Path(cache[s]) \in {"addFinalizer", "getToAdd"} => ~cache[s].deleting
      BY DEF Path
    <3>3. Path(cache[s]) \notin {"setToAdd", "annotate"}
      BY DEF Path
    <3>. QED
      BY <2>1, <3>1, <3>2, <3>3 DEF GrantInv
  <2>. QED
    BY <2>2, <2>3
<1>5. CASE GoogleCloud
  <2>1. UNCHANGED <<sa, accepted, cache, now, pc, cur, snap>>
    BY <1>5 DEF GoogleCloud, Revoke, GcpToggle, Foreign, Tamper, cluster, worker
  <2>. QED
    BY <2>1 DEF GrantInv
<1>6. CASE Step
  <2>1. /\ accepted \subseteq accepted'
        /\ \A t \in SAs : Granted(t, sa'[t], accepted', now)
        /\ pc' # "idle" => Granted(cur', snap', accepted', now)
        /\ pc' \in {"addFinalizer", "getToAdd", "setToAdd", "annotate"} => ~snap'.deleting
        /\ cache' = cache /\ now' = now
    BY <1>6, GrantStep
  <2>2. \A t \in SAs : Granted(t, cache[t], accepted', now)
    BY <2>1, GrantedLater DEF GrantInv
  <2>. QED
    BY <2>1, <2>2 DEF GrantInv
<1>7. CASE Tick
  <2>1. now' \in Nat /\ now <= now' /\ UNCHANGED <<sa, accepted, cache, pc, cur, snap>>
    BY <1>7 DEF Tick, cluster, worker
  <2>2. \A t \in SAs : Granted(t, cache[t], accepted, now') /\ Granted(t, sa[t], accepted, now')
    BY <2>1, GrantedLater DEF GrantInv
  <2>3. pc # "idle" => Granted(cur, snap, accepted, now')
    BY <1>1, <2>1, GrantedLater DEF GrantInv
  <2>. QED
    BY <2>1, <2>2, <2>3 DEF GrantInv
<1>8. CASE ApiError \/ Crash
  <2>1. UNCHANGED <<sa, accepted, now>> /\ pc' = "idle" /\ (cache' = cache \/ cache' = sa)
    BY <1>8 DEF ApiError, Crash, Requeue, Idle, cluster
  <2>. QED
    BY <2>1 DEF GrantInv
<1>9. CASE UNCHANGED vars
  BY <1>9 DEF vars, GrantInv
<1>. QED
  BY <1>2, <1>3, <1>4, <1>5, <1>6, <1>7, <1>8, <1>9 DEF Next

LEMMA AccessInit == Init => AccessInv
<1>. SUFFICES ASSUME Init PROVE AccessInv
  OBVIOUS
<1>1. \A s \in SAs : Granted(s, NoSA(0), {}, 0)
  BY DEF NoSA, Granted
<1>2. GrantInv
  BY <1>1 DEF Init, GrantInv
<1>3. \A s \in SAs, g \in Groups : ~Bound(s, g)
  BY DEF Init, Bound, EmptyPolicy, NoBinding
<1>4. BoundInv
  BY <1>3, SubsetAssumption DEF BoundInv, BindingWasAccepted, LimitedAccess
<1>. QED
  BY <1>2, <1>4, InitType, CopyInit DEF AccessInv, PolicyInv

LEMMA AccessNext ==
  ASSUME AccessInv, [Next]_vars
  PROVE  AccessInv'
<1>1. PolicyInv'
  BY PolicyNext DEF AccessInv
<1>2. GrantInv' /\ accepted \subseteq accepted' /\ now <= now' /\ now \in Nat /\ now' \in Nat
  BY <1>1, GrantNext, NumberAssumption DEF AccessInv, PolicyInv, TypeOK
<1>3. ASSUME pc = "setToAdd"
      PROVE  /\ <<cur, snap.group>> \in accepted
             /\ snap.group \in ReasonRequired =>
                  /\ WantedBinding(snap).until \in Nat
                  /\ WantedBinding(snap).until <= now + MaxDuration[snap.group]
  <2>1. snap \in ServiceAccount /\ snap.live /\ ~snap.deleting /\ snap.group \in Groups
    BY <1>3 DEF AccessInv, PolicyInv, TypeOK, Working, GrantInv
  <2>2. <<cur, snap.group>> \in accepted /\ Justified(snap) /\ snap.created <= now
    BY <1>3, <2>1 DEF AccessInv, GrantInv, Granted
  <2>3. MaxDuration[snap.group] \in Nat /\ snap.created \in Nat
    BY <2>1, NumberAssumption DEF ServiceAccount
  <2>4. ASSUME snap.group \in ReasonRequired
        PROVE  WantedBinding(snap).until = snap.created + snap.dur /\ snap.dur \in Nat
               /\ snap.dur <= MaxDuration[snap.group]
    BY <2>2, <2>4, AbsentAssumption DEF Justified, WantedBinding
  <2>. QED
    BY <1>2, <2>2, <2>3, <2>4
<1>4. BindingWasAccepted'
  <2>. SUFFICES ASSUME NEW s \in SAs, NEW g \in Groups, pol'[g].b[s].on
                PROVE  <<s, g>> \in accepted'
    BY DEF BindingWasAccepted, Bound
  <2>. QED
    BY <1>2, <1>3, BindingChanges DEF AccessInv, BoundInv, BindingWasAccepted
<1>5. LimitedAccess'
  <2>. SUFFICES ASSUME NEW s \in SAs, NEW g \in ReasonRequired, pol'[g].b[s].on
                PROVE  /\ pol'[g].b[s].until \in Nat
                       /\ pol'[g].b[s].until <= now' + MaxDuration[g]
    BY DEF LimitedAccess, Bound
  <2>1. g \in Groups /\ MaxDuration[g] \in Nat
    BY SubsetAssumption, NumberAssumption
  <2>2. pol'[g].b[s].until \in Nat /\ pol'[g].b[s].until <= now + MaxDuration[g]
    BY <1>3, <2>1, BindingChanges DEF AccessInv, BoundInv, LimitedAccess
  <2>. QED
    BY <1>2, <2>1, <2>2
<1>. QED
  BY <1>1, <1>2, <1>4, <1>5 DEF AccessInv, BoundInv

\* Whoever can impersonate a group was found to be a member of it by validate,
\* although the reconciler acts on stale copies and on objects that validate has
\* not seen since.
THEOREM Acceptance == Spec => []BindingWasAccepted
<1>1. AccessInv /\ [Next]_vars => AccessInv'
  BY AccessNext
<1>2. AccessInv => BindingWasAccepted
  BY DEF AccessInv, BoundInv
<1>. QED
  BY <1>1, <1>2, AccessInit, PTL DEF Spec

\* Where validate requires a reason, access ends within maxDuration from now,
\* whatever stale copy handleGcpSa has bound.
THEOREM Access == Spec => []LimitedAccess
<1>1. AccessInv /\ [Next]_vars => AccessInv'
  BY AccessNext
<1>2. AccessInv => LimitedAccess
  BY DEF AccessInv, BoundInv
<1>. QED
  BY <1>1, <1>2, AccessInit, PTL DEF Spec

-----------------------------------------------------------------------------
(* No binding outlives its ServiceAccount.                                 *)

Adding   == pc \in {"getToAdd", "setToAdd", "annotate"}
Removing == pc \in {"getToRemove", "setToRemove", "removeFinalizer"}

\* The reconciler will remove the binding of s in the policy of g, if there
\* is one, before s goes; or s has been given another group.
Held(s, g) ==
  <<s, g>> \in abandoned \/ (sa[s].live /\ sa[s].fin /\ sa[s].group = g)

\* A copy of s with the current resourceVersion is the current object.
Coherent(s, o) == o.rv <= sa[s].rv /\ (o.rv = sa[s].rv => o = sa[s])

CacheInv == \A s \in SAs : Coherent(s, cache[s])

SnapInv ==
  /\ pc # "idle" => Coherent(cur, snap)
  /\ Adding => snap.fin
  /\ Removing => snap.deleting /\ snap.rv <= cache[cur].rv

\* Whoever sees the finalizer may add the binding: it stays until the binding
\* is removed.
HeldInv ==
  /\ \A s \in SAs :
       cache[s].live /\ cache[s].fin /\ ~cache[s].deleting => Held(s, cache[s].group)
  /\ pc \in {"getToAdd", "setToAdd"} => Held(cur, snap.group)

RemovedInv == pc = "removeFinalizer" => ~Bound(cur, snap.group)

OrphanInv ==
  PolicyInv /\ CacheInv /\ SnapInv /\ HeldInv /\ RemovedInv /\ NoOrphanBinding

\* What a write of an object does to coherence and to the finalizer's hold.
Succeeds(s) ==
  /\ \A t \in SAs \ {s} : sa'[t] = sa[t]
  /\ sa'[s].rv = sa[s].rv + 1
  /\ abandoned \subseteq abandoned'
  /\ sa[s].live /\ sa[s].fin =>
       \/ sa'[s].live /\ sa'[s].fin /\ sa'[s].group = sa[s].group
       \/ <<s, sa[s].group>> \in abandoned'

LEMMA StoreSucceeds ==
  ASSUME TypeOK, NEW s \in SAs, NEW o \in ServiceAccount, Store(s, o),
         o.live, sa[s].fin => o.fin
  PROVE  Succeeds(s) /\ sa'[s] = [o EXCEPT !.rv = sa[s].rv + 1]
<1>1. /\ sa'[s] = [o EXCEPT !.rv = sa[s].rv + 1]
      /\ \A t \in SAs \ {s} : sa'[t] = sa[t]
  BY DEF Store, TypeOK
<1>2. /\ sa'[s].live = o.live /\ sa'[s].fin = o.fin /\ sa'[s].group = o.group
      /\ sa'[s].rv = sa[s].rv + 1
  BY <1>1 DEF ServiceAccount
<1>3. /\ abandoned \subseteq abandoned'
      /\ sa[s].live /\ o.group # sa[s].group => <<s, sa[s].group>> \in abandoned'
  BY DEF Store
<1>. QED
  BY <1>1, <1>2, <1>3 DEF Succeeds

LEMMA UserSucceeds ==
  ASSUME TypeOK, NEW s \in SAs, User(s)
  PROVE  Succeeds(s)
<1>. sa[s] \in ServiceAccount /\ sa \in [SAs -> ServiceAccount] /\ now \in Nat
  BY NumberAssumption DEF TypeOK
<1>1. ASSUME NEW g \in Groups \cup {NoGroup}, NEW d \in Durations, NEW reason \in Reasons,
             UserCreate(s, g, d, reason) \/ UserAnnotate(s, g, d, reason)
               \/ Impersonate(s, g, d, reason)
      PROVE  Succeeds(s)
  <2>1. d \in Duration /\ reason \in BOOLEAN
    BY NumberAssumption DEF Duration
  <2>2. CASE UserCreate(s, g, d, reason)
    <3>. DEFINE o == [NoSA(0) EXCEPT !.live = TRUE, !.created = now, !.group = g,
                                     !.dur = d, !.reason = reason]
    <3>1. NoSA(0) \in ServiceAccount
      BY AbsentTypes
    <3>2. o \in ServiceAccount /\ o.live
      BY <2>1, <3>1 DEF ServiceAccount
    <3>3. Store(s, o) /\ ~sa[s].live
      BY <2>2 DEF UserCreate
    <3>. HIDE DEF o
    <3>4. sa'[s] = [o EXCEPT !.rv = sa[s].rv + 1] /\ \A t \in SAs \ {s} : sa'[t] = sa[t]
      BY <3>3 DEF Store
    <3>5. sa'[s].rv = sa[s].rv + 1
      BY <3>2, <3>4 DEF ServiceAccount
    <3>6. abandoned \subseteq abandoned'
      BY <3>3 DEF Store
    <3>. QED
      BY <3>3, <3>4, <3>5, <3>6 DEF Succeeds
  <2>3. CASE UserAnnotate(s, g, d, reason)
    <3>. DEFINE o == [sa[s] EXCEPT !.group = g, !.dur = d, !.reason = reason]
    <3>1. o \in ServiceAccount /\ o.live = sa[s].live /\ o.fin = sa[s].fin
      BY <2>1 DEF ServiceAccount
    <3>2. Store(s, o) /\ sa[s].live
      BY <2>3 DEF UserAnnotate
    <3>. HIDE DEF o
    <3>. QED
      BY <3>1, <3>2, StoreSucceeds
  <2>4. CASE Impersonate(s, g, d, reason)
    <3>. DEFINE o == Annotated(sa[s], g, d, reason)
    <3>1. (IF g \in ReasonRequired THEN d ELSE sa[s].dur) \in Duration
      BY <2>1 DEF ServiceAccount
    <3>2. o \in ServiceAccount /\ o.live = sa[s].live /\ o.fin = sa[s].fin
      BY <2>1, <3>1 DEF ServiceAccount, Annotated
    <3>3. Store(s, o) /\ sa[s].live
      BY <2>4 DEF Impersonate
    <3>. HIDE DEF o
    <3>. QED
      BY <3>2, <3>3, StoreSucceeds
  <2>. QED
    BY <1>1, <2>2, <2>3, <2>4
<1>2. CASE UserDelete(s)
  <2>1. CASE sa[s].fin
    <3>1. /\ sa' = [sa EXCEPT ![s].deleting = TRUE, ![s].rv = @ + 1]
          /\ abandoned' = abandoned
      BY <1>2, <2>1 DEF UserDelete
    <3>2. /\ sa'[s].rv = sa[s].rv + 1 /\ sa'[s].live = sa[s].live
          /\ sa'[s].fin = sa[s].fin /\ sa'[s].group = sa[s].group
      BY <3>1 DEF ServiceAccount
    <3>. QED
      BY <3>1, <3>2 DEF Succeeds
  <2>2. CASE ~sa[s].fin
    <3>1. sa' = [sa EXCEPT ![s] = NoSA(sa[s].rv + 1)] /\ abandoned' = abandoned
      BY <1>2, <2>2 DEF UserDelete, Vanish
    <3>. QED
      BY <2>2, <3>1 DEF Succeeds, NoSA
  <2>. QED
    BY <2>1, <2>2
<1>. QED
  BY <1>1, <1>2 DEF User

\* After such a write the copies are older, and what was held still is.
LEMMA SucceedsKeeps ==
  ASSUME TypeOK, NEW s \in SAs, Succeeds(s)
  PROVE  /\ \A t \in SAs, o \in ServiceAccount :
              Coherent(t, o) => o.rv <= sa'[t].rv /\ (o.rv = sa'[t].rv => o = sa'[t])
         /\ \A t \in SAs, g \in Groups \cup {NoGroup} :
              Held(t, g) => \/ <<t, g>> \in abandoned'
                            \/ sa'[t].live /\ sa'[t].fin /\ sa'[t].group = g
<1>1. ASSUME NEW t \in SAs, NEW o \in ServiceAccount, Coherent(t, o)
      PROVE  o.rv <= sa'[t].rv /\ (o.rv = sa'[t].rv => o = sa'[t])
  <2>1. o.rv \in Nat /\ sa[t].rv \in Nat /\ sa[s].rv \in Nat
    BY DEF TypeOK, ServiceAccount
  <2>. QED
    BY <1>1, <2>1 DEF Coherent, Succeeds
<1>2. ASSUME NEW t \in SAs, NEW g \in Groups \cup {NoGroup}, Held(t, g)
      PROVE  <<t, g>> \in abandoned' \/ (sa'[t].live /\ sa'[t].fin /\ sa'[t].group = g)
  BY <1>2 DEF Held, Succeeds
<1>. QED
  BY <1>1, <1>2

\* What is held stays held.
Kept ==
  \A t \in SAs, g \in Groups \cup {NoGroup} :
    Held(t, g) => \/ <<t, g>> \in abandoned'
                  \/ sa'[t].live /\ sa'[t].fin /\ sa'[t].group = g

LEMMA KeptBindings ==
  ASSUME OrphanInv, [Next]_vars, Kept
  PROVE  NoOrphanBinding'
<1>. SUFFICES ASSUME NEW s \in SAs, NEW g \in Groups, pol'[g].b[s].on
              PROVE  <<s, g>> \in abandoned' \/ (sa'[s].live /\ sa'[s].fin /\ sa'[s].group = g)
  BY DEF NoOrphanBinding, Bound
<1>1. Bound(s, g) \/ (pc = "setToAdd" /\ s = cur /\ g = snap.group)
  BY BindingChanges DEF OrphanInv
<1>2. Held(s, g)
  BY <1>1 DEF OrphanInv, NoOrphanBinding, HeldInv, Held
<1>. QED
  BY <1>2 DEF Kept

\* When the finalizer is about to go, the binding is gone and does not return.
LEMMA RemovedNext ==
  ASSUME OrphanInv, [Next]_vars, pc' = "removeFinalizer"
  PROVE  ~pol'[snap'.group].b[cur'].on
<1>. pol \in [Groups -> Policy]
  BY DEF OrphanInv, PolicyInv, TypeOK
<1>1. CASE UNCHANGED worker /\ pc = "removeFinalizer"
  <2>1. cur \in SAs /\ snap.group \in Groups /\ ~Bound(cur, snap.group)
    BY <1>1 DEF OrphanInv, PolicyInv, Working, RemovedInv
  <2>. QED
    BY <1>1, <2>1, BindingChanges DEF OrphanInv, worker
<1>2. CASE GetToRemove
  <2>1. cur \in SAs /\ snap.group \in Groups
    BY <1>2 DEF GetToRemove, OrphanInv, PolicyInv, Working
  <2>2. cur' = cur /\ snap' = snap /\ pol' = pol
        /\ (~pol[snap.group].exists \/ ~pol[snap.group].b[cur].on)
    BY <1>2 DEF GetToRemove, Goto, google, Requeue, Idle
  <2>. QED
    BY <2>1, <2>2 DEF OrphanInv, PolicyInv, EmptyIfAbsent, Bound
<1>3. CASE UpdateIamPolicy
  <2>1. EtagMatches(snap.group) /\ cur' = cur /\ snap' = snap
    BY <1>3 DEF UpdateIamPolicy, SetPolicy, Goto, Requeue, Idle
  <2>. QED
    BY <1>3, <2>1, WrittenBack DEF OrphanInv, NoBinding
<1>4. ASSUME NEW s \in SAs, User(s) \/ Sync(s) \/ Resync(s) PROVE UNCHANGED worker
  BY <1>4 DEF User, UserCreate, UserAnnotate, Impersonate, UserDelete, Sync, Resync
<1>5. ASSUME NEW s \in SAs, Get(s) PROVE FALSE
  BY <1>5 DEF Get, Idle, Path
<1>6. ASSUME GoogleCloud \/ Tick PROVE UNCHANGED worker
  BY <1>6 DEF GoogleCloud, Revoke, GcpToggle, Foreign, Tamper, Tick
<1>7. ASSUME ApiError \/ Crash \/ AddFinalizer \/ GetToAdd \/ Annotate \/ RemoveFinalizer
      PROVE  FALSE
  BY <1>7 DEF ApiError, Crash, AddFinalizer, GetToAdd, Annotate, RemoveFinalizer, Goto,
              Requeue, Return, Idle
<1>8. ASSUME UNCHANGED vars PROVE UNCHANGED worker
  BY <1>8 DEF vars, worker
<1>9. UNCHANGED worker => pc = "removeFinalizer"
  BY DEF worker
<1>. QED
  BY <1>1, <1>2, <1>3, <1>4, <1>5, <1>6, <1>7, <1>8, <1>9 DEF Next, Step

\* The rest of the invariant, for a step of the reconciler.
LEMMA HeldStep ==
  ASSUME OrphanInv, Step
  PROVE  /\ (CacheInv /\ SnapInv /\ HeldInv)'
         /\ Kept \/ (RemoveFinalizer /\ Vanish(cur))
<1>. /\ TypeOK /\ cur \in SAs /\ snap \in ServiceAccount /\ cache \in [SAs -> ServiceAccount]
     /\ sa \in [SAs -> ServiceAccount] /\ snap.group \in Groups /\ snap.live
  BY DEF OrphanInv, PolicyInv, TypeOK, Working, Step, AddFinalizer, GetToAdd, GetToRemove,
         UpdateIamPolicy, SetPolicy, Annotate, RemoveFinalizer
<1>1. /\ cache' = cache
      /\ Coherent(cur, snap)
      /\ \A s \in SAs : cache[s].group \in Groups \cup {NoGroup}
  BY DEF Step, AddFinalizer, GetToAdd, GetToRemove, UpdateIamPolicy, SetPolicy, Annotate,
         RemoveFinalizer, OrphanInv, SnapInv, ServiceAccount
<1>2. ASSUME Requeue \/ Return PROVE pc' = "idle"
  BY <1>2 DEF Requeue, Return, Idle
<1>3. ASSUME Succeeds(cur) PROVE CacheInv' /\ Kept
  BY <1>1, <1>3, SucceedsKeeps DEF Kept, OrphanInv, CacheInv, Coherent
<1>4. ASSUME Kept
      PROVE  \A s \in SAs : cache'[s].live /\ cache'[s].fin /\ ~cache'[s].deleting =>
                              Held(s, cache[s].group)'
  BY <1>1, <1>4 DEF Kept, Held, OrphanInv, HeldInv
<1>5. CASE AddFinalizer /\ UpdateOk([snap EXCEPT !.fin = TRUE])
  <2>. DEFINE o == [snap EXCEPT !.fin = TRUE]
  <2>1. o \in ServiceAccount /\ o.live /\ o.fin /\ o.group = snap.group
    BY DEF ServiceAccount
  <2>2. /\ Store(cur, o) /\ cur' = cur /\ snap' = [o EXCEPT !.rv = snap.rv + 1]
        /\ sa[cur].rv = snap.rv /\ pc' = "getToAdd"
    BY <1>5 DEF AddFinalizer, Goto, UpdateOk
  <2>3. snap'.fin /\ snap'.live /\ snap'.group = snap.group /\ snap'.rv \in Nat
    BY <2>2 DEF ServiceAccount
  <2>. HIDE DEF o
  <2>4. Succeeds(cur) /\ sa'[cur] = snap'
    BY <2>1, <2>2, StoreSucceeds
  <2>5. CacheInv' /\ Kept
    BY <1>3, <2>4
  <2>6. SnapInv'
    BY <2>2, <2>3, <2>4 DEF SnapInv, Adding, Removing, Coherent
  <2>7. HeldInv'
    BY <1>4, <2>2, <2>3, <2>4, <2>5 DEF HeldInv, Held
  <2>. QED
    BY <2>5, <2>6, <2>7
<1>6. ASSUME pc' = "idle", CacheInv', Kept PROVE (CacheInv /\ SnapInv /\ HeldInv)'
  BY <1>1, <1>4, <1>6 DEF SnapInv, HeldInv, Adding, Removing, Held
<1>7. CASE Annotate /\ Store(cur, [snap EXCEPT !.wi = snap.group])
  <2>. DEFINE o == [snap EXCEPT !.wi = snap.group]
  <2>1. o \in ServiceAccount /\ o.live /\ o.fin = snap.fin
    BY DEF ServiceAccount
  <2>2. Store(cur, o) /\ pc' = "idle" /\ snap.fin
    BY <1>2, <1>7 DEF Annotate, OrphanInv, SnapInv, Adding
  <2>. HIDE DEF o
  <2>3. Succeeds(cur)
    BY <2>1, <2>2, StoreSucceeds
  <2>. QED
    BY <1>3, <1>6, <2>2, <2>3
<1>8. CASE RemoveFinalizer /\ Vanish(cur)
  <2>1. pc' = "idle" /\ sa' = [sa EXCEPT ![cur] = NoSA(sa[cur].rv + 1)] /\ abandoned' = abandoned
    BY <1>2, <1>8 DEF RemoveFinalizer, Vanish
  <2>2. snap.deleting /\ snap.rv <= cache[cur].rv
    BY <1>8 DEF RemoveFinalizer, OrphanInv, SnapInv, Removing
  <2>3. sa[cur].rv = snap.rv
    <3>1. CASE UpdateOk([snap EXCEPT !.fin = FALSE])
      BY <3>1 DEF UpdateOk
    <3>2. CASE ~UpdateOk([snap EXCEPT !.fin = FALSE])
      <4>1. sa' = sa
        BY <1>8, <3>2 DEF RemoveFinalizer, cluster
      <4>2. sa[cur].rv = sa[cur].rv + 1
        BY <2>1, <4>1 DEF NoSA
      <4>. QED
        BY <4>2 DEF ServiceAccount
    <3>. QED
      BY <3>1, <3>2
  <2>4. /\ cache[cur].rv \in Nat /\ sa[cur].rv \in Nat /\ snap.rv \in Nat
        /\ \A s \in SAs : cache[s].rv \in Nat
    BY DEF ServiceAccount
  <2>5. cache[cur].deleting
    BY <1>1, <2>2, <2>3, <2>4 DEF OrphanInv, CacheInv, Coherent
  <2>6. CacheInv'
    <3>. SUFFICES ASSUME NEW s \in SAs
                  PROVE  cache[s].rv <= sa'[s].rv /\ (cache[s].rv = sa'[s].rv => cache[s] = sa'[s])
      BY <1>1 DEF CacheInv, Coherent
    <3>1. Coherent(s, cache[s])
      BY DEF OrphanInv, CacheInv
    <3>2. CASE s = cur
      <4>1. sa'[s].rv = sa[s].rv + 1
        BY <2>1, <3>2 DEF NoSA
      <4>. QED
        BY <2>4, <3>1, <3>2, <4>1 DEF Coherent
    <3>3. CASE s # cur
      BY <2>1, <3>1, <3>3 DEF Coherent
    <3>. QED
      BY <3>2, <3>3
  <2>7. HeldInv'
    <3>. SUFFICES ASSUME NEW s \in SAs, cache[s].live, cache[s].fin, ~cache[s].deleting
                  PROVE  \/ <<s, cache[s].group>> \in abandoned'
                         \/ sa'[s].live /\ sa'[s].fin /\ sa'[s].group = cache[s].group
      BY <1>1, <2>1 DEF HeldInv, Held
    <3>1. s # cur /\ Held(s, cache[s].group)
      BY <2>5 DEF OrphanInv, HeldInv
    <3>. QED
      BY <2>1, <3>1 DEF Held
  <2>8. SnapInv'
    BY <2>1 DEF SnapInv, Adding, Removing
  <2>. QED
    BY <1>8, <2>6, <2>7, <2>8
<1>9. ASSUME UNCHANGED cluster PROVE CacheInv' /\ Kept
  BY <1>1, <1>9 DEF cluster, Kept, Held, OrphanInv, CacheInv, Coherent
<1>10. CASE UNCHANGED cluster /\ pc' = "idle"
  BY <1>6, <1>9, <1>10
<1>11. ASSUME UNCHANGED cluster, UNCHANGED <<cur, snap>>, pc # "idle",
              Adding' => Adding, Removing' => Removing,
              pc' \in {"getToAdd", "setToAdd"} => pc \in {"getToAdd", "setToAdd"}
       PROVE  (CacheInv /\ SnapInv /\ HeldInv)' /\ Kept
  <2>1. CacheInv' /\ Kept
    BY <1>9, <1>11
  <2>2. SnapInv'
    BY <1>1, <1>11 DEF OrphanInv, SnapInv, Coherent, cluster, Adding, Removing
  <2>3. HeldInv'
    BY <1>1, <1>11 DEF OrphanInv, HeldInv, Held, cluster
  <2>. QED
    BY <2>1, <2>2, <2>3
<1>12. CASE GetToAdd
  <2>1. UNCHANGED cluster /\ pc = "getToAdd"
        /\ (pc' = "idle" \/ (pc' \in {"annotate", "setToAdd"} /\ UNCHANGED <<cur, snap>>))
    BY <1>2, <1>12 DEF GetToAdd, Goto
  <2>. QED
    BY <1>10, <1>11, <2>1 DEF Adding, Removing
<1>13. CASE GetToRemove
  <2>1. UNCHANGED cluster /\ pc = "getToRemove"
        /\ (pc' = "idle" \/ (pc' \in {"removeFinalizer", "setToRemove"} /\ UNCHANGED <<cur, snap>>))
    BY <1>2, <1>13 DEF GetToRemove, Goto
  <2>. QED
    BY <1>10, <1>11, <2>1 DEF Adding, Removing
<1>14. CASE UpdateIamPolicy
  <2>1. UNCHANGED cluster
        /\ \/ pc' = "idle"
           \/ pc = "setToAdd" /\ pc' = "annotate" /\ UNCHANGED <<cur, snap>>
           \/ pc = "setToRemove" /\ pc' = "removeFinalizer" /\ UNCHANGED <<cur, snap>>
    BY <1>2, <1>14 DEF UpdateIamPolicy, SetPolicy, Goto
  <2>. QED
    BY <1>10, <1>11, <2>1 DEF Adding, Removing
<1>15. AddFinalizer => UpdateOk([snap EXCEPT !.fin = TRUE]) \/ (UNCHANGED cluster /\ pc' = "idle")
  BY <1>2 DEF AddFinalizer
<1>16. Annotate => \/ Store(cur, [snap EXCEPT !.wi = snap.group])
                   \/ UNCHANGED cluster /\ pc' = "idle"
  BY <1>2 DEF Annotate
<1>17. RemoveFinalizer => Vanish(cur) \/ (UNCHANGED cluster /\ pc' = "idle")
  BY <1>2 DEF RemoveFinalizer
<1>. QED
  BY <1>5, <1>7, <1>8, <1>10, <1>12, <1>13, <1>14, <1>15, <1>16, <1>17 DEF Step

\* The rest of the invariant, for a step of anybody else.
LEMMA HeldOther ==
  ASSUME OrphanInv, [Next]_vars, ~Step
  PROVE  (CacheInv /\ SnapInv /\ HeldInv)' /\ Kept
<1>. /\ TypeOK /\ snap \in ServiceAccount /\ cache \in [SAs -> ServiceAccount]
     /\ sa \in [SAs -> ServiceAccount]
  BY DEF OrphanInv, PolicyInv, TypeOK
<1>1. pc # "idle" => cur \in SAs /\ snap.group \in Groups
  BY DEF OrphanInv, PolicyInv, Working
<1>2. \A s \in SAs : /\ cache[s].group \in Groups \cup {NoGroup}
                     /\ cache[s].rv \in Nat /\ sa[s].rv \in Nat /\ snap.rv \in Nat
  BY DEF ServiceAccount
<1>3. ASSUME UNCHANGED <<sa, abandoned>> PROVE Kept
  BY <1>3 DEF Kept, Held
<1>4. ASSUME NEW s \in SAs, User(s) PROVE (CacheInv /\ SnapInv /\ HeldInv)' /\ Kept
  <2>1. Succeeds(s) /\ UNCHANGED <<cache, pc, cur, snap>>
    BY <1>4, UserSucceeds
       DEF User, UserCreate, UserAnnotate, Impersonate, UserDelete, worker
  <2>2. Kept
    BY <2>1, SucceedsKeeps DEF Kept
  <2>3. CacheInv'
    BY <2>1, SucceedsKeeps DEF OrphanInv, CacheInv, Coherent
  <2>4. pc # "idle" => Coherent(cur, snap)'
    BY <1>1, <2>1, SucceedsKeeps DEF OrphanInv, SnapInv, Coherent
  <2>5. SnapInv'
    BY <2>1, <2>4 DEF OrphanInv, SnapInv, Adding, Removing
  <2>6. HeldInv'
    BY <1>1, <1>2, <2>1, <2>2 DEF Kept, OrphanInv, HeldInv, Held
  <2>. QED
    BY <2>2, <2>3, <2>5, <2>6
<1>5. ASSUME NEW s \in SAs, Sync(s) PROVE (CacheInv /\ SnapInv /\ HeldInv)' /\ Kept
  <2>1. /\ cache' = [cache EXCEPT ![s] = sa[s]]
        /\ UNCHANGED <<sa, abandoned, pc, cur, snap>>
    BY <1>5 DEF Sync, cluster, worker
  <2>2. CacheInv'
    BY <1>2, <2>1 DEF OrphanInv, CacheInv, Coherent
  <2>3. \A t \in SAs : cache[t].rv <= cache'[t].rv
    BY <1>2, <2>1 DEF OrphanInv, CacheInv, Coherent
  <2>4. \A t \in SAs : cache'[t].rv \in Nat
    BY <1>2, <2>1
  <2>5. SnapInv'
    BY <1>1, <1>2, <2>1, <2>3, <2>4 DEF OrphanInv, SnapInv, Coherent, Adding, Removing
  <2>6. HeldInv'
    BY <2>1 DEF OrphanInv, HeldInv, Held
  <2>. QED
    BY <1>3, <2>1, <2>2, <2>5, <2>6
<1>6. ASSUME UNCHANGED <<sa, abandoned, cache, pc, cur, snap>>
      PROVE  (CacheInv /\ SnapInv /\ HeldInv)' /\ Kept
  BY <1>3, <1>6 DEF OrphanInv, CacheInv, SnapInv, HeldInv, Coherent, Held, Adding, Removing
<1>7. ASSUME NEW s \in SAs, Get(s) PROVE (CacheInv /\ SnapInv /\ HeldInv)' /\ Kept
  <2>1. UNCHANGED <<sa, abandoned, cache>>
    BY <1>7 DEF Get, cluster
  <2>2. CacheInv' /\ Kept
    BY <1>3, <2>1 DEF OrphanInv, CacheInv, Coherent
  <2>3. CASE Idle
    BY <2>1, <2>2, <2>3 DEF Idle, OrphanInv, SnapInv, HeldInv, Held, Adding, Removing
  <2>4. CASE ~Idle
    <3>1. pc' = Path(cache[s]) /\ cur' = s /\ snap' = cache[s] /\ pc' # "idle"
      BY <1>7, <2>4 DEF Get
    <3>2. \/ pc' = "addFinalizer"
          \/ pc' = "getToAdd" /\ cache[s].live /\ cache[s].fin /\ ~cache[s].deleting
          \/ pc' = "getToRemove" /\ cache[s].deleting
      BY <3>1 DEF Path
    <3>3. SnapInv'
      BY <1>2, <2>1, <3>1, <3>2 DEF OrphanInv, CacheInv, SnapInv, Coherent, Adding, Removing
    <3>4. HeldInv'
      BY <2>1, <3>1, <3>2 DEF OrphanInv, HeldInv, Held
    <3>. QED
      BY <2>2, <3>3, <3>4
  <2>. QED
    BY <2>3, <2>4
<1>8. CASE ApiError
  <2>1. UNCHANGED <<sa, abandoned, cache>> /\ pc' = "idle"
    BY <1>8 DEF ApiError, Requeue, Idle, cluster
  <2>. QED
    BY <1>3, <2>1
       DEF OrphanInv, CacheInv, SnapInv, HeldInv, Coherent, Held, Adding, Removing
<1>9. CASE Crash
  <2>1. UNCHANGED <<sa, abandoned>> /\ cache' = sa /\ pc' = "idle"
    BY <1>9 DEF Crash, Idle, cluster
  <2>2. CacheInv'
    BY <1>2, <2>1 DEF CacheInv, Coherent
  <2>. QED
    BY <1>3, <2>1, <2>2 DEF SnapInv, HeldInv, Held, Adding, Removing
<1>10. ASSUME NEW s \in SAs, Resync(s) PROVE UNCHANGED <<sa, abandoned, cache, pc, cur, snap>>
  BY <1>10 DEF Resync, cluster, worker
<1>11. ASSUME GoogleCloud PROVE UNCHANGED <<sa, abandoned, cache, pc, cur, snap>>
  BY <1>11 DEF GoogleCloud, Revoke, GcpToggle, Foreign, Tamper, cluster, worker
<1>12. ASSUME Tick \/ UNCHANGED vars PROVE UNCHANGED <<sa, abandoned, cache, pc, cur, snap>>
  BY <1>12 DEF Tick, cluster, worker, vars
<1>. QED
  BY <1>4, <1>5, <1>6, <1>7, <1>8, <1>9, <1>10, <1>11, <1>12 DEF Next

LEMMA OrphanInit == Init => OrphanInv
<1>. SUFFICES ASSUME Init PROVE OrphanInv
  OBVIOUS
<1>1. \A s \in SAs, g \in Groups : ~Bound(s, g)
  BY DEF Init, Bound, EmptyPolicy, NoBinding
<1>2. CacheInv
  <2>1. \A s \in SAs : sa[s] = NoSA(0) /\ cache[s] = NoSA(0)
    BY DEF Init
  <2>2. NoSA(0).rv <= NoSA(0).rv
    BY DEF NoSA
  <2>. QED
    BY <2>1, <2>2 DEF CacheInv, Coherent
<1>3. SnapInv /\ HeldInv /\ RemovedInv
  BY DEF Init, SnapInv, HeldInv, RemovedInv, Adding, Removing, NoSA
<1>. QED
  BY <1>1, <1>2, <1>3, InitType, CopyInit DEF OrphanInv, PolicyInv, NoOrphanBinding

LEMMA OrphanNext ==
  ASSUME OrphanInv, [Next]_vars
  PROVE  OrphanInv'
<1>1. PolicyInv'
  BY PolicyNext DEF OrphanInv
<1>2. RemovedInv'
  BY RemovedNext DEF RemovedInv, Bound
<1>3. (CacheInv /\ SnapInv /\ HeldInv)' /\ (Kept \/ (RemoveFinalizer /\ Vanish(cur)))
  BY HeldStep, HeldOther
<1>4. NoOrphanBinding'
  <2>1. CASE Kept
    BY <2>1, KeptBindings
  <2>2. CASE RemoveFinalizer /\ Vanish(cur)
    <3>. SUFFICES ASSUME NEW s \in SAs, NEW g \in Groups, pol'[g].b[s].on
                  PROVE  \/ <<s, g>> \in abandoned'
                         \/ sa'[s].live /\ sa'[s].fin /\ sa'[s].group = g
      BY DEF NoOrphanBinding, Bound
    <3>1. pol' = pol /\ abandoned' = abandoned /\ pc = "removeFinalizer"
      BY <2>2 DEF RemoveFinalizer, Vanish, google
    <3>2. Bound(s, g) /\ (<<s, g>> \in abandoned \/ (sa[s].live /\ sa[s].fin /\ sa[s].group = g))
      BY <3>1 DEF OrphanInv, NoOrphanBinding, Bound
    <3>3. CASE s # cur
      BY <2>2, <3>1, <3>2, <3>3 DEF Vanish, OrphanInv, PolicyInv, TypeOK
    <3>4. CASE s = cur
      <4>1. sa[cur].rv = snap.rv
        <5>1. CASE UpdateOk([snap EXCEPT !.fin = FALSE])
          BY <5>1 DEF UpdateOk
        <5>2. CASE ~UpdateOk([snap EXCEPT !.fin = FALSE])
          <6>1. sa' = sa
            BY <2>2, <5>2 DEF RemoveFinalizer, cluster
          <6>2. sa[cur].rv = sa[cur].rv + 1 /\ sa[cur].rv \in Nat
            BY <2>2, <3>4, <6>1
               DEF Vanish, NoSA, OrphanInv, PolicyInv, TypeOK, ServiceAccount
          <6>. QED
            BY <6>2
        <5>. QED
          BY <5>1, <5>2
      <4>2. sa[cur] = snap
        BY <3>1, <4>1 DEF OrphanInv, SnapInv, Coherent
      <4>3. g # snap.group
        BY <3>1, <3>2, <3>4 DEF OrphanInv, RemovedInv
      <4>. QED
        BY <3>1, <3>2, <3>4, <4>2, <4>3
    <3>. QED
      BY <3>3, <3>4
  <2>. QED
    BY <1>3, <2>1, <2>2
<1>. QED
  BY <1>1, <1>2, <1>3, <1>4 DEF OrphanInv

\* No binding outlives the ServiceAccount it was made for: Reconcile adds the
\* finalizer before handleGcpSa and takes it away only after removeIamBinding,
\* and neither a stale cache, a restart, a concurrent write nor a deletion at
\* any point between the two leaves a binding that nobody will remove.
THEOREM NoOrphan == Spec => []NoOrphanBinding
<1>1. OrphanInv /\ [Next]_vars => OrphanInv'
  BY OrphanNext
<1>2. OrphanInv => NoOrphanBinding
  BY DEF OrphanInv
<1>. QED
  BY <1>1, <1>2, OrphanInit, PTL DEF Spec
=============================================================================
