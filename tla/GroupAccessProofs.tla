-------------------------- MODULE GroupAccessProofs --------------------------
(***************************************************************************)
(* IamBinding implements GroupAccess, for any ServiceAccounts, groups and  *)
(* environment.                                                            *)
(***************************************************************************)
EXTENDS IamBindingProofs

-----------------------------------------------------------------------------
(* What a step does to the ServiceAccounts.                                *)

\* s is stored as o, which lives and is deleted as little as before; a
\* finalizer is new only if the reconciler adds it to its current copy.
Stores(s, o) ==
  /\ Store(s, o)
  /\ o \in ServiceAccount
  /\ o.live
  /\ o.deleting = (sa[s].live /\ sa[s].deleting)
  /\ \/ o.fin => sa[s].live /\ sa[s].fin
     \/ AddFinalizer /\ s = cur /\ pc = "addFinalizer" /\ sa[s] = snap
  /\ UNCHANGED <<pol, now, cache>>
  /\ UNCHANGED worker \/ Step

Marks(s) ==
  /\ sa[s].live /\ ~sa[s].deleting
  /\ sa' = [sa EXCEPT ![s].deleting = TRUE, ![s].rv = @ + 1]
  /\ UNCHANGED <<abandoned, accepted, pol, now, cache, worker>>

Vanishes(s) ==
  /\ Vanish(s)
  /\ UNCHANGED <<pol, now, cache>>
  /\ UNCHANGED worker \/ pc' = "idle"

LEMMA UserLifecycle ==
  ASSUME TypeOK, NEW s \in SAs, User(s)
  PROVE  (\E o : Stores(s, o)) \/ Marks(s) \/ Vanishes(s)
<1>. sa[s] \in ServiceAccount /\ now \in Nat
  BY NumberAssumption DEF TypeOK
<1>1. ASSUME NEW g \in Groups \cup {NoGroup}, NEW d \in Durations, NEW reason \in Reasons,
             UserCreate(s, g, d, reason)
      PROVE  \E o : Stores(s, o)
  <2>. DEFINE o == [NoSA(0) EXCEPT !.live = TRUE, !.created = now, !.group = g,
                                   !.dur = d, !.reason = reason]
  <2>1. d \in Duration /\ reason \in BOOLEAN
    BY NumberAssumption DEF Duration
  <2>2. o \in ServiceAccount /\ o.live /\ ~o.deleting /\ ~o.fin
    BY <2>1 DEF NoSA, ServiceAccount
  <2>3. Store(s, o) /\ UNCHANGED <<pol, now, cache, worker>> /\ ~sa[s].live
    BY <1>1 DEF UserCreate, google
  <2>. HIDE DEF o
  <2>4. Stores(s, o)
    BY <2>2, <2>3 DEF Stores, ServiceAccount
  <2>. QED  BY <2>4
<1>2. ASSUME NEW o, Store(s, o), o \in ServiceAccount, sa[s].live, o.live = sa[s].live,
             o.deleting = sa[s].deleting, o.fin = sa[s].fin,
             UNCHANGED <<cache, queue, worker, google, now>>
      PROVE  Stores(s, o)
  BY <1>2 DEF Stores, google, ServiceAccount
<1>3. ASSUME NEW g \in Groups \cup {NoGroup}, NEW d \in Durations, NEW reason \in Reasons,
             UserAnnotate(s, g, d, reason)
      PROVE  \E o : Stores(s, o)
  <2>. DEFINE o == [sa[s] EXCEPT !.group = g, !.dur = d, !.reason = reason]
  <2>1. d \in Duration /\ reason \in BOOLEAN
    BY NumberAssumption DEF Duration
  <2>2. /\ o \in ServiceAccount /\ o.live = sa[s].live
        /\ o.deleting = sa[s].deleting /\ o.fin = sa[s].fin
    BY <2>1 DEF ServiceAccount
  <2>3. Store(s, o) /\ UNCHANGED <<cache, queue, worker, google, now>> /\ sa[s].live
    BY <1>3 DEF UserAnnotate
  <2>. HIDE DEF o
  <2>. QED  BY <1>2, <2>2, <2>3
<1>4. ASSUME NEW g \in Groups \cup {NoGroup}, NEW d \in Durations, NEW reason \in Reasons,
             Impersonate(s, g, d, reason)
      PROVE  \E o : Stores(s, o)
  <2>. DEFINE o == Annotated(sa[s], g, d, reason)
  <2>1. d \in Duration /\ reason \in BOOLEAN
    BY NumberAssumption DEF Duration
  <2>2. /\ o \in ServiceAccount /\ o.live = sa[s].live
        /\ o.deleting = sa[s].deleting /\ o.fin = sa[s].fin
    BY <2>1 DEF ServiceAccount, Annotated
  <2>3. Store(s, o) /\ UNCHANGED <<cache, queue, worker, google, now>> /\ sa[s].live
    BY <1>4 DEF Impersonate
  <2>. HIDE DEF o
  <2>. QED  BY <1>2, <2>2, <2>3
<1>5. ASSUME UserDelete(s) PROVE Marks(s) \/ Vanishes(s)
  BY <1>5 DEF UserDelete, Marks, Vanishes, google
<1>. QED  BY <1>1, <1>3, <1>4, <1>5 DEF User

\* The ways in which the API server's objects change.
LEMMA Lifecycle ==
  ASSUME OrphanInv, [Next]_vars
  PROVE  \/ UNCHANGED cluster
         \/ \E s \in SAs : (\E o : Stores(s, o)) \/ Marks(s) \/ Vanishes(s)
<1>. TypeOK
  BY DEF OrphanInv, PolicyInv
<1>1. ASSUME NEW s \in SAs, User(s)
      PROVE  (\E o : Stores(s, o)) \/ Marks(s) \/ Vanishes(s)
  BY <1>1, UserLifecycle
<1>2. ASSUME NEW s \in SAs, Sync(s) \/ Resync(s) \/ Get(s) PROVE UNCHANGED cluster
  BY <1>2 DEF Sync, Resync, Get
<1>3. ASSUME GoogleCloud PROVE UNCHANGED cluster
  BY <1>3 DEF GoogleCloud, Revoke, GcpToggle, Foreign, Tamper
<1>4. ASSUME Tick \/ ApiError \/ Crash \/ UNCHANGED vars PROVE UNCHANGED cluster
  BY <1>4 DEF Tick, ApiError, Crash, cluster, vars
<1>5. ASSUME GetToAdd \/ GetToRemove \/ UpdateIamPolicy PROVE UNCHANGED cluster
  BY <1>5 DEF GetToAdd, GetToRemove, UpdateIamPolicy, SetPolicy
<1>6. ASSUME pc # "idle", NEW o, UpdateOk(o)
      PROVE  cur \in SAs /\ sa[cur] = snap /\ snap \in ServiceAccount /\ snap.live
  BY <1>6 DEF OrphanInv, PolicyInv, Working, TypeOK, SnapInv, Coherent, UpdateOk
<1>7. ASSUME AddFinalizer, ~UNCHANGED cluster PROVE \E s \in SAs : \E o : Stores(s, o)
  <2>. DEFINE o == [snap EXCEPT !.fin = TRUE]
  <2>1. pc = "addFinalizer" /\ UpdateOk(o) /\ Store(cur, o) /\ UNCHANGED <<pol, now, cache>>
    BY <1>7 DEF AddFinalizer, google
  <2>2. cur \in SAs /\ sa[cur] = snap /\ snap \in ServiceAccount /\ snap.live
    BY <1>6, <2>1
  <2>3. o \in ServiceAccount /\ o.live /\ o.deleting = snap.deleting /\ snap.deleting \in BOOLEAN
    BY <2>2 DEF ServiceAccount
  <2>. HIDE DEF o
  <2>4. Stores(cur, o)
    BY <1>7, <2>1, <2>2, <2>3 DEF Stores, Step
  <2>. QED  BY <2>2, <2>4
<1>8. ASSUME Annotate, ~UNCHANGED cluster PROVE \E s \in SAs : \E o : Stores(s, o)
  <2>. DEFINE o == [snap EXCEPT !.wi = snap.group]
  <2>1. pc = "annotate" /\ UpdateOk(o) /\ Store(cur, o) /\ UNCHANGED <<pol, now, cache>>
    BY <1>8 DEF Annotate, google
  <2>2. cur \in SAs /\ sa[cur] = snap /\ snap \in ServiceAccount /\ snap.live
    BY <1>6, <2>1
  <2>3. /\ o \in ServiceAccount /\ o.live /\ o.fin = snap.fin
        /\ o.deleting = snap.deleting /\ snap.deleting \in BOOLEAN
    BY <2>2 DEF ServiceAccount
  <2>. HIDE DEF o
  <2>4. Stores(cur, o)
    BY <1>8, <2>1, <2>2, <2>3 DEF Stores, Step
  <2>. QED  BY <2>2, <2>4
<1>9. ASSUME RemoveFinalizer, ~UNCHANGED cluster PROVE \E s \in SAs : Vanishes(s)
  <2>. DEFINE o == [snap EXCEPT !.fin = FALSE]
  <2>1. /\ pc = "removeFinalizer" /\ UpdateOk(o) /\ Vanish(cur) /\ Return
        /\ UNCHANGED <<pol, now, cache>>
    BY <1>9 DEF RemoveFinalizer, google
  <2>. HIDE DEF o
  <2>2. cur \in SAs
    BY <1>6, <2>1
  <2>3. Vanishes(cur)
    BY <2>1 DEF Vanishes, Return, Idle
  <2>. QED  BY <2>2, <2>3
<1>. QED
  BY <1>1, <1>2, <1>3, <1>4, <1>5, <1>7, <1>8, <1>9 DEF Next, Step

-----------------------------------------------------------------------------
(* Access is withdrawn from nobody who stays.                              *)

\* If s has the finalizer, then it is being deleted.
Going(s) == sa[s].live /\ sa[s].fin => sa[s].deleting

\* Whoever has seen a deletion can rely on it, although the ServiceAccount may
\* have been created anew since: the new one gets its finalizer only from the
\* reconciler, and only when the cache shows the new one.
GoingInv ==
  /\ \A s \in SAs : cache[s].live /\ cache[s].deleting => Going(s)
  /\ Removing => Going(cur)
  /\ pc = "addFinalizer" => snap.rv <= cache[cur].rv /\ ~snap.deleting

\* Nothing but a new finalizer ends this.
LEMMA GoingStays ==
  ASSUME OrphanInv, [Next]_vars, NEW t \in SAs, Going(t),
         ~(AddFinalizer /\ t = cur /\ sa[t] = snap)
  PROVE  Going(t)'
<1>. sa \in [SAs -> ServiceAccount]
  BY DEF OrphanInv, PolicyInv, TypeOK
<1>1. CASE UNCHANGED cluster
  BY <1>1 DEF cluster, Going
<1>2. ASSUME NEW s \in SAs, NEW o, Stores(s, o) PROVE Going(t)'
  <2>1. CASE s = t
    <3>1. sa'[t] = [o EXCEPT !.rv = sa[t].rv + 1] /\ o \in ServiceAccount
      BY <1>2, <2>1 DEF Stores, Store
    <3>2. sa'[t].live = o.live /\ sa'[t].fin = o.fin /\ sa'[t].deleting = o.deleting
      BY <3>1 DEF ServiceAccount
    <3>. QED  BY <1>2, <2>1, <3>2 DEF Stores, Going
  <2>2. CASE s # t
    BY <1>2, <2>2 DEF Stores, Store, Going
  <2>. QED  BY <2>1, <2>2
<1>3. ASSUME NEW s \in SAs, Marks(s) PROVE Going(t)'
  <2>1. CASE s = t
    <3>1. sa'[t].deleting
      BY <1>3, <2>1 DEF Marks, ServiceAccount
    <3>. QED  BY <3>1 DEF Going
  <2>2. CASE s # t
    BY <1>3, <2>2 DEF Marks, Going
  <2>. QED  BY <2>1, <2>2
<1>4. ASSUME NEW s \in SAs, Vanishes(s) PROVE Going(t)'
  BY <1>4 DEF Vanishes, Vanish, NoSA, Going
<1>. QED  BY <1>1, <1>2, <1>3, <1>4, Lifecycle

LEMMA GoingNext ==
  ASSUME OrphanInv, GoingInv, [Next]_vars
  PROVE  GoingInv'
<1>. /\ sa \in [SAs -> ServiceAccount] /\ cache \in [SAs -> ServiceAccount]
     /\ snap \in ServiceAccount
  BY DEF OrphanInv, PolicyInv, TypeOK
<1>0. /\ \A s \in SAs : cache[s].rv \in Nat /\ sa[s].rv \in Nat
      /\ snap.rv \in Nat
      /\ \A s \in SAs : Coherent(s, cache[s])
      /\ pc # "idle" => cur \in SAs
  BY DEF ServiceAccount, OrphanInv, CacheInv, PolicyInv, Working
<1>1. CASE AddFinalizer
  <2>1. pc = "addFinalizer" /\ cur \in SAs /\ cache' = cache
    BY <1>0, <1>1 DEF AddFinalizer
  <2>2. pc' \in {"getToAdd", "idle"}
    BY <1>1 DEF AddFinalizer, Goto, Requeue, Idle
  <2>3. ASSUME NEW s \in SAs, cache[s].live, cache[s].deleting PROVE Going(s)'
    <3>1. ~(s = cur /\ sa[s] = snap)
      <4>. SUFFICES ASSUME s = cur, sa[s] = snap PROVE FALSE
        OBVIOUS
      <4>1. snap.rv <= cache[s].rv /\ ~snap.deleting
        BY <2>1 DEF GoingInv
      <4>2. cache[s].rv <= snap.rv /\ (cache[s].rv = snap.rv => cache[s] = snap)
        BY <1>0 DEF Coherent
      <4>3. cache[s].rv = snap.rv
        BY <1>0, <4>1, <4>2
      <4>. QED  BY <2>3, <4>1, <4>2, <4>3
    <3>. QED  BY <2>3, <3>1, GoingStays DEF GoingInv
  <2>. QED  BY <2>1, <2>2, <2>3 DEF GoingInv, Removing
<1>2. CASE ~AddFinalizer
  <2>1. \A s \in SAs : Going(s) => Going(s)'
    BY <1>2, GoingStays
  <2>2. ASSUME UNCHANGED <<cache, pc, cur, snap>> PROVE GoingInv'
    BY <1>0, <2>1, <2>2 DEF GoingInv, Removing
  <2>3. ASSUME UNCHANGED cache, pc' = "idle" PROVE GoingInv'
    BY <2>1, <2>3 DEF GoingInv, Removing
  <2>4. ASSUME NEW s \in SAs, User(s) PROVE UNCHANGED <<cache, pc, cur, snap>>
    BY <2>4 DEF User, UserCreate, UserAnnotate, Impersonate, UserDelete, worker
  <2>5. ASSUME NEW s \in SAs, Resync(s) PROVE UNCHANGED <<cache, pc, cur, snap>>
    BY <2>5 DEF Resync, worker
  <2>6. ASSUME GoogleCloud \/ Tick \/ UNCHANGED vars PROVE UNCHANGED <<cache, pc, cur, snap>>
    BY <2>6 DEF GoogleCloud, Revoke, GcpToggle, Foreign, Tamper, Tick, worker, vars
  <2>7. ASSUME NEW s \in SAs, Sync(s) PROVE GoingInv'
    <3>1. /\ cache' = [cache EXCEPT ![s] = sa[s]]
          /\ UNCHANGED <<sa, pc, cur, snap>>
      BY <2>7 DEF Sync, worker, cluster
    <3>2. \A t \in SAs : cache[t].rv <= cache'[t].rv /\ cache'[t].rv \in Nat
      BY <1>0, <3>1 DEF Coherent
    <3>3. \A t \in SAs : cache'[t].live /\ cache'[t].deleting => Going(t)'
      BY <3>1 DEF GoingInv, Going
    <3>4. pc' = "addFinalizer" => snap'.rv <= cache'[cur'].rv /\ ~snap'.deleting
      BY <1>0, <3>1, <3>2 DEF GoingInv
    <3>. QED  BY <1>0, <2>1, <3>1, <3>3, <3>4 DEF GoingInv, Removing
  <2>8. ASSUME NEW s \in SAs, Get(s) PROVE GoingInv'
    <3>1. UNCHANGED <<sa, cache>>
      BY <2>8 DEF Get, cluster
    <3>2. CASE pc' = "idle"
      BY <2>3, <3>1, <3>2
    <3>3. CASE pc' # "idle"
      <4>1. pc' = Path(cache[s]) /\ cur' = s /\ snap' = cache[s]
        BY <2>8, <3>3 DEF Get, Idle
      <4>2. \/ pc' = "addFinalizer" /\ ~cache[s].deleting
            \/ pc' = "getToAdd"
            \/ pc' = "getToRemove" /\ cache[s].live /\ cache[s].deleting
        BY <3>3, <4>1 DEF Path
      <4>. QED  BY <1>0, <2>1, <3>1, <4>1, <4>2 DEF GoingInv, Removing
    <3>. QED  BY <3>2, <3>3
  <2>9. ASSUME ApiError PROVE GoingInv'
    BY <2>3, <2>9 DEF ApiError, Requeue, Idle
  <2>10. ASSUME Crash PROVE GoingInv'
    <3>1. cache' = sa /\ sa' = sa /\ pc' = "idle"
      BY <2>10 DEF Crash, Idle, cluster
    <3>. QED  BY <3>1 DEF GoingInv, Going, Removing
  <2>11. ASSUME Step PROVE GoingInv'
    <3>1. UNCHANGED cache /\ cur \in SAs
      BY <1>0, <2>11 DEF Step, AddFinalizer, GetToAdd, GetToRemove, UpdateIamPolicy, SetPolicy,
                         Annotate, RemoveFinalizer
    <3>2. \/ pc' = "idle"
          \/ pc' \in {"annotate", "setToAdd"}
          \/ Removing /\ Removing' /\ cur' = cur
      BY <1>2, <2>11 DEF Step, GetToAdd, GetToRemove, UpdateIamPolicy, SetPolicy,
            Annotate, RemoveFinalizer, Goto, Requeue, Return, Idle, Removing
    <3>3. CASE pc' \in {"annotate", "setToAdd"}
      BY <2>1, <3>1, <3>3 DEF GoingInv, Removing
    <3>4. CASE Removing /\ Removing' /\ cur' = cur
      BY <2>1, <3>1, <3>4 DEF GoingInv, Removing
    <3>. QED  BY <2>3, <3>1, <3>2, <3>3, <3>4
  <2>. QED
    BY <2>2, <2>4, <2>5, <2>6, <2>7, <2>8, <2>9, <2>10, <2>11 DEF Next
<1>. QED  BY <1>1, <1>2

-----------------------------------------------------------------------------
(* The refinement.                                                         *)

ImplInv == AccessInv /\ OrphanInv /\ GoingInv

LEMMA ImplInit == Init => ImplInv
<1>1. Init => GoingInv
  BY DEF Init, GoingInv, NoSA, Removing
<1>. QED  BY <1>1, AccessInit, OrphanInit DEF ImplInv

LEMMA ImplNext == ImplInv /\ [Next]_vars => ImplInv'
  BY AccessNext, OrphanNext, GoingNext DEF ImplInv

\* The images of the variables.
Phases == [s \in SAs |-> PhaseOf(sa[s])]
Strays == abandoned \cap (SAs \X Groups)
Accesses == [s \in SAs |-> [g \in Groups |-> AccessOf(s, g)]]

LEMMA SameAccess ==
  ASSUME UNCHANGED pol
  PROVE  UNCHANGED Accesses
  BY DEF Accesses, AccessOf, Bound

\* Writes of ServiceAccounts.
LEMMA StoresRefined ==
  ASSUME OrphanInv, NEW s \in SAs, NEW o, Stores(s, o)
  PROVE  GA!Write(s)
<1>. sa \in [SAs -> ServiceAccount] /\ o \in ServiceAccount
  BY DEF OrphanInv, PolicyInv, TypeOK, Stores
<1>1. /\ sa' = [sa EXCEPT ![s] = [o EXCEPT !.rv = sa[s].rv + 1]]
      /\ UNCHANGED <<pol, now>>
      /\ o.live /\ o.deleting = (sa[s].live /\ sa[s].deleting)
  BY DEF Stores, Store
<1>2. /\ sa'[s].live /\ sa'[s].deleting = o.deleting
      /\ \A t \in SAs \ {s} : sa'[t] = sa[t]
  BY <1>1 DEF ServiceAccount
<1>3. /\ \A t \in SAs \ {s} : PhaseOf(sa'[t]) = PhaseOf(sa[t])
      /\ PhaseOf(sa'[s]) = IF PhaseOf(sa[s]) = "absent" THEN "present" ELSE PhaseOf(sa[s])
  BY <1>1, <1>2 DEF PhaseOf
<1>4. Phases' = [Phases EXCEPT ![s] = IF @ = "absent" THEN "present" ELSE @]
  BY <1>3 DEF Phases
<1>5. accepted' \in GA!MayAdd(s, accepted)
  BY SubsetAssumption DEF Stores, Store, Entitled, GA!MayAdd
<1>6. Strays' \in GA!MayAdd(s, Strays)
  <2>1. abandoned' = abandoned \/ abandoned' = abandoned \cup {<<s, sa[s].group>>}
    BY DEF Stores, Store
  <2>2. CASE sa[s].group \in Groups
    <3>1. Strays' = Strays \/ Strays' = Strays \cup {<<s, sa[s].group>>}
      BY <2>1, <2>2 DEF Strays
    <3>. QED  BY <2>2, <3>1 DEF GA!MayAdd
  <2>3. CASE sa[s].group \notin Groups
    <3>1. Strays' = Strays
      BY <2>1, <2>3 DEF Strays
    <3>. QED  BY <3>1 DEF GA!MayAdd
  <2>. QED  BY <2>2, <2>3
<1>. QED
  BY <1>1, <1>4, <1>5, <1>6, SameAccess DEF GA!Write, Phases, Strays, Accesses

LEMMA MarksRefined ==
  ASSUME OrphanInv, NEW s \in SAs, Marks(s)
  PROVE  GA!Leave(s)
<1>. sa \in [SAs -> ServiceAccount]
  BY DEF OrphanInv, PolicyInv, TypeOK
<1>1. /\ sa'[s].live /\ sa'[s].deleting
      /\ \A t \in SAs \ {s} : sa'[t] = sa[t]
      /\ sa[s].live /\ ~sa[s].deleting
      /\ UNCHANGED <<abandoned, accepted, pol, now>>
  BY DEF Marks, ServiceAccount
<1>2. /\ \A t \in SAs \ {s} : PhaseOf(sa'[t]) = PhaseOf(sa[t])
      /\ PhaseOf(sa'[s]) = "leaving" /\ PhaseOf(sa[s]) = "present"
  BY <1>1 DEF PhaseOf
<1>3. Phases' = [Phases EXCEPT ![s] = "leaving"] /\ Phases[s] = "present"
  BY <1>2 DEF Phases
<1>. QED
  BY <1>1, <1>3, SameAccess DEF GA!Leave, Phases, Strays, Accesses

\* A ServiceAccount goes only when its binding has gone.
LEMMA VanishesRefined ==
  ASSUME OrphanInv, NoOrphanBinding', NEW s \in SAs, Vanishes(s)
  PROVE  GA!Go(s)
<1>. sa \in [SAs -> ServiceAccount]
  BY DEF OrphanInv, PolicyInv, TypeOK
<1>1. /\ sa' = [sa EXCEPT ![s] = NoSA(sa[s].rv + 1)]
      /\ UNCHANGED <<abandoned, accepted, pol, now>>
  BY DEF Vanishes, Vanish
<1>2. ~sa'[s].live /\ \A t \in SAs \ {s} : sa'[t] = sa[t]
  BY <1>1 DEF NoSA
<1>3. PhaseOf(sa'[s]) = "absent" /\ \A t \in SAs \ {s} : PhaseOf(sa'[t]) = PhaseOf(sa[t])
  BY <1>2 DEF PhaseOf
<1>4. Phases' = [Phases EXCEPT ![s] = "absent"]
  BY <1>3 DEF Phases
<1>5. ASSUME NEW g \in Groups, Accesses[s][g] # {} PROVE <<s, g>> \in Strays
  <2>1. Bound(s, g)
    BY <1>5 DEF Accesses, AccessOf
  <2>2. <<s, g>> \in abandoned
    BY <1>1, <1>2, <2>1 DEF NoOrphanBinding, Bound
  <2>. QED  BY <2>2 DEF Strays
<1>. QED
  BY <1>1, <1>4, <1>5, SameAccess DEF GA!Go, Phases, Strays, Accesses

\* Policies.  A Google service account that is deleted takes its bindings along.
LEMMA ToggleRefined ==
  ASSUME OrphanInv, NEW g \in Groups, GcpToggle(g)
  PROVE  GA!Close(g)
<1>. pol \in [Groups -> Policy]
  BY DEF OrphanInv, PolicyInv, TypeOK
<1>1. /\ pol' = [pol EXCEPT ![g] = EmptyPolicy(~pol[g].exists, pol[g].etag + 1)]
      /\ UNCHANGED <<sa, abandoned, accepted, now>>
  BY DEF GcpToggle, cluster
<1>2. ASSUME NEW s \in SAs PROVE AccessOf(s, g)' = {}
  BY <1>1 DEF EmptyPolicy, NoBinding, AccessOf, Bound
<1>3. ASSUME NEW s \in SAs, NEW h \in Groups \ {g} PROVE AccessOf(s, h)' = AccessOf(s, h)
  BY <1>1 DEF AccessOf, Bound
<1>4. Accesses' = [s \in SAs |-> [Accesses[s] EXCEPT ![g] = {}]]
  BY <1>2, <1>3 DEF Accesses
<1>. QED
  BY <1>1, <1>4 DEF GA!Close, Phases, Strays, Accesses

\* Others change nothing that counts as access.
LEMMA OthersRefined ==
  ASSUME OrphanInv, [Next]_vars, NEW g \in Groups, Foreign(g) \/ \E s \in SAs : Tamper(s, g)
  PROVE  UNCHANGED Accesses
<1>. pol \in [Groups -> Policy]
  BY DEF OrphanInv, PolicyInv, TypeOK
<1>1. ASSUME NEW t \in SAs, NEW h \in Groups
      PROVE  pol'[h].b[t].on = pol[h].b[t].on /\ pol'[h].b[t].until = pol[h].b[t].until
  <2>. pol[h] \in Policy /\ pol[h].b \in [SAs -> Binding] /\ pol[h].b[t] \in Binding
    BY DEF Policy
  <2>1. CASE Foreign(g)
    <3>1. pol'[h].b = pol[h].b
      BY <2>1 DEF Foreign, Policy
    <3>. QED  BY <3>1
  <2>2. ASSUME NEW s \in SAs, Tamper(s, g)
        PROVE  pol'[h].b[t] = pol[h].b[t] \/ pol'[h].b[t] = [pol[h].b[t] EXCEPT !.ok = FALSE]
    <3>1. CASE h = g /\ t = s
      BY <2>2, <3>1 DEF Tamper, Policy
    <3>2. CASE ~(h = g /\ t = s)
      BY <2>2, <3>2 DEF Tamper, Policy
    <3>. QED  BY <3>1, <3>2
  <2>. QED  BY <2>1, <2>2 DEF Binding
<1>. QED  BY <1>1 DEF Accesses, AccessOf, Bound

\* SetIamPolicy grants, withdraws, or changes nothing that counts.
LEMMA PolicyRefined ==
  ASSUME ImplInv, ImplInv', UpdateIamPolicy, EtagMatches(snap.group)
  PROVE  GA!Grant(cur, snap.group) \/ GA!Withdraw(cur, snap.group) \/ UNCHANGED Accesses
<1>0. PolicyInv /\ UNCHANGED <<sa, abandoned, accepted, now>>
  BY DEF ImplInv, OrphanInv, UpdateIamPolicy, SetPolicy, cluster
<1>1. PICK c \in SAs, h \in Groups : c = cur /\ h = snap.group
  BY <1>0, WrittenBack
<1>2. /\ \A g \in Groups \ {h} : pol'[g] = pol[g]
      /\ \A s \in SAs \ {c} : pol'[h].b[s] = pol[h].b[s]
      /\ \/ pc = "setToAdd" /\ pol'[h].b[c] = WantedBinding(snap)
         \/ pc = "setToRemove" /\ pol'[h].b[c] = NoBinding
  BY <1>0, <1>1, WrittenBack
<1>3. \A s \in SAs, g \in Groups : s # c \/ g # h => AccessOf(s, g)' = AccessOf(s, g)
  BY <1>2 DEF AccessOf, Bound
<1>4. Accesses' = [Accesses EXCEPT ![c][h] = AccessOf(c, h)']
  BY <1>2, <1>3 DEF Accesses
<1>5. CASE pc = "setToAdd" /\ pol'[h].b[c] = WantedBinding(snap)
  <2>. DEFINE limit == pol'[h].b[c].until
  <2>1. Bound(c, h)' /\ AccessOf(c, h)' = {limit} /\ Accesses'[c][h] = {limit}
    BY <1>2, <1>5 DEF WantedBinding, AccessOf, Bound, Accesses
  <2>2. <<c, h>> \in accepted
    BY <1>0, <1>2, <2>1 DEF ImplInv, AccessInv, BoundInv, BindingWasAccepted, Bound
  <2>3. h \in ReasonRequired => limit \in Nat /\ limit <= now + MaxDuration[h]
    BY <1>0, <1>2, <2>1 DEF ImplInv, AccessInv, BoundInv, LimitedAccess, Bound
  <2>4. sa[c].live \/ <<c, h>> \in abandoned
    BY <1>0, <1>2, <2>1 DEF ImplInv, OrphanInv, NoOrphanBinding, Bound
  <2>5. Phases[c] # "absent" \/ <<c, h>> \in Strays
    BY <1>2, <2>4 DEF Phases, PhaseOf, Strays
  <2>. HIDE DEF limit
  <2>6. GA!Grant(c, h)
    BY <1>0, <1>2, <1>4, <2>1, <2>2, <2>3, <2>5 DEF GA!Grant, Phases, Strays, Accesses
  <2>. QED  BY <1>1, <2>6
<1>6. CASE pc = "setToRemove" /\ pol'[h].b[c] = NoBinding
  <2>1. AccessOf(c, h)' = {}
    BY <1>6 DEF NoBinding, AccessOf, Bound
  <2>2. CASE ~Bound(c, h)
    <3>1. AccessOf(c, h) = {}
      BY <2>2 DEF AccessOf
    <3>. QED  BY <1>3, <2>1, <3>1 DEF Accesses
  <2>3. CASE Bound(c, h)
    <3>1. <<c, h>> \in abandoned \/ (sa[c].live /\ sa[c].fin)
      BY <1>2, <2>3 DEF ImplInv, OrphanInv, NoOrphanBinding
    <3>2. Going(c)
      BY <1>1, <1>6 DEF ImplInv, GoingInv, Removing
    <3>3. Phases[c] # "present" \/ <<c, h>> \in Strays
      BY <1>2, <3>1, <3>2 DEF Phases, PhaseOf, Strays, Going
    <3>4. GA!Withdraw(c, h)
      BY <1>0, <1>4, <2>1, <3>3 DEF GA!Withdraw, Phases, Strays, Accesses
    <3>. QED  BY <1>1, <3>4
  <2>. QED  BY <2>2, <2>3
<1>. QED  BY <1>2, <1>5, <1>6

LEMMA ClockTicks ==
  ASSUME [Next]_vars, now' # now
  PROVE  Tick
<1>1. ASSUME NEW s \in SAs, User(s) \/ Sync(s) \/ Resync(s) \/ Get(s) PROVE now' = now
  BY <1>1 DEF User, UserCreate, UserAnnotate, Impersonate, UserDelete, Sync, Resync, Get
<1>2. ASSUME GoogleCloud \/ ApiError \/ Crash \/ UNCHANGED vars PROVE now' = now
  BY <1>2 DEF GoogleCloud, Revoke, GcpToggle, Foreign, Tamper, ApiError, Crash, vars
<1>3. ASSUME Step PROVE now' = now
  BY <1>3 DEF Step, AddFinalizer, GetToAdd, GetToRemove, UpdateIamPolicy, SetPolicy, Annotate,
              RemoveFinalizer
<1>. QED  BY <1>1, <1>2, <1>3 DEF Next

images == <<Phases, accepted, Strays, Accesses, now>>

\* Every step of IamBinding is a step of GroupAccess, or leaves its variables.
LEMMA StepRefined ==
  ASSUME ImplInv, ImplInv', [Next]_vars
  PROVE  GA!Next \/ UNCHANGED images
<1>. OrphanInv /\ NoOrphanBinding' /\ PolicyInv
  BY DEF ImplInv, OrphanInv
<1>1. ASSUME NEW s \in SAs, NEW o, Stores(s, o) PROVE GA!Next
  BY <1>1, StoresRefined DEF GA!Next
<1>2. ASSUME NEW s \in SAs, Marks(s) PROVE GA!Next
  BY <1>2, MarksRefined DEF GA!Next
<1>3. ASSUME NEW s \in SAs, Vanishes(s) PROVE GA!Next
  BY <1>3, VanishesRefined DEF GA!Next
<1>4. ASSUME UNCHANGED cluster PROVE UNCHANGED <<Phases, accepted, Strays>>
  BY <1>4 DEF cluster, Phases, Strays
<1>5. CASE UNCHANGED cluster /\ now' # now
  <2>1. now' = now + 1 /\ UNCHANGED pol
    BY <1>5, ClockTicks DEF Tick, google
  <2>2. GA!Tick
    BY <1>4, <1>5, <2>1, SameAccess DEF GA!Tick, Phases, Strays, Accesses
  <2>. QED  BY <2>2 DEF GA!Next
<1>6. CASE UNCHANGED cluster /\ now' = now /\ UNCHANGED Accesses
  BY <1>4, <1>6 DEF images
<1>7. CASE UNCHANGED cluster /\ now' = now /\ pol' # pol
  <2>1. ASSUME NEW g \in Groups, GcpToggle(g) PROVE GA!Next
    BY <2>1, ToggleRefined DEF GA!Next
  <2>2. ASSUME NEW g \in Groups, Foreign(g) \/ \E s \in SAs : Tamper(s, g)
        PROVE  UNCHANGED Accesses
    BY <2>2, OthersRefined
  <2>3. ASSUME UpdateIamPolicy, EtagMatches(snap.group) PROVE GA!Next \/ UNCHANGED Accesses
    <3>1. cur \in SAs /\ snap.group \in Groups
      BY <2>3, WrittenBack
    <3>. QED  BY <2>3, <3>1, PolicyRefined DEF GA!Next
  <2>. QED  BY <1>6, <1>7, <2>1, <2>2, <2>3, PolicyChanges
<1>. QED  BY <1>1, <1>2, <1>3, <1>5, <1>6, <1>7, SameAccess, Lifecycle

\* ssbucketeer keeps the promise of GroupAccess: validate, Reconcile and the
\* finalizer together grant only what was accepted and for no longer than
\* allowed, withdraw it from no ServiceAccount that stays, and let none go
\* before its access is withdrawn.
THEOREM Implementation == Spec => ImplementsGroupAccess
<1>1. Init => GA!Init
  <2>. SUFFICES ASSUME Init PROVE GA!Init
    OBVIOUS
  <2>1. \A s \in SAs : PhaseOf(sa[s]) = "absent"
    BY DEF Init, NoSA, PhaseOf
  <2>2. \A s \in SAs, g \in Groups : AccessOf(s, g) = {}
    BY DEF Init, AccessOf, Bound, EmptyPolicy, NoBinding
  <2>. QED  BY <2>1, <2>2 DEF Init, GA!Init
<1>2. ImplInv /\ ImplInv' /\ [Next]_vars => [GA!Next]_images
  BY StepRefined
<1>3. ImplInv /\ [Next]_vars => ImplInv'
  BY ImplNext
<1>. QED
  BY <1>1, <1>2, <1>3, ImplInit, PTL
     DEF Spec, ImplementsGroupAccess, GA!Spec, images, Phases, Strays, Accesses
=============================================================================
