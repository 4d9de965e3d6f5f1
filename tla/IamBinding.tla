----------------------------- MODULE IamBinding -----------------------------
(***************************************************************************)
(* Impersonation of access groups: a Kubernetes ServiceAccount names a     *)
(* group in an annotation; the validating webhook lets only members of the *)
(* group write it; the ServiceAccountReconciler adds a binding for the     *)
(* ServiceAccount to the IAM policy of the group's Google service account  *)
(* and, before the ServiceAccount disappears, removes it again.            *)
(*                                                                         *)
(* The reconciler has one worker, reads through an informer cache that     *)
(* lags behind the API server, and changes a policy by reading it,         *)
(* editing the copy and writing the copy back with its etag.               *)
(***************************************************************************)
EXTENDS Integers

CONSTANTS
  SAs,             \* ServiceAccounts (namespaced names)
  UserSAs,         \* those in a namespace with the user prefix
  Groups,          \* values of the impersonate-group annotation
  Configured,      \* groups whose suffix matches a group configuration
  ReasonRequired,  \* groups whose configuration sets reasonRequired
  MaxDuration,     \* the maxDuration of each group's configuration
  Durations,       \* what a user writes into the duration annotation
  Reasons,         \* whether a user gives a reason
  Members,         \* who is a member of which group in the beginning
  NoKey,           \* no ServiceAccount
  NoGroup,         \* the annotation is absent
  NoDur,           \* the duration annotation is absent or empty
  BadDur,          \* the duration annotation does not parse
  Env,             \* the environment events that may happen
  MaxEvents,       \* how many of them may happen in one behaviour
  MaxTime          \* the last value of the clock

(***************************************************************************)
(* create, delete   a user creates or deletes a ServiceAccount             *)
(* impersonate      the StatefulSet webhook copies a StatefulSet's         *)
(*                  annotations to the ServiceAccount                      *)
(* annotate         a user writes the annotations                          *)
(* regroup          either of the two may change the group                 *)
(* revoke           a user loses a membership                              *)
(* gcp              a Google service account is deleted or created         *)
(* foreign          someone else adds a binding without a condition to a   *)
(*                  policy, or removes it                                  *)
(* tamper           someone else changes role or members of a binding      *)
(* apiError         a call of the reconciler fails                         *)
(* crash            the manager restarts                                   *)
(***************************************************************************)
EnvKinds ==
  {"create", "delete", "impersonate", "annotate", "regroup", "revoke", "gcp",
   "foreign", "tamper", "apiError", "crash"}

ASSUME SubsetAssumption ==
  /\ UserSAs \subseteq SAs
  /\ Configured \subseteq Groups
  /\ ReasonRequired \subseteq Configured
  /\ Members \subseteq SAs \X Groups
  /\ Env \subseteq EnvKinds
ASSUME NumberAssumption ==
  /\ Durations \subseteq Nat \cup {NoDur, BadDur}
  /\ Reasons \subseteq BOOLEAN
  /\ MaxDuration \in [Groups -> Nat]
  /\ MaxEvents \in Nat
  /\ MaxTime \in Nat
ASSUME AbsentAssumption ==
  /\ NoKey \notin SAs
  /\ NoGroup \notin Groups
  /\ NoDur \notin Nat
  /\ BadDur \notin Nat
  /\ NoDur # BadDur

VARIABLES
  sa,         \* the ServiceAccounts in the API server
  cache,      \* the manager's informer cache
  queue,      \* keys in the reconciler's work queue
  pc,         \* where the reconciler is
  cur,        \* the key it works on
  snap,       \* its copy of the ServiceAccount
  copy,       \* its edited copy of the policy
  pol,        \* the IAM policy of each group's Google service account
  member,     \* the directory's group memberships
  now,        \* the clock
  abandoned,  \* history: <<s, g>> where s had group g and was given another
  accepted,   \* history: <<s, g>> where s was entitled to g when it named g
  events      \* environment events left

cluster == <<sa, abandoned, accepted>>
google  == <<pol, member>>
worker  == <<pc, cur, snap, copy>>
vars    == <<sa, cache, queue, pc, cur, snap, copy, pol, member, now,
             abandoned, accepted, events>>

Duration == Nat \cup {NoDur, BadDur}

\* wi is the group whose Google service account the workload-identity
\* annotation names.
ServiceAccount ==
  [live: BOOLEAN, rv: Nat, created: Nat, group: Groups \cup {NoGroup},
   dur: Duration, reason: BOOLEAN, fin: BOOLEAN, deleting: BOOLEAN,
   wi: Groups \cup {NoGroup}]

\* A binding is identified by the ServiceAccount in its condition's title.
\* ok: role and members are right; until: the condition's time limit, NoDur
\* for the condition "true".
Binding == [on: BOOLEAN, ok: BOOLEAN, until: Nat \cup {NoDur}]

\* foreign: the policy holds a binding without a condition.
Policy == [exists: BOOLEAN, etag: Nat, foreign: BOOLEAN, b: [SAs -> Binding]]

NoSA(rv) ==
  [live |-> FALSE, rv |-> rv, created |-> 0, group |-> NoGroup, dur |-> NoDur,
   reason |-> FALSE, fin |-> FALSE, deleting |-> FALSE, wi |-> NoGroup]

NoBinding == [on |-> FALSE, ok |-> FALSE, until |-> NoDur]

EmptyPolicy(exists, etag) ==
  [exists |-> exists, etag |-> etag, foreign |-> FALSE,
   b |-> [s \in SAs |-> NoBinding]]

NoPolicy == EmptyPolicy(FALSE, 0)

Init ==
  /\ sa = [s \in SAs |-> NoSA(0)]
  /\ cache = [s \in SAs |-> NoSA(0)]
  /\ queue = {}
  /\ pc = "idle"
  /\ cur = NoKey
  /\ snap = NoSA(0)
  /\ copy = NoPolicy
  /\ pol = [g \in Groups |-> EmptyPolicy(TRUE, 0)]
  /\ member = Members
  /\ now = 0
  /\ abandoned = {}
  /\ accepted = {}
  /\ events = MaxEvents

Event(kind) ==
  /\ kind \in Env
  /\ events > 0
  /\ events' = events - 1

-----------------------------------------------------------------------------
(* The API server and the ServiceAccountValidator.                         *)

\* Mutant: the duration must be there but may be any.
JustifiedAnyDuration(o) == o.group \in ReasonRequired => o.dur \in Nat /\ o.reason

\* What validate demands beyond membership where a reason is required.
Justified(o) ==
  o.group \in ReasonRequired =>
    o.dur \in Nat /\ o.dur <= MaxDuration[o.group] /\ o.reason

\* The user of s may impersonate g.
Entitled(s, g) == g \in Configured /\ s \in UserSAs /\ <<s, g>> \in member

\* Mutant: updates are not validated.
ValidOnCreate(s, o) ==
  sa[s].live \/ o.group = NoGroup \/ (Entitled(s, o.group) /\ Justified(o))

\* Mutant: objects that are being deleted are validated too.
ValidEvenIfDeleting(s, o) ==
  o.group = NoGroup \/ (Entitled(s, o.group) /\ Justified(o))

\* validate accepts the new object o of ServiceAccount s.
Valid(s, o) ==
  o.group = NoGroup \/ o.deleting \/ (Entitled(s, o.group) /\ Justified(o))

\* The API server stores o as the new version of s.
Store(s, o) ==
  /\ Valid(s, o)
  /\ sa' = [sa EXCEPT ![s] = [o EXCEPT !.rv = sa[s].rv + 1]]
  /\ abandoned' = IF sa[s].live /\ o.group # sa[s].group
                  THEN abandoned \cup {<<s, sa[s].group>>} ELSE abandoned
  /\ accepted' = IF ~o.deleting /\ Entitled(s, o.group)
                 THEN accepted \cup {<<s, o.group>>} ELSE accepted

\* The object is gone.  A later one of the same name goes on with its rv.
Vanish(s) ==
  /\ sa' = [sa EXCEPT ![s] = NoSA(sa[s].rv + 1)]
  /\ UNCHANGED <<abandoned, accepted>>

UserCreate(s, g, d, reason) ==
  /\ ~sa[s].live
  /\ Event("create")
  /\ Store(s, [NoSA(0) EXCEPT !.live = TRUE, !.created = now, !.group = g,
                              !.dur = d, !.reason = reason])
  /\ UNCHANGED <<cache, queue, worker, google, now>>

\* A user's update keeps the finalizer.
UserAnnotate(s, g, d, reason) ==
  /\ sa[s].live
  /\ g = sa[s].group \/ "regroup" \in Env
  /\ Event("annotate")
  /\ Store(s, [sa[s] EXCEPT !.group = g, !.dur = d, !.reason = reason])
  /\ UNCHANGED <<cache, queue, worker, google, now>>

\* The annotations of a StatefulSet for group g.  The duration is copied only
\* where a reason is required; what is there already stays otherwise.
Annotated(o, g, d, reason) ==
  [o EXCEPT !.group = g, !.reason = reason,
            !.dur = IF g \in ReasonRequired THEN d ELSE o.dur]

\* handleServiceAccount: the object is read from the cache; its Update
\* conflicts, and the StatefulSet is denied, unless that was the current one.
Impersonate(s, g, d, reason) ==
  /\ sa[s].live
  /\ g \in Configured
  /\ g = sa[s].group \/ "regroup" \in Env
  /\ Annotated(sa[s], g, d, reason) # sa[s]
  /\ Event("impersonate")
  /\ Store(s, Annotated(sa[s], g, d, reason))
  /\ UNCHANGED <<cache, queue, worker, google, now>>

UserDelete(s) ==
  /\ sa[s].live
  /\ ~sa[s].deleting
  /\ Event("delete")
  /\ \/ sa[s].fin /\ sa' = [sa EXCEPT ![s].deleting = TRUE, ![s].rv = @ + 1]
        /\ UNCHANGED <<abandoned, accepted>>
     \/ ~sa[s].fin /\ Vanish(s)
  /\ UNCHANGED <<cache, queue, worker, google, now>>

\* The informer; a change puts the key into the work queue.
Sync(s) ==
  /\ cache[s] # sa[s]
  /\ cache' = [cache EXCEPT ![s] = sa[s]]
  /\ queue' = queue \cup {s}
  /\ UNCHANGED <<cluster, worker, google, now, events>>

\* The periodic resync of the informer.
Resync(s) ==
  /\ cache[s].live
  /\ s \notin queue
  /\ queue' = queue \cup {s}
  /\ UNCHANGED <<cluster, cache, worker, google, now, events>>

Tick ==
  /\ now < MaxTime
  /\ now' = now + 1
  /\ UNCHANGED <<cluster, cache, queue, worker, google, events>>

-----------------------------------------------------------------------------
(* Google Cloud.                                                           *)

Revoke(s, g) ==
  /\ <<s, g>> \in member
  /\ Event("revoke")
  /\ member' = member \ {<<s, g>>}
  /\ UNCHANGED <<cluster, cache, queue, worker, pol, now>>

GcpToggle(g) ==
  /\ Event("gcp")
  /\ pol' = [pol EXCEPT ![g] = EmptyPolicy(~pol[g].exists, pol[g].etag + 1)]
  /\ UNCHANGED <<cluster, cache, queue, worker, member, now>>

Foreign(g) ==
  /\ pol[g].exists
  /\ Event("foreign")
  /\ pol' = [pol EXCEPT ![g].foreign = ~pol[g].foreign, ![g].etag = @ + 1]
  /\ UNCHANGED <<cluster, cache, queue, worker, member, now>>

Tamper(s, g) ==
  /\ pol[g].b[s].on
  /\ pol[g].b[s].ok
  /\ Event("tamper")
  /\ pol' = [pol EXCEPT ![g].b[s].ok = FALSE, ![g].etag = @ + 1]
  /\ UNCHANGED <<cluster, cache, queue, worker, member, now>>

-----------------------------------------------------------------------------
(* The ServiceAccountReconciler.                                           *)

\* Between two calls of Reconcile the worker holds nothing.
Idle == pc' = "idle" /\ cur' = NoKey /\ snap' = NoSA(0) /\ copy' = NoPolicy

Goto(l) == pc' = l /\ UNCHANGED <<queue, cur>>
Return  == Idle /\ UNCHANGED queue
Requeue == Idle /\ queue' = queue \cup {cur}

\* Mutant: the binding is added before the finalizer.
PathWithoutFinalizer(o) ==
  IF ~o.live \/ o.group = NoGroup THEN "idle"
  ELSE IF ~o.deleting THEN "getToAdd"
  ELSE (IF o.fin THEN "getToRemove" ELSE "idle")

\* Mutant: a ServiceAccount without the workload-identity annotation is taken
\* to have no binding.
PathByAnnotation(o) ==
  IF ~o.live \/ o.group = NoGroup THEN "idle"
  ELSE IF ~o.deleting THEN (IF o.fin THEN "getToAdd" ELSE "addFinalizer")
  ELSE IF ~o.fin THEN "idle"
  ELSE (IF o.wi = o.group THEN "getToRemove" ELSE "removeFinalizer")

\* Where Reconcile goes with the object it has read.
Path(o) ==
  IF ~o.live \/ o.group = NoGroup THEN "idle"
  ELSE IF ~o.deleting THEN (IF o.fin THEN "getToAdd" ELSE "addFinalizer")
  ELSE (IF o.fin THEN "getToRemove" ELSE "idle")

Get(s) ==
  /\ pc = "idle"
  /\ s \in queue
  /\ queue' = queue \ {s}
  /\ \/ Path(cache[s]) = "idle" /\ Idle
     \/ /\ Path(cache[s]) # "idle"
        /\ pc' = Path(cache[s])
        /\ cur' = s
        /\ snap' = cache[s]
        /\ UNCHANGED copy
  /\ UNCHANGED <<cluster, cache, google, now, events>>

\* The API server takes an Update of the reconciler's copy only with the
\* current resourceVersion, and the validator sees it like any other.
UpdateOk(o) == sa[cur].live /\ sa[cur].rv = snap.rv /\ Valid(cur, o)

AddFinalizer ==
  LET o == [snap EXCEPT !.fin = TRUE]
  IN  /\ pc = "addFinalizer"
      /\ \/ /\ UpdateOk(o)
            /\ Store(cur, o)
            /\ snap' = [o EXCEPT !.rv = snap.rv + 1]
            /\ Goto("getToAdd")
            /\ UNCHANGED copy
         \/ ~UpdateOk(o) /\ Requeue /\ UNCHANGED cluster
      /\ UNCHANGED <<cache, google, now, events>>

\* Mutant: the duration is counted backwards.
WantedBindingBackwards(o) ==
  [on |-> TRUE, ok |-> TRUE,
   until |-> IF o.dur = NoDur THEN NoDur ELSE o.created - o.dur]

\* The binding that handleGcpSa wants for ServiceAccount o.
WantedBinding(o) ==
  [on |-> TRUE, ok |-> TRUE,
   until |-> IF o.dur = NoDur THEN NoDur ELSE o.created + o.dur]

\* Mutant: a binding that is there is taken to be correct.
EnsureSomeBinding(b, wanted) == IF b.on THEN b ELSE wanted

\* A missing binding is added, one that differs in any part is replaced.
EnsureCorrectBinding(b, wanted) == IF b.on /\ b = wanted THEN b ELSE wanted

\* handleGcpSa up to ensureCorrectBinding.  A service account that does not
\* exist is skipped.  The search panics at a binding without a condition,
\* unless it meets the ServiceAccount's own binding first.
GetToAdd ==
  LET p == pol[snap.group]
      q == [p EXCEPT !.b[cur] = EnsureCorrectBinding(@, WantedBinding(snap))]
  IN  /\ pc = "getToAdd"
      /\ \/ ~p.exists /\ Goto("annotate") /\ UNCHANGED <<snap, copy>>
         \/ p.exists /\ (snap.dur = BadDur \/ p.foreign) /\ Requeue
         \/ /\ p.exists /\ snap.dur # BadDur /\ (p.foreign => p.b[cur].on)
            /\ \/ q = p /\ Goto("annotate") /\ UNCHANGED copy
               \/ q # p /\ Goto("setToAdd") /\ copy' = q
            /\ UNCHANGED snap
      /\ UNCHANGED <<cluster, cache, google, now, events>>

\* removeIamBinding up to SetIamPolicy: it looks at every binding.
GetToRemove ==
  LET p == pol[snap.group]
  IN  /\ pc = "getToRemove"
      /\ \/ /\ ~p.exists \/ (~p.foreign /\ ~p.b[cur].on)
            /\ Goto("removeFinalizer")
            /\ UNCHANGED <<snap, copy>>
         \/ p.exists /\ p.foreign /\ Requeue
         \/ /\ p.exists /\ ~p.foreign /\ p.b[cur].on
            /\ copy' = [p EXCEPT !.b[cur] = NoBinding]
            /\ Goto("setToRemove")
            /\ UNCHANGED snap
      /\ UNCHANGED <<cluster, cache, google, now, events>>

\* SetIamPolicy takes the copy if the policy still has its etag.
EtagMatches(g) == pol[g].exists /\ pol[g].etag = copy.etag

\* Mutant: the policy is written without its etag.
SetPolicyBlindly(from, to) ==
  LET g == snap.group
  IN  /\ pc = from
      /\ pol[g].exists
      /\ pol' = [pol EXCEPT ![g] = [copy EXCEPT !.etag = pol[g].etag + 1]]
      /\ Goto(to)
      /\ copy' = NoPolicy
      /\ UNCHANGED <<cluster, cache, snap, member, now, events>>

\* updateIamPolicy from SetIamPolicy on.
SetPolicy(from, to) ==
  LET g == snap.group
  IN  /\ pc = from
      /\ \/ /\ EtagMatches(g)
            /\ pol' = [pol EXCEPT ![g] = [copy EXCEPT !.etag = pol[g].etag + 1]]
            /\ Goto(to)
            /\ copy' = NoPolicy
            /\ UNCHANGED snap
         \/ ~EtagMatches(g) /\ Requeue /\ UNCHANGED pol
      /\ UNCHANGED <<cluster, cache, member, now, events>>

UpdateIamPolicy ==
  SetPolicy("setToAdd", "annotate") \/ SetPolicy("setToRemove", "removeFinalizer")

\* The workload-identity annotation.
Annotate ==
  LET o == [snap EXCEPT !.wi = snap.group]
  IN  /\ pc = "annotate"
      /\ \/ snap.wi = snap.group /\ Return /\ UNCHANGED cluster
         \/ snap.wi # snap.group /\ UpdateOk(o) /\ Store(cur, o) /\ Return
         \/ snap.wi # snap.group /\ ~UpdateOk(o) /\ Requeue /\ UNCHANGED cluster
      /\ UNCHANGED <<cache, google, now, events>>

\* Without its last finalizer a ServiceAccount that is being deleted goes.
RemoveFinalizer ==
  LET o == [snap EXCEPT !.fin = FALSE]
  IN  /\ pc = "removeFinalizer"
      /\ \/ UpdateOk(o) /\ Vanish(cur) /\ Return
         \/ ~UpdateOk(o) /\ Requeue /\ UNCHANGED cluster
      /\ UNCHANGED <<cache, google, now, events>>

Step ==
  \/ AddFinalizer \/ GetToAdd \/ GetToRemove \/ UpdateIamPolicy \/ Annotate
  \/ RemoveFinalizer

\* An error ends Reconcile and requeues the key.
ApiError ==
  /\ pc # "idle"
  /\ Event("apiError")
  /\ Requeue
  /\ UNCHANGED <<cluster, cache, google, now>>

\* After a restart the informer lists everything anew.
Crash ==
  /\ Event("crash")
  /\ cache' = sa
  /\ queue' = {s \in SAs : sa[s].live}
  /\ Idle
  /\ UNCHANGED <<cluster, google, now>>

-----------------------------------------------------------------------------
User(s) ==
  \/ \E g \in Groups \cup {NoGroup}, d \in Durations, reason \in Reasons :
       UserCreate(s, g, d, reason) \/ UserAnnotate(s, g, d, reason)
         \/ Impersonate(s, g, d, reason)
  \/ UserDelete(s)

GoogleCloud ==
  \E g \in Groups :
    \/ GcpToggle(g) \/ Foreign(g)
    \/ \E s \in SAs : Revoke(s, g) \/ Tamper(s, g)

Next ==
  \/ \E s \in SAs : User(s) \/ Sync(s) \/ Resync(s) \/ Get(s)
  \/ GoogleCloud
  \/ Step
  \/ Tick \/ ApiError \/ Crash

(***************************************************************************)
(* The informer delivers and resyncs; the worker goes on; the work queue   *)
(* is first in, first out and a failing key waits its back-off, so that no *)
(* key is passed over for ever (strong fairness of Get, which is enabled   *)
(* only between two reconciliations).                                      *)
(***************************************************************************)
Fairness ==
  /\ \A s \in SAs : WF_vars(Sync(s)) /\ WF_vars(Resync(s)) /\ SF_vars(Get(s))
  /\ WF_vars(Step)

Spec == Init /\ [][Next]_vars

FairSpec == Spec /\ Fairness

-----------------------------------------------------------------------------
(* Properties.                                                             *)

\* The objects have their types, wherever a copy of them is held.
TypeOK ==
  /\ sa \in [SAs -> ServiceAccount]
  /\ cache \in [SAs -> ServiceAccount]
  /\ queue \subseteq SAs
  /\ pc \in {"idle", "addFinalizer", "getToAdd", "setToAdd", "annotate",
             "getToRemove", "setToRemove", "removeFinalizer"}
  /\ cur \in SAs \cup {NoKey}
  /\ snap \in ServiceAccount
  /\ copy \in Policy
  /\ pol \in [Groups -> Policy]
  /\ member \subseteq SAs \X Groups
  /\ now \in 0..MaxTime
  /\ abandoned \subseteq SAs \X (Groups \cup {NoGroup})
  /\ accepted \subseteq SAs \X Groups
  /\ events \in 0..MaxEvents

Bound(s, g) == pol[g].b[s].on

\* A binding exists only while its ServiceAccount does, names that group and
\* holds the finalizer that makes Reconcile remove the binding first; the one
\* exception is a ServiceAccount that was given another group.
NoOrphanBinding ==
  \A s \in SAs, g \in Groups :
    Bound(s, g) => \/ <<s, g>> \in abandoned
                   \/ sa[s].live /\ sa[s].fin /\ sa[s].group = g

\* Where a reason is required, no binding outlasts the configured maximum,
\* counted from now: what the validator accepted is what the reconciler grants.
LimitedAccess ==
  \A s \in SAs, g \in ReasonRequired :
    Bound(s, g) => /\ pol[g].b[s].until \in Nat
                   /\ pol[g].b[s].until <= now + MaxDuration[g]

\* A binding exists only for a group that the ServiceAccount's user was
\* entitled to when the ServiceAccount named it, although the validator does
\* not look at objects that are being deleted and the cache is stale.
BindingWasAccepted ==
  \A s \in SAs, g \in Groups : Bound(s, g) => <<s, g>> \in accepted

\* Writing a policy back changes no binding but the one of the ServiceAccount
\* at hand, whatever others have changed in the meantime.
OnlyOwnBinding ==
  [][(pc \in {"setToAdd", "setToRemove"} /\ pc' # pc) =>
       \A g \in Groups :
         /\ pol'[g].foreign = pol[g].foreign
         /\ \A s \in SAs \ {cur} : pol'[g].b[s] = pol[g].b[s] ]_vars

\* A ServiceAccount with a group that is being deleted goes, even if its user
\* has lost the membership, unless the group's policy holds a binding without
\* a condition.
DeletionCompletes ==
  \A s \in SAs, g \in Groups :
    (sa[s].live /\ sa[s].deleting /\ sa[s].group = g) ~>
      (~sa[s].live \/ sa[s].group # g \/ pol[g].foreign)

\* The reconciler has what it needs to grant s its group g.
Grantable(s, g) ==
  /\ sa[s].live /\ ~sa[s].deleting /\ sa[s].group = g /\ sa[s].dur # BadDur
  /\ <<s, g>> \in member
  /\ pol[g].exists /\ ~pol[g].foreign

\* A ServiceAccount that may have its group gets the binding it asks for and
\* the workload-identity annotation.
BindingEstablished ==
  \A s \in SAs, g \in Groups :
    Grantable(s, g) ~>
      \/ ~Grantable(s, g)
      \/ pol[g].b[s] = WantedBinding(sa[s]) /\ sa[s].wi = g

\* The states of GroupAccess.
PhaseOf(o) == IF ~o.live THEN "absent" ELSE IF o.deleting THEN "leaving" ELSE "present"

AccessOf(s, g) == IF Bound(s, g) THEN {pol[g].b[s].until} ELSE {}

GA == INSTANCE GroupAccess WITH
  phase  <- [s \in SAs |-> PhaseOf(sa[s])],
  strays <- abandoned \cap (SAs \X Groups),
  access <- [s \in SAs |-> [g \in Groups |-> AccessOf(s, g)]]

\* Validator, finalizer, policy writes and informer cache together implement
\* GroupAccess: besides the invariants above, access is taken from a
\* ServiceAccount only when it is being deleted, although Reconcile decides
\* that on a cached copy that may be an earlier object's of the same name.
ImplementsGroupAccess == GA!Spec
=============================================================================
