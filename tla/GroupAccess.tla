---------------------------- MODULE GroupAccess ----------------------------
(***************************************************************************)
(* What ssbucketeer promises about access to groups: a ServiceAccount gets *)
(* access only to groups accepted for it and no longer than allowed, keeps *)
(* it while it is there, and does not go before its access has.  The only  *)
(* exception is a stray, the access of a ServiceAccount that was given     *)
(* another group.                                                          *)
(***************************************************************************)
EXTENDS Integers

CONSTANTS SAs, Groups, ReasonRequired, MaxDuration

VARIABLES
  phase,     \* each ServiceAccount is absent, present or leaving
  accepted,  \* the pairs <<s, g>> that were accepted
  strays,    \* the pairs <<s, g>> where s was given another group than g
  access,    \* access[s][g] holds the time limit of s's access to g, if any
  now        \* the time

Init ==
  /\ phase = [s \in SAs |-> "absent"]
  /\ accepted = {}
  /\ strays = {}
  /\ access = [s \in SAs |-> [g \in Groups |-> {}]]
  /\ now = 0

\* The set, or the set with one pair of s more.
MayAdd(s, pairs) == {pairs} \cup {pairs \cup {<<s, g>>} : g \in Groups}

\* s is created or updated.
Write(s) ==
  /\ phase' = [phase EXCEPT ![s] = IF @ = "absent" THEN "present" ELSE @]
  /\ accepted' \in MayAdd(s, accepted)
  /\ strays' \in MayAdd(s, strays)
  /\ UNCHANGED <<access, now>>

Leave(s) ==
  /\ phase[s] = "present"
  /\ phase' = [phase EXCEPT ![s] = "leaving"]
  /\ UNCHANGED <<accepted, strays, access, now>>

Go(s) ==
  /\ \A g \in Groups : access[s][g] # {} => <<s, g>> \in strays
  /\ phase' = [phase EXCEPT ![s] = "absent"]
  /\ UNCHANGED <<accepted, strays, access, now>>

Grant(s, g) ==
  /\ <<s, g>> \in accepted
  /\ phase[s] # "absent" \/ <<s, g>> \in strays
  /\ \E limit \in access'[s][g] :
       /\ g \in ReasonRequired => limit \in Nat /\ limit <= now + MaxDuration[g]
       /\ access' = [access EXCEPT ![s][g] = {limit}]
  /\ UNCHANGED <<phase, accepted, strays, now>>

Withdraw(s, g) ==
  /\ phase[s] # "present" \/ <<s, g>> \in strays
  /\ access' = [access EXCEPT ![s][g] = {}]
  /\ UNCHANGED <<phase, accepted, strays, now>>

\* The group's Google service account is deleted.
Close(g) ==
  /\ access' = [s \in SAs |-> [access[s] EXCEPT ![g] = {}]]
  /\ UNCHANGED <<phase, accepted, strays, now>>

Tick == now' = now + 1 /\ UNCHANGED <<phase, accepted, strays, access>>

Next ==
  \/ \E s \in SAs :
       \/ Write(s) \/ Leave(s) \/ Go(s)
       \/ \E g \in Groups : Grant(s, g) \/ Withdraw(s, g)
  \/ \E g \in Groups : Close(g)
  \/ Tick

Spec == Init /\ [][Next]_<<phase, accepted, strays, access, now>>
=============================================================================
