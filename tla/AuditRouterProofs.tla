------------------------- MODULE AuditRouterProofs -------------------------
(***************************************************************************)
(* Proofs about AuditRouter, for any number of handlers that race on the   *)
(* ring, any window and any number of sinks.                               *)
(***************************************************************************)
EXTENDS AuditRouter, TLAPS, SequenceTheorems

\* A handler that is not idle has a payload.
Busy == \A h \in Handlers : pc[h] # "idle" => arg[h] \in Payloads

TypeInv == TypeOK /\ Busy

LEMMA SlotFacts ==
  /\ 0 \in Slots
  /\ \A j \in Slots : NextSlot(j) \in Slots
  /\ \A j \in Slots : ~(j >= LastSlot) => j + 1 \in Slots
BY WindowAssumption, Z3 DEF Slots, NextSlot, LastSlot

LEMMA RestartType ==
  ASSUME Restart
  PROVE  /\ slot' \in [Slots -> Payloads \cup {Empty, Torn}]
         /\ idx' \in Slots
         /\ pc' = [h \in Handlers |-> "idle"]
         /\ arg' \in [Handlers -> Payloads \cup {Empty}]
         /\ i' \in [Handlers -> Slots]
         /\ sink' \in [Handlers -> 1..(NSinks + 1)]
         /\ buffer' \in [Sinks -> SUBSET Payloads]
         /\ tried' = {} /\ suppressed' = {} /\ raced' = FALSE
BY SlotFacts, SinksAssumption DEF Restart, EmptyRing, NoBuffer

LEMMA EventType ==
  ASSUME TypeOK, NEW k, Event(k)
  PROVE  events' \in 0..MaxEvents
BY EnvAssumption DEF TypeOK, Event

LEMMA LeaveType ==
  ASSUME TypeInv, NEW h \in Handlers, Leave(h)
  PROVE  /\ pc' \in [Handlers -> {"idle", "scan", "index", "slot", "bump", "store", "sinks"}]
         /\ arg' \in [Handlers -> Payloads \cup {Empty}]
         /\ i' \in [Handlers -> Slots]
         /\ sink' \in [Handlers -> 1..(NSinks + 1)]
         /\ Busy'
BY SlotFacts, SinksAssumption DEF TypeInv, TypeOK, Busy, Leave

\* Types are kept by all that RecordAll does.
LEMMA HandleType ==
  ASSUME TypeInv, NEW h \in Handlers, Handle(h)
  PROVE  TypeInv'
<1>1. CASE Miss(h)
  BY <1>1, SlotFacts DEF TypeInv, TypeOK, Busy, Miss, Goto, ring, sinks
<1>2. CASE Hit(h)
  <2>1. arg[h] \in Payloads
    BY <1>2 DEF Hit, TypeInv, Busy
  <2>. QED  BY <1>2, <2>1, LeaveType DEF TypeInv, TypeOK, Hit, ring, sinks
<1>3. CASE Panic(h)
  BY <1>3, LeaveType DEF TypeInv, TypeOK, Panic, ring, sinks
<1>4. CASE ReadIndex(h)
  BY <1>4 DEF TypeInv, TypeOK, Busy, ReadIndex, Goto, ring, sinks
<1>5. CASE WriteSlot(h)
  BY <1>5 DEF TypeInv, TypeOK, Busy, WriteSlot, Goto, sinks
<1>6. CASE RereadIndex(h)
  BY <1>6 DEF TypeInv, TypeOK, Busy, RereadIndex, Goto, ring, sinks
<1>7. CASE WriteIndex(h)
  BY <1>7, SlotFacts DEF TypeInv, TypeOK, Busy, WriteIndex, Goto, sinks
<1>8. CASE Record(h)
  <2>1. arg[h] \in Payloads /\ sink[h] \in Sinks
    BY <1>8 DEF Record, TypeInv, Busy
  <2>2. sink' \in [Handlers -> 1..(NSinks + 1)]
    BY <1>8, <2>1, SinksAssumption DEF Record, TypeInv, TypeOK, Sinks
  <2>3. buffer' \in [Sinks -> SUBSET Payloads] /\ stored' \in [Sinks -> SUBSET Payloads]
    BY <1>8, <2>1 DEF Record, Deliver, Fail, TypeInv, TypeOK
  <2>4. lost' \subseteq Payloads \X Sinks /\ tried' \subseteq Payloads \X Sinks
    BY <1>8, <2>1 DEF Record, Fail, TypeInv, TypeOK
  <2>5. events' \in 0..MaxEvents
    BY <1>8, EventType DEF Record, Fail, TypeInv, TypeOK
  <2>. QED  BY <1>8, <2>2, <2>3, <2>4, <2>5 DEF Record, TypeInv, TypeOK, Busy, ring
<1>9. CASE Finish(h)
  <2>1. arg[h] \in Payloads
    BY <1>9 DEF Finish, TypeInv, Busy
  <2>. QED  BY <1>9, <2>1, LeaveType DEF TypeInv, TypeOK, Finish, ring, sinks
<1>. QED  BY <1>1, <1>2, <1>3, <1>4, <1>5, <1>6, <1>7, <1>8, <1>9 DEF Handle

LEMMA TypeStep ==
  ASSUME TypeInv, [Next]_vars
  PROVE  TypeInv'
<1>1. ASSUME NEW h \in Handlers, NEW p \in Payloads, Request(h, p)
      PROVE  TypeInv'
  BY <1>1, EventType DEF TypeInv, TypeOK, Busy, Request, Goto, ring, sinks
<1>2. ASSUME NEW h \in Handlers, Handle(h)
      PROVE  TypeInv'
  BY <1>2, HandleType
<1>3. ASSUME NEW k \in Sinks, BackgroundFlush(k)
      PROVE  TypeInv'
  BY <1>3 DEF TypeInv, TypeOK, Busy, BackgroundFlush, Flushed, ring, handler
<1>4. CASE Stop
  <2>1. stored' \in [Sinks -> SUBSET Payloads]
    BY <1>4 DEF Stop, Flushed, TypeInv, TypeOK
  <2>. QED  BY <1>4, <2>1, RestartType, EventType DEF Stop, TypeInv, TypeOK, Busy
<1>5. CASE Crash
  BY <1>5, RestartType, EventType DEF Crash, TypeInv, TypeOK, Busy
<1>6. CASE UNCHANGED vars
  BY <1>6 DEF vars, TypeInv, TypeOK, Busy
<1>. QED  BY <1>1, <1>2, <1>3, <1>4, <1>5, <1>6 DEF Next

LEMMA TypeInit == Init => TypeInv
<1>. SUFFICES ASSUME Init  PROVE TypeInv
  OBVIOUS
<1>1. raced \in BOOLEAN
  BY DEF Init
<1>. QED
  BY <1>1, SlotFacts, SinksAssumption, EnvAssumption
  DEF Init, TypeInv, TypeOK, Busy, EmptyRing, NoBuffer

\* The index of the ring stays in range and the ring holds payloads or nothing,
\* for any races between handlers in RecordAll, which takes no lock.
THEOREM TypeCorrect == Spec => []TypeOK
<1>1. TypeInv /\ [Next]_vars => TypeInv'
  BY TypeStep
<1>2. TypeInv => TypeOK
  BY DEF TypeInv
<1>. QED  BY <1>1, <1>2, TypeInit, PTL DEF Spec

-----------------------------------------------------------------------------
(* No payload is dropped that nobody handles.                              *)

\* Payload p is with every sink, or on the way.
Handled(p) ==
  \/ \E h \in Handlers : Delivering(h, p)
  \/ \A k \in Sinks : <<p, k>> \in tried

\* A handler that is at a sink has been at those before it.
LoopInv ==
  \A h \in Handlers : pc[h] = "sinks" =>
    \A k \in Sinks : k < sink[h] => <<arg[h], k>> \in tried

\* What is in the ring is handled: hence what is dropped for being there is.
RingInv ==
  /\ \A h \in Handlers : pc[h] # "sinks" => sink[h] = 1
  /\ LoopInv
  /\ \A j \in Slots : slot[j] \in Payloads => Handled(slot[j])
  /\ \A p \in suppressed : Handled(p)

TriedInv == TypeInv /\ RingInv

\* What is handled stays so while tried grows and every handler that is
\* delivering goes on or is through with the sinks.
LEMMA HandledStays ==
  ASSUME TypeInv, LoopInv, NEW p, Handled(p),
         tried \subseteq tried',
         \A h \in Handlers :
           \/ pc[h] = "sinks" /\ sink[h] = NSinks + 1
           \/ Delivering(h, p) => Delivering(h, p)'
  PROVE  Handled(p)'
<1>1. CASE \A k \in Sinks : <<p, k>> \in tried
  BY <1>1 DEF Handled
<1>2. CASE \E h \in Handlers : Delivering(h, p)
  <2>1. PICK h \in Handlers : Delivering(h, p)
    BY <1>2
  <2>2. CASE Delivering(h, p)'
    BY <2>2 DEF Handled
  <2>3. CASE pc[h] = "sinks" /\ sink[h] = NSinks + 1
    <3>1. \A k \in Sinks : k < sink[h]
      BY <2>3, SinksAssumption DEF Sinks
    <3>2. \A k \in Sinks : <<p, k>> \in tried
      BY <2>1, <2>3, <3>1 DEF LoopInv, Delivering
    <3>. QED  BY <3>2 DEF Handled
  <2>. QED  BY <2>1, <2>2, <2>3
<1>. QED  BY <1>1, <1>2 DEF Handled

\* A step that leaves ring, sinks and suppressed payloads alone.
LEMMA QuietStep ==
  ASSUME TriedInv, NEW g \in Handlers,
         UNCHANGED <<slot, tried, suppressed, sink>>,
         arg[g] = arg'[g] \/ pc[g] = "idle",
         \A h \in Handlers \ {g} : pc'[h] = pc[h] /\ arg'[h] = arg[h],
         \/ pc[g] \in {"bump", "store"} /\ pc'[g] \in {"bump", "store", "sinks"}
         \/ pc[g] \in {"idle", "scan", "index", "slot"} /\ pc'[g] # "sinks"
  PROVE  RingInv'
<1>1. ASSUME NEW p, Handled(p)
      PROVE  Handled(p)'
  <2>1. \A h \in Handlers : Delivering(h, p) => Delivering(h, p)'
    BY DEF Delivering
  <2>. QED  BY <1>1, <2>1, HandledStays DEF TriedInv, RingInv
<1>2. LoopInv'
  <2>. SUFFICES ASSUME NEW h \in Handlers, pc'[h] = "sinks",
                       NEW k \in Sinks, k < sink[h]
                PROVE  <<arg'[h], k>> \in tried
    BY DEF LoopInv
  <2>1. CASE h = g
    <3>1. sink[h] = 1
      BY <2>1 DEF TriedInv, RingInv
    <3>. QED  BY <3>1, SinksAssumption DEF Sinks
  <2>2. CASE h # g
    BY <2>2 DEF TriedInv, RingInv, LoopInv
  <2>. QED  BY <2>1, <2>2
<1>3. \A h \in Handlers : pc'[h] # "sinks" => sink'[h] = 1
  BY DEF TriedInv, RingInv
<1>. QED  BY <1>1, <1>2, <1>3 DEF RingInv, TriedInv

\* A handler leaves that is not delivering, or is through with the sinks.
LEMMA LeaveStep ==
  ASSUME TriedInv, NEW g \in Handlers, Leave(g),
         UNCHANGED <<slot, tried>>,
         pc[g] = "scan" \/ (pc[g] = "sinks" /\ sink[g] = NSinks + 1),
         \A p \in suppressed' : Handled(p)
  PROVE  RingInv'
<1>0. /\ pc \in [Handlers -> {"idle", "scan", "index", "slot", "bump", "store", "sinks"}]
      /\ arg \in [Handlers -> Payloads \cup {Empty}]
      /\ sink \in [Handlers -> 1..(NSinks + 1)]
  BY DEF TriedInv, RingInv, TypeInv, TypeOK
<1>1. /\ pc'[g] = "idle" /\ sink'[g] = 1
      /\ \A h \in Handlers \ {g} : pc'[h] = pc[h] /\ arg'[h] = arg[h] /\ sink'[h] = sink[h]
  BY <1>0 DEF Leave
<1>2. ASSUME NEW p, Handled(p)
      PROVE  Handled(p)'
  <2>1. \A h \in Handlers :
          \/ pc[h] = "sinks" /\ sink[h] = NSinks + 1
          \/ Delivering(h, p) => Delivering(h, p)'
    BY <1>1 DEF Delivering
  <2>. QED  BY <1>2, <2>1, HandledStays DEF TriedInv, RingInv
<1>3. LoopInv'
  BY <1>1 DEF TriedInv, RingInv, LoopInv
<1>4. \A h \in Handlers : pc'[h] # "sinks" => sink'[h] = 1
  BY <1>1 DEF TriedInv, RingInv
<1>. QED  BY <1>2, <1>3, <1>4 DEF RingInv, TriedInv

LEMMA HandleStep ==
  ASSUME TriedInv, NEW g \in Handlers, Handle(g)
  PROVE  RingInv'
<1>0. /\ slot \in [Slots -> Payloads \cup {Empty, Torn}]
      /\ pc \in [Handlers -> {"idle", "scan", "index", "slot", "bump", "store", "sinks"}]
      /\ arg \in [Handlers -> Payloads \cup {Empty}]
      /\ i \in [Handlers -> Slots]
      /\ sink \in [Handlers -> 1..(NSinks + 1)]
      /\ Busy
  BY DEF TriedInv, RingInv, TypeInv, TypeOK
<1>1. CASE Miss(g)
  BY <1>0, <1>1, QuietStep DEF Miss, Goto, ring, sinks
<1>2. CASE Hit(g)
  <2>1. arg[g] \in Payloads /\ slot[i[g]] = arg[g] /\ i[g] \in Slots
    BY <1>0, <1>2 DEF Hit, Busy
  <2>2. Handled(arg[g])
    BY <2>1 DEF TriedInv, RingInv
  <2>3. \A p \in suppressed' : Handled(p)
    BY <1>2, <2>2 DEF Hit, TriedInv, RingInv
  <2>. QED  BY <1>2, <2>3, LeaveStep DEF Hit, ring, sinks
<1>3. CASE Panic(g)
  BY <1>3, LeaveStep DEF Panic, ring, sinks, TriedInv, RingInv
<1>4. CASE ReadIndex(g)
  BY <1>0, <1>4, QuietStep DEF ReadIndex, Goto, ring, sinks
<1>5. CASE WriteSlot(g)
  <2>1. ASSUME NEW p, Handled(p)
        PROVE  Handled(p)'
    <3>1. \A h \in Handlers : Delivering(h, p) => Delivering(h, p)'
      BY <1>0, <1>5 DEF WriteSlot, Goto, Delivering
    <3>2. tried' = tried
      BY <1>5 DEF WriteSlot, sinks
    <3>. QED  BY <2>1, <3>1, <3>2, HandledStays DEF TriedInv, RingInv
  <2>2. ASSUME NEW j \in Slots, NEW p \in Payloads, slot'[j] = p
        PROVE  Handled(p)'
    <3>1. CASE slot'[j] = slot[j]
      BY <2>1, <2>2, <3>1 DEF TriedInv, RingInv
    <3>2. CASE slot'[j] # slot[j]
      <4>1. p = arg[g] /\ pc'[g] = "bump" /\ arg' = arg
        BY <1>0, <1>5, <2>2, <3>2, SlotAssumption DEF WriteSlot, Goto
      <4>. QED  BY <4>1 DEF Handled, Delivering
    <3>. QED  BY <3>1, <3>2
  <2>3. LoopInv'
    BY <1>0, <1>5 DEF WriteSlot, Goto, sinks, TriedInv, RingInv, LoopInv
  <2>4. \A h \in Handlers : pc'[h] # "sinks" => sink'[h] = 1
    BY <1>0, <1>5 DEF WriteSlot, Goto, TriedInv, RingInv
  <2>5. \A p \in suppressed' : Handled(p)'
    BY <1>5, <2>1 DEF WriteSlot, TriedInv, RingInv
  <2>. QED  BY <2>2, <2>3, <2>4, <2>5 DEF RingInv
<1>6. CASE RereadIndex(g)
  BY <1>0, <1>6, QuietStep DEF RereadIndex, Goto, ring, sinks
<1>7. CASE WriteIndex(g)
  BY <1>0, <1>7, QuietStep DEF WriteIndex, Goto, sinks
<1>8. CASE Record(g)
  <2>1. /\ pc' = pc /\ arg' = arg /\ slot' = slot /\ suppressed' = suppressed
        /\ tried' = tried \cup {<<arg[g], sink[g]>>}
        /\ pc[g] = "sinks" /\ sink[g] \in Sinks
        /\ sink' = [sink EXCEPT ![g] = @ + 1]
    BY <1>8 DEF Record, ring
  <2>2. ASSUME NEW p, Handled(p)
        PROVE  Handled(p)'
    <3>1. \A h \in Handlers : Delivering(h, p) => Delivering(h, p)'
      BY <2>1 DEF Delivering
    <3>. QED  BY <2>1, <2>2, <3>1, HandledStays DEF TriedInv, RingInv
  <2>3. LoopInv'
    <3>. SUFFICES ASSUME NEW h \in Handlers, pc[h] = "sinks",
                         NEW k \in Sinks, k < sink'[h]
                  PROVE  <<arg[h], k>> \in tried'
      BY <2>1 DEF LoopInv
    <3>1. CASE k < sink[h]
      BY <2>1, <3>1 DEF TriedInv, RingInv, LoopInv
    <3>2. CASE ~(k < sink[h])
      <4>1. h = g /\ k = sink[g]
        BY <1>0, <2>1, <3>2, SinksAssumption DEF Sinks
      <4>. QED  BY <2>1, <4>1
    <3>. QED  BY <3>1, <3>2
  <2>4. \A h \in Handlers : pc'[h] # "sinks" => sink'[h] = 1
    BY <1>0, <2>1 DEF TriedInv, RingInv
  <2>. QED  BY <2>1, <2>2, <2>3, <2>4 DEF RingInv, TriedInv
<1>9. CASE Finish(g)
  BY <1>9, LeaveStep DEF Finish, ring, sinks, TriedInv, RingInv
<1>. QED  BY <1>1, <1>2, <1>3, <1>4, <1>5, <1>6, <1>7, <1>8, <1>9 DEF Handle

LEMMA TriedStep ==
  ASSUME TriedInv, [Next]_vars
  PROVE  TriedInv'
<1>1. TypeInv'
  BY TypeStep DEF TriedInv, RingInv
<1>2. ASSUME NEW g \in Handlers, NEW p \in Payloads, Request(g, p)
      PROVE  RingInv'
  <2>1. /\ pc \in [Handlers -> {"idle", "scan", "index", "slot", "bump", "store", "sinks"}]
        /\ arg \in [Handlers -> Payloads \cup {Empty}]
    BY DEF TriedInv, RingInv, TypeInv, TypeOK
  <2>. QED  BY <1>2, <2>1, QuietStep DEF Request, Goto, ring, sinks
<1>3. ASSUME NEW g \in Handlers, Handle(g)
      PROVE  RingInv'
  BY <1>3, HandleStep
<1>4. ASSUME Restart
      PROVE  RingInv'
  BY <1>4, SlotAssumption DEF Restart, EmptyRing, RingInv, LoopInv
<1>5. ASSUME Stop \/ Crash
      PROVE  RingInv'
  BY <1>4, <1>5 DEF Stop, Crash
<1>6. ASSUME (\E k \in Sinks : BackgroundFlush(k)) \/ UNCHANGED vars
      PROVE  RingInv'
  <2>1. UNCHANGED <<slot, pc, arg, sink, tried, suppressed>>
    BY <1>6 DEF BackgroundFlush, ring, handler, vars
  <2>2. \A p : Handled(p) => Handled(p)'
    BY <2>1 DEF Handled, Delivering
  <2>3. LoopInv'
    BY <2>1 DEF TriedInv, RingInv, LoopInv
  <2>. QED  BY <2>1, <2>2, <2>3 DEF TriedInv, RingInv
<1>7. RingInv'
  BY <1>2, <1>3, <1>5, <1>6 DEF Next
<1>. QED  BY <1>1, <1>7 DEF TriedInv, RingInv

\* RecordAll drops no payload that nobody gives to the sinks, however the
\* handlers race on the unlocked ring: for any number of handlers and sinks,
\* any window, sinks that fail, stops and crashes.
THEOREM NothingForgotten == Spec => []SuppressedIsTried
<1>1. Init => TriedInv
  <2>1. Init => TypeInv
    BY TypeInit
  <2>2. Init => RingInv
    BY SlotAssumption DEF Init, EmptyRing, RingInv, LoopInv
  <2>. QED  BY <2>1, <2>2 DEF TriedInv, RingInv
<1>2. TriedInv /\ [Next]_vars => TriedInv'
  BY TriedStep
<1>3. TriedInv => SuppressedIsTried
  BY DEF TriedInv, RingInv, SuppressedIsTried, Handled
<1>. QED  BY <1>1, <1>2, <1>3, PTL DEF Spec
-----------------------------------------------------------------------------
(***************************************************************************)
(* One handler: the ring is the window of DedupWindow.  RingSeq(s, o) is   *)
(* the window that slots s hold when o is the next one to be reused.       *)
(***************************************************************************)
RingSeq(s, o) ==
  IF s[Window - 1] \in Payloads
  THEN [j \in 1..Window |-> s[(o + j - 1) % Window]]
  ELSE [j \in 1..o |-> s[j - 1]]

\* Once the last slot is used, all are; before, those are that come before o.
Contiguous(s, o) ==
  \A j \in Slots : s[j] \in Payloads <=> s[Window - 1] \in Payloads \/ j < o

LEMMA Wrap ==
  \A a \in Nat : /\ a < Window => a % Window = a
                 /\ a >= Window /\ a < Window + Window => a % Window = a - Window
BY WindowAssumption, Z3

LEMMA RingLookup ==
  ASSUME NEW s \in [Slots -> Payloads \cup {Empty, Torn}], NEW o \in Slots, Contiguous(s, o)
  PROVE  /\ RingSeq(s, o) \in Seq(Payloads)
         /\ Len(RingSeq(s, o)) = IF s[Window - 1] \in Payloads THEN Window ELSE o
         /\ \A p \in Payloads :
              (\E j \in DOMAIN RingSeq(s, o) : RingSeq(s, o)[j] = p) <=> \E j \in Slots : s[j] = p
<1>1. o \in Nat /\ o < Window /\ Window \in Nat \ {0} /\ Window - 1 \in Slots
  BY WindowAssumption DEF Slots
<1>2. CASE s[Window - 1] \in Payloads
  <2>. DEFINE r == [j \in 1..Window |-> s[(o + j - 1) % Window]]
  <2>1. \A j \in 1..Window : (o + j - 1) % Window \in Slots
    BY <1>1, Wrap, Z3 DEF Slots
  <2>2. r \in [1..Window -> Payloads]
    BY <1>2, <2>1 DEF Contiguous
  <2>. HIDE DEF r
  <2>3. r \in Seq(Payloads) /\ Len(r) = Window /\ DOMAIN r = 1..Window
    BY <1>1, <2>2
  <2>. USE DEF r
  <2>4. ASSUME NEW j \in Slots
        PROVE  \E l \in 1..Window : (o + l - 1) % Window = j
    <3>1. CASE j >= o
      <4>1. j - o + 1 \in 1..Window /\ o + (j - o + 1) - 1 = j /\ j < Window /\ j \in Nat
        BY <1>1, <3>1 DEF Slots
      <4>. QED  BY <4>1, Wrap
    <3>2. CASE j < o
      <4>1. /\ j + Window - o + 1 \in 1..Window
            /\ o + (j + Window - o + 1) - 1 = j + Window
            /\ j + Window \in Nat /\ j + Window >= Window /\ j + Window < Window + Window
            /\ j + Window - Window = j
        BY <1>1, <3>2 DEF Slots
      <4>2. (j + Window) % Window = j
        BY <1>1, <4>1, Wrap, Z3 DEF Slots
      <4>. QED  BY <4>1, <4>2
    <3>. QED  BY <1>1, <3>1, <3>2 DEF Slots
  <2>5. \A p : (\E j \in 1..Window : r[j] = p) <=> \E j \in Slots : s[j] = p
    BY <2>1, <2>4
  <2>. QED  BY <1>2, <2>3, <2>5 DEF RingSeq
<1>3. CASE s[Window - 1] \notin Payloads
  <2>. DEFINE r == [j \in 1..o |-> s[j - 1]]
  <2>1. \A j \in 1..o : j - 1 \in Slots /\ j - 1 < o
    BY <1>1 DEF Slots
  <2>2. r \in [1..o -> Payloads]
    BY <1>3, <2>1 DEF Contiguous
  <2>3. r \in Seq(Payloads) /\ Len(r) = o /\ DOMAIN r = 1..o
    BY <1>1, <2>2
  <2>4. ASSUME NEW j \in Slots, s[j] \in Payloads
        PROVE  j + 1 \in 1..o /\ (j + 1) - 1 = j
    <3>1. j < o
      BY <1>3, <2>4 DEF Contiguous
    <3>. QED  BY <1>1, <3>1 DEF Slots
  <2>5. \A p \in Payloads : (\E j \in 1..o : r[j] = p) <=> \E j \in Slots : s[j] = p
    BY <2>1, <2>4
  <2>. QED  BY <1>3, <2>3, <2>5 DEF RingSeq
<1>. QED  BY <1>2, <1>3

\* Writing slot o and passing it drops the oldest payload of a full window and
\* appends the new one.
LEMMA RingWrite ==
  ASSUME NEW s \in [Slots -> Payloads \cup {Empty, Torn}], NEW o \in Slots, Contiguous(s, o),
         NEW p \in Payloads
  PROVE  LET t == [s EXCEPT ![o] = p]
             r == RingSeq(s, o)
         IN  /\ Contiguous(t, NextSlot(o))
             /\ RingSeq(t, NextSlot(o)) = Append(IF Len(r) = Window THEN Tail(r) ELSE r, p)
<1>. DEFINE t == [s EXCEPT ![o] = p]
            r == RingSeq(s, o)
            n == NextSlot(o)
            a == Append(IF Len(r) = Window THEN Tail(r) ELSE r, p)
<1>1. o \in Nat /\ o < Window /\ Window \in Nat \ {0} /\ Window - 1 \in Slots
  BY WindowAssumption DEF Slots
<1>2. n \in Slots /\ n = IF o = Window - 1 THEN 0 ELSE o + 1
  BY <1>1, Wrap, Z3 DEF NextSlot, Slots
<1>3. t \in [Slots -> Payloads \cup {Empty, Torn}] /\ t[o] = p
      /\ \A j \in Slots : j # o => t[j] = s[j]
  OBVIOUS
<1>4. Contiguous(t, n)
  BY <1>1, <1>2, <1>3 DEF Contiguous, Slots
<1>5. r \in Seq(Payloads) /\ Len(r) = IF s[Window - 1] \in Payloads THEN Window ELSE o
  BY RingLookup
<1>6. /\ RingSeq(t, n) \in Seq(Payloads)
      /\ Len(RingSeq(t, n)) = IF t[Window - 1] \in Payloads THEN Window ELSE n
  BY <1>2, <1>3, <1>4, RingLookup
<1>7. CASE s[Window - 1] \in Payloads
  <2>1. t[Window - 1] \in Payloads
    BY <1>1, <1>3, <1>7
  <2>2. r # <<>> /\ Len(r) = Window
    BY <1>1, <1>5, <1>7
  <2>3. /\ Tail(r) \in Seq(Payloads) /\ Len(Tail(r)) = Window - 1
        /\ \A j \in 1..(Window - 1) : Tail(r)[j] = r[j + 1]
    BY <1>5, <2>2, HeadTailProperties
  <2>4. /\ a \in Seq(Payloads) /\ Len(a) = Window
        /\ \A j \in 1..(Window - 1) : a[j] = r[j + 1]
        /\ a[Window] = p
    BY <1>1, <2>2, <2>3, AppendProperties
  <2>5. ASSUME NEW j \in 1..Window
        PROVE  RingSeq(t, n)[j] = a[j]
    <3>1. RingSeq(t, n)[j] = t[(n + j - 1) % Window]
      BY <2>1 DEF RingSeq
    <3>2. CASE j = Window
      <4>1. (n + j - 1) % Window = o
        BY <1>1, <1>2, <3>2, Wrap, Z3
      <4>. QED  BY <1>3, <2>4, <3>1, <3>2, <4>1
    <3>3. CASE j # Window
      <4>1. j \in 1..(Window - 1) /\ j + 1 \in 1..Window
        BY <1>1, <3>3
      <4>2. r[j + 1] = s[(o + (j + 1) - 1) % Window]
        BY <1>7, <4>1 DEF RingSeq
      <4>3. /\ (n + j - 1) % Window = (o + (j + 1) - 1) % Window
            /\ (n + j - 1) % Window # o
            /\ (n + j - 1) % Window \in Slots
        BY <1>1, <1>2, <4>1, Wrap, Z3 DEF Slots
      <4>. QED  BY <1>3, <2>4, <3>1, <4>1, <4>2, <4>3
    <3>. QED  BY <3>2, <3>3
  <2>. QED  BY <1>4, <1>6, <2>1, <2>4, <2>5, SeqEqual
<1>8. CASE s[Window - 1] \notin Payloads
  <2>1. Len(r) = o /\ Len(r) # Window
    BY <1>1, <1>5, <1>8
  <2>2. /\ a \in Seq(Payloads) /\ Len(a) = o + 1
        /\ \A j \in 1..o : a[j] = r[j]
        /\ a[o + 1] = p
    BY <1>1, <1>5, <2>1, AppendProperties
  <2>3. Len(RingSeq(t, n)) = o + 1
    BY <1>1, <1>2, <1>3, <1>6, <1>8
  <2>4. ASSUME NEW j \in 1..(o + 1)
        PROVE  RingSeq(t, n)[j] = t[j - 1] /\ j - 1 \in Slots
    <3>1. CASE o = Window - 1
      <4>1. t[Window - 1] \in Payloads /\ n = 0 /\ j \in 1..Window
        BY <1>1, <1>2, <1>3, <3>1
      <4>2. RingSeq(t, n)[j] = t[(0 + j - 1) % Window]
        BY <4>1 DEF RingSeq
      <4>3. (0 + j - 1) % Window = j - 1 /\ j - 1 \in Slots
        BY <1>1, <4>1, Wrap, Z3 DEF Slots
      <4>. QED  BY <4>2, <4>3
    <3>2. CASE o # Window - 1
      <4>1. t[Window - 1] \notin Payloads /\ n = o + 1 /\ j - 1 \in Slots
        BY <1>1, <1>2, <1>3, <1>8, <3>2 DEF Slots
      <4>. QED  BY <4>1 DEF RingSeq
    <3>. QED  BY <3>1, <3>2
  <2>5. ASSUME NEW j \in 1..(o + 1)
        PROVE  RingSeq(t, n)[j] = a[j]
    <3>1. CASE j = o + 1
      <4>1. j - 1 = o
        BY <1>1, <3>1
      <4>. QED  BY <1>3, <2>2, <2>4, <3>1, <4>1
    <3>2. CASE j # o + 1
      <4>1. j \in 1..o /\ j - 1 # o
        BY <1>1, <3>2
      <4>2. r[j] = s[j - 1]
        BY <1>8, <4>1 DEF RingSeq
      <4>. QED  BY <1>3, <2>2, <2>4, <4>1, <4>2
    <3>. QED  BY <3>1, <3>2
  <2>. QED  BY <1>4, <1>6, <2>2, <2>3, <2>5, SeqEqual
<1>. QED  BY <1>7, <1>8

\* What handler h knows of the ring while nobody else is there: it writes the slot that the index names, and
\* what it writes is in no slot that it has looked at.
WindowInv(h) ==
  /\ Contiguous(slot, Oldest)
  /\ pc[h] = "idle" => i[h] = 0
  /\ pc[h] = "scan" => \A j \in Slots : j < i[h] => slot[j] # arg[h]
  /\ pc[h] \in {"index", "slot"} => \A j \in Slots : slot[j] # arg[h]
  /\ pc[h] \in {"slot", "bump", "store"} => i[h] = idx

LEMMA RecentIsRing ==
  /\ Recent = RingSeq(slot, Oldest)
  /\ Recent' = RingSeq(slot', Oldest')
BY DEF Recent, RingSeq

\* A step that changes neither the ring nor what h is about to write into it.
LEMMA HandleFrame ==
  ASSUME TypeInv, NEW h \in Handlers, Handle(h)
  PROVE  /\ UNCHANGED raced
         /\ \A g \in Handlers \ {h} : pc'[g] = pc[g] /\ arg'[g] = arg[g] /\ i'[g] = i[g]
<1>1. /\ pc \in [Handlers -> {"idle", "scan", "index", "slot", "bump", "store", "sinks"}]
      /\ arg \in [Handlers -> Payloads \cup {Empty}]
      /\ i \in [Handlers -> Slots]
  BY DEF TypeInv, TypeOK
<1>2. UNCHANGED raced
  BY DEF Handle, Miss, Hit, Panic, ReadIndex, WriteSlot, RereadIndex, WriteIndex,
         Record, Finish, ring
<1>. QED
  BY <1>1, <1>2 DEF Handle, Miss, Hit, Panic, ReadIndex, WriteSlot, RereadIndex, WriteIndex,
         Record, Finish, Leave, Goto

LEMMA SameRecent ==
  ASSUME UNCHANGED slot, Oldest' = Oldest
  PROVE  Recent' = Recent
BY DEF Recent

\* The window does what Dedup!LetThrough(p) and Dedup!Drop(p) say.
Appended(p) ==
  /\ ~\E j \in DOMAIN Recent : Recent[j] = p
  /\ Recent' = Append(IF Len(Recent) = Window THEN Tail(Recent) ELSE Recent, p)
  /\ UNCHANGED suppressed

Found(p) ==
  /\ \E j \in DOMAIN Recent : Recent[j] = p
  /\ suppressed' = suppressed \cup {p}
  /\ Recent' = Recent

LEMMA HandleWindow ==
  ASSUME NEW h \in Handlers, \A g \in Handlers : AtRing(g) => g = h,
         TypeInv, WindowInv(h), Handle(h)
  PROVE  /\ WindowInv(h)'
         /\ \/ UNCHANGED <<Recent, suppressed>>
            \/ \E p \in Payloads : Appended(p) \/ Found(p)
<1>. DEFINE Stutter == UNCHANGED <<Recent, suppressed>>
<1>0. /\ slot \in [Slots -> Payloads \cup {Empty, Torn}] /\ idx \in Slots
      /\ pc \in [Handlers -> {"idle", "scan", "index", "slot", "bump", "store", "sinks"}]
      /\ arg \in [Handlers -> Payloads \cup {Empty}]
      /\ i \in [Handlers -> Slots]
      /\ pc[h] # "idle" => arg[h] \in Payloads
  BY DEF TypeInv, TypeOK, Busy
<1>1. /\ Oldest = IF pc[h] \in {"bump", "store"} THEN NextSlot(idx) ELSE idx
      /\ Oldest' = IF pc'[h] \in {"bump", "store"} THEN NextSlot(idx') ELSE idx'
      /\ Oldest \in Slots
  <2>1. \A g \in Handlers \ {h} : pc[g] \notin {"bump", "store"} /\ pc'[g] = pc[g]
    BY HandleFrame DEF AtRing
  <2>. QED  BY <1>0, <2>1, SlotFacts DEF Oldest
<1>2. ASSUME UNCHANGED slot, Oldest' = Oldest, UNCHANGED suppressed,
             pc'[h] \notin {"idle", "scan", "index", "slot"},
             pc'[h] \in {"bump", "store"} => i'[h] = idx'
      PROVE  WindowInv(h)' /\ Stutter
  BY <1>2, SameRecent DEF WindowInv, Contiguous
<1>3. ASSUME Leave(h), UNCHANGED ring, pc[h] \in {"scan", "sinks"}
      PROVE  WindowInv(h)' /\ Recent' = Recent
  <2>1. pc'[h] = "idle" /\ i'[h] = 0
    BY <1>0, <1>3 DEF Leave
  <2>2. Oldest' = Oldest
    BY <1>1, <1>3, <2>1 DEF ring
  <2>. QED  BY <1>3, <2>1, <2>2, SameRecent DEF WindowInv, Contiguous, ring
<1>4. CASE Miss(h)
  <2>1. /\ UNCHANGED <<slot, idx, arg, suppressed>> /\ pc[h] = "scan"
        /\ slot[i[h]] # arg[h]
    BY <1>4 DEF Miss, ring
  <2>2. \A j \in Slots : j <= i[h] => slot[j] # arg[h]
    BY <1>0, <2>1 DEF WindowInv, Slots
  <2>3. CASE i[h] >= LastSlot
    <3>1. pc'[h] = "index"
      BY <1>0, <1>4, <2>3 DEF Miss, Goto
    <3>2. \A j \in Slots : slot[j] # arg[h]
      BY <1>0, <2>2, <2>3, WindowAssumption DEF Slots, LastSlot
    <3>3. Oldest' = Oldest
      BY <1>1, <2>1, <3>1
    <3>. QED  BY <2>1, <3>1, <3>2, <3>3, SameRecent DEF WindowInv, Contiguous
  <2>4. CASE ~(i[h] >= LastSlot)
    <3>1. pc'[h] = "scan" /\ i'[h] = i[h] + 1
      BY <1>0, <1>4, <2>1, <2>4 DEF Miss
    <3>2. \A j \in Slots : j < i[h] + 1 => slot[j] # arg[h]
      BY <1>0, <2>2 DEF Slots
    <3>3. Oldest' = Oldest
      BY <1>1, <2>1, <3>1
    <3>. QED  BY <2>1, <3>1, <3>2, <3>3, SameRecent DEF WindowInv, Contiguous
  <2>. QED  BY <2>3, <2>4
<1>5. CASE Hit(h)
  <2>1. /\ Leave(h) /\ UNCHANGED ring /\ pc[h] = "scan"
        /\ slot[i[h]] = arg[h] /\ suppressed' = suppressed \cup {arg[h]}
    BY <1>5 DEF Hit
  <2>2. WindowInv(h)' /\ Recent' = Recent
    BY <1>3, <2>1
  <2>3. arg[h] \in Payloads /\ i[h] \in Slots
    BY <1>0, <2>1
  <2>4. \E j \in DOMAIN RingSeq(slot, Oldest) : RingSeq(slot, Oldest)[j] = arg[h]
    BY <1>0, <1>1, <2>1, <2>3, RingLookup DEF WindowInv
  <2>5. Found(arg[h])
    BY <2>1, <2>2, <2>4, RecentIsRing DEF Found
  <2>. QED  BY <2>2, <2>3, <2>5
<1>6. CASE Panic(h)
  BY <1>3, <1>6 DEF Panic
<1>7. CASE ReadIndex(h)
  <2>1. /\ UNCHANGED <<slot, idx, arg, suppressed>> /\ pc[h] = "index"
        /\ pc'[h] = "slot" /\ i'[h] = idx
    BY <1>0, <1>7 DEF ReadIndex, Goto, ring
  <2>2. Oldest' = Oldest
    BY <1>1, <2>1
  <2>. QED  BY <2>1, <2>2, SameRecent DEF WindowInv, Contiguous
<1>8. CASE WriteSlot(h)
  <2>1. /\ UNCHANGED <<idx, arg, i, suppressed>> /\ pc[h] = "slot" /\ i[h] = idx
        /\ Oldest = idx /\ arg[h] \in Payloads
        /\ Contiguous(slot, idx)
        /\ \A j \in Slots : slot[j] # arg[h]
    BY <1>0, <1>1, <1>8 DEF WriteSlot, WindowInv
  <2>2. CASE slot[idx] = Empty /\ slot' = [slot EXCEPT ![idx] = Torn] /\ UNCHANGED pc
    <3>1. \A j \in Slots : slot'[j] = IF j = idx THEN Torn ELSE slot[j]
      BY <1>0, <2>2
    <3>2. \A j \in Slots : (slot'[j] \in Payloads <=> slot[j] \in Payloads) /\ slot'[j] # arg[h]
      BY <1>0, <2>1, <2>2, <3>1, SlotAssumption
    <3>3. Window - 1 \in Slots
      BY WindowAssumption DEF Slots
    <3>4. Contiguous(slot', idx)
      BY <2>1, <3>2, <3>3 DEF Contiguous
    <3>5. Oldest' = idx
      BY <1>1, <2>1, <2>2
    <3>6. RingSeq(slot', idx) = RingSeq(slot, idx)
      <4>1. slot[idx] \notin Payloads
        BY <2>2, SlotAssumption
      <4>2. slot[Window - 1] \notin Payloads /\ slot'[Window - 1] \notin Payloads
        BY <1>0, <2>1, <3>2, <3>3, <4>1 DEF Contiguous
      <4>3. ASSUME NEW j \in 1..idx  PROVE  slot'[j - 1] = slot[j - 1]
        <5>1. j - 1 \in Slots /\ j - 1 # idx
          BY <1>0, WindowAssumption DEF Slots
        <5>. QED  BY <3>1, <5>1
      <4>. QED  BY <4>2, <4>3 DEF RingSeq
    <3>. QED  BY <2>1, <2>2, <3>2, <3>4, <3>5, <3>6, RecentIsRing DEF WindowInv
  <2>3. CASE slot' = [slot EXCEPT ![idx] = arg[h]] /\ Goto(h, "bump")
    <3>1. pc'[h] = "bump"
      BY <1>0, <2>3 DEF Goto
    <3>2. Oldest' = NextSlot(idx)
      BY <1>1, <2>1, <3>1
    <3>3. /\ Contiguous(slot', Oldest')
          /\ Recent' = Append(IF Len(Recent) = Window THEN Tail(Recent) ELSE Recent, arg[h])
      BY <1>0, <2>1, <2>3, <3>2, RingWrite, RecentIsRing
    <3>4. ~\E j \in DOMAIN Recent : Recent[j] = arg[h]
      BY <1>0, <2>1, RingLookup, RecentIsRing
    <3>5. Appended(arg[h])
      BY <2>1, <3>3, <3>4 DEF Appended
    <3>6. WindowInv(h)'
      BY <2>1, <3>1, <3>3 DEF WindowInv
    <3>. QED  BY <2>1, <3>5, <3>6
  <2>. QED  BY <1>8, <2>1, <2>2, <2>3 DEF WriteSlot
<1>9. CASE RereadIndex(h)
  <2>1. /\ UNCHANGED <<slot, idx, suppressed>> /\ pc[h] = "bump"
        /\ pc'[h] = "store" /\ i'[h] = idx
    BY <1>0, <1>9 DEF RereadIndex, Goto, ring
  <2>. QED  BY <1>1, <1>2, <2>1
<1>10. CASE WriteIndex(h)
  <2>1. /\ UNCHANGED <<slot, suppressed>> /\ pc[h] \in {"bump", "store"}
        /\ idx' = NextSlot(i[h]) /\ pc'[h] = "sinks"
    BY <1>0, <1>10 DEF WriteIndex, Goto
  <2>2. i[h] = idx
    BY <2>1 DEF WindowInv
  <2>. QED  BY <1>1, <1>2, <2>1, <2>2
<1>11. CASE Record(h)
  <2>1. UNCHANGED <<slot, idx, pc, suppressed>> /\ pc[h] = "sinks"
    BY <1>11 DEF Record, ring
  <2>. QED  BY <1>1, <1>2, <2>1
<1>12. CASE Finish(h)
  BY <1>3, <1>12 DEF Finish
<1>. QED
  BY <1>4, <1>5, <1>6, <1>7, <1>8, <1>9, <1>10, <1>11, <1>12 DEF Handle

\* Past the ring a handler leaves it alone.
LEMMA SinksHandler ==
  ASSUME TypeInv, NEW h \in Handlers, Handle(h), ~AtRing(h)
  PROVE  /\ UNCHANGED <<slot, idx, suppressed>>
         /\ pc[h] = "sinks"
         /\ pc'[h] = "sinks" \/ (pc'[h] = "idle" /\ i'[h] = 0)
<1>1. Record(h) \/ Finish(h)
  BY DEF AtRing, Handle, Miss, Hit, Panic, ReadIndex, WriteSlot, RereadIndex, WriteIndex
<1>. QED  BY <1>1 DEF Record, Finish, Leave, ring, TypeInv, TypeOK

\* A new process has an empty window.
LEMMA EmptyWindow ==
  /\ Contiguous(EmptyRing, 0)
  /\ RingSeq(EmptyRing, 0) = <<>>
<1>1. Window - 1 \in Slots
  BY WindowAssumption DEF Slots
<1>2. \A j \in Slots : EmptyRing[j] \notin Payloads
  BY SlotAssumption DEF EmptyRing
<1>3. Contiguous(EmptyRing, 0)
  BY <1>1, <1>2 DEF Contiguous, Slots
<1>4. EmptyRing \in [Slots -> Payloads \cup {Empty, Torn}] /\ 0 \in Slots
  BY SlotFacts DEF EmptyRing
<1>5. RingSeq(EmptyRing, 0) \in Seq(Payloads) /\ Len(RingSeq(EmptyRing, 0)) = 0
  BY <1>1, <1>2, <1>3, <1>4, RingLookup
<1>. QED  BY <1>3, <1>5, EmptySeq

\* Nobody has raced: one handler at most is at the ring.
Sole == \A g, h \in Handlers : AtRing(g) /\ AtRing(h) => g = h

WindowsInv == ~raced => (Sole /\ Contiguous(slot, Oldest) /\ \A h \in Handlers : WindowInv(h))

\* The refinement mapping.
AbsRecent == IF raced THEN <<>> ELSE Recent
AbsSuppressed == IF raced THEN {} ELSE suppressed

LEMMA WindowStep ==
  ASSUME TypeInv, WindowsInv, [Next]_vars
  PROVE  WindowsInv' /\ [Dedup!Next]_<<AbsRecent, AbsSuppressed, raced>>
<1>. DEFINE Stutter == UNCHANGED <<AbsRecent, AbsSuppressed, raced>>
<1>0. /\ pc \in [Handlers -> {"idle", "scan", "index", "slot", "bump", "store", "sinks"}]
      /\ raced \in BOOLEAN
  BY DEF TypeInv, TypeOK
<1>1. ASSUME UNCHANGED <<slot, raced, suppressed>>, Oldest' = Oldest
      PROVE  Stutter
  BY <1>1, SameRecent DEF AbsRecent, AbsSuppressed
<1>2. ASSUME NEW h \in Handlers, Handle(h)
      PROVE  WindowsInv' /\ (Stutter \/ Dedup!Next)
  <2>1. /\ UNCHANGED raced
        /\ \A g \in Handlers \ {h} : pc'[g] = pc[g] /\ arg'[g] = arg[g] /\ i'[g] = i[g]
    BY <1>2, HandleFrame
  <2>2. CASE raced
    BY <2>1, <2>2 DEF WindowsInv, AbsRecent, AbsSuppressed
  <2>3. CASE ~raced /\ AtRing(h)
    <3>1. \A g \in Handlers : AtRing(g) => g = h
      BY <2>3 DEF WindowsInv, Sole
    <3>2. /\ WindowInv(h)'
          /\ \/ UNCHANGED <<Recent, suppressed>>
             \/ \E p \in Payloads : Appended(p) \/ Found(p)
      BY <1>2, <2>3, <3>1, HandleWindow DEF WindowsInv
    <3>3. \A g \in Handlers \ {h} : WindowInv(g)'
      BY <2>1, <2>3, <3>1, <3>2 DEF WindowsInv, WindowInv, AtRing
    <3>4. Sole'
      BY <2>1, <3>1 DEF Sole, AtRing
    <3>5. WindowsInv'
      BY <3>2, <3>3, <3>4 DEF WindowsInv, WindowInv
    <3>6. AbsRecent = Recent /\ AbsSuppressed = suppressed
          /\ AbsRecent' = Recent' /\ AbsSuppressed' = suppressed'
      BY <2>1, <2>3 DEF AbsRecent, AbsSuppressed
    <3>7. ASSUME NEW p \in Payloads, Appended(p)  PROVE Dedup!Next
      <4>1. Dedup!LetThrough(p)
        BY <2>1, <2>3, <3>6, <3>7
        DEF Appended, AbsRecent, AbsSuppressed, Dedup!LetThrough, Dedup!Remembered
      <4>. QED  BY <4>1 DEF Dedup!Next
    <3>8. ASSUME NEW p \in Payloads, Found(p)  PROVE Dedup!Next
      <4>1. Dedup!Drop(p)
        BY <2>1, <2>3, <3>6, <3>8
        DEF Found, AbsRecent, AbsSuppressed, Dedup!Drop, Dedup!Remembered
      <4>. QED  BY <4>1 DEF Dedup!Next
    <3>. QED  BY <2>1, <3>2, <3>5, <3>6, <3>7, <3>8
  <2>4. CASE ~raced /\ ~AtRing(h)
    <3>1. /\ UNCHANGED <<slot, idx, suppressed>>
          /\ pc[h] = "sinks"
          /\ pc'[h] = "sinks" \/ (pc'[h] = "idle" /\ i'[h] = 0)
      BY <1>0, <1>2, <2>4, SinksHandler
    <3>2. Oldest' = Oldest
      BY <2>1, <3>1 DEF Oldest
    <3>3. Sole'
      BY <2>1, <2>4, <3>1 DEF WindowsInv, Sole, AtRing
    <3>4. Contiguous(slot', Oldest')
      BY <2>4, <3>1, <3>2 DEF WindowsInv
    <3>5. \A g \in Handlers : WindowInv(g)'
      BY <2>1, <2>4, <3>1, <3>2 DEF WindowsInv, WindowInv
    <3>6. WindowsInv'
      BY <3>3, <3>4, <3>5 DEF WindowsInv
    <3>. QED  BY <1>1, <2>1, <3>1, <3>2, <3>6
  <2>. QED  BY <2>2, <2>3, <2>4
<1>3. ASSUME NEW h \in Handlers, NEW p \in Payloads, Request(h, p)
      PROVE  WindowsInv' /\ (Stutter \/ Dedup!Next)
  <2>1. /\ UNCHANGED <<slot, idx, i, suppressed>>
        /\ pc[h] = "idle" /\ pc'[h] = "scan"
        /\ \A g \in Handlers \ {h} : pc'[g] = pc[g] /\ arg'[g] = arg[g]
        /\ raced' = (raced \/ \E g \in Handlers : AtRing(g))
    BY <1>3 DEF Request, Goto, sinks, TypeInv, TypeOK
  <2>2. CASE raced'
    <3>1. AbsRecent' = <<>> /\ AbsSuppressed' = {} /\ raced' = TRUE
      BY <2>1, <2>2, <1>0 DEF AbsRecent, AbsSuppressed
    <3>2. Dedup!Race
      BY <3>1 DEF Dedup!Race, AbsRecent, AbsSuppressed
    <3>. QED  BY <2>2, <3>2 DEF WindowsInv, Dedup!Next
  <2>3. CASE ~raced'
    <3>1. ~raced /\ \A g \in Handlers : ~AtRing(g)
      BY <2>1, <2>3
    <3>2. Oldest' = Oldest
      BY <2>1 DEF Oldest
    <3>3. Sole'
      BY <2>1, <3>1 DEF Sole, AtRing
    <3>4. \A j \in Slots : ~(j < 0)
      BY DEF Slots
    <3>5. \A g \in Handlers : WindowInv(g)'
      BY <2>1, <3>1, <3>2, <3>4 DEF WindowsInv, WindowInv
    <3>6. Contiguous(slot', Oldest')
      BY <2>1, <3>1, <3>2 DEF WindowsInv
    <3>7. UNCHANGED raced
      BY <1>0, <2>3, <3>1, <2>1
    <3>. QED  BY <1>1, <2>1, <3>2, <3>3, <3>5, <3>6, <3>7 DEF WindowsInv
  <2>. QED  BY <2>2, <2>3
<1>4. ASSUME Restart
      PROVE  WindowsInv' /\ Dedup!Forget
  <2>1. /\ slot' = EmptyRing /\ idx' = 0 /\ suppressed' = {} /\ raced' = FALSE
        /\ \A h \in Handlers : pc'[h] = "idle" /\ i'[h] = 0
    BY <1>4 DEF Restart
  <2>2. Oldest' = 0
    BY <2>1 DEF Oldest
  <2>3. Recent' = <<>> /\ Contiguous(slot', Oldest')
    BY <2>1, <2>2, EmptyWindow, RecentIsRing
  <2>4. WindowsInv'
    BY <2>1, <2>3 DEF WindowsInv, WindowInv, Sole, AtRing
  <2>. QED  BY <2>1, <2>3, <2>4 DEF Dedup!Forget
<1>5. CASE Stop \/ Crash
  BY <1>4, <1>5 DEF Stop, Crash, Dedup!Next
<1>6. ASSUME (\E k \in Sinks : BackgroundFlush(k)) \/ UNCHANGED vars
      PROVE  WindowsInv' /\ Stutter
  <2>1. UNCHANGED <<slot, idx, pc, i, arg, suppressed, raced>>
    BY <1>6 DEF BackgroundFlush, ring, handler, vars
  <2>2. Oldest' = Oldest
    BY <2>1 DEF Oldest
  <2>. QED  BY <1>1, <2>1, <2>2 DEF WindowsInv, WindowInv, Contiguous, Sole, AtRing
<1>. QED  BY <1>2, <1>3, <1>5, <1>6 DEF Next, AbsRecent, AbsSuppressed

\* As long as one caller at a time is at the ring, the router is a window over
\* the last payloads that it let through, for a ring of any size, any payloads,
\* any number of callers, failing sinks and restarts: slices.Contains,
\* recordHash and the wrapping index implement it.
THEOREM Deduplication == Spec => ImplementsDedupWindow
<1>1. Init => TypeInv /\ WindowsInv /\ Dedup!Init
  <2>. SUFFICES ASSUME Init PROVE TypeInv /\ WindowsInv /\ Dedup!Init
    OBVIOUS
  <2>1. Oldest = 0
    BY DEF Init, Oldest
  <2>2. Recent = <<>> /\ Contiguous(slot, Oldest)
    BY <2>1, EmptyWindow, RecentIsRing DEF Init
  <2>3. WindowsInv
    BY <2>2 DEF Init, WindowsInv, WindowInv, Sole, AtRing
  <2>4. Dedup!Init
    BY <2>2 DEF Init, Dedup!Init
  <2>. QED  BY <2>3, <2>4, TypeInit
<1>2. TypeInv /\ WindowsInv /\ [Next]_vars =>
        TypeInv' /\ WindowsInv' /\ [Dedup!Next]_<<AbsRecent, AbsSuppressed, raced>>
  BY TypeStep, WindowStep
<1>. QED
  BY <1>1, <1>2, PTL DEF Spec, ImplementsDedupWindow, Dedup!Spec, Dedup!vars, AbsRecent, AbsSuppressed
=============================================================================
