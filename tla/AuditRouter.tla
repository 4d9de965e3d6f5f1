---------------------------- MODULE AuditRouter ----------------------------
(***************************************************************************)
(* The audit router: RecordAll drops a payload whose hash is among the     *)
(* last ones it has seen and gives every other payload to each sink.       *)
(*                                                                         *)
(* The webhook server calls RecordAll from one goroutine per request, and  *)
(* the router has no lock: the handlers share the ring of hashes and its   *)
(* index word by word.  A string is a length and a pointer, so that a      *)
(* slot that has never been used may be seen half written.  Payloads stand *)
(* for their hashes.                                                       *)
(***************************************************************************)
EXTENDS Integers

CONSTANTS
  Handlers,   \* concurrent requests
  Payloads,
  Window,     \* the number of hashes kept (100 in NewRouter)
  NSinks,     \* sinks are 1..NSinks, in the order of the configuration
  Buffered,   \* the Cloud Logging sinks, which buffer; the others write through
  Empty,      \* a slot that has never been used
  Torn,       \* such a slot, half written
  Env,        \* the environment events that may happen
  MaxEvents   \* how many of them, and of requests, happen in one behaviour

EnvKinds == {"request", "sinkFails", "stop", "crash"}

ASSUME WindowAssumption == Window \in Nat \ {0}
ASSUME SinksAssumption == NSinks \in Nat /\ Buffered \subseteq 1..NSinks
ASSUME SlotAssumption ==
  Empty \notin Payloads /\ Torn \notin Payloads /\ Empty # Torn
ASSUME EnvAssumption == Env \subseteq EnvKinds /\ MaxEvents \in Nat

VARIABLES
  slot,        \* recentPayloadHashes
  idx,         \* currentHashIndex
  pc, arg,     \* where each handler is, and the payload it has
  i,           \* the slot it scans or writes
  sink,        \* the sink it is at
  buffer,      \* what each sink has in memory
  stored,      \* what each sink has stored
  tried,       \* history: <<p, k>> where payload p was given to sink k
  suppressed,  \* history: payloads that were dropped
  lost,        \* history: <<p, k>> where sink k failed to take payload p
  answered,    \* history: payloads of requests that RecordAll is done with
  raced,       \* history: two handlers have been at the ring of this process at once
  events       \* events left

ring    == <<slot, idx, raced>>
handler == <<pc, arg, i, sink>>
sinks   == <<buffer, stored, tried, lost>>
vars    == <<slot, idx, pc, arg, i, sink, buffer, stored, tried, lost,
             suppressed, answered, raced, events>>

Sinks == 1..NSinks
Slots == 0..(Window - 1)

EmptyRing == [j \in Slots |-> Empty]
NoBuffer  == [k \in Sinks |-> {}]

\* NewRouter, and no request under way.
Init ==
  /\ slot = EmptyRing
  /\ idx = 0
  /\ pc = [h \in Handlers |-> "idle"]
  /\ arg = [h \in Handlers |-> Empty]
  /\ i = [h \in Handlers |-> 0]
  /\ sink = [h \in Handlers |-> 1]
  /\ buffer = NoBuffer
  /\ stored = [k \in Sinks |-> {}]
  /\ tried = {}
  /\ lost = {}
  /\ suppressed = {}
  /\ answered = {}
  /\ raced = FALSE
  /\ events = MaxEvents

Event(kind) ==
  /\ kind \in Env
  /\ events > 0
  /\ events' = events - 1

-----------------------------------------------------------------------------
(* RecordAll.                                                              *)

Goto(h, l) == pc' = [pc EXCEPT ![h] = l]

\* RecordAll returns, or panics, and the handler's request is over.
Leave(h) ==
  /\ pc' = [pc EXCEPT ![h] = "idle"]
  /\ arg' = [arg EXCEPT ![h] = Empty]
  /\ i' = [i EXCEPT ![h] = 0]
  /\ sink' = [sink EXCEPT ![h] = 1]

\* Handler h is where RecordAll looks at the ring or changes it.
AtRing(h) == pc[h] \notin {"idle", "sinks"}

Request(h, p) ==
  /\ pc[h] = "idle"
  /\ Event("request")
  /\ arg' = [arg EXCEPT ![h] = p]
  /\ raced' = (raced \/ \E g \in Handlers : AtRing(g))
  /\ Goto(h, "scan")
  /\ UNCHANGED <<slot, idx, i, sink, sinks, suppressed, answered>>

\* Mutant: the search leaves out the last slot.
AlmostLastSlot == Window - 2

LastSlot == Window - 1

\* slices.Contains, slot by slot.
Miss(h) ==
  /\ pc[h] = "scan"
  /\ slot[i[h]] # arg[h]
  /\ IF i[h] >= LastSlot
     THEN Goto(h, "index") /\ UNCHANGED i
     ELSE i' = [i EXCEPT ![h] = i[h] + 1] /\ UNCHANGED pc
  /\ UNCHANGED <<ring, arg, sink, sinks, suppressed, answered, events>>

Hit(h) ==
  /\ pc[h] = "scan"
  /\ slot[i[h]] = arg[h]
  /\ suppressed' = suppressed \cup {arg[h]}
  /\ answered' = answered \cup {arg[h]}
  /\ Leave(h)
  /\ UNCHANGED <<ring, sinks, events>>

\* A string with a length and no pointer; the request fails.
Panic(h) ==
  /\ pc[h] = "scan"
  /\ slot[i[h]] = Torn
  /\ Leave(h)
  /\ UNCHANGED <<ring, sinks, suppressed, answered, events>>

\* recordHash: the index is read, the slot written, in two steps if it was
\* empty, and the index read again or not before it is written back.
ReadIndex(h) ==
  /\ pc[h] = "index"
  /\ i' = [i EXCEPT ![h] = idx]
  /\ Goto(h, "slot")
  /\ UNCHANGED <<ring, arg, sink, sinks, suppressed, answered, events>>

WriteSlot(h) ==
  /\ pc[h] = "slot"
  /\ \/ slot[i[h]] = Empty /\ slot' = [slot EXCEPT ![i[h]] = Torn] /\ UNCHANGED pc
     \/ slot' = [slot EXCEPT ![i[h]] = arg[h]] /\ Goto(h, "bump")
  /\ UNCHANGED <<idx, raced, arg, i, sink, sinks, suppressed, answered, events>>

RereadIndex(h) ==
  /\ pc[h] = "bump"
  /\ i' = [i EXCEPT ![h] = idx]
  /\ Goto(h, "store")
  /\ UNCHANGED <<ring, arg, sink, sinks, suppressed, answered, events>>

\* Mutant: the index is not wrapped.
PastSlot(j) == j + 1

NextSlot(j) == (j + 1) % Window

WriteIndex(h) ==
  /\ pc[h] \in {"bump", "store"}
  /\ idx' = NextSlot(i[h])
  /\ i' = [i EXCEPT ![h] = 0]
  /\ Goto(h, "sinks")
  /\ UNCHANGED <<slot, raced, arg, sink, sinks, suppressed, answered, events>>

\* CloudLogging.Record buffers and CloudStorage.Record writes the object.
Deliver(k, p) ==
  IF k \in Buffered
  THEN buffer' = [buffer EXCEPT ![k] = @ \cup {p}] /\ UNCHANGED stored
  ELSE stored' = [stored EXCEPT ![k] = @ \cup {p}] /\ UNCHANGED buffer

\* A sink fails: the entry is lost.
Fail(k, p) ==
  /\ Event("sinkFails")
  /\ lost' = lost \cup {<<p, k>>}
  /\ UNCHANGED <<buffer, stored>>

\* Mutant: the first error ends the loop.
RecordUntilError(h) ==
  /\ pc[h] = "sinks"
  /\ sink[h] \in Sinks
  /\ tried' = tried \cup {<<arg[h], sink[h]>>}
  /\ \/ /\ Deliver(sink[h], arg[h])
        /\ sink' = [sink EXCEPT ![h] = @ + 1]
        /\ UNCHANGED <<lost, events>>
     \/ Fail(sink[h], arg[h]) /\ sink' = [sink EXCEPT ![h] = NSinks + 1]
  /\ UNCHANGED <<ring, pc, arg, i, suppressed, answered>>

\* An error is joined to the others and the loop goes on.
Record(h) ==
  /\ pc[h] = "sinks"
  /\ sink[h] \in Sinks
  /\ tried' = tried \cup {<<arg[h], sink[h]>>}
  /\ \/ Deliver(sink[h], arg[h]) /\ UNCHANGED <<lost, events>>
     \/ Fail(sink[h], arg[h])
  /\ sink' = [sink EXCEPT ![h] = @ + 1]
  /\ UNCHANGED <<ring, pc, arg, i, suppressed, answered>>

Finish(h) ==
  /\ pc[h] = "sinks"
  /\ sink[h] = NSinks + 1
  /\ answered' = answered \cup {arg[h]}
  /\ Leave(h)
  /\ UNCHANGED <<ring, sinks, suppressed, events>>

Handle(h) ==
  \/ Miss(h) \/ Hit(h) \/ Panic(h)
  \/ ReadIndex(h) \/ WriteSlot(h) \/ RereadIndex(h) \/ WriteIndex(h)
  \/ Record(h) \/ Finish(h)

-----------------------------------------------------------------------------
(* The process.                                                            *)

\* Mutant: a flush drops what it should send.
FlushedNothing(k) == stored[k]

\* What sink k has stored after Flush.
Flushed(k) == stored[k] \cup buffer[k]

\* The logging client sends its buffer now and then.
BackgroundFlush(k) ==
  /\ buffer[k] # {}
  /\ stored' = [stored EXCEPT ![k] = Flushed(k)]
  /\ buffer' = [buffer EXCEPT ![k] = {}]
  /\ UNCHANGED <<ring, handler, tried, lost, suppressed, answered, events>>

\* A new process starts from scratch.
Restart ==
  /\ slot' = EmptyRing
  /\ idx' = 0
  /\ pc' = [h \in Handlers |-> "idle"]
  /\ arg' = [h \in Handlers |-> Empty]
  /\ i' = [h \in Handlers |-> 0]
  /\ sink' = [h \in Handlers |-> 1]
  /\ buffer' = NoBuffer
  /\ tried' = {}
  /\ suppressed' = {}
  /\ raced' = FALSE

\* main returns after the webhook server has drained, and runs FlushAll.
Stop ==
  /\ Event("stop")
  /\ \A h \in Handlers : pc[h] = "idle"
  /\ stored' = [k \in Sinks |-> Flushed(k)]
  /\ UNCHANGED <<answered, lost>>
  /\ Restart

\* The process is killed, or main leaves with os.Exit, which runs no defers.
Crash ==
  /\ Event("crash")
  /\ answered' = {}
  /\ lost' = {}
  /\ UNCHANGED stored
  /\ Restart

Next ==
  \/ \E h \in Handlers : (\E p \in Payloads : Request(h, p)) \/ Handle(h)
  \/ \E k \in Sinks : BackgroundFlush(k)
  \/ Stop \/ Crash

\* Goroutines run on, and the logging client sends its buffer.
Fairness ==
  /\ \A h \in Handlers : WF_vars(Handle(h))
  /\ \A k \in Sinks : WF_vars(BackgroundFlush(k))

Spec == Init /\ [][Next]_vars

FairSpec == Spec /\ Fairness

-----------------------------------------------------------------------------
(* Properties.                                                             *)

\* The index stays within the ring and a half-written slot is the only thing
\* in it that is no payload, whatever the handlers do to each other.
TypeOK ==
  /\ slot \in [Slots -> Payloads \cup {Empty, Torn}]
  /\ idx \in Slots
  /\ pc \in [Handlers -> {"idle", "scan", "index", "slot", "bump", "store", "sinks"}]
  /\ arg \in [Handlers -> Payloads \cup {Empty}]
  /\ i \in [Handlers -> Slots]
  /\ sink \in [Handlers -> 1..(NSinks + 1)]
  /\ buffer \in [Sinks -> SUBSET Payloads]
  /\ stored \in [Sinks -> SUBSET Payloads]
  /\ tried \subseteq Payloads \X Sinks
  /\ lost \subseteq Payloads \X Sinks
  /\ suppressed \subseteq Payloads
  /\ answered \subseteq Payloads
  /\ raced \in BOOLEAN
  /\ events \in 0..MaxEvents

\* Handler h has put p into the ring and is not done with the sinks.
Delivering(h, p) == arg[h] = p /\ pc[h] \in {"bump", "store", "sinks"}

\* A payload is dropped only if every sink has been given the same payload, or
\* another handler is about to do so: no race makes RecordAll drop a payload
\* nobody has handled.
SuppressedIsTried ==
  \A p \in suppressed :
    \/ \E h \in Handlers : Delivering(h, p)
    \/ \A k \in Sinks : <<p, k>> \in tried

\* Every sink has what it was given, in memory or stored, unless it failed.
Kept(p, k) == p \in buffer[k] \/ p \in stored[k]

\* A payload that was dropped has recently been recorded.
SuppressedWasRecorded ==
  \A p \in suppressed :
    \/ \E h \in Handlers : Delivering(h, p)
    \/ \A k \in Sinks : Kept(p, k)

\* Once RecordAll has returned, every sink comes to store the payload, also if
\* it was dropped because another handler had it and if the manager is stopped
\* meanwhile: again and again nothing that has been answered is outstanding.
\* Only a failure of the sink, or a crash, after which nothing is known to be
\* answered, excuses it.
AnsweredIsStored ==
  []<>(\A p \in answered, k \in Sinks : p \in stored[k] \/ <<p, k>> \in lost)

(***************************************************************************)
(* As long as one handler at a time is at the ring, it is a window of the  *)
(* last payloads: the slots in the order in which they will be reused,     *)
(* starting after the one that has been written but not yet passed by the  *)
(* index.  Until the last slot has been used, those are the slots before   *)
(* that place.                                                             *)
(***************************************************************************)
Oldest == IF \E h \in Handlers : pc[h] \in {"bump", "store"} THEN NextSlot(idx) ELSE idx

Recent ==
  IF slot[Window - 1] \in Payloads
  THEN [j \in 1..Window |-> slot[(Oldest + j - 1) % Window]]
  ELSE [j \in 1..Oldest |-> slot[j - 1]]

Dedup == INSTANCE DedupWindow WITH
           recent <- IF raced THEN <<>> ELSE Recent,
           suppressed <- IF raced THEN {} ELSE suppressed

\* Until two handlers meet at the ring, the router drops exactly the payloads
\* among the last ones it let through, although the ring is searched, filled
\* and wrapped slot by slot and requests overlap while they are at the sinks.
ImplementsDedupWindow == Dedup!Spec
=============================================================================
