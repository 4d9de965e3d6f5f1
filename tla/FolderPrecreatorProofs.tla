------------------------ MODULE FolderPrecreatorProofs ------------------------
(***************************************************************************)
(* Proofs about FolderPrecreator.                                          *)
(***************************************************************************)
EXTENDS FolderPrecreator, TLAPS

-----------------------------------------------------------------------------
(* Types.                                                                  *)

LEMMA EventType ==
  ASSUME TypeOK, NEW k, Event(k)
  PROVE  events' \in 0..MaxEvents
  BY EventsAssumption DEF Event, TypeOK

LEMMA NoWorkType ==
  /\ NoWork \in Work
  /\ NoWork.todo = {} /\ NoWork.scan = {} /\ NoWork.names = {} /\ ~NoWork.err
  /\ [NoWork EXCEPT !.err = TRUE] \in Work
  /\ [NoWork EXCEPT !.err = TRUE].todo = {}
  /\ [NoWork EXCEPT !.err = TRUE].scan = {}
  /\ [NoWork EXCEPT !.err = TRUE].names = {}
  /\ [NoWork EXCEPT !.err = TRUE].err
  /\ [NoWork EXCEPT !.todo = Buckets] \in Work
  /\ [NoWork EXCEPT !.todo = Buckets].todo = Buckets
  /\ [NoWork EXCEPT !.todo = Buckets].scan = {}
  /\ [NoWork EXCEPT !.todo = Buckets].names = {}
  /\ ~[NoWork EXCEPT !.todo = Buckets].err
  BY DEF NoWork, Work

LEMMA TakenFields ==
  ASSUME NEW w \in Work, NEW b \in w.todo
  PROVE  /\ Taken(w, b) \in Work /\ b \in Buckets
         /\ Taken(w, b).todo = w.todo \ {b} /\ Taken(w, b).at = b
         /\ Taken(w, b).scan = Folders /\ Taken(w, b).names = w.names
         /\ Taken(w, b).err = w.err
  BY DEF Work, Taken

LEMMA ListedFields ==
  ASSUME NEW w \in Work, NEW f \in w.scan
  PROVE  /\ Listed(w, f) \in Work /\ f \in Folders
         /\ Listed(w, f).todo = w.todo /\ Listed(w, f).at = w.at
         /\ Listed(w, f).scan = w.scan \ {f}
         /\ Listed(w, f).names = IF <<w.at, f>> \in remote THEN w.names \cup {f} ELSE w.names
         /\ Listed(w, f).err = w.err
  BY DEF Work, Listed

LEMMA DroppedFields ==
  ASSUME NEW w \in Work
  PROVE  /\ Dropped(w) \in Work
         /\ Dropped(w).todo = w.todo /\ Dropped(w).at = w.at
         /\ Dropped(w).scan = {} /\ Dropped(w).names = {} /\ Dropped(w).err
  BY DEF Work, Dropped

LEMMA TriedFields ==
  ASSUME NEW w \in Work, NEW f \in w.names
  PROVE  /\ Tried(w, f) \in Work /\ f \in Folders
         /\ Tried(w, f).todo = w.todo /\ Tried(w, f).at = w.at
         /\ Tried(w, f).scan = w.scan /\ Tried(w, f).names = w.names \ {f}
         /\ Tried(w, f).err = (w.err \/ Fails(w.at, f))
<1>1. (w.err \/ Fails(w.at, f)) \in BOOLEAN
  OBVIOUS
<1>. QED
  BY <1>1 DEF Work, Tried

LEMMA MadeType ==
  ASSUME NEW b \in Buckets, NEW f \in Folders
  PROVE  Made(b, f) \in SUBSET All
  BY PathAssumption DEF Made, All

\* One process has new local variables of the right types.
LEMMA WorkType ==
  ASSUME TypeOK, NEW p \in Procs, NEW w \in Work,
         work' = [work EXCEPT ![p] = w],
         w.scan \cup w.names # {} => w.at \in Buckets
  PROVE  /\ work' \in [Procs -> Work]
         /\ \A q \in Procs :
              work'[q].scan \cup work'[q].names # {} => work'[q].at \in Buckets
<1>. DEFINE Named(v) == v.scan \cup v.names # {} => v.at \in Buckets
<1>1. /\ work \in [Procs -> Work]
      /\ \A q \in Procs : Named(work[q])
      /\ Named(w)
  BY DEF TypeOK
<1>. HIDE DEF Named
<1>2. work' \in [Procs -> Work] /\ \A q \in Procs : Named(work'[q])
  BY <1>1
<1>. QED
  BY <1>2 DEF Named

\* Whatever the buckets do and wherever a population fails, the variables keep
\* their types, and whoever lists or makes folders has a bucket at hand.
THEOREM TypeCorrect == Spec => []TypeOK
<1>. USE DEF Procs, All, Populating, Populated, Answered
<1>1. Init => TypeOK
  <2>1. ASSUME Init PROVE work \in [Procs -> Work] /\ \A p \in Procs : work[p] = NoWork
    BY <2>1, NoWorkType DEF Init
  <2>2. ASSUME Init PROVE TypeOK
    <3>1. pc \in [Procs -> Populating \cup Answered \cup {"idle", "tryLock"}]
      BY <2>2 DEF Init
    <3>2. \A p \in Procs : work[p].scan \cup work[p].names = {}
      BY <2>1, <2>2, NoWorkType
    <3>3. events \in 0..MaxEvents
      BY <2>2, EventsAssumption DEF Init
    <3>. QED
      BY <2>1, <2>2, <3>1, <3>2, <3>3 DEF Init, TypeOK
  <2>. QED
    BY <2>2
<1>2. TypeOK /\ [Next]_vars => TypeOK'
  <2>. SUFFICES ASSUME TypeOK, [Next]_vars PROVE TypeOK'
    OBVIOUS
  <2>1. ASSUME NEW p \in Procs, ReadDir(p) PROVE TypeOK'
    <3>1. PICK w \in {[NoWork EXCEPT !.todo = Buckets], [NoWork EXCEPT !.err = TRUE]} :
            work' = [work EXCEPT ![p] = w]
      BY <2>1 DEF ReadDir
    <3>2. w \in Work /\ w.scan = {} /\ w.names = {}
      BY NoWorkType
    <3>3. events' \in 0..MaxEvents /\ skipped' \in [Procs -> SUBSET All]
      BY <2>1, EventType DEF ReadDir, TypeOK
    <3>. QED
      BY <2>1, <3>1, <3>2, <3>3, WorkType DEF ReadDir, TypeOK, Goto, world
  <2>2. ASSUME NEW p \in Procs, NextBucket(p) PROVE TypeOK'
    <3>1. PICK b \in work[p].todo : work' = [work EXCEPT ![p] = Taken(work[p], b)]
      BY <2>2 DEF NextBucket
    <3>2. work[p] \in Work
      BY DEF TypeOK
    <3>. QED
      BY <2>2, <3>1, <3>2, TakenFields, WorkType DEF NextBucket, TypeOK, world
  <2>3. ASSUME NEW p \in Procs, ListFolder(p) PROVE TypeOK'
    <3>1. PICK f \in work[p].scan : work' = [work EXCEPT ![p] = Listed(work[p], f)]
      BY <2>3 DEF ListFolder
    <3>2. work[p] \in Work /\ work[p].at \in Buckets
      BY <3>1 DEF TypeOK
    <3>3. /\ Listed(work[p], f) \in Work
          /\ Listed(work[p], f).at \in Buckets
      BY <3>1, <3>2, ListedFields
    <3>. QED
      BY <2>3, <3>1, <3>3, WorkType DEF ListFolder, TypeOK, world
  <2>4. ASSUME NEW p \in Procs, ListFails(p) PROVE TypeOK'
    <3>1. work[p] \in Work /\ work[p].at \in Buckets
      BY <2>4 DEF ListFails, TypeOK
    <3>2. events' \in 0..MaxEvents /\ skipped' \in [Procs -> SUBSET All]
      BY <2>4, <3>1, EventType DEF ListFails, TypeOK
    <3>3. work' = [work EXCEPT ![p] = Dropped(work[p])]
      BY <2>4 DEF ListFails
    <3>. QED
      BY <2>4, <3>1, <3>2, <3>3, DroppedFields, WorkType DEF ListFails, TypeOK, world
  <2>5. ASSUME NEW p \in Procs, CreateFolder(p) PROVE TypeOK'
    <3>. DEFINE b == work[p].at
    <3>1. PICK f \in work[p].names :
            /\ disk' = disk \cup Made(b, f)
            /\ remote' = remote \cup Made(b, f)
            /\ work' = [work EXCEPT ![p] = Tried(work[p], f)]
            /\ skipped' = [skipped EXCEPT ![p] = @ \cup (IF Fails(b, f) THEN {<<b, f>>} ELSE {})]
      BY <2>5 DEF CreateFolder
    <3>2. work[p] \in Work /\ b \in Buckets /\ f \in Folders
      BY <3>1, TriedFields DEF TypeOK
    <3>3. Made(b, f) \in SUBSET All
      BY <3>2, MadeType
    <3>4. /\ work' \in [Procs -> Work]
          /\ \A q \in Procs :
               work'[q].scan \cup work'[q].names # {} => work'[q].at \in Buckets
      BY <3>1, <3>2, TriedFields, WorkType
    <3>5. skipped' \in [Procs -> SUBSET All]
      BY <3>1, <3>2 DEF TypeOK
    <3>. QED
      BY <2>5, <3>1, <3>3, <3>4, <3>5 DEF CreateFolder, TypeOK
  <2>6. ASSUME NEW p \in Procs, Finish(p) PROVE TypeOK'
    BY <2>6, NoWorkType, WorkType DEF Finish, TypeOK, Goto, world
  <2>7. ASSUME NEW c \in Clients, Request(c) PROVE TypeOK'
    <3>1. events' \in 0..MaxEvents
      BY <2>7, EventType DEF Request
    <3>. QED
      BY <2>7, <3>1 DEF Request, TypeOK, Goto, world
  <2>8. ASSUME NEW c \in Clients, TryLock(c) PROVE TypeOK'
    BY <2>8 DEF TryLock, TypeOK, Goto, world
  <2>9. ASSUME NEW d \in All, Upload(d) \/ Remove(d) \/ CreateFile(d) PROVE TypeOK'
    <3>1. events' \in 0..MaxEvents
      BY <2>9, EventType DEF Upload, Remove, CreateFile
    <3>. QED
      BY <2>9, <3>1 DEF Upload, Remove, CreateFile, TypeOK
  <2>10. CASE Crash
    <3>1. events' \in 0..MaxEvents
      BY <2>10, EventType DEF Crash
    <3>. QED
      BY <2>10, <3>1, NoWorkType DEF Crash, TypeOK, world
  <2>11. CASE UNCHANGED vars
    BY <2>11 DEF vars, TypeOK
  <2>. QED
    BY <2>1, <2>2, <2>3, <2>4, <2>5, <2>6, <2>7, <2>8, <2>9, <2>10, <2>11
    DEF Next, Populate
<1>. QED
  BY <1>1, <1>2, PTL DEF Spec

-----------------------------------------------------------------------------
(* Mutual exclusion.                                                       *)

\* Before the server is up only main runs; afterwards it is done, and a client
\* that populates has the mutex to itself.
MutexInv ==
  /\ ~Serving => \A c \in Clients : pc[c] = "idle"
  /\ \A c \in Clients : pc[c] \in Populating => lock
  /\ \A c, d \in Clients : pc[c] \in Populating /\ pc[d] \in Populating => c = d

LEMMA MutexStep == TypeOK /\ MutexInv /\ [Next]_vars => MutexInv'
<1>. SUFFICES ASSUME TypeOK, MutexInv, [Next]_vars PROVE MutexInv'
  OBVIOUS
<1>. USE ProcAssumption DEF Procs, Populating, Populated, Answered
<1>1. pc \in [Procs -> Populating \cup Answered \cup {"idle", "tryLock"}]
  BY DEF TypeOK
<1>2. ASSUME NEW p \in Procs, ReadDir(p) PROVE MutexInv'
  BY <1>1, <1>2 DEF MutexInv, ReadDir, Goto, Serving
<1>3. ASSUME NEW p \in Procs,
             NextBucket(p) \/ ListFolder(p) \/ ListFails(p) \/ CreateFolder(p)
      PROVE  MutexInv'
  BY <1>3 DEF MutexInv, NextBucket, ListFolder, ListFails, CreateFolder, Serving
<1>4. ASSUME NEW p \in Procs, Finish(p) PROVE MutexInv'
  <2>1. CASE p = Main
    BY <1>1, <1>4, <2>1 DEF MutexInv, Finish, Goto, Serving
  <2>2. CASE p \in Clients
    BY <1>1, <1>4, <2>2 DEF MutexInv, Finish, Goto, Serving
  <2>. QED
    BY <2>1, <2>2
<1>5. ASSUME NEW c \in Clients, Request(c) \/ TryLock(c) PROVE MutexInv'
  BY <1>1, <1>5 DEF MutexInv, Request, TryLock, Goto, Serving
<1>6. ASSUME NEW d \in All, Upload(d) \/ Remove(d) \/ CreateFile(d) PROVE MutexInv'
  BY <1>6 DEF MutexInv, Upload, Remove, CreateFile, Serving
<1>7. CASE Crash
  BY <1>7 DEF MutexInv, Crash, Serving
<1>8. CASE UNCHANGED vars
  BY <1>8 DEF vars, MutexInv, Serving
<1>. QED
  BY <1>2, <1>3, <1>4, <1>5, <1>6, <1>7, <1>8 DEF Next, Populate

\* No two populations overlap, for any number of clients: the mutex keeps the
\* handlers apart, and the order in main keeps the initial population apart.
THEOREM MutualExclusion == Spec => []OneAtATime
<1>1. Init => MutexInv
  BY ProcAssumption DEF Init, MutexInv, Procs, Populating
<1>2. TypeOK /\ MutexInv => OneAtATime
  BY DEF TypeOK, MutexInv, OneAtATime, Procs, Populating, Serving, Populated
<1>. QED
  BY <1>1, <1>2, MutexStep, TypeCorrect, PTL DEF Spec

-----------------------------------------------------------------------------
(* What a population achieves.                                             *)

\* The folders that process p still has to look at or to make.
Pending(p) ==
  {d \in All : \/ d[1] \in work[p].todo
               \/ d[1] = work[p].at /\ d[2] \in work[p].scan \cup work[p].names}

\* While p populates, what it owes is made, skipped or pending; it has skipped
\* nothing unless allErr is set; and it owes nothing that the buckets lack.
Progress(p) ==
  /\ due[p] \subseteq remote
  /\ pc[p] \in {"tryLock", "readDir"} => skipped[p] = {}
  /\ pc[p] = "populate" =>
       /\ due[p] \subseteq disk \cup skipped[p] \cup Pending(p)
       /\ ~work[p].err => skipped[p] = {}
  /\ pc[p] = "ok" => due[p] \subseteq disk
  /\ pc[p] = "failed" => due[p] \subseteq disk \cup skipped[p]

ProgressInv == \A p \in Procs : Progress(p)

\* A step of p that leaves the others and their folders alone.
LEMMA OthersProgress ==
  ASSUME TypeOK, ProgressInv, NEW p \in Procs, NEW q \in Procs, p # q,
         pc'[q] = pc[q], work'[q] = work[q],
         remote \subseteq remote', disk \subseteq disk',
         due'[q] = due[q], skipped'[q] = skipped[q]
  PROVE  Progress(q)'
<1>1. Progress(q)
  BY DEF ProgressInv
<1>2. Pending(q)' = Pending(q)
  BY DEF Pending
<1>. QED
  BY <1>1, <1>2 DEF Progress

LEMMA ProgressStep == TypeOK /\ ProgressInv /\ [Next]_vars => ProgressInv'
<1>. SUFFICES ASSUME TypeOK, ProgressInv, [Next]_vars PROVE ProgressInv'
  OBVIOUS
<1>1. /\ pc \in [Procs -> Populating \cup Answered \cup {"idle", "tryLock"}]
      /\ work \in [Procs -> Work]
      /\ due \in [Procs -> SUBSET All]
      /\ skipped \in [Procs -> SUBSET All]
  BY DEF TypeOK
<1>2. ASSUME NEW p \in Procs, Populate(p) PROVE ProgressInv'
  <2>1. Progress(p) /\ work[p] \in Work /\ due[p] \in SUBSET All
    BY <1>1 DEF ProgressInv
  <2>2. \A d \in All : d = <<d[1], d[2]>> /\ d[1] \in Buckets /\ d[2] \in Folders
    BY DEF All
  <2>3. Progress(p)'
    <3>1. CASE ReadDir(p)
      <4>1. CASE work' = [work EXCEPT ![p] = [NoWork EXCEPT !.todo = Buckets]]
                 /\ skipped' = skipped
        <5>1. work'[p].todo = Buckets /\ ~work'[p].err
          BY <1>1, <4>1, NoWorkType
        <5>2. Pending(p)' = All
          BY <2>2, <5>1 DEF Pending
        <5>. QED
          BY <1>1, <2>1, <3>1, <4>1, <5>1, <5>2 DEF ReadDir, Goto, world, Progress
      <4>2. CASE work' = [work EXCEPT ![p] = [NoWork EXCEPT !.err = TRUE]]
                 /\ skipped' = [skipped EXCEPT ![p] = All]
        <5>1. work'[p].err
          BY <1>1, <4>2, NoWorkType
        <5>. QED
          BY <1>1, <2>1, <3>1, <4>2, <5>1 DEF ReadDir, Goto, world, Progress
      <4>. QED
        BY <3>1, <4>1, <4>2 DEF ReadDir
    <3>2. CASE NextBucket(p)
      <4>1. PICK b \in work[p].todo : work' = [work EXCEPT ![p] = Taken(work[p], b)]
        BY <3>2 DEF NextBucket
      <4>2. /\ work'[p].todo = work[p].todo \ {b} /\ work'[p].at = b
            /\ work'[p].scan = Folders /\ work'[p].err = work[p].err
        BY <1>1, <2>1, <4>1, TakenFields
      <4>3. Pending(p) \subseteq Pending(p)'
        BY <2>2, <3>2, <4>1, <4>2 DEF NextBucket, Pending
      <4>. QED
        BY <2>1, <3>2, <4>2, <4>3 DEF NextBucket, world, Progress
    <3>3. CASE ListFolder(p)
      <4>1. PICK f \in work[p].scan : work' = [work EXCEPT ![p] = Listed(work[p], f)]
        BY <3>3 DEF ListFolder
      <4>2. /\ work'[p].todo = work[p].todo /\ work'[p].at = work[p].at
            /\ work'[p].scan = work[p].scan \ {f} /\ work'[p].err = work[p].err
            /\ work'[p].names = IF <<work[p].at, f>> \in remote
                                THEN work[p].names \cup {f} ELSE work[p].names
        BY <1>1, <2>1, <4>1, ListedFields
      <4>3. remote \cap Pending(p) \subseteq Pending(p)'
        BY <2>2, <4>2 DEF Pending
      <4>. QED
        BY <2>1, <3>3, <4>2, <4>3 DEF ListFolder, world, Progress
    <3>4. CASE ListFails(p)
      <4>1. /\ work'[p].todo = work[p].todo /\ work'[p].err
            /\ skipped'[p] = skipped[p] \cup ({work[p].at} \X Folders)
        BY <1>1, <2>1, <3>4, DroppedFields DEF ListFails
      <4>2. Pending(p) \subseteq Pending(p)' \cup ({work[p].at} \X Folders)
        BY <2>2, <4>1 DEF Pending
      <4>. QED
        BY <2>1, <3>4, <4>1, <4>2 DEF ListFails, world, Progress
    <3>5. CASE CreateFolder(p)
      <4>. DEFINE b == work[p].at
      <4>1. PICK f \in work[p].names :
              /\ disk' = disk \cup Made(b, f)
              /\ remote' = remote \cup Made(b, f)
              /\ work' = [work EXCEPT ![p] = Tried(work[p], f)]
              /\ skipped' = [skipped EXCEPT ![p] = @ \cup (IF Fails(b, f) THEN {<<b, f>>} ELSE {})]
        BY <3>5 DEF CreateFolder
      <4>2. /\ work'[p].todo = work[p].todo /\ work'[p].at = b
            /\ work'[p].scan = work[p].scan /\ work'[p].names = work[p].names \ {f}
            /\ work'[p].err = (work[p].err \/ Fails(b, f))
        BY <1>1, <2>1, <4>1, TriedFields
      <4>3. Pending(p) \subseteq Pending(p)' \cup {<<b, f>>}
        BY <2>2, <4>2 DEF Pending
      <4>4. <<b, f>> \in disk' \cup skipped'[p]
        BY <1>1, <4>1 DEF Fails
      <4>5. ~work'[p].err => skipped'[p] = skipped[p] /\ ~work[p].err
        BY <1>1, <4>1, <4>2
      <4>6. skipped[p] \subseteq skipped'[p]
        BY <1>1, <4>1
      <4>. QED
        BY <2>1, <3>5, <4>1, <4>3, <4>4, <4>5, <4>6 DEF CreateFolder, Progress
    <3>6. CASE Finish(p)
      <4>1. Pending(p) = {}
        BY <3>6 DEF Finish, Pending
      <4>. QED
        BY <1>1, <2>1, <3>6, <4>1 DEF Finish, Goto, world, Progress
    <3>. QED
      BY <1>2, <3>1, <3>2, <3>3, <3>4, <3>5, <3>6 DEF Populate
  <2>4. ASSUME NEW q \in Procs, p # q PROVE Progress(q)'
    <3>1. /\ pc'[q] = pc[q] /\ work'[q] = work[q]
          /\ remote \subseteq remote' /\ disk \subseteq disk'
          /\ due'[q] = due[q] /\ skipped'[q] = skipped[q]
      BY <1>1, <1>2, <2>4
      DEF Populate, ReadDir, NextBucket, ListFolder, ListFails, CreateFolder, Finish,
          Goto, world
    <3>. QED
      BY <2>4, <3>1, OthersProgress
  <2>. QED
    BY <2>3, <2>4 DEF ProgressInv
<1>3. ASSUME NEW c \in Clients, Request(c) \/ TryLock(c) PROVE ProgressInv'
  <2>1. c \in Procs /\ Progress(c)
    BY DEF Procs, ProgressInv
  <2>2. Progress(c)'
    BY <1>1, <1>3, <2>1 DEF Request, TryLock, Goto, world, Progress
  <2>3. ASSUME NEW q \in Procs, c # q PROVE Progress(q)'
    <3>1. /\ pc'[q] = pc[q] /\ work'[q] = work[q]
          /\ remote \subseteq remote' /\ disk \subseteq disk'
          /\ due'[q] = due[q] /\ skipped'[q] = skipped[q]
      BY <1>1, <1>3, <2>3 DEF Request, TryLock, Goto, world
    <3>. QED
      BY <2>1, <2>3, <3>1, OthersProgress
  <2>. QED
    BY <2>2, <2>3 DEF ProgressInv
<1>4. ASSUME NEW d \in All, Upload(d) \/ Remove(d) \/ CreateFile(d) PROVE ProgressInv'
  <2>. SUFFICES ASSUME NEW q \in Procs PROVE Progress(q)'
    BY DEF ProgressInv
  <2>1. Progress(q)
    BY DEF ProgressInv
  <2>2. pc' = pc /\ work' = work /\ skipped' = skipped /\ Pending(q)' = Pending(q)
    BY <1>4 DEF Upload, Remove, CreateFile, Pending
  <2>3. CASE Remove(d)
    <3>1. /\ due'[q] = due[q] \ Below(d)
          /\ remote' = remote \ Below(d)
          /\ disk' = disk \ Below(d)
      BY <2>3 DEF Remove
    <3>. QED
      BY <2>1, <2>2, <3>1 DEF Progress
  <2>4. CASE Upload(d) \/ CreateFile(d)
    <3>1. due' = due /\ disk' = disk /\ remote \subseteq remote'
      BY <2>4 DEF Upload, CreateFile
    <3>. QED
      BY <2>1, <2>2, <3>1 DEF Progress
  <2>. QED
    BY <1>4, <2>3, <2>4
<1>5. CASE Crash
  BY <1>5 DEF Crash, world, ProgressInv, Progress
<1>6. CASE UNCHANGED vars
  BY <1>6 DEF vars, ProgressInv, Progress, Pending
<1>. QED
  BY <1>2, <1>3, <1>4, <1>5, <1>6 DEF Next

\* A refresh answered 200 has made all that was asked of it, one answered 500
\* all but what failed itself, for any buckets, folders and clients, whatever
\* other populations, uploads and removals did meanwhile.
THEOREM Refreshed == Spec => []FoldersMade
<1>1. Init => ProgressInv
  BY DEF Init, ProgressInv, Progress
<1>2. ProgressInv => FoldersMade
  BY DEF ProgressInv, Progress, FoldersMade
<1>. QED
  BY <1>1, <1>2, ProgressStep, TypeCorrect, PTL DEF Spec
=============================================================================
