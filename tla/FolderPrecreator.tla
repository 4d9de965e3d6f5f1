--------------------------- MODULE FolderPrecreator ---------------------------
(***************************************************************************)
(* The folder precreator, a container next to the user's service: it makes *)
(* the folders of every mounted bucket exist in the mount.  main populates *)
(* all buckets and then serves /refresh-folders, whose handler populates   *)
(* them again under a mutex it only tries to lock.                         *)
(*                                                                         *)
(* A folder is a pair <<bucket, folder>>.  Path[f] is f and the folders    *)
(* above it, those that MkdirAll makes for f.                              *)
(***************************************************************************)
EXTENDS Naturals

CONSTANTS
  Main,      \* the main goroutine
  Clients,   \* those who ask for a refresh
  Buckets,   \* the directories in /buckets
  Folders,   \* the folders that may be in a bucket
  Path,
  NoBucket,  \* no bucket at hand
  Env,       \* the environment events that may happen, a subset of EnvKinds
  MaxEvents  \* how many of them may happen in one behaviour

(***************************************************************************)
(* request    a client asks for a refresh                                  *)
(* upload     an object is written to a folder the bucket did not have     *)
(* remove     a folder is removed with all that is in it                   *)
(* file       a file gets the name of a folder that the mount lacks        *)
(* readFails, listFails   /buckets cannot be read, a bucket not be listed  *)
(* crash      the container restarts                                       *)
(***************************************************************************)
EnvKinds ==
  {"request", "upload", "remove", "file", "readFails", "listFails", "crash"}

ASSUME ProcAssumption == Main \notin Clients
ASSUME BucketAssumption == NoBucket \notin Buckets
ASSUME PathAssumption ==
  /\ Path \in [Folders -> SUBSET Folders]
  /\ \A f \in Folders : f \in Path[f]
  /\ \A f \in Folders : \A g \in Path[f] : Path[g] \subseteq Path[f]
ASSUME EventsAssumption == Env \subseteq EnvKinds /\ MaxEvents \in Nat

VARIABLES
  pc,       \* where each goroutine is, or its client's last answer
  work,     \* its local variables
  lock,     \* the mutex
  remote,   \* the folders that the buckets have
  disk,     \* the folders in the mounts
  files,    \* the folders whose name a file has
  due,      \* history: the folders that have been there since it began
  skipped,  \* history: the folders for which it met an error
  events    \* environment events left

vars == <<pc, work, lock, remote, disk, files, due, skipped, events>>
world == <<remote, disk, files>>

Procs == Clients \cup {Main}
All == Buckets \X Folders

Populating == {"readDir", "populate"}
Populated == {"ok", "failed"}

\* todo: buckets to come; at: the bucket at hand; scan: its folders the
\* listing has not reached yet; names: the map of names, then the folders to
\* make; err: allErr # nil.
Work == [todo: SUBSET Buckets, at: Buckets \cup {NoBucket},
         scan: SUBSET Folders, names: SUBSET Folders, err: BOOLEAN]

NoWork == [todo |-> {}, at |-> NoBucket, scan |-> {}, names |-> {}, err |-> FALSE]

Init ==
  /\ pc = [p \in Procs |-> IF p = Main THEN "readDir" ELSE "idle"]
  /\ work = [p \in Procs |-> NoWork]
  /\ lock = FALSE
  /\ remote \in SUBSET All
  /\ disk = {}
  /\ files = {}
  /\ due = [p \in Procs |-> IF p = Main THEN remote ELSE {}]
  /\ skipped = [p \in Procs |-> {}]
  /\ events = MaxEvents

Event(kind) ==
  /\ kind \in Env
  /\ events > 0
  /\ events' = events - 1

Goto(p, l) == pc' = [pc EXCEPT ![p] = l]

-----------------------------------------------------------------------------
(* PopulateAllBucketFolders.                                               *)

ReadDir(p) ==
  /\ pc[p] = "readDir"
  /\ \/ /\ work' = [work EXCEPT ![p] = [NoWork EXCEPT !.todo = Buckets]]
        /\ UNCHANGED <<skipped, events>>
     \/ /\ Event("readFails")
        /\ work' = [work EXCEPT ![p] = [NoWork EXCEPT !.err = TRUE]]
        /\ skipped' = [skipped EXCEPT ![p] = All]
  /\ Goto(p, "populate")
  /\ UNCHANGED <<lock, world, due>>

\* Mutant: the BucketMount has no BucketName.
TakenUnnamed(w, b) == [w EXCEPT !.todo = @ \ {b}, !.scan = Folders]

Taken(w, b) == [w EXCEPT !.todo = @ \ {b}, !.at = b, !.scan = Folders]

\* One bucket after the other.
NextBucket(p) ==
  /\ pc[p] = "populate"
  /\ work[p].scan = {} /\ work[p].names = {}
  /\ \E b \in work[p].todo : work' = [work EXCEPT ![p] = Taken(work[p], b)]
  /\ UNCHANGED <<pc, lock, world, due, skipped, events>>

Listed(w, f) ==
  [w EXCEPT !.scan = @ \ {f},
            !.names = IF <<w.at, f>> \in remote THEN @ \cup {f} ELSE @]

\* The listing reaches the objects of folder f, or the place where they would
\* be; the bucket may change meanwhile.
ListFolder(p) ==
  /\ pc[p] = "populate"
  /\ \E f \in work[p].scan : work' = [work EXCEPT ![p] = Listed(work[p], f)]
  /\ UNCHANGED <<pc, lock, world, due, skipped, events>>

\* Mutant: the first bucket that cannot be listed ends the population.
DroppedAll(w) == [NoWork EXCEPT !.err = TRUE]

\* An error of the listing drops what it has found; the next bucket follows.
Dropped(w) == [w EXCEPT !.scan = {}, !.names = {}, !.err = TRUE]

ListFails(p) ==
  /\ pc[p] = "populate"
  /\ work[p].scan # {}
  /\ Event("listFails")
  /\ work' = [work EXCEPT ![p] = Dropped(work[p])]
  /\ skipped' = [skipped EXCEPT ![p] = @ \cup ({work[p].at} \X Folders)]
  /\ UNCHANGED <<pc, lock, world, due>>

\* MkdirAll goes down the path of f as far as no file is in its way.
Made(b, f) ==
  {<<b, g>> : g \in {g \in Path[f] : \A h \in Path[g] : <<b, h>> \notin files}}

Fails(b, f) == <<b, f>> \notin Made(b, f)

Tried(w, f) == [w EXCEPT !.names = @ \ {f}, !.err = w.err \/ Fails(w.at, f)]

\* names is a Go map, whose keys come in any order.  A directory made in the
\* mount becomes an object of the bucket.
CreateFolder(p) ==
  /\ pc[p] = "populate"
  /\ work[p].scan = {}
  /\ \E f \in work[p].names :
       LET b == work[p].at
       IN /\ disk' = disk \cup Made(b, f)
          /\ remote' = remote \cup Made(b, f)
          /\ work' = [work EXCEPT ![p] = Tried(work[p], f)]
          /\ skipped' = [skipped EXCEPT ![p] = @ \cup (IF Fails(b, f) THEN {<<b, f>>} ELSE {})]
  /\ UNCHANGED <<pc, lock, files, due, events>>

-----------------------------------------------------------------------------
(* main and the handler.                                                   *)

\* Mutant: the handler unlocks after success only.
FinishLocked(p) ==
  /\ pc[p] = "populate"
  /\ work[p].todo = {} /\ work[p].scan = {} /\ work[p].names = {}
  /\ Goto(p, IF work[p].err THEN "failed" ELSE "ok")
  /\ lock' = (lock /\ (p = Main \/ work[p].err))
  /\ work' = [work EXCEPT ![p] = NoWork]
  /\ UNCHANGED <<world, due, skipped, events>>

\* main goes on to serve whatever came of it; the handler answers 200 or 500,
\* and its deferred Unlock runs before the answer is sent.
Finish(p) ==
  /\ pc[p] = "populate"
  /\ work[p].todo = {} /\ work[p].scan = {} /\ work[p].names = {}
  /\ Goto(p, IF work[p].err THEN "failed" ELSE "ok")
  /\ lock' = (lock /\ p = Main)
  /\ work' = [work EXCEPT ![p] = NoWork]
  /\ UNCHANGED <<world, due, skipped, events>>

\* Mutant: the server is started before the initial population.
AlwaysServing == TRUE

\* Mutant: main gives up after an error, as it does without a client.
ServingIfPopulated == pc[Main] = "ok"

\* ListenAndServe follows the initial population.
Serving == pc[Main] \in Populated

Answered == Populated \cup {"busy"}

Request(c) ==
  /\ Serving
  /\ pc[c] \in Answered \cup {"idle"}
  /\ Event("request")
  /\ Goto(c, "tryLock")
  /\ due' = [due EXCEPT ![c] = remote]
  /\ skipped' = [skipped EXCEPT ![c] = {}]
  /\ UNCHANGED <<work, lock, world>>

TryLock(c) ==
  /\ pc[c] = "tryLock"
  /\ Goto(c, IF lock THEN "busy" ELSE "readDir")
  /\ lock' = TRUE
  /\ UNCHANGED <<work, world, due, skipped, events>>

\* The pod's volumes outlive the container; its clients get no answer.
Crash ==
  /\ Event("crash")
  /\ pc' = [p \in Procs |-> IF p = Main THEN "readDir" ELSE "idle"]
  /\ work' = [p \in Procs |-> NoWork]
  /\ lock' = FALSE
  /\ due' = [p \in Procs |-> IF p = Main THEN remote ELSE {}]
  /\ skipped' = [p \in Procs |-> {}]
  /\ UNCHANGED world

-----------------------------------------------------------------------------
(* The buckets and their mounts.                                           *)

Upload(d) ==
  /\ d \notin remote
  /\ Event("upload")
  /\ remote' = remote \cup {d}
  /\ UNCHANGED <<pc, work, lock, disk, files, due, skipped>>

Below(d) == {e \in All : e[1] = d[1] /\ d[2] \in Path[e[2]]}

Remove(d) ==
  /\ d \in remote \cup disk
  /\ Event("remove")
  /\ remote' = remote \ Below(d)
  /\ disk' = disk \ Below(d)
  /\ due' = [p \in Procs |-> due[p] \ Below(d)]
  /\ UNCHANGED <<pc, work, lock, files, skipped>>

CreateFile(d) ==
  /\ d \notin disk \cup files
  /\ Event("file")
  /\ files' = files \cup {d}
  /\ UNCHANGED <<pc, work, lock, remote, disk, due, skipped>>

-----------------------------------------------------------------------------
Populate(p) ==
  \/ ReadDir(p) \/ NextBucket(p) \/ ListFolder(p) \/ ListFails(p)
  \/ CreateFolder(p) \/ Finish(p)

Next ==
  \/ \E p \in Procs : Populate(p)
  \/ \E c \in Clients : Request(c) \/ TryLock(c)
  \/ \E d \in All : Upload(d) \/ Remove(d) \/ CreateFile(d)
  \/ Crash

\* Goroutines run on, and calls of Cloud Storage and of the mount return.
Fairness ==
  /\ \A p \in Procs : WF_vars(Populate(p))
  /\ \A c \in Clients : WF_vars(TryLock(c))

Spec == Init /\ [][Next]_vars

FairSpec == Spec /\ Fairness

-----------------------------------------------------------------------------
(* Properties.                                                             *)

\* The variables have their types, and whoever lists or creates has a bucket
\* at hand.
TypeOK ==
  /\ pc \in [Procs -> Populating \cup Answered \cup {"idle", "tryLock"}]
  /\ work \in [Procs -> Work]
  /\ \A p \in Procs : work[p].scan \cup work[p].names # {} => work[p].at \in Buckets
  /\ lock \in BOOLEAN
  /\ remote \in SUBSET All /\ disk \in SUBSET All /\ files \in SUBSET All
  /\ due \in [Procs -> SUBSET All]
  /\ skipped \in [Procs -> SUBSET All]
  /\ events \in 0..MaxEvents

\* No two populations run at a time, although the initial one does not take
\* the mutex: main starts the server after it.
OneAtATime ==
  \A p, q \in Procs : pc[p] \in Populating /\ pc[q] \in Populating => p = q

\* A refresh that is answered 200 has made every folder that was in a bucket
\* when it was asked for and has not been removed since.  One that is answered
\* 500 has still made all but those it met an error for: an unreadable bucket
\* or a file in the way does not stop the rest.  The same goes for the initial
\* population.
FoldersMade ==
  \A p \in Procs :
    /\ pc[p] = "ok" => due[p] \subseteq disk
    /\ pc[p] = "failed" => due[p] \subseteq disk \cup skipped[p]

\* The mutex is unlocked again, also after an error.
LockReleased == lock ~> ~lock

\* The server comes up after every start, and it answers every request unless
\* the container restarts.
RequestAnswered ==
  /\ []<>Serving
  /\ \A c \in Clients : pc[c] = "tryLock" ~> pc[c] \in Answered \cup {"idle"}
=============================================================================
