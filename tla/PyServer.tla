------------------------------ MODULE PyServer ------------------------------
(***************************************************************************)
(* Store.ensure of servers/py/s3store.py and _load of servers/py/server.py *)
(* under gunicorn: several worker processes, each with several threads,    *)
(* one cache directory for all.  The locks and the open h5py files belong  *)
(* to a worker; the cached files and sidecars are shared.  Versions, ETags *)
(* and the number 0 are as in S3Store.                                     *)
(***************************************************************************)
EXTENDS Naturals

CONSTANTS
  Keys,         \* S3 object keys
  Threads,      \* request threads of all workers
  Workers,      \* worker processes
  WorkerOf,     \* WorkerOf[t]: the worker that thread t belongs to
  NoKey,        \* the key of an idle thread
  MaxVersion,   \* bound on the versions an object goes through
  MaxKills,     \* bound on the kills of workers
  Faults,       \* may S3 calls and file operations fail?
  Cleans        \* may a cleaner remove files of the cache directory?

ASSUME PyServerAssumption ==
  /\ NoKey \notin Keys
  /\ WorkerOf \in [Threads -> Workers]
  /\ MaxVersion \in Nat \ {0}
  /\ MaxKills \in Nat
  /\ Faults \in BOOLEAN
  /\ Cleans \in BOOLEAN

VARIABLES
  content,      \* bucket: the version under each key
  present,      \* bucket: FALSE while the object is deleted
  file,         \* disk: the version in _local_path(k), 0 if none
  sidecar,      \* disk: the ETag in _local_path(k).etag, 0 if none or empty
  handles,      \* handles[w][k]: version of the file w keeps open in
                \* _tree_cache, 0 if none
  pc,           \* pc[t]: what thread t does next
  key,          \* key[t]: the object it was asked for
  etag,         \* etag[t]: ETag head_object gave t
  got,          \* got[t]: version in t's temp file, or in the cached file
  view,         \* view[t]: version of the h5py file t answers from
  since,        \* history: content[key[t]] at the request
  born,         \* history: born[w] is content when worker w was started
  kills         \* number of workers killed so far

bucket == <<content, present>>
disk == <<file, sidecar>>
workers == <<handles, born, kills>>
locals == <<key, etag, got, view, since>>
vars == <<bucket, disk, workers, pc, locals>>

\* From "head" to "write" thread t holds its worker's lock of key[t]; at
\* "open" it holds _tree_lock of its worker.
InEnsure == {"head", "exists", "sidecar", "get", "replace", "truncate", "write"}
PC == {"idle", "lock", "tree", "open", "answered"} \cup InEnsure

Goto(t, l) == pc' = [pc EXCEPT ![t] = l]

Init ==
  /\ content = [k \in Keys |-> 1]
  /\ present = [k \in Keys |-> TRUE]
  /\ file = [k \in Keys |-> 0]
  /\ sidecar = [k \in Keys |-> 0]
  /\ handles = [w \in Workers |-> [k \in Keys |-> 0]]
  /\ pc = [t \in Threads |-> "idle"]
  /\ key = [t \in Threads |-> NoKey]
  /\ etag = [t \in Threads |-> 0]
  /\ got = [t \in Threads |-> 0]
  /\ view = [t \in Threads |-> 0]
  /\ since = [t \in Threads |-> 0]
  /\ born = [w \in Workers |-> content]
  /\ kills = 0

-----------------------------------------------------------------------------
(* ensure.                                                                 *)

Ask(t, k) ==
  /\ pc[t] = "idle"
  /\ Goto(t, "lock")
  /\ key' = [key EXCEPT ![t] = k]
  /\ since' = [since EXCEPT ![t] = content[k]]
  /\ UNCHANGED <<bucket, disk, workers, etag, got, view>>

Siblings(t) == {u \in Threads : WorkerOf[u] = WorkerOf[t]}

MutLock(t) ==
  /\ pc[t] = "lock"
  /\ Goto(t, "head")
  /\ UNCHANGED <<bucket, disk, workers, locals>>

\* the lock is not released with the with block but with the answer
MutLockHeld(t) ==
  /\ pc[t] = "lock"
  /\ \A u \in Siblings(t) : pc[u] \in InEnsure \cup {"answered"} => key[u] # key[t]
  /\ Goto(t, "head")
  /\ UNCHANGED <<bucket, disk, workers, locals>>

\* _lock_for and acquiring what it returned: one lock per worker and key.
Lock(t) ==
  /\ pc[t] = "lock"
  /\ \A u \in Siblings(t) : pc[u] \in InEnsure => key[u] # key[t]
  /\ Goto(t, "head")
  /\ UNCHANGED <<bucket, disk, workers, locals>>

Head(t) ==
  /\ pc[t] = "head"
  /\ present[key[t]]
  /\ etag' = [etag EXCEPT ![t] = content[key[t]]]
  /\ Goto(t, "exists")
  /\ UNCHANGED <<bucket, disk, workers, key, got, view, since>>

\* An exception of an S3 call or of a file operation leaves the with block and
\* ensure: the sidecar may be gone since it was seen, and what was replaced or
\* emptied before stays so.
Fail(t) ==
  /\ \/ pc[t] \in {"head", "get"} /\ ~present[key[t]]
     \/ pc[t] = "sidecar" /\ sidecar[key[t]] = 0 /\ Cleans
     \/ pc[t] \in InEnsure \ {"exists"} /\ Faults
  /\ Goto(t, "answered")
  /\ got' = [got EXCEPT ![t] = 0]
  /\ UNCHANGED <<bucket, disk, workers, key, etag, view, since>>

\* os.path.exists of the file and of the sidecar, FALSE on any error.
Exists(t) ==
  /\ pc[t] = "exists"
  /\ \/ file[key[t]] # 0 /\ Goto(t, "sidecar")
     \/ (Faults \/ file[key[t]] = 0) /\ Goto(t, "get")
  /\ UNCHANGED <<bucket, disk, workers, locals>>

MutSidecarHit(t) ==
  /\ pc[t] = "sidecar"
  /\ sidecar[key[t]] # 0
  /\ got' = [got EXCEPT ![t] = file[key[t]]]
  /\ Goto(t, "tree")
  /\ UNCHANGED <<bucket, disk, workers, key, etag, view, since>>

\* The path is returned, whether the file is still there or not.
SidecarHit(t) ==
  /\ pc[t] = "sidecar"
  /\ sidecar[key[t]] = etag[t]
  /\ got' = [got EXCEPT ![t] = file[key[t]]]
  /\ Goto(t, "tree")
  /\ UNCHANGED <<bucket, disk, workers, key, etag, view, since>>

SidecarMiss(t) ==
  /\ pc[t] = "sidecar"
  /\ sidecar[key[t]] # etag[t]
  /\ Goto(t, "get")
  /\ UNCHANGED <<bucket, disk, workers, locals>>

\* makedirs and download_file into a file no other thread uses.
Get(t) ==
  /\ pc[t] = "get"
  /\ present[key[t]]
  /\ got' = [got EXCEPT ![t] = content[key[t]]]
  /\ Goto(t, "replace")
  /\ UNCHANGED <<bucket, disk, workers, key, etag, view, since>>

Replace(t) ==
  /\ pc[t] = "replace"
  /\ file' = [file EXCEPT ![key[t]] = got[t]]
  /\ Goto(t, "truncate")
  /\ UNCHANGED <<bucket, sidecar, workers, locals>>

\* open(etag_path, "w") empties the sidecar ...
Truncate(t) ==
  /\ pc[t] = "truncate"
  /\ sidecar' = [sidecar EXCEPT ![key[t]] = 0]
  /\ Goto(t, "write")
  /\ UNCHANGED <<bucket, file, workers, locals>>

MutWrite(t) ==
  /\ pc[t] = "write"
  /\ sidecar' = [sidecar EXCEPT ![key[t]] = content[key[t]]]
  /\ Goto(t, "tree")
  /\ UNCHANGED <<bucket, file, workers, locals>>

\* ... and leaving the with block flushes the ETag of head_object to it.
Write(t) ==
  /\ pc[t] = "write"
  /\ sidecar' = [sidecar EXCEPT ![key[t]] = etag[t]]
  /\ Goto(t, "tree")
  /\ UNCHANGED <<bucket, file, workers, locals>>

-----------------------------------------------------------------------------
(* _load and the handler.                                                  *)

\* with _tree_lock
LockTree(t) ==
  /\ pc[t] = "tree"
  /\ \A u \in Siblings(t) : pc[u] # "open"
  /\ Goto(t, "open")
  /\ UNCHANGED <<bucket, disk, workers, locals>>

\* _tree_cache is not asked
MutOpen(t) ==
  /\ pc[t] = "open"
  /\ file[key[t]] # 0
  /\ handles' = [handles EXCEPT ![WorkerOf[t]][key[t]] = file[key[t]]]
  /\ view' = [view EXCEPT ![t] = file[key[t]]]
  /\ Goto(t, "answered")
  /\ UNCHANGED <<bucket, disk, born, kills, key, etag, got, since>>

\* The worker's open file for the path, or a new one of the file there now.
Open(t) ==
  /\ pc[t] = "open"
  /\ LET w == WorkerOf[t]
         opened == IF handles[w][key[t]] # 0 THEN handles[w][key[t]]
                   ELSE file[key[t]]
     IN /\ opened # 0
        /\ handles' = [handles EXCEPT ![w][key[t]] = opened]
        /\ view' = [view EXCEPT ![t] = opened]
  /\ Goto(t, "answered")
  /\ UNCHANGED <<bucket, disk, born, kills, key, etag, got, since>>

\* h5py finds no file where ensure left one, or cannot read it: nothing is kept.
OpenFail(t) ==
  /\ pc[t] = "open"
  /\ handles[WorkerOf[t]][key[t]] = 0
  /\ Faults \/ file[key[t]] = 0
  /\ Goto(t, "answered")
  /\ UNCHANGED <<bucket, disk, workers, locals>>

Respond(t) ==
  /\ pc[t] = "answered"
  /\ pc' = [pc EXCEPT ![t] = "idle"]
  /\ key' = [key EXCEPT ![t] = NoKey]
  /\ etag' = [etag EXCEPT ![t] = 0]
  /\ got' = [got EXCEPT ![t] = 0]
  /\ view' = [view EXCEPT ![t] = 0]
  /\ since' = [since EXCEPT ![t] = 0]
  /\ UNCHANGED <<bucket, disk, workers>>

ThreadStep(t) ==
  \/ Lock(t) \/ Head(t) \/ Fail(t) \/ Exists(t) \/ SidecarHit(t)
  \/ SidecarMiss(t) \/ Get(t) \/ Replace(t) \/ Truncate(t) \/ Write(t)
  \/ LockTree(t) \/ Open(t) \/ OpenFail(t)

-----------------------------------------------------------------------------
(* The environment.                                                        *)

\* The owner uploads new content, or the deleted content again.
Put(k) ==
  /\ \E v \in 1 .. MaxVersion :
       /\ v = content[k] + 1 \/ (v = content[k] /\ ~present[k])
       /\ content' = [content EXCEPT ![k] = v]
  /\ present' = [present EXCEPT ![k] = TRUE]
  /\ UNCHANGED <<disk, workers, pc, locals>>

Delete(k) ==
  /\ present[k]
  /\ present' = [present EXCEPT ![k] = FALSE]
  /\ UNCHANGED <<content, disk, workers, pc, locals>>

\* The cache lives under $TMPDIR by default, as that of the Go server.
CleanFile(k) ==
  /\ Cleans
  /\ file[k] # 0
  /\ file' = [file EXCEPT ![k] = 0]
  /\ UNCHANGED <<bucket, sidecar, workers, pc, locals>>

CleanSidecar(k) ==
  /\ Cleans
  /\ sidecar[k] # 0
  /\ sidecar' = [sidecar EXCEPT ![k] = 0]
  /\ UNCHANGED <<bucket, file, workers, pc, locals>>

\* gunicorn kills a worker that exceeds its timeout and starts another.
Kill(w) ==
  LET Of(reset, f) == [t \in Threads |-> IF WorkerOf[t] = w THEN reset ELSE f[t]]
  IN /\ kills < MaxKills
     /\ kills' = kills + 1
     /\ handles' = [handles EXCEPT ![w] = [k \in Keys |-> 0]]
     /\ born' = [born EXCEPT ![w] = content]
     /\ pc' = Of("idle", pc)
     /\ key' = Of(NoKey, key)
     /\ etag' = Of(0, etag)
     /\ got' = Of(0, got)
     /\ view' = Of(0, view)
     /\ since' = Of(0, since)
     /\ UNCHANGED <<bucket, disk>>

Next ==
  \/ \E t \in Threads :
       \/ \E k \in Keys : Ask(t, k)
       \/ ThreadStep(t)
       \/ Respond(t)
  \/ \E k \in Keys : Put(k) \/ Delete(k) \/ CleanFile(k) \/ CleanSidecar(k)
  \/ \E w \in Workers : Kill(w)

Spec == Init /\ [][Next]_vars

-----------------------------------------------------------------------------
(* Properties.                                                             *)

Versions == 0 .. MaxVersion

\* Every variable has its type.
TypeOK ==
  /\ content \in [Keys -> 1 .. MaxVersion]
  /\ present \in [Keys -> BOOLEAN]
  /\ file \in [Keys -> Versions]
  /\ sidecar \in [Keys -> Versions]
  /\ handles \in [Workers -> [Keys -> Versions]]
  /\ pc \in [Threads -> PC]
  /\ key \in [Threads -> Keys \cup {NoKey}]
  /\ etag \in [Threads -> Versions]
  /\ got \in [Threads -> Versions]
  /\ view \in [Threads -> Versions]
  /\ since \in [Threads -> Versions]
  /\ born \in [Workers -> [Keys -> Versions]]
  /\ kills \in 0 .. MaxKills
  /\ \A t \in Threads : pc[t] # "idle" => key[t] \in Keys

\* With one worker the sidecar never names a version newer than the file.
SidecarNotAhead ==
  \A k \in Keys : file[k] # 0 => sidecar[k] <= file[k]

\* With one worker, ensure keeps the contract of the Go server's Ensure.
Contract ==
  INSTANCE FreshCache WITH
    Requests <- Threads,
    phase <- [t \in Threads |->
                IF pc[t] = "idle" THEN "idle"
                ELSE IF pc[t] \in {"tree", "open", "answered"} THEN "answered"
                ELSE "asked"],
    want <- key,
    answer <- [t \in Threads |->
                IF pc[t] \in {"tree", "open", "answered"} THEN got[t] ELSE 0]

\* Every path ensure returns holds a version the object had in the meantime, or
\* nothing, where a cleaner was faster.
ImplementsFreshCache == Contract!Spec

\* With one worker, the server keeps the contract of the Go server's handlers,
\* _tree_cache standing where treeCache does.
Pinned ==
  INSTANCE PinnedView WITH
    Requests <- Threads,
    born <- born[CHOOSE w \in Workers : TRUE],
    pinned <- handles[CHOOSE w \in Workers : TRUE],
    phase <- [t \in Threads |->
                IF pc[t] = "idle" THEN "idle"
                ELSE IF pc[t] = "answered" THEN "answered" ELSE "asked"],
    want <- key,
    answer <- view

\* What a request is shown is the version that the first answer of the worker
\* showed, and the object has had that since the worker was started, although
\* ensure goes on replacing the file under the open handle.
ImplementsPinnedView == Pinned!Spec

\* S3 calls and file operations return, and a released lock goes to a waiter
\* some time.
Fairness ==
  \A t \in Threads :
    /\ WF_vars(ThreadStep(t))
    /\ SF_vars(Lock(t))
    /\ SF_vars(LockTree(t))

FairSpec == Spec /\ Fairness

\* Every request is answered, or lost with its worker.
EveryRequestAnswered ==
  \A t \in Threads : pc[t] # "idle" ~> pc[t] \in {"idle", "answered"}

-----------------------------------------------------------------------------
(* Claims of the documentation that the code does not meet.                *)

\* servers/README.md: "a changed object in S3 is transparently re-downloaded":
\* no answer is of a version older than the object was when it was asked for.
AnswerIsFresh == \A t \in Threads : view[t] # 0 => since[t] <= view[t]

\* servers/py/README.md: the workers share the disk cache, and "converge on
\* the same cached copy of any given object": once nobody is at work, a cached
\* file whose sidecar carries the object's ETag is the object's content.
WorkersConverge ==
  \A k \in Keys :
    /\ \A t \in Threads : pc[t] = "idle"
    /\ sidecar[k] = content[k]
    => file[k] = content[k]
=============================================================================
