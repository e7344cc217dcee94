------------------------------ MODULE S3Store -------------------------------
(***************************************************************************)
(* Store.Ensure of servers/go/s3store.go: request goroutines that make an  *)
(* S3 object present in the local cache directory, one S3 call or system   *)
(* call per action.  The bucket and the cleaner of the cache directory are *)
(* the environment; a crash of the process loses its memory and keeps its  *)
(* files.                                                                  *)
(*                                                                         *)
(* An object's content is its version number, and its ETag is the same     *)
(* number, because S3 derives the ETag from the content.  The number 0     *)
(* stands for no file, and for a sidecar that is missing or was truncated  *)
(* and not yet written: neither equals any object's ETag.                  *)
(***************************************************************************)
EXTENDS Naturals

CONSTANTS
  Keys,         \* S3 object keys
  Requests,     \* goroutines that may be inside Ensure at the same time
  NoKey,        \* the key of an idle request
  NoMutex,      \* absence of an entry in keyLocks
  MaxVersion,   \* bound on the versions an object goes through
  MaxCrashes,   \* bound on the crashes of the process
  Faults,       \* may S3 calls and writes to the cache directory fail?
  Cleans,       \* may a cleaner remove files of the cache directory?
  Reverts       \* may an owner upload content the object held before?

ASSUME S3StoreAssumption ==
  /\ NoKey \notin Keys
  /\ NoMutex \notin Requests
  /\ MaxVersion \in Nat \ {0}
  /\ MaxCrashes \in Nat
  /\ Faults \in BOOLEAN
  /\ Cleans \in BOOLEAN
  /\ Reverts \in BOOLEAN

VARIABLES
  content,      \* bucket: content[k] is the latest version uploaded under k
  present,      \* bucket: present[k] is FALSE while the object is deleted
  file,         \* disk: file[k] is the version in localPath(k), 0 if none
  sidecar,      \* disk: sidecar[k] is the ETag in localPath(k).etag, or 0
  strays,       \* disk: keys in whose directory a dead temp file was left
  keyLocks,     \* memory: keyLocks[k] is the request that made k's mutex
  pc,           \* pc[p]: the call p executes next
  key,          \* key[p]: argument of p's call of Ensure
  lock,         \* lock[p]: the mutex lockFor gave p, named by its maker
  etag,         \* etag[p]: ETag HeadObject gave p
  got,          \* got[p]: version p has on disk: the body of GetObject, or the hit
  tmp,          \* tmp[p]: does p have a temp file on disk?
  ret,          \* ret[p]: how Ensure returned
  since,        \* history: content[key[p]] when p called Ensure
  crashes       \* number of crashes so far

bucket == <<content, present>>
disk == <<file, sidecar, strays>>
args == <<key, since>>
locals == <<lock, etag, got, tmp, ret>>
vars == <<bucket, disk, keyLocks, pc, args, locals, crashes>>

-----------------------------------------------------------------------------
(* Control points of Ensure, in program order.  From "head" to "write" the *)
(* request holds the mutex of its key (deferred Unlock on every return).   *)

Critical == {"head", "sidecar", "stat", "get", "temp", "copy", "rename",
             "truncate", "write"}
EnsurePC == {"idle", "lockFor", "lock", "returned"} \cup Critical

Goto(p, l) == pc' = [pc EXCEPT ![p] = l]

\* return: the deferred Unlock runs as the request leaves Critical.
Return(p, r) ==
  /\ Goto(p, "returned")
  /\ ret' = [ret EXCEPT ![p] = r]

\* The version in the file whose path Ensure returned, 0 for an error.
Vouched(p) == IF ret[p] = "path" THEN got[p] ELSE 0

Init ==
  /\ content = [k \in Keys |-> 1]
  /\ present = [k \in Keys |-> TRUE]
  /\ file = [k \in Keys |-> 0]
  /\ sidecar = [k \in Keys |-> 0]
  /\ strays = {}
  /\ keyLocks = [k \in Keys |-> NoMutex]
  /\ pc = [p \in Requests |-> "idle"]
  /\ key = [p \in Requests |-> NoKey]
  /\ lock = [p \in Requests |-> NoMutex]
  /\ etag = [p \in Requests |-> 0]
  /\ got = [p \in Requests |-> 0]
  /\ tmp = [p \in Requests |-> FALSE]
  /\ ret = [p \in Requests |-> "none"]
  /\ since = [p \in Requests |-> 0]
  /\ crashes = 0

-----------------------------------------------------------------------------
(* Ensure.                                                                 *)

Ask(p, k) ==
  /\ pc[p] = "idle"
  /\ Goto(p, "lockFor")
  /\ key' = [key EXCEPT ![p] = k]
  /\ since' = [since EXCEPT ![p] = content[k]]
  /\ UNCHANGED <<bucket, disk, keyLocks, locals, crashes>>

MutLockForEach(p) ==
  /\ pc[p] = "lockFor"
  /\ keyLocks' = [keyLocks EXCEPT ![key[p]] = p]
  /\ lock' = [lock EXCEPT ![p] = p]
  /\ Goto(p, "lock")
  /\ UNCHANGED <<bucket, disk, args, etag, got, tmp, ret, crashes>>

MutLockForNil(p) ==
  /\ pc[p] = "lockFor"
  /\ keyLocks' = [keyLocks EXCEPT ![key[p]] = IF @ = NoMutex THEN p ELSE @]
  /\ lock' = [lock EXCEPT ![p] = keyLocks[key[p]]]
  /\ Goto(p, "lock")
  /\ UNCHANGED <<bucket, disk, args, etag, got, tmp, ret, crashes>>

\* One step, since s.mu is held throughout lockFor.
LockFor(p) ==
  /\ pc[p] = "lockFor"
  /\ LET mutex == IF keyLocks[key[p]] = NoMutex THEN p ELSE keyLocks[key[p]]
     IN /\ keyLocks' = [keyLocks EXCEPT ![key[p]] = mutex]
        /\ lock' = [lock EXCEPT ![p] = mutex]
  /\ Goto(p, "lock")
  /\ UNCHANGED <<bucket, disk, args, etag, got, tmp, ret, crashes>>

\* p and q block each other: the same entry of keyLocks gave both the mutex.
SameMutex(p, q) == key[p] = key[q] /\ lock[p] = lock[q]

MutLockOverReturned(p) ==
  /\ pc[p] = "lock"
  /\ \A q \in Requests : pc[q] \in Critical \cup {"returned"} => ~SameMutex(p, q)
  /\ Goto(p, "head")
  /\ UNCHANGED <<bucket, disk, keyLocks, args, locals, crashes>>

Lock(p) ==
  /\ pc[p] = "lock"
  /\ \A q \in Requests : pc[q] \in Critical => ~SameMutex(p, q)
  /\ Goto(p, "head")
  /\ UNCHANGED <<bucket, disk, keyLocks, args, locals, crashes>>

Head(p) ==
  /\ pc[p] = "head"
  /\ present[key[p]]
  /\ etag' = [etag EXCEPT ![p] = content[key[p]]]
  /\ Goto(p, "sidecar")
  /\ UNCHANGED <<bucket, disk, keyLocks, args, lock, got, tmp, ret, crashes>>

\* Every error of HeadObject is reported as 404, an absent object or not.
HeadFail(p) ==
  /\ pc[p] = "head"
  /\ Faults \/ ~present[key[p]]
  /\ Return(p, "404")
  /\ UNCHANGED <<bucket, disk, keyLocks, args, lock, etag, got, tmp, crashes>>

MutSidecarAny(p) ==
  /\ pc[p] = "sidecar"
  /\ sidecar[key[p]] # 0
  /\ Goto(p, "stat")
  /\ UNCHANGED <<bucket, disk, keyLocks, args, locals, crashes>>

SidecarMatches(p) ==
  /\ pc[p] = "sidecar"
  /\ sidecar[key[p]] = etag[p]
  /\ Goto(p, "stat")
  /\ UNCHANGED <<bucket, disk, keyLocks, args, locals, crashes>>

SidecarDiffers(p) ==
  /\ pc[p] = "sidecar"
  /\ Faults \/ sidecar[key[p]] # etag[p]
  /\ Goto(p, "get")
  /\ UNCHANGED <<bucket, disk, keyLocks, args, locals, crashes>>

StatHit(p) ==
  /\ pc[p] = "stat"
  /\ file[key[p]] # 0
  /\ got' = [got EXCEPT ![p] = file[key[p]]]
  /\ Return(p, "path")
  /\ UNCHANGED <<bucket, disk, keyLocks, args, lock, etag, tmp, crashes>>

StatMiss(p) ==
  /\ pc[p] = "stat"
  /\ Faults \/ file[key[p]] = 0
  /\ Goto(p, "get")
  /\ UNCHANGED <<bucket, disk, keyLocks, args, locals, crashes>>

\* MkdirAll and GetObject: the body is the object as it is now, whatever it
\* was when HeadObject was answered.
Get(p) ==
  /\ pc[p] = "get"
  /\ present[key[p]]
  /\ got' = [got EXCEPT ![p] = content[key[p]]]
  /\ Goto(p, "temp")
  /\ UNCHANGED <<bucket, disk, keyLocks, args, lock, etag, tmp, ret, crashes>>

GetFail(p) ==
  /\ pc[p] = "get"
  /\ Faults \/ ~present[key[p]]
  /\ Return(p, "500")
  /\ UNCHANGED <<bucket, disk, keyLocks, args, lock, etag, got, tmp, crashes>>

CreateTemp(p) ==
  /\ pc[p] = "temp"
  /\ tmp' = [tmp EXCEPT ![p] = TRUE]
  /\ Goto(p, "copy")
  /\ UNCHANGED <<bucket, disk, keyLocks, args, lock, etag, got, ret, crashes>>

\* io.Copy of the body and Close of the temp file.
Copy(p) ==
  /\ pc[p] = "copy"
  /\ Goto(p, "rename")
  /\ UNCHANGED <<bucket, disk, keyLocks, args, locals, crashes>>

MutDownloadFailKeepsTemp(p) ==
  /\ Faults
  /\ pc[p] \in {"temp", "copy", "rename"}
  /\ tmp' = [tmp EXCEPT ![p] = pc[p] = "copy"]
  /\ Return(p, "500")
  /\ UNCHANGED <<bucket, disk, keyLocks, args, lock, etag, got, crashes>>

\* CreateTemp, Copy, Close or Rename failed: Remove the temp file.
DownloadFail(p) ==
  /\ Faults
  /\ pc[p] \in {"temp", "copy", "rename"}
  /\ tmp' = [tmp EXCEPT ![p] = FALSE]
  /\ Return(p, "500")
  /\ UNCHANGED <<bucket, disk, keyLocks, args, lock, etag, got, crashes>>

Rename(p) ==
  /\ pc[p] = "rename"
  /\ file' = [file EXCEPT ![key[p]] = got[p]]
  /\ tmp' = [tmp EXCEPT ![p] = FALSE]
  /\ Goto(p, "truncate")
  /\ UNCHANGED <<bucket, sidecar, strays, keyLocks, args, lock, etag, got,
                 ret, crashes>>

\* WriteFile opens the sidecar with O_TRUNC ...
TruncateSidecar(p) ==
  /\ pc[p] = "truncate"
  /\ sidecar' = [sidecar EXCEPT ![key[p]] = 0]
  /\ Goto(p, "write")
  /\ UNCHANGED <<bucket, file, strays, keyLocks, args, locals, crashes>>

MutWriteSidecarLate(p) ==
  /\ pc[p] = "write"
  /\ sidecar' = [sidecar EXCEPT ![key[p]] = content[key[p]]]
  /\ Return(p, "path")
  /\ UNCHANGED <<bucket, file, strays, keyLocks, args, lock, etag, got, tmp,
                 crashes>>

\* ... and writes the ETag of the earlier HeadObject.
WriteSidecar(p) ==
  /\ pc[p] = "write"
  /\ sidecar' = [sidecar EXCEPT ![key[p]] = etag[p]]
  /\ Return(p, "path")
  /\ UNCHANGED <<bucket, file, strays, keyLocks, args, lock, etag, got, tmp,
                 crashes>>

\* A failure of WriteFile, at the open or at the write, is only logged.
SidecarFail(p) ==
  /\ Faults
  /\ pc[p] \in {"truncate", "write"}
  /\ Return(p, "path")
  /\ UNCHANGED <<bucket, disk, keyLocks, args, lock, etag, got, tmp, crashes>>

EnsureStep(p) ==
  \/ LockFor(p) \/ Lock(p) \/ Head(p) \/ HeadFail(p) \/ SidecarMatches(p)
  \/ SidecarDiffers(p) \/ StatHit(p) \/ StatMiss(p) \/ Get(p) \/ GetFail(p)
  \/ CreateTemp(p)
  \/ Copy(p) \/ DownloadFail(p) \/ Rename(p) \/ TruncateSidecar(p)
  \/ WriteSidecar(p) \/ SidecarFail(p)

\* The locals of Ensure are gone when its caller is.
Forget(p) ==
  /\ pc' = [pc EXCEPT ![p] = "idle"]
  /\ key' = [key EXCEPT ![p] = NoKey]
  /\ since' = [since EXCEPT ![p] = 0]
  /\ lock' = [lock EXCEPT ![p] = NoMutex]
  /\ etag' = [etag EXCEPT ![p] = 0]
  /\ got' = [got EXCEPT ![p] = 0]
  /\ ret' = [ret EXCEPT ![p] = "none"]

Leave(p) ==
  /\ pc[p] = "returned"
  /\ Forget(p)
  /\ UNCHANGED <<bucket, disk, keyLocks, tmp, crashes>>

-----------------------------------------------------------------------------
(* The environment.                                                        *)

\* The owner uploads an object: new content, the deleted content again, or,
\* with Reverts, any content.
Put(k) ==
  /\ \E v \in 1 .. MaxVersion :
       /\ v = content[k] + 1 \/ (v = content[k] /\ ~present[k]) \/ Reverts
       /\ content' = [content EXCEPT ![k] = v]
  /\ present' = [present EXCEPT ![k] = TRUE]
  /\ UNCHANGED <<disk, keyLocks, pc, args, locals, crashes>>

Delete(k) ==
  /\ present[k]
  /\ present' = [present EXCEPT ![k] = FALSE]
  /\ UNCHANGED <<content, disk, keyLocks, pc, args, locals, crashes>>

\* The cache lives under $TMPDIR by default: a cleaner may remove a cached
\* file, which is what the Stat in Ensure is there for, or a sidecar.
CleanFile(k) ==
  /\ Cleans
  /\ file[k] # 0
  /\ file' = [file EXCEPT ![k] = 0]
  /\ UNCHANGED <<bucket, sidecar, strays, keyLocks, pc, args, locals, crashes>>

CleanSidecar(k) ==
  /\ Cleans
  /\ sidecar[k] # 0
  /\ sidecar' = [sidecar EXCEPT ![k] = 0]
  /\ UNCHANGED <<bucket, file, strays, keyLocks, pc, args, locals, crashes>>

Environment(k) == Put(k) \/ Delete(k) \/ CleanFile(k) \/ CleanSidecar(k)

\* The process is killed, or exits when Shutdown's ten seconds are over: its
\* memory is gone, its open temp files stay behind, and it is started again.
Crash ==
  /\ crashes < MaxCrashes
  /\ crashes' = crashes + 1
  /\ strays' = strays \cup {key[p] : p \in {q \in Requests : tmp[q]}}
  /\ keyLocks' = [k \in Keys |-> NoMutex]
  /\ pc' = [p \in Requests |-> "idle"]
  /\ key' = [p \in Requests |-> NoKey]
  /\ since' = [p \in Requests |-> 0]
  /\ lock' = [p \in Requests |-> NoMutex]
  /\ etag' = [p \in Requests |-> 0]
  /\ got' = [p \in Requests |-> 0]
  /\ tmp' = [p \in Requests |-> FALSE]
  /\ ret' = [p \in Requests |-> "none"]
  /\ UNCHANGED <<bucket, file, sidecar>>

Next ==
  \/ \E p \in Requests :
       \/ \E k \in Keys : Ask(p, k)
       \/ EnsureStep(p)
       \/ Leave(p)
  \/ \E k \in Keys : Environment(k)
  \/ Crash

Spec == Init /\ [][Next]_vars

-----------------------------------------------------------------------------
(* Properties.                                                             *)

Versions == 0 .. MaxVersion

\* Every variable has its type, and a request that asked lockFor for a mutex
\* has one (a nil *sync.Mutex would panic at Lock).
TypeOK ==
  /\ content \in [Keys -> 1 .. MaxVersion]
  /\ present \in [Keys -> BOOLEAN]
  /\ file \in [Keys -> Versions]
  /\ sidecar \in [Keys -> Versions]
  /\ strays \subseteq Keys
  /\ keyLocks \in [Keys -> Requests \cup {NoMutex}]
  /\ pc \in [Requests -> EnsurePC]
  /\ key \in [Requests -> Keys \cup {NoKey}]
  /\ lock \in [Requests -> Requests \cup {NoMutex}]
  /\ etag \in [Requests -> Versions]
  /\ got \in [Requests -> Versions]
  /\ tmp \in [Requests -> BOOLEAN]
  /\ ret \in [Requests -> {"none", "path", "404", "500"}]
  /\ since \in [Requests -> Versions]
  /\ crashes \in 0 .. MaxCrashes
  /\ \A p \in Requests :
       /\ pc[p] # "idle" => key[p] \in Keys
       /\ pc[p] \notin {"idle", "lockFor"} => lock[p] \in Requests

\* Two requests for one key are never both between Lock and Unlock: lockFor
\* gives all of them one mutex, though none of them holds s.mu by then.
MutualExclusion ==
  \A p, q \in Requests :
    /\ pc[p] \in Critical
    /\ pc[q] \in Critical
    /\ key[p] = key[q]
    => p = q

\* What lets a sidecar speak for a file after any interleaving, fault, crash
\* and cleaning: the file beside it is the version it names or a later one
\* (later when the object changed between HeadObject and GetObject).
SidecarNotAhead ==
  \A k \in Keys : file[k] # 0 => sidecar[k] <= file[k]

\* The caller of Ensure opens the path after the mutex is released: whatever
\* others have done in between, the file there is not older than the one that
\* Ensure found or put there, unless a cleaner removed it.
PathHoldsVouched ==
  \A p \in Requests :
    /\ ret[p] = "path"
    /\ file[key[p]] # 0
    => Vouched(p) <= file[key[p]]

\* A temp file never outlives the call that made it, on any error return.
NoTempAfterReturn ==
  \A p \in Requests : tmp[p] => pc[p] \in {"copy", "rename"}

\* A cached file is only ever replaced by the same or a newer version.
FileNeverRegresses ==
  [][\A k \in Keys : file'[k] # 0 => file[k] <= file'[k]]_vars

\* Ensure implements its contract.
Contract ==
  INSTANCE FreshCache WITH
    phase <- [p \in Requests |->
                IF pc[p] = "idle" THEN "idle"
                ELSE IF pc[p] = "returned" THEN "answered" ELSE "asked"],
    want <- key,
    answer <- [p \in Requests |-> Vouched(p)]

\* Every answer is a version the object had between the request and it.
ImplementsFreshCache == Contract!Spec

-----------------------------------------------------------------------------
(* A claim of the documentation that the code does not meet.               *)

\* servers/README.md, "a changed object in S3 is transparently re-downloaded":
\* Ensure does not report a hit for a file that is not the object's content.
ChangedIsRedownloaded ==
  [][\A p \in Requests :
       pc[p] = "stat" /\ pc'[p] = "returned" => file[key[p]] = etag[p]]_vars
=============================================================================
