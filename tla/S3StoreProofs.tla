--------------------------- MODULE S3StoreProofs ----------------------------
(***************************************************************************)
(* Theorems about S3Store, for any numbers of keys, requests, versions and *)
(* crashes.  What needs an owner who never uploads earlier content again   *)
(* says so: with Reverts an ETag does not order versions.                  *)
(***************************************************************************)
EXTENDS S3Store, TLAPS

-----------------------------------------------------------------------------
(* The inductive invariant, in three parts.                                *)

\* Only a request that has returned has a result.
ResultKnown == \A p \in Requests : ret[p] # "none" => pc[p] = "returned"

\* Types.  A crash keeps strays a set of keys because a request with a temp
\* file has one.
Typed == TypeOK /\ NoTempAfterReturn /\ ResultKnown

\* The mutex a request was given is still the one keyLocks holds for its key,
\* which is what makes it the same for all requests of the key.
LocksShared ==
  \A p \in Requests :
    pc[p] \notin {"idle", "lockFor"} => lock[p] = keyLocks[key[p]]

Locked == Typed /\ LocksShared /\ MutualExclusion

\* Nothing on disk is newer than the bucket.
DiskBehindBucket ==
  \A k \in Keys : file[k] <= content[k] /\ sidecar[k] <= content[k]

\* The ETag p asked for is not older than what the disk held then; ...
EtagAhead(p) ==
  pc[p] \in Critical \ {"head"} =>
    /\ etag[p] <= content[key[p]]
    /\ sidecar[key[p]] <= etag[p]

\* ... while p alone may replace the file, it stays so until p does; ...
FileBehindEtag(p) ==
  pc[p] \in {"sidecar", "stat", "get", "temp", "copy", "rename"} =>
    file[key[p]] <= etag[p]

\* ... the body p downloads is not older than its ETag; ...
BodyAhead(p) ==
  pc[p] \in {"temp", "copy", "rename", "truncate", "write"} =>
    etag[p] <= got[p] /\ got[p] <= content[key[p]]

\* ... and that body is the file until the sidecar is written, if any is.
BodyInPlace(p) ==
  pc[p] \in {"truncate", "write"} => file[key[p]] \in {0, got[p]}

\* A path that was returned holds a version of the bucket, ...
PathKnown(p) ==
  ret[p] = "path" => got[p] <= content[key[p]]

\* ... and whoever asked for the ETag since then learnt of no older one.
LaterEtag(p, q) ==
  ret[p] = "path" /\ pc[q] \in Critical \ {"head"} /\ key[p] = key[q] =>
    got[p] <= etag[q]

\* The request was made before its ETag was asked for; ...
SinceBehind(p) ==
  /\ pc[p] # "idle" => since[p] <= content[key[p]]
  /\ pc[p] \in Critical \ {"head"} => since[p] <= etag[p]

\* ... and a sidecar that matched has made the file good enough for it.
HitIsFresh(p) ==
  pc[p] = "stat" => file[key[p]] = 0 \/ etag[p] <= file[key[p]]

Versioned ==
  /\ DiskBehindBucket
  /\ \A p \in Requests :
       /\ EtagAhead(p) /\ FileBehindEtag(p) /\ BodyAhead(p) /\ BodyInPlace(p)
       /\ PathKnown(p) /\ SinceBehind(p) /\ HitIsFresh(p)
  /\ \A p, q \in Requests : LaterEtag(p, q)

IInv == Locked /\ Versioned /\ SidecarNotAhead /\ PathHoldsVouched

-----------------------------------------------------------------------------
(* Types.                                                                  *)

LEMMA TypeInit == Init => Typed
BY S3StoreAssumption DEF Init, Typed, NoTempAfterReturn, ResultKnown,
   TypeOK, Versions, EnsurePC

LEMMA TypeNext == Typed /\ [Next]_vars => Typed'
<1> SUFFICES ASSUME Typed, [Next]_vars
             PROVE  Typed'
    OBVIOUS
<1> USE S3StoreAssumption DEF Typed, TypeOK, NoTempAfterReturn, ResultKnown, Versions,
        EnsurePC, Critical, Goto, Return,
        bucket, disk, args, locals
<1>1. ASSUME NEW p \in Requests, NEW k \in Keys, Ask(p, k)
      PROVE  Typed'
      BY <1>1 DEF Ask
<1>2. ASSUME NEW p \in Requests, EnsureStep(p)
      PROVE  Typed'
  <2>1. CASE LockFor(p)        BY <2>1 DEF LockFor
  <2>2. CASE Lock(p)           BY <2>2 DEF Lock
  <2>3. CASE Head(p)           BY <2>3 DEF Head
  <2>4. CASE HeadFail(p)       BY <2>4 DEF HeadFail
  <2>5. CASE SidecarMatches(p) BY <2>5 DEF SidecarMatches
  <2>6. CASE SidecarDiffers(p) BY <2>6 DEF SidecarDiffers
  <2>7. CASE StatHit(p)        BY <2>7 DEF StatHit
  <2>8. CASE StatMiss(p)       BY <2>8 DEF StatMiss
  <2>9. CASE Get(p)            BY <2>9 DEF Get
  <2>10. CASE GetFail(p)       BY <2>10 DEF GetFail
  <2>11. CASE CreateTemp(p)    BY <2>11 DEF CreateTemp
  <2>12. CASE Copy(p)          BY <2>12 DEF Copy
  <2>13. CASE DownloadFail(p)  BY <2>13 DEF DownloadFail
  <2>14. CASE Rename(p)        BY <2>14 DEF Rename
  <2>15. CASE TruncateSidecar(p) BY <2>15 DEF TruncateSidecar
  <2>16. CASE WriteSidecar(p)  BY <2>16 DEF WriteSidecar
  <2>17. CASE SidecarFail(p)   BY <2>17 DEF SidecarFail
  <2>18. QED
         BY <1>2, <2>1, <2>2, <2>3, <2>4, <2>5, <2>6, <2>7, <2>8, <2>9, <2>10,
            <2>11, <2>12, <2>13, <2>14, <2>15, <2>16, <2>17 DEF EnsureStep
<1>3. ASSUME NEW p \in Requests, Leave(p)
      PROVE  Typed'
      BY <1>3 DEF Leave, Forget
<1>4. ASSUME NEW k \in Keys, Environment(k)
      PROVE  Typed'
  <2>1. CASE Put(k)          BY <2>1 DEF Put
  <2>2. CASE Delete(k)       BY <2>2 DEF Delete
  <2>3. CASE CleanFile(k)    BY <2>3 DEF CleanFile
  <2>4. CASE CleanSidecar(k) BY <2>4 DEF CleanSidecar
  <2>5. QED BY <1>4, <2>1, <2>2, <2>3, <2>4 DEF Environment
<1>5. CASE Crash
      BY <1>5 DEF Crash
<1>6. CASE UNCHANGED vars
      BY <1>6 DEF vars
<1>7. QED BY <1>1, <1>2, <1>3, <1>4, <1>5, <1>6 DEF Next

\* No temp file outlives its download, on any path through Ensure, for any
\* number of requests and failures of one process.
THEOREM TempsAreRemoved == Spec => []NoTempAfterReturn
<1>1. Init => Typed
      BY TypeInit
<1>2. Typed /\ [Next]_vars => Typed'
      BY TypeNext
<1>3. Typed => NoTempAfterReturn
      BY DEF Typed
<1>4. QED BY <1>1, <1>2, <1>3, PTL DEF Spec

\* Every reachable state has its types; in particular no request ever locks a
\* nil mutex, whatever the other requests and crashes do to keyLocks.
THEOREM TypeCorrect == Spec => []TypeOK
<1>1. Init => Typed
      BY TypeInit
<1>2. Typed /\ [Next]_vars => Typed'
      BY TypeNext
<1>3. Typed => TypeOK
      BY DEF Typed
<1>4. QED BY <1>1, <1>2, <1>3, PTL DEF Spec

-----------------------------------------------------------------------------
(* Mutual exclusion.                                                       *)

LEMMA LocksInit == Init => Locked
BY TypeInit DEF Init, Locked, LocksShared, MutualExclusion, Critical

LEMMA LocksNext ==
  ASSUME Locked, [Next]_vars
  PROVE  LocksShared' /\ MutualExclusion'
<1> USE S3StoreAssumption DEF Locked, LocksShared, MutualExclusion, Typed, TypeOK,
        EnsurePC, Critical, SameMutex, Goto, Return, bucket, disk, args, locals
<1>1. ASSUME NEW p \in Requests, NEW k \in Keys, Ask(p, k)
      PROVE  LocksShared' /\ MutualExclusion'
      BY <1>1 DEF Ask
<1>2. ASSUME NEW p \in Requests, EnsureStep(p)
      PROVE  LocksShared' /\ MutualExclusion'
  <2>1. CASE LockFor(p) BY <2>1 DEF LockFor
  <2>2. CASE Lock(p) BY <2>2 DEF Lock
  <2>3. CASE Head(p) BY <2>3 DEF Head
  <2>4. CASE HeadFail(p) BY <2>4 DEF HeadFail
  <2>5. CASE SidecarMatches(p) BY <2>5 DEF SidecarMatches
  <2>6. CASE SidecarDiffers(p) BY <2>6 DEF SidecarDiffers
  <2>7. CASE StatHit(p) BY <2>7 DEF StatHit
  <2>8. CASE StatMiss(p) BY <2>8 DEF StatMiss
  <2>9. CASE Get(p) BY <2>9 DEF Get
  <2>10. CASE GetFail(p) BY <2>10 DEF GetFail
  <2>11. CASE CreateTemp(p) BY <2>11 DEF CreateTemp
  <2>12. CASE Copy(p) BY <2>12 DEF Copy
  <2>13. CASE DownloadFail(p) BY <2>13 DEF DownloadFail
  <2>14. CASE Rename(p) BY <2>14 DEF Rename
  <2>15. CASE TruncateSidecar(p) BY <2>15 DEF TruncateSidecar
  <2>16. CASE WriteSidecar(p) BY <2>16 DEF WriteSidecar
  <2>17. CASE SidecarFail(p) BY <2>17 DEF SidecarFail
  <2>18. QED
         BY <1>2, <2>1, <2>2, <2>3, <2>4, <2>5, <2>6, <2>7, <2>8, <2>9, <2>10,
            <2>11, <2>12, <2>13, <2>14, <2>15, <2>16, <2>17 DEF EnsureStep
<1>3. ASSUME NEW p \in Requests, Leave(p)
      PROVE  LocksShared' /\ MutualExclusion'
      BY <1>3 DEF Leave, Forget
<1>4. ASSUME NEW k \in Keys, Environment(k)
      PROVE  LocksShared' /\ MutualExclusion'
  <2>1. CASE Put(k) BY <2>1 DEF Put
  <2>2. CASE Delete(k) BY <2>2 DEF Delete
  <2>3. CASE CleanFile(k) BY <2>3 DEF CleanFile
  <2>4. CASE CleanSidecar(k) BY <2>4 DEF CleanSidecar
  <2>5. QED BY <1>4, <2>1, <2>2, <2>3, <2>4 DEF Environment
<1>5. CASE Crash
      BY <1>5 DEF Crash
<1>6. CASE UNCHANGED vars
      BY <1>6 DEF vars
<1>7. QED BY <1>1, <1>2, <1>3, <1>4, <1>5, <1>6 DEF Next

\* Requests for one key never download at the same time, for any number of
\* keys and requests and through any crashes, although none of them holds
\* Store.mu when it locks the key's mutex.
THEOREM EnsureIsExclusive == Spec => []MutualExclusion
<1>1. Init => Locked
      BY LocksInit
<1>2. Locked /\ [Next]_vars => Locked'
      BY TypeNext, LocksNext DEF Locked
<1>3. Locked => MutualExclusion
      BY DEF Locked
<1>4. QED BY <1>1, <1>2, <1>3, PTL DEF Spec

-----------------------------------------------------------------------------
(* Versions.                                                               *)

LEMMA VersionsInit == Init => IInv
BY LocksInit DEF Init, IInv, Versioned, DiskBehindBucket, EtagAhead,
   FileBehindEtag, BodyAhead, BodyInPlace, PathKnown, LaterEtag,
   SinceBehind, HitIsFresh,
   SidecarNotAhead, PathHoldsVouched, Vouched, Critical

LEMMA VersionsNext ==
  ASSUME ~Reverts, IInv, [Next]_vars
  PROVE  Versioned' /\ SidecarNotAhead' /\ PathHoldsVouched'
<1> USE S3StoreAssumption DEF IInv, Locked, Typed, TypeOK, NoTempAfterReturn,
        ResultKnown, MutualExclusion, Versioned, DiskBehindBucket, EtagAhead,
        FileBehindEtag, BodyAhead, BodyInPlace, PathKnown, LaterEtag,
        SinceBehind, HitIsFresh, SidecarNotAhead, PathHoldsVouched, Vouched,
        Versions, EnsurePC, Critical, Goto, Return, bucket, disk, args, locals
<1>1. ASSUME NEW p \in Requests, NEW k \in Keys, Ask(p, k)
      PROVE  Versioned' /\ SidecarNotAhead' /\ PathHoldsVouched'
      BY <1>1 DEF Ask
<1>2. ASSUME NEW p \in Requests, EnsureStep(p)
      PROVE  Versioned' /\ SidecarNotAhead' /\ PathHoldsVouched'
  <2>1. CASE LockFor(p) BY <2>1 DEF LockFor
  <2>2. CASE Lock(p) BY <2>2 DEF Lock
  <2>3. CASE Head(p) BY <2>3 DEF Head
  <2>4. CASE HeadFail(p) BY <2>4 DEF HeadFail
  <2>5. CASE SidecarMatches(p) BY <2>5 DEF SidecarMatches
  <2>6. CASE SidecarDiffers(p) BY <2>6 DEF SidecarDiffers
  <2>7. CASE StatHit(p) BY <2>7 DEF StatHit
  <2>8. CASE StatMiss(p) BY <2>8 DEF StatMiss
  <2>9. CASE Get(p) BY <2>9 DEF Get
  <2>10. CASE GetFail(p) BY <2>10 DEF GetFail
  <2>11. CASE CreateTemp(p) BY <2>11 DEF CreateTemp
  <2>12. CASE Copy(p) BY <2>12 DEF Copy
  <2>13. CASE DownloadFail(p) BY <2>13 DEF DownloadFail
  <2>14. CASE Rename(p) BY <2>14 DEF Rename
  <2>15. CASE TruncateSidecar(p) BY <2>15 DEF TruncateSidecar
  <2>16. CASE WriteSidecar(p) BY <2>16 DEF WriteSidecar
  <2>17. CASE SidecarFail(p) BY <2>17 DEF SidecarFail
  <2>18. QED
         BY <1>2, <2>1, <2>2, <2>3, <2>4, <2>5, <2>6, <2>7, <2>8, <2>9, <2>10,
            <2>11, <2>12, <2>13, <2>14, <2>15, <2>16, <2>17 DEF EnsureStep
<1>3. ASSUME NEW p \in Requests, Leave(p)
      PROVE  Versioned' /\ SidecarNotAhead' /\ PathHoldsVouched'
      BY <1>3 DEF Leave, Forget
<1>4. ASSUME NEW k \in Keys, Environment(k)
      PROVE  Versioned' /\ SidecarNotAhead' /\ PathHoldsVouched'
  <2>1. CASE Put(k) BY <2>1 DEF Put
  <2>2. CASE Delete(k) BY <2>2 DEF Delete
  <2>3. CASE CleanFile(k) BY <2>3 DEF CleanFile
  <2>4. CASE CleanSidecar(k) BY <2>4 DEF CleanSidecar
  <2>5. QED BY <1>4, <2>1, <2>2, <2>3, <2>4 DEF Environment
<1>5. CASE Crash
      BY <1>5 DEF Crash
<1>6. CASE UNCHANGED vars
      BY <1>6 DEF vars
<1>7. QED BY <1>1, <1>2, <1>3, <1>4, <1>5, <1>6 DEF Next

LEMMA IInvNext ==
  ASSUME ~Reverts
  PROVE  IInv /\ [Next]_vars => IInv'
BY TypeNext, LocksNext, VersionsNext DEF IInv, Locked

LEMMA IInvAlways ==
  ASSUME ~Reverts
  PROVE  Spec => []IInv
<1>1. Init => IInv
      BY VersionsInit
<1>2. IInv /\ [Next]_vars => IInv'
      BY IInvNext
<1>3. QED BY <1>1, <1>2, PTL DEF Spec

\* While an owner only uploads new content, no interleaving, fault, crash or
\* cleaning leaves a sidecar that names a version newer than the file beside
\* it, for any number of keys, requests, versions and crashes.
THEOREM SidecarCorrect ==
  ASSUME ~Reverts
  PROVE  Spec => []SidecarNotAhead
<1>1. IInv => SidecarNotAhead
      BY DEF IInv
<1>2. QED BY <1>1, IInvAlways, PTL

\* A path that Ensure returned keeps holding what Ensure vouched for, or
\* something newer, although the mutex is released before the caller opens it.
THEOREM PathCorrect ==
  ASSUME ~Reverts
  PROVE  Spec => []PathHoldsVouched
<1>1. IInv => PathHoldsVouched
      BY DEF IInv
<1>2. QED BY <1>1, IInvAlways, PTL

LEMMA FileStep ==
  ASSUME IInv, Next
  PROVE  \A k \in Keys : file'[k] # 0 => file[k] <= file'[k]
<1> USE DEF IInv, Locked, Typed, TypeOK, Versions, Versioned, FileBehindEtag,
        BodyAhead, bucket, disk, args, locals
<1>1. ASSUME NEW p \in Requests, Rename(p)
      PROVE  \A k \in Keys : file'[k] # 0 => file[k] <= file'[k]
      BY <1>1, S3StoreAssumption DEF Rename
<1>2. ASSUME NEW k \in Keys, CleanFile(k)
      PROVE  \A l \in Keys : file'[l] # 0 => file[l] <= file'[l]
      BY <1>2, S3StoreAssumption DEF CleanFile
<1>3. ASSUME UNCHANGED file
      PROVE  \A k \in Keys : file'[k] # 0 => file[k] <= file'[k]
      BY <1>3, S3StoreAssumption
<1>4. ASSUME NEW p \in Requests, EnsureStep(p), ~Rename(p)
      PROVE  UNCHANGED file
      BY <1>4 DEF EnsureStep, LockFor, Lock, Head, HeadFail, SidecarMatches,
         SidecarDiffers, StatHit, StatMiss, Get, GetFail, CreateTemp, Copy,
         DownloadFail, TruncateSidecar, WriteSidecar, SidecarFail
<1>5. ASSUME NEW k \in Keys, Environment(k), ~CleanFile(k)
      PROVE  UNCHANGED file
      BY <1>5 DEF Environment, Put, Delete, CleanSidecar
<1>6. QED
      BY <1>1, <1>2, <1>3, <1>4, <1>5 DEF Next, Ask, Leave, Crash

\* Among requests that download different versions of one object, the older
\* one never replaces the newer one in the cache.
THEOREM FileMonotonic ==
  ASSUME ~Reverts
  PROVE  Spec => FileNeverRegresses
<1>1. IInv /\ [Next]_vars =>
        [\A k \in Keys : file'[k] # 0 => file[k] <= file'[k]]_vars
      BY FileStep
<1>2. QED BY <1>1, IInvAlways, PTL DEF Spec, FileNeverRegresses

-----------------------------------------------------------------------------
(* Ensure implements its contract.                                         *)

LEMMA ContractInit == Init => Contract!Init
BY S3StoreAssumption DEF Init, Contract!Init, Vouched

\* An error return is the contract's Refuse.
LEMMA ErrorRefuses ==
  ASSUME IInv, NEW p \in Requests, NEW r \in {"404", "500"},
         pc[p] \in Critical, Return(p, r), UNCHANGED <<bucket, args, got>>
  PROVE  Contract!Refuse(p)
BY S3StoreAssumption
   DEF IInv, Locked, Typed, TypeOK, ResultKnown, Versioned, PathKnown, Vouched, Critical,
       Return, Goto, bucket, args, Contract!Refuse

\* A path that holds a version of the request's interval is its Answer.
LEMMA PathAnswers ==
  ASSUME IInv, NEW p \in Requests, pc[p] \in Critical, Return(p, "path"),
         UNCHANGED <<bucket, args>>,
         NEW v \in Versions, got' = [got EXCEPT ![p] = v],
         since[p] <= v, v <= content[key[p]]
  PROVE  Contract!Answer(p)
<1> USE S3StoreAssumption DEF IInv, Locked, Typed, TypeOK, Critical, Return,
        Goto, bucket, args, Versions
<1> DEFINE Answers == [q \in Requests |-> Vouched(q)]
           Phase == [q \in Requests |->
                       IF pc[q] = "idle" THEN "idle"
                       ELSE IF pc[q] = "returned" THEN "answered" ELSE "asked"]
<1>1. Answers' = [Answers EXCEPT ![p] = v]
      BY DEF Vouched
<1>2. v \in since[p] .. content[key[p]]
      OBVIOUS
<1>3. Phase[p] = "asked" /\ Phase' = [Phase EXCEPT ![p] = "answered"]
      BY DEF EnsurePC
<1>4. \E w \in since[p] .. content[key[p]] : Answers' = [Answers EXCEPT ![p] = w]
      BY <1>1, <1>2
<1>5. UNCHANGED <<content, key, since>>
      OBVIOUS
<1> HIDE DEF Answers, Phase
<1>6. QED BY ONLY <1>3, <1>4, <1>5, Zenon DEF Contract!Answer, Answers, Phase

\* A step that returns nothing to anybody and keeps the bucket is a stutter.
LEMMA InsideStutters ==
  ASSUME IInv, NEW p \in Requests, pc[p] \notin {"idle", "returned"},
         NEW l \in EnsurePC \ {"idle", "returned"}, Goto(p, l),
         UNCHANGED <<content, args, ret>>,
         \A q \in Requests : got'[q] # got[q] => q = p
  PROVE  UNCHANGED Contract!vars
<1> USE DEF IInv, Locked, Typed, TypeOK, ResultKnown, Versioned, PathKnown, Goto, args, Vouched
<1>1. \A q \in Requests : Vouched(q)' = Vouched(q)
      OBVIOUS
<1>2. QED BY <1>1 DEF Contract!vars

LEMMA ContractNext ==
  ASSUME ~Reverts, IInv, [Next]_vars
  PROVE  [Contract!Next]_(Contract!vars)
<1> USE S3StoreAssumption
<1>1. ASSUME NEW p \in Requests, NEW k \in Keys, Ask(p, k)
      PROVE  Contract!Ask(p, k)
      BY <1>1 DEF Ask, Goto, bucket, locals, Contract!Ask, Vouched, IInv, Locked,
         Typed, TypeOK
<1>2. ASSUME NEW p \in Requests, EnsureStep(p)
      PROVE  Contract!Answer(p) \/ Contract!Refuse(p) \/ UNCHANGED Contract!vars
  <2> USE DEF EnsurePC, Critical, Goto, bucket, disk, args, locals
  <2>1. CASE HeadFail(p) \/ GetFail(p) \/ DownloadFail(p)
        BY <2>1, ErrorRefuses DEF HeadFail, GetFail, DownloadFail
  <2>2. CASE StatHit(p)
    <3>1. /\ since[p] <= file[key[p]] /\ file[key[p]] <= content[key[p]]
          /\ file[key[p]] \in Versions
          BY <2>2 DEF StatHit, IInv, Locked, Typed, TypeOK, Versioned, Versions,
             DiskBehindBucket, SinceBehind, HitIsFresh
    <3>2. QED BY <2>2, <3>1, PathAnswers DEF StatHit
  <2>3. CASE WriteSidecar(p) \/ SidecarFail(p)
    <3>1. /\ since[p] <= got[p] /\ got[p] <= content[key[p]]
          /\ got[p] \in Versions
          /\ got' = [got EXCEPT ![p] = got[p]]
          BY <2>3 DEF WriteSidecar, SidecarFail, IInv, Locked, Typed, TypeOK,
             Versioned, Versions, SinceBehind, EtagAhead, BodyAhead
    <3>2. QED BY <2>3, <3>1, PathAnswers DEF WriteSidecar, SidecarFail
  <2>4. CASE LockFor(p) \/ Lock(p) \/ Head(p) \/ SidecarMatches(p)
             \/ SidecarDiffers(p) \/ StatMiss(p) \/ CreateTemp(p) \/ Copy(p)
             \/ Rename(p) \/ TruncateSidecar(p)
        BY <2>4, InsideStutters
        DEF LockFor, Lock, Head, SidecarMatches, SidecarDiffers, StatMiss,
            CreateTemp, Copy, Rename, TruncateSidecar
  <2>5. CASE Get(p)
        BY <2>5, InsideStutters DEF Get, IInv, Locked, Typed, TypeOK
  <2>6. QED BY <1>2, <2>1, <2>2, <2>3, <2>4, <2>5 DEF EnsureStep
<1>3. ASSUME NEW p \in Requests, Leave(p)
      PROVE  Contract!Leave(p)
      BY <1>3 DEF Leave, Forget, bucket, disk, Contract!Leave, Vouched, IInv,
         Locked, Typed, TypeOK
<1>4. ASSUME NEW k \in Keys, Environment(k)
      PROVE  Contract!Publish(k) \/ UNCHANGED Contract!vars
      BY <1>4 DEF Environment, Put, Delete, CleanFile, CleanSidecar, bucket,
         disk, args, locals, Contract!Publish, Contract!vars, Vouched, IInv,
         Locked, Typed, TypeOK
<1>5. CASE Crash
      BY <1>5 DEF Crash, bucket, Contract!Next, Contract!Restart, Vouched
<1>6. CASE UNCHANGED vars
      BY <1>6 DEF vars, bucket, args, locals, Contract!vars, Vouched
<1>7. QED BY <1>1, <1>2, <1>3, <1>4, <1>5, <1>6 DEF Next, Contract!Next

\* Every path Ensure returns holds a version the object had between the call
\* and the return: no step of Ensure does more than the contract allows.
THEOREM EnsureImplementsFreshCache ==
  ASSUME ~Reverts
  PROVE  Spec => ImplementsFreshCache
<1>1. Init => Contract!Init
      BY ContractInit
<1>2. IInv /\ [Next]_vars => [Contract!Next]_(Contract!vars)
      BY ContractNext
<1>3. QED BY <1>1, <1>2, IInvAlways, PTL
         DEF Spec, ImplementsFreshCache, Contract!Spec
=============================================================================
