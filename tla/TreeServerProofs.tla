-------------------------- MODULE TreeServerProofs --------------------------
(***************************************************************************)
(* Theorems about TreeServer, for any numbers of keys, requests, versions  *)
(* and restarts.  The store's invariants carry over because every step of  *)
(* the server is a step of the store or leaves the store alone.            *)
(***************************************************************************)
EXTENDS TreeServer, S3StoreProofs

-----------------------------------------------------------------------------
(* The inductive invariant, in three parts.                                *)

\* A request is past Ensure only when Ensure has returned, and with a path
\* when it goes to treeCache.get; only a tree gives it a view.
PastEnsure ==
  \A p \in Requests :
    /\ at[p] # "ensure" => pc[p] = "returned"
    /\ at[p] \in {"lookup", "parse"} => ret[p] = "path"
    /\ at[p] \in {"ensure", "lookup"} => view[p] = 0

CacheTyped == Typed /\ ServerTypeOK /\ PastEnsure

\* Nobody else fills the entry that the holder of treeMu is parsing for.
ParsesOnce ==
  \A p \in Requests :
    at[p] = "parse" => view[p] # 0 /\ trees[key[p]] = 0

CacheInv == CacheTyped /\ ParsesOnce /\ ViewsAgree

\* The object was at version born[k] or later ever since the process started,
\* hence when a request for it arrived, ...
BornBehind ==
  /\ \A k \in Keys : born[k] <= content[k]
  /\ \A p \in Requests : pc[p] # "idle" => born[key[p]] <= since[p]

\* ... hence what Ensure vouches for is as recent, ...
PathIsRecent == \A p \in Requests : ret[p] = "path" => since[p] <= got[p]

\* ... and so is what was parsed from the file behind the path.
ParsedKnown ==
  /\ \A k \in Keys :
       trees[k] # 0 => born[k] <= trees[k] /\ trees[k] <= content[k]
  /\ \A p \in Requests :
       view[p] # 0 => born[key[p]] <= view[p] /\ view[p] <= content[key[p]]

ServerInv == IInv /\ CacheInv /\ BornBehind /\ PathIsRecent /\ ParsedKnown

-----------------------------------------------------------------------------
(* The server runs the store.                                              *)

LEMMA ServerStepsAreStoreSteps == [ServerNext]_allVars => [Next]_vars
BY DEF ServerNext, HandlerStep, Refused, LockTrees, TreeHit, OpenFile, Parse,
   LoadFail, Respond, Restart, Next, allVars

-----------------------------------------------------------------------------
(* Types and the mutex of treeCache.                                       *)

LEMMA CacheInit == ServerInit => CacheInv
BY TypeInit, S3StoreAssumption
DEF ServerInit, Init, CacheInv, CacheTyped, ServerTypeOK, PastEnsure, ParsesOnce,
    ViewsAgree, Typed, Versions, At

\* The store's own steps leave the server's variables alone, and none of them
\* moves a request that has returned.
LEMMA StoreKeepsCache ==
  ASSUME CacheInv, Typed', UNCHANGED <<trees, treeMu, at, view, born>>,
         \A p \in Requests :
           at[p] # "ensure" => UNCHANGED <<pc[p], ret[p], key[p]>>
  PROVE  CacheInv'
BY S3StoreAssumption
DEF CacheInv, CacheTyped, ServerTypeOK, PastEnsure, ParsesOnce, ViewsAgree,
    Typed, Versions, At

LEMMA ReturnedStays ==
  ASSUME Typed, NEW p \in Requests, EnsureStep(p)
  PROVE  /\ pc[p] \notin {"idle", "returned"}
         /\ UNCHANGED key
         /\ \A q \in Requests \ {p} : UNCHANGED <<pc[q], ret[q]>>
BY DEF Typed, TypeOK, EnsureStep, LockFor, Lock, Head, HeadFail, SidecarMatches,
   SidecarDiffers, StatHit, StatMiss, Get, GetFail, CreateTemp, Copy, Rename,
   DownloadFail, TruncateSidecar, WriteSidecar, SidecarFail, Goto, Return,
   args, locals

LEMMA CacheNext == CacheInv /\ [ServerNext]_allVars => CacheInv'
<1> SUFFICES ASSUME CacheInv, [ServerNext]_allVars
             PROVE  CacheInv'
    OBVIOUS
<1> USE S3StoreAssumption
<1>1. Typed /\ Typed'
      BY TypeNext, ServerStepsAreStoreSteps
      DEF CacheInv, CacheTyped
<1>2. ASSUME NEW p \in Requests, NEW k \in Keys, Ask(p, k), UNCHANGED serverVars
      PROVE  CacheInv'
  <2>1. pc[p] = "idle" /\ at[p] = "ensure"
        BY <1>2 DEF Ask, CacheInv, CacheTyped, PastEnsure
  <2>2. \A q \in Requests \ {p} : UNCHANGED <<pc[q], ret[q], key[q]>>
        BY <1>1, <1>2 DEF Ask, Goto, locals, Typed, TypeOK
  <2>3. QED
        BY <1>1, <1>2, <2>1, <2>2, StoreKeepsCache DEF serverVars, cacheVars
<1>3. ASSUME NEW p \in Requests, EnsureStep(p), UNCHANGED serverVars
      PROVE  CacheInv'
      BY <1>1, <1>3, StoreKeepsCache, ReturnedStays
      DEF serverVars, cacheVars, CacheInv, CacheTyped, PastEnsure
<1>4. ASSUME NEW k \in Keys, Environment(k), UNCHANGED serverVars
      PROVE  CacheInv'
  <2>1. UNCHANGED <<pc, ret, key>>
        BY <1>4 DEF Environment, Put, Delete, CleanFile, CleanSidecar, args, locals
  <2>2. QED BY <1>1, <1>4, <2>1, StoreKeepsCache DEF serverVars, cacheVars
<1>5. ASSUME NEW p \in Requests,
             \/ Refused(p) \/ LockTrees(p) \/ TreeHit(p) \/ OpenFile(p)
             \/ Parse(p) \/ LoadFail(p)
      PROVE  CacheInv'
  <2> USE DEF CacheInv, CacheTyped, ServerTypeOK, PastEnsure, ParsesOnce,
          ViewsAgree, Versions, At, Answered, vars, disk, args, locals, cacheVars
  <2>1. /\ file \in [Keys -> Versions]
        /\ ret[p] = "path" => pc[p] = "returned"
        /\ \A q \in Requests : pc[q] = "returned" => key[q] \in Keys
        BY DEF Typed, TypeOK, ResultKnown
  <2>2. Typed' /\ TypeOK'
        BY <1>1 DEF Typed
  <2>3. CASE Refused(p)   BY <2>1, <2>2, <2>3 DEF Refused
  <2>4. CASE LockTrees(p) BY <2>1, <2>2, <2>4 DEF LockTrees
  <2>5. CASE TreeHit(p)   BY <2>1, <2>2, <2>5 DEF TreeHit
  <2>6. CASE OpenFile(p)  BY <2>1, <2>2, <2>6 DEF OpenFile
  <2>7. CASE Parse(p)     BY <2>1, <2>2, <2>7 DEF Parse
  <2>8. CASE LoadFail(p)  BY <2>1, <2>2, <2>8 DEF LoadFail
  <2>9. QED BY <1>5, <2>3, <2>4, <2>5, <2>6, <2>7, <2>8
<1>6. ASSUME NEW p \in Requests, Respond(p)
      PROVE  CacheInv'
      BY <1>1, <1>6
      DEF Respond, Leave, Forget, cacheVars, CacheInv, CacheTyped, ServerTypeOK,
          PastEnsure, ParsesOnce, ViewsAgree, Typed, TypeOK, Versions, At
<1>7. CASE Restart
      BY <1>1, <1>7
      DEF Restart, Crash, bucket, CacheInv, CacheTyped, ServerTypeOK, PastEnsure,
          ParsesOnce, ViewsAgree, Typed, TypeOK, Versions, At
<1>8. CASE UNCHANGED allVars
      BY <1>1, <1>8, StoreKeepsCache
      DEF allVars, vars, locals, args, serverVars, cacheVars
<1>9. QED BY <1>2, <1>3, <1>4, <1>5, <1>6, <1>7, <1>8
         DEF ServerNext, HandlerStep

LEMMA CacheAlways == ServerSpec => []CacheInv
<1>1. ServerInit => CacheInv
      BY CacheInit
<1>2. CacheInv /\ [ServerNext]_allVars => CacheInv'
      BY CacheNext
<1>3. QED BY <1>1, <1>2, PTL DEF ServerSpec

\* Every reachable state of the server has its types, and treeCache.mu is held
\* by the one request that is inside treeCache.get and by nobody else.
THEOREM ServerTypeCorrect == ServerSpec => []ServerTypeOK
<1>1. CacheInv => ServerTypeOK
      BY DEF CacheInv, CacheTyped
<1>2. QED BY <1>1, CacheAlways, PTL

\* Whatever the requests, keys and failures, at most one request is inside the
\* HDF5 library.
THEOREM HDF5IsExclusive == ServerSpec => []OneInsideHDF5
<1>1. CacheInv => OneInsideHDF5
      BY DEF CacheInv, CacheTyped, ServerTypeOK, OneInsideHDF5
<1>2. QED BY <1>1, CacheAlways, PTL

\* All requests of one process that read an object see one version of it, also
\* when its content goes back and forth in the bucket.
THEOREM ViewsAlwaysAgree == ServerSpec => []ViewsAgree
<1>1. CacheInv => ViewsAgree
      BY DEF CacheInv
<1>2. QED BY <1>1, CacheAlways, PTL

-----------------------------------------------------------------------------
(* How recent an answer is.                                                *)

LEMMA ServerInvInit == ServerInit => ServerInv
BY CacheInit, VersionsInit, S3StoreAssumption
DEF ServerInit, Init, ServerInv, BornBehind, PathIsRecent, ParsedKnown

\* Uploads only add to the versions, and only a restart moves born.
LEMMA BornNext ==
  ASSUME ~Reverts, ServerInv, [ServerNext]_allVars
  PROVE  BornBehind'
<1> USE S3StoreAssumption
    DEF ServerInv, BornBehind, IInv, Locked, Typed, TypeOK, CacheInv,
        CacheTyped, ServerTypeOK, Versions, vars, bucket, disk, args, locals,
        serverVars, cacheVars, Goto
<1>1. ASSUME NEW p \in Requests, NEW k \in Keys, Ask(p, k), UNCHANGED serverVars
      PROVE  BornBehind'
      BY <1>1 DEF Ask
<1>2. ASSUME NEW p \in Requests, EnsureStep(p), UNCHANGED serverVars
      PROVE  BornBehind'
  <2>1. UNCHANGED <<bucket, args>> /\ pc[p] # "idle"
        BY <1>2 DEF EnsureStep, LockFor, Lock, Head, HeadFail, SidecarMatches,
           SidecarDiffers, StatHit, StatMiss, Get, GetFail, CreateTemp, Copy,
           Rename, DownloadFail, TruncateSidecar, WriteSidecar, SidecarFail,
           Critical
  <2>2. \A q \in Requests \ {p} : UNCHANGED pc[q]
        BY <1>2, ReturnedStays
  <2>3. QED BY <1>2, <2>1, <2>2
<1>3. ASSUME NEW k \in Keys, Environment(k), UNCHANGED serverVars
      PROVE  BornBehind'
      BY <1>3 DEF Environment, Put, Delete, CleanFile, CleanSidecar
<1>4. ASSUME NEW p \in Requests,
             \/ Refused(p) \/ LockTrees(p) \/ TreeHit(p) \/ OpenFile(p)
             \/ Parse(p) \/ LoadFail(p)
      PROVE  BornBehind'
      BY <1>4 DEF Refused, LockTrees, TreeHit, OpenFile, Parse, LoadFail
<1>5. ASSUME NEW p \in Requests, Respond(p)
      PROVE  BornBehind'
      BY <1>5 DEF Respond, Leave, Forget
<1>6. CASE Restart
      BY <1>6 DEF Restart, Crash
<1>7. CASE UNCHANGED allVars
      BY <1>7 DEF allVars
<1>8. QED BY <1>1, <1>2, <1>3, <1>4, <1>5, <1>6, <1>7
         DEF ServerNext, HandlerStep

\* The version Ensure found or put behind a path is of the request's interval.
LEMMA PathRecentNext ==
  ASSUME ~Reverts, ServerInv, [Next]_vars
  PROVE  PathIsRecent'
<1> USE S3StoreAssumption
    DEF ServerInv, PathIsRecent, IInv, Locked, Typed, TypeOK, ResultKnown,
        Versions, Versioned, DiskBehindBucket, SinceBehind, HitIsFresh,
        BodyAhead, Critical, EnsurePC, bucket, disk, args, locals, Goto, Return
<1>1. ASSUME NEW p \in Requests, NEW k \in Keys, Ask(p, k)
      PROVE  PathIsRecent'
      BY <1>1 DEF Ask
<1>2. ASSUME NEW p \in Requests, EnsureStep(p)
      PROVE  PathIsRecent'
  <2>1. CASE StatHit(p)      BY <2>1 DEF StatHit
  <2>2. CASE WriteSidecar(p) BY <2>2 DEF WriteSidecar
  <2>3. CASE SidecarFail(p)  BY <2>3 DEF SidecarFail
  <2>4. CASE Get(p)          BY <2>4 DEF Get
  <2>5. CASE HeadFail(p) \/ GetFail(p) \/ DownloadFail(p)
        BY <2>5 DEF HeadFail, GetFail, DownloadFail
  <2>6. CASE LockFor(p) \/ Lock(p) \/ Head(p) \/ SidecarMatches(p)
             \/ SidecarDiffers(p) \/ StatMiss(p) \/ CreateTemp(p) \/ Copy(p)
             \/ Rename(p) \/ TruncateSidecar(p)
        BY <2>6 DEF LockFor, Lock, Head, SidecarMatches, SidecarDiffers,
           StatMiss, CreateTemp, Copy, Rename, TruncateSidecar
  <2>7. QED BY <1>2, <2>1, <2>2, <2>3, <2>4, <2>5, <2>6 DEF EnsureStep
<1>3. ASSUME NEW p \in Requests, Leave(p)
      PROVE  PathIsRecent'
      BY <1>3 DEF Leave, Forget
<1>4. ASSUME NEW k \in Keys, Environment(k)
      PROVE  PathIsRecent'
      BY <1>4 DEF Environment, Put, Delete, CleanFile, CleanSidecar
<1>5. CASE Crash
      BY <1>5 DEF Crash
<1>6. CASE UNCHANGED vars
      BY <1>6 DEF vars
<1>7. QED BY <1>1, <1>2, <1>3, <1>4, <1>5, <1>6 DEF Next

\* The file a request opens is no older than the path it was given, hence no
\* older than the request, hence no older than the process.
LEMMA OpenedIsRecent ==
  ASSUME ServerInv, NEW p \in Requests, ret[p] = "path", file[key[p]] # 0
  PROVE  born[key[p]] <= file[key[p]] /\ file[key[p]] <= content[key[p]]
BY S3StoreAssumption
DEF ServerInv, IInv, Locked, Typed, TypeOK, ResultKnown, CacheInv, CacheTyped,
    ServerTypeOK, Versions, Versioned, DiskBehindBucket, PathHoldsVouched,
    Vouched, BornBehind, PathIsRecent

LEMMA ParsedNext ==
  ASSUME ~Reverts, ServerInv, [ServerNext]_allVars
  PROVE  ParsedKnown'
<1> USE S3StoreAssumption DEF ParsedKnown
<1>1. /\ key \in [Requests -> Keys \cup {NoKey}]
      /\ \A q \in Requests : pc[q] # "idle" => key[q] \in Keys
      /\ content \in [Keys -> 1 .. MaxVersion] /\ file \in [Keys -> Versions]
      /\ trees \in [Keys -> Versions] /\ view \in [Requests -> Versions]
      /\ born \in [Keys -> Versions]
      /\ ParsedKnown
      BY DEF ServerInv, IInv, Locked, Typed, TypeOK, CacheInv, CacheTyped,
         ServerTypeOK
<1>2. \A q \in Requests : view[q] # 0 => pc[q] = "returned"
      BY DEF ServerInv, CacheInv, CacheTyped, PastEnsure, ServerTypeOK, At
<1> USE DEF Versions
<1>3. ASSUME NEW p \in Requests, NEW k \in Keys, Ask(p, k), UNCHANGED serverVars
      PROVE  ParsedKnown'
      BY <1>1, <1>2, <1>3 DEF Ask, bucket, serverVars, cacheVars
<1>4. ASSUME NEW p \in Requests, EnsureStep(p), UNCHANGED serverVars
      PROVE  ParsedKnown'
  <2>1. UNCHANGED <<content, key>>
        BY <1>4 DEF EnsureStep, LockFor, Lock, Head, HeadFail, SidecarMatches,
           SidecarDiffers, StatHit, StatMiss, Get, GetFail, CreateTemp, Copy,
           Rename, DownloadFail, TruncateSidecar, WriteSidecar, SidecarFail,
           bucket, args
  <2>2. QED BY <1>1, <1>4, <2>1 DEF serverVars, cacheVars
<1>5. ASSUME NEW k \in Keys, Environment(k), UNCHANGED serverVars
      PROVE  ParsedKnown'
  <2>1. /\ UNCHANGED key
        /\ \A l \in Keys : content[l] <= content'[l] /\ content'[l] \in Nat
        BY <1>1, <1>5 DEF Environment, Put, Delete, CleanFile, CleanSidecar,
           args, bucket
  <2>2. \A q \in Requests : view[q] # 0 => key[q] \in Keys
        BY <1>1, <1>2
  <2>3. QED BY <1>1, <1>5, <2>1, <2>2 DEF serverVars, cacheVars
<1>6. ASSUME NEW p \in Requests, TreeHit(p)
      PROVE  ParsedKnown'
  <2>1. key[p] \in Keys
        BY <1>1, <1>6 DEF TreeHit, ServerInv, CacheInv, CacheTyped, PastEnsure
  <2>2. QED BY <1>1, <1>6, <2>1 DEF TreeHit, Answered, vars, bucket, args
<1>7. ASSUME NEW p \in Requests, OpenFile(p)
      PROVE  ParsedKnown'
  <2>1. ret[p] = "path"
        BY <1>7 DEF OpenFile, ServerInv, CacheInv, CacheTyped, PastEnsure
  <2>2. QED BY <1>1, <1>7, <2>1, OpenedIsRecent
            DEF OpenFile, vars, bucket, args, cacheVars
<1>8. ASSUME NEW p \in Requests, Parse(p)
      PROVE  ParsedKnown'
      BY <1>1, <1>8 DEF Parse, Answered, vars, bucket, args
<1>9. ASSUME NEW p \in Requests, Refused(p) \/ LockTrees(p) \/ LoadFail(p)
      PROVE  ParsedKnown'
      BY <1>1, <1>9 DEF Refused, LockTrees, LoadFail, Answered, vars, bucket,
         args, cacheVars
<1>10. ASSUME NEW p \in Requests, Respond(p)
       PROVE  ParsedKnown'
       BY <1>1, <1>10 DEF Respond, Leave, Forget, bucket, cacheVars
<1>11. CASE Restart
       BY <1>1, <1>11 DEF Restart, Crash, bucket
<1>12. CASE UNCHANGED allVars
       BY <1>1, <1>12 DEF allVars, vars, bucket, args, serverVars, cacheVars
<1>13. QED BY <1>3, <1>4, <1>5, <1>6, <1>7, <1>8, <1>9, <1>10, <1>11, <1>12
          DEF ServerNext, HandlerStep

LEMMA ServerInvAlways ==
  ASSUME ~Reverts
  PROVE  ServerSpec => []ServerInv
<1>1. ServerInit => ServerInv
      BY ServerInvInit
<1>2. ServerInv /\ [ServerNext]_allVars => ServerInv'
      BY IInvNext, ServerStepsAreStoreSteps, CacheNext, BornNext,
         PathRecentNext, ParsedNext DEF ServerInv
<1>3. QED BY <1>1, <1>2, PTL DEF ServerSpec

\* While an owner only uploads new content, no answer is older than the object
\* was when the process started: what an earlier process left on disk, complete
\* or not, is never shown in its place.
THEOREM NeverOlderThanProcess ==
  ASSUME ~Reverts
  PROVE  ServerSpec => []NotOlderThanProcess
<1>1. ServerInv => NotOlderThanProcess
      BY DEF ServerInv, ParsedKnown, NotOlderThanProcess
<1>2. QED BY <1>1, ServerInvAlways, PTL

-----------------------------------------------------------------------------
(* The server implements PinnedView.                                       *)

LEMMA PinnedInit == ServerInit => Pinned!Init
BY S3StoreAssumption DEF ServerInit, Init, Pinned!Init

\* A step that answers nobody and keeps the bucket is a stutter.
LEMMA UnansweredStutters ==
  ASSUME ServerInv, NEW p \in Requests, at[p] # "answered",
         pc[p] # "idle", pc'[p] # "idle", at'[p] # "answered",
         \A q \in Requests \ {p} : UNCHANGED <<pc[q], at[q], view[q]>>,
         UNCHANGED <<content, born, trees, key>>
  PROVE  UNCHANGED Pinned!vars
BY DEF Pinned!vars

\* The three ends of load answer one request.
LEMMA LoadEnds ==
  ASSUME ServerInv, NEW p \in Requests, at[p] # "answered", pc[p] = "returned",
         at' = [at EXCEPT ![p] = "answered"],
         UNCHANGED <<content, born, pc, key>>,
         NEW v \in Versions, view' = [view EXCEPT ![p] = v]
  PROVE  /\ v = 0 /\ UNCHANGED trees => Pinned!Refuse(p)
         /\ v # 0 /\ v = trees[key[p]] /\ UNCHANGED trees => Pinned!AnswerPinned(p)
         /\ trees[key[p]] = 0 /\ trees' = [trees EXCEPT ![key[p]] = v]
              /\ v \in born[key[p]] .. content[key[p]] => Pinned!AnswerFirst(p)
<1> DEFINE Phase == [q \in Requests |->
                       IF pc[q] = "idle" THEN "idle"
                       ELSE IF at[q] = "answered" THEN "answered" ELSE "asked"]
           Answers == [q \in Requests |-> IF at[q] = "answered" THEN view[q] ELSE 0]
<1>1. at \in [Requests -> At] /\ view \in [Requests -> Versions]
      BY DEF ServerInv, CacheInv, CacheTyped, ServerTypeOK
<1>2. Phase[p] = "asked" /\ Phase' = [Phase EXCEPT ![p] = "answered"]
      BY <1>1
<1>3. Answers' = [Answers EXCEPT ![p] = v]
      BY <1>1
<1>4. v = 0 => Answers' = Answers
      BY <1>1, <1>3
<1>5. UNCHANGED <<content, born, key>>
      OBVIOUS
<1> HIDE DEF Phase, Answers
<1>6. v = 0 /\ UNCHANGED trees => Pinned!Refuse(p)
      BY ONLY <1>2, <1>4, <1>5, Zenon DEF Pinned!Refuse, Phase, Answers
<1>7. v # 0 /\ v = trees[key[p]] /\ UNCHANGED trees => Pinned!AnswerPinned(p)
      BY ONLY <1>2, <1>3, <1>5, Zenon DEF Pinned!AnswerPinned, Phase, Answers
<1>8. trees[key[p]] = 0 /\ trees' = [trees EXCEPT ![key[p]] = v]
        /\ v \in born[key[p]] .. content[key[p]] => Pinned!AnswerFirst(p)
      BY ONLY <1>2, <1>3, <1>5, Zenon DEF Pinned!AnswerFirst, Phase, Answers
<1>9. QED BY <1>6, <1>7, <1>8

LEMMA PinnedNext ==
  ASSUME ~Reverts, ServerInv, [ServerNext]_allVars
  PROVE  [Pinned!Next]_(Pinned!vars)
<1> USE S3StoreAssumption
<1>1. /\ key \in [Requests -> Keys \cup {NoKey}] /\ pc \in [Requests -> EnsurePC]
      /\ \A q \in Requests : pc[q] # "idle" => key[q] \in Keys
      /\ content \in [Keys -> 1 .. MaxVersion] /\ file \in [Keys -> Versions]
      /\ trees \in [Keys -> Versions] /\ view \in [Requests -> Versions]
      /\ born \in [Keys -> Versions] /\ at \in [Requests -> At]
      /\ PastEnsure /\ ParsesOnce /\ ParsedKnown
      BY DEF ServerInv, IInv, Locked, Typed, TypeOK, CacheInv, CacheTyped,
         ServerTypeOK
<1>2. \A q \in Requests : ret[q] # "none" => pc[q] = "returned"
      BY DEF ServerInv, IInv, Locked, Typed, ResultKnown
<1>3. ASSUME NEW p \in Requests, NEW k \in Keys, Ask(p, k), UNCHANGED serverVars
      PROVE  Pinned!Ask(p, k)
      BY <1>1, <1>3 DEF Ask, Goto, bucket, serverVars, cacheVars, PastEnsure,
         Pinned!Ask
<1>4. ASSUME NEW p \in Requests, EnsureStep(p), UNCHANGED serverVars
      PROVE  UNCHANGED Pinned!vars
  <2>1. UNCHANGED <<content, key>> /\ pc'[p] # "idle"
        BY <1>1, <1>4 DEF EnsureStep, LockFor, Lock, Head, HeadFail,
           SidecarMatches, SidecarDiffers, StatHit, StatMiss, Get, GetFail,
           CreateTemp, Copy, Rename, DownloadFail, TruncateSidecar,
           WriteSidecar, SidecarFail, Goto, Return, bucket, args
  <2>2. /\ pc[p] \notin {"idle", "returned"}
        /\ \A q \in Requests \ {p} : UNCHANGED pc[q]
        BY <1>4, ReturnedStays DEF ServerInv, IInv, Locked
  <2>3. at[p] # "answered"
        BY <1>1, <2>2 DEF PastEnsure
  <2>4. QED BY <1>4, <2>1, <2>2, <2>3, UnansweredStutters
            DEF serverVars, cacheVars
<1>5. ASSUME NEW k \in Keys, Environment(k), UNCHANGED serverVars
      PROVE  Pinned!Publish(k) \/ UNCHANGED Pinned!vars
      BY <1>1, <1>5 DEF Environment, Put, Delete, CleanFile, CleanSidecar,
         bucket, disk, args, serverVars, cacheVars, Pinned!Publish, Pinned!vars
<1>6. ASSUME NEW p \in Requests, LockTrees(p) \/ OpenFile(p)
      PROVE  UNCHANGED Pinned!vars
      BY <1>1, <1>2, <1>6, UnansweredStutters
      DEF LockTrees, OpenFile, vars, bucket, args, cacheVars, PastEnsure
<1>7. ASSUME NEW p \in Requests, Refused(p)
      PROVE  Pinned!Refuse(p)
  <2>1. view' = [view EXCEPT ![p] = 0] /\ 0 \in Versions
        BY <1>1, <1>7 DEF Refused, PastEnsure, Versions
  <2>2. QED BY <1>7, <2>1, LoadEnds DEF Refused, vars, bucket, args, cacheVars
<1>8. ASSUME NEW p \in Requests, TreeHit(p)
      PROVE  Pinned!AnswerPinned(p)
  <2>1. pc[p] = "returned" /\ trees[key[p]] \in Versions
        BY <1>1, <1>8 DEF TreeHit, PastEnsure
  <2>2. QED BY <1>8, <2>1, LoadEnds DEF TreeHit, Answered, vars, bucket, args
<1>9. ASSUME NEW p \in Requests, Parse(p)
      PROVE  Pinned!AnswerFirst(p)
  <2>1. /\ pc[p] = "returned" /\ view[p] \in Versions /\ trees[key[p]] = 0
        /\ view' = [view EXCEPT ![p] = view[p]]
        /\ view[p] \in born[key[p]] .. content[key[p]]
        BY <1>1, <1>9 DEF Parse, PastEnsure, ParsesOnce, ParsedKnown, Versions
  <2>2. QED BY <1>9, <2>1, LoadEnds DEF Parse, Answered, vars, bucket, args
<1>10. ASSUME NEW p \in Requests, LoadFail(p)
       PROVE  Pinned!Refuse(p)
  <2>1. pc[p] = "returned" /\ 0 \in Versions
        BY <1>1, <1>10 DEF LoadFail, PastEnsure, Versions
  <2>2. QED BY <1>10, <2>1, LoadEnds DEF LoadFail, Answered, vars, bucket, args
<1>11. ASSUME NEW p \in Requests, Respond(p)
       PROVE  Pinned!Leave(p)
       BY <1>1, <1>11 DEF Respond, Leave, Forget, bucket, cacheVars,
          Pinned!Leave
<1>12. CASE Restart
       BY <1>12 DEF Restart, Crash, bucket, Pinned!Next, Pinned!Restart
<1>13. CASE UNCHANGED allVars
       BY <1>13 DEF allVars, vars, bucket, args, serverVars, cacheVars,
          Pinned!vars
<1>14. QED BY <1>3, <1>4, <1>5, <1>6, <1>7, <1>8, <1>9, <1>10, <1>11, <1>12,
              <1>13 DEF ServerNext, HandlerStep, Pinned!Next

\* Over the life of one process every answer about an object is the version its
\* first answer showed, and that one is no older than the process; no step of a
\* handler, of Ensure or of treeCache does more than this contract allows.
THEOREM ServerImplementsPinnedView ==
  ASSUME ~Reverts
  PROVE  ServerSpec => ImplementsPinnedView
<1>1. ServerInit => Pinned!Init
      BY PinnedInit
<1>2. ServerInv /\ [ServerNext]_allVars => [Pinned!Next]_(Pinned!vars)
      BY PinnedNext
<1>3. QED BY <1>1, <1>2, ServerInvAlways, PTL
         DEF ServerSpec, ImplementsPinnedView, Pinned!Spec

-----------------------------------------------------------------------------
(* What EveryRequestAnswered rests on: no wait in a circle, and no loop.   *)

\* p cannot go on before q has let a mutex go: that of their key, or that of
\* treeCache.
Waits(p, q) ==
  \/ pc[p] = "lock" /\ pc[q] \in Critical /\ SameMutex(p, q)
  \/ ret[p] = "path" /\ at[p] = "ensure" /\ treeMu = q

\* A request that another one waits for waits for nobody.
HoldersDoNotWait ==
  \A p, q, r \in Requests : Waits(p, q) => ~Waits(q, r)

\* How many steps of its own a request takes at most before it is answered.
StepsLeft(p) ==
  CASE at[p] = "answered" \/ pc[p] = "idle" -> 0
    [] at[p] = "parse" -> 1
    [] at[p] = "lookup" -> 2
    [] at[p] = "ensure" /\ pc[p] = "returned" -> 3
    [] pc[p] = "write" -> 4
    [] pc[p] = "truncate" -> 5
    [] pc[p] = "rename" -> 6
    [] pc[p] = "copy" -> 7
    [] pc[p] = "temp" -> 8
    [] pc[p] = "get" -> 9
    [] pc[p] = "stat" -> 10
    [] pc[p] = "sidecar" -> 11
    [] pc[p] = "head" -> 12
    [] pc[p] = "lock" -> 13
    [] pc[p] = "lockFor" -> 14

\* No step takes a request back, and each of its own takes it on.
HandlersGoOn ==
  [][\A p \in Requests :
       pc[p] # "idle" =>
         /\ StepsLeft(p)' <= StepsLeft(p)
         /\ HandlerStep(p) => StepsLeft(p)' < StepsLeft(p)]_allVars

\* Ensure has let the mutex of the key go before treeCache.get takes its own, so
\* the requests never wait for one another in a circle, whatever their keys.
THEOREM HoldersNeverWait == ServerSpec => []HoldersDoNotWait
<1>1. CacheInv => HoldersDoNotWait
  <2> SUFFICES ASSUME CacheInv, NEW p \in Requests, NEW q \in Requests,
                      NEW r \in Requests, Waits(p, q), Waits(q, r)
               PROVE  FALSE
      BY DEF HoldersDoNotWait
  <2> USE DEF CacheInv, CacheTyped, ServerTypeOK, PastEnsure, Typed, ResultKnown,
          Waits, Critical
  <2>1. CASE pc[q] \in Critical
        BY <2>1
  <2>2. CASE treeMu = q
        BY <2>2
  <2>3. QED BY <2>1, <2>2
<1>2. QED BY <1>1, CacheAlways, PTL

LEMMA StepsGoOn ==
  ASSUME CacheInv, [ServerNext]_allVars, NEW p \in Requests, pc[p] # "idle"
  PROVE  /\ StepsLeft(p)' <= StepsLeft(p)
         /\ HandlerStep(p) => StepsLeft(p)' < StepsLeft(p)
<1>1. /\ pc \in [Requests -> EnsurePC] /\ at \in [Requests -> At]
      /\ at[p] # "ensure" => pc[p] = "returned"
      /\ ret[p] = "path" => pc[p] = "returned"
      BY DEF CacheInv, CacheTyped, Typed, TypeOK, ResultKnown, ServerTypeOK,
         PastEnsure
<1>2. /\ pc' \in [Requests -> EnsurePC] /\ at' \in [Requests -> At]
      /\ at'[p] # "ensure" => pc'[p] = "returned"
      BY CacheNext
      DEF CacheInv, CacheTyped, Typed, TypeOK, ServerTypeOK, PastEnsure
<1>3. StepsLeft(p) \in 0 .. 14
      BY <1>1 DEF StepsLeft, At, EnsurePC, Critical
<1>4. StepsLeft(p)' \in 0 .. 14
      BY <1>2 DEF StepsLeft, At, EnsurePC, Critical
<1>5. ASSUME UNCHANGED <<pc[p], at[p]>>
      PROVE  StepsLeft(p)' <= StepsLeft(p)
      BY <1>1, <1>5 DEF StepsLeft, At, EnsurePC, Critical
<1>6. ASSUME EnsureStep(p), UNCHANGED serverVars
      PROVE  StepsLeft(p)' < StepsLeft(p)
      BY <1>1, <1>6
      DEF EnsureStep, LockFor, Lock, Head, HeadFail, SidecarMatches,
          SidecarDiffers, StatHit, StatMiss, Get, GetFail, CreateTemp, Copy,
          Rename, DownloadFail, TruncateSidecar, WriteSidecar, SidecarFail, Goto,
          Return, serverVars, StepsLeft, At, EnsurePC, Critical
<1>7. ASSUME \/ Refused(p) \/ LockTrees(p) \/ TreeHit(p) \/ OpenFile(p)
             \/ Parse(p) \/ LoadFail(p)
      PROVE  StepsLeft(p)' < StepsLeft(p)
      BY <1>1, <1>7
      DEF Refused, LockTrees, TreeHit, OpenFile, Parse, LoadFail, Answered, vars,
          StepsLeft, At, EnsurePC, Critical
<1>8. HandlerStep(p) => StepsLeft(p)' < StepsLeft(p)
      BY <1>6, <1>7 DEF HandlerStep
<1>9. CASE Respond(p) \/ Restart
  <2>1. pc'[p] = "idle"
        BY <1>1, <1>9 DEF Respond, Leave, Forget, Restart, Crash
  <2>2. StepsLeft(p)' = 0
        BY <1>2, <2>1 DEF StepsLeft
  <2>3. QED BY <1>3, <1>8, <2>2
<1>10. ASSUME NEW q \in Requests, NEW k \in Keys, Ask(q, k), UNCHANGED serverVars
       PROVE  UNCHANGED <<pc[p], at[p]>>
       BY <1>1, <1>10 DEF Ask, Goto, serverVars
<1>11. ASSUME NEW q \in Requests \ {p}, EnsureStep(q), UNCHANGED serverVars
       PROVE  UNCHANGED <<pc[p], at[p]>>
       BY <1>11, ReturnedStays DEF CacheInv, CacheTyped, serverVars
<1>12. ASSUME NEW q \in Requests \ {p},
              \/ Refused(q) \/ LockTrees(q) \/ TreeHit(q) \/ OpenFile(q)
              \/ Parse(q) \/ LoadFail(q) \/ Respond(q)
       PROVE  UNCHANGED <<pc[p], at[p]>>
       BY <1>1, <1>12
       DEF Refused, LockTrees, TreeHit, OpenFile, Parse, LoadFail, Answered,
           Respond, Leave, Forget, vars
<1>13. ASSUME NEW k \in Keys, Environment(k), UNCHANGED serverVars
       PROVE  UNCHANGED <<pc[p], at[p]>>
       BY <1>13 DEF Environment, Put, Delete, CleanFile, CleanSidecar, serverVars
<1>14. CASE UNCHANGED allVars
       BY <1>5, <1>8, <1>14 DEF allVars, vars, serverVars
<1>15. \/ HandlerStep(p) \/ Respond(p) \/ Restart \/ UNCHANGED allVars
       \/ UNCHANGED <<pc[p], at[p]>>
       BY <1>10, <1>11, <1>12, <1>13 DEF ServerNext, HandlerStep
<1>16. QED BY <1>3, <1>4, <1>5, <1>8, <1>9, <1>14, <1>15

\* A request has no loop and repeats nothing: fourteen steps of its own at most
\* bring it to its answer, and whatever other requests, the owners of objects, a
\* cleaner or a restart do, it never has to take one again.
THEOREM HandlersAlwaysGoOn == ServerSpec => HandlersGoOn
<1>1. CacheInv /\ [ServerNext]_allVars
        => [\A p \in Requests :
              pc[p] # "idle" =>
                /\ StepsLeft(p)' <= StepsLeft(p)
                /\ HandlerStep(p) => StepsLeft(p)' < StepsLeft(p)]_allVars
      BY StepsGoOn
<1>2. QED BY <1>1, CacheAlways, PTL DEF ServerSpec, HandlersGoOn
=============================================================================
