--------------------------- MODULE PyServerProofs ---------------------------
(***************************************************************************)
(* Theorems about PyServer, for any numbers of keys, threads, versions and *)
(* kills: of any workers what each thread and worker keeps to, and of one  *)
(* worker that ensure keeps its contract although it may be killed         *)
(* anywhere.                                                               *)
(* (Two workers do not: the run py_converge shows how they diverge.)       *)
(***************************************************************************)
EXTENDS PyServer, TLAPS

OneWorker == \E w \in Workers : Workers = {w}

-----------------------------------------------------------------------------
(* Any workers.                                                            *)

LEMMA TypeInit == Init => TypeOK
BY PyServerAssumption DEF Init, TypeOK, Versions, PC, InEnsure

LEMMA TypeNext == TypeOK /\ [Next]_vars => TypeOK'
<1> SUFFICES ASSUME TypeOK, [Next]_vars
             PROVE  TypeOK'
    OBVIOUS
<1> USE PyServerAssumption DEF TypeOK, Versions, PC, InEnsure, Goto, bucket, disk, workers, locals
<1>1. ASSUME NEW t \in Threads, NEW k \in Keys, Ask(t, k)
      PROVE  TypeOK'
      BY <1>1 DEF Ask
<1>2. ASSUME NEW t \in Threads, ThreadStep(t)
      PROVE  TypeOK'
  <2>1. CASE Lock(t)        BY <2>1 DEF Lock
  <2>2. CASE Head(t)        BY <2>2 DEF Head
  <2>3. CASE Fail(t)        BY <2>3 DEF Fail
  <2>4. CASE Exists(t)      BY <2>4 DEF Exists
  <2>5. CASE SidecarHit(t)  BY <2>5 DEF SidecarHit
  <2>6. CASE SidecarMiss(t) BY <2>6 DEF SidecarMiss
  <2>7. CASE Get(t)         BY <2>7 DEF Get
  <2>8. CASE Replace(t)     BY <2>8 DEF Replace
  <2>9. CASE Truncate(t)    BY <2>9 DEF Truncate
  <2>10. CASE Write(t)      BY <2>10 DEF Write
  <2>11. CASE LockTree(t)   BY <2>11 DEF LockTree
  <2>12. CASE Open(t)       BY <2>12 DEF Open
  <2>14. CASE OpenFail(t)   BY <2>14 DEF OpenFail
  <2>13. QED
         BY <1>2, <2>1, <2>2, <2>3, <2>4, <2>5, <2>6, <2>7, <2>8, <2>9, <2>10,
            <2>11, <2>12, <2>14 DEF ThreadStep
<1>3. ASSUME NEW t \in Threads, Respond(t)
      PROVE  TypeOK'
      BY <1>3 DEF Respond
<1>4. ASSUME NEW k \in Keys, Put(k) \/ Delete(k)
      PROVE  TypeOK'
  <2>1. CASE Put(k)
    <3>1. PICK v \in 1 .. MaxVersion : content' = [content EXCEPT ![k] = v]
          BY <2>1 DEF Put
    <3>2. QED
          BY <2>1, <3>1 DEF Put
  <2>2. CASE Delete(k)
        BY <2>2 DEF Delete
  <2>3. QED
        BY <1>4, <2>1, <2>2
<1>5. ASSUME NEW w \in Workers, Kill(w)
      PROVE  TypeOK'
  <2>1. content \in [Keys -> Versions]
        OBVIOUS
  <2>2. born' \in [Workers -> [Keys -> Versions]] /\ kills' \in 0 .. MaxKills
        BY <1>5, <2>1 DEF Kill
  <2>3. handles' \in [Workers -> [Keys -> Versions]]
        BY <1>5 DEF Kill
  <2>4. QED
        BY <1>5, <2>2, <2>3 DEF Kill
<1>8. ASSUME NEW k \in Keys, CleanFile(k) \/ CleanSidecar(k)
      PROVE  TypeOK'
  <2>1. CASE CleanFile(k)
        BY <2>1 DEF CleanFile
  <2>2. CASE CleanSidecar(k)
        BY <2>2 DEF CleanSidecar
  <2>3. QED
        BY <1>8, <2>1, <2>2
<1>6. CASE UNCHANGED vars
      BY <1>6 DEF vars
<1>7. QED
      BY <1>1, <1>2, <1>3, <1>4, <1>5, <1>6, <1>8 DEF Next

\* Every reachable state has its types.
THEOREM TypeCorrect == Spec => []TypeOK
BY TypeInit, TypeNext, PTL DEF Spec

-----------------------------------------------------------------------------
(* Any workers: what a thread answers from.                                *)

\* What a thread shows is a version the object has had, and of two threads of one
\* worker with the same object the same.
AnswersAreVersions ==
  /\ \A t \in Threads : view[t] # 0 => view[t] \in 1 .. content[key[t]]
  /\ \A t, u \in Threads :
       /\ WorkerOf[t] = WorkerOf[u] /\ key[t] = key[u]
       /\ view[t] # 0 /\ view[u] # 0
       => view[t] = view[u]

\* Nothing that is cached is newer than the bucket, a thread that has downloaded
\* has something, and what it shows is what its worker keeps open.
CacheKnown ==
  /\ \A k \in Keys :
       /\ file[k] <= content[k]
       /\ \A w \in Workers : handles[w][k] <= content[k]
  /\ \A t \in Threads :
       /\ pc[t] = "replace" => got[t] \in 1 .. content[key[t]]
       /\ view[t] # 0 => /\ pc[t] = "answered"
                         /\ view[t] = handles[WorkerOf[t]][key[t]]

LEMMA CacheKnownInit == Init => CacheKnown
BY PyServerAssumption DEF Init, CacheKnown

\* What is in the bucket only gets newer.
LEMMA BucketGoesOn ==
  ASSUME TypeOK, NEW k \in Keys, Put(k) \/ Delete(k)
  PROVE  /\ \A h \in Keys : content'[h] \in Nat /\ content[h] <= content'[h]
         /\ UNCHANGED <<disk, workers, pc, locals>>
<1>1. \A h \in Keys : content[h] \in Nat
      BY DEF TypeOK
<1>2. CASE Put(k)
  <2>1. PICK v \in 1 .. MaxVersion :
          /\ v = content[k] + 1 \/ v = content[k]
          /\ content' = [content EXCEPT ![k] = v]
        BY ONLY <1>2, Zenon DEF Put
  <2>2. QED
        BY <1>1, <1>2, <2>1 DEF Put, TypeOK
<1>3. CASE Delete(k)
      BY <1>1, <1>3 DEF Delete
<1>4. QED
      BY <1>2, <1>3

LEMMA CacheKnownNext ==
  ASSUME TypeOK, CacheKnown, [Next]_vars
  PROVE  CacheKnown'
<1> USE PyServerAssumption
        DEF TypeOK, CacheKnown, Versions, PC, InEnsure, Goto, bucket, disk, workers, locals
<1>1. ASSUME NEW t \in Threads, NEW k \in Keys, Ask(t, k)
      PROVE  CacheKnown'
      BY <1>1 DEF Ask
<1>2. ASSUME NEW t \in Threads, ThreadStep(t)
      PROVE  CacheKnown'
  <2>1. CASE Lock(t) \/ Head(t) \/ SidecarHit(t) \/ SidecarMiss(t) \/ Write(t)
             \/ LockTree(t) \/ Truncate(t) \/ Exists(t)
        BY <2>1 DEF Lock, Head, SidecarHit, SidecarMiss, Write, LockTree, Truncate,
           Exists
  <2>2. CASE Fail(t) \/ OpenFail(t)
        BY <2>2 DEF Fail, OpenFail
  <2>3. CASE Get(t)         BY <2>3 DEF Get
  <2>4. CASE Replace(t)     BY <2>4 DEF Replace
  <2>5. CASE Open(t)        BY <2>5 DEF Open
  <2>6. QED
        BY <1>2, <2>1, <2>2, <2>3, <2>4, <2>5 DEF ThreadStep
<1>3. ASSUME NEW t \in Threads, Respond(t)
      PROVE  CacheKnown'
      BY <1>3 DEF Respond
<1>4. ASSUME NEW k \in Keys, Put(k) \/ Delete(k)
      PROVE  CacheKnown'
  <2>1. /\ \A h \in Keys : content'[h] \in Nat /\ content[h] <= content'[h]
        /\ UNCHANGED <<disk, workers, pc, locals>>
        BY <1>4, BucketGoesOn
  <2>2. QED
        BY <2>1
<1>5. ASSUME NEW w \in Workers, Kill(w)
      PROVE  CacheKnown'
      BY <1>5 DEF Kill
<1>8. ASSUME NEW k \in Keys, CleanFile(k) \/ CleanSidecar(k)
      PROVE  CacheKnown'
      BY <1>8 DEF CleanFile, CleanSidecar
<1>6. CASE UNCHANGED vars
      BY <1>6 DEF vars
<1>7. QED
      BY <1>1, <1>2, <1>3, <1>4, <1>5, <1>6, <1>8 DEF Next

\* Although their downloads replace each other's files and sidecars and may fail
\* or die between any two calls, no worker ever answers with anything but a version
\* the object has had; and two answers of one worker about one object agree.
THEOREM AnswersAlwaysVersions == Spec => []AnswersAreVersions
<1>1. TypeOK /\ CacheKnown => AnswersAreVersions
      BY PyServerAssumption DEF TypeOK, CacheKnown, AnswersAreVersions, Versions
<1>2. TypeOK /\ CacheKnown /\ [Next]_vars => CacheKnown'
      BY CacheKnownNext
<1>3. QED
      BY <1>1, <1>2, CacheKnownInit, TypeCorrect, PTL DEF Spec

-----------------------------------------------------------------------------
(* Any workers: what EveryRequestAnswered rests on.                        *)

\* How many steps of its own a request takes at most before it is answered.
StepsLeft(t) ==
  CASE pc[t] \in {"idle", "answered"} -> 0
    [] pc[t] = "open" -> 1
    [] pc[t] = "tree" -> 2
    [] pc[t] = "write" -> 3
    [] pc[t] = "truncate" -> 4
    [] pc[t] = "replace" -> 5
    [] pc[t] = "get" -> 6
    [] pc[t] = "sidecar" -> 7
    [] pc[t] = "exists" -> 8
    [] pc[t] = "head" -> 9
    [] pc[t] = "lock" -> 10

\* No step takes a request back, and each of its own takes it on.
ThreadsGoOn ==
  [][\A t \in Threads :
       pc[t] # "idle" =>
         /\ StepsLeft(t)' <= StepsLeft(t)
         /\ ThreadStep(t) => StepsLeft(t)' < StepsLeft(t)]_vars

LEMMA StepsGoOn ==
  ASSUME TypeOK, [Next]_vars, NEW t \in Threads, pc[t] # "idle"
  PROVE  /\ StepsLeft(t)' <= StepsLeft(t)
         /\ ThreadStep(t) => StepsLeft(t)' < StepsLeft(t)
<1>1. pc \in [Threads -> PC] /\ pc' \in [Threads -> PC]
      BY TypeNext DEF TypeOK
<1>2. StepsLeft(t) \in 0 .. 10 /\ StepsLeft(t)' \in 0 .. 10
      BY <1>1 DEF StepsLeft, PC, InEnsure
<1>3. ThreadStep(t) => StepsLeft(t)' < StepsLeft(t)
      BY <1>1
      DEF ThreadStep, Lock, Head, Fail, Exists, SidecarHit, SidecarMiss, Get,
          Replace, Truncate, Write, LockTree, Open, OpenFail, Goto, StepsLeft, PC, InEnsure
<1>4. ASSUME pc'[t] \in {pc[t], "idle"}
      PROVE  StepsLeft(t)' <= StepsLeft(t)
      BY <1>1, <1>4 DEF StepsLeft, PC, InEnsure
<1>5. ASSUME NEW u \in Threads, (\E k \in Keys : Ask(u, k)) \/ Respond(u)
      PROVE  pc'[t] \in {pc[t], "idle"}
      BY <1>1, <1>5 DEF Ask, Respond, Goto
<1>6. ASSUME NEW u \in Threads \ {t}, ThreadStep(u)
      PROVE  pc'[t] = pc[t]
      BY <1>1, <1>6
      DEF ThreadStep, Lock, Head, Fail, Exists, SidecarHit, SidecarMiss, Get,
          Replace, Truncate, Write, LockTree, Open, OpenFail, Goto
<1>7. ASSUME NEW w \in Workers, Kill(w)
      PROVE  pc'[t] \in {pc[t], "idle"}
      BY <1>7 DEF Kill
<1>8. ThreadStep(t) \/ pc'[t] \in {pc[t], "idle"}
      BY <1>5, <1>6, <1>7 DEF Next, Put, Delete, CleanFile, CleanSidecar, vars
<1>9. QED
      BY <1>2, <1>3, <1>4, <1>8

\* A request has no loop: ten steps of its own at most bring it to its answer,
\* and whatever other threads of any worker do, it never has to take one again.
THEOREM ThreadsAlwaysGoOn == Spec => ThreadsGoOn
<1>1. TypeOK /\ [Next]_vars
        => [\A t \in Threads :
              pc[t] # "idle" =>
                /\ StepsLeft(t)' <= StepsLeft(t)
                /\ ThreadStep(t) => StepsLeft(t)' < StepsLeft(t)]_vars
      BY StepsGoOn
<1>2. QED
      BY <1>1, TypeCorrect, PTL DEF Spec, ThreadsGoOn

-----------------------------------------------------------------------------
(* One worker: the inductive invariant.                                    *)

\* Its lock lets one thread at a time at an object.
Exclusive ==
  \A t, u \in Threads :
    pc[t] \in InEnsure /\ pc[u] \in InEnsure /\ key[t] = key[u] => t = u

\* Nothing on disk is newer than the bucket.
DiskBehindBucket ==
  \A k \in Keys : file[k] <= content[k] /\ sidecar[k] <= content[k]

\* The ETag a thread asked for is not older than the request, nor than what the
\* disk holds until the thread itself replaces that; ...
EtagAhead(t) ==
  /\ pc[t] # "idle" => since[t] <= content[key[t]]
  /\ pc[t] \in InEnsure \ {"head"} =>
       /\ 0 < etag[t] /\ etag[t] <= content[key[t]]
       /\ since[t] <= etag[t]
       /\ sidecar[key[t]] <= etag[t]
  /\ pc[t] \in {"exists", "sidecar", "get", "replace"} => file[key[t]] <= etag[t]

\* ... what it downloads is not older than its ETag, and is the file, unless that
\* is cleaned away, until the sidecar is written; it has no version to answer with
\* before.
BodyAhead(t) ==
  /\ pc[t] \in {"replace", "truncate", "write"} =>
       etag[t] <= got[t] /\ got[t] <= content[key[t]]
  /\ pc[t] \in {"truncate", "write"} => file[key[t]] \in {0, got[t]}
  /\ pc[t] \in {"idle", "lock", "head", "exists", "sidecar", "get"} => got[t] = 0

IInv ==
  /\ TypeOK /\ Exclusive /\ DiskBehindBucket /\ SidecarNotAhead
  /\ \A t \in Threads : EtagAhead(t) /\ BodyAhead(t)

LEMMA ExclusiveNext ==
  ASSUME OneWorker, TypeOK, Exclusive, [Next]_vars
  PROVE  Exclusive'
<1> USE DEF TypeOK, Exclusive, Goto
<1>1. ASSUME NEW t \in Threads, Lock(t)
      PROVE  Exclusive'
  <2>1. Siblings(t) = Threads
        BY PyServerAssumption DEF OneWorker, Siblings
  <2>2. QED
        BY <1>1, <2>1 DEF Lock, locals
<1>2. ASSUME NEW t \in Threads, NEW k \in Keys, Ask(t, k)
      PROVE  Exclusive'
      BY <1>2 DEF Ask, InEnsure
<1>3. ASSUME NEW t \in Threads, ThreadStep(t), ~Lock(t)
      PROVE  Exclusive'
  <2>1. key' = key /\ pc[t] # "lock" /\ \E l : Goto(t, l) /\ (pc[t] \notin InEnsure => l \notin InEnsure)
        BY <1>3
        DEF ThreadStep, Head, Fail, Exists, SidecarHit, SidecarMiss, Get, Replace,
            Truncate, Write, LockTree, Open, OpenFail, locals, InEnsure
  <2>2. QED
        BY <2>1
<1>4. ASSUME NEW t \in Threads, Respond(t)
      PROVE  Exclusive'
      BY <1>4 DEF Respond, InEnsure
<1>5. ASSUME NEW w \in Workers, Kill(w)
      PROVE  Exclusive'
  <2>1. \A t \in Threads : pc'[t] = "idle" \/ (pc'[t] = pc[t] /\ key'[t] = key[t])
        BY <1>5 DEF Kill
  <2>2. QED
        BY <2>1 DEF InEnsure
<1>6. ASSUME UNCHANGED <<pc, key>>
      PROVE  Exclusive'
      BY <1>6
<1>7. QED
      BY <1>1, <1>2, <1>3, <1>4, <1>5, <1>6
      DEF Next, Put, Delete, CleanFile, CleanSidecar, locals, vars

LEMMA InvInit == Init => IInv
BY TypeInit, PyServerAssumption
   DEF Init, IInv, Exclusive, DiskBehindBucket, SidecarNotAhead, EtagAhead, BodyAhead, InEnsure

LEMMA InvThread ==
  ASSUME OneWorker, IInv, TypeOK', Exclusive', NEW t \in Threads, ThreadStep(t)
  PROVE  IInv'
<1> USE DEF IInv, TypeOK, Versions, Exclusive, DiskBehindBucket, SidecarNotAhead,
        EtagAhead, BodyAhead, InEnsure, Goto, bucket, disk, workers, locals
<1>1. CASE Lock(t)        BY <1>1 DEF Lock
<1>2. CASE Head(t)        BY <1>2 DEF Head
<1>3. CASE Fail(t)        BY <1>3 DEF Fail
<1>4. CASE Exists(t)      BY <1>4 DEF Exists
<1>5. CASE SidecarHit(t)  BY <1>5 DEF SidecarHit
<1>6. CASE SidecarMiss(t) BY <1>6 DEF SidecarMiss
<1>7. CASE Get(t)         BY <1>7 DEF Get
<1>8. CASE Replace(t)     BY <1>8 DEF Replace
<1>9. CASE Truncate(t)    BY <1>9 DEF Truncate
<1>10. CASE Write(t)      BY <1>10 DEF Write
<1>11. CASE LockTree(t)   BY <1>11 DEF LockTree
<1>12. CASE Open(t) \/ OpenFail(t)
       BY <1>12 DEF Open, OpenFail
<1>13. QED
       BY <1>1, <1>2, <1>3, <1>4, <1>5, <1>6, <1>7, <1>8, <1>9, <1>10, <1>11,
          <1>12 DEF ThreadStep

LEMMA InvNext ==
  ASSUME OneWorker, IInv, [Next]_vars
  PROVE  IInv'
<1>1. TypeOK' /\ Exclusive'
      BY TypeNext, ExclusiveNext DEF IInv
<1> USE DEF IInv, TypeOK, Versions, DiskBehindBucket, SidecarNotAhead, EtagAhead,
        BodyAhead, InEnsure, bucket, disk, workers, locals
<1>2. ASSUME NEW t \in Threads, NEW k \in Keys, Ask(t, k)
      PROVE  IInv'
      BY <1>1, <1>2 DEF Ask, Goto
<1>3. ASSUME NEW t \in Threads, ThreadStep(t)
      PROVE  IInv'
      BY <1>1, <1>3, InvThread
<1>4. ASSUME NEW t \in Threads, Respond(t)
      PROVE  IInv'
      BY <1>1, <1>4 DEF Respond
<1>5. ASSUME NEW k \in Keys, Put(k)
      PROVE  IInv'
  <2>1. /\ \A h \in Keys : content[h] <= content'[h]
        /\ UNCHANGED <<disk, workers, pc, locals>>
        BY <1>5 DEF Put
  <2>2. QED
        BY <1>1, <2>1
<1>6. ASSUME NEW k \in Keys, Delete(k)
      PROVE  IInv'
      BY <1>1, <1>6 DEF Delete
<1>7. ASSUME NEW w \in Workers, Kill(w)
      PROVE  IInv'
  <2>1. /\ \A t \in Threads : pc'[t] = "idle" /\ got'[t] = 0
        /\ UNCHANGED <<bucket, disk>>
        BY <1>7, PyServerAssumption DEF Kill, OneWorker
  <2>2. QED
        BY <1>1, <2>1
<1>10. ASSUME NEW k \in Keys, CleanFile(k)
       PROVE  IInv'
       BY <1>1, <1>10 DEF CleanFile
<1>11. ASSUME NEW k \in Keys, CleanSidecar(k)
       PROVE  IInv'
       BY <1>1, <1>11 DEF CleanSidecar
<1>8. CASE UNCHANGED vars
      BY <1>1, <1>8 DEF vars
<1>9. QED
      BY <1>2, <1>3, <1>4, <1>5, <1>6, <1>7, <1>8, <1>10, <1>11 DEF Next

LEMMA Invariant == OneWorker /\ Spec => []IInv
<1>1. SUFFICES ASSUME OneWorker
               PROVE  Spec => []IInv
      OBVIOUS
<1>2. IInv /\ [Next]_vars => IInv'
      BY <1>1, InvNext
<1>3. QED
      BY <1>2, InvInit, PTL DEF Spec

\* The sidecar never names a version newer than the file, wherever the worker
\* is killed.
THEOREM SidecarCorrect == OneWorker /\ Spec => []SidecarNotAhead
<1>1. IInv => SidecarNotAhead
      BY DEF IInv
<1>2. QED
      BY <1>1, Invariant, PTL
-----------------------------------------------------------------------------
(* One worker: ensure keeps its contract.                                  *)

LEMMA ContractInit == Init => Contract!Init
BY PyServerAssumption DEF Init, Contract!Init

\* A path that holds a version of the request's interval is the contract's
\* Answer.
LEMMA PathAnswers ==
  ASSUME IInv, NEW t \in Threads, pc[t] \in InEnsure, Goto(t, "tree"),
         UNCHANGED <<content, key, since>>,
         NEW v \in Versions, got' = [got EXCEPT ![t] = v],
         since[t] <= v, v <= content[key[t]]
  PROVE  Contract!Answer(t)
<1> USE DEF IInv, TypeOK, PC, InEnsure, Goto, Versions
<1> DEFINE Answers == [u \in Threads |->
                         IF pc[u] \in {"tree", "open", "answered"} THEN got[u] ELSE 0]
           Phase == [u \in Threads |->
                       IF pc[u] = "idle" THEN "idle"
                       ELSE IF pc[u] \in {"tree", "open", "answered"} THEN "answered"
                       ELSE "asked"]
<1>1. Answers' = [Answers EXCEPT ![t] = v]
      OBVIOUS
<1>2. v \in since[t] .. content[key[t]]
      OBVIOUS
<1>3. Phase[t] = "asked" /\ Phase' = [Phase EXCEPT ![t] = "answered"]
      OBVIOUS
<1>4. \E w \in since[t] .. content[key[t]] : Answers' = [Answers EXCEPT ![t] = w]
      BY <1>1, <1>2
<1>5. UNCHANGED <<content, key, since>>
      OBVIOUS
<1> HIDE DEF Answers, Phase
<1>6. QED
      BY ONLY <1>3, <1>4, <1>5, Zenon DEF Contract!Answer, Answers, Phase

\* A request that ensure failed, or with a path that leads to nothing, is refused.
LEMMA NothingRefuses ==
  ASSUME IInv, NEW t \in Threads, pc[t] \in InEnsure,
         Goto(t, "answered") \/ Goto(t, "tree"),
         UNCHANGED <<content, key, since>>, got' = [got EXCEPT ![t] = 0]
  PROVE  Contract!Refuse(t)
<1> USE DEF IInv, TypeOK, PC, InEnsure, Goto
<1> DEFINE Answers == [u \in Threads |->
                         IF pc[u] \in {"tree", "open", "answered"} THEN got[u] ELSE 0]
           Phase == [u \in Threads |->
                       IF pc[u] = "idle" THEN "idle"
                       ELSE IF pc[u] \in {"tree", "open", "answered"} THEN "answered"
                       ELSE "asked"]
<1>1. Answers' = Answers
      OBVIOUS
<1>2. Phase[t] = "asked" /\ Phase' = [Phase EXCEPT ![t] = "answered"]
      OBVIOUS
<1>3. UNCHANGED <<content, key, since>>
      OBVIOUS
<1> HIDE DEF Answers, Phase
<1>4. QED
      BY ONLY <1>1, <1>2, <1>3, Zenon DEF Contract!Refuse, Answers, Phase

LEMMA ContractThread ==
  ASSUME IInv, NEW t \in Threads, ThreadStep(t)
  PROVE  Contract!Answer(t) \/ Contract!Refuse(t) \/ UNCHANGED Contract!vars
<1> USE DEF InEnsure, Goto, bucket, disk, workers, locals
<1>1. CASE SidecarHit(t)
  <2>1. CASE file[key[t]] = 0
        BY <1>1, <2>1, NothingRefuses DEF SidecarHit
  <2>2. CASE file[key[t]] # 0
    <3>1. /\ since[t] <= file[key[t]] /\ file[key[t]] <= content[key[t]]
          /\ file[key[t]] \in Versions
          BY <1>1, <2>2 DEF SidecarHit, IInv, TypeOK, Versions, DiskBehindBucket,
             EtagAhead, SidecarNotAhead
    <3>2. QED
          BY <1>1, <3>1, PathAnswers DEF SidecarHit
  <2>3. QED
        BY <2>1, <2>2
<1>2. CASE Write(t)
  <2>1. /\ since[t] <= got[t] /\ got[t] <= content[key[t]] /\ got[t] \in Versions
        /\ got' = [got EXCEPT ![t] = got[t]]
        BY <1>2 DEF Write, IInv, TypeOK, Versions, EtagAhead, BodyAhead
  <2>2. QED
        BY <1>2, <2>1, PathAnswers DEF Write
<1>3. CASE Fail(t)
  <2>1. pc[t] \in InEnsure
        BY <1>3 DEF Fail
  <2>2. QED
        BY <1>3, <2>1, NothingRefuses DEF Fail
<1>4. CASE LockTree(t) \/ Open(t) \/ OpenFail(t)
      BY <1>4 DEF LockTree, Open, OpenFail, IInv, TypeOK, Contract!vars
<1>5. CASE Lock(t) \/ Head(t) \/ Exists(t) \/ SidecarMiss(t) \/ Get(t)
           \/ Replace(t) \/ Truncate(t)
      BY <1>5 DEF Lock, Head, Exists, SidecarMiss, Get, Replace, Truncate, IInv,
         TypeOK, Contract!vars
<1>6. QED
      BY <1>1, <1>2, <1>3, <1>4, <1>5 DEF ThreadStep

LEMMA ContractNext ==
  ASSUME OneWorker, IInv, [Next]_vars
  PROVE  [Contract!Next]_(Contract!vars)
<1> USE PyServerAssumption
<1>1. ASSUME NEW t \in Threads, NEW k \in Keys, Ask(t, k)
      PROVE  Contract!Ask(t, k)
      BY <1>1 DEF Ask, Goto, bucket, disk, Contract!Ask, IInv, TypeOK
<1>2. ASSUME NEW t \in Threads, ThreadStep(t)
      PROVE  Contract!Answer(t) \/ Contract!Refuse(t) \/ UNCHANGED Contract!vars
      BY <1>2, ContractThread
<1>3. ASSUME NEW t \in Threads, Respond(t)
      PROVE  Contract!Leave(t)
      BY <1>3 DEF Respond, bucket, Contract!Leave, IInv, TypeOK
<1>4. ASSUME NEW k \in Keys, Put(k) \/ Delete(k)
      PROVE  Contract!Publish(k) \/ UNCHANGED Contract!vars
      BY <1>4 DEF Put, Delete, disk, locals, Contract!Publish, Contract!vars, IInv, TypeOK
<1>5. ASSUME NEW w \in Workers, Kill(w)
      PROVE  Contract!Restart
  <2>1. \A t \in Threads : WorkerOf[t] = w
        BY DEF OneWorker
  <2>2. QED
        BY <1>5, <2>1 DEF Kill, bucket, Contract!Restart
<1>6. CASE UNCHANGED vars
      BY <1>6 DEF vars, bucket, locals, Contract!vars
<1>8. ASSUME NEW k \in Keys, CleanFile(k) \/ CleanSidecar(k)
      PROVE  UNCHANGED Contract!vars
      BY <1>8 DEF CleanFile, CleanSidecar, bucket, locals, Contract!vars
<1>7. QED
      BY <1>1, <1>2, <1>3, <1>4, <1>5, <1>6, <1>8 DEF Next, Contract!Next

\* Every path ensure returns holds a version the object had in the meantime: one
\* worker keeps the contract of the Go server.
THEOREM EnsureImplementsFreshCache == OneWorker /\ Spec => ImplementsFreshCache
<1>1. SUFFICES ASSUME OneWorker
               PROVE  Spec => ImplementsFreshCache
      OBVIOUS
<1>2. Init => Contract!Init
      BY ContractInit
<1>3. IInv /\ [Next]_vars => [Contract!Next]_(Contract!vars)
      BY <1>1, ContractNext
<1>4. Spec => []IInv
      BY <1>1, Invariant, PTL
<1>5. QED
      BY <1>2, <1>3, <1>4, PTL DEF Spec, ImplementsFreshCache, Contract!Spec

-----------------------------------------------------------------------------
(* One worker: the contract of the Go server's handlers.                   *)

\* The content of the object a thread was asked for when its worker was started.
Floor(t) == born[WorkerOf[t]][key[t]]

\* The request of a thread is no older than its worker, and neither is what it is
\* going to open, nor what is open.
BornBefore ==
  /\ \A w \in Workers, k \in Keys :
       /\ born[w][k] <= content[k]
       /\ handles[w][k] # 0 => handles[w][k] \in born[w][k] .. content[k]
  /\ \A t \in Threads :
       /\ pc[t] # "idle" => Floor(t) <= since[t]
       /\ pc[t] \in {"tree", "open"} =>
            file[key[t]] = 0 \/ Floor(t) <= file[key[t]]
       /\ pc[t] # "answered" => view[t] = 0

LEMMA BornInit == Init => BornBefore
BY PyServerAssumption DEF Init, BornBefore, Floor

\* What a thread puts where another may open it is no older than their worker.
LEMMA BornThread ==
  ASSUME OneWorker, IInv, BornBefore, NEW t \in Threads, ThreadStep(t)
  PROVE  BornBefore'
<1> USE PyServerAssumption DEF IInv, TypeOK, Versions, BornBefore, Floor, InEnsure, Goto
<1>1. /\ UNCHANGED <<content, key, since, born>>
      /\ \A u \in Threads \ {t} : pc'[u] = pc[u]
      BY DEF ThreadStep, Lock, Head, Fail, Exists, SidecarHit, SidecarMiss, Get, Replace,
         Truncate, Write, LockTree, Open, OpenFail, bucket, disk, workers, locals
<1>2. CASE Open(t)
  <2>2. WorkerOf[t] \in Workers /\ key[t] \in Keys /\ pc[t] = "open"
        BY <1>2 DEF Open
  <2>6. handles[WorkerOf[t]][key[t]] \in Versions /\ file[key[t]] \in Versions
        BY <2>2
  <2>1. PICK v \in Versions :
          /\ v # 0 /\ v \in {handles[WorkerOf[t]][key[t]], file[key[t]]}
          /\ handles' = [handles EXCEPT ![WorkerOf[t]][key[t]] = v]
        BY ONLY <1>2, <2>6, Zenon DEF Open
  <2>3. Floor(t) <= v /\ v <= content[key[t]]
        BY <2>1, <2>2 DEF DiskBehindBucket
  <2>4. \A w \in Workers, k \in Keys :
          handles'[w][k] # 0 => handles'[w][k] \in born[w][k] .. content[k]
        BY <2>1, <2>2, <2>3
  <2>5. QED
        BY <1>1, <1>2, <2>4 DEF Open, disk
<1>3. CASE Replace(t)
  <2>1. WorkerOf[t] \in Workers /\ \A u \in Threads : WorkerOf[u] = WorkerOf[t]
        BY DEF OneWorker
  <2>2. Floor(t) <= got[t]
        BY <1>3 DEF Replace, EtagAhead, BodyAhead
  <2>3. \A u \in Threads : key[u] = key[t] => Floor(u) <= got[t]
        BY <2>1, <2>2
  <2>4. \A u \in Threads : pc'[u] \in {"tree", "open"} =>
          file'[key[u]] = 0 \/ Floor(u) <= file'[key[u]]
        BY <1>1, <1>3, <2>3 DEF Replace
  <2>5. pc'[t] # "answered" /\ view' = view /\ handles' = handles
        BY <1>3 DEF Replace, workers, locals
  <2>6. QED
        BY <1>1, <2>4, <2>5, <1>3 DEF Replace
<1>4. CASE SidecarHit(t) \/ Write(t)
  <2>3. /\ key[t] \in Keys /\ Floor(t) <= since[t] /\ since[t] <= etag[t]
        /\ Floor(t) \in Nat /\ since[t] \in Nat /\ etag[t] \in Nat /\ got[t] \in Nat
        /\ file[key[t]] \in Nat
        BY <1>4 DEF SidecarHit, Write, EtagAhead
  <2>4. SidecarHit(t) => file[key[t]] = 0 \/ etag[t] <= file[key[t]]
        BY <2>3 DEF SidecarHit, SidecarNotAhead
  <2>5. Write(t) => file[key[t]] = 0 \/ etag[t] <= file[key[t]]
        BY <2>3 DEF Write, BodyAhead
  <2>1. file[key[t]] = 0 \/ Floor(t) <= file[key[t]]
        BY ONLY <1>4, <2>3, <2>4, <2>5
  <2>2. QED
        BY <1>1, <1>4, <2>1 DEF SidecarHit, Write, workers, disk, locals
<1>5. CASE Lock(t) \/ Head(t) \/ Fail(t) \/ Exists(t) \/ SidecarMiss(t) \/ Get(t)
           \/ Truncate(t) \/ LockTree(t) \/ OpenFail(t)
      BY <1>1, <1>5
      DEF Lock, Head, Fail, Exists, SidecarMiss, Get, Truncate, LockTree, OpenFail,
          disk, workers, locals
<1>6. QED
      BY <1>2, <1>3, <1>4, <1>5 DEF ThreadStep

LEMMA BornNext ==
  ASSUME OneWorker, IInv, BornBefore, [Next]_vars
  PROVE  BornBefore'
<1> USE PyServerAssumption
        DEF IInv, TypeOK, Versions, BornBefore, Floor, bucket, disk, workers, locals
<1>1. ASSUME NEW t \in Threads, NEW k \in Keys, Ask(t, k)
      PROVE  BornBefore'
      BY <1>1 DEF Ask, Goto
<1>2. ASSUME NEW t \in Threads, ThreadStep(t)
      PROVE  BornBefore'
      BY <1>2, BornThread
<1>3. ASSUME NEW t \in Threads, Respond(t)
      PROVE  BornBefore'
      BY <1>3 DEF Respond
<1>4. ASSUME NEW k \in Keys, Put(k) \/ Delete(k)
      PROVE  BornBefore'
  <2>1. /\ \A h \in Keys : content'[h] \in Nat /\ content[h] <= content'[h]
        /\ UNCHANGED <<disk, workers, pc, locals>>
        BY <1>4, BucketGoesOn
  <2>2. QED
        BY <2>1
<1>5. ASSUME NEW k \in Keys, CleanFile(k) \/ CleanSidecar(k)
      PROVE  BornBefore'
      BY <1>5 DEF CleanFile, CleanSidecar
<1>6. ASSUME NEW w \in Workers, Kill(w)
      PROVE  BornBefore'
  <2>1. /\ \A t \in Threads : pc'[t] = "idle" /\ view'[t] = 0
        /\ \A v \in Workers : born'[v] = content /\ handles'[v] = [k \in Keys |-> 0]
        /\ UNCHANGED <<bucket, disk>>
        BY <1>6 DEF Kill, OneWorker
  <2>2. QED
        BY <2>1
<1>7. CASE UNCHANGED vars
      BY <1>7 DEF vars
<1>8. QED
      BY <1>1, <1>2, <1>3, <1>4, <1>5, <1>6, <1>7 DEF Next

LEMMA PinnedInit == OneWorker /\ Init => Pinned!Init
BY PyServerAssumption DEF OneWorker, Init, Pinned!Init

\* The ends of a request answer it.
LEMMA RequestEnds ==
  ASSUME IInv, BornBefore, NEW t \in Threads, pc[t] \notin {"idle", "answered"},
         Goto(t, "answered"), UNCHANGED <<content, key, born>>,
         NEW w \in Workers, Workers = {w},
         NEW v \in Versions, view' = [view EXCEPT ![t] = v]
  PROVE  /\ v = 0 /\ UNCHANGED handles => Pinned!Refuse(t)
         /\ v # 0 /\ v = handles[w][key[t]] /\ UNCHANGED handles => Pinned!AnswerPinned(t)
         /\ handles[w][key[t]] = 0 /\ v \in born[w][key[t]] .. content[key[t]]
              /\ handles' = [handles EXCEPT ![w][key[t]] = v] => Pinned!AnswerFirst(t)
<1> DEFINE Phase == [u \in Threads |->
                       IF pc[u] = "idle" THEN "idle"
                       ELSE IF pc[u] = "answered" THEN "answered" ELSE "asked"]
           W == CHOOSE x \in Workers : TRUE
<1>1. Phase[t] = "asked" /\ Phase' = [Phase EXCEPT ![t] = "answered"]
      BY DEF IInv, TypeOK, Goto
<1>2. W = w
      OBVIOUS
<1>3. view[t] = 0 /\ view \in [Threads -> Versions]
      BY DEF BornBefore, IInv, TypeOK
<1>4. v = 0 => view' = view
      BY <1>3
<1>5. handles' = [handles EXCEPT ![w][key[t]] = v]
        => handles'[w] = [handles[w] EXCEPT ![key[t]] = v]
      BY DEF IInv, TypeOK
<1>6. UNCHANGED <<content, key, born[w]>>
      OBVIOUS
<1>7. UNCHANGED handles => UNCHANGED handles[w]
      OBVIOUS
<1> HIDE DEF Phase
<1>8. v = 0 /\ UNCHANGED handles => Pinned!Refuse(t)
      BY ONLY <1>1, <1>2, <1>4, <1>6, <1>7, Zenon DEF Pinned!Refuse, Phase
<1>9. v # 0 /\ v = handles[w][key[t]] /\ UNCHANGED handles => Pinned!AnswerPinned(t)
      BY ONLY <1>1, <1>2, <1>6, <1>7, view' = [view EXCEPT ![t] = v], Zenon
      DEF Pinned!AnswerPinned, Phase
<1>10. handles[w][key[t]] = 0 /\ v \in born[w][key[t]] .. content[key[t]]
         /\ handles' = [handles EXCEPT ![w][key[t]] = v] => Pinned!AnswerFirst(t)
      BY ONLY <1>1, <1>2, <1>5, <1>6, view' = [view EXCEPT ![t] = v], Zenon
      DEF Pinned!AnswerFirst, Phase
<1>11. QED
      BY <1>8, <1>9, <1>10

LEMMA PinnedNext ==
  ASSUME OneWorker, IInv, BornBefore, [Next]_vars
  PROVE  [Pinned!Next]_(Pinned!vars)
<1> USE PyServerAssumption
<1>1. PICK w \in Workers : Workers = {w}
      BY DEF OneWorker
<1>2. (CHOOSE x \in Workers : TRUE) = w /\ \A t \in Threads : WorkerOf[t] = w
      BY <1>1
<1>3. ASSUME NEW t \in Threads, NEW k \in Keys, Ask(t, k)
      PROVE  Pinned!Ask(t, k)
      BY <1>3 DEF Ask, Goto, bucket, disk, workers, Pinned!Ask, IInv, TypeOK
<1>4. ASSUME NEW t \in Threads, Fail(t) \/ OpenFail(t)
      PROVE  Pinned!Refuse(t)
  <2>1. view' = [view EXCEPT ![t] = 0] /\ pc[t] \notin {"idle", "answered"}
        BY <1>4 DEF Fail, OpenFail, BornBefore, IInv, TypeOK, InEnsure, locals
  <2>2. /\ Goto(t, "answered") /\ UNCHANGED <<content, key, born>>
        /\ UNCHANGED handles /\ 0 \in Versions
        BY <1>4 DEF Fail, OpenFail, bucket, workers, locals, Versions
  <2>3. QED
        BY <1>1, <2>1, <2>2, RequestEnds
<1>5. ASSUME NEW t \in Threads, Open(t)
      PROVE  Pinned!AnswerPinned(t) \/ Pinned!AnswerFirst(t)
  <2>1. key[t] \in Keys /\ pc[t] = "open"
        BY <1>5 DEF Open, IInv, TypeOK
  <2>2. /\ handles[w][key[t]] \in Versions /\ file[key[t]] \in Versions
        /\ born[w][key[t]] \in Versions /\ content[key[t]] \in Versions
        BY <2>1 DEF IInv, TypeOK, Versions
  <2>3. UNCHANGED <<content, key, born>>
        BY <1>5 DEF Open, bucket
  <2>4. CASE handles[w][key[t]] # 0
    <3>1. /\ view' = [view EXCEPT ![t] = handles[w][key[t]]]
          /\ handles' = [handles EXCEPT ![w][key[t]] = handles[w][key[t]]]
          BY <1>2, <1>5, <2>4 DEF Open
    <3>2. UNCHANGED handles
          BY <3>1, <2>1 DEF IInv, TypeOK
    <3>3. QED
          BY <1>1, <1>5, <2>1, <2>2, <2>3, <2>4, <3>1, <3>2, RequestEnds DEF Open
  <2>5. CASE handles[w][key[t]] = 0
    <3>1. /\ view' = [view EXCEPT ![t] = file[key[t]]] /\ file[key[t]] # 0
          /\ handles' = [handles EXCEPT ![w][key[t]] = file[key[t]]]
          BY <1>2, <1>5, <2>5 DEF Open
    <3>2. file[key[t]] \in born[w][key[t]] .. content[key[t]]
          BY <1>2, <2>1, <2>2, <3>1 DEF BornBefore, Floor, IInv, DiskBehindBucket, Versions
    <3>3. QED
          BY <1>1, <1>5, <2>1, <2>2, <2>3, <2>5, <3>1, <3>2, RequestEnds DEF Open
  <2>6. QED
        BY <2>4, <2>5
<1>6. ASSUME NEW t \in Threads,
             Lock(t) \/ Head(t) \/ Exists(t) \/ SidecarHit(t) \/ SidecarMiss(t)
             \/ Get(t) \/ Replace(t) \/ Truncate(t) \/ Write(t) \/ LockTree(t)
      PROVE  UNCHANGED Pinned!vars
      BY <1>6
      DEF Lock, Head, Exists, SidecarHit, SidecarMiss, Get, Replace, Truncate, Write,
          LockTree, Goto, bucket, disk, workers, locals, Pinned!vars, IInv, TypeOK
<1>7. ASSUME NEW t \in Threads, Respond(t)
      PROVE  Pinned!Leave(t)
      BY <1>7 DEF Respond, bucket, workers, Pinned!Leave, IInv, TypeOK
<1>8. ASSUME NEW k \in Keys, Put(k) \/ Delete(k)
      PROVE  Pinned!Publish(k) \/ UNCHANGED Pinned!vars
      BY <1>8 DEF Put, Delete, disk, workers, locals, Pinned!Publish, Pinned!vars, IInv, TypeOK
<1>9. ASSUME NEW k \in Keys, CleanFile(k) \/ CleanSidecar(k)
      PROVE  UNCHANGED Pinned!vars
      BY <1>9 DEF CleanFile, CleanSidecar, bucket, workers, locals, Pinned!vars
<1>10. ASSUME NEW v \in Workers, Kill(v)
       PROVE  Pinned!Restart
  <2>1. v = w
        BY <1>1
  <2>2. /\ born'[w] = content /\ handles'[w] = [k \in Keys |-> 0]
        BY <1>10, <2>1 DEF Kill, IInv, TypeOK
  <2>3. QED
        BY <1>2, <1>10, <2>1, <2>2 DEF Kill, bucket, Pinned!Restart
<1>11. CASE UNCHANGED vars
       BY <1>11 DEF vars, bucket, workers, locals, Pinned!vars
<1>12. QED
       BY <1>3, <1>4, <1>5, <1>6, <1>7, <1>8, <1>9, <1>10, <1>11
       DEF Next, ThreadStep, Pinned!Next

\* What one worker shows of an object is fixed by its first answer until it is
\* killed, and is no older than the worker, although the file under the open handle
\* is replaced, cleaned away and fails to download.
THEOREM ServerImplementsPinnedView == OneWorker /\ Spec => ImplementsPinnedView
<1>1. SUFFICES ASSUME OneWorker
               PROVE  Spec => ImplementsPinnedView
      OBVIOUS
<1>2. Init => Pinned!Init
      BY <1>1, PinnedInit
<1>3. IInv /\ BornBefore /\ [Next]_vars => BornBefore'
      BY <1>1, BornNext
<1>4. IInv /\ BornBefore /\ [Next]_vars => [Pinned!Next]_(Pinned!vars)
      BY <1>1, PinnedNext
<1>5. Spec => []IInv
      BY <1>1, Invariant, PTL
<1>6. QED
      BY <1>2, <1>3, <1>4, <1>5, BornInit, PTL
      DEF Spec, ImplementsPinnedView, Pinned!Spec
=============================================================================
