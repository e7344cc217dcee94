----------------------------- MODULE TreeServer -----------------------------
(***************************************************************************)
(* The handlers of servers/go/main.go that show an object (/tree,          *)
(* /entries, /group, /field): Store.Ensure makes the file present, then    *)
(* treeCache.get finds its parsed tree or parses it, and the handler       *)
(* answers from the tree.  A parsed tree is the version it was parsed from.*)
(***************************************************************************)
EXTENDS S3Store

VARIABLES
  trees,      \* treeCache.trees: trees[k] is the version parsed, 0 if none
  treeMu,     \* treeCache.mu: the request that holds it, or NoMutex
  at,         \* at[p]: where p is in treeCache.get and its handler
  view,       \* view[p]: version of the tree p was given, 0 if none
  born        \* history: content when the process started

cacheVars == <<trees, treeMu, born>>
serverVars == <<cacheVars, at, view>>
allVars == <<vars, serverVars>>

At == {"ensure", "lookup", "parse", "answered"}

ServerInit ==
  /\ Init
  /\ trees = [k \in Keys |-> 0]
  /\ treeMu = NoMutex
  /\ at = [p \in Requests |-> "ensure"]
  /\ view = [p \in Requests |-> 0]
  /\ born = content

-----------------------------------------------------------------------------
(* load: an error of Ensure is the answer; a path goes to treeCache.get.   *)

Refused(p) ==
  /\ pc[p] = "returned"
  /\ ret[p] # "path"
  /\ at[p] = "ensure"
  /\ at' = [at EXCEPT ![p] = "answered"]
  /\ UNCHANGED <<vars, cacheVars, view>>

MutLockTrees(p) ==
  /\ ret[p] = "path"
  /\ at[p] = "ensure"
  /\ treeMu' = p
  /\ at' = [at EXCEPT ![p] = "lookup"]
  /\ UNCHANGED <<vars, trees, view, born>>

LockTrees(p) ==
  /\ ret[p] = "path"
  /\ at[p] = "ensure"
  /\ treeMu = NoMutex
  /\ treeMu' = p
  /\ at' = [at EXCEPT ![p] = "lookup"]
  /\ UNCHANGED <<vars, trees, view, born>>

\* return from treeCache.get, and with it the deferred Unlock.
Answered(p) ==
  /\ at' = [at EXCEPT ![p] = "answered"]
  /\ treeMu' = NoMutex

MutTreeHitPath(p) ==
  /\ at[p] = "lookup"
  /\ trees[key[p]] # 0
  /\ view' = [view EXCEPT ![p] = got[p]]
  /\ Answered(p)
  /\ UNCHANGED <<vars, trees, born>>

TreeHit(p) ==
  /\ at[p] = "lookup"
  /\ trees[key[p]] # 0
  /\ view' = [view EXCEPT ![p] = trees[key[p]]]
  /\ Answered(p)
  /\ UNCHANGED <<vars, trees, born>>

\* gonexus.Load opens whatever file is at the path by now ...
OpenFile(p) ==
  /\ at[p] = "lookup"
  /\ trees[key[p]] = 0
  /\ file[key[p]] # 0
  /\ view' = [view EXCEPT ![p] = file[key[p]]]
  /\ at' = [at EXCEPT ![p] = "parse"]
  /\ UNCHANGED <<vars, cacheVars>>

\* ... reads all of it, and the tree is kept.
Parse(p) ==
  /\ at[p] = "parse"
  /\ trees' = [trees EXCEPT ![key[p]] = view[p]]
  /\ Answered(p)
  /\ UNCHANGED <<vars, view, born>>

MutLoadFailKeepsLock(p) ==
  /\ \/ at[p] = "lookup" /\ trees[key[p]] = 0 /\ (Faults \/ file[key[p]] = 0)
     \/ at[p] = "parse" /\ Faults
  /\ view' = [view EXCEPT ![p] = 0]
  /\ at' = [at EXCEPT ![p] = "answered"]
  /\ UNCHANGED <<vars, trees, treeMu, born>>

\* The file is gone or is not a readable NeXus file: 500, nothing is kept.
LoadFail(p) ==
  /\ \/ at[p] = "lookup" /\ trees[key[p]] = 0 /\ (Faults \/ file[key[p]] = 0)
     \/ at[p] = "parse" /\ Faults
  /\ view' = [view EXCEPT ![p] = 0]
  /\ Answered(p)
  /\ UNCHANGED <<vars, trees, born>>

\* The handler writes the response and its goroutine ends.
Respond(p) ==
  /\ at[p] = "answered"
  /\ Leave(p)
  /\ at' = [at EXCEPT ![p] = "ensure"]
  /\ view' = [view EXCEPT ![p] = 0]
  /\ UNCHANGED cacheVars

HandlerStep(p) ==
  \/ EnsureStep(p) /\ UNCHANGED serverVars
  \/ Refused(p) \/ LockTrees(p) \/ TreeHit(p) \/ OpenFile(p) \/ Parse(p)
  \/ LoadFail(p)

\* A killed process forgets its trees; only this refreshes them.
Restart ==
  /\ Crash
  /\ trees' = [k \in Keys |-> 0]
  /\ treeMu' = NoMutex
  /\ at' = [p \in Requests |-> "ensure"]
  /\ view' = [p \in Requests |-> 0]
  /\ born' = content

ServerNext ==
  \/ \E p \in Requests :
       \/ \E k \in Keys : Ask(p, k) /\ UNCHANGED serverVars
       \/ HandlerStep(p)
       \/ Respond(p)
  \/ \E k \in Keys : Environment(k) /\ UNCHANGED serverVars
  \/ Restart

ServerSpec == ServerInit /\ [][ServerNext]_allVars

\* A handler that can go on again and again does so some time.  S3 calls and
\* system calls return, so that it can go on at any time; and where it waits for a
\* sync.Mutex, that is handed to a waiter that has starved for a millisecond, and
\* nobody overtakes it for ever.
ServerFairness == \A p \in Requests : SF_allVars(HandlerStep(p))

FairServerSpec == ServerSpec /\ ServerFairness

-----------------------------------------------------------------------------
(* Properties.                                                             *)

\* The types of the server's own variables; the holder of treeMu is the one
\* request between its Lock and its Unlock.
ServerTypeOK ==
  /\ TypeOK
  /\ trees \in [Keys -> Versions]
  /\ treeMu \in Requests \cup {NoMutex}
  /\ at \in [Requests -> At]
  /\ view \in [Requests -> Versions]
  /\ born \in [Keys -> Versions]
  /\ \A p \in Requests : at[p] \in {"lookup", "parse"} <=> treeMu = p

\* The HDF5 C library is not thread-safe: two requests, for one key or for
\* two, are never inside gonexus.Load at the same time.
OneInsideHDF5 ==
  \A p, q \in Requests : at[p] = "parse" /\ at[q] = "parse" => p = q

\* Two clients that read one object at the same time see the same version of
\* it, and it is the version kept for the next one.
ViewsAgree ==
  \A p \in Requests :
    at[p] = "answered" /\ view[p] # 0 => view[p] = trees[key[p]]

\* A process never shows a version older than the object had when the process
\* started, whatever an earlier process left in the cache directory.
NotOlderThanProcess ==
  \A p \in Requests : view[p] # 0 => born[key[p]] <= view[p]

\* The server implements the contract of PinnedView.
Pinned ==
  INSTANCE PinnedView WITH
    pinned <- trees,
    phase <- [p \in Requests |->
                IF pc[p] = "idle" THEN "idle"
                ELSE IF at[p] = "answered" THEN "answered" ELSE "asked"],
    want <- key,
    answer <- [p \in Requests |-> IF at[p] = "answered" THEN view[p] ELSE 0]

\* Every answer is the version the first answer of this process pinned.
ImplementsPinnedView == Pinned!Spec

\* Every HTTP request for an object is answered, or lost in a crash, although
\* parsing one object keeps the requests for all others waiting.
EveryRequestAnswered ==
  \A p \in Requests : pc[p] # "idle" ~> at[p] = "answered" \/ pc[p] = "idle"

-----------------------------------------------------------------------------
(* A claim of the documentation that the code does not meet.               *)

\* main.go:222-224 and servers/README.md: a changed object is transparently
\* shown: no answer is older than the object was when the request arrived.
AnswerIsFresh == \A p \in Requests : view[p] # 0 => since[p] <= view[p]
=============================================================================
