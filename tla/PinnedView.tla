----------------------------- MODULE PinnedView -----------------------------
(***************************************************************************)
(* What the Go server promises a client over the life of one process, with *)
(* the disk cache, the locks and the parsing left out: the first           *)
(* successful answer about an object fixes the version every later answer  *)
(* of that process shows, and that version is one the object had since the *)
(* process started.  It does not promise the current version: nothing ever *)
(* drops a tree from treeCache.                                            *)
(***************************************************************************)
EXTENDS Naturals

CONSTANTS
  Keys,       \* S3 object keys
  Requests,   \* concurrent HTTP requests
  NoKey       \* the key of a request that has not asked for anything yet

VARIABLES
  content,    \* content[k]: version the bucket holds under k
  born,       \* born[k]: version the bucket held when the process started
  pinned,     \* pinned[k]: version this process shows, 0 before the first
  phase,      \* phase[p]: where request p is in its life
  want,       \* want[p]: the key p asked for
  answer      \* answer[p]: version p is shown, 0 for an error

vars == <<content, born, pinned, phase, want, answer>>

Init ==
  /\ content \in [Keys -> Nat]
  /\ born = content
  /\ pinned = [k \in Keys |-> 0]
  /\ phase = [p \in Requests |-> "idle"]
  /\ want = [p \in Requests |-> NoKey]
  /\ answer = [p \in Requests |-> 0]

Ask(p, k) ==
  /\ phase[p] = "idle"
  /\ phase' = [phase EXCEPT ![p] = "asked"]
  /\ want' = [want EXCEPT ![p] = k]
  /\ UNCHANGED <<content, born, pinned, answer>>

AnswerPinned(p) ==
  /\ phase[p] = "asked"
  /\ pinned[want[p]] # 0
  /\ phase' = [phase EXCEPT ![p] = "answered"]
  /\ answer' = [answer EXCEPT ![p] = pinned[want[p]]]
  /\ UNCHANGED <<content, born, pinned, want>>

\* The first answer about an object pins its version.
AnswerFirst(p) ==
  /\ phase[p] = "asked"
  /\ pinned[want[p]] = 0
  /\ \E v \in born[want[p]] .. content[want[p]] :
       /\ pinned' = [pinned EXCEPT ![want[p]] = v]
       /\ answer' = [answer EXCEPT ![p] = v]
  /\ phase' = [phase EXCEPT ![p] = "answered"]
  /\ UNCHANGED <<content, born, want>>

Refuse(p) ==
  /\ phase[p] = "asked"
  /\ phase' = [phase EXCEPT ![p] = "answered"]
  /\ UNCHANGED <<content, born, pinned, want, answer>>

Leave(p) ==
  /\ phase[p] = "answered"
  /\ phase' = [phase EXCEPT ![p] = "idle"]
  /\ want' = [want EXCEPT ![p] = NoKey]
  /\ answer' = [answer EXCEPT ![p] = 0]
  /\ UNCHANGED <<content, born, pinned>>

Publish(k) ==
  /\ content' = [content EXCEPT ![k] = @ + 1]
  /\ UNCHANGED <<born, pinned, phase, want, answer>>

Restart ==
  /\ born' = content
  /\ pinned' = [k \in Keys |-> 0]
  /\ phase' = [p \in Requests |-> "idle"]
  /\ want' = [p \in Requests |-> NoKey]
  /\ answer' = [p \in Requests |-> 0]
  /\ UNCHANGED content

Next ==
  \/ \E p \in Requests :
       \/ \E k \in Keys : Ask(p, k)
       \/ AnswerPinned(p) \/ AnswerFirst(p) \/ Refuse(p) \/ Leave(p)
  \/ \E k \in Keys : Publish(k)
  \/ Restart

Spec == Init /\ [][Next]_vars
=============================================================================
