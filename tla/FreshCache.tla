----------------------------- MODULE FreshCache -----------------------------
(***************************************************************************)
(* What Store.Ensure (servers/go/s3store.go) promises its caller, with the *)
(* locks, the cache directory and the S3 calls left out: the version of an *)
(* object it vouches for was the current one at some moment between the    *)
(* request and the answer.  While an owner only ever uploads new content,  *)
(* "current at some moment of the interval" is the same as "not older than *)
(* the version at the request, and uploaded by the time of the answer".    *)
(***************************************************************************)
EXTENDS Naturals

CONSTANTS
  Keys,       \* S3 object keys
  Requests,   \* concurrent callers of Ensure
  NoKey       \* the key of a request that has not asked for anything yet

VARIABLES
  content,    \* content[k]: version the bucket holds under k, 0 before any
  phase,      \* phase[p]: where request p is in its life
  want,       \* want[p]: the key p asked for
  since,      \* since[p]: version the bucket held under want[p] at the request
  answer      \* answer[p]: version vouched for, 0 for an error

vars == <<content, phase, want, since, answer>>

Phases == {"idle", "asked", "answered"}

Init ==
  /\ content \in [Keys -> Nat]
  /\ phase = [p \in Requests |-> "idle"]
  /\ want = [p \in Requests |-> NoKey]
  /\ since = [p \in Requests |-> 0]
  /\ answer = [p \in Requests |-> 0]

Ask(p, k) ==
  /\ phase[p] = "idle"
  /\ phase' = [phase EXCEPT ![p] = "asked"]
  /\ want' = [want EXCEPT ![p] = k]
  /\ since' = [since EXCEPT ![p] = content[k]]
  /\ UNCHANGED <<content, answer>>

\* The one promise: the version vouched for lies in the request's interval.
Answer(p) ==
  /\ phase[p] = "asked"
  /\ \E v \in since[p] .. content[want[p]] :
       answer' = [answer EXCEPT ![p] = v]
  /\ phase' = [phase EXCEPT ![p] = "answered"]
  /\ UNCHANGED <<content, want, since>>

Refuse(p) ==
  /\ phase[p] = "asked"
  /\ phase' = [phase EXCEPT ![p] = "answered"]
  /\ UNCHANGED <<content, want, since, answer>>

Leave(p) ==
  /\ phase[p] = "answered"
  /\ phase' = [phase EXCEPT ![p] = "idle"]
  /\ want' = [want EXCEPT ![p] = NoKey]
  /\ since' = [since EXCEPT ![p] = 0]
  /\ answer' = [answer EXCEPT ![p] = 0]
  /\ UNCHANGED content

\* The owner of the bucket uploads content the key never held before.
Publish(k) ==
  /\ content' = [content EXCEPT ![k] = @ + 1]
  /\ UNCHANGED <<phase, want, since, answer>>

\* The server process dies: nobody is answered any more.
Restart ==
  /\ phase' = [p \in Requests |-> "idle"]
  /\ want' = [p \in Requests |-> NoKey]
  /\ since' = [p \in Requests |-> 0]
  /\ answer' = [p \in Requests |-> 0]
  /\ UNCHANGED content

Next ==
  \/ \E p \in Requests :
       \/ \E k \in Keys : Ask(p, k)
       \/ Answer(p)
       \/ Refuse(p)
       \/ Leave(p)
  \/ \E k \in Keys : Publish(k)
  \/ Restart

Spec == Init /\ [][Next]_vars

=============================================================================
