----------------------------- MODULE MCPyServer -----------------------------
(* Instances of PyServer for TLC: the same threads in one worker process,  *)
(* or each in a worker of its own.                                         *)
EXTENDS PyServer

CONSTANTS w1, w2

OneWorker == [t \in Threads |-> w1]

Spread == CHOOSE f \in [Threads -> {w1, w2}] :
            \A w \in {w1, w2} : \E t \in Threads : f[t] = w
=============================================================================
