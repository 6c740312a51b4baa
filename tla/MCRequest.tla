----------------------------- MODULE MCRequest ------------------------------
(* Three requests for two accounts, and streams with two tool calls.  One of *)
(* the four components runs in a behaviour.                                  *)
EXTENDS Request, TLC

CONSTANTS w1, w2, r1, r2, r3, a1, a2

MCWorkers == {w1, w2}
MCRequests == {r1, r2, r3}
MCWorkerOf == (r1 :> w1) @@ (r2 :> w2) @@ (r3 :> w2)
MCChains == {<<a1, a2>>, <<a2, a1>>}

(* The instance is the same after swapping the two accounts, or the two      *)
(* requests of w2.                                                           *)
Symmetry == Permutations({a1, a2}) \cup Permutations({r2, r3})

VARIABLE part

MCInit ==
    /\ RequestInit
    /\ part \in {"leases", "messages", "responses", "chat"}
    /\ part # "messages" => ~asm.requested
    /\ part # "chat" => ~turn.asked

MCNext ==
    /\ \/ part = "leases" /\ LeasesNext
       \/ part = "messages" /\ MessagesNext
       \/ part = "responses" /\ ResponsesNext
       \/ part = "chat" /\ ChatNext
    /\ UNCHANGED part

MCSpec == MCInit /\ [][MCNext]_<<part, requestVars>>
=============================================================================
