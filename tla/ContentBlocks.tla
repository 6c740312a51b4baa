---------------------------- MODULE ContentBlocks ----------------------------
(* What a client of a stream relies on: the blocks (content blocks, output   *)
(* items, tool calls) are numbered without a gap in the order they are       *)
(* opened, each is open for one stretch and, where the protocol has one      *)
(* active block, none is opened before the last is closed; the answer ends   *)
(* when all are closed, and nothing follows the end or an error.             *)
EXTENDS Integers

CONSTANT Single         \* the protocol has one active block

VARIABLES open, next, over

Init == open = {} /\ next = 0 /\ over = "no"

Open ==
    /\ over = "no"
    /\ Single => open = {}
    /\ open' = open \cup {next} /\ next' = next + 1
    /\ UNCHANGED over

Close ==
    /\ over = "no"
    /\ \E i \in open : open' = open \ {i}
    /\ UNCHANGED <<next, over>>

End ==
    /\ over = "no" /\ open = {}
    /\ over' = "end"
    /\ UNCHANGED <<open, next>>

Break ==
    /\ over = "no"
    /\ over' = "error"
    /\ UNCHANGED <<open, next>>

Next == Open \/ Close \/ End \/ Break

Spec == Init /\ [][Next]_<<open, next, over>>
=============================================================================
