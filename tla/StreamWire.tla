----------------------------- MODULE StreamWire -----------------------------
(* What the three streaming protocols share: the tool calls that arrive in   *)
(* pieces from upstream, the policy that holds them until they are whole,    *)
(* and the events on the wire with the client that follows them.             *)
(*                                                                           *)
(* Of the arguments of a tool call only what the policy asks is kept: none   *)
(* yet, a part, the empty object, or all the keys the tool requires.         *)
EXTENDS Integers, Sequences, FiniteSets, Functions

CONSTANTS
    Tools,          \* indices of tool calls upstream
    MaxTools        \* OUTBOUND_MAX_TOOLS; 0 is no limit

WireAssumption == Tools \subseteq Nat /\ IsFiniteSet(Tools) /\ MaxTools \in Nat

Args == {"none", "part", "empty", "full"}
Slot == [id : BOOLEAN, name : BOOLEAN, args : Args, done : BOOLEAN]
NoSlot == [id |-> FALSE, name |-> FALSE, args |-> "none", done |-> FALSE]

(* merge_tool_argument_delta: what one more piece, a suffix or the whole     *)
(* again, can make of the arguments.  A complete value is never given up.    *)
Merges(args) ==
    CASE args = "none" -> Args
      [] args \in {"part", "empty"} -> Args \ {"none"}
      [] args = "full" -> {"full"}

(* One delta of a tool call: an id, a name, a piece of the arguments.  The   *)
(* name decides which keys are required, so that it may make a whole value a *)
(* part.                                                                     *)
Deltas(slot) ==
    {new \in Slot :
        /\ (slot.id => new.id) /\ (slot.name => new.name) /\ new.done = slot.done
        /\ \/ new.args \in Merges(slot.args)
           \/ ~slot.name /\ new.args = "part" /\ slot.args # "part"}

(* A chunk has deltas of the tool calls in ks.                               *)
Chosen(options) ==
    {f \in [Tools -> UNION Range(options)] : \A k \in Tools : f[k] \in options[k]}
Ingested(tools, ks) ==
    Chosen([k \in Tools |-> IF k \in ks /\ ~tools[k].done THEN Deltas(tools[k])
                           ELSE {tools[k]}])

Known(slot) == slot.id \/ slot.name \/ slot.args # "none"
Complete(slot) == slot.name /\ slot.args = "full"
Unsent(tools) == {k \in Tools : Known(tools[k]) /\ ~tools[k].done}

(* A tool call is ready when it and every known one before it are complete.  *)
Ready(tools) ==
    {k \in Unsent(tools) : \A j \in Unsent(tools) : j <= k => Complete(tools[j])}

Budget(count) == IF MaxTools = 0 THEN Cardinality(Tools) ELSE MaxTools - count
First(ks, n) == {k \in ks : Cardinality({j \in ks : j < k}) < n}
Emitted(tools, ks) ==
    [k \in Tools |-> IF k \in ks THEN [tools[k] EXCEPT !.done = TRUE] ELSE tools[k]]

-----------------------------------------------------------------------------
(* Events on the wire: a block is started, continued and stopped.            *)
Kinds == {"text", "thinking", "tool"}
Reasons == {"stop", "length", "tool_calls", "tool_use", "completed"}
Errors == {"api_error", "upstream_error", "proxy_error", "server_error"}
Frame == [ev : {"start", "delta", "stop", "call", "text", "end", "error"},
          kind : Kinds \cup Reasons \cup Errors, i : Nat]

Event(ev, kind, i) == [ev |-> ev, kind |-> kind, i |-> i]
Block == <<"start", "delta", "stop">>

(* One block for each of n tool calls, from index i on.                      *)
Blocks(n, i) ==
    [j \in 1 .. 3 * n |-> Event(Block[1 + ((j - 1) % 3)], "tool", i + ((j - 1) \div 3))]

Client == [open : SUBSET Nat, next : Nat, over : {"no", "end", "error"},
           kinds : SUBSET Kinds, reason : Reasons \cup {"none"}]
NewClient == [open |-> {}, next |-> 0, over |-> "no", kinds |-> {}, reason |-> "none"]

(* The client counts the blocks and forgets those that are stopped; it takes *)
(* an event about a block that is not open as it comes.                      *)
Receive(c, e) ==
    CASE e.ev = "start" -> [c EXCEPT !.open = @ \cup {e.i}, !.next = e.i + 1,
                                     !.kinds = @ \cup {e.kind}]
      [] e.ev = "delta" -> [c EXCEPT !.open = @ \cup {e.i}]
      [] e.ev = "stop" -> [c EXCEPT !.open = @ \ {e.i}]
      [] e.ev = "call" -> [c EXCEPT !.next = e.i + 1, !.kinds = @ \cup {"tool"}]
      [] e.ev = "text" -> [c EXCEPT !.kinds = @ \cup {"text"}]
      [] e.ev = "end" -> [c EXCEPT !.over = "end", !.reason = e.kind]
      [] e.ev = "error" -> [c EXCEPT !.over = "error"]
=============================================================================
