--------------------------- MODULE ResponsesStream ---------------------------
(* A streamed answer to /v1/responses: the ResponsesLiveStreamer of          *)
(* openai_responses.py turns the chunks of an OpenAI stream into output      *)
(* items, which app.py relays.  Upstream has answered 200 and                *)
(* response.created has been sent, with the sequence number 0.               *)
(*                                                                           *)
(* A start, a delta and a stop stand for the frames that make them up: the   *)
(* item is added with its part, its text or its arguments come, and both are *)
(* done.                                                                     *)
EXTENDS StreamWire

CONSTANT MaxDeltas      \* bound: pieces of text

ResponsesAssumption == MaxDeltas \in Nat

VARIABLES
    str,        \* the ResponsesLiveStreamer, and what the relay has collected
    wire,       \* frames returned and not sent
    client,
    last        \* the last sequence number the client has seen

vars == <<str, wire, client, last>>

Streamer == [text : {"unopened", "open", "closed"}, at : Nat, deltas : Nat,
             next : Nat, tools : [Tools -> Slot], seq : Nat, reasoning : BOOLEAN,
             closed : BOOLEAN]

TypeOK ==
    /\ str \in Streamer /\ str.deltas <= MaxDeltas
    /\ client \in Client /\ last \in Nat
    /\ \A j \in DOMAIN wire : wire[j].n \in Nat

Init ==
    /\ str = [text |-> "unopened", at |-> 0, deltas |-> 0, next |-> 0,
              tools |-> [k \in Tools |-> NoSlot], seq |-> 1, reasoning |-> FALSE,
              closed |-> FALSE]
    /\ wire = <<>>
    /\ client = NewClient
    /\ last = 0

-----------------------------------------------------------------------------
Running == ~str.closed /\ client.over = "no" /\ wire = <<>>

(* _emit numbers what is sent.                                               *)
Numbered(e, n) == [ev |-> e.ev, kind |-> e.kind, i |-> e.i, n |-> n]
Emit(x, out) ==
    /\ str' = [x EXCEPT !.seq = @ + Len(out)]
    /\ wire' = [j \in DOMAIN out |-> Numbered(out[j], x.seq + j - 1)]
    /\ UNCHANGED <<client, last>>

(* on_text_delta: the message item is opened by the first piece.             *)
TextOpened(x) ==
    IF x.text = "unopened"
    THEN [x EXCEPT !.text = "open", !.at = x.next, !.next = @ + 1] ELSE x

TextFrames(x) ==
    (IF x.text = "unopened" THEN <<Event("start", "text", x.next)>> ELSE <<>>)
        \o <<Event("delta", "text", TextOpened(x).at)>>

(* on_tool_delta: pieces are merged also when the item is done already.      *)
Merged(tools, ks) ==
    Chosen([k \in Tools |-> IF k \in ks THEN Deltas(tools[k]) ELSE {tools[k]}])

(* The items of the tool calls ks, one after the other.                      *)
ToolItems(x, ks) == [x EXCEPT !.tools = Emitted(@, ks), !.next = @ + Cardinality(ks)]

(* One chunk: text, reasoning that is kept aside, pieces of the tool calls   *)
(* ks; then at most one tool call that has become ready.                     *)
Chunk(content, reasoning, ks) ==
    /\ Running /\ str.deltas + (IF content THEN 1 ELSE 0) <= MaxDeltas
    /\ LET x == [(IF content THEN TextOpened(str) ELSE str)
                    EXCEPT !.deltas = @ + (IF content THEN 1 ELSE 0),
                           !.reasoning = @ \/ reasoning]
           said == IF content THEN TextFrames(str) ELSE <<>>
       IN \E new \in Merged(x.tools, ks) :
            LET y == [x EXCEPT !.tools = new]
                ready == IF ks = {} THEN {} ELSE First(Ready(new), 1)
            IN Emit(ToolItems(y, ready), said \o Blocks(Cardinality(ready), y.next))

(* Mutant: the message item is left open.                                    *)
CloseTextLate == <<>>
CloseText == IF str.text = "open" THEN <<Event("stop", "text", str.at)>> ELSE <<>>

(* _close_open_tools: every tool call that has a name, whole or not.         *)
Held == {k \in Unsent(str.tools) : str.tools[k].name}

(* complete, when upstream has sent anything at all.                         *)
Finish ==
    /\ Running
    /\ str.deltas > 0 \/ str.reasoning \/ \E k \in Tools : str.tools[k] # NoSlot
    /\ Emit([ToolItems(str, Held) EXCEPT !.closed = TRUE,
                !.text = IF @ = "open" THEN "closed" ELSE @],
            CloseText \o Blocks(Cardinality(Held), str.next) \o <<Event("end", "completed", 0)>>)

(* failed_responses_sse, after an exception or an empty answer: not numbered *)
(* by the streamer.                                                          *)
Fail ==
    /\ Running
    /\ wire' = <<Numbered(Event("error", "server_error", 0), 0)>>
    /\ str' = [str EXCEPT !.closed = TRUE]
    /\ UNCHANGED <<client, last>>

Send ==
    /\ wire # <<>>
    /\ client' = Receive(client, Head(wire))
    /\ last' = Head(wire).n
    /\ wire' = Tail(wire)
    /\ UNCHANGED str

Next ==
    \/ \E content, reasoning \in BOOLEAN, ks \in SUBSET Tools :
            Chunk(content, reasoning, ks)
    \/ Finish \/ Fail \/ Send

Spec == Init /\ [][Next]_vars

-----------------------------------------------------------------------------
(* The client sees output items numbered without a gap, each open for one    *)
(* stretch, all closed before response.completed, and nothing after it.      *)
CB == INSTANCE ContentBlocks
        WITH Single <- FALSE, open <- client.open, next <- client.next,
             over <- client.over
BlocksFollow == CB!Spec

(* "a monotonic top-level sequence_number (starting at 0)".  It does not     *)
(* hold: a failure is numbered 0 whatever came before it.                    *)
SequenceMonotone == [][last' >= last]_last
=============================================================================
