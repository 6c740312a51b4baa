----------------------------- MODULE ChatStream ------------------------------
(* A streamed answer to /v1/chat/completions: app.py relays the chunks of    *)
(* upstream, holds tool calls back until they are whole, and holds text back *)
(* on a turn with tools until it is known whether there will be a tool call. *)
(* The role has been sent.  Reasoning counts as text here.  The attempts at  *)
(* other accounts are in ConversationFlow; the request's tools_requested is  *)
(* all that one passes on to the next.                                       *)
EXTENDS StreamWire

VARIABLES
    turn,       \* the locals of _stream_proxy_with_failover_inner
    wire,       \* frames yielded and not sent
    client

vars == <<turn, wire, client>>

(* asked: the request has tools; requested: it has, or upstream sent some;   *)
(* saw: a tool call has been sent; held: text is held back; said: upstream   *)
(* has sent text; whole: upstream answered without a stream.                 *)
Turn == [asked : BOOLEAN, requested : BOOLEAN, saw : BOOLEAN, held : BOOLEAN,
         tools : [Tools -> Slot], count : Nat, said : BOOLEAN, whole : BOOLEAN,
         over : {"no", "end", "cancelled"}]

TypeOK ==
    /\ turn \in Turn /\ turn.count <= Cardinality(Tools)
    /\ wire \in Seq(Frame) /\ client \in Client

Init ==
    /\ \E asked \in BOOLEAN :
        turn = [asked |-> asked, requested |-> asked, saw |-> FALSE, held |-> FALSE,
                tools |-> [k \in Tools |-> NoSlot], count |-> 0, said |-> FALSE,
                whole |-> FALSE, over |-> "no"]
    /\ wire = <<>>
    /\ client = NewClient

-----------------------------------------------------------------------------
Text == <<Event("text", "text", 0)>>

(* _emit_tool_sse_serial: a frame for each of n tool calls, within the       *)
(* budget, with the dense index of _assign_dense_tool_out_index.             *)
Calls(n) == [j \in 1..n |-> Event("call", "tool", turn.count + j - 1)]

(* Tool calls of the accumulator that are sent, the first that are ready.    *)
Shipped(t, ks) ==
    [t EXCEPT !.tools = Emitted(@, ks), !.count = @ + Cardinality(ks),
              !.saw = @ \/ ks # {}, !.held = @ /\ ks = {}]

Reading == turn.over = "no" /\ wire = <<>> /\ ~turn.whole

(* Mutant: text is held until the first piece of a tool call only.           *)
HoldsUntilPreview(t) == t.asked /\ \A k \in Tools : t.tools[k] = NoSlot
Holds(t) == t.requested /\ ~t.saw

(* Mutant: text is passed on once a tool call has been sent.                 *)
PassesUnlessHeld(t) == ~Holds(t)
Passes(t) == ~t.requested

(* A chunk with text, or not, and pieces of the tool calls ks.               *)
Chunk(text, ks) ==
    /\ Reading
    /\ \E new \in Ingested(turn.tools, ks) :
        LET ready == IF ks = {} THEN {} ELSE First(Ready(new), Budget(turn.count))
            t == Shipped([turn EXCEPT !.tools = new, !.requested = @ \/ ks # {}], ready)
        IN /\ turn' = [t EXCEPT !.held = @ \/ (text /\ Holds(t)), !.said = @ \/ text]
           /\ wire' = (IF text /\ Passes(t) THEN Text ELSE <<>>) \o Calls(Cardinality(ready))
    /\ UNCHANGED client

Named(tools) == {k \in Unsent(tools) : tools[k].name}
Within(ks) == First(ks, Budget(turn.count))

(* A body that is not a stream: all the tool calls with a name are used up,  *)
(* those within the budget are sent; the text goes with any tool call, sent  *)
(* or not.                                                                   *)
Whole(text, ks) ==
    /\ Reading /\ turn.tools = [k \in Tools |-> NoSlot] /\ ~turn.said
    /\ \E new \in Ingested(turn.tools, ks) :
        LET t == [turn EXCEPT !.tools = Emitted(new, Named(new)),
                              !.requested = @ \/ ks # {}, !.saw = Named(new) # {},
                              !.count = Cardinality(Within(Named(new))),
                              !.said = text, !.whole = TRUE]
        IN /\ turn' = t
           /\ wire' = Calls(t.count) \o IF text /\ ks = {} THEN Text ELSE <<>>
    /\ UNCHANGED client

Reason(finish, saw) ==
    IF saw /\ finish \in {"none", "stop"} THEN "tool_calls"
    ELSE IF finish = "none" THEN "stop" ELSE finish

(* Upstream is done: the tool calls with a name that are left, whole or not, *)
(* the text that was held if none was ever sent, the finish reason.          *)
Drain(finish) ==
    /\ turn.over = "no" /\ wire = <<>>
    /\ LET left == Within(Named(turn.tools))
           t == Shipped(turn, left)
           empty == ~t.saw /\ ~t.held /\ ~t.said /\ \A k \in Tools : ~t.tools[k].name
       IN /\ turn' = [t EXCEPT !.over = "end", !.held = FALSE]
          /\ wire' = IF empty THEN <<Event("error", "upstream_error", 0)>>
                     ELSE Calls(Cardinality(left))
                            \o (IF t.held THEN Text ELSE <<>>)
                            \o <<Event("end", Reason(finish, t.saw), 0)>>
    /\ UNCHANGED client

(* An exception, also while frames are being sent.                           *)
Fail ==
    /\ turn.over # "cancelled" /\ client.over = "no"
    /\ turn' = [turn EXCEPT !.over = "end"]
    /\ wire' = <<Event("error", "proxy_error", 0)>>
    /\ UNCHANGED client

(* The task is cancelled: a clean end, if anybody still reads.               *)
Cancel ==
    /\ turn.over # "cancelled" /\ client.over = "no"
    /\ turn' = [turn EXCEPT !.over = "cancelled"]
    /\ wire' = <<Event("end", "stop", 0)>>
    /\ UNCHANGED client

Send ==
    /\ wire # <<>>
    /\ client' = Receive(client, Head(wire))
    /\ wire' = Tail(wire)
    /\ UNCHANGED turn

Next ==
    \/ \E text \in BOOLEAN, ks \in SUBSET Tools : Chunk(text, ks) \/ Whole(text, ks)
    \/ \E finish \in {"none", "stop", "length", "tool_calls"} : Drain(finish)
    \/ Fail \/ Cancel \/ Send

Spec == Init /\ [][Next]_vars

-----------------------------------------------------------------------------
(* On a turn the client gave tools for it gets text or tool calls, never     *)
(* both: a relay that turns the stream into content blocks has one active.   *)
TextOrTools == turn.asked => ~({"text", "tool"} \subseteq client.kinds)

(* Incomplete tool previews do not swallow a text answer: when the stream    *)
(* ends and upstream sent text, the client has got text or a tool call.      *)
AnswerShown ==
    client.over = "end" /\ turn.over = "end" /\ turn.said /\ ~turn.whole =>
        client.kinds # {}

(* A client that has been sent tool calls is not told that the turn is over. *)
(* It does not hold: a cancel after a tool call says "stop".                 *)
CallsAreAwaited ==
    client.over = "end" /\ turn.over = "end" /\ "tool" \in client.kinds =>
        client.reason # "stop"
=============================================================================
