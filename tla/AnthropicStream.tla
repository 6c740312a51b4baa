--------------------------- MODULE AnthropicStream ---------------------------
(* A streamed answer to /v1/messages: anthropic_compat.py turns the chunks   *)
(* of an OpenAI stream into content blocks, and app.py relays them.  The     *)
(* attempt whose answer is relayed has been chosen (see ConversationFlow).   *)
EXTENDS StreamWire

CONSTANTS
    MaxBlocks,      \* bound: content blocks opened
    MaxHeld         \* bound: chunks of text held back

AnthropicAssumption == MaxBlocks \in Nat /\ MaxHeld \in Nat

VARIABLES
    asm,        \* the AnthropicStreamAssembler
    wire,       \* events it has returned and the relay has not sent
    client

vars == <<asm, wire, client>>

Piece == [content : BOOLEAN, reasoning : BOOLEAN]
(* open: the text or thinking block that is open, the last one that began;   *)
(* requested: the request has tools; seen: upstream has sent something.      *)
Assembler == [next : Nat, open : {"none", "text", "thinking"}, held : Seq(Piece),
              tools : [Tools -> Slot], saw : BOOLEAN, count : Nat,
              requested : BOOLEAN, seen : BOOLEAN, over : BOOLEAN]

TypeOK ==
    /\ asm \in Assembler
    /\ asm.count <= Cardinality(Tools)
    /\ wire \in Seq(Frame)
    /\ client \in Client

(* message_start has been sent.                                              *)
Init ==
    /\ \E req \in BOOLEAN :
        asm = [next |-> 0, open |-> "none", held |-> <<>>,
               tools |-> [k \in Tools |-> NoSlot], saw |-> FALSE, count |-> 0,
               requested |-> req, seen |-> FALSE, over |-> FALSE]
    /\ wire = <<>>
    /\ client = NewClient

-----------------------------------------------------------------------------
(* The methods of the assembler map an assembler and the events so far to    *)
(* the same.                                                                 *)
(* Mutant: the block that is open is not closed.                             *)
StoppedSilently(x) == [x EXCEPT !.a.open = "none"]
Stopped(x) ==
    IF x.a.open = "none" THEN x
    ELSE [a |-> [x.a EXCEPT !.open = "none"],
          out |-> Append(x.out, Event("stop", x.a.open, x.a.next - 1))]

Continued(x, kind) ==
    LET y == Stopped(x)
    IN IF x.a.open = kind
       THEN [x EXCEPT !.out = Append(@, Event("delta", kind, x.a.next - 1))]
       ELSE [a |-> [y.a EXCEPT !.open = kind, !.next = @ + 1],
             out |-> y.out \o <<Event("start", kind, y.a.next),
                                Event("delta", kind, y.a.next)>>]

(* _emit_text_and_thinking.                                                  *)
Said(x, piece) ==
    LET y == IF piece.reasoning THEN Continued(x, "thinking") ELSE x
    IN IF piece.content THEN Continued(y, "text") ELSE y

(* Whole tool blocks, one after the other.                                   *)
Called(x, ks) ==
    LET n == Cardinality(ks)
    IN [a |-> [x.a EXCEPT !.tools = Emitted(@, ks), !.next = @ + n, !.count = @ + n,
                          !.saw = @ \/ ks # {}, !.held = IF ks = {} THEN @ ELSE <<>>],
        out |-> x.out \o Blocks(n, x.a.next)]

(* feed: text is held while tools may still win, and dropped when they have. *)
Worded(piece) ==
    LET x == [a |-> [asm EXCEPT !.seen = TRUE], out |-> <<>>]
    IN IF ~asm.requested THEN Said(x, piece)
       ELSE IF asm.saw \/ ~(piece.content \/ piece.reasoning) THEN x
       ELSE [x EXCEPT !.a.held = Append(@, piece)]

Room == asm.next < MaxBlocks /\ Len(asm.held) < MaxHeld

FeedText(piece) ==
    /\ ~asm.over /\ wire = <<>> /\ Room
    /\ LET x == Worded(piece) IN asm' = x.a /\ wire' = x.out
    /\ UNCHANGED client

(* The deltas of a tool call give it an id, upstream's or one made up.       *)
FeedTools(piece, ks) ==
    /\ ~asm.over /\ wire = <<>> /\ Room
    /\ \E new \in Ingested(asm.tools, ks) :
        LET x == Stopped(Worded(piece))
            tools == [k \in Tools |-> IF k \in ks THEN [new[k] EXCEPT !.id = TRUE]
                                                  ELSE new[k]]
            y == Called([x EXCEPT !.a.tools = tools],
                        First(Ready(tools), Budget(asm.count)))
        IN asm' = y.a /\ wire' = y.out
    /\ UNCHANGED client

(* finish: the text that was held, unless tools have won or are about to;    *)
(* then every tool call there is something of.                               *)
Flushed(x, held) ==
    LET said[n \in 0 .. Len(held)] == IF n = 0 THEN x ELSE Said(said[n - 1], held[n])
    IN said[Len(held)]
Preface(x) ==
    IF asm.saw \/ (\E k \in Unsent(asm.tools) : Complete(asm.tools[k]))
    THEN [x EXCEPT !.a.held = <<>>]
    ELSE [Flushed(x, asm.held) EXCEPT !.a.held = <<>>]

(* Mutant: the calls after one that is not complete are forgotten.           *)
LeftReady == First(Ready(asm.tools), Budget(asm.count))
Left ==
    First({k \in Unsent(asm.tools) : asm.tools[k].name \/ asm.tools[k].args # "none"},
          Budget(asm.count))

StopReason(finish, saw) == IF saw \/ finish = "tool_calls" THEN "tool_use" ELSE finish

Finish(finish) ==
    /\ ~asm.over /\ wire = <<>> /\ asm.seen
    /\ LET x == Called(Stopped(Preface([a |-> asm, out |-> <<>>])), Left)
       IN /\ asm' = [x.a EXCEPT !.over = TRUE]
          /\ wire' = Append(x.out, Event("end", StopReason(finish, x.a.saw), 0))
    /\ UNCHANGED client

(* An answer with nothing in it, an exception and a cancellation, also while *)
(* events are being sent, end the stream with an error.                      *)
Fail ==
    /\ client.over = "no"
    /\ asm' = [asm EXCEPT !.over = TRUE]
    /\ wire' = <<Event("error", "api_error", 0)>>
    /\ UNCHANGED client

Send ==
    /\ wire # <<>>
    /\ client' = Receive(client, Head(wire))
    /\ wire' = Tail(wire)
    /\ UNCHANGED asm

Next ==
    \/ \E piece \in Piece :
        \/ FeedText(piece)
        \/ \E ks \in SUBSET Tools \ {{}} : FeedTools(piece, ks)
    \/ \E finish \in {"stop", "length", "tool_calls"} : Finish(finish)
    \/ Fail \/ Send

Spec == Init /\ [][Next]_vars

-----------------------------------------------------------------------------
(* The client sees what it relies on: one block at a time, numbered without  *)
(* a gap, and closed before the end.                                         *)
CB == INSTANCE ContentBlocks
        WITH Single <- TRUE, open <- client.open, next <- client.next,
             over <- client.over
BlocksFollow == CB!Spec

(* A complete tool call reaches the client, however the others came in,      *)
(* unless the limit is reached; and then the client is told to run it.       *)
ToolsDelivered ==
    client.over = "end" =>
        /\ \A k \in Tools : Complete(asm.tools[k]) =>
                asm.tools[k].done \/ Budget(asm.count) = 0
        /\ "tool" \in client.kinds => client.reason = "tool_use"

(* "Incomplete tool previews only - keep the text answer": on a turn with    *)
(* tools the client gets text or tool calls, never both.  It does not hold:  *)
(* text that has been sent stays when tool calls follow.                     *)
TextOrTools ==
    asm.requested => client.kinds \subseteq {"tool"} \/ "tool" \notin client.kinds
=============================================================================
