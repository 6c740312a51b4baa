------------------------------- MODULE Request -------------------------------
(* What a streamed request relies on: the lease on its account, and the      *)
(* three ways its answer is put on the wire.  They share no state.           *)
EXTENDS AccountLeases, StreamWire

CONSTANTS
    MaxBlocks, MaxHeld,     \* AnthropicStream
    MaxDeltas               \* ResponsesStream

VARIABLES
    asm, aWire, aClient,            \* AnthropicStream
    str, rWire, rClient, number,    \* ResponsesStream
    turn, cWire, cClient            \* ChatStream

messagesVars == <<asm, aWire, aClient>>
responsesVars == <<str, rWire, rClient, number>>
chatVars == <<turn, cWire, cClient>>
requestVars == <<vars, messagesVars, responsesVars, chatVars>>

Messages == INSTANCE AnthropicStream WITH wire <- aWire, client <- aClient
Responses == INSTANCE ResponsesStream
    WITH wire <- rWire, client <- rClient, last <- number
Chat == INSTANCE ChatStream WITH wire <- cWire, client <- cClient

ASSUME RequestAssumption ==
    WireAssumption /\ Messages!AnthropicAssumption /\ Responses!ResponsesAssumption

RequestInit == Init /\ Messages!Init /\ Responses!Init /\ Chat!Init

LeasesNext == Next /\ UNCHANGED <<messagesVars, responsesVars, chatVars>>
MessagesNext == Messages!Next /\ UNCHANGED <<vars, responsesVars, chatVars>>
ResponsesNext == Responses!Next /\ UNCHANGED <<vars, messagesVars, chatVars>>
ChatNext == Chat!Next /\ UNCHANGED <<vars, messagesVars, responsesVars>>

RequestNext == LeasesNext \/ MessagesNext \/ ResponsesNext \/ ChatNext
RequestSpec == RequestInit /\ [][RequestNext]_requestVars

-----------------------------------------------------------------------------
(* The types of the four, and of the leases that just those which a request  *)
(* still streams on are renewed.                                             *)
TypesOK == TypeOK /\ Registered /\ Messages!TypeOK /\ Responses!TypeOK /\ Chat!TypeOK

(* Nothing of an answer is lost: no tool call of the Messages stream, no     *)
(* text of a chat turn without one.                                          *)
AnswerDelivered ==
    Messages!ToolsDelivered /\ Chat!TextOrTools /\ Chat!AnswerShown

(* Both streams of blocks open, fill and close them in order.                *)
BlocksFollow == Messages!BlocksFollow /\ Responses!BlocksFollow
=============================================================================
