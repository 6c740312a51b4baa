------------------------ MODULE MCConversationFlow ------------------------
(* Model values for ConversationFlow.                                        *)
EXTENDS ConversationFlow, TLC

CONSTANTS r1, a1, a2, p1

One == {r1}
TwoAccounts == {a1, a2}

AllEndpoints == (r1 :> {"json", "openai", "anthropic", "responses"})
OneProcess == (r1 :> p1)
=============================================================================
