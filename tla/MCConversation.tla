--------------------------- MODULE MCConversation ---------------------------
(* Conversation on small instances; clients, keys and bodies are interchangeable. *)
EXTENDS Conversation, TLC

Symmetry == Permutations(Clients) \cup Permutations(Keys) \cup Permutations(Bodies)
=============================================================================
