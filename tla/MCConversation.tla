--------------------------- MODULE MCConversation ---------------------------
(* Small instances of Conversation for TLC.                                *)
EXTENDS Conversation, TLC

Symmetry == Permutations(Senders)

=============================================================================
