--------------------------- MODULE MCChatDelivery ---------------------------
EXTENDS ChatDelivery, TLC

Perms == Permutations(Message)
=============================================================================
