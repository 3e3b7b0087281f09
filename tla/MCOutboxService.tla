--------------------------- MODULE MCOutboxService ---------------------------
(* Small instances of OutboxService for TLC. *)
EXTENDS OutboxService, TLC

Symmetric == Permutations(Dispatchers)
=============================================================================
