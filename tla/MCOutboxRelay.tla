--------------------------- MODULE MCOutboxRelay ----------------------------
(* TLC instances of OutboxRelay: what the writers may write.                 *)
EXTENDS OutboxRelay

AnyKind      == Kind
Rebuildable  == {"known"}
NewerWriters == {"known", "newer"}      \* a rolling deployment: newer writers, an older relay

=============================================================================
