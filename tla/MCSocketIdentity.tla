--------------------------- MODULE MCSocketIdentity ---------------------------
(* Identities of up to two bytes of three values, one of them negative.        *)
EXTENDS SocketIdentity

Chars == {-1, 0, 1}

=============================================================================
