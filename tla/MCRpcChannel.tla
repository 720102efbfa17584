----------------------------- MODULE MCRpcChannel -----------------------------
(* Instances of RpcChannel for TLC.                                            *)
EXTENDS RpcChannel, TLC

CONSTANTS
  plain, table, note,  \* methods: data only; with a VTK object; from Void to Void
  greeter, logger      \* dispatchers

\* Services with a call that attaches objects, and with a notification.
MCImplements == greeter :> {table} @@ logger :> {note}

\* Both programs offer the first, so each can call back into the other.
MutualOffers == Client :> {greeter} @@ Server :> {greeter, logger}

\* Two-way methods only, offered by the server.
CallImplements == greeter :> {plain, table} @@ logger :> {}
ServerOffers == Client :> {} @@ Server :> {greeter, logger}

=============================================================================
