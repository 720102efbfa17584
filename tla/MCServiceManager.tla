--------------------------- MODULE MCServiceManager ---------------------------
(* Instances of ServiceManager for TLC.                                        *)
EXTENDS ServiceManager, TLC

CONSTANTS
  a, b, c,        \* methods
  first, again, other   \* dispatchers

\* Two generations of one service, as the server example makes them, and a
\* service that shares a method with them.
MCImplements == first :> {a, b} @@ again :> {a, b} @@ other :> {b, c}

=============================================================================
