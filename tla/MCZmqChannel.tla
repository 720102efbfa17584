----------------------------- MODULE MCZmqChannel -----------------------------
(* Instances of ZmqChannel for TLC.                                            *)
EXTENDS ZmqChannel

\* Programs that call receive() at any time, connections that lose messages, and
\* messages with an object; without and with a router.
AnyUse ==
  [spaced : BOOLEAN, routers : {0, 1}, objects : {1}, polls : {FALSE}, lossy : {TRUE}]

\* Two routers on the way, programs that poll before they receive.
RoutedUse ==
  [spaced : BOOLEAN, routers : {2}, objects : {0}, polls : {TRUE}, lossy : {FALSE}]

Uses == AnyUse \cup RoutedUse

=============================================================================
