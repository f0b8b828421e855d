-------------------------- MODULE MCPeggyRateLimit --------------------------
(* PeggyRateLimit with a limit over one block and one over two. *)
EXTENDS PeggyRateLimit

CONSTANTS usdt

TwoLimits == {[usd |-> 3, window |-> 1], [usd |-> 4, window |-> 2]}
=============================================================================
