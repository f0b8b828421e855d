--------------------------- MODULE MCPeggyBridge ---------------------------
(* Instances of PeggyBridge for TLC: inj stands for INJ, usdt for a token  *)
(* whose vouchers only deposits create.                                    *)
EXTENDS PeggyBridge

CONSTANTS inj, usdt
=============================================================================
