--------------------------- MODULE MCPeggyOracle ---------------------------
(* Three validators, one of them Byzantine.  v2 and the Byzantine v3 leave *)
(* and join the bonded set; the correct ones always hold the required      *)
(* power, the Byzantine one never does.                                    *)
EXTENDS PeggyOracle, TLC

CONSTANTS v1, v2, v3, deposit, withdraw

MCValidators == {v1, v2, v3}
MCByzantine == {v3}
MCPayloads == {deposit, withdraw}
MCPowerMaps == {v1 :> 20 @@ v2 :> 10 @@ v3 :> 10,
                v1 :> 20 @@ v2 :> 0  @@ v3 :> 10,
                v1 :> 20 @@ v2 :> 10 @@ v3 :> 0}
=============================================================================
