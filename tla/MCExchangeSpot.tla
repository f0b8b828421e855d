--------------------------- MODULE MCExchangeSpot ---------------------------
(***************************************************************************)
(* ExchangeSpot with a default subaccount d and an ordinary one n.  Prices *)
(* and rates are chosen so that every division of the model is exact.      *)
(***************************************************************************)
EXTENDS ExchangeSpot

CONSTANTS d, n, relayer, auction

MCTraders == {d, n}
MCDefault == {d}
MCCoin == [base |-> 1, quote |-> 100]
MCPrices == {240, 360}
MCRates == {<<1, 2>>, <<-1, 2>>}
MCInitFunds == [s \in {d, n} |-> IF s = d THEN [base |-> 1, quote |-> 800]
                                 ELSE [base |-> 2, quote |-> 500]]
=============================================================================
