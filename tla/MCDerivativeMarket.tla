------------------------- MODULE MCDerivativeMarket -------------------------
EXTENDS DerivativeMarket, TLC
CONSTANTS alice, bob, carol
Symmetry == Permutations(Traders)
MCFundingSteps == {-12}
=============================================================================
