-------------------------- MODULE MCInsuranceFunds --------------------------
EXTENDS InsuranceFunds
MCBalanceDeltas == {-5}
=============================================================================
