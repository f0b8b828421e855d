------------------------------ MODULE MCAuction -----------------------------
(* Two bidders, INJ and a token whose issuer may refuse transfers. *)
EXTENDS Auction

CONSTANTS alice, bob, usdt, uinj

MCParamSets ==
    {[cap |-> 2, period |-> 2, rate |-> 1, whitelist |-> {}],
     [cap |-> 1, period |-> 3, rate |-> 2, whitelist |-> {alice}]}

MCRestrictable == {<<alice, usdt>>, <<AuctionModule, usdt>>}

MCGenesisVouchers ==
    {AddVoucher(NoVouchers(Accounts, Denoms), bob, uinj, 1)}
=============================================================================
