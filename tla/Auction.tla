------------------------------ MODULE Auction -------------------------------
(***************************************************************************)
(* The auction of the exchange's fees: bids in INJ, the settlement of a    *)
(* round in the EndBlocker (burn the bid, deliver the basket or a voucher  *)
(* for what cannot be delivered), and the refill of the basket from the    *)
(* fees collected meanwhile (modules/auction, and WithdrawAllAuctionBal-   *)
(* ances of the exchange).                                                 *)
(*                                                                         *)
(* Deposits of the exchange are decimals, in units of 1/DecScale of a      *)
(* coin; everything else is whole coins.  The pairs of `restricted` are    *)
(* the transfers the bank refuses, <<receiver, denom>>: only tokens whose  *)
(* issuer has enforced restrictions; what other permissions refuse goes to *)
(* the permissions module, and the transfer succeeds.                      *)
(***************************************************************************)
EXTENDS Integers, FiniteSets, FiniteSetsExt, Vouchers

CONSTANTS
    Accounts,           \* bidders
    NoOne,              \* bidder of the empty bid
    Denoms, INJ,
    Restrictable,       \* transfers an issuer may refuse, <<receiver, denom>>
    GenesisVouchers,    \* vouchers a genesis file may restore
    Funds,              \* INJ in the wallet of an account at first
    BidAmounts,
    ParamSets,          \* what governance may set
    RateDen,            \* denominator of the minimal increment
    DecScale,
    BlockTimes,         \* seconds between two blocks; a large one is a halt
    MaxTime, MaxAccruals, MaxChanges        \* bounds

AuctionModule == "auction"

ASSUME AuctionAssumption ==
    /\ INJ \in Denoms 
    /\ Restrictable \subseteq (Accounts \cup {AuctionModule}) \X (Denoms \ {INJ})
    /\ NoOne \notin Accounts /\ AuctionModule \notin Accounts
    /\ GenesisVouchers \subseteq [Accounts -> [Denoms -> Nat]]
    /\ Funds \in Nat /\ BidAmounts \subseteq Nat \ {0}
    /\ \A p \in ParamSets :
          /\ p.cap \in Nat /\ p.period \in Nat \ {0}
          /\ p.rate \in Nat \ {0} /\ 5 * p.rate <= RateDen  \* at most 20 %
          /\ p.whitelist \subseteq Accounts
    /\ RateDen \in Nat \ {0} /\ DecScale \in Nat \ {0}
    /\ BlockTimes \subseteq Nat \ {0}
    /\ MaxTime \in Nat /\ MaxAccruals \in Nat /\ MaxChanges \in Nat

VARIABLES
    time,           \* of the block
    params,
    round,          \* AuctionRoundKey
    ending,         \* KeyEndingTimeStamp
    bid,            \* BidsKey
    vouchers,
    module,         \* coins of the auction module's account
    wallet,         \* coins of the bidders
    deposits,       \* of the auction subaccount of the exchange
    fees,           \* coins of ExchangeAuctionFeesAddress
    ante,           \* INJ of AuctionFeesSubaccountAddress
    restricted,     \* pairs <<receiver, denom>> the bank refuses
    basket,         \* EventAuctionStart of the current round
    \* history
    accruals, changes,
    paid, got       \* INJ burnt for an account's bids, delivered to it

coins == <<module, wallet, vouchers>>
sources == <<deposits, fees, ante>>
history == <<paid, got>>
counts == <<accruals, changes>>
vars == <<time, params, round, ending, bid, coins, sources, restricted,
          basket, counts, history>>

NoBid == [bidder |-> NoOne, amount |-> 0]
NoCoins == [d \in Denoms |-> 0]

(* InitGenesis at time 0, with the coins behind the vouchers it restores;
   round 0 takes no bids. *)
Init ==
    /\ time = 0
    /\ params \in ParamSets
    /\ round = 0 /\ ending = params.period
    /\ bid = NoBid
    /\ vouchers \in GenesisVouchers
    /\ module = [d \in Denoms |-> VoucherReserved(vouchers, d)]
    /\ wallet = [a \in Accounts |-> [d \in Denoms |-> IF d = INJ THEN Funds ELSE 0]]
    /\ deposits = NoCoins /\ fees = NoCoins /\ ante = 0
    /\ restricted = {}
    /\ basket = NoCoins
    /\ accruals = 0 /\ changes = 0
    /\ paid = [a \in Accounts |-> 0] /\ got = [a \in Accounts |-> 0]

-----------------------------------------------------------------------------
(* Messages *)

MayBid(a, r) ==
    /\ params.whitelist # {} => a \in params.whitelist
    /\ round # 0 /\ r = round
    /\ time < ending

(* The minimal increment over the last bid, whoever made it. *)
Outbids(a, amount) ==
    /\ a = bid.bidder => amount >= bid.amount
    /\ bid.amount * (RateDen + params.rate) <= amount * RateDen

(* Mutant of BidCoins: the last bidder is not refunded. *)
BidWithoutRefund(a, amount) ==
    LET due == IF a = bid.bidder THEN amount - bid.amount ELSE amount
    IN  [wallet EXCEPT ![a][INJ] = @ - due]

(* The wallets after a bid: a bidder who raises pays the difference, anyone
   else the whole bid, and the last bidder gets theirs back. *)
BidCoins(a, amount) ==
    LET due == IF a = bid.bidder THEN amount - bid.amount ELSE amount
        charged == [wallet EXCEPT ![a][INJ] = @ - due]
    IN  IF bid.amount > 0 /\ a # bid.bidder
        THEN [charged EXCEPT ![bid.bidder][INJ] = @ + bid.amount]
        ELSE charged

Bid(a, r, amount) ==
    /\ MayBid(a, r)
    /\ Outbids(a, amount)
    /\ wallet[a][INJ] >= IF a = bid.bidder THEN amount - bid.amount ELSE amount
    /\ wallet' = BidCoins(a, amount)
    /\ module' = [module EXCEPT ![INJ] = @ + amount - bid.amount]
    /\ bid' = [bidder |-> a, amount |-> amount]
    /\ UNCHANGED <<time, params, round, ending, vouchers, sources, restricted,
                   basket, counts, history>>

ClaimVoucher(a, d) ==
    /\ GetVoucher(vouchers, d, a) > 0
    /\ <<a, d>> \notin restricted
    /\ module[d] >= vouchers[a][d]
    /\ module' = [module EXCEPT ![d] = @ - vouchers[a][d]]
    /\ wallet' = [wallet EXCEPT ![a][d] = @ + vouchers[a][d]]
    /\ got' = IF d = INJ THEN [got EXCEPT ![a] = @ + vouchers[a][d]] ELSE got
    /\ vouchers' = DeleteVoucher(vouchers, a, d)
    /\ UNCHANGED <<time, params, round, ending, bid, sources, restricted,
                   basket, counts, paid>>

UpdateParams(p) ==
    /\ changes < MaxChanges /\ p # params
    /\ params' = p /\ changes' = changes + 1
    /\ UNCHANGED <<time, round, ending, bid, coins, sources, restricted,
                   basket, accruals, history>>

-----------------------------------------------------------------------------
(* What the rest of the chain does: fees come in (a trade, a fee paid from a
   wallet, a transaction's fee), an issuer changes who may receive a token. *)

TradingFee(d) ==
    /\ accruals < MaxAccruals
    /\ deposits' = [deposits EXCEPT ![d] = @ + DecScale + 1]
    /\ accruals' = accruals + 1
    /\ UNCHANGED <<time, params, round, ending, bid, coins, fees, ante,
                   restricted, basket, changes, history>>

WalletFee(d) ==
    /\ accruals < MaxAccruals
    /\ fees' = [fees EXCEPT ![d] = @ + 1]
    /\ accruals' = accruals + 1
    /\ UNCHANGED <<time, params, round, ending, bid, coins, deposits, ante,
                   restricted, basket, changes, history>>

AnteFee ==
    /\ accruals < MaxAccruals
    /\ ante' = ante + 1
    /\ accruals' = accruals + 1
    /\ UNCHANGED <<time, params, round, ending, bid, coins, deposits, fees,
                   restricted, basket, changes, history>>

ChangePermission(t) ==
    /\ restricted' = IF t \in restricted THEN restricted \ {t} ELSE restricted \cup {t}
    /\ UNCHANGED <<time, params, round, ending, bid, coins, sources, basket,
                   counts, history>>

-----------------------------------------------------------------------------
(* EndBlocker *)

(* Mutant of subtractReserved: the coins behind vouchers are auctioned. *)
ignoreReserved(amount, reserved) == amount

subtractReserved(amount, reserved) == Max({0, amount - reserved})

(* What m, beside the vouchers v, offers to a winner. *)
Offer(m, v) ==
    [d \in Denoms |->
        LET free == subtractReserved(m[d], VoucherReserved(v, d))
        IN  IF d = INJ THEN Min({free, params.cap}) ELSE free]

computeExchangeWithdrawalInjCap(inj, reserved) ==
    Max({0, params.cap - Max({0, inj - reserved})})

burnBidAmountInModule(m) ==
    IF m[INJ] >= bid.amount THEN [m EXCEPT ![INJ] = @ - bid.amount] ELSE m

(* The module's coins, the winner's and the vouchers after the settlement of
   the bid; coins of a failed transfer stay and become a voucher. *)
sendBasketToWinner(m) ==
    LET offer == Offer(m, vouchers)
        delivered == {d \in Denoms : <<bid.bidder, d>> \notin restricted}
        failed == {d \in Denoms \ delivered : offer[d] > 0}
    IN  [module |-> [d \in Denoms |-> IF d \in delivered THEN m[d] - offer[d] ELSE m[d]],
         wallet |-> [wallet EXCEPT ![bid.bidder] =
                        [d \in Denoms |-> IF d \in delivered THEN @[d] + offer[d] ELSE @[d]]],
         vouchers |-> FoldSet(LAMBDA d, v : AddVoucher(v, bid.bidder, d, offer[d]),
                              vouchers, failed)]

settleFinishedAuctionRound ==
    IF bid.amount > 0
    THEN sendBasketToWinner(burnBidAmountInModule(module))
    ELSE [module |-> module, wallet |-> wallet, vouchers |-> vouchers]

GetNextEndingTimeStamp ==
    Max({ending + params.period, time + params.period \div 2})

(* What the exchange sends under injCap, by denom, from the deposits of the
   auction subaccount and from the address of wallet fees; a transfer that
   the bank refuses leaves its source as it is. *)
FromDeposits(injCap) ==
    [d \in Denoms |-> LET whole == deposits[d] \div DecScale
                      IN  IF d = INJ THEN Min({whole, injCap}) ELSE whole]
FromFees(injCap) ==
    [d \in Denoms |-> IF d = INJ
                      THEN Min({fees[d], Max({0, injCap - FromDeposits(injCap)[d]})})
                      ELSE fees[d]]
Sent(amounts) ==
    [d \in Denoms |-> IF <<AuctionModule, d>> \in restricted THEN 0 ELSE amounts[d]]

SettleAndStartRound ==
    LET s == settleFinishedAuctionRound
        swept == [s.module EXCEPT ![INJ] = @ + ante]
        cap == computeExchangeWithdrawalInjCap(swept[INJ], VoucherReserved(s.vouchers, INJ))
        depositsSent == Sent(FromDeposits(cap))
        feesSent == Sent(FromFees(cap))
        refilled == [d \in Denoms |-> swept[d] + depositsSent[d] + feesSent[d]]
    IN  /\ round' = round + 1
        /\ ending' = GetNextEndingTimeStamp
        /\ module' = refilled
        /\ wallet' = s.wallet /\ vouchers' = s.vouchers
        /\ deposits' = [d \in Denoms |-> deposits[d] - depositsSent[d] * DecScale]
        /\ fees' = [d \in Denoms |-> fees[d] - feesSent[d]]
        /\ ante' = 0
        /\ basket' = Offer(refilled, s.vouchers)
        /\ bid' = NoBid
        /\ IF bid.amount > 0
           THEN /\ paid' = [paid EXCEPT ![bid.bidder] = @ + bid.amount]
                /\ got' = [got EXCEPT ![bid.bidder] =
                            @ + s.wallet[bid.bidder][INJ] - wallet[bid.bidder][INJ]]
           ELSE UNCHANGED history

EndBlocker(dt) ==
    /\ time + dt <= MaxTime
    /\ \/ time < ending /\ UNCHANGED <<round, ending, bid, coins, sources, basket, history>>
       \/ time >= ending /\ SettleAndStartRound
    /\ time' = time + dt
    /\ UNCHANGED <<params, restricted, counts>>

Next ==
    \/ \E a \in Accounts, r \in {round - 1, round}, x \in BidAmounts : Bid(a, r, x)
    \/ \E a \in Accounts, d \in Denoms : ClaimVoucher(a, d)
    \/ \E p \in ParamSets : UpdateParams(p)
    \/ \E d \in Denoms : TradingFee(d) \/ WalletFee(d)
    \/ AnteFee
    \/ \E t \in Restrictable : ChangePermission(t)
    \/ \E dt \in BlockTimes : EndBlocker(dt)

(* The holder of a voucher that can be paid claims it in the end. *)
Fairness == \A a \in Accounts, d \in Denoms : WF_vars(ClaimVoucher(a, d))

Spec == Init /\ [][Next]_vars /\ Fairness

-----------------------------------------------------------------------------
(* Properties *)

TypeOK ==
    /\ time \in 0..MaxTime /\ params \in ParamSets
    /\ round \in Nat /\ ending \in Nat
    /\ bid \in [bidder : Accounts, amount : BidAmounts] \cup {NoBid}
    /\ vouchers \in [Accounts -> [Denoms -> Nat]]
    /\ wallet \in [Accounts -> [Denoms -> Nat]]
    /\ module \in [Denoms -> Nat] /\ basket \in [Denoms -> Nat]
    /\ deposits \in [Denoms -> Nat] /\ fees \in [Denoms -> Nat] /\ ante \in Nat
    /\ restricted \subseteq Restrictable
    /\ accruals \in 0..MaxAccruals /\ changes \in 0..MaxChanges
    /\ paid \in [Accounts -> Nat] /\ got \in [Accounts -> Nat]

(* The module's account holds the standing bid and the coins behind every
   voucher at once, so that a refund, the burn of the winning bid and any
   claim never lack coins (auction/abci.go and vouchers.go).  (And the state
   has its type: no source of coins is overdrawn.) *)
ClaimsBacked ==
    /\ TypeOK
    /\ \A d \in Denoms :
        module[d] >= VoucherReserved(vouchers, d) + IF d = INJ THEN bid.amount ELSE 0

(* Only winning costs: whatever bids were made, raised, outbid or refunded,
   an account has what it started with, less the winning bids burnt for it
   and the one standing, plus the INJ delivered to it (Bid of msg_server.go). *)
LosersPayNothing ==
    \A a \in Accounts :
        wallet[a][INJ] = Funds + got[a] - paid[a]
                         - IF bid.bidder = a THEN bid.amount ELSE 0

(* The winner of a round gets at least the basket announced at its start, in
   coins or vouchers, whatever is claimed, bid or refunded meanwhile; INJ is
   cut to the cap in force at the end (sendBasketToWinner). *)
AnnouncedBasketDelivered ==
    [][round' # round /\ bid.amount > 0 =>
         \A d \in Denoms :
            wallet'[bid.bidder][d] + vouchers'[bid.bidder][d]
              >= wallet[bid.bidder][d] + vouchers[bid.bidder][d]
                 + IF d = INJ THEN Min({basket[d], params.cap}) ELSE basket[d]]_vars

(* A voucher is paid in the end if its holder may receive the coins from some
   time on: neither later settlements nor claims of others take its coins. *)
VouchersRedeemable ==
    \A a \in Accounts, d \in Denoms :
        <>[](<<a, d>> \notin restricted) => []<>(vouchers[a][d] = 0)
=============================================================================
