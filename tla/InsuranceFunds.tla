--------------------------- MODULE InsuranceFunds ---------------------------
(***************************************************************************)
(* The insurance funds of derivative markets: shares sold and redeemed     *)
(* after a notice period, what the exchange draws from a fund and pays     *)
(* into it, and the redemptions that the EndBlocker withdraws              *)
(* (modules/insurance and the calls of exchange/keeper/derivative).        *)
(*                                                                         *)
(* All funds here have one deposit denom, so that they share the coins of  *)
(* the module's account.  A share denom is the number in its name; 0 says  *)
(* that a market has no fund.  Coins and shares move freely between users, *)
(* so only what they hold together is kept.  Market balances are decimals, *)
(* in units of 1/DecScale of a coin.                                       *)
(***************************************************************************)
EXTENDS Integers, FiniteSets, Functions, Vouchers

CONSTANTS
    Accounts, Markets,
    Launched,           \* markets that trade; a fund comes before its market
    Quote,              \* the deposit denom
    ProtocolSupply,     \* InsuranceFundProtocolOwnedLiquiditySupply
    CreatorSupply,      \* InsuranceFundCreatorSupply
    NoticePeriod,       \* RedemptionNoticePeriodDuration
    BatchingWindow,     \* redemptionBatchingWindow
    DecScale,
    Deposits, Redemptions,      \* amounts underwritten and redeemed
    Deficits, Surpluses,        \* that the exchange settles with a fund
    BalanceDeltas,              \* of a market balance
    MaxTime, MaxShareDenoms, MaxShares, MaxSchedules, MaxMarketOps  \* bounds

ASSUME InsuranceAssumption ==
    /\ IsFiniteSet(Accounts) /\ IsFiniteSet(Markets) /\ Launched \subseteq Markets
    /\ ProtocolSupply \in Nat \ {0} /\ CreatorSupply \in Nat \ {0}
    /\ NoticePeriod \in Nat \ {0} /\ BatchingWindow \in Nat
    /\ DecScale \in Nat \ {0}
    /\ Deposits \subseteq Nat \ {0} /\ Redemptions \subseteq Nat \ {0}
    /\ Deficits \subseteq Nat /\ Surpluses \subseteq Nat
    /\ BalanceDeltas \subseteq Int
    /\ MaxTime \in Nat /\ MaxShareDenoms \in Nat /\ MaxShares \in Nat
    /\ MaxSchedules \in Nat /\ MaxMarketOps \in Nat

VARIABLES
    time,           \* of the block
    phase,          \* "txs", then "withdraw" in the EndBlocker
    funds,          \* InsuranceFundPrefixKey
    nextShareDenom, \* GlobalShareDenomIdPrefixKey
    schedules,      \* RedemptionSchedulePrefixKey
    nextSchedule,   \* GlobalRedemptionScheduleIdPrefixKey
    failed,         \* FailedRedemptionSchedulePrefixKey
    vouchers,
    matured,        \* collected by the first pass of the EndBlocker
    module,         \* deposit coins of the module's account
    locked,         \* shares of the module's account, by denom
    circulating,    \* shares of the users, by denom
    marketBalance,  \* of the exchange
    closed,         \* markets that are demolished or expired
    marketOps

scheduling == <<schedules, nextSchedule, failed, matured>>
market == <<marketBalance, closed, marketOps>>
vars == <<time, phase, funds, nextShareDenom, scheduling, vouchers, module,
          locked, circulating, market>>

ShareDenoms == 1..MaxShareDenoms
NoFund == [denom |-> 0, balance |-> 0, total |-> 0]
HasInsuranceFund(m) == funds[m].denom # 0

Init ==
    /\ time = 0 /\ phase = "txs"
    /\ funds = [m \in Markets |-> NoFund]
    /\ nextShareDenom = 1
    /\ schedules = {} /\ nextSchedule = 1 /\ failed = {} /\ matured = {}
    /\ vouchers = NoVouchers(Accounts, {Quote})
    /\ module = 0
    /\ locked = [d \in ShareDenoms |-> 0]
    /\ circulating = [d \in ShareDenoms |-> 0]
    /\ marketBalance = [m \in Markets |-> 0] /\ closed = {} /\ marketOps = 0

(* Requests end in time for the last of them to mature by MaxTime. *)
TakingMessages == phase = "txs" /\ time + NoticePeriod < MaxTime

-----------------------------------------------------------------------------
(* Underwriting *)

(* A fund that starts, or starts anew, with a share denom of its own: the
   protocol's shares go to the module, the creator's to the underwriter. *)
StartFund(m, amount) ==
    LET d == nextShareDenom
    IN  /\ d \in ShareDenoms
        /\ nextShareDenom' = d + 1
        /\ funds' = [funds EXCEPT ![m] =
             [denom |-> d, balance |-> funds[m].balance + amount,
              total |-> ProtocolSupply + CreatorSupply]]
        /\ locked' = [locked EXCEPT ![d] = @ + ProtocolSupply]
        /\ circulating' = [circulating EXCEPT ![d] = @ + CreatorSupply]

(* Mutant of ShareTokenAmount: the quotient is rounded up. *)
ShareTokenAmountUp(fund, amount) ==
    (fund.total * amount + fund.balance - 1) \div fund.balance

ShareTokenAmount(fund, amount) == (fund.total * amount) \div fund.balance

(* Shares of a fund that has a balance; the bank mints no empty coin. *)
BuyShares(m, amount) ==
    LET minted == ShareTokenAmount(funds[m], amount)
    IN  /\ minted > 0 /\ funds[m].total + minted <= MaxShares
        /\ funds' = [funds EXCEPT ![m].balance = @ + amount, ![m].total = @ + minted]
        /\ circulating' = [circulating EXCEPT ![funds[m].denom] = @ + minted]
        /\ UNCHANGED <<locked, nextShareDenom>>

CreateInsuranceFund(m, amount) ==
    /\ TakingMessages
    /\ ~HasInsuranceFund(m)
    /\ module' = module + amount
    /\ StartFund(m, amount)
    /\ UNCHANGED <<time, phase, scheduling, vouchers, market>>

UnderwriteInsuranceFund(m, amount) ==
    /\ TakingMessages
    /\ HasInsuranceFund(m)
    /\ module' = module + amount
    /\ \/ funds[m].balance <= 0 /\ StartFund(m, amount)     \* refreshInsuranceFund
       \/ funds[m].balance > 0 /\ BuyShares(m, amount)
    /\ UNCHANGED <<time, phase, scheduling, vouchers, market>>

-----------------------------------------------------------------------------
(* Redemption *)

isMarketDemolishedOrExpired(m) == m \in closed

(* Mutant of getRedemptionAmountFromShare: the market's debt is ignored. *)
RedemptionOfWholeFund(m, amount) ==
    IF funds[m].total = 0 THEN 0 ELSE (amount * funds[m].balance) \div funds[m].total

(* What an amount of shares is worth; a negative market balance is a debt. *)
getRedemptionAmountFromShare(m, amount) ==
    LET debt == IF marketBalance[m] < 0 THEN marketBalance[m] ELSE 0
        backing == funds[m].balance * DecScale + debt
    IN  IF backing < 0 \/ funds[m].total = 0 THEN 0
        ELSE (amount * (backing \div DecScale)) \div funds[m].total

(* settleRedemption, from the books b (schedules, shares in the module): the
   redeemer is paid, or given a voucher if the bank refuses the transfer;
   shares of a fund that has started anew are worth nothing.  If the shares
   cannot be burned, nothing is settled and the claim is recorded. *)
settleRedemption(s, held, delivered) ==
    LET d == s.denom
        current == funds[s.market].denom = d
        amount == IF current THEN getRedemptionAmountFromShare(s.market, s.amount) ELSE 0
        sent == delivered /\ module >= amount
    IN  IF held < s.amount
        THEN /\ failed' = failed \cup {s}
             /\ UNCHANGED <<funds, module, vouchers>>
        ELSE /\ funds' = IF current
                  THEN [funds EXCEPT ![s.market].balance = @ - amount,
                                     ![s.market].total = @ - s.amount]
                  ELSE funds
             /\ module' = IF sent THEN module - amount ELSE module
             /\ vouchers' = IF sent THEN vouchers
                            ELSE AddVoucher(vouchers, s.redeemer, Quote, amount)
             /\ UNCHANGED failed

Burned(s, held) == IF held < s.amount THEN held ELSE held - s.amount

(* Pending schedules of a redeemer within the window around a claim time. *)
Recent(a, m, claim) ==
    {s \in schedules : s.redeemer = a /\ s.market = m
                       /\ s.claim - claim \in -BatchingWindow..BatchingWindow}

Before(s, r) == s.claim < r.claim \/ (s.claim = r.claim /\ s.id <= r.id)

findRecentRedemptionSchedule(a, m, claim) ==
    {s \in Recent(a, m, claim) : \A r \in Recent(a, m, claim) : Before(s, r)}

(* Mutant of Batched: a schedule in shares of the fund's past is batched too. *)
BatchedAnyDenom(a, m, claim) == findRecentRedemptionSchedule(a, m, claim)

(* The schedule that a request is merged with, if there is one: the first in
   the window, provided that it is for the same shares. *)
Batched(a, m, claim) ==
    {s \in findRecentRedemptionSchedule(a, m, claim) : s.denom = funds[m].denom}

RequestInsuranceFundRedemption(a, m, amount, delivered) ==
    LET d == funds[m].denom
        claim == time + NoticePeriod
        batched == Batched(a, m, claim)
        merged == CHOOSE s \in batched : TRUE
        new == [id |-> IF batched # {} THEN merged.id ELSE nextSchedule,
                redeemer |-> a, market |-> m, denom |-> d, claim |-> claim,
                amount |-> IF batched # {} THEN merged.amount + amount ELSE amount]
        held == locked[d] + amount
        settles == isMarketDemolishedOrExpired(m)
    IN  /\ TakingMessages
        /\ HasInsuranceFund(m)
        /\ circulating[d] >= amount
        /\ new.id <= MaxSchedules
        /\ nextSchedule' = IF batched # {} THEN nextSchedule ELSE nextSchedule + 1
        /\ schedules' = (schedules \ batched) \cup (IF settles THEN {} ELSE {new})
        /\ circulating' = [circulating EXCEPT ![d] = @ - amount]
        /\ locked' = [locked EXCEPT ![d] = IF settles THEN Burned(new, held) ELSE held]
        /\ \/ settles /\ settleRedemption(new, held, delivered)
           \/ ~settles /\ UNCHANGED <<funds, module, vouchers, failed>>
        /\ UNCHANGED <<time, phase, nextShareDenom, matured, market>>

ClaimVoucher(a) ==
    LET amount == GetVoucher(vouchers, Quote, a)
    IN  /\ phase = "txs"
        /\ amount > 0 /\ module >= amount
        /\ module' = module - amount
        /\ vouchers' = DeleteVoucher(vouchers, a, Quote)
        /\ UNCHANGED <<time, phase, funds, nextShareDenom, scheduling, locked,
                       circulating, market>>

-----------------------------------------------------------------------------
(* WithdrawAllMaturedRedemptions in the EndBlocker: collected, then settled one
   by one in the order of their keys. *)

(* Mutant of Matured: the claim time is not looked at. *)
MaturedInClosed(s) == isMarketDemolishedOrExpired(s.market)

Matured(s) == isMarketDemolishedOrExpired(s.market) \/ time > s.claim

CollectMatured ==
    /\ phase = "txs"
    /\ phase' = "withdraw"
    /\ matured' = {s \in schedules : Matured(s)}
    /\ UNCHANGED <<time, funds, nextShareDenom, schedules, nextSchedule, failed,
                   vouchers, module, locked, circulating, market>>

(* processRedemption *)
processRedemption(s, delivered) ==
    /\ phase = "withdraw"
    /\ \A r \in matured : Before(s, r)
    /\ matured' = matured \ {s}
    /\ schedules' = schedules \ {s}
    /\ locked' = [locked EXCEPT ![s.denom] = Burned(s, @)]
    /\ settleRedemption(s, locked[s.denom], delivered)
    /\ UNCHANGED <<time, phase, nextShareDenom, nextSchedule, circulating, market>>

Commit ==
    /\ phase = "withdraw" /\ matured = {}
    /\ phase' = "txs"
    /\ time' = IF time < MaxTime THEN time + 1 ELSE time
    /\ UNCHANGED <<funds, nextShareDenom, scheduling, vouchers, module, locked,
                   circulating, market>>

EndBlocker ==
    \/ CollectMatured
    \/ \E s \in matured, delivered \in BOOLEAN : processRedemption(s, delivered)
    \/ Commit

-----------------------------------------------------------------------------
(* The exchange: market balances, and what it draws and pays *)

MarketOp(m) ==
    /\ phase = "txs" /\ marketOps < MaxMarketOps
    /\ marketOps' = marketOps + 1
    /\ UNCHANGED <<time, phase, nextShareDenom, scheduling, vouchers, locked, circulating>>

(* EnsureMarketSolvency: a delta is applied if balance and fund cover it. *)
ApplyMarketBalanceDelta(m, delta) ==
    /\ MarketOp(m)
    /\ marketBalance[m] + funds[m].balance * DecScale + delta >= 0
    /\ marketBalance' = [marketBalance EXCEPT ![m] = @ + delta]
    /\ UNCHANGED <<funds, module, closed>>

(* WithdrawFromInsuranceFund, whose coins the market balance then counts. *)
Withdraw(m, amount) ==
    /\ module >= amount
    /\ funds' = [funds EXCEPT ![m].balance = @ - amount]
    /\ module' = module - amount
    /\ marketBalance' = [marketBalance EXCEPT ![m] = @ + amount * DecScale]
    /\ UNCHANGED closed

Ceil(x) == -((-x) \div DecScale)

(* The coins that a fund pays for a deficit. *)
Payable(m, deficit) ==
    IF funds[m].balance < Ceil(deficit) THEN funds[m].balance ELSE Ceil(deficit)

PayDeficitFromInsuranceFund(m, deficit) ==
    /\ MarketOp(m) /\ HasInsuranceFund(m)
    /\ Withdraw(m, Payable(m, deficit))

TransferFullInsuranceFundBalance(m) ==
    /\ MarketOp(m) /\ HasInsuranceFund(m)
    /\ Withdraw(m, funds[m].balance)

(* DepositIntoInsuranceFund, with the coins the exchange sends. *)
MoveCoinsIntoInsuranceFund(m, amount) ==
    /\ MarketOp(m) /\ HasInsuranceFund(m)
    /\ funds' = [funds EXCEPT ![m].balance = @ + amount]
    /\ module' = module + amount
    /\ UNCHANGED <<marketBalance, closed>>

(* The market expires or is demolished. *)
CloseMarket(m) ==
    /\ MarketOp(m) /\ m \notin closed
    /\ closed' = closed \cup {m}
    /\ UNCHANGED <<funds, module, marketBalance>>

-----------------------------------------------------------------------------
Next ==
    \/ \E m \in Markets, amount \in Deposits :
         CreateInsuranceFund(m, amount) \/ UnderwriteInsuranceFund(m, amount)
    \/ \E a \in Accounts, m \in Markets, amount \in Redemptions, delivered \in BOOLEAN :
         RequestInsuranceFundRedemption(a, m, amount, delivered)
    \/ \E a \in Accounts : ClaimVoucher(a)
    \/ \E m \in Launched :
         \/ \E delta \in BalanceDeltas : ApplyMarketBalanceDelta(m, delta)
         \/ \E deficit \in Deficits : PayDeficitFromInsuranceFund(m, deficit)
         \/ TransferFullInsuranceFundBalance(m)
         \/ \E amount \in Surpluses : MoveCoinsIntoInsuranceFund(m, amount)
         \/ CloseMarket(m)
    \/ EndBlocker

(* Every block ends. *)
Spec == Init /\ [][Next]_vars /\ WF_vars(EndBlocker)

-----------------------------------------------------------------------------
(* Properties *)

Schedule == [id : 1..MaxSchedules, redeemer : Accounts, market : Markets,
             denom : ShareDenoms, claim : Nat, amount : Nat]

(* Type invariant: no balance of a fund and no count of shares is negative. *)
TypeOK ==
    /\ time \in Nat /\ phase \in {"txs", "withdraw"}
    /\ funds \in [Markets -> [denom : 0..MaxShareDenoms, balance : Nat, total : Nat]]
    /\ nextShareDenom \in 1..(MaxShareDenoms + 1)
    /\ schedules \subseteq Schedule /\ failed \subseteq Schedule
    /\ matured \subseteq schedules
    /\ nextSchedule \in 1..(MaxSchedules + 1)
    /\ vouchers \in [Accounts -> [{Quote} -> Nat]]
    /\ module \in Nat
    /\ locked \in [ShareDenoms -> Nat] /\ circulating \in [ShareDenoms -> Nat]
    /\ marketBalance \in [Markets -> Int] /\ closed \subseteq Markets
    /\ marketOps \in Nat

(* The coins of the module's account are the balances of the funds and the
   vouchers, whichever transfers the bank refused. *)
FundsBacked ==
    module = SumFunction([m \in Markets |-> funds[m].balance])
             + VoucherReserved(vouchers, Quote)

(* A fund's total of shares is the supply of its denom, also across its fresh
   starts and while shares of its past wait for redemption. *)
TotalIsSupply ==
    \A m \in Markets : HasInsuranceFund(m) =>
        funds[m].total = locked[funds[m].denom] + circulating[funds[m].denom]

(* The shares of a denom that the redemptions of S are about. *)
Pledged(S, d) == SumFunction([s \in {x \in S : x.denom = d} |-> s.amount])

(* Every share is accounted for: funds record the supply, and the module holds
   the protocol's shares and those that wait for redemption, neither more nor
   fewer, however requests are batched and funds start anew. *)
SharesAccounted ==
    /\ TotalIsSupply
    /\ \A d \in ShareDenoms :
        locked[d] = (IF d < nextShareDenom THEN ProtocolSupply ELSE 0)
                        + Pledged(schedules \cup failed, d)

Draws == \E m \in Markets : marketBalance'[m] > marketBalance[m]

(* The balance per share of no fund falls. *)
KeepsValue ==
    \A m \in Markets : funds'[m].denom = funds[m].denom =>
        funds'[m].balance * funds[m].total >= funds[m].balance * funds'[m].total

(* Buying and redeeming shares never takes from the other holders: the fund's
   balance per share does not fall, whatever is rounded, unless the exchange
   draws on the fund or it starts anew. *)
NoDilution == [][~Draws => KeepsValue]_vars

(* Redemptions leave in the fund what its market owes: a negative market
   balance, which solvency checks allowed because of the fund, stays covered. *)
DebtsCovered ==
    \A m \in Markets : funds[m].balance * DecScale + marketBalance[m] >= 0

(* A redemption that was requested is settled in the end, and none is set
   aside as failed because its shares could not be burned. *)
RedemptionsComplete ==
    \A id \in 1..MaxSchedules :
        (\E s \in schedules : s.id = id) ~> ~(\E s \in schedules \cup failed : s.id = id)
=============================================================================
