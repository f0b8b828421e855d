---------------------------- MODULE ExchangeSpot ----------------------------
(***************************************************************************)
(* One spot market of the exchange module: subaccount deposits, the limit  *)
(* and market orders that hold them, the two matching stages of the        *)
(* EndBlocker and the market parameter update that follows them.           *)
(*                                                                         *)
(* Amounts are integers.  Coin[d] units make one coin of denom d: a bank   *)
(* balance is a whole number of coins, a deposit need not be.  Fee rates   *)
(* and the relayer's share are in tenths.                                  *)
(***************************************************************************)
EXTENDS SpotMatching

CONSTANTS
    Traders,       \* the subaccounts that place orders
    Default,       \* those of them that are default subaccounts
    Relayer,       \* the fee recipient's subaccount, a default one
    Auction,       \* AuctionSubaccountID
    Coin,          \* units per coin of each denom
    Prices,        \* the prices orders are placed at
    Quantities,    \* the quantities of orders
    Kinds,         \* the order types: "limit", "postOnly", "market", "atomic"
    InitFunds,     \* units each trader starts with, per denom
    Rates,         \* the <<maker, taker>> fee rates governance may set
    RelayerShare,  \* RelayerFeeShareRate, in tenths
    AtomicMultiplier,  \* what an atomic order's taker fee is multiplied with
    MaxOrders,     \* bound: orders ever placed
    MaxUpdates,    \* bound: parameter updates and deposits or withdrawals
    MarketPanics,  \* which panics of a market order goroutine may happen
    LimitPanics    \* whether a limit order goroutine may panic

Denoms == {"base", "quote"}
Subs == Traders \cup {Relayer, Auction}
BankBacked == Default \cup {Relayer}
Hashes == 1 .. MaxOrders

\* ValidateMakerWithTakerFee with a minimal protocol fee of zero.
ValidRates(r) ==
    /\ r[1] <= r[2]
    /\ IF r[1] >= 0 THEN (r[1] + r[2]) * (10 - RelayerShare) >= 0
       ELSE r[2] * (10 - RelayerShare) + 10 * r[1] >= 0

ASSUME FeesValid == \A r \in Rates : ValidRates(r)
ASSUME ConstantsValid ==
    /\ Default \subseteq Traders
    /\ {Relayer, Auction} \cap Traders = {}
    /\ MarketPanics \subseteq {"alone", "beside"}
    /\ LimitPanics \in BOOLEAN
    /\ Kinds \subseteq {"limit", "postOnly", "market", "atomic"}
    /\ AtomicMultiplier \in Nat \ {0}

VARIABLES
    funds,   \* bank balances of accounts, the module's balance, deposits
    orders,  \* resting orders and the orders of the transient store
    levels,  \* the stored aggregate quantity of each price level
    rates,   \* <<MakerFeeRate, TakerFeeRate>>
    status,  \* the market's status
    stage,   \* where the block is: transactions, then the EndBlocker's stages
    placed,  \* orders placed so far
    updates  \* parameter updates and transfers so far

vars == <<funds, orders, levels, rates, status, stage, placed, updates>>

Maker == rates[1]
Taker == rates[2]
MakerHold == Max({Maker, 0})

-----------------------------------------------------------------------------
\* Subaccount deposits.

Truncate(x, d) == (x \div Coin[d]) * Coin[d]
Ceil(x, d) == -Truncate(-x, d)

\* ChargeBank: amount moves from the account's bank balance to the module's.
BankToModule(f, s, d, x) ==
    [f EXCEPT !.bank[s][d] = @ - x, !.module[d] = @ + x]

\* SetDepositOrSendToBank, with isPreventingBankCharge false.
SetDepositOrSendToBank(f, s, d, x) ==
    LET sent == Min({Truncate(x.avail, d), Max({Truncate(x.total, d), 0})})
        owed == Ceil(-Min({x.avail, x.total}), d)
    IN  CASE /\ Truncate(x.avail, d) > 0
             /\ s \in BankBacked
             /\ f.module[d] >= sent ->
               [BankToModule(f, s, d, -sent) EXCEPT
                  !.dep[s][d] = [avail |-> x.avail - sent, total |-> x.total - sent]]
          [] /\ Truncate(x.avail, d) <= 0
             /\ x.avail < 0 \/ x.total < 0
             /\ s \in BankBacked
             /\ f.bank[s][d] >= owed ->
               [BankToModule(f, s, d, owed) EXCEPT
                  !.dep[s][d] = [avail |-> x.avail + owed, total |-> x.total + owed]]
          [] OTHER -> [f EXCEPT !.dep[s][d] = x]

\* UpdateDepositWithDelta; IncrementAvailableBalanceOrBank is total = 0.
UpdateDeposit(f, s, d, avail, total) ==
    IF avail = 0 /\ total = 0 THEN f
    ELSE SetDepositOrSendToBank(f, s, d, [avail |-> f.dep[s][d].avail + avail,
                                          total |-> f.dep[s][d].total + total])

\* ChargeAccount succeeds: a default subaccount pays from the bank, rounded
\* up to whole coins, another one from its available balance.
CanCharge(f, s, d, x) ==
    x = 0 \/ IF s \in BankBacked THEN f.bank[s][d] >= Ceil(x, d)
             ELSE f.dep[s][d].avail >= x

\* HasSufficientFunds, asked before an extra fee is charged.
HasSufficientFunds(f, s, d, x) ==
    IF s \in BankBacked THEN f.bank[s][d] >= Ceil(x, d)
    ELSE f.dep[s][d].avail >= x /\ f.dep[s][d].total >= x

ChargeAccount(f, s, d, x) ==
    CASE x = 0 -> f
      [] x # 0 /\ s \in BankBacked ->
           UpdateDeposit(BankToModule(f, s, d, Ceil(x, d)), s, d,
                         Ceil(x, d) - x, Ceil(x, d))
      [] OTHER -> [f EXCEPT !.dep[s][d].avail = @ - x]

-----------------------------------------------------------------------------
\* Orders.

Limits == {o \in orders : o.place # "market"}
Resting(isBuy) == {o \in orders : o.place = "resting" /\ o.buy = isBuy}
Transient(isBuy) == {o \in orders : o.place = "transient" /\ o.buy = isBuy}
Queued(isBuy) == {o \in orders : o.place = "market" /\ o.buy = isBuy}

HoldDenom(o) == IF o.buy THEN "quote" ELSE "base"

\* GetBalanceHoldAndMarginDenom of a new limit order and
\* GetUnfilledMarginHoldAndMarginDenom of an existing one: a buy holds its
\* notional and a fee, the taker's until it rests; a market order holds what
\* was computed when it was queued.
Hold(o) ==
    CASE o.place = "market" -> o.hold
      [] ~o.buy             -> o.fillable
      [] OTHER              ->
           o.fillable * o.price
             + (o.fillable * o.price * (IF o.place = "resting" THEN MakerHold ELSE Taker)) \div 10

\* The stored price level quantities after the resting orders change by S.
AddLevels(lv, S) ==
    [b \in BOOLEAN |-> [p \in Prices |->
        lv[b][p] + MapThenSumSet(LAMBDA e : e.qty, {e \in S : e.buy = b /\ e.price = p})]]

LevelEntry(o, q) == [hash |-> o.hash, buy |-> o.buy, price |-> o.price, qty |-> q]

NoLevels == [b \in BOOLEAN |-> [p \in Prices |-> 0]]

Init ==
    /\ funds = [bank   |-> [s \in Subs |-> [d \in Denoms |->
                              IF s \in Default THEN InitFunds[s][d] ELSE 0]],
                module |-> [d \in Denoms |->
                              MapThenSumSet(LAMBDA s : InitFunds[s][d], Traders \ Default)],
                dep    |-> [s \in Subs |-> [d \in Denoms |->
                              LET x == IF s \in Traders \ Default THEN InitFunds[s][d] ELSE 0
                              IN  [avail |-> x, total |-> x]]]]
    /\ orders = {}
    /\ levels = NoLevels
    /\ rates \in Rates
    /\ status = "active"
    /\ stage = "txs"
    /\ placed = 0
    /\ updates = 0

\* SpotOrderCrossesTopOfBook: a post-only order may not meet the resting book.
CrossesTopOfBook(isBuy, p) ==
    \E o \in Resting(~isBuy) : IF isBuy THEN p >= o.price ELSE p <= o.price

\* CreateSpotLimitOrder: a post-only order is stored as a resting one and
\* counted in its price level, another one waits in the transient store.
CreateSpotLimitOrder(s, isBuy, p, q, kind, h) ==
    LET o == [hash |-> h, sub |-> s, buy |-> isBuy, price |-> p, fillable |-> q,
              place |-> IF kind = "postOnly" THEN "resting" ELSE "transient", hold |-> 0]
    IN  /\ stage = "txs" /\ status = "active" /\ placed < MaxOrders
        /\ kind = "postOnly" => ~CrossesTopOfBook(isBuy, p)
        /\ CanCharge(funds, s, HoldDenom(o), Hold(o))
        /\ funds' = ChargeAccount(funds, s, HoldDenom(o), Hold(o))
        /\ orders' = orders \cup {o}
        /\ levels' = IF kind = "postOnly" THEN AddLevels(levels, {LevelEntry(o, q)}) ELSE levels
        /\ placed' = placed + 1
        /\ UNCHANGED <<rates, status, stage, updates>>

\* GetMarketOrderBalanceHold: a buy holds for the worse of its worst price and
\* the best resting price.
MarketOrderHold(isBuy, p, q, best, rate) ==
    IF isBuy THEN q * Max({p, best}) + (q * Max({p, best}) * rate) \div 10 ELSE q

\* createSpotMarketOrderWithResultsForAtomicExecution, up to the reservation:
\* refused without liquidity, or when the best resting price is already worse
\* than the order's worst price.
MarketOrder(s, isBuy, p, q, h, rate) ==
    [hash |-> h, sub |-> s, buy |-> isBuy, price |-> p, fillable |-> q, place |-> "market",
     hold |-> MarketOrderHold(isBuy, p, q, BestPrice(Resting(~isBuy)), rate)]

CanPlaceMarketOrder(o) ==
    /\ stage = "txs" /\ status = "active" /\ placed < MaxOrders
    /\ Resting(~o.buy) # {}
    /\ IF o.buy THEN o.price >= BestPrice(Resting(FALSE)) ELSE o.price <= BestPrice(Resting(TRUE))
    /\ CanCharge(funds, o.sub, HoldDenom(o), o.hold)

\* A market order that waits for the end of the block.
CreateSpotMarketOrder(s, isBuy, p, q, h) ==
    LET o == MarketOrder(s, isBuy, p, q, h, Taker)
    IN  /\ CanPlaceMarketOrder(o)
        /\ funds' = ChargeAccount(funds, s, HoldDenom(o), o.hold)
        /\ orders' = orders \cup {o}
        /\ placed' = placed + 1
        /\ UNCHANGED <<levels, rates, status, stage, updates>>

\* IncrementAvailableBalanceOrBank with an order's hold.
Refund(f, o) == UpdateDeposit(f, o.sub, HoldDenom(o), Hold(o), 0)

RefundAll(f, S) == FoldSet(LAMBDA o, g : Refund(g, o), f, S)

\* CancelSpotLimitOrder and CancelTransientSpotLimitOrder.
CancelSpotLimitOrder(o) ==
    /\ stage = "txs"
    /\ o.place # "market"
    /\ funds' = Refund(funds, o)
    /\ orders' = orders \ {o}
    /\ levels' = IF o.place = "resting" THEN AddLevels(levels, {LevelEntry(o, -o.fillable)})
                 ELSE levels
    /\ UNCHANGED <<rates, status, stage, placed, updates>>

\* ExecuteDeposit: whole coins, for a subaccount that is not a default one, be
\* it the sender's own or somebody else's.
ExecuteDeposit(sender, s, d) ==
    /\ stage = "txs" /\ updates < MaxUpdates
    /\ s \notin Default
    /\ funds.bank[sender][d] >= Coin[d]
    /\ funds' = [BankToModule(funds, sender, d, Coin[d]) EXCEPT
                   !.dep[s][d] = [avail |-> @.avail + Coin[d], total |-> @.total + Coin[d]]]
    /\ updates' = updates + 1
    /\ UNCHANGED <<orders, levels, rates, status, stage, placed>>

\* ExecuteWithdraw and DecrementDeposit.
ExecuteWithdraw(s, d) ==
    /\ stage = "txs" /\ updates < MaxUpdates
    /\ funds.dep[s][d].avail >= Coin[d]
    /\ funds.dep[s][d].total >= Coin[d]
    /\ funds.module[d] >= Coin[d]
    /\ funds' = [BankToModule(funds, s, d, -Coin[d]) EXCEPT
                   !.dep[s][d] = [avail |-> @.avail - Coin[d], total |-> @.total - Coin[d]]]
    /\ updates' = updates + 1
    /\ UNCHANGED <<orders, levels, rates, status, stage, placed>>

-----------------------------------------------------------------------------
\* Settlement.

Abs(x) == IF x < 0 THEN -x ELSE x

\* A mutant: the relayer's reward is not taken out of a maker's rebate.
FullRebate(notional, rate) ==
    LET total == (notional * rate) \div 10
        reward == Abs((RelayerShare * total) \div 10)
    IN  [total   |-> total,
         trader  |-> total,
         relayer |-> reward,
         auction |-> IF total < 0 THEN total ELSE total - reward]

\* GetOrderFillFeeInfo.  A negative fee is paid out of the auction's income.
FillFee(notional, rate) ==
    LET total == (notional * rate) \div 10
        reward == Abs((RelayerShare * total) \div 10)
    IN  [total   |-> total,
         trader  |-> IF total < 0 THEN total + reward ELSE total,
         relayer |-> reward,
         auction |-> IF total < 0 THEN total ELSE total - reward]

\* A SpotOrderStateExpansion: what one order changes, and gives back from its
\* hold, in each denom, and the fees that go to the relayer and the auction.
Expansion(o, base, baseRefund, quote, quoteRefund, fee) ==
    [hash |-> o.hash, sub |-> o.sub,
     change |-> [base |-> base, quote |-> quote],
     refund |-> [base |-> baseRefund, quote |-> quoteRefund],
     relayer |-> fee.relayer, auction |-> fee.auction]

\* getRestingSpotLimitBuyStateExpansion and, for a sell,
\* getSpotLimitSellStateExpansion with isMaker.
RestingExpansion(o, fill, p) ==
    LET fee == FillFee(fill * p, Maker)
        better == fill * (o.price - p)
    IN  IF o.buy
        THEN Expansion(o, fill, 0,
                       -(fill * p) - (IF fee.total < 0 THEN fee.trader ELSE fee.total),
                       (IF fee.total < 0 THEN Abs(fee.trader) ELSE 0)
                         + better + (better * MakerHold) \div 10,
                       fee)
        ELSE Expansion(o, -fill, 0, fill * p - fee.trader, 0, fee)

\* getTransientSpotLimitBuyStateExpansion: a price better than the order's is
\* refunded with its fee; the unfilled part will rest, with the maker's fee.
TransientExpansion(o, fill, p) ==
    LET fee == FillFee(fill * p, Taker)
        better == IF fill = 0 THEN 0 ELSE fill * (o.price - p)
        unmatched == ((o.fillable - fill) * o.price * (Taker - MakerHold)) \div 10
    IN  IF o.buy
        THEN Expansion(o, fill, 0, -(fill * p) - fee.total,
                       better + (better * Taker) \div 10 + unmatched, fee)
        ELSE Expansion(o, -fill, 0, fill * p - fee.trader, 0, fee)

\* getSpotMarketOrderStateExpansion: whatever is left of the hold is refunded.
MarketExpansion(o, fill, p, rate) ==
    LET fee == FillFee(fill * p, rate)
        paid == fill * p + fee.total
    IN  IF o.buy
        THEN Expansion(o, fill, 0, -paid, o.hold - paid, fee)
        ELSE Expansion(o, -fill, o.fillable - fill, fill * p - fee.total, 0, fee)

\* UpdateFromDepositDeltas, merged over the expansions E of one execution.
\* An increase is available at once; a decrease was held.
AvailDelta(E, s, d) ==
    MapThenSumSet(LAMBDA e : e.refund[d] + Max({e.change[d], 0}), {e \in E : e.sub = s})
FeeDelta(E, s, d) ==
    CASE d = "quote" /\ s = Relayer -> MapThenSumSet(LAMBDA e : e.relayer, E)
      [] d = "quote" /\ s = Auction -> MapThenSumSet(LAMBDA e : e.auction, E)
      [] OTHER                      -> 0
TotalDelta(E, s, d) ==
    MapThenSumSet(LAMBDA e : e.change[d], {e \in E : e.sub = s})

\* The deposit updates of one execution: base denom first, then quote.
Settle(f, E) ==
    FoldLeft(LAMBDA g, d :
               FoldSet(LAMBDA s, h : UpdateDeposit(h, s, d, AvailDelta(E, s, d) + FeeDelta(E, s, d),
                                                   TotalDelta(E, s, d) + FeeDelta(E, s, d)),
                       g, Subs),
             f, <<"base", "quote">>)

-----------------------------------------------------------------------------
\* Stage 1 and 2 of the EndBlocker: market orders meet the resting book.

\* SpotMarketOrderExecutor for the market orders Q of one direction.
MarketMatch(Q, isBuy) ==
    IF isBuy THEN Match(Q, Resting(FALSE)) ELSE Match(Resting(TRUE), Q)

\* The clearing price of market orders: the average price of the resting
\* orders they consumed.
MarketClearingPrice(Q, isBuy) ==
    LET fill == MarketMatch(Q, isBuy).fill
        quantity == Filled(Resting(~isBuy), fill)
    IN  IF quantity = 0 THEN 0
        ELSE MapThenSumSet(LAMBDA o : fill[o.hash] * o.price, Resting(~isBuy)) \div quantity

MarketExpansions(Q, isBuy, rate) ==
    LET fill == MarketMatch(Q, isBuy).fill
        p == MarketClearingPrice(Q, isBuy)
    IN  {RestingExpansion(o, fill[o.hash], o.price) : o \in Resting(~isBuy)}
          \cup {MarketExpansion(o, fill[o.hash], p, rate) : o \in Q}

\* UpdateSpotLimitOrder for the resting orders S, with the fills of a match.
AfterFills(S, fill) ==
    {[o EXCEPT !.fillable = @ - fill[o.hash], !.place = "resting"] :
        o \in {x \in S : x.fillable > fill[x.hash]}}

\* A mutant: fills do not reach the stored price levels.
FillsNotCounted(S, fill) == {}

FilledLevels(S, fill) == {LevelEntry(o, -fill[o.hash]) : o \in S}

\* ExecuteAtomicSpotMarketOrder: the order is matched alone, against the
\* resting book of the moment, at a higher fee; what is left is refunded.
CreateAtomicOrder(s, isBuy, p, q, h) ==
    LET o == MarketOrder(s, isBuy, p, q, h, Taker * AtomicMultiplier)
        fill == MarketMatch({o}, isBuy).fill
    IN  /\ CanPlaceMarketOrder(o)
        /\ funds' = Settle(ChargeAccount(funds, s, HoldDenom(o), o.hold),
                           MarketExpansions({o}, isBuy, Taker * AtomicMultiplier))
        /\ orders' = (orders \ Resting(~isBuy)) \cup AfterFills(Resting(~isBuy), fill)
        /\ levels' = AddLevels(levels, FilledLevels(Resting(~isBuy), fill))
        /\ placed' = placed + 1
        /\ UNCHANGED <<rates, status, stage, updates>>

\* Which of the goroutines of the directions that have orders may panic: all
\* of them ("alone") or one beside the other's success ("beside").
PanicAllowed(panicked, directions) ==
    \/ panicked = {}
    \/ panicked = directions /\ "alone" \in MarketPanics
    \/ panicked # directions /\ "beside" \in MarketPanics

\* cleanupTransientSpotMarketOrders: the orders refunded after a panic are the
\* queued ones of both directions; those that were executed are still queued.
RefundedAfter(panicked) ==
    IF panicked = {} THEN {} ELSE Queued(TRUE) \cup Queued(FALSE)

\* ExecuteMarketOrders, PersistSpotMarketOrderExecution (sells first, the
\* order of the indicators) and the cleanup.  The transient store is empty of
\* market orders in the next block and nothing reads them in between.
MarketStage(panicked) ==
    LET directions == {b \in BOOLEAN : Queued(b) # {}}
        done == directions \ panicked
        settled == FoldLeft(LAMBDA f, b : IF b \in done THEN Settle(f, MarketExpansions(Queued(b), b, Taker)) ELSE f,
                            funds, <<FALSE, TRUE>>)
        hit(b) == IF (~b) \in done THEN MarketMatch(Queued(~b), ~b).fill ELSE [h \in Hashes |-> 0]
    IN  /\ stage = "txs"
        /\ panicked \subseteq directions
        /\ PanicAllowed(panicked, directions)
        /\ funds' = RefundAll(settled, RefundedAfter(panicked))
        /\ orders' = {o \in orders : o.place = "transient"}
                       \cup UNION {AfterFills(Resting(b), hit(b)) : b \in BOOLEAN}
        /\ levels' = AddLevels(levels, UNION {FilledLevels(Resting(b), hit(b)) : b \in BOOLEAN})
        /\ stage' = "limits"
        /\ UNCHANGED <<rates, status, placed, updates>>

-----------------------------------------------------------------------------
\* Stage 3 and 4 of the EndBlocker: the batch auction of limit orders.

LimitMatch ==
    Match(Resting(TRUE) \cup Transient(TRUE), Resting(FALSE) \cup Transient(FALSE))

LimitClearingPrice ==
    LET m == LimitMatch
    IN  IF m.lastBuy = 0 THEN 0
        ELSE ClearingPrice(m.lastBuy, m.lastSell,
                           MidPriceOrBestPrice(Resting(TRUE), Resting(FALSE)))

LimitExpansions ==
    LET fill == LimitMatch.fill
        p == LimitClearingPrice
    IN  {RestingExpansion(o, fill[o.hash], p) :
            o \in {x \in Limits : x.place = "resting" /\ fill[x.hash] > 0}}
          \cup {TransientExpansion(o, fill[o.hash], p) : o \in {x \in Limits : x.place = "transient"}}

\* SpotBatchAuctionExecutor and PersistSpotMatchingExecution: everyone trades
\* at the clearing price and what is left of a transient order rests.
LimitStage ==
    LET fill == LimitMatch.fill
        resting == {o \in Limits : o.place = "resting"}
        new == AfterFills(Limits \ resting, fill)
    IN  /\ stage = "limits"
        /\ funds' = Settle(funds, LimitExpansions)
        /\ orders' = AfterFills(Limits, fill)
        /\ levels' = AddLevels(levels, FilledLevels(resting, fill)
                                         \cup {LevelEntry(o, o.fillable) : o \in new})
        /\ stage' = "params"
        /\ UNCHANGED <<rates, status, placed, updates>>

\* cleanupPanickedSpotLimitOrders: after a recovered panic no order is
\* matched and the transient ones are cancelled.
LimitStagePanics ==
    /\ stage = "limits" /\ LimitPanics
    /\ Transient(TRUE) \cup Transient(FALSE) # {}
    /\ funds' = RefundAll(funds, Transient(TRUE) \cup Transient(FALSE))
    /\ orders' = orders \ (Transient(TRUE) \cup Transient(FALSE))
    /\ stage' = "params"
    /\ UNCHANGED <<levels, rates, status, placed, updates>>

-----------------------------------------------------------------------------
\* Stage 6: the parameter update a passed proposal scheduled.

\* A mutant: an order that cannot pay the higher fee stays, with its old hold.
KeepsUnpaid(g, o, new) ==
    LET extra == (Min({new, new - Maker}) * o.fillable * o.price) \div 10
    IN  IF new <= 0 \/ ~CanCharge(g.funds, o.sub, "quote", extra) THEN g
        ELSE [g EXCEPT !.funds = ChargeAccount(@, o.sub, "quote", extra)]

\* handleSpotMakerFeeDecrease and handleSpotMakerFeeIncrease for one resting
\* buy order; g is the progress through the buy side.
FeeDecrease(g, o, new) ==
    LET refund == (Min({Maker, Maker - new}) * o.fillable * o.price) \div 10
    IN  IF Maker <= 0 THEN g
        ELSE [g EXCEPT !.funds = UpdateDeposit(@, o.sub, "quote", refund, 0)]

FeeIncrease(g, o, new) ==
    LET extra == (Min({new, new - Maker}) * o.fillable * o.price) \div 10
    IN  CASE new <= 0 -> g
          [] /\ new > 0
             /\ HasSufficientFunds(g.funds, o.sub, "quote", extra)
             /\ CanCharge(g.funds, o.sub, "quote", extra) ->
               [g EXCEPT !.funds = ChargeAccount(@, o.sub, "quote", extra)]
          [] OTHER -> [funds |-> Refund(g.funds, o), gone |-> g.gone \cup {o}]

\* ExecuteSpotMarketParamUpdateProposal: a demolished market first cancels all
\* resting orders; then the buy side pays or gets back the fee difference, an
\* order that cannot pay being cancelled.
ParamUpdate(r, st) ==
    LET resting == Resting(TRUE) \cup Resting(FALSE)
        start == IF st = "demolished"
                 THEN [funds |-> RefundAll(funds, resting), gone |-> resting]
                 ELSE [funds |-> funds, gone |-> {}]
        end == FoldLeft(LAMBDA g, o : CASE r[1] < Maker -> FeeDecrease(g, o, r[1])
                                        [] r[1] > Maker -> FeeIncrease(g, o, r[1])
                                        [] OTHER -> g,
                        start, Book(Resting(TRUE) \ start.gone))
    IN  /\ stage = "params" /\ updates < MaxUpdates
        /\ funds' = end.funds
        /\ orders' = orders \ end.gone
        /\ levels' = AddLevels(levels, {LevelEntry(o, -o.fillable) : o \in end.gone})
        /\ rates' = r
        /\ status' = st
        /\ stage' = "txs"
        /\ updates' = updates + 1
        /\ UNCHANGED placed

\* No proposal is scheduled: the block ends.
NextBlock ==
    /\ stage = "params"
    /\ stage' = "txs"
    /\ UNCHANGED <<funds, orders, levels, rates, status, placed, updates>>

Next ==
    \/ \E s \in Traders, isBuy \in BOOLEAN, p \in Prices, q \in Quantities,
          h \in Hashes \ {o.hash : o \in orders} :
         \/ \E kind \in Kinds \cap {"limit", "postOnly"} : CreateSpotLimitOrder(s, isBuy, p, q, kind, h)
         \/ "market" \in Kinds /\ CreateSpotMarketOrder(s, isBuy, p, q, h)
         \/ "atomic" \in Kinds /\ CreateAtomicOrder(s, isBuy, p, q, h)
    \/ \E o \in orders : CancelSpotLimitOrder(o)
    \/ \E sender, s \in Traders, d \in Denoms : ExecuteDeposit(sender, s, d)
    \/ \E s \in Traders, d \in Denoms : ExecuteWithdraw(s, d)
    \/ \E panicked \in SUBSET BOOLEAN : MarketStage(panicked)
    \/ LimitStage
    \/ LimitStagePanics
    \/ \E r \in Rates, st \in {"active", "paused", "demolished"} : ParamUpdate(r, st)
    \/ NextBlock

Spec == Init /\ [][Next]_vars

-----------------------------------------------------------------------------
\* Every variable keeps its type: orders carry distinct hashes, a bank balance
\* is a whole, nonnegative number of coins, and outside the transaction stage
\* no market order is left in the store (abci.go, stages 1 to 6).
TypeOK ==
    /\ \A s \in Subs, d \in Denoms :
         /\ funds.bank[s][d] >= 0
         /\ funds.bank[s][d] % Coin[d] = 0
         /\ funds.dep[s][d].avail \in Int /\ funds.dep[s][d].total \in Int
    /\ \A d \in Denoms : funds.module[d] \in Int
    /\ \A o \in orders :
         /\ o.hash \in Hashes /\ o.sub \in Traders /\ o.buy \in BOOLEAN
         /\ o.price \in Prices /\ o.fillable \in 1 .. Max(Quantities)
         /\ o.place \in CASE stage = "txs" -> {"resting", "transient", "market"}
                          [] stage = "limits" -> {"resting", "transient"}
                          [] stage = "params" -> {"resting"}
    /\ \A a, b \in orders : a.hash = b.hash => a = b
    /\ rates \in Rates
    /\ status \in {"active", "paused", "demolished"}

\* What a subaccount cannot use is exactly what its open orders hold, through
\* rounding to coins, fills at better prices, partial fills, fee changes,
\* cancellations and recovered panics (subaccount keeper, order_matching.go,
\* param_update.go).
HoldsMatchOrders ==
    \A s \in Subs, d \in Denoms :
        funds.dep[s][d].total - funds.dep[s][d].avail =
          MapThenSumSet(Hold, {o \in orders : o.sub = s /\ HoldDenom(o) = d})

\* Every deposit can be paid.  The module's bank balance is the sum of the
\* total deposits: no trade, fee split or rebate creates or loses funds
\* (UpdateFromDepositDeltas, GetOrderFillFeeInfo, SetDepositOrSendToBank).  And
\* none of them is a debt: not a trader's, and not that of the auction
\* subaccount, which pays makers their rebate out of takers' fees.  A default
\* subaccount keeps less than one coin outside the bank.
DepositsBacked ==
    /\ \A d \in Denoms :
         funds.module[d] = MapThenSumSet(LAMBDA s : funds.dep[s][d].total, Subs)
    /\ \A s \in Subs, d \in Denoms :
         /\ funds.dep[s][d].avail >= 0
         /\ s \in BankBacked => funds.dep[s][d].avail < Coin[d]

\* No resting buy meets a resting sell, whatever mixture of post-only orders,
\* auctions, panics and cancellations built the book: so a maker never trades
\* with a maker (CreateSpotLimitOrder, Match).
BookNotCrossed ==
    \A b \in Resting(TRUE), s \in Resting(FALSE) : b.price < s.price

\* The stored quantity of each price level is the sum of what its resting
\* orders have left (Increment- and DecrementOrderbookPriceLevelQuantity), and
\* the orders and everything else have their type.
LevelsMatchBook ==
    /\ TypeOK
    /\ \A b \in BOOLEAN, p \in Prices :
        levels[b][p] = MapThenSumSet(LAMBDA o : o.fillable, {o \in Resting(b) : o.price = p})

\* The auction of limit orders trades as much as any single price allows, at
\* a price no filled order finds worse than its own, and leaves no unfilled
\* order behind one with a worse price (fba/executor.go, clearing_price.go).
AuctionIsOptimal ==
    stage = "limits" =>
        LET buys == Resting(TRUE) \cup Transient(TRUE)
            sells == Resting(FALSE) \cup Transient(FALSE)
            fill == LimitMatch.fill
            p == LimitClearingPrice
        IN  /\ Filled(buys, fill) = MaxVolume(buys, sells)
            /\ Filled(sells, fill) = Filled(buys, fill)
            /\ \A o \in buys : fill[o.hash] > 0 => p <= o.price
            /\ \A o \in sells : fill[o.hash] > 0 => p >= o.price
            /\ \A o, x \in buys : fill[o.hash] < o.fillable /\ x.price < o.price => fill[x.hash] = 0
            /\ \A o, x \in sells : fill[o.hash] < o.fillable /\ x.price > o.price => fill[x.hash] = 0

\* Market orders of one direction all pay the average of the resting prices
\* they consumed together; for none of them is it worse than its worst price,
\* and what it pays is covered by its hold (spot_market_order_executor.go).
WorstPriceKept ==
    stage = "txs" =>
        \A isBuy \in BOOLEAN : \A o \in Queued(isBuy) :
            LET q == MarketMatch(Queued(isBuy), isBuy).fill[o.hash]
                p == MarketClearingPrice(Queued(isBuy), isBuy)
            IN  q > 0 => IF isBuy THEN p <= o.price /\ q * p + FillFee(q * p, Taker).total <= o.hold
                         ELSE p >= o.price

\* "AvailableBalance should never be GT TotalBalance" (SetDepositOrSendToBank).
AvailableWithinTotal ==
    \A s \in Subs, d \in Denoms : funds.dep[s][d].avail <= funds.dep[s][d].total
=============================================================================
