-------------------------- MODULE DerivativeMarket --------------------------
(***************************************************************************)
(* A perpetual derivative market with isolated margin: positions opened,   *)
(* netted and flipped by fills, funding, liquidation with its draws on the *)
(* insurance fund, and the settlement of a paused market, which socializes *)
(* the losses that the fund cannot pay                                     *)
(* (exchange/keeper/derivative, derivative_liquidations.go and             *)
(* exchange/types/v2/position.go).                                         *)
(*                                                                         *)
(* Decimals are whole multiples of 1/Unit (10^-18 in the code) and round   *)
(* as cosmossdk.io/math does.  The market trades without fees, its quote   *)
(* has no decimals, and traders use subaccounts other than the default     *)
(* one and trade whole units, so that a deposit stands for its available   *)
(* and its total balance.  An order exists only in the fill it takes part  *)
(* in.  Orders are matched one buy against one sell.                       *)
(***************************************************************************)
EXTENDS Integers, FiniteSets, FiniteSetsExt

CONSTANTS
    Traders, Liquidator,
    Unit,                       \* one, as a decimal
    Quantities, Prices,         \* of fills
    Leverages,                  \* notional per margin of a vanilla order
    SettlementPrices,           \* of forced settlements
    FundingSteps,               \* changes of the cumulative funding
    InitialMarginRatio, MaintenanceMarginRatio, LiquidatorRewardShareRate,
    Deposit, FundBalances,      \* of each trader, of the insurance fund at first
    MaxFills, MaxMoves          \* bounds

ASSUME MarketAssumption ==
    /\ Liquidator \notin Traders
    /\ Unit \in Nat \ {0}
    /\ Quantities \subseteq Nat \ {0} /\ Prices \subseteq Nat \ {0}
    /\ SettlementPrices \subseteq Nat
    /\ Leverages \subseteq Nat \ {0} /\ FundingSteps \subseteq Int
    /\ InitialMarginRatio \in 1..(Unit - 1)
    /\ MaintenanceMarginRatio \in 1..(InitialMarginRatio - 1)
    /\ LiquidatorRewardShareRate \in 0..Unit
    /\ Deposit \in Nat /\ FundBalances \subseteq Nat
    /\ MaxFills \in Nat /\ MaxMoves \in Nat

VARIABLES
    positions,      \* of the traders
    deposits,       \* of the traders and the liquidator
    marketBalance,
    fund,           \* coins of the insurance fund
    funding,        \* cumulative funding of the market
    mark,           \* oracle price
    status,         \* "Active", "Paused", "Demolished"
    settlement,     \* NoSettlement or the scheduled one: its price, forced or not
    fills, moves

vars == <<positions, deposits, marketBalance, fund, funding, mark, status,
          settlement, fills, moves>>

-----------------------------------------------------------------------------
(* Decimals *)

(* To the nearest, ties to even. *)
HalfEven(n, d) ==
    LET floor == n \div d
        twice == 2 * (n % d)
    IN  IF twice < d \/ (twice = d /\ floor % 2 = 0) THEN floor ELSE floor + 1

Mul(x, y) == HalfEven(x * y, Unit)

Truncated(n, d) == IF n >= 0 THEN n \div d ELSE -((-n) \div d)

Quo(x, y) ==
    HalfEven(IF y > 0 THEN Truncated(x * Unit * Unit, y)
                      ELSE Truncated(-x * Unit * Unit, -y), Unit)

TruncateInt(x) == Truncated(x, Unit)
CeilInt(x) == -((-x) \div Unit)
Least(x, y) == IF x < y THEN x ELSE y
Greatest(x, y) == IF x < y THEN y ELSE x

Total(S, f(_)) == MapThenSumSet(f, S)

-----------------------------------------------------------------------------
(* Positions *)

NoPosition == [long |-> FALSE, quantity |-> 0, entry |-> 0, margin |-> 0, funding |-> 0]
Open(t) == positions[t].quantity > 0
NoSettlement == [price |-> -1, forced |-> FALSE]

(* SavePosition deletes a position without quantity. *)
Saved(p) == IF p.quantity = 0 THEN NoPosition ELSE p

Init ==
    /\ positions = [t \in Traders |-> NoPosition]
    /\ deposits = [t \in Traders \cup {Liquidator} |-> IF t = Liquidator THEN 0 ELSE Deposit]
    /\ marketBalance = 0
    /\ fund \in FundBalances
    /\ funding = 0
    /\ mark \in Prices
    /\ status = "Active" /\ settlement = NoSettlement
    /\ fills = 0 /\ moves = 0

(* A position before it is used: longs pay the funding since its last use. *)
ApplyFunding(p) ==
    LET payment == Mul(p.quantity, funding - p.funding)
    IN  [p EXCEPT !.margin = IF p.long THEN @ - payment ELSE @ + payment,
                  !.funding = funding]

GetPayoutFromPnl(p, price, quantity) ==
    IF p.long THEN Mul(quantity, price - p.entry) ELSE -Mul(quantity, price - p.entry)

(* What closing the whole position at a price pays. *)
GetPayoutIfFullyClosing(p, price) == GetPayoutFromPnl(p, price, p.quantity) + p.margin

IsProfitable(p, price) ==
    IF p.long THEN p.entry < price ELSE p.entry > price

GetAverageWeightedEntryPrice(p, quantity, price) ==
    Quo(Mul(p.quantity, p.entry) + Mul(quantity, price), p.quantity + quantity)

NettedInSameDirection(p, long, quantity, margin, price) ==
    [p EXCEPT !.long = long,
              !.entry = GetAverageWeightedEntryPrice(p, quantity, price),
              !.quantity = @ + quantity,
              !.margin = @ + margin]

(* ApplyPositionDelta: opens, extends, reduces, closes or flips. *)
ApplyPositionDelta(p, long, quantity, margin, price) ==
    IF p.quantity = 0 \/ p.long = long
    THEN [position |-> NettedInSameDirection(p, long, quantity, margin, price),
          payout |-> 0, closeMargin |-> 0, collateral |-> margin]
    ELSE LET closing == Least(p.quantity, quantity)
             closeMargin == Quo(Mul(margin, closing), quantity)
             left == IF closing = p.quantity THEN 0
                     ELSE Quo(Mul(p.margin, p.quantity - closing), p.quantity)
             reduced == [p EXCEPT !.quantity = @ - closing, !.margin = left]
             flips == quantity > closing
         IN  [position |-> IF flips
                THEN NettedInSameDirection(reduced, long, quantity - closing,
                                           margin - closeMargin, price)
                ELSE reduced,
              payout |-> GetPayoutFromPnl(p, price, closing) + p.margin - left,
              closeMargin |-> closeMargin,
              collateral |-> IF flips THEN margin - closeMargin ELSE 0]

(* Price at which a position with this much more margin has no equity left. *)
BankruptcyPrice(p, added) ==
    LET unitMargin == Quo(p.margin + added, p.quantity)
    IN  IF p.long THEN p.entry - unitMargin ELSE p.entry + unitMargin

GetLiquidationPrice(p) ==
    LET unitMargin == Quo(p.margin, p.quantity)
    IN  IF p.long THEN Quo(p.entry - unitMargin, Unit - MaintenanceMarginRatio)
                  ELSE Quo(p.entry + unitMargin, Unit + MaintenanceMarginRatio)

-----------------------------------------------------------------------------
(* Orders: [trader, long, quantity, margin, price]; margin 0 is reduce-only *)

Position(o) ==
    IF Open(o.trader) THEN ApplyFunding(positions[o.trader])
    ELSE [NoPosition EXCEPT !.long = o.long, !.funding = funding]

Closes(o) == Open(o.trader) /\ positions[o.trader].long # o.long

ValidReduceOnly(o) == Closes(o) /\ o.quantity <= positions[o.trader].quantity

(* No order closes a position at a price beyond its bankruptcy. *)
CheckValidPositionToReduce(o) ==
    LET p == Position(o)
        added == Quo(Mul(o.margin, Least(o.quantity, p.quantity)), o.quantity)
    IN  IF p.long THEN o.price >= BankruptcyPrice(p, added)
                  ELSE o.price <= BankruptcyPrice(p, added)

CheckInitialMargin(o) ==
    LET notional == Mul(o.price, o.quantity)
    IN  /\ o.margin >= Mul(InitialMarginRatio, notional)
        /\ IF o.long
           THEN mark >= Quo(o.margin - notional, Mul(InitialMarginRatio - Unit, o.quantity))
           ELSE mark <= Quo(o.margin + notional, Mul(InitialMarginRatio + Unit, o.quantity))

(* Mutant of Matchable: the margin is not held in the deposit. *)
MatchableUnheld(o) ==
    /\ IF o.margin = 0 THEN ValidReduceOnly(o) ELSE CheckInitialMargin(o)
    /\ Closes(o) => CheckValidPositionToReduce(o)

Matchable(o) ==
    /\ IF o.margin = 0 THEN ValidReduceOnly(o) ELSE CheckInitialMargin(o)
    /\ Closes(o) => CheckValidPositionToReduce(o)
    /\ deposits[o.trader] >= o.margin

(* The margins with which a trader may place an order. *)
Margins(quantity, price) == {0} \cup {Quo(Mul(quantity, price), l * Unit) : l \in Leverages}

(* Mutant of GetMarketBalanceDelta: a loss is paid to the market as it is made. *)
CreditsLosses(payout, collateral) == collateral - payout

(* A loss beyond the margin is not the market's until it is paid. *)
GetMarketBalanceDelta(payout, collateral) == collateral - Greatest(payout, 0)

(* The effect of filling an order: its position, what it adds to the deposit
   (the order's margin was held there) and to the market balance. *)
Expansion(o, d) ==
    LET available == d.payout + d.closeMargin
        debt == IF available < 0 /\ d.position.quantity > 0 THEN available ELSE 0
    IN  [position |-> Saved([d.position EXCEPT !.margin = @ + debt]),
         deposit |-> available - debt - o.margin,
         market |-> GetMarketBalanceDelta(d.payout, d.collateral) + debt]

StateExpansion(o) ==
    Expansion(o, ApplyPositionDelta(Position(o), o.long, o.quantity, o.margin, o.price))

GetAvailableMarketFunds == marketBalance + fund * Unit
IsMarketSolvent(delta) == GetAvailableMarketFunds + delta >= 0

PauseMarketAndScheduleForSettlement ==
    /\ status' = "Paused" /\ settlement' = [price |-> mark, forced |-> FALSE]
    /\ UNCHANGED <<positions, deposits, marketBalance, fund, funding, mark, moves>>

(* Two orders matched at their common price, and persisted only if the market
   stays solvent. *)
Trade(buy, sell) ==
    /\ status = "Active" /\ fills < MaxFills
    /\ Matchable(buy) /\ Matchable(sell)
    /\ fills' = fills + 1
    /\ \E b \in {StateExpansion(buy)}, s \in {StateExpansion(sell)} :
         IF IsMarketSolvent(b.market + s.market)
         THEN /\ positions' = [positions EXCEPT ![buy.trader] = b.position,
                                                ![sell.trader] = s.position]
              /\ deposits' = [deposits EXCEPT ![buy.trader] = @ + b.deposit,
                                              ![sell.trader] = @ + s.deposit]
              /\ marketBalance' = marketBalance + b.market + s.market
              /\ UNCHANGED <<fund, funding, mark, status, settlement, moves>>
         ELSE PauseMarketAndScheduleForSettlement

-----------------------------------------------------------------------------
(* The oracle and the hourly funding *)

SetPrice(p) ==
    /\ moves < MaxMoves /\ p # mark
    /\ mark' = p /\ moves' = moves + 1
    /\ UNCHANGED <<positions, deposits, marketBalance, fund, funding, status,
                   settlement, fills>>

ProcessHourlyFunding(f) ==
    /\ status = "Active" /\ moves < MaxMoves
    /\ funding' = funding + f /\ moves' = moves + 1
    /\ UNCHANGED <<positions, deposits, marketBalance, fund, mark, status,
                   settlement, fills>>

-----------------------------------------------------------------------------
(* The insurance fund *)

(* PayDeficitFromInsuranceFund: coins drawn for a deficit. *)
Withdrawal(deficit) == Least(CeilInt(deficit), fund)

-----------------------------------------------------------------------------
(* Liquidation *)

(* LiquidatePosition of t's whole position against a resting order. *)
ShouldLiquidate(p) ==
    IF p.long THEN mark <= GetLiquidationPrice(p) ELSE mark >= GetLiquidationPrice(p)

(* The market order that closes it sells no lower, buys no higher. *)
WorstPriceKept(p, price) ==
    LET bankruptcy == BankruptcyPrice(p, 0)
    IN  IF p.long THEN price >= Least(mark, bankruptcy)
                  ELSE price <= Greatest(mark, bankruptcy)

(* Closing p against the maker has left x and y, and t's deposit at after. *)
Liquidated(t, maker, x, y, after) ==
    LET before == deposits[t]
        payout == IF before < 0 THEN after ELSE x.deposit
        isMissingFunds == payout < 0 /\ after < 0
        lost == IF isMissingFunds THEN before ELSE Greatest(-payout, 0)
        drawn == IF isMissingFunds THEN Withdrawal(-after) ELSE 0
        surplus == Greatest(payout, 0)
        toFund == TruncateInt(Mul(surplus, Unit - LiquidatorRewardShareRate))
        shouldSettle == isMissingFunds /\ -after > drawn * Unit
    IN  IF IsMarketSolvent(x.market + y.market) /\ ~shouldSettle
        THEN /\ positions' = [positions EXCEPT ![t] = x.position, ![maker.trader] = y.position]
             /\ deposits' = [deposits EXCEPT
                  ![t] = IF isMissingFunds THEN 0 ELSE after - surplus,
                  ![maker.trader] = @ + y.deposit,
                  ![Liquidator] = @ + surplus - toFund * Unit]
             /\ marketBalance' = marketBalance + x.market + y.market + lost + drawn * Unit
             /\ fund' = fund - drawn + toFund
             /\ UNCHANGED <<funding, mark, status, settlement, moves>>
        ELSE PauseMarketAndScheduleForSettlement

LiquidatePosition(t, maker) ==
    /\ status = "Active" /\ fills < MaxFills
    /\ Open(t)
    /\ \E p \in {ApplyFunding(positions[t])} :
         /\ ShouldLiquidate(p)
         /\ Matchable(maker) /\ WorstPriceKept(p, maker.price)
         /\ \E y \in {StateExpansion(maker)},
              x \in {StateExpansion([trader |-> t, long |-> ~p.long, quantity |-> p.quantity,
                                     margin |-> 0, price |-> maker.price])} :
              Liquidated(t, maker, x, y, deposits[t] + x.deposit)
    /\ fills' = fills + 1

-----------------------------------------------------------------------------
(* Settlement of the paused market at price sp: ps are its open positions
   with funding applied. *)

Profit(p, sp) ==
    IF IsProfitable(p, sp)
    THEN GetPayoutFromPnl(p, sp, p.quantity) + Least(p.margin, 0) ELSE 0

Shortfall(p, sp) ==
    IF ~IsProfitable(p, sp) THEN Greatest(-GetPayoutIfFullyClosing(p, sp), 0) ELSE 0

(* Mutant of SocializedLossData: the market balance is taken to cover all but
   the positions under water. *)
LossesOfPositions(ps, sp) ==
    LET shortfall(t) == Shortfall(ps[t], sp)
        profit(t) == Profit(ps[t], sp)
        positivePayout(t) == Greatest(GetPayoutIfFullyClosing(ps[t], sp), 0)
    IN  [deficit |-> Total(DOMAIN ps, shortfall),
         profits |-> Total(DOMAIN ps, profit),
         positivePayouts |-> Total(DOMAIN ps, positivePayout)]

(* getDerivativeSocializedLossData *)
SocializedLossData(ps, sp) ==
    LET shortfall(t) == Shortfall(ps[t], sp)
        profit(t) == Profit(ps[t], sp)
        positivePayout(t) == Greatest(GetPayoutIfFullyClosing(ps[t], sp), 0)
        positivePayouts == Total(DOMAIN ps, positivePayout)
    IN  [deficit |-> Greatest(Total(DOMAIN ps, shortfall), positivePayouts - marketBalance),
         profits |-> Total(DOMAIN ps, profit),
         positivePayouts |-> positivePayouts]

(* ApplyProfitHaircutForDerivatives *)
ProfitHaircut(p, deficit, profits, sp) ==
    LET cut == [p EXCEPT !.entry = Quo(Mul(deficit, sp - @), profits) + @]
        payout == GetPayoutIfFullyClosing(cut, sp)
    IN  [cut EXCEPT !.margin = @ + Greatest(-payout, 0)]

(* ApplyTotalPositionPayoutHaircut *)
PayoutHaircut(p, deficit, payouts, sp) ==
    LET cut == ProfitHaircut(p, deficit, payouts, sp)
    IN  [cut EXCEPT !.margin = @ - Quo(Mul(@, deficit), payouts)]

(* Mutant of Haircut: margins are cut although the profits cover the deficit. *)
HaircutOfPayouts(ps, data, deficit, sp) ==
    [t \in DOMAIN ps |->
      IF GetPayoutIfFullyClosing(ps[t], sp) > 0 /\ deficit > 0
      THEN PayoutHaircut(ps[t], Least(deficit, data.positivePayouts), data.positivePayouts, sp)
      ELSE ps[t]]

(* executeSocializedLoss after the fund has paid: profits are cut first, then
   what is left of all positive payouts; if that is not enough none is paid. *)
Haircut(ps, data, deficit, sp) ==
    LET taken == Least(deficit, data.profits)
        afterProfits == [t \in DOMAIN ps |->
          IF deficit > 0 /\ data.profits > 0 /\ IsProfitable(ps[t], sp)
          THEN ProfitHaircut(ps[t], taken, data.profits, sp) ELSE ps[t]]
        remaining == deficit - data.profits
        payouts == data.positivePayouts - data.profits
    IN  IF deficit <= 0 \/ remaining <= 0 THEN afterProfits
        ELSE [t \in DOMAIN ps |->
          LET p == afterProfits[t]
          IN  IF GetPayoutIfFullyClosing(p, sp) <= 0 THEN p
              ELSE IF payouts < remaining THEN NoPosition
              ELSE PayoutHaircut(p, remaining, payouts, sp)]

(* Governance or the market's admin schedules a settlement; at price zero it
   takes the oracle's price when it happens. *)
ScheduleForceSettlement(price) ==
    /\ moves < MaxMoves
    /\ settlement = NoSettlement
    /\ settlement' = [price |-> price, forced |-> TRUE] /\ moves' = moves + 1
    /\ UNCHANGED <<positions, deposits, marketBalance, fund, funding, mark, status, fills>>

SettlementPrice == IF settlement.price = 0 THEN mark ELSE settlement.price

(* closeAllPositionsWithSettlePrice: a position is credited what closing it
   pays, one under water nothing; no deposit changes if the market runs short. *)
Settled(ps, sp, drawn, closed) ==
    LET credit(t) == GetPayoutIfFullyClosing(closed[t], sp) + Shortfall(ps[t], sp)
        balance == marketBalance + drawn * Unit - Total(DOMAIN ps, credit)
    IN  /\ fund' = fund - drawn
        /\ marketBalance' = balance
        /\ deposits' = IF balance < 0 THEN deposits
             ELSE [t \in DOMAIN deposits |-> IF t \in DOMAIN ps THEN deposits[t] + credit(t)
                                             ELSE deposits[t]]

(* ProcessMarketsScheduledToSettle and SettleMarket in the BeginBlocker. *)
SettleMarket ==
    /\ settlement # NoSettlement
    /\ settlement' = NoSettlement
    /\ status' = IF settlement.forced THEN "Demolished" ELSE "Paused"
    /\ positions' = [t \in Traders |-> NoPosition]
    /\ \E ps \in {[t \in {u \in Traders : Open(u)} |-> ApplyFunding(positions[t])]} :
       \E data \in {SocializedLossData(ps, SettlementPrice)} :
       \E drawn \in {Withdrawal(data.deficit)} :
       \E closed \in {Haircut(ps, data, data.deficit - drawn * Unit, SettlementPrice)} :
         Settled(ps, SettlementPrice, drawn, closed)
    /\ UNCHANGED <<funding, mark, fills, moves>>

(* UpdateDerivativeMarketParam: governance reactivates the market. *)
Reactivate ==
    /\ status # "Active"
    /\ status' = "Active"
    /\ marketBalance' = IF \E t \in Traders : Open(t) THEN marketBalance ELSE 0
    /\ UNCHANGED <<positions, deposits, fund, funding, mark, settlement, fills, moves>>

Order(t, isLong, q, m, p) ==
    [trader |-> t, long |-> isLong, quantity |-> q, margin |-> m, price |-> p]

Next ==
    \/ \E buyer \in Traders : \E seller \in Traders \ {buyer} :
         \E q \in Quantities, p \in Prices : \E bm, sm \in Margins(q, p) :
           Trade(Order(buyer, TRUE, q, bm, p), Order(seller, FALSE, q, sm, p))
    \/ \E p \in Prices : SetPrice(p)
    \/ \E f \in FundingSteps : ProcessHourlyFunding(f)
    \/ \E t \in Traders : \E maker \in Traders \ {t}, p \in Prices :
         \E m \in Margins(positions[t].quantity, p) :
           LiquidatePosition(t, Order(maker, positions[t].long, positions[t].quantity, m, p))
    \/ \E p \in SettlementPrices : ScheduleForceSettlement(p)
    \/ SettleMarket
    \/ Reactivate

Spec == Init /\ [][Next]_vars

-----------------------------------------------------------------------------
(* Properties *)

Money == Total(DOMAIN deposits, LAMBDA t : deposits[t]) + marketBalance + fund * Unit
Reactivates == status # "Active" /\ status' = "Active"
Settles == settlement # NoSettlement /\ settlement' = NoSettlement

(* What t's position is worth at the settlement price, and what t is paid. *)
Claim(t) == GetPayoutIfFullyClosing(ApplyFunding(positions[t]), SettlementPrice)
Received(t) == deposits'[t] - deposits[t]
Wins(t) == Open(t) /\ IsProfitable(positions[t], SettlementPrice)
Cut(t) == Open(t) /\ Claim(t) > 0 /\ Received(t) < Claim(t)

(* What rounding the new entry prices and margins may add to the payouts. *)
Dust == Total({t \in Traders : Open(t)}, LAMBDA t : positions[t].quantity \div Unit + 1)

(* No fill, funding, liquidation or settlement creates money: the deposits,
   the market balance and the insurance fund together never grow, although
   each of them is adjusted by its own formula (closing payouts, the market
   balance delta, the rounded-up draw on the fund).  Only a reactivated
   market, whose balance is reset, is left out. *)
NoMoneyMade == [][~Reactivates => Money' <= Money]_vars

(* Losses end with the margin.  Fills and liquidations overdraw no one's
   deposit: a loss beyond margin and deposit goes to the insurance fund, which
   is not overdrawn either, or the market is settled.  And a settlement takes
   nothing from the deposit of a position that lost, however deep under water
   it is; the one deposit it does debit is that of a position with a profit
   at the settlement price whose funding debt exceeds margin and profit. *)
NoOverdraft ==
    [][/\ fund' >= 0
       /\ \A t \in Traders :
            IF Settles THEN Received(t) < 0 => Wins(t) /\ Claim(t) < 0
                       ELSE deposits'[t] < 0 => deposits[t] < 0]_vars

(* executeSocializedLoss finds the whole deficit: the payouts that are left
   after the fund's payment and the haircuts exceed the market balance by
   rounding at most. *)
SettlementShortOnlyByDust ==
    [][Settles /\ (\E t \in Traders : Open(t)) => marketBalance' >= -Dust]_vars

(* Losses fall on the insurance fund first, then on profits, then on margins:
   no payout is cut while the fund has coins, and if a position without profit
   is paid less than it is worth, none with one is paid more than its margin
   (executeSocializedLoss). *)
LossesInOrder ==
    [][Settles /\ marketBalance' >= 0 =>
         /\ (\E t \in Traders : Cut(t)) => fund' = 0
         /\ (\E t \in Traders : Cut(t) /\ ~Wins(t)) =>
              \A t \in Traders : Wins(t) =>
                Received(t) <= Greatest(ApplyFunding(positions[t]).margin, 0) + Dust]_vars

(* A settled market can pay everyone: its balance is not negative.  The code
   calls the other case one that "should never happen"
   (closeAllPositionsWithSettlePrice), and then pays no one. *)
SettledInFull == status # "Active" /\ settlement = NoSettlement => marketBalance >= 0
=============================================================================
