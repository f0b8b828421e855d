---------------------------- MODULE SpotMatching ----------------------------
(***************************************************************************)
(* The matching of one spot market: the order in which an order book is    *)
(* consumed, the matching loop of the batch auction, and the uniform       *)
(* clearing price.  Pure operators, used by ExchangeSpot.                  *)
(*                                                                         *)
(* An order is a record with at least hash, buy, price, fillable and       *)
(* place; place is "resting", "transient" or "market".                     *)
(***************************************************************************)
EXTENDS Integers, FiniteSetsExt, SequencesExt

\* The order book's iterators: better price first; at one price the resting
\* orders before the transient ones; then by the key, which ends with the
\* order hash (buys are iterated in reverse).
Before(a, b) ==
    \/ IF a.buy THEN a.price > b.price ELSE a.price < b.price
    \/ /\ a.price = b.price
       /\ a.place = "resting"
       /\ b.place # "resting"
    \/ /\ a.price = b.price
       /\ (a.place = "resting") = (b.place = "resting")
       /\ IF a.buy THEN a.hash > b.hash ELSE a.hash < b.hash

Book(S) == SetToSortSeq(S, Before)

\* Mutants of the matching loop: orders at one price do not match; the loop
\* goes on past the last price that crosses.
StopsAtEqualPrice(b, s) == s.price >= b.price
NeverStops(b, s) == FALSE

\* unitSpread.IsPositive(): the best sell asks more than the best buy gives.
SpreadPositive(b, s) == s.price > b.price

\* BatchAuctionExecutor.Match and MatchSpotOrderbooks: while the best buy and
\* the best sell cross, fill both with what the smaller of them has left.
RECURSIVE MatchFrom(_, _, _)
MatchFrom(buys, sells, r) ==
    IF \/ buys = <<>>
       \/ sells = <<>>
       \/ SpreadPositive(Head(buys), Head(sells))
    THEN r
    ELSE LET b == Head(buys)
             s == Head(sells)
             q == Min({b.fillable - r.fill[b.hash], s.fillable - r.fill[s.hash]})
             f == [r.fill EXCEPT ![b.hash] = @ + q, ![s.hash] = @ + q]
         IN  MatchFrom(IF f[b.hash] = b.fillable THEN Tail(buys) ELSE buys,
                       IF f[s.hash] = s.fillable THEN Tail(sells) ELSE sells,
                       [fill |-> f, lastBuy |-> b.price, lastSell |-> s.price])

Match(buys, sells) ==
    MatchFrom(Book(buys), Book(sells),
              [fill |-> [h \in {o.hash : o \in buys \cup sells} |-> 0],
               lastBuy |-> 0, lastSell |-> 0])

Filled(S, fill) == MapThenSumSet(LAMBDA o : fill[o.hash], S)

\* GetBestSpotLimitOrderPrice: the best price among the orders S of one side,
\* 0 standing for nil.
BestPrice(S) == IF S = {} THEN 0 ELSE Head(Book(S)).price

\* GetSpotMidPriceOrBestPrice of the resting book.
MidPriceOrBestPrice(buys, sells) ==
    IF buys = {} \/ sells = {} THEN BestPrice(buys) + BestPrice(sells)
    ELSE (BestPrice(buys) + BestPrice(sells)) \div 2

\* A mutant: the reference price is taken although it lies outside the
\* interval of the last matched prices.
ReferencePrice(lastBuy, lastSell, ref) ==
    IF ref = 0 THEN (lastBuy + lastSell) \div 2 ELSE ref

\* SpotClearingPriceStrategy.Calculate, for a positive clearing quantity.
ClearingPrice(lastBuy, lastSell, ref) ==
    CASE ref = 0         -> (lastBuy + lastSell) \div 2
      [] lastBuy <= ref  -> lastBuy
      [] lastSell >= ref -> lastSell
      [] OTHER           -> ref

-----------------------------------------------------------------------------
\* The reference the loop is checked against: what could trade at price p is
\* the smaller of what buyers want at p and what sellers offer at p.
Demand(buys, p) == MapThenSumSet(LAMBDA o : o.fillable, {o \in buys : o.price >= p})
Supply(sells, p) == MapThenSumSet(LAMBDA o : o.fillable, {o \in sells : o.price <= p})

MaxVolume(buys, sells) ==
    Max({0} \cup {Min({Demand(buys, o.price), Supply(sells, o.price)}) : o \in buys \cup sells})
=============================================================================
