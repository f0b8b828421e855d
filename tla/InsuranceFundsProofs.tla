------------------------ MODULE InsuranceFundsProofs ------------------------
(***************************************************************************)
(* Proofs about InsuranceFunds, for any markets, amounts, periods and      *)
(* bounds: redemptions leave a market's debt covered, nobody's purchase or *)
(* redemption takes from the other holders of a fund's shares, a fund's    *)
(* total is the supply of its share denom, the module's account holds the  *)
(* funds' balances and the vouchers, and every share that waits for        *)
(* redemption is there to be burned.                                       *)
(*                                                                         *)
(* The argument.  A redemption burns shares that the module holds, which   *)
(* are part of the denom's supply, hence of the fund's total               *)
(* (TotalIsSupply): so it asks for at most all shares.  What it pays is    *)
(* rounded down twice, from the fund's balance less the market's debt.     *)
(* It is therefore within that difference (the debt stays covered) and     *)
(* within the shares' part of the balance (no dilution).  TotalIsSupply    *)
(* needs that a denom is given to one fund and is unused before (Denoms).  *)
(* This is IInv, proved in InsuranceFundsSteps.                            *)
(*                                                                         *)
(* On top of it, two sums.  Every step moves the account's coins by as     *)
(* much as the balances and vouchers (BooksMove).  The module's shares of  *)
(* a denom are the protocol's and those of the schedules (SharesInv): at   *)
(* most one schedule is batched with a request (BatchedOne), whose shares  *)
(* the new schedule takes over.                                            *)
(***************************************************************************)
EXTENDS InsuranceFundsSteps, Sums, TLAPS

-----------------------------------------------------------------------------
(* The coins of the module's account *)

(* The balance of at most one fund changes, by x. *)
FundBy(x) ==
    \/ x = 0 /\ funds' = funds
    \/ \E m \in Markets : /\ funds'[m].balance = funds[m].balance + x
                          /\ SameBut(Markets, m, funds, funds')

(* The vouchers of at most one account change, by x. *)
VoucherBy(x) ==
    \/ x = 0 /\ vouchers' = vouchers
    \/ \E a \in Accounts : /\ vouchers'[a][Quote] = vouchers[a][Quote] + x
                           /\ SameBut(Accounts, a, vouchers, vouchers')

(* The account moves by as much as the books. *)
LEMMA BooksMove ==
    ASSUME TypeOK, FundsBacked, NEW x \in Int, NEW y \in Int, FundBy(x), VoucherBy(y),
           funds' \in [Markets -> Fund], vouchers' \in [Accounts -> [{Quote} -> Nat]],
           module' = module + x + y
    PROVE  FundsBacked'
  <1> DEFINE F == SumBalances(Markets, funds)
             G == SumBalances(Markets, funds')
             V == SumColumn(vouchers, Quote)
             W == SumColumn(vouchers', Quote)
  <1>1. /\ Counted(Markets, funds) /\ Counted(Markets, funds')
        /\ Tabled(Accounts, Quote, vouchers) /\ Tabled(Accounts, Quote, vouchers')
    <2>1. /\ funds \in [Markets -> Fund] /\ vouchers \in [Accounts -> [{Quote} -> Nat]]
          /\ IsFiniteSet(Markets) /\ IsFiniteSet(Accounts)
      BY InsuranceAssumption, Zenon DEF TypeOK, Fund
    <2> QED BY <2>1, Zenon DEF Fund, Counted, Tabled
  <1>2. /\ FundsBacked <=> module = F + V
        /\ FundsBacked' <=> module' = G + W
    BY Zenon DEF FundsBacked, VoucherReserved, SumBalances, SumColumn
  <1>3. F \in Nat /\ V \in Nat
    BY <1>1, SumBalancesType, SumColumnType, Zenon
  <1>4. G = F + x
    <2>1. ASSUME NEW m \in Markets, funds'[m].balance = funds[m].balance + x,
                 SameBut(Markets, m, funds, funds')
          PROVE  G = F + x
      <3>1. G = F + funds'[m].balance - funds[m].balance
        BY <1>1, <2>1, SumBalancesChange
      <3>2. funds[m].balance \in Nat
        BY <1>1 DEF Counted
      <3> HIDE DEF F, G
      <3> QED BY <1>3, <2>1, <3>1, <3>2
    <2>2. CASE x = 0 /\ funds' = funds
      <3>1. G = F
        BY <2>2, Zenon
      <3> HIDE DEF F, G
      <3> QED BY <1>3, <2>2, <3>1
    <2> QED BY <2>1, <2>2, Zenon DEF FundBy
  <1>5. W = V + y
    <2>1. ASSUME NEW a \in Accounts, vouchers'[a][Quote] = vouchers[a][Quote] + y,
                 SameBut(Accounts, a, vouchers, vouchers')
          PROVE  W = V + y
      <3>1. W = V + vouchers'[a][Quote] - vouchers[a][Quote]
        BY <1>1, <2>1, SumColumnChange
      <3>2. vouchers[a][Quote] \in Nat
        BY <1>1 DEF Tabled
      <3> HIDE DEF V, W
      <3> QED BY <1>3, <2>1, <3>1, <3>2
    <2>2. CASE y = 0 /\ vouchers' = vouchers
      <3>1. W = V
        BY <2>2, Zenon
      <3> HIDE DEF V, W
      <3> QED BY <1>3, <2>2, <3>1
    <2> QED BY <2>1, <2>2, Zenon DEF VoucherBy
  <1> HIDE DEF F, G, V, W
  <1>6. module' = G + W
    BY <1>2, <1>3, <1>4, <1>5
  <1> QED BY <1>2, <1>6

(* settleRedemption takes as much from the fund as it pays or promises. *)
LEMMA SettleBalanced ==
    ASSUME IInv, FundsBacked, NEW s \in Schedule, NEW held \in Nat, NEW delivered \in BOOLEAN,
           funds[s.market].denom = s.denom => held <= funds[s.market].total,
           settleRedemption(s, held, delivered)
    PROVE  FundsBacked'
  <1> DEFINE n == s.market
             current == funds[n].denom = s.denom
             amount == IF current THEN getRedemptionAmountFromShare(n, s.amount) ELSE 0
             sent == delivered /\ module >= amount
  <1>1. /\ TypeOK /\ module \in Nat
        /\ n \in Markets /\ s.amount \in Nat /\ s.redeemer \in Accounts
        /\ funds \in [Markets -> Fund] /\ vouchers \in [Accounts -> [{Quote} -> Nat]]
    BY Zenon DEF IInv, TypeOK, Schedule, Fund
  <1>2. /\ funds' \in [Markets -> Fund] /\ vouchers' \in [Accounts -> [{Quote} -> Nat]]
        /\ SameBut(Markets, n, funds, funds')
    <2>1. /\ funds' \in [Markets -> Fund] /\ vouchers' \in [Accounts -> [{Quote} -> Nat]]
          /\ \A m \in Markets : m # n => funds'[m] = funds[m]
      BY SettleBounded, Zenon
    <2> HIDE DEF n
    <2> QED BY <1>1, <2>1, Zenon DEF SameBut
  <1>3. CASE held < s.amount
    <2>1. funds' = funds /\ module' = module /\ vouchers' = vouchers
      BY <1>3 DEF settleRedemption
    <2> QED BY <2>1, Zenon DEF FundsBacked
  <1>4. CASE ~(held < s.amount)
    <2>1. /\ funds' = IF current
                THEN [funds EXCEPT ![n].balance = @ - amount, ![n].total = @ - s.amount]
                ELSE funds
          /\ module' = IF sent THEN module - amount ELSE module
          /\ vouchers' = IF sent THEN vouchers
                         ELSE AddVoucher(vouchers, s.redeemer, Quote, amount)
      BY <1>4, Zenon DEF settleRedemption
    <2>2. amount \in Nat
      <3>1. current => s.amount <= funds[n].total
        BY <1>1, <1>4 DEF Fund
      <3> QED BY <1>1, <3>1, RedemptionBounded
    <2>3. ~current => amount = 0
      OBVIOUS
    <2> HIDE DEF amount, current, n
    <2> DEFINE x == 0 - amount
    <2>4. FundBy(x)
      <3>1. current => funds'[n].balance = funds[n].balance - amount
        BY <1>1, <2>1 DEF Fund
      <3>2. current => funds'[n].balance = funds[n].balance + x
        BY <1>1, <2>2, <3>1 DEF Fund
      <3>3. ~current => x = 0
        BY <2>3
      <3>4. ~current => funds' = funds
        BY <2>1, Zenon
      <3> HIDE DEF x
      <3> QED BY <1>1, <1>2, <3>2, <3>3, <3>4, Zenon DEF FundBy
    <2>5. VoucherBy(IF sent THEN 0 ELSE amount)
      <3>1. CASE sent
        BY <2>1, <3>1 DEF VoucherBy
      <3>2. CASE ~sent
        <4>1. /\ vouchers'[s.redeemer][Quote] = vouchers[s.redeemer][Quote] + amount
              /\ SameBut(Accounts, s.redeemer, vouchers, vouchers')
          BY <1>1, <2>1, <3>2 DEF AddVoucher, GetVoucher, SameBut
        <4> HIDE DEF sent
        <4> QED BY <1>1, <3>2, <4>1, Zenon DEF VoucherBy
      <3> QED BY <3>1, <3>2
    <2>6. module' = module + x + (IF sent THEN 0 ELSE amount)
      <3> HIDE DEF sent
      <3> QED BY <1>1, <2>1, <2>2
    <2>7. x \in Int /\ (IF sent THEN 0 ELSE amount) \in Int
      BY <2>2
    <2> HIDE DEF sent, x
    <2> QED BY <1>1, <1>2, <2>4, <2>5, <2>6, <2>7, BooksMove, Zenon
  <1> QED BY <1>3, <1>4

LEMMA BackedStep ==
    ASSUME IInv, IInv', FundsBacked, [Next]_vars
    PROVE  FundsBacked'
  <1>1. /\ TypeOK /\ TotalIsSupply /\ module \in Nat
        /\ funds \in [Markets -> Fund] /\ funds' \in [Markets -> Fund]
        /\ vouchers \in [Accounts -> [{Quote} -> Nat]]
        /\ vouchers' \in [Accounts -> [{Quote} -> Nat]]
    BY Zenon DEF IInv, TypeOK, Fund
  <1>2. \A m \in Markets : funds[m] \in Fund /\ funds[m].balance \in Nat
    BY <1>1 DEF Fund
  <1>3. CASE UNCHANGED <<funds, module, vouchers>>
    BY <1>3, Zenon DEF FundsBacked
  <1>4. ASSUME NEW m \in Markets, NEW x \in Int, module' = module + x, vouchers' = vouchers,
               funds'[m].balance = funds[m].balance + x,
               SameBut(Markets, m, funds, funds')
        PROVE  FundsBacked'
    <2>1. FundBy(x) /\ VoucherBy(0)
      BY <1>4, Zenon DEF FundBy, VoucherBy
    <2>2. 0 \in Int /\ module' = module + x + 0
      BY <1>1, <1>4
    <2> QED BY <1>1, <2>1, <2>2, BooksMove, Zenon
  <1>5. ASSUME NEW m \in Markets, NEW amount \in Deposits,
               CreateInsuranceFund(m, amount) \/ UnderwriteInsuranceFund(m, amount)
        PROVE  FundsBacked'
    <2>1. amount \in Int /\ module' = module + amount /\ vouchers' = vouchers
          /\ (StartFund(m, amount) \/ BuyShares(m, amount))
      BY <1>5, InsuranceAssumption DEF CreateInsuranceFund, UnderwriteInsuranceFund
    <2>2. /\ funds'[m].balance = funds[m].balance + amount
          /\ SameBut(Markets, m, funds, funds')
      BY <1>1, <1>2, <2>1 DEF StartFund, BuyShares, Fund, SameBut
    <2> QED BY <1>4, <2>1, <2>2
  <1>6. ASSUME NEW m \in Markets, NEW amount \in Int, Withdraw(m, amount), vouchers' = vouchers
        PROVE  FundsBacked'
    <2>1. /\ funds'[m].balance = funds[m].balance - amount /\ module' = module - amount
          /\ SameBut(Markets, m, funds, funds')
      BY <1>1, <1>2, <1>6 DEF Withdraw, Fund, SameBut
    <2>2. /\ -amount \in Int /\ module' = module + (-amount)
          /\ funds'[m].balance = funds[m].balance + (-amount)
      BY <1>1, <1>2, <2>1
    <2> QED BY <1>4, <1>6, <2>1, <2>2
  <1>7. ASSUME NEW m \in Launched,
               \/ \E delta \in BalanceDeltas : ApplyMarketBalanceDelta(m, delta)
               \/ \E deficit \in Deficits : PayDeficitFromInsuranceFund(m, deficit)
               \/ TransferFullInsuranceFundBalance(m)
               \/ \E amount \in Surpluses : MoveCoinsIntoInsuranceFund(m, amount)
               \/ CloseMarket(m)
        PROVE  FundsBacked'
    <2>1. m \in Markets /\ vouchers' = vouchers
      BY <1>7, InsuranceAssumption
         DEF MarketOp, ApplyMarketBalanceDelta, PayDeficitFromInsuranceFund,
             TransferFullInsuranceFundBalance, MoveCoinsIntoInsuranceFund, CloseMarket
    <2>2. ASSUME NEW deficit \in Deficits, PayDeficitFromInsuranceFund(m, deficit)
          PROVE  FundsBacked'
      <3>1. Payable(m, deficit) \in Int
        BY <1>2, <2>1, CeilNat, InsuranceAssumption DEF Payable
      <3> QED BY <1>6, <2>1, <2>2, <3>1 DEF PayDeficitFromInsuranceFund
    <2>3. CASE TransferFullInsuranceFundBalance(m)
      <3>1. funds[m].balance \in Int
        BY <1>2, <2>1
      <3> QED BY <1>6, <2>1, <2>3, <3>1 DEF TransferFullInsuranceFundBalance
    <2>4. ASSUME NEW amount \in Surpluses, MoveCoinsIntoInsuranceFund(m, amount)
          PROVE  FundsBacked'
      <3>1. /\ amount \in Int /\ module' = module + amount
            /\ funds'[m].balance = funds[m].balance + amount
            /\ SameBut(Markets, m, funds, funds')
        BY <1>1, <1>2, <2>1, <2>4, InsuranceAssumption DEF MoveCoinsIntoInsuranceFund, Fund, SameBut
      <3> QED BY <1>4, <2>1, <3>1
    <2>5. CASE CloseMarket(m) \/ \E delta \in BalanceDeltas : ApplyMarketBalanceDelta(m, delta)
      BY <1>3, <2>1, <2>5 DEF CloseMarket, ApplyMarketBalanceDelta
    <2> QED BY <1>7, <2>2, <2>3, <2>4, <2>5
  <1>8. ASSUME NEW a \in Accounts, ClaimVoucher(a)
        PROVE  FundsBacked'
    <2>1. /\ module' = module - vouchers[a][Quote] /\ funds' = funds
          /\ vouchers' = [vouchers EXCEPT ![a][Quote] = 0]
      BY <1>8 DEF ClaimVoucher, GetVoucher, DeleteVoucher
    <2>2. /\ vouchers[a][Quote] \in Nat /\ vouchers'[a][Quote] = 0
          /\ SameBut(Accounts, a, vouchers, vouchers')
      BY <1>1, <2>1 DEF SameBut
    <2> DEFINE y == -vouchers[a][Quote]
    <2>3. /\ 0 \in Int /\ y \in Int /\ module' = module + 0 + y
          /\ vouchers'[a][Quote] = vouchers[a][Quote] + y
      BY <1>1, <2>1, <2>2
    <2> HIDE DEF y
    <2>4. FundBy(0) /\ VoucherBy(y)
      BY <2>1, <2>2, <2>3, Zenon DEF FundBy, VoucherBy
    <2> QED BY <1>1, <2>3, <2>4, BooksMove, Zenon
  <1>9. ASSUME NEW s \in matured, NEW delivered \in BOOLEAN, processRedemption(s, delivered)
        PROVE  FundsBacked'
    <2>1. s \in schedules
      BY <1>1 DEF TypeOK
    <2> QED BY <1>9, <2>1, HeldBounded, SettleBalanced, Zenon DEF processRedemption
  <1>10. ASSUME NEW a \in Accounts, NEW m \in Markets, NEW amount \in Redemptions,
                NEW delivered \in BOOLEAN,
                RequestInsuranceFundRedemption(a, m, amount, delivered)
         PROVE  FundsBacked'
    <2> DEFINE d == funds[m].denom
               held == locked[d] + amount
    <2>1. HasInsuranceFund(m) /\ circulating[d] >= amount /\ amount \in Nat
      <3>1. Asked(m, amount)
        BY <1>10, RequestUnfolds
      <3> QED BY <3>1, Zenon DEF Asked
    <2>2. held \in Nat /\ held <= funds[m].total
      <3>1. /\ locked[d] \in Nat /\ circulating[d] \in Nat
            /\ funds[m].total = locked[d] + circulating[d]
        BY <2>1, FundShares, Zenon
      <3> HIDE DEF d
      <3> QED BY <2>1, <3>1
    <2>3. \/ UNCHANGED <<funds, module, vouchers>>
          \/ \E new \in Schedule : /\ new.market = m /\ new.denom = d
                                   /\ settleRedemption(new, held, delivered)
      <3>1. PICK new \in Schedule, batched \in SUBSET schedules :
              Requested(a, m, amount, delivered, new, batched)
        BY <1>10, RequestUnfolds
      <3> QED BY <3>1, Zenon DEF Requested
    <2> HIDE DEF held
    <2> QED BY <1>3, <2>2, <2>3, SettleBalanced, Zenon
  <1>11. CASE UNCHANGED vars \/ CollectMatured \/ Commit
    BY <1>3, <1>11 DEF vars, CollectMatured, Commit
  <1> QED BY <1>5, <1>7, <1>8, <1>9, <1>10, <1>11, Zenon DEF Next, EndBlocker

LEMMA InitFundsBacked == Init => FundsBacked
  <1> SUFFICES ASSUME Init PROVE FundsBacked
    OBVIOUS
  <1> DEFINE f == [m \in Markets |-> funds[m].balance]
             g == [a \in DOMAIN vouchers |-> vouchers[a][Quote]]
  <1>1. DOMAIN f = Markets /\ IsFiniteSet(Markets) /\ \A m \in Markets : f[m] = 0
    BY InsuranceAssumption DEF Init, NoFund
  <1>2. DOMAIN g = Accounts /\ IsFiniteSet(Accounts) /\ \A a \in Accounts : g[a] = 0
    BY InsuranceAssumption DEF Init, NoVouchers
  <1> HIDE DEF f, g
  <1>3. SumFunction(f) = 0 /\ SumFunction(g) = 0
    BY <1>1, <1>2, SumZero DEF SumFunction
  <1> QED BY <1>3 DEF Init, FundsBacked, VoucherReserved, f, g

-----------------------------------------------------------------------------
(* The shares in the module's account *)

(* The shares that the module must hold of a denom. *)
Owed(d, next, S) == (IF d < next THEN ProtocolSupply ELSE 0) + SumAmounts(S, d)

(* Schedules are told apart by their ids, none has failed, and the module holds
   exactly the protocol's shares and the scheduled ones. *)
SharesInv ==
    /\ failed = {} /\ IsFiniteSet(schedules)
    /\ \A s \in schedules : s.id < nextSchedule
    /\ \A s, t \in schedules : s.id = t.id => s = t
    /\ \A d \in ShareDenoms : locked[d] = Owed(d, nextShareDenom, schedules)

(* A schedule's shares are in the module's account. *)
LEMMA ShareHeld ==
    ASSUME IInv, SharesInv, NEW s \in schedules
    PROVE  /\ s \in Schedule /\ s.denom \in ShareDenoms /\ s.amount \in Nat
           /\ locked[s.denom] \in Nat /\ s.amount <= locked[s.denom]
           /\ \A d \in ShareDenoms :
                Owed(d, nextShareDenom, schedules \ {s})
                  = locked[d] - (IF s.denom = d THEN s.amount ELSE 0)
  <1>1. /\ s \in Schedule /\ schedules \in SUBSET Schedule /\ IsFiniteSet(schedules)
        /\ s.denom \in ShareDenoms /\ s.amount \in Nat /\ locked[s.denom] \in Nat
        /\ Priced(schedules)
    BY DEF IInv, TypeOK, Schedule, SharesInv, Priced
  <1>2. ProtocolSupply \in Nat
    BY InsuranceAssumption
  <1> DEFINE P(d) == IF d < nextShareDenom THEN ProtocolSupply ELSE 0
             A(d) == SumAmounts(schedules, d)
             B(d) == SumAmounts(schedules \ {s}, d)
  <1>3. ASSUME NEW d \in ShareDenoms
        PROVE  /\ P(d) \in Nat /\ A(d) \in Nat /\ B(d) \in Nat /\ locked[d] = P(d) + A(d)
               /\ A(d) = B(d) + (IF s.denom = d THEN s.amount ELSE 0)
    <2>1. /\ B(d) \in Nat /\ A(d) \in Nat
          /\ A(d) = B(d) + (IF s.denom = d THEN s.amount ELSE 0)
      BY <1>1, SumAmountsRemove
    <2>2. locked[d] = P(d) + A(d) /\ P(d) \in Nat
      BY <1>2, Zenon DEF SharesInv, Owed
    <2> QED BY <2>1, <2>2
  <1>4. \A d \in ShareDenoms : Owed(d, nextShareDenom, schedules \ {s}) = P(d) + B(d)
    BY DEF Owed
  <1> HIDE DEF P, A, B
  <1>5. \A d \in ShareDenoms :
          P(d) + B(d) = locked[d] - (IF s.denom = d THEN s.amount ELSE 0)
    BY <1>1, <1>3
  <1>6. s.amount <= locked[s.denom]
    BY <1>1, <1>3
  <1> QED BY <1>1, <1>4, <1>5, <1>6

(* Nothing that the invariant is about changes. *)
LEMMA SharesSame ==
    ASSUME SharesInv, UNCHANGED <<failed, schedules, nextSchedule, locked, nextShareDenom>>
    PROVE  SharesInv'
  BY Zenon DEF SharesInv

(* A fund starts: the protocol's shares of its denom are minted. *)
LEMMA StartShares ==
    ASSUME IInv, SharesInv, NEW m \in Markets, NEW amount, StartFund(m, amount),
           UNCHANGED <<failed, schedules, nextSchedule>>
    PROVE  SharesInv'
  <1> DEFINE n == nextShareDenom
  <1>1. /\ n \in ShareDenoms /\ n \in Nat /\ n' = n + 1 /\ locked \in [ShareDenoms -> Nat]
        /\ locked' = [locked EXCEPT ![n] = locked[n] + ProtocolSupply]
        /\ ShareDenoms \subseteq Nat /\ ProtocolSupply \in Nat
    BY InsuranceAssumption DEF StartFund, IInv, TypeOK, ShareDenoms
  <1>2. \A d \in ShareDenoms : locked'[d] = Owed(d, n', schedules')
    <2> SUFFICES ASSUME NEW d \in ShareDenoms PROVE locked'[d] = Owed(d, n', schedules')
      OBVIOUS
    <2> DEFINE A == SumAmounts(schedules, d)
    <2>1. /\ locked[d] = (IF d < n THEN ProtocolSupply ELSE 0) + A
          /\ Owed(d, n', schedules') = (IF d < n + 1 THEN ProtocolSupply ELSE 0) + A
      BY <1>1, Zenon DEF SharesInv, Owed
    <2>2. locked[d] \in Nat /\ d \in Nat
      BY <1>1
    <2>3. n = d => locked[d] = 0 /\ locked'[d] = ProtocolSupply
      BY <1>1 DEF IInv, Denoms
    <2>4. n # d => locked'[d] = locked[d]
      BY <1>1
    <2>5. A \in Nat
      <3>1. IsFiniteSet(schedules) /\ Priced(schedules)
        BY DEF IInv, TypeOK, Schedule, SharesInv, Priced
      <3> QED BY <3>1, SumAmountsType
    <2> HIDE DEF A, n
    <2> QED BY <1>1, <2>1, <2>2, <2>3, <2>4, <2>5
  <1> QED BY <1>2, Zenon DEF SharesInv

(* A redemption that falls due burns its shares; it cannot fail. *)
LEMMA ProcessShares ==
    ASSUME IInv, SharesInv, NEW s \in matured, NEW delivered \in BOOLEAN,
           processRedemption(s, delivered)
    PROVE  SharesInv'
  <1>1. s \in schedules /\ locked \in [ShareDenoms -> Nat]
    BY DEF IInv, TypeOK
  <1>2. /\ s.denom \in ShareDenoms /\ s.amount \in Nat
        /\ locked[s.denom] \in Nat /\ s.amount <= locked[s.denom]
        /\ \A d \in ShareDenoms :
             Owed(d, nextShareDenom, schedules \ {s})
               = locked[d] - (IF s.denom = d THEN s.amount ELSE 0)
    BY <1>1, ShareHeld
  <1>3. /\ schedules' = schedules \ {s} /\ nextShareDenom' = nextShareDenom
        /\ nextSchedule' = nextSchedule
        /\ locked' = [locked EXCEPT ![s.denom] = locked[s.denom] - s.amount]
        /\ failed' = failed
    <2>1. ~(locked[s.denom] < s.amount)
      BY <1>2
    <2>2. failed' = failed /\ Burned(s, locked[s.denom]) = locked[s.denom] - s.amount
      BY <2>1, Zenon DEF processRedemption, settleRedemption, Burned
    <2> QED BY <2>2, Zenon DEF processRedemption
  <1>4. \A d \in ShareDenoms : locked'[d] = locked[d] - (IF s.denom = d THEN s.amount ELSE 0)
    BY <1>1, <1>2, <1>3
  <1>5. \A d \in ShareDenoms : locked'[d] = Owed(d, nextShareDenom', schedules')
    BY <1>2, <1>3, <1>4, Zenon
  <1>6. /\ IsFiniteSet(schedules')
        /\ \A t \in schedules' : t.id < nextSchedule'
        /\ \A t, u \in schedules' : t.id = u.id => t = u
    BY <1>3, FS_Subset DEF SharesInv
  <1> QED BY <1>3, <1>5, <1>6, Zenon DEF SharesInv

(* At most one schedule is batched with a request. *)
LEMMA BatchedOne ==
    ASSUME IInv, SharesInv, NEW a, NEW m, NEW claim,
           NEW s \in Batched(a, m, claim), NEW t \in Batched(a, m, claim)
    PROVE  s = t
  <1>1. /\ s \in schedules /\ t \in schedules /\ Before(s, t) /\ Before(t, s)
    BY DEF Batched, findRecentRedemptionSchedule, Recent
  <1>2. s.claim \in Nat /\ t.claim \in Nat /\ s.id \in Nat /\ t.id \in Nat
    <2>1. s \in Schedule /\ t \in Schedule
      BY <1>1 DEF IInv, TypeOK
    <2> QED BY <2>1 DEF Schedule
  <1>3. s.id = t.id
    BY <1>1, <1>2 DEF Before
  <1> QED BY <1>1, <1>3 DEF SharesInv

(* A request locks its shares and pledges as many, whatever it is batched with;
   if it is settled at once, all of its shares are there to be burned. *)
LEMMA RequestShares ==
    ASSUME IInv, SharesInv, NEW a \in Accounts, NEW m \in Markets,
           NEW amount \in Redemptions, NEW delivered \in BOOLEAN,
           RequestInsuranceFundRedemption(a, m, amount, delivered)
    PROVE  SharesInv'
  <1> DEFINE d == funds[m].denom
             held == locked[d] + amount
             settles == isMarketDemolishedOrExpired(m)
             claim == time + NoticePeriod
  <1>1. /\ amount \in Nat /\ d \in ShareDenoms /\ locked[d] \in Nat
        /\ nextShareDenom' = nextShareDenom
    <2>1. Asked(m, amount)
      BY RequestUnfolds
    <2> QED BY <2>1, Zenon DEF Asked
  <1>2. PICK new \in Schedule, batched \in SUBSET schedules :
          Requested(a, m, amount, delivered, new, batched)
    BY RequestUnfolds
  <1>3. /\ batched = Batched(a, m, claim)
        /\ new.market = m /\ new.denom = d
        /\ batched = {} =>
             /\ nextSchedule' = nextSchedule + 1 /\ nextSchedule <= MaxSchedules
             /\ new.id = nextSchedule /\ new.amount = amount
        /\ batched # {} =>
             /\ nextSchedule' = nextSchedule
             /\ \E s \in batched : new.id = s.id /\ new.amount = s.amount + amount
        /\ schedules' = (schedules \ batched) \cup (IF settles THEN {} ELSE {new})
        /\ locked' = [locked EXCEPT ![d] = IF settles THEN Burned(new, held) ELSE held]
    BY <1>2, Zenon DEF Requested
  <1> DEFINE left == schedules \ batched
             before == new.amount - amount
  <1>4. /\ schedules \in SUBSET Schedule /\ IsFiniteSet(schedules)
        /\ locked \in [ShareDenoms -> Nat] /\ ProtocolSupply \in Nat /\ nextSchedule \in Nat
        /\ \A s \in schedules : s.id \in Nat /\ s.id < nextSchedule
        /\ \A s, t \in schedules : s.id = t.id => s = t
    BY InsuranceAssumption DEF IInv, TypeOK, SharesInv, Schedule
  <1>5. /\ left \in SUBSET Schedule /\ IsFiniteSet(left) /\ before \in Nat
        /\ new.amount = before + amount
        /\ new.id < nextSchedule' /\ \A s \in left : s.id < nextSchedule' /\ s.id # new.id
        /\ \A e \in ShareDenoms :
             Owed(e, nextShareDenom, left) = locked[e] - (IF d = e THEN before ELSE 0)
    <2>1. left \in SUBSET Schedule /\ IsFiniteSet(left)
      BY <1>4, FS_Subset
    <2> HIDE DEF d, settles, claim, held
    <2>2. CASE batched = {}
      <3>1. left = schedules
        BY <2>2
      <3>2. \A e \in ShareDenoms : Owed(e, nextShareDenom, left) = locked[e]
        BY <3>1, Zenon DEF SharesInv
      <3>3. before = 0 /\ new.id = nextSchedule /\ nextSchedule' = nextSchedule + 1
            /\ new.amount = amount
        <4>1. new.id = nextSchedule /\ nextSchedule' = nextSchedule + 1 /\ new.amount = amount
          BY <1>3, <2>2, Zenon
        <4> QED BY <1>1, <4>1
      <3>4. \A e \in ShareDenoms : locked[e] \in Nat
        BY <1>4
      <3> HIDE DEF left, before
      <3>5. \A e \in ShareDenoms :
              Owed(e, nextShareDenom, left) = locked[e] - (IF d = e THEN before ELSE 0)
        BY <3>2, <3>3, <3>4
      <3>6. \A s \in left : s.id < nextSchedule' /\ s.id # new.id
        BY <1>4, <3>1, <3>3
      <3> QED BY <1>1, <1>4, <2>1, <3>3, <3>5, <3>6, SMTT(20)
    <2>3. CASE batched # {}
      <3>1. PICK b \in batched : new.id = b.id /\ new.amount = b.amount + amount
        BY <1>3, <2>3
      <3>2. b \in schedules /\ b \in Schedule /\ b.denom = d /\ b.amount \in Nat
        BY <1>3, <1>4 DEF Batched, Schedule, d
      <3>3. batched = {b}
        BY <1>3, BatchedOne
      <3>4. left = schedules \ {b} /\ nextSchedule' = nextSchedule
        BY <1>3, <2>3, <3>3, SMTT(20)
      <3>5. before = b.amount
        BY <1>1, <3>1, <3>2, SMTT(20)
      <3>6. \A e \in ShareDenoms :
              Owed(e, nextShareDenom, schedules \ {b})
                = locked[e] - (IF b.denom = e THEN b.amount ELSE 0)
        BY <3>2, ShareHeld
      <3>7. \A s \in left : s.id < nextSchedule' /\ s.id # new.id
        BY <1>4, <3>1, <3>2, <3>4, SMTT(20)
      <3>8. new.id < nextSchedule'
        BY <1>4, <3>1, <3>2, <3>4, SMTT(20)
      <3> HIDE DEF left, before
      <3> QED BY <1>1, <2>1, <3>1, <3>2, <3>4, <3>5, <3>6, <3>7, <3>8, Zenon
    <2> QED BY <2>2, <2>3, Zenon
  <1>6. /\ new \notin left /\ new.denom = d /\ new.amount \in Nat
        /\ Priced(left \cup {new})
    BY <1>3, <1>5, SMTT(20) DEF Schedule, Priced
  <1> DEFINE after == IF settles THEN Burned(new, held) ELSE held
             new_schedules == IF settles THEN left ELSE left \cup {new}
  <1>7. /\ locked'[d] = after /\ \A e \in ShareDenoms : e # d => locked'[e] = locked[e]
        /\ schedules' = new_schedules
    BY <1>1, <1>3, <1>4, SMTT(20)
  <1>8. held \in Nat /\ held = locked[d] + amount
    BY <1>1
  <1> HIDE DEF left, before, d, claim, settles, held
  <1>9. ASSUME NEW e \in ShareDenoms
        PROVE  /\ Owed(e, nextShareDenom, left) \in Nat
               /\ Owed(e, nextShareDenom, left \cup {new})
                    = Owed(e, nextShareDenom, left) + (IF d = e THEN new.amount ELSE 0)
    <2> DEFINE A == SumAmounts(left, e)
               B == SumAmounts(left \cup {new}, e)
               P == IF e < nextShareDenom THEN ProtocolSupply ELSE 0
    <2>1. A \in Nat /\ B = A + (IF new.denom = e THEN new.amount ELSE 0)
      <3>1. IsFiniteSet(left) /\ new \notin left /\ Priced(left \cup {new})
        BY <1>5, <1>6, Zenon
      <3> QED BY <3>1, SumAmountsAdd
    <2>2. Owed(e, nextShareDenom, left) = P + A /\ P \in Nat
          /\ Owed(e, nextShareDenom, left \cup {new}) = P + B
      BY <1>4, Zenon DEF Owed
    <2> HIDE DEF A, B, P
    <2> QED BY <1>6, <2>1, <2>2
  <1>10. before \in Nat /\ new.amount = before + amount /\ amount \in Nat
    BY <1>1, <1>5, Zenon
  <1>11. \A e \in ShareDenoms :
           Owed(e, nextShareDenom, left) = locked[e] - (IF d = e THEN before ELSE 0)
    BY <1>5, Zenon
  <1>12. new.amount <= held
    <2>1. Owed(d, nextShareDenom, left) = locked[d] - before /\ Owed(d, nextShareDenom, left) \in Nat
      BY <1>1, <1>9, <1>11, Zenon
    <2> QED BY <1>1, <1>8, <1>10, <2>1
  <1>13. failed' = failed /\ (settles => after = held - new.amount)
    <2>1. ~(held < new.amount)
      BY <1>6, <1>8, <1>12
    <2>2. Burned(new, held) = held - new.amount
      BY <2>1, Zenon DEF Burned
    <2>3. failed' = failed
      <3>1. settleRedemption(new, held, delivered) \/ failed' = failed
        BY <1>2, Zenon DEF Requested, held, d
      <3> QED BY <2>1, <3>1, Zenon DEF settleRedemption
    <2> QED BY <2>2, <2>3
  <1> HIDE DEF after, new_schedules
  <1>14. \A e \in ShareDenoms : locked'[e] = Owed(e, nextShareDenom, new_schedules)
    <2> SUFFICES ASSUME NEW e \in ShareDenoms
                 PROVE  locked'[e] = Owed(e, nextShareDenom, new_schedules)
      OBVIOUS
    <2> DEFINE O == Owed(e, nextShareDenom, left)
    <2>1. /\ O = locked[e] - (IF d = e THEN before ELSE 0) /\ O \in Nat /\ locked[e] \in Nat
          /\ Owed(e, nextShareDenom, left \cup {new}) = O + (IF d = e THEN new.amount ELSE 0)
      <3>1. locked[e] \in Nat
        BY <1>4
      <3> QED BY <1>9, <1>11, <3>1, Zenon
    <2>2. d = e => held = locked[e] + amount
      BY <1>8, Zenon
    <2> HIDE DEF O
    <2>3. CASE settles
      <3>1. locked'[e] = IF d = e THEN held - new.amount ELSE locked[e]
        BY <1>7, <1>13, <2>3, Zenon
      <3>2. O = locked'[e]
        BY <1>8, <1>10, <2>1, <2>2, <3>1, SMTT(20)
      <3> QED BY <2>3, <3>2 DEF O, new_schedules
    <2>4. CASE ~settles
      <3>1. locked'[e] = IF d = e THEN held ELSE locked[e]
        BY <1>7, <2>4, Zenon DEF after
      <3>2. O + (IF d = e THEN new.amount ELSE 0) = locked'[e]
        BY <1>8, <1>10, <2>1, <2>2, <3>1, SMTT(20)
      <3> QED BY <2>1, <2>4, <3>2 DEF new_schedules
    <2> QED BY <2>3, <2>4
  <1>15. /\ IsFiniteSet(new_schedules)
         /\ \A s \in new_schedules : s.id < nextSchedule'
         /\ \A s, t \in new_schedules : s.id = t.id => s = t
    <2>1. IsFiniteSet(left \cup {new})
      BY <1>5, FS_AddElement
    <2>2. \A s, t \in left \cup {new} : s.id = t.id => s = t
      BY <1>4, <1>5 DEF left
    <2> QED BY <1>5, <2>1, <2>2 DEF new_schedules
  <1> QED BY <1>1, <1>7, <1>13, <1>14, <1>15 DEF SharesInv

LEMMA SharesStep ==
    ASSUME IInv, SharesInv, [Next]_vars
    PROVE  SharesInv'
  <1>1. ASSUME NEW m \in Markets, NEW amount \in Deposits,
               CreateInsuranceFund(m, amount) \/ UnderwriteInsuranceFund(m, amount)
        PROVE  SharesInv'
    BY <1>1, StartShares, SharesSame
       DEF CreateInsuranceFund, UnderwriteInsuranceFund, BuyShares, scheduling
  <1>2. ASSUME NEW m \in Launched,
               \/ \E delta \in BalanceDeltas : ApplyMarketBalanceDelta(m, delta)
               \/ \E deficit \in Deficits : PayDeficitFromInsuranceFund(m, deficit)
               \/ TransferFullInsuranceFundBalance(m)
               \/ \E amount \in Surpluses : MoveCoinsIntoInsuranceFund(m, amount)
               \/ CloseMarket(m)
        PROVE  SharesInv'
    BY <1>2, SharesSame
       DEF MarketOp, ApplyMarketBalanceDelta, PayDeficitFromInsuranceFund,
           TransferFullInsuranceFundBalance, MoveCoinsIntoInsuranceFund, CloseMarket, scheduling
  <1>3. CASE (\E a \in Accounts : ClaimVoucher(a)) \/ CollectMatured \/ Commit \/ UNCHANGED vars
    BY <1>3, SharesSame DEF ClaimVoucher, CollectMatured, Commit, vars, scheduling
  <1> QED BY <1>1, <1>2, <1>3, RequestShares, ProcessShares, Zenon DEF Next, EndBlocker

LEMMA InitSharesInv == Init => SharesInv
  <1> SUFFICES ASSUME Init PROVE SharesInv
    OBVIOUS
  <1>1. \A d \in ShareDenoms : locked[d] = Owed(d, nextShareDenom, schedules)
    <2> SUFFICES ASSUME NEW d \in ShareDenoms PROVE locked[d] = Owed(d, nextShareDenom, schedules)
      OBVIOUS
    <2>1. ~(d < nextShareDenom)
      BY InsuranceAssumption DEF ShareDenoms, Init
    <2> QED BY <2>1, SumAmountsEmpty DEF Init, Owed
  <1> QED BY <1>1, FS_EmptySet DEF Init, SharesInv

-----------------------------------------------------------------------------
LEMMA Invariance == Spec => []IInv
  <1>1. Init => IInv
    BY InitIInv
  <1>2. IInv /\ [Next]_vars => IInv'
    BY NextStep
  <1> QED BY <1>1, <1>2, PTL DEF Spec

(* No balance of a fund, no total and no count of shares ever falls below zero,
   whatever is bought, redeemed and drawn. *)
THEOREM Types == Spec => []TypeOK
  <1>1. IInv => TypeOK
    BY DEF IInv
  <1> QED BY <1>1, Invariance, PTL

(* TotalShare of a fund is the supply of its share denom in the bank: minting
   and burning keep step with it, also for shares of a fund's past. *)
THEOREM TotalsMatchSupply == Spec => []TotalIsSupply
  <1>1. IInv => TotalIsSupply
    BY DEF IInv
  <1> QED BY <1>1, Invariance, PTL

(* settleRedemption never pays out what the market's negative balance needs:
   balance and fund together stay at or above zero, for any amounts, rounding
   and order of redemptions, draws and deltas. *)
THEOREM DebtsStayCovered == Spec => []DebtsCovered
  <1>1. IInv => DebtsCovered
    BY DEF IInv
  <1> QED BY <1>1, Invariance, PTL

(* Nobody's purchase or redemption lowers the balance per share of a fund,
   however it is rounded. *)
THEOREM HoldersNotDiluted == Spec => NoDilution
  <1>1. IInv /\ [Next]_vars => (~Draws => KeepsValue)
    BY NextStep
  <1>2. IInv /\ [Next]_vars => [~Draws => KeepsValue]_vars
    BY <1>1
  <1> QED BY <1>2, Invariance, PTL DEF Spec, NoDilution

(* The account of the module holds the balances of the funds and the vouchers,
   to the coin: no payment, refused transfer, claim or draw of the exchange
   creates or loses any. *)
THEOREM AccountBacksFunds == Spec => []FundsBacked
  <1>1. Init => FundsBacked
    BY InitFundsBacked
  <1>2. IInv /\ IInv' /\ FundsBacked /\ [Next]_vars => FundsBacked'
    BY BackedStep
  <1> QED BY <1>1, <1>2, Invariance, PTL DEF Spec

(* The module holds the protocol's shares and those that wait for redemption,
   so that every settlement can burn its shares and none is recorded as failed. *)
THEOREM EveryShareAccounted == Spec => []SharesAccounted
  <1>1. Init => SharesInv
    BY InitSharesInv
  <1>2. IInv /\ SharesInv /\ [Next]_vars => SharesInv'
    BY SharesStep
  <1>3. IInv /\ SharesInv => SharesAccounted
    <2> SUFFICES ASSUME IInv, SharesInv PROVE SharesAccounted
      OBVIOUS
    <2>1. schedules \cup failed = schedules
      BY DEF SharesInv
    <2> QED BY <2>1, Zenon DEF IInv, SharesInv, SharesAccounted, Owed, Pledged, SumAmounts
  <1> QED BY <1>1, <1>2, <1>3, Invariance, PTL DEF Spec
=============================================================================
