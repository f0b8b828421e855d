------------------------- MODULE InsuranceFundsSteps -------------------------
(***************************************************************************)
(* The inductive invariant of InsuranceFunds (IInv): that it holds at the  *)
(* start and that every step keeps it.  The lemmas say what a redemption   *)
(* pays, what a settlement leaves, how a fund starts, sells shares, covers *)
(* a deficit and takes a request.  InsuranceFundsProofs adds the sums and  *)
(* draws the theorems.                                                     *)
(***************************************************************************)
EXTENDS InsuranceFunds, TLAPS

(* A share denom is the denom of one fund and has no shares before. *)
Denoms ==
    /\ \A m \in Markets : funds[m].denom < nextShareDenom
    /\ \A m, n \in Markets : funds[m].denom = funds[n].denom /\ funds[m].denom # 0 => m = n
    /\ \A d \in ShareDenoms : d >= nextShareDenom => locked[d] = 0 /\ circulating[d] = 0
    /\ \A s \in schedules : s.denom < nextShareDenom
    /\ \A s \in schedules, m \in Markets : funds[m].denom = s.denom => s.market = m

(* Nothing waits to be settled while messages are taken. *)
NothingCollected == phase = "txs" => matured = {}

IInv == TypeOK /\ Denoms /\ NothingCollected /\ TotalIsSupply /\ DebtsCovered

Fund == [denom : 0..MaxShareDenoms, balance : Nat, total : Nat]

(* Quotients are rounded down. *)
LEMMA Quotient ==
    ASSUME NEW x \in Nat, NEW y \in Nat \ {0}
    PROVE  /\ x \div y \in Nat
           /\ (x \div y) * y <= x
  BY Z3

(* Two products compared by one factor. *)
LEMMA ProductMonotone ==
    ASSUME NEW a \in Nat, NEW b \in Nat, NEW c \in Nat, a <= b
    PROVE  a * c <= b * c
  BY Z3

LEMMA ProductCancels ==
    ASSUME NEW a \in Nat, NEW b \in Nat, NEW c \in Nat \ {0}, a * c <= b * c
    PROVE  a <= b
  BY Z3

(* The arithmetic of a redemption: k whole coins back the T shares, and r of
   them are paid for an amount of shares. *)
LEMMA Redeemed ==
    ASSUME NEW B \in Nat, NEW T \in Nat \ {0}, NEW D \in Nat \ {0}, NEW debt \in Int,
           debt <= 0, B * D + debt >= 0, NEW amount \in Nat, amount <= T,
           NEW k, k = (B * D + debt) \div D, NEW r, r = (amount * k) \div T
    PROVE  /\ r \in Nat /\ r <= B
           /\ r * T <= amount * B
           /\ (B - r) * D + debt >= 0
  <1>1. k \in Nat /\ k * D <= B * D + debt
    <2>1. B * D + debt \in Nat
      OBVIOUS
    <2> QED BY <2>1, Quotient
  <1>2. k <= B
    <2>1. k * D <= B * D
      BY <1>1
    <2> QED BY <1>1, <2>1, ProductCancels
  <1>3. r \in Nat /\ r * T <= amount * k
    <2>1. amount * k \in Nat
      BY <1>1
    <2> QED BY <2>1, Quotient
  <1>4. r <= k
    <2>1. amount * k <= T * k
      BY <1>1, ProductMonotone
    <2>2. r * T <= k * T
      BY <1>1, <1>3, <2>1
    <2> QED BY <1>1, <1>3, <2>2, ProductCancels
  <1>5. r * T <= amount * B
    <2>1. k * amount <= B * amount
      BY <1>1, <1>2, ProductMonotone
    <2> QED BY <1>1, <1>3, <2>1
  <1>6. r * D <= k * D
    BY <1>1, <1>3, <1>4, ProductMonotone
  <1> QED BY <1>1, <1>2, <1>3, <1>4, <1>5, <1>6

(* What getRedemptionAmountFromShare pays for shares of the fund is a part of
   its balance, at most theirs, and leaves the market's debt covered. *)
LEMMA RedemptionBounded ==
    ASSUME IInv, NEW m \in Markets, NEW amount \in Nat, amount <= funds[m].total
    PROVE  LET r == getRedemptionAmountFromShare(m, amount)
           IN  /\ r \in Nat
               /\ r <= funds[m].balance
               /\ r * funds[m].total <= amount * funds[m].balance
               /\ (funds[m].balance - r) * DecScale + marketBalance[m] >= 0
  <1> DEFINE r == getRedemptionAmountFromShare(m, amount)
  <1>1. PICK B \in Nat, T \in Nat, mb \in Int :
          B = funds[m].balance /\ T = funds[m].total /\ mb = marketBalance[m]
    BY DEF IInv, TypeOK
  <1> DEFINE debt == IF mb < 0 THEN mb ELSE 0
             k == (B * DecScale + debt) \div DecScale
  <1>2. DecScale \in Nat \ {0} /\ B * DecScale + mb >= 0
    BY <1>1, InsuranceAssumption DEF IInv, DebtsCovered
  <1>3. debt \in Int /\ debt <= 0 /\ debt <= mb /\ B * DecScale + debt >= 0
    BY <1>2
  <1>4. r = IF B * DecScale + debt < 0 \/ T = 0 THEN 0 ELSE (amount * k) \div T
    BY <1>1, Zenon DEF getRedemptionAmountFromShare
  <1> HIDE DEF r, debt
  <1>5. CASE T = 0
    <2>1. r = 0 /\ amount = 0
      BY <1>1, <1>4, <1>5
    <2> QED BY <1>1, <1>2, <2>1 DEF r
  <1>6. CASE T # 0
    <2> HIDE DEF k
    <2>1. r = (amount * k) \div T /\ amount <= T
      BY <1>1, <1>2, <1>3, <1>4, <1>6
    <2>2. /\ r \in Nat /\ r <= B /\ r * T <= amount * B
          /\ (B - r) * DecScale + debt >= 0
      BY <1>2, <1>3, <1>6, <2>1, Redeemed, Zenon DEF k
    <2>3. (B - r) * DecScale + mb >= 0
      BY <1>2, <1>3, <2>2
    <2> QED BY <1>1, <2>2, <2>3 DEF r
  <1> QED BY <1>5, <1>6

(* One fund gets another balance and another total. *)
Changed(m, b, t) == [funds EXCEPT ![m].balance = b, ![m].total = t]

Becomes(m, b, t) ==
    /\ funds' \in [Markets -> Fund] /\ funds'[m].balance = b /\ funds'[m].total = t
    /\ \A n \in Markets : funds'[n].denom = funds[n].denom /\ (n # m => funds'[n] = funds[n])

LEMMA FundChanged ==
    ASSUME TypeOK, NEW m \in Markets, NEW b \in Nat, NEW t \in Nat, funds' = Changed(m, b, t)
    PROVE  Becomes(m, b, t)
  <1>1. funds \in [Markets -> Fund]
    BY DEF TypeOK, Fund
  <1>2. [funds[m] EXCEPT !.balance = b, !.total = t] \in Fund
    BY <1>1, Zenon DEF Fund
  <1>3. Changed(m, b, t) = [funds EXCEPT ![m] = [funds[m] EXCEPT !.balance = b, !.total = t]]
    BY <1>1, Zenon DEF Fund, Changed
  <1>4. funds' \in [Markets -> Fund]
    BY <1>1, <1>2, <1>3
  <1> QED BY <1>1, <1>4 DEF Fund, Changed, Becomes

(* Only the balance changes. *)
LEMMA FundPaid ==
    ASSUME TypeOK, NEW m \in Markets, NEW b \in Nat, funds' = [funds EXCEPT ![m].balance = b]
    PROVE  Becomes(m, b, funds[m].total) /\ funds[m].total \in Nat
  <1>1. funds \in [Markets -> Fund] /\ funds[m].total \in Nat
    BY DEF TypeOK, Fund
  <1>2. funds' = Changed(m, b, funds[m].total)
    BY <1>1, Zenon DEF Changed, Fund
  <1> QED BY <1>1, <1>2, FundChanged, Zenon

LEMMA SameFunds ==
    ASSUME TypeOK, funds' = funds
    PROVE  KeepsValue
  <1>1. \A m \in Markets : funds[m].balance * funds[m].total \in Nat
    BY DEF TypeOK
  <1> QED BY <1>1 DEF KeepsValue

(* Only the value of the shares of m has to be looked at. *)
LEMMA OneFund ==
    ASSUME TypeOK, NEW m \in Markets, \A n \in Markets : n # m => funds'[n] = funds[n],
           funds'[m].denom = funds[m].denom =>
             funds'[m].balance * funds[m].total >= funds[m].balance * funds'[m].total
    PROVE  KeepsValue
  <1>1. \A n \in Markets : funds[n].balance * funds[n].total \in Nat
    BY DEF TypeOK
  <1> QED BY <1>1 DEF KeepsValue

(* settleRedemption pays out of one fund, and either burns the shares and takes
   them from its total or does nothing to it. *)
LEMMA SettleBounded ==
    ASSUME IInv, NEW s \in Schedule, NEW held \in Nat, NEW delivered \in BOOLEAN,
           funds[s.market].denom = s.denom => held <= funds[s.market].total,
           settleRedemption(s, held, delivered)
    PROVE  /\ funds' \in [Markets -> Fund]
           /\ module' \in Nat
           /\ vouchers' \in [Accounts -> [{Quote} -> Nat]]
           /\ failed' \subseteq Schedule
           /\ \A m \in Markets : funds'[m].denom = funds[m].denom
           /\ \A m \in Markets : m # s.market => funds'[m] = funds[m]
           /\ funds'[s.market].total =
                IF funds[s.market].denom = s.denom
                THEN funds[s.market].total - (held - Burned(s, held))
                ELSE funds[s.market].total
           /\ \A m \in Markets : funds'[m].balance * DecScale + marketBalance[m] >= 0
           /\ KeepsValue
  <1> DEFINE n == s.market
             current == funds[n].denom = s.denom
             r == getRedemptionAmountFromShare(n, s.amount)
             amount == IF current THEN r ELSE 0
             sent == delivered /\ module >= amount
  <1>1. /\ n \in Markets /\ s.amount \in Nat /\ s.redeemer \in Accounts
        /\ funds \in [Markets -> Fund] /\ module \in Nat /\ TypeOK
        /\ vouchers \in [Accounts -> [{Quote} -> Nat]] /\ failed \subseteq Schedule
        /\ \A m \in Markets : funds[m].balance * DecScale + marketBalance[m] >= 0
    BY Zenon DEF IInv, TypeOK, Schedule, Fund, DebtsCovered
  <1>2. funds[n].total \in Nat /\ funds[n].balance \in Nat
    BY <1>1 DEF Fund
  <1>3. CASE held < s.amount
    <2>1. /\ failed' \subseteq Schedule
          /\ funds' = funds /\ module' = module /\ vouchers' = vouchers
      BY <1>1, <1>3 DEF settleRedemption
    <2>2. funds[n].total = funds[n].total - (held - Burned(s, held))
      BY <1>2, <1>3 DEF Burned
    <2>3. KeepsValue
      BY <1>1, <2>1, SameFunds
    <2> QED BY <1>1, <2>1, <2>2, <2>3, Zenon
  <1>4. CASE ~(held < s.amount)
    <2>1. /\ funds' = IF current
                THEN [funds EXCEPT ![n].balance = @ - amount, ![n].total = @ - s.amount]
                ELSE funds
          /\ module' = IF sent THEN module - amount ELSE module
          /\ vouchers' = IF sent THEN vouchers
                         ELSE AddVoucher(vouchers, s.redeemer, Quote, amount)
          /\ failed' \subseteq Schedule
      BY <1>1, <1>4, Zenon DEF settleRedemption
    <2>2. Burned(s, held) = held - s.amount /\ (current => s.amount <= funds[n].total)
      BY <1>1, <1>2, <1>4 DEF Burned
    <2>3. current => /\ r \in Nat /\ r <= funds[n].balance
                     /\ r * funds[n].total <= s.amount * funds[n].balance
                     /\ (funds[n].balance - r) * DecScale + marketBalance[n] >= 0
      BY <1>1, <2>2, RedemptionBounded
    <2> HIDE DEF r
    <2>4. amount \in Nat
      BY <2>3
    <2>5. module' \in Nat
      <3> HIDE DEF amount
      <3> QED BY <1>1, <2>1, <2>4
    <2>6. vouchers' \in [Accounts -> [{Quote} -> Nat]]
      <3> DEFINE row == [vouchers[s.redeemer] EXCEPT ![Quote] = vouchers[s.redeemer][Quote] + amount]
      <3> HIDE DEF amount, sent
      <3>1. row \in [{Quote} -> Nat]
        BY <1>1, <2>4
      <3>2. AddVoucher(vouchers, s.redeemer, Quote, amount) = [vouchers EXCEPT ![s.redeemer] = row]
        BY Zenon DEF AddVoucher, GetVoucher
      <3> HIDE DEF row
      <3> QED BY <1>1, <2>1, <3>1, <3>2, Zenon
    <2>7. CASE ~current
      <3>1. funds' = funds /\ KeepsValue
        BY <1>1, <2>1, <2>7, SameFunds
      <3> QED BY <1>1, <2>1, <2>5, <2>6, <2>7, <3>1, Zenon
    <2>8. CASE current
      <3> DEFINE b == funds[n].balance - r
                 t == funds[n].total - s.amount
      <3>1. funds' = Changed(n, b, t) /\ b \in Nat /\ t \in Nat
        BY <1>1, <1>2, <2>1, <2>2, <2>3, <2>8 DEF Changed
      <3> HIDE DEF n, current, amount, sent
      <3>2. b * funds[n].total >= funds[n].balance * t
        BY <1>1, <1>2, <2>3, <2>8
      <3>3. t = funds[n].total - (held - Burned(s, held))
        BY <1>1, <1>2, <2>2
      <3>4. b * DecScale + marketBalance[n] >= 0
        BY <2>3, <2>8
      <3> HIDE DEF b, t
      <3>5. /\ funds' \in [Markets -> Fund] /\ funds'[n].balance = b /\ funds'[n].total = t
            /\ \A m \in Markets : /\ funds'[m].denom = funds[m].denom
                                  /\ m # n => funds'[m] = funds[m]
        BY <1>1, <3>1, FundChanged, Zenon DEF Becomes
      <3>6. KeepsValue
        BY <1>1, <3>2, <3>5, OneFund
      <3>7. \A m \in Markets : funds'[m].balance * DecScale + marketBalance[m] >= 0
        BY <1>1, <3>4, <3>5, Zenon
      <3>8. funds[s.market].denom = s.denom
        BY <2>8 DEF n, current
      <3> QED BY <2>1, <2>5, <2>6, <3>3, <3>5, <3>6, <3>7, <3>8, Zenon DEF n
    <2> QED BY <2>7, <2>8, Zenon
  <1> QED BY <1>3, <1>4, Zenon

(* Shares of one denom are minted, moved or burned, and the fund with this
   denom, if there is one, counts them. *)
LEMMA SharesMove ==
    ASSUME IInv, NEW m \in Markets, NEW d \in ShareDenoms, d < nextShareDenom,
           nextShareDenom' = nextShareDenom,
           \A n \in Markets : funds[n].denom = d => n = m,
           \A n \in Markets : funds'[n].denom = funds[n].denom,
           \A n \in Markets : n # m => funds'[n] = funds[n],
           funds'[m].total = IF funds[m].denom = d THEN locked'[d] + circulating'[d]
                                                   ELSE funds[m].total,
           \A e \in ShareDenoms : e # d => /\ locked'[e] = locked[e]
                                           /\ circulating'[e] = circulating[e],
           \A t \in schedules' : t \in schedules \/ (t.denom = d /\ t.market = m)
    PROVE  Denoms' /\ TotalIsSupply'
  <1>1. Denoms'
    <2>1. /\ \A n \in Markets : funds[n].denom < nextShareDenom
          /\ \A n, o \in Markets :
               funds[n].denom = funds[o].denom /\ funds[n].denom # 0 => n = o
          /\ \A e \in ShareDenoms : e >= nextShareDenom => locked[e] = 0 /\ circulating[e] = 0
          /\ \A t \in schedules : t.denom < nextShareDenom
          /\ \A t \in schedules, n \in Markets : funds[n].denom = t.denom => t.market = n
      BY Zenon DEF IInv, Denoms
    <2>2. \A e \in ShareDenoms : e >= nextShareDenom => e # d
      BY InsuranceAssumption DEF IInv, TypeOK, ShareDenoms
    <2>3. \A n, o \in Markets : funds'[n].denom = funds'[o].denom
                                /\ funds'[n].denom # 0 => n = o
      BY <2>1
    <2>4. \A e \in ShareDenoms : e >= nextShareDenom => locked'[e] = 0 /\ circulating'[e] = 0
      BY <2>1, <2>2, Zenon
    <2>5. /\ \A t \in schedules' : t.denom < nextShareDenom
          /\ \A t \in schedules', n \in Markets : funds'[n].denom = t.denom => t.market = n
      BY <2>1
    <2> QED BY <2>1, <2>3, <2>4, <2>5 DEF Denoms
  <1>2. ASSUME NEW n \in Markets, funds[n].denom # 0
        PROVE  funds'[n].total = locked'[funds[n].denom] + circulating'[funds[n].denom]
    <2>1. /\ funds[n].denom \in ShareDenoms
          /\ funds[n].total = locked[funds[n].denom] + circulating[funds[n].denom]
      <3>1. funds[n].denom \in 0..MaxShareDenoms
        BY DEF IInv, TypeOK
      <3> QED BY <1>2, <3>1, InsuranceAssumption
              DEF IInv, TotalIsSupply, HasInsuranceFund, ShareDenoms
    <2> QED BY <2>1, Zenon
  <1> QED BY <1>1, <1>2, Zenon DEF TotalIsSupply, HasInsuranceFund

(* Nothing happens to shares. *)
LEMMA SharesStay ==
    ASSUME IInv, UNCHANGED <<nextShareDenom, schedules, locked, circulating>>,
           \A n \in Markets : funds'[n].denom = funds[n].denom /\ funds'[n].total = funds[n].total
    PROVE  Denoms' /\ TotalIsSupply'
  <1>1. Denoms'
    BY DEF IInv, Denoms
  <1> QED BY <1>1 DEF IInv, TotalIsSupply, HasInsuranceFund

(* The shares of a fund. *)
LEMMA FundShares ==
    ASSUME IInv, NEW m \in Markets, HasInsuranceFund(m)
    PROVE  /\ funds[m].denom \in ShareDenoms /\ funds[m].denom < nextShareDenom
           /\ locked[funds[m].denom] \in Nat /\ circulating[funds[m].denom] \in Nat
           /\ funds[m].total = locked[funds[m].denom] + circulating[funds[m].denom]
           /\ \A n \in Markets : funds[n].denom = funds[m].denom => n = m
  <1>1. funds[m].denom \in ShareDenoms
    <2>1. funds[m].denom \in 0..MaxShareDenoms /\ MaxShareDenoms \in Nat
      BY InsuranceAssumption DEF IInv, TypeOK
    <2> QED BY <2>1 DEF HasInsuranceFund, ShareDenoms
  <1>2. locked[funds[m].denom] \in Nat /\ circulating[funds[m].denom] \in Nat
    BY <1>1 DEF IInv, TypeOK
  <1> QED BY <1>1, <1>2 DEF IInv, Denoms, TotalIsSupply, HasInsuranceFund

(* A fund that grows still covers what its market owes. *)
LEMMA DebtsStay ==
    ASSUME IInv, NEW m \in Markets, NEW b \in Nat, funds[m].balance <= b,
           funds'[m].balance = b, \A n \in Markets : n # m => funds'[n] = funds[n],
           marketBalance' = marketBalance
    PROVE  DebtsCovered'
  <1>1. /\ funds[m].balance \in Nat /\ marketBalance[m] \in Int /\ DecScale \in Nat
        /\ \A n \in Markets : funds[n].balance * DecScale + marketBalance[n] >= 0
    BY InsuranceAssumption DEF IInv, TypeOK, DebtsCovered
  <1>2. funds[m].balance * DecScale <= b * DecScale
    BY <1>1, ProductMonotone
  <1>3. b * DecScale + marketBalance[m] >= 0
    BY <1>1, <1>2
  <1> QED BY <1>1, <1>3 DEF DebtsCovered

LEMMA InitIInv == Init => IInv
  <1> SUFFICES ASSUME Init PROVE IInv
    OBVIOUS
  <1> USE InsuranceAssumption
  <1>1. TypeOK
    BY DEF Init, TypeOK, NoFund, NoVouchers, ShareDenoms
  <1>2. Denoms /\ NothingCollected
    BY DEF Init, Denoms, NoFund, NothingCollected
  <1>3. TotalIsSupply /\ DebtsCovered
    BY DEF Init, TotalIsSupply, HasInsuranceFund, DebtsCovered, NoFund
  <1> QED BY <1>1, <1>2, <1>3 DEF IInv

(* A fund that starts, or starts anew, has a denom that no fund has had. *)
LEMMA StartFundStep ==
    ASSUME IInv, NEW m \in Markets, NEW amount \in Deposits,
           module' = module + amount, StartFund(m, amount),
           UNCHANGED <<time, phase, scheduling, vouchers, market>>
    PROVE  IInv' /\ KeepsValue
  <1> DEFINE d == nextShareDenom
             fund == [denom |-> d, balance |-> funds[m].balance + amount,
                      total |-> ProtocolSupply + CreatorSupply]
  <1>1. /\ amount \in Nat /\ ProtocolSupply \in Nat /\ CreatorSupply \in Nat
        /\ MaxShareDenoms \in Nat
    BY InsuranceAssumption
  <1>2. TypeOK /\ Denoms /\ NothingCollected /\ TotalIsSupply
    BY DEF IInv
  <1>3. /\ d \in 1..MaxShareDenoms /\ d \in ShareDenoms
        /\ nextShareDenom' = d + 1
        /\ funds' = [funds EXCEPT ![m] = fund]
        /\ locked' = [locked EXCEPT ![d] = @ + ProtocolSupply]
        /\ circulating' = [circulating EXCEPT ![d] = @ + CreatorSupply]
        /\ locked[d] = 0 /\ circulating[d] = 0
    BY <1>1, <1>2 DEF StartFund, ShareDenoms, Denoms, TypeOK
  <1>4. /\ fund \in Fund /\ funds \in [Markets -> Fund] /\ funds[m].balance \in Nat
        /\ fund.balance = funds[m].balance + amount
        /\ fund.denom = d /\ fund.total = ProtocolSupply + CreatorSupply
    BY <1>1, <1>2, <1>3 DEF TypeOK, Fund
  <1> HIDE DEF fund
  <1>5. /\ funds' \in [Markets -> Fund] /\ funds'[m] = fund
        /\ \A n \in Markets : n # m => funds'[n] = funds[n]
    BY <1>3, <1>4
  <1>6. /\ locked' \in [ShareDenoms -> Nat] /\ circulating' \in [ShareDenoms -> Nat]
        /\ locked'[d] = ProtocolSupply /\ circulating'[d] = CreatorSupply
        /\ \A e \in ShareDenoms : e # d => /\ locked'[e] = locked[e]
                                           /\ circulating'[e] = circulating[e]
    BY <1>1, <1>2, <1>3 DEF TypeOK
  <1>7. TypeOK'
    <2>1. module' \in Nat /\ nextShareDenom' \in 1..(MaxShareDenoms + 1)
      BY <1>1, <1>2, <1>3 DEF TypeOK
    <2> QED BY <1>2, <1>5, <1>6, <2>1, Zenon DEF TypeOK, Fund, scheduling, market
  <1>8. \A n \in Markets : funds[n].denom < d /\ funds[n].denom \in Nat
    BY <1>2, <1>4 DEF Denoms, Fund
  <1>9. Denoms'
    <2>1. \A n \in Markets : funds'[n].denom < nextShareDenom'
      BY <1>3, <1>4, <1>5, <1>8
    <2>2. \A n, o \in Markets : funds'[n].denom = funds'[o].denom
                                /\ funds'[n].denom # 0 => n = o
      BY <1>2, <1>3, <1>4, <1>5, <1>8 DEF Denoms
    <2>3. \A e \in ShareDenoms : e >= nextShareDenom' => locked'[e] = 0 /\ circulating'[e] = 0
      BY <1>2, <1>3, <1>6 DEF Denoms, ShareDenoms
    <2>4. schedules' = schedules /\ \A s \in schedules : s.denom \in Nat /\ s.denom < d
      BY <1>1, <1>2 DEF Denoms, scheduling, TypeOK, Schedule, ShareDenoms
    <2>5. \A s \in schedules : s.denom < nextShareDenom'
      BY <1>3, <2>4
    <2>6. \A s \in schedules, n \in Markets : funds'[n].denom = s.denom => s.market = n
      BY <1>2, <1>3, <1>4, <1>5, <2>4 DEF Denoms
    <2> QED BY <2>1, <2>2, <2>3, <2>4, <2>5, <2>6 DEF Denoms
  <1>10. TotalIsSupply'
    <2> SUFFICES ASSUME NEW n \in Markets, funds'[n].denom # 0
                 PROVE  funds'[n].total
                          = locked'[funds'[n].denom] + circulating'[funds'[n].denom]
      BY DEF TotalIsSupply, HasInsuranceFund
    <2>1. CASE n = m
      BY <1>4, <1>5, <1>6, <2>1
    <2>2. CASE n # m
      <3>1. funds'[n] = funds[n] /\ HasInsuranceFund(n) /\ funds[n].denom # d
        BY <1>3, <1>5, <1>8, <2>2 DEF HasInsuranceFund
      <3> QED BY <1>6, <3>1, FundShares
    <2> QED BY <2>1, <2>2
  <1>11. DebtsCovered'
    <2>1. funds[m].balance <= funds[m].balance + amount /\ funds[m].balance + amount \in Nat
      BY <1>1, <1>4
    <2> QED BY <1>4, <1>5, <2>1, DebtsStay, Zenon DEF market
  <1>12. KeepsValue
    <2>1. funds'[m].denom # funds[m].denom
      BY <1>3, <1>4, <1>5, <1>8
    <2> QED BY <1>2, <1>5, <2>1, OneFund
  <1>13. NothingCollected'
    BY <1>2 DEF NothingCollected, scheduling
  <1> QED BY <1>7, <1>9, <1>10, <1>11, <1>12, <1>13 DEF IInv

(* New shares are rounded down, so they are worth at most what is paid. *)
LEMMA BuySharesStep ==
    ASSUME IInv, NEW m \in Markets, NEW amount \in Deposits,
           HasInsuranceFund(m), funds[m].balance > 0,
           module' = module + amount, BuyShares(m, amount),
           UNCHANGED <<time, phase, scheduling, vouchers, market>>
    PROVE  IInv' /\ KeepsValue
  <1> DEFINE d == funds[m].denom
             B == funds[m].balance
             T == funds[m].total
             minted == ShareTokenAmount(funds[m], amount)
  <1>1. amount \in Nat /\ TypeOK /\ NothingCollected
    BY InsuranceAssumption DEF IInv
  <1>2. /\ B \in Nat \ {0} /\ T \in Nat /\ module \in Nat
        /\ locked \in [ShareDenoms -> Nat] /\ circulating \in [ShareDenoms -> Nat]
    BY <1>1 DEF TypeOK
  <1>3. /\ d \in ShareDenoms /\ d < nextShareDenom
        /\ locked[d] \in Nat /\ circulating[d] \in Nat /\ T = locked[d] + circulating[d]
        /\ \A n \in Markets : funds[n].denom = d => n = m
    BY FundShares, Zenon
  <1>4. minted = (T * amount) \div B
    BY DEF ShareTokenAmount
  <1>5. /\ funds' = [funds EXCEPT ![m].balance = B + amount, ![m].total = T + minted]
        /\ circulating' = [circulating EXCEPT ![d] = circulating[d] + minted]
        /\ locked' = locked /\ nextShareDenom' = nextShareDenom
    BY DEF BuyShares
  <1> HIDE DEF minted, B, T, d
  <1>6. minted \in Nat /\ minted * B <= T * amount
    <2>1. T * amount \in Nat
      BY <1>1, <1>2
    <2> QED BY <1>2, <1>4, <2>1, Quotient
  <1>7. B + amount \in Nat /\ T + minted \in Nat /\ B <= B + amount /\ module' \in Nat
    BY <1>1, <1>2, <1>6
  <1>8. Becomes(m, B + amount, T + minted)
    <2>1. funds' = Changed(m, B + amount, T + minted)
      BY <1>5 DEF Changed
    <2> QED BY <1>1, <1>7, <2>1, FundChanged, Zenon
  <1>9. /\ funds' \in [Markets -> Fund] /\ funds'[m].balance = B + amount
        /\ funds'[m].total = T + minted
        /\ \A n \in Markets : funds'[n].denom = funds[n].denom
        /\ \A n \in Markets : n # m => funds'[n] = funds[n]
    BY <1>8, Zenon DEF Becomes
  <1>10. /\ circulating' \in [ShareDenoms -> Nat] /\ circulating'[d] = circulating[d] + minted
         /\ \A e \in ShareDenoms : e # d => circulating'[e] = circulating[e]
    BY <1>2, <1>3, <1>5, <1>6
  <1>11. TypeOK'
    BY <1>1, <1>5, <1>7, <1>9, <1>10, Zenon DEF TypeOK, Fund, scheduling, market
  <1>12. Denoms' /\ TotalIsSupply'
    <2>1. funds'[m].total = locked'[d] + circulating'[d]
      BY <1>3, <1>5, <1>6, <1>9, <1>10
    <2>2. /\ \A e \in ShareDenoms : e # d => /\ locked'[e] = locked[e]
                                             /\ circulating'[e] = circulating[e]
          /\ schedules' = schedules
      BY <1>5, <1>10 DEF scheduling
    <2> QED BY <1>3, <1>5, <1>9, <2>1, <2>2, SharesMove DEF d
  <1>13. DebtsCovered'
    BY <1>7, <1>9, DebtsStay, Zenon DEF market, B
  <1>14. KeepsValue
    <2>1. (B + amount) * T >= B * (T + minted)
      BY <1>1, <1>2, <1>6, Z3
    <2> QED BY <1>1, <1>9, <2>1, OneFund DEF B, T
  <1>15. NothingCollected'
    BY <1>1 DEF NothingCollected, scheduling
  <1> QED BY <1>11, <1>12, <1>13, <1>14, <1>15 DEF IInv

LEMMA CeilNat ==
    ASSUME NEW x \in Nat
    PROVE  Ceil(x) \in Nat
  <1>1. DecScale \in Nat \ {0}
    BY InsuranceAssumption
  <1> QED BY <1>1, Z3 DEF Ceil

(* Coins that leave the fund for the market balance cover as much there. *)
LEMMA WithdrawStep ==
    ASSUME IInv, NEW m \in Markets, MarketOp(m), NEW amount \in Nat,
           amount <= funds[m].balance, Withdraw(m, amount)
    PROVE  IInv' /\ (~Draws => KeepsValue)
  <1> DEFINE B == funds[m].balance
             M == marketBalance[m]
             T == funds[m].total
  <1>1. /\ DecScale \in Nat \ {0} /\ TypeOK /\ DebtsCovered /\ NothingCollected
        /\ B \in Nat /\ M \in Int /\ module \in Nat
        /\ marketBalance \in [Markets -> Int] /\ marketOps \in Nat
    BY InsuranceAssumption, Zenon DEF IInv, TypeOK
  <1>2. /\ funds' = [funds EXCEPT ![m].balance = B - amount]
        /\ module' = module - amount /\ module >= amount
        /\ marketBalance' = [marketBalance EXCEPT ![m] = M + amount * DecScale]
        /\ closed' = closed /\ marketOps' = marketOps + 1
        /\ UNCHANGED <<time, phase, nextShareDenom, schedules, nextSchedule, failed,
                       matured, vouchers, locked, circulating>>
    BY DEF Withdraw, MarketOp, scheduling
  <1> HIDE DEF B, M, T
  <1>3. /\ B - amount \in Nat /\ module' \in Nat /\ marketOps' \in Nat
        /\ M + amount * DecScale \in Int
    BY <1>1, <1>2 DEF B
  <1>4. Becomes(m, B - amount, T) /\ T \in Nat
    BY <1>1, <1>2, <1>3, FundPaid, Zenon DEF T
  <1>5. /\ funds' \in [Markets -> Fund] /\ funds'[m].balance = B - amount
        /\ funds'[m].total = funds[m].total
        /\ \A n \in Markets : funds'[n].denom = funds[n].denom /\ (n # m => funds'[n] = funds[n])
    BY <1>4, Zenon DEF Becomes, T
  <1>6. /\ marketBalance' \in [Markets -> Int] /\ marketBalance'[m] = M + amount * DecScale
        /\ \A n \in Markets : n # m => marketBalance'[n] = marketBalance[n]
    BY <1>1, <1>2, <1>3
  <1>7. TypeOK'
    BY <1>1, <1>2, <1>3, <1>5, <1>6, Zenon DEF TypeOK, Fund
  <1>8. Denoms' /\ TotalIsSupply'
    BY <1>2, <1>5, SharesStay
  <1>9. NothingCollected'
    BY <1>1, <1>2 DEF NothingCollected
  <1>10. DebtsCovered'
    <2>1. B * DecScale + M >= 0
      BY <1>1 DEF DebtsCovered, B, M
    <2>2. (B - amount) * DecScale + (M + amount * DecScale) = B * DecScale + M
      BY <1>1, Z3
    <2> QED BY <1>1, <1>5, <1>6, <2>1, <2>2 DEF DebtsCovered
  <1>11. ASSUME ~Draws PROVE KeepsValue
    <2>1. ~(M + amount * DecScale > M)
      BY <1>6, <1>11, Zenon DEF Draws, M
    <2>2. amount # 0 => amount * DecScale > 0
      BY <1>1, Z3
    <2>3. amount = 0
      BY <1>1, <2>1, <2>2
    <2>4. (B - amount) * T >= B * T
      BY <1>1, <1>4, <2>3
    <2> QED BY <1>1, <1>5, <2>4, OneFund DEF B, T
  <1> QED BY <1>7, <1>8, <1>9, <1>10, <1>11 DEF IInv

(* The steps of the exchange: no delta and no draw exceeds what balance and
   fund hold together. *)
LEMMA MarketStep ==
    ASSUME IInv, NEW m \in Launched,
           \/ \E delta \in BalanceDeltas : ApplyMarketBalanceDelta(m, delta)
           \/ \E deficit \in Deficits : PayDeficitFromInsuranceFund(m, deficit)
           \/ TransferFullInsuranceFundBalance(m)
           \/ \E amount \in Surpluses : MoveCoinsIntoInsuranceFund(m, amount)
           \/ CloseMarket(m)
    PROVE  IInv' /\ (~Draws => KeepsValue)
  <1> DEFINE B == funds[m].balance
             M == marketBalance[m]
             T == funds[m].total
  <1>1. /\ m \in Markets /\ DecScale \in Nat /\ BalanceDeltas \subseteq Int
        /\ Deficits \subseteq Nat /\ Surpluses \subseteq Nat
        /\ TypeOK /\ NothingCollected /\ DebtsCovered
    BY InsuranceAssumption DEF IInv
  <1>2. /\ funds \in [Markets -> Fund] /\ B \in Nat /\ T \in Nat /\ M \in Int
        /\ marketBalance \in [Markets -> Int] /\ module \in Nat /\ marketOps \in Nat
    BY <1>1 DEF TypeOK, Fund
  <1>3. ASSUME MarketOp(m)
        PROVE  /\ marketOps' \in Nat /\ NothingCollected'
               /\ UNCHANGED <<time, phase, nextShareDenom, schedules, nextSchedule, failed,
                              matured, vouchers, locked, circulating>>
    BY <1>1, <1>2, <1>3 DEF MarketOp, scheduling, NothingCollected
  <1>4. ASSUME NEW delta \in BalanceDeltas, ApplyMarketBalanceDelta(m, delta)
        PROVE  IInv' /\ KeepsValue
    <2>1. /\ MarketOp(m) /\ M + B * DecScale + delta >= 0
          /\ marketBalance' = [marketBalance EXCEPT ![m] = M + delta]
          /\ funds' = funds /\ module' = module /\ closed' = closed
      BY <1>4 DEF ApplyMarketBalanceDelta
    <2> HIDE DEF B, M, T
    <2>2. M + delta \in Int /\ B * DecScale + (M + delta) >= 0
      BY <1>1, <1>2, <2>1
    <2>3. /\ marketBalance' \in [Markets -> Int] /\ marketBalance'[m] = M + delta
          /\ \A n \in Markets : n # m => marketBalance'[n] = marketBalance[n]
      BY <1>1, <1>2, <2>1, <2>2
    <2>4. TypeOK'
      BY <1>1, <1>3, <2>1, <2>3, Zenon DEF TypeOK
    <2>5. Denoms' /\ TotalIsSupply'
      BY <1>3, <2>1, SharesStay
    <2>6. DebtsCovered'
      BY <1>1, <2>1, <2>2, <2>3 DEF DebtsCovered, B
    <2> QED BY <1>1, <1>3, <2>1, <2>4, <2>5, <2>6, SameFunds DEF IInv
  <1>5. ASSUME NEW deficit \in Deficits, PayDeficitFromInsuranceFund(m, deficit)
        PROVE  IInv' /\ (~Draws => KeepsValue)
    <2>1. MarketOp(m) /\ Withdraw(m, Payable(m, deficit))
      BY <1>5 DEF PayDeficitFromInsuranceFund
    <2>2. Ceil(deficit) \in Nat
      BY <1>1, CeilNat
    <2>3. Payable(m, deficit) \in Nat /\ Payable(m, deficit) <= funds[m].balance
      BY <1>2, <2>2 DEF Payable
    <2> QED BY <1>1, <2>1, <2>3, WithdrawStep
  <1>6. ASSUME TransferFullInsuranceFundBalance(m)
        PROVE  IInv' /\ (~Draws => KeepsValue)
    <2>1. MarketOp(m) /\ Withdraw(m, funds[m].balance)
      BY <1>6 DEF TransferFullInsuranceFundBalance
    <2> QED BY <1>1, <1>2, <2>1, WithdrawStep
  <1>7. ASSUME NEW amount \in Surpluses, MoveCoinsIntoInsuranceFund(m, amount)
        PROVE  IInv' /\ KeepsValue
    <2>1. /\ MarketOp(m) /\ funds' = [funds EXCEPT ![m].balance = B + amount]
          /\ module' = module + amount
          /\ marketBalance' = marketBalance /\ closed' = closed
      BY <1>7 DEF MoveCoinsIntoInsuranceFund
    <2> HIDE DEF B, M, T
    <2>2. B + amount \in Nat /\ B <= B + amount /\ module' \in Nat
      BY <1>1, <1>2, <2>1
    <2>3. Becomes(m, B + amount, T)
      BY <1>1, <2>1, <2>2, FundPaid, Zenon DEF T
    <2>4. /\ funds' \in [Markets -> Fund] /\ funds'[m].balance = B + amount
          /\ funds'[m].total = funds[m].total
          /\ \A n \in Markets : funds'[n].denom = funds[n].denom /\ (n # m => funds'[n] = funds[n])
      BY <2>3, Zenon DEF Becomes, T
    <2>5. TypeOK'
      BY <1>1, <1>3, <2>1, <2>2, <2>4, Zenon DEF TypeOK, Fund
    <2>6. Denoms' /\ TotalIsSupply'
      BY <1>3, <2>1, <2>4, SharesStay
    <2>7. DebtsCovered'
      BY <1>1, <2>1, <2>2, <2>4, DebtsStay DEF B
    <2>8. KeepsValue
      <3>1. B * T <= (B + amount) * T /\ B * T \in Nat /\ (B + amount) * T \in Nat
        BY <1>2, <2>2, ProductMonotone
      <3> QED BY <1>1, <2>4, <3>1, OneFund DEF B, T
    <2> QED BY <1>3, <2>1, <2>5, <2>6, <2>7, <2>8 DEF IInv
  <1>8. ASSUME CloseMarket(m)
        PROVE  IInv' /\ KeepsValue
    <2>1. /\ MarketOp(m) /\ closed' \subseteq Markets
          /\ funds' = funds /\ module' = module /\ marketBalance' = marketBalance
      BY <1>1, <1>8 DEF CloseMarket, TypeOK
    <2>2. TypeOK'
      BY <1>1, <1>3, <2>1, Zenon DEF TypeOK
    <2>3. Denoms' /\ TotalIsSupply'
      BY <1>3, <2>1, SharesStay
    <2>4. DebtsCovered'
      BY <1>1, <2>1 DEF DebtsCovered
    <2> QED BY <1>1, <1>3, <2>1, <2>2, <2>3, <2>4, SameFunds DEF IInv
  <1> QED BY <1>4, <1>5, <1>6, <1>7, <1>8

(* The module holds no more shares than a fund has in all. *)
LEMMA HeldBounded ==
    ASSUME IInv, NEW s \in schedules
    PROVE  /\ s \in Schedule /\ s.denom \in ShareDenoms /\ locked[s.denom] \in Nat
           /\ funds[s.market].denom = s.denom =>
                /\ funds[s.market].total = locked[s.denom] + circulating[s.denom]
                /\ locked[s.denom] <= funds[s.market].total
  <1>1. /\ s \in Schedule /\ s.market \in Markets /\ s.denom \in ShareDenoms
        /\ locked[s.denom] \in Nat /\ circulating[s.denom] \in Nat
    BY DEF IInv, TypeOK, Schedule
  <1>2. s.denom # 0
    BY <1>1, InsuranceAssumption DEF ShareDenoms
  <1>3. funds[s.market].denom = s.denom =>
          funds[s.market].total = locked[s.denom] + circulating[s.denom]
    BY <1>1, <1>2 DEF IInv, TotalIsSupply, HasInsuranceFund
  <1> QED BY <1>1, <1>3

(* A redemption that falls due. *)
LEMMA ProcessStep ==
    ASSUME IInv, NEW s \in matured, NEW delivered \in BOOLEAN,
           processRedemption(s, delivered)
    PROVE  IInv' /\ KeepsValue
  <1> DEFINE d == s.denom
             m == s.market
             held == locked[d]
             left == Burned(s, held)
  <1>1. TypeOK /\ Denoms /\ s \in schedules
    BY Zenon DEF IInv, TypeOK
  <1>2. /\ s \in Schedule /\ d \in ShareDenoms /\ held \in Nat
        /\ funds[m].denom = d => funds[m].total = held + circulating[d] /\ held <= funds[m].total
    BY <1>1, HeldBounded
  <1>3. /\ matured' = matured \ {s} /\ schedules' = schedules \ {s}
        /\ locked' = [locked EXCEPT ![d] = left]
        /\ settleRedemption(s, held, delivered)
        /\ phase = "withdraw"
        /\ UNCHANGED <<time, phase, nextShareDenom, nextSchedule, circulating,
                       marketBalance, closed, marketOps>>
    BY DEF processRedemption, market
  <1>4. /\ m \in Markets /\ left \in Nat /\ circulating[d] \in Nat /\ d < nextShareDenom
        /\ \A n \in Markets : funds[n].denom = d => n = m
    BY <1>1, <1>2 DEF Denoms, TypeOK, Schedule, Burned
  <1>5. /\ funds' \in [Markets -> Fund]
        /\ module' \in Nat
        /\ vouchers' \in [Accounts -> [{Quote} -> Nat]]
        /\ failed' \subseteq Schedule
        /\ \A n \in Markets : funds'[n].denom = funds[n].denom
        /\ \A n \in Markets : n # m => funds'[n] = funds[n]
        /\ funds'[m].total = IF funds[m].denom = d THEN funds[m].total - (held - left)
                                                   ELSE funds[m].total
        /\ \A n \in Markets : funds'[n].balance * DecScale + marketBalance[n] >= 0
        /\ KeepsValue
    BY <1>2, <1>3, SettleBounded, Zenon
  <1> HIDE DEF held, left, m, d
  <1>6. /\ locked' \in [ShareDenoms -> Nat] /\ locked'[d] = left
        /\ \A e \in ShareDenoms : e # d => locked'[e] = locked[e]
    BY <1>1, <1>2, <1>3, <1>4 DEF TypeOK
  <1>7. TypeOK'
    <2>1. matured' \subseteq schedules' /\ schedules' \subseteq Schedule
      BY <1>1, <1>3 DEF TypeOK
    <2> QED BY <1>1, <1>3, <1>5, <1>6, <2>1, Zenon DEF TypeOK, Fund
  <1>8. Denoms' /\ TotalIsSupply'
    <2>1. funds'[m].total = IF funds[m].denom = d THEN locked'[d] + circulating'[d]
                                                  ELSE funds[m].total
      <3>1. funds[m].denom = d => funds[m].total - (held - left) = left + circulating[d]
        BY <1>2, <1>4
      <3> QED BY <1>3, <1>5, <1>6, <3>1, Zenon
    <2>2. \A t \in schedules' : t \in schedules
      BY <1>3
    <2>3. \A e \in ShareDenoms : e # d => /\ locked'[e] = locked[e]
                                          /\ circulating'[e] = circulating[e]
      BY <1>3, <1>6, Zenon
    <2>4. /\ \A n \in Markets : funds'[n].denom = funds[n].denom
          /\ \A n \in Markets : n # m => funds'[n] = funds[n]
          /\ nextShareDenom' = nextShareDenom
      BY <1>3, <1>5, Zenon
    <2> QED BY <1>2, <1>4, <2>1, <2>2, <2>3, <2>4, SharesMove
  <1>9. DebtsCovered' /\ NothingCollected'
    BY <1>3, <1>5 DEF DebtsCovered, NothingCollected
  <1> QED BY <1>5, <1>7, <1>8, <1>9 DEF IInv

(* What every request for redemption does: shares leave the redeemer. *)
Asked(m, amount) ==
    LET d == funds[m].denom
    IN  /\ phase = "txs" /\ amount \in Nat /\ HasInsuranceFund(m)
        /\ d \in ShareDenoms /\ locked[d] \in Nat /\ circulating[d] \in Nat
        /\ circulating[d] >= amount
        /\ circulating' = [circulating EXCEPT ![d] = @ - amount]
        /\ UNCHANGED <<time, phase, nextShareDenom, matured, marketBalance, closed,
                       marketOps>>

(* What a request makes of its shares: a new schedule takes the place of the
   one that it is batched with, or is settled at once if the market is closed. *)
Requested(a, m, amount, delivered, new, batched) ==
    LET d == funds[m].denom
        held == locked[d] + amount
        settles == isMarketDemolishedOrExpired(m)
    IN  /\ batched = Batched(a, m, time + NoticePeriod)
        /\ new.market = m /\ new.denom = d
        /\ batched = {} =>
             /\ nextSchedule' = nextSchedule + 1 /\ nextSchedule <= MaxSchedules
             /\ new.id = nextSchedule /\ new.amount = amount
        /\ batched # {} =>
             /\ nextSchedule' = nextSchedule
             /\ \E s \in batched : new.id = s.id /\ new.amount = s.amount + amount
        /\ schedules' = (schedules \ batched) \cup (IF settles THEN {} ELSE {new})
        /\ locked' = [locked EXCEPT ![d] = IF settles THEN Burned(new, held) ELSE held]
        /\ \/ settles /\ settleRedemption(new, held, delivered)
           \/ ~settles /\ funds' = funds /\ module' = module
              /\ vouchers' = vouchers /\ failed' = failed

LEMMA RequestUnfolds ==
    ASSUME IInv, NEW a \in Accounts, NEW m \in Markets, NEW amount \in Redemptions,
           NEW delivered \in BOOLEAN,
           RequestInsuranceFundRedemption(a, m, amount, delivered)
    PROVE  /\ Asked(m, amount)
           /\ \E new \in Schedule, batched \in SUBSET schedules :
                Requested(a, m, amount, delivered, new, batched)
  <1> DEFINE d == funds[m].denom
             claim == time + NoticePeriod
             batched == Batched(a, m, claim)
             merged == CHOOSE s \in batched : TRUE
             new == [id |-> IF batched # {} THEN merged.id ELSE nextSchedule,
                     redeemer |-> a, market |-> m, denom |-> d, claim |-> claim,
                     amount |-> IF batched # {} THEN merged.amount + amount ELSE amount]
             held == locked[d] + amount
             settles == isMarketDemolishedOrExpired(m)
  <1>1. amount \in Nat /\ NoticePeriod \in Nat /\ MaxSchedules \in Nat
    BY InsuranceAssumption
  <1>2. TypeOK
    BY DEF IInv
  <1>3. /\ phase = "txs" /\ d # 0 /\ circulating[d] >= amount /\ new.id <= MaxSchedules
        /\ nextSchedule' = IF batched # {} THEN nextSchedule ELSE nextSchedule + 1
        /\ schedules' = (schedules \ batched) \cup (IF settles THEN {} ELSE {new})
        /\ circulating' = [circulating EXCEPT ![d] = @ - amount]
        /\ locked' = [locked EXCEPT ![d] = IF settles THEN Burned(new, held) ELSE held]
        /\ \/ settles /\ settleRedemption(new, held, delivered)
           \/ ~settles /\ funds' = funds /\ module' = module /\ vouchers' = vouchers
              /\ failed' = failed
        /\ UNCHANGED <<time, phase, nextShareDenom, matured, marketBalance, closed, marketOps>>
    BY Zenon DEF RequestInsuranceFundRedemption, TakingMessages, HasInsuranceFund, market
  <1>4. batched \in SUBSET schedules
    BY DEF Batched, findRecentRedemptionSchedule, Recent
  <1>5. batched # {} => merged \in batched /\ merged \in Schedule
    BY <1>2, <1>4 DEF TypeOK
  <1>6. /\ HasInsuranceFund(m)
        /\ d \in ShareDenoms /\ locked[d] \in Nat /\ circulating[d] \in Nat
    BY FundShares, Zenon DEF RequestInsuranceFundRedemption
  <1>7. /\ new.id = IF batched # {} THEN merged.id ELSE nextSchedule
        /\ new.amount = IF batched # {} THEN merged.amount + amount ELSE amount
        /\ new.market = m /\ new.denom = d
    <2> HIDE DEF merged, batched, claim, d
    <2> QED OBVIOUS
  <1>8. new \in Schedule
    <2> HIDE DEF merged, batched
    <2>1. batched # {} => merged.id \in 1..MaxSchedules /\ merged.amount + amount \in Nat
      BY <1>1, <1>5 DEF Schedule
    <2>2. new.id \in 1..MaxSchedules
      <3>1. nextSchedule \in Nat \ {0} /\ new.id <= MaxSchedules
        BY <1>1, <1>2, <1>3 DEF TypeOK
      <3> HIDE DEF new
      <3> QED BY <1>1, <1>7, <2>1, <3>1
    <2>3. new.amount \in Nat
      BY <1>1, <2>1
    <2>4. claim \in Nat
      BY <1>1, <1>2 DEF TypeOK
    <2> HIDE DEF claim, d
    <2> QED BY <1>6, <2>2, <2>3, <2>4, Zenon DEF Schedule
  <1> HIDE DEF merged, new, settles, claim, batched
  <1>9. batched = {} =>
           /\ nextSchedule' = nextSchedule + 1 /\ nextSchedule <= MaxSchedules
           /\ new.id = nextSchedule /\ new.amount = amount
    BY <1>3, <1>7
  <1>10. batched # {} =>
           /\ nextSchedule' = nextSchedule
           /\ \E s \in batched : new.id = s.id /\ new.amount = s.amount + amount
    BY <1>3, <1>5, <1>7
  <1>11. batched = Batched(a, m, time + NoticePeriod)
    BY DEF batched, claim
  <1>12. Requested(a, m, amount, delivered, new, batched)
    BY <1>3, <1>7, <1>9, <1>10, <1>11, Zenon DEF Requested, settles
  <1>13. Asked(m, amount)
    BY <1>1, <1>3, <1>6, Zenon DEF Asked
  <1> QED BY <1>4, <1>8, <1>12, <1>13, Zenon

(* A request for redemption: shares move to the module, or are burned at once
   if the market is closed. *)
LEMMA RequestStep ==
    ASSUME IInv, NEW a \in Accounts, NEW m \in Markets, NEW amount \in Redemptions,
           NEW delivered \in BOOLEAN,
           RequestInsuranceFundRedemption(a, m, amount, delivered)
    PROVE  IInv' /\ KeepsValue
  <1>1. PICK new \in Schedule, batched \in SUBSET schedules :
          Requested(a, m, amount, delivered, new, batched)
    BY RequestUnfolds
  <1> DEFINE d == funds[m].denom
             held == locked[d] + amount
             settles == isMarketDemolishedOrExpired(m)
             left == IF settles THEN Burned(new, held) ELSE held
  <1>2. /\ phase = "txs" /\ amount \in Nat /\ HasInsuranceFund(m)
        /\ circulating[d] >= amount
        /\ circulating' = [circulating EXCEPT ![d] = circulating[d] - amount]
        /\ UNCHANGED <<time, phase, nextShareDenom, matured, marketBalance, closed, marketOps>>
    <2>1. Asked(m, amount)
      BY RequestUnfolds
    <2> QED BY <2>1, Zenon DEF Asked
  <1>3. TypeOK /\ NothingCollected /\ DebtsCovered /\ MaxSchedules \in Nat
    BY InsuranceAssumption DEF IInv
  <1>4. /\ new.market = m /\ new.denom = d
        /\ batched = {} => nextSchedule' = nextSchedule + 1 /\ nextSchedule <= MaxSchedules
        /\ batched # {} => nextSchedule' = nextSchedule
        /\ schedules' = (schedules \ batched) \cup (IF settles THEN {} ELSE {new})
        /\ locked' = [locked EXCEPT ![d] = left]
        /\ \/ settles /\ settleRedemption(new, held, delivered)
           \/ ~settles /\ funds' = funds /\ module' = module /\ vouchers' = vouchers
              /\ failed' = failed
    BY <1>1, Zenon DEF Requested
  <1>5. /\ d \in ShareDenoms /\ d < nextShareDenom
        /\ locked[d] \in Nat /\ circulating[d] \in Nat
        /\ funds[m].total = locked[d] + circulating[d]
        /\ \A n \in Markets : funds[n].denom = d => n = m
    BY <1>2, FundShares, Zenon
  <1>6. /\ held \in Nat /\ left \in Nat /\ circulating[d] - amount \in Nat
        /\ held <= funds[m].total
        /\ funds[m].total - (held - left) = left + (circulating[d] - amount)
    <2>1. new.amount \in Nat
      BY DEF Schedule
    <2> HIDE DEF d, settles
    <2> QED BY <1>2, <1>5, <2>1 DEF Burned
  <1> HIDE DEF settles
  <1>7. /\ funds' \in [Markets -> Fund]
        /\ module' \in Nat
        /\ vouchers' \in [Accounts -> [{Quote} -> Nat]]
        /\ failed' \subseteq Schedule
        /\ \A n \in Markets : funds'[n].denom = funds[n].denom
        /\ \A n \in Markets : n # m => funds'[n] = funds[n]
        /\ funds'[m].total = funds[m].total - (held - left)
        /\ \A n \in Markets : funds'[n].balance * DecScale + marketBalance[n] >= 0
        /\ KeepsValue
    <2>1. CASE settles /\ settleRedemption(new, held, delivered)
      <3>1. left = Burned(new, held)
        BY <2>1, Zenon
      <3> HIDE DEF held, left
      <3>2. /\ new.market = m /\ funds[m].denom = new.denom
            /\ held \in Nat /\ held <= funds[m].total
            /\ settleRedemption(new, held, delivered)
        BY <1>4, <1>6, <2>1, Zenon
      <3> QED BY <3>1, <3>2, SettleBounded, Zenon
    <2>2. CASE ~settles /\ funds' = funds /\ module' = module /\ vouchers' = vouchers
               /\ failed' = failed
      <3>1. funds[m].total = funds[m].total - (held - left)
        <4>1. left = held
          BY <2>2, Zenon
        <4> HIDE DEF left, held
        <4>2. funds[m].total \in Nat
          BY <1>3 DEF TypeOK
        <4> QED BY <1>6, <4>1, <4>2
      <3>2. KeepsValue
        BY <1>3, <2>2, SameFunds
      <3> QED BY <1>3, <2>2, <3>1, <3>2, Zenon DEF TypeOK, Fund, DebtsCovered
    <2> QED BY <1>4, <2>1, <2>2, Zenon
  <1> HIDE DEF left, held, d
  <1>8. /\ locked' \in [ShareDenoms -> Nat] /\ locked'[d] = left
        /\ circulating' \in [ShareDenoms -> Nat] /\ circulating'[d] = circulating[d] - amount
        /\ \A e \in ShareDenoms : e # d => /\ locked'[e] = locked[e]
                                           /\ circulating'[e] = circulating[e]
    BY <1>3, <1>2, <1>4, <1>5, <1>6 DEF TypeOK
  <1>9. TypeOK'
    <2>1. matured' \subseteq schedules'
      BY <1>3, <1>2, Zenon DEF NothingCollected
    <2>2. schedules' \subseteq Schedule
      BY <1>3, <1>4 DEF TypeOK
    <2>3. nextSchedule' \in 1..(MaxSchedules + 1)
      <3>1. \/ nextSchedule' = nextSchedule
            \/ nextSchedule' = nextSchedule + 1 /\ nextSchedule <= MaxSchedules
        BY <1>4, Zenon
      <3>2. nextSchedule \in 1..(MaxSchedules + 1) /\ MaxSchedules \in Nat
        BY <1>3, Zenon DEF TypeOK
      <3> QED BY <3>1, <3>2
    <2> QED BY <1>3, <1>2, <1>7, <1>8, <2>1, <2>2, <2>3, Zenon DEF TypeOK, Fund
  <1>10. Denoms' /\ TotalIsSupply'
    <2>1. funds'[m].total = IF funds[m].denom = d THEN locked'[d] + circulating'[d]
                                                  ELSE funds[m].total
      BY <1>6, <1>7, <1>8, Zenon DEF d
    <2>2. \A t \in schedules' : t \in schedules \/ (t.denom = d /\ t.market = m)
      <3>1. \A t \in schedules' : t \in schedules \/ t = new
        BY <1>4
      <3> QED BY <1>4, <3>1, Zenon
    <2>3. /\ \A n \in Markets : funds'[n].denom = funds[n].denom
          /\ \A n \in Markets : n # m => funds'[n] = funds[n]
          /\ nextShareDenom' = nextShareDenom
      BY <1>2, <1>7, Zenon
    <2> QED BY <1>5, <1>8, <2>1, <2>2, <2>3, SharesMove, Zenon
  <1>11. DebtsCovered' /\ NothingCollected'
    BY <1>3, <1>2, <1>7, Zenon DEF DebtsCovered, NothingCollected
  <1> QED BY <1>7, <1>9, <1>10, <1>11, Zenon DEF IInv

LEMMA NextStep ==
    ASSUME IInv, [Next]_vars
    PROVE  IInv' /\ (~Draws => KeepsValue)
  <1>1. TypeOK /\ NothingCollected /\ DebtsCovered
    BY DEF IInv
  <1>2. ASSUME NEW m \in Markets, NEW amount \in Deposits,
               CreateInsuranceFund(m, amount) \/ UnderwriteInsuranceFund(m, amount)
        PROVE  IInv' /\ KeepsValue
    BY <1>2, StartFundStep, BuySharesStep DEF CreateInsuranceFund, UnderwriteInsuranceFund
  <1>3. ASSUME NEW a \in Accounts, ClaimVoucher(a)
        PROVE  IInv' /\ KeepsValue
    <2>1. /\ module >= vouchers[a][Quote] /\ module' = module - vouchers[a][Quote]
          /\ vouchers' = [vouchers EXCEPT ![a][Quote] = 0]
          /\ UNCHANGED <<time, phase, funds, nextShareDenom, schedules, nextSchedule,
                         failed, matured, locked, circulating, marketBalance, closed,
                         marketOps>>
      BY <1>3 DEF ClaimVoucher, GetVoucher, DeleteVoucher, scheduling, market
    <2>2. vouchers[a] \in [{Quote} -> Nat] /\ vouchers[a][Quote] \in Nat
      BY <1>1, Zenon DEF TypeOK
    <2>3. module' \in Nat
      BY <1>1, <2>1, <2>2 DEF TypeOK
    <2>4. vouchers' \in [Accounts -> [{Quote} -> Nat]]
      <3>1. [vouchers[a] EXCEPT ![Quote] = 0] \in [{Quote} -> Nat]
        BY <2>2
      <3> QED BY <1>1, <2>1, <3>1, Zenon DEF TypeOK
    <2>5. TypeOK'
      BY <1>1, <2>1, <2>3, <2>4, Zenon DEF TypeOK
    <2>6. Denoms' /\ TotalIsSupply'
      BY <2>1, SharesStay
    <2>7. NothingCollected' /\ DebtsCovered'
      BY <1>1, <2>1, Zenon DEF NothingCollected, DebtsCovered
    <2> QED BY <1>1, <2>1, <2>5, <2>6, <2>7, SameFunds DEF IInv
  <1>4. ASSUME \/ CollectMatured \/ Commit \/ UNCHANGED vars
        PROVE  IInv' /\ KeepsValue
    <2>1. UNCHANGED <<funds, nextShareDenom, schedules, nextSchedule, failed, vouchers,
                      module, locked, circulating, marketBalance, closed, marketOps>>
      BY <1>4 DEF CollectMatured, Commit, vars, scheduling, market
    <2>2. /\ phase' \in {"txs", "withdraw"} /\ time' \in Nat /\ matured' \subseteq schedules
          /\ phase' = "txs" => matured' = {}
      <3>1. CASE CollectMatured
        BY <1>1, <3>1 DEF CollectMatured, TypeOK
      <3>2. CASE Commit
        BY <1>1, <3>2 DEF Commit, scheduling, TypeOK
      <3>3. CASE UNCHANGED vars
        BY <1>1, <3>3 DEF vars, scheduling, TypeOK, NothingCollected
      <3> QED BY <1>4, <3>1, <3>2, <3>3
    <2>3. TypeOK'
      BY <1>1, <2>1, <2>2, Zenon DEF TypeOK
    <2>4. Denoms' /\ TotalIsSupply'
      BY <2>1, SharesStay
    <2>5. NothingCollected' /\ DebtsCovered'
      BY <1>1, <2>1, <2>2, Zenon DEF NothingCollected, DebtsCovered
    <2> QED BY <1>1, <2>1, <2>3, <2>4, <2>5, SameFunds DEF IInv
  <1> QED BY <1>2, <1>3, <1>4, RequestStep, MarketStep, ProcessStep, Zenon
       DEF Next, EndBlocker
====
