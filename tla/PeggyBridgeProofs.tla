------------------------- MODULE PeggyBridgeProofs -------------------------
(***************************************************************************)
(* Proofs about PeggyBridge, for any tokens, amounts, batch size, timeout  *)
(* parameters and bounds: withdrawals come to one end, the chain always    *)
(* knows the batch whose execution it observes, and the contract holds     *)
(* what the chain owes.                                                    *)
(*                                                                         *)
(* The argument.  A batch the chain has forgotten cannot be executed any   *)
(* more (ForgottenIsDead): it was superseded by an executed batch, or an   *)
(* event later than its timeout has been observed, so Ethereum is past it. *)
(* An execution the chain has yet to see keeps its batch (PendingHasBatch):*)
(* events come in order, so no later event can expire or supersede the     *)
(* batch before its own execution is seen.  Hence a paid withdrawal is in  *)
(* a batch until its payment is seen and then gone (OneOutcome).           *)
(*                                                                         *)
(* The money rests on this.  A payment that the chain has not seen is of a *)
(* batch in its store, whose withdrawals are in the pool and of one token  *)
(* (Stored); so what the contract paid out leaves the pool, and the        *)
(* MintAmount, when the payment is seen and not before.  Every other step  *)
(* moves an amount from one account of its token to another (Booked).      *)
(***************************************************************************)
EXTENDS PeggyBridgeSteps

-----------------------------------------------------------------------------
(* Sums *)

(* What the proofs use of finite sets and of sums over them.  Sums proves  *)
(* it; here it is a hypothesis, so that its proof need not be at hand.     *)
FiniteSetFacts ==
    /\ IsFiniteSet({})
    /\ \A S : \A T \in SUBSET S : IsFiniteSet(S) => IsFiniteSet(T)
    /\ \A S, x : IsFiniteSet(S) => IsFiniteSet(S \cup {x})
    /\ \A a, b \in Int : IsFiniteSet(a..b)
SumOfNaturals ==
    \A f : IsFiniteSet(DOMAIN f) /\ (\A x \in DOMAIN f : f[x] \in Nat)
                => SumFunction(f) \in Nat
SumOfNone == \A f : DOMAIN f = {} => SumFunction(f) = 0
SumOfOne == \A f, e : DOMAIN f = {e} /\ f[e] \in Int => SumFunction(f) = f[e]
SumOfOneMore ==
    \A f, g, e :
        /\ IsFiniteSet(DOMAIN f) /\ e \notin DOMAIN f
        /\ DOMAIN g = DOMAIN f \cup {e} /\ g[e] \in Int
        /\ \A x \in DOMAIN f : g[x] = f[x] /\ f[x] \in Int
        => SumFunction(g) = SumFunction(f) + g[e]
SumOfTwoParts ==
    \A f, g, h :
        /\ IsFiniteSet(DOMAIN f)
        /\ DOMAIN f = DOMAIN g \cup DOMAIN h /\ DOMAIN g \cap DOMAIN h = {}
        /\ \A x \in DOMAIN f : f[x] \in Int
        /\ \A x \in DOMAIN g : g[x] = f[x]
        /\ \A x \in DOMAIN h : h[x] = f[x]
        => SumFunction(f) = SumFunction(g) + SumFunction(h)
SumFacts == /\ FiniteSetFacts /\ SumOfNaturals /\ SumOfNone /\ SumOfOne
            /\ SumOfOneMore /\ SumOfTwoParts

(* What the withdrawals of S in token t cost together. *)
TokenTotal(S, t) == Total({x \in S : x.token = t})

Costed(S) == S \in SUBSET Txs /\ IsFiniteSet(S)
OfToken(U, u) == \A x \in U : x.token = u
Part(v, t, u) == IF t = u THEN v ELSE 0

(* Some of the withdrawals of S are withdrawals as well. *)
LEMMA CostedSubset ==
    ASSUME SumFacts, NEW S, Costed(S), NEW T \in SUBSET S
    PROVE  Costed(T)
BY Zenon DEF SumFacts, FiniteSetFacts, Costed

(* What withdrawals cost is a natural number. *)
LEMMA TotalType ==
    ASSUME SumFacts, NEW T, Costed(T)
    PROVE  Total(T) \in Nat
<1> DEFINE f == [x \in T |-> x.amount + x.fee]
<1>1. \A x \in T : x.amount \in Nat /\ x.fee \in Nat
    BY BridgeAssumption, Zenon DEF Txs, Costed
<1>2. DOMAIN f = T /\ \A x \in DOMAIN f : f[x] \in Nat
    BY <1>1
<1> HIDE DEF f
<1>3. SumFunction(f) \in Nat
    BY <1>2 DEF SumFacts, SumOfNaturals, Costed
<1> QED
    BY <1>3 DEF Total, f

(* The withdrawals U of S leave: what is left, and they, cost what all did. *)
LEMMA TotalSplit ==
    ASSUME SumFacts, NEW S, Costed(S), NEW U \in SUBSET S
    PROVE  Total(S) = Total(S \ U) + Total(U)
<1> DEFINE f == [x \in S |-> x.amount + x.fee]
           g == [x \in S \ U |-> x.amount + x.fee]
           h == [x \in U |-> x.amount + x.fee]
<1>1. \A x \in S : x.amount \in Nat /\ x.fee \in Nat
    BY BridgeAssumption, Zenon DEF Txs, Costed
<1>2. /\ DOMAIN f = S /\ DOMAIN g = S \ U /\ DOMAIN h = U
      /\ \A x \in S : f[x] = x.amount + x.fee
      /\ \A x \in S \ U : g[x] = x.amount + x.fee
      /\ \A x \in U : h[x] = x.amount + x.fee
    BY Zenon
<1>3. Total(S) = SumFunction(f) /\ Total(S \ U) = SumFunction(g) /\ Total(U) = SumFunction(h)
    BY Zenon DEF Total
<1> HIDE DEF f, g, h
<1>4. /\ \A x \in S : f[x] \in Int
      /\ \A x \in S \ U : g[x] = f[x]
      /\ \A x \in U : h[x] = f[x]
    BY <1>1, <1>2
<1>5. S = (S \ U) \cup U /\ (S \ U) \cap U = {} /\ IsFiniteSet(S)
    BY DEF Costed
<1>6. SumFunction(f) = SumFunction(g) + SumFunction(h)
    BY <1>2, <1>4, <1>5 DEF SumFacts, SumOfTwoParts
<1> QED
    BY <1>3, <1>6

(* Withdrawals U of one token leave the others. *)
LEMMA TokenTotalSplit ==
    ASSUME SumFacts, NEW S, Costed(S), NEW U \in SUBSET S, NEW u, OfToken(U, u), NEW t
    PROVE  /\ TokenTotal(S \ U, t) \in Nat /\ Part(Total(U), t, u) \in Nat
           /\ TokenTotal(S, t) = TokenTotal(S \ U, t) + Part(Total(U), t, u)
<1> DEFINE A == {x \in S : x.token = t}
           B == {x \in S \ U : x.token = t}
<1>1. A \in SUBSET S /\ B \in SUBSET S
    OBVIOUS
<1>2. TokenTotal(S, t) = Total(A) /\ TokenTotal(S \ U, t) = Total(B)
    BY DEF TokenTotal
<1>3. t = u => B = A \ U /\ U \in SUBSET A
    BY DEF OfToken
<1>4. t # u => B = A
    BY DEF OfToken
<1> HIDE DEF A, B
<1>5. Costed(A) /\ Costed(B) /\ Costed(U)
    BY <1>1, CostedSubset, Zenon
<1>6. Total(A) \in Nat /\ Total(B) \in Nat /\ Total(U) \in Nat
    BY <1>5, TotalType, Zenon
<1>7. CASE t = u
    <2>1. Total(A) = Total(B) + Total(U)
        BY <1>3, <1>5, <1>7, TotalSplit, Zenon
    <2>2. Part(Total(U), t, u) = Total(U)
        BY <1>7 DEF Part
    <2> QED
        BY <1>2, <1>6, <2>1, <2>2, Zenon
<1>8. CASE t # u
    <2>1. Total(A) = Total(B) + 0 /\ 0 \in Nat
        BY <1>4, <1>6, <1>8
    <2>2. Part(Total(U), t, u) = 0
        BY <1>8 DEF Part
    <2> QED
        BY <1>2, <1>6, <2>1, <2>2, Zenon
<1> QED
    BY <1>7, <1>8, Zenon

(* A single withdrawal costs its amount and its fee. *)
LEMMA TotalOne ==
    ASSUME SumFacts, NEW x \in Txs
    PROVE  Total({x}) = x.amount + x.fee /\ OfToken({x}, x.token)
<1> DEFINE f == [y \in {x} |-> y.amount + y.fee]
<1>1. x.amount \in Nat /\ x.fee \in Nat
    BY BridgeAssumption, Zenon DEF Txs
<1>2. DOMAIN f = {x} /\ f[x] = x.amount + x.fee /\ f[x] \in Int
    BY <1>1
<1>3. Total({x}) = SumFunction(f)
    BY DEF Total
<1> HIDE DEF f
<1>4. SumFunction(f) = f[x]
    BY <1>2 DEF SumFacts, SumOfOne
<1> QED
    BY <1>2, <1>3, <1>4, Zenon DEF OfToken

(* A withdrawal more. *)
LEMMA TokenTotalAdd ==
    ASSUME SumFacts, NEW S, Costed(S), NEW x \in Txs, x \notin S, NEW t
    PROVE  /\ TokenTotal(S, t) \in Nat /\ Part(x.amount + x.fee, t, x.token) \in Nat
           /\ TokenTotal(S \cup {x}, t) =
                TokenTotal(S, t) + Part(x.amount + x.fee, t, x.token)
<1> DEFINE V == S \cup {x}
           U == {x}
<1>1. U \in SUBSET V
    OBVIOUS
<1>2. Costed(V)
    <2>1. IsFiniteSet(S \cup {x})
        BY Zenon DEF SumFacts, FiniteSetFacts, Costed
    <2> QED
        BY <2>1 DEF Costed
<1>3. OfToken(U, x.token)
    BY TotalOne, Zenon
<1>4. V \ U = S /\ Total(U) = x.amount + x.fee
    BY TotalOne, Zenon
<1> HIDE DEF V, U
<1>5. /\ TokenTotal(V \ U, t) \in Nat /\ Part(Total(U), t, x.token) \in Nat
      /\ TokenTotal(V, t) = TokenTotal(V \ U, t) + Part(Total(U), t, x.token)
    BY <1>1, <1>2, <1>3, TokenTotalSplit, ZenonT(30)
<1> QED
    BY <1>4, <1>5, Zenon DEF V

(* The values val of the events ev of kind k and token t, over the nonces  *)
(* P.                                                                      *)
OfKind(P, ev, k, t) == {n \in P : ev[n].kind = k /\ ev[n].token = t}
SumOfKind(P, ev, k, t, val) == SumFunction([n \in OfKind(P, ev, k, t) |-> val[n]])
Addend(e, k, t, v) == IF e.kind = k /\ e.token = t THEN v ELSE 0
Valued(P, ev, k, t, val) ==
    IsFiniteSet(P) /\ \A n \in OfKind(P, ev, k, t) : val[n] \in Nat

Agree(S, f, g) == \A n \in S : g[n] = f[n]
Fresh(P, l) == l \notin P

(* An event more. *)
LEMMA SumOfKindAdd ==
    ASSUME SumFacts, NEW P, NEW l, Fresh(P, l), NEW ev, NEW k, NEW t, NEW val,
           Valued(P \cup {l}, ev, k, t, val)
    PROVE  /\ SumOfKind(P, ev, k, t, val) \in Nat
           /\ Addend(ev[l], k, t, val[l]) \in Nat
           /\ SumOfKind(P \cup {l}, ev, k, t, val) =
                SumOfKind(P, ev, k, t, val) + Addend(ev[l], k, t, val[l])
<1> DEFINE S == OfKind(P, ev, k, t)
           T == OfKind(P \cup {l}, ev, k, t)
           f == [n \in S |-> val[n]]
           g == [n \in T |-> val[n]]
<1>1. /\ S \in SUBSET (P \cup {l}) /\ S \in SUBSET T /\ l \notin S
      /\ ev[l].kind = k /\ ev[l].token = t => T = S \cup {l}
      /\ ~(ev[l].kind = k /\ ev[l].token = t) => T = S
    BY DEF OfKind, Fresh
<1>2. IsFiniteSet(P \cup {l}) /\ \A n \in T : val[n] \in Nat
    BY Zenon DEF Valued
<1>3. /\ DOMAIN f = S /\ DOMAIN g = T
      /\ \A n \in S : f[n] = val[n]
      /\ \A n \in T : g[n] = val[n]
      /\ SumOfKind(P, ev, k, t, val) = SumFunction(f)
      /\ SumOfKind(P \cup {l}, ev, k, t, val) = SumFunction(g)
    BY Zenon DEF SumOfKind
<1> HIDE DEF S, T
<1>4. IsFiniteSet(S)
    BY <1>1, <1>2, Zenon DEF SumFacts, FiniteSetFacts
<1>5. CASE ev[l].kind = k /\ ev[l].token = t
    <2>1. T = S \cup {l} /\ Addend(ev[l], k, t, val[l]) = val[l]
        BY <1>1, <1>5, Zenon DEF Addend
    <2> HIDE DEF f, g
    <2>2. val[l] \in Nat /\ g[l] = val[l] /\ \A n \in S : g[n] = f[n] /\ f[n] \in Nat
        BY <1>2, <1>3, <2>1, Zenon
    <2>3. SumFunction(f) \in Nat
        BY <1>3, <1>4, <2>2 DEF SumFacts, SumOfNaturals
    <2>4. g[l] \in Int /\ \A n \in S : g[n] = f[n] /\ f[n] \in Int
        BY <2>2
    <2>5. SumFunction(g) = SumFunction(f) + g[l]
        BY <1>1, <1>3, <1>4, <2>1, <2>4 DEF SumFacts, SumOfOneMore
    <2> QED
        BY <1>3, <2>1, <2>2, <2>3, <2>5, Zenon
<1>6. CASE ~(ev[l].kind = k /\ ev[l].token = t)
    <2>1. T = S /\ Addend(ev[l], k, t, val[l]) = 0
        BY <1>1, <1>6, Zenon DEF Addend
    <2>2. f = g
        BY <2>1, Zenon
    <2> HIDE DEF f, g
    <2>3. \A n \in S : f[n] \in Nat
        BY <1>2, <1>3, <2>1, Zenon
    <2>4. SumFunction(f) \in Nat
        BY <1>3, <1>4, <2>3, Zenon DEF SumFacts, SumOfNaturals
    <2>5. SumFunction(g) = SumFunction(f) + 0 /\ 0 \in Nat
        BY <2>2, <2>4
    <2> QED
        BY <1>3, <2>1, <2>4, <2>5, Zenon
<1> QED
    BY <1>5, <1>6

(* Events and values that agree on the nonces P. *)
LEMMA SumOfKindAgree ==
    ASSUME NEW P, NEW ev, NEW ew, NEW k, NEW t, NEW val, NEW wal,
           Agree(P, ev, ew), Agree(OfKind(P, ev, k, t), val, wal)
    PROVE  SumOfKind(P, ew, k, t, wal) = SumOfKind(P, ev, k, t, val)
<1>1. OfKind(P, ew, k, t) = OfKind(P, ev, k, t)
    BY DEF OfKind, Agree
<1>2. [n \in OfKind(P, ew, k, t) |-> wal[n]] = [n \in OfKind(P, ev, k, t) |-> val[n]]
    BY <1>1, Zenon DEF Agree
<1> QED
    BY <1>2, Zenon DEF SumOfKind

(* The same for events and values that agree on P with those before. *)
LEMMA SumOfKindGrow ==
    ASSUME SumFacts, NEW P, NEW l, Fresh(P, l), NEW ev, NEW ew, NEW k, NEW t, NEW val, NEW wal,
           Agree(P, ev, ew), Agree(OfKind(P, ev, k, t), val, wal),
           Valued(P, ev, k, t, val), Addend(ew[l], k, t, wal[l]) \in Nat
    PROVE  /\ SumOfKind(P, ev, k, t, val) \in Nat
           /\ SumOfKind(P \cup {l}, ew, k, t, wal) =
                SumOfKind(P, ev, k, t, val) + Addend(ew[l], k, t, wal[l])
<1>1. Valued(P \cup {l}, ew, k, t, wal)
    <2>1. IsFiniteSet(P \cup {l})
        BY Zenon DEF SumFacts, FiniteSetFacts, Valued
    <2>2. ASSUME NEW n \in OfKind(P \cup {l}, ew, k, t) PROVE wal[n] \in Nat
        <3>1. CASE n = l
            BY <2>2, <3>1, Zenon DEF OfKind, Addend
        <3>2. CASE n \in P
            <4>1. n \in OfKind(P, ev, k, t)
                BY <2>2, <3>2, Zenon DEF OfKind, Agree
            <4> QED
                BY <4>1, Zenon DEF Valued, Agree
        <3> QED
            BY <3>1, <3>2, Zenon DEF OfKind
    <2> QED
        BY <2>1, <2>2, Zenon DEF Valued
<1>2. SumOfKind(P, ew, k, t, wal) = SumOfKind(P, ev, k, t, val)
    BY SumOfKindAgree
<1>3. /\ SumOfKind(P, ew, k, t, wal) \in Nat
      /\ SumOfKind(P \cup {l}, ew, k, t, wal) =
                SumOfKind(P, ew, k, t, wal) + Addend(ew[l], k, t, wal[l])
    BY <1>1, SumOfKindAdd
<1> QED
    BY <1>2, <1>3, Zenon

-----------------------------------------------------------------------------
(* The books *)

(* What the pool owes of token t. *)
PoolTotal(t) == TokenTotal(pool, t)

MoneyTyped ==
    /\ IsFiniteSet(pool)
    /\ locked \in [Tokens -> Nat]
    /\ supply \in [Tokens -> 0..SupplyCap]
    /\ mintAmount \in [Tokens -> 0..SupplyCap]
    /\ stranded \in [Tokens -> Nat]
    /\ redeploys \in 0..MaxRedeploys

(* A batch has one token, and the block index leads to batches of the      *)
(* store, each under its own height.                                       *)
Stored ==
    /\ \A b \in batches : \A x \in b.txs : x.token = b.token
    /\ DOMAIN blockIndex \subseteq Nat
    /\ \A h \in DOMAIN blockIndex :
            blockIndex[h] \in batches /\ blockIndex[h].block = h

(* The books of a token: the contract's balance l is the supply s, the     *)
(* pool p, the deposits d on their way and x stranded, less the payments w *)
(* not seen yet; what was minted, m, is the supply and the pool.           *)
Even(l, s, p, d, x, w) ==
    /\ l \in Int /\ s \in Int /\ p \in Int /\ d \in Int /\ x \in Int /\ w \in Int
    /\ l = s + p + d + x - w
Covers(m, s, p) == m \in Int /\ s \in Int /\ p \in Int /\ m = s + p

Books(t) == Even(locked[t], supply[t], PoolTotal(t), UnseenDeposits(t),
                 stranded[t], UnseenPayments(t))
Minted(t) == Covers(mintAmount[t], supply[t], PoolTotal(t))

(* The books of the token t, as far as they are kept. *)
Booked(t) == (redeploys = 0 => Books(t)) /\ (t # Native => Minted(t))

MoneyInv == MoneyTyped /\ Stored /\ \A t \in Tokens : Booked(t)

(* The withdrawals of a batch in the store are in the pool. *)
LEMMA BatchTotalType ==
    ASSUME SumFacts, BridgeInv, IsFiniteSet(pool), NEW b \in batches
    PROVE  Costed(pool) /\ b.txs \in SUBSET pool /\ Total(b.txs) \in Nat
<1>1. b.txs \in SUBSET pool /\ Costed(pool)
    BY DEF BridgeInv, PoolPartition, Typed, Costed
<1>2. Costed(b.txs)
    BY <1>1, CostedSubset, Zenon
<1> QED
    BY <1>1, <1>2, TotalType, Zenon

(* What the events not seen are worth: deposits and payments. *)
Values == [n \in Pending |-> events[n].value]
Costs == [n \in Pending |-> Total(PayingBatch(n).txs)]

SumsOfUnseen ==
    /\ \A t : UnseenDeposits(t) = SumOfKind(Pending, events, "deposit", t, Values)
    /\ \A t : UnseenPayments(t) = SumOfKind(Pending, events, "withdraw", t, Costs)

(* UnseenDeposits and UnseenPayments are sums of that form. *)
LEMMA UnseenSums == SumsOfUnseen
<1>1. \A t, k : Unseen(t, k) = OfKind(Pending, events, k, t)
    BY Zenon DEF Unseen, OfKind, Pending
<1>2. ASSUME NEW t
      PROVE  [n \in Unseen(t, "deposit") |-> events[n].value]
                = [n \in OfKind(Pending, events, "deposit", t) |-> Values[n]]
    <2>1. \A n \in OfKind(Pending, events, "deposit", t) : Values[n] = events[n].value
        BY Zenon DEF OfKind, Values
    <2> QED
        BY <1>1, <2>1, Zenon
<1>3. ASSUME NEW t
      PROVE  [n \in Unseen(t, "withdraw") |-> Total(PayingBatch(n).txs)]
                = [n \in OfKind(Pending, events, "withdraw", t) |-> Costs[n]]
    <2>1. \A n \in OfKind(Pending, events, "withdraw", t) : Costs[n] = Total(PayingBatch(n).txs)
        BY Zenon DEF OfKind, Costs
    <2> QED
        BY <1>1, <2>1, Zenon
<1> QED
    BY <1>2, <1>3, Zenon DEF UnseenDeposits, UnseenPayments, SumOfKind, SumsOfUnseen

(* They are so after a step as well. *)
LEMMA UnseenSumsNext == SumsOfUnseen'
BY UnseenSums, PTL

(* The batch that an unseen payment is of. *)
LEMMA PayingBatchIs ==
    ASSUME BridgeInv, NEW n \in Pending, NEW b \in batches, Executes(n, b)
    PROVE  PayingBatch(n) = b
<1>1. b \in built /\ b.token = events[n].token /\ b.nonce = events[n].value
    BY Zenon DEF BridgeInv, Identified, Executes
<1>2. \A c \in built : c.nonce = events[n].value => c = b
    BY <1>1, Zenon DEF BridgeInv, Identified
<1> QED
    BY <1>1, <1>2, Zenon DEF PayingBatch

(* An unseen payment is of a batch in the store. *)
LEMMA UnseenPaid ==
    ASSUME BridgeInv, NEW n \in Pending, events[n].kind = "withdraw"
    PROVE  \E b \in batches : Executes(n, b) /\ PayingBatch(n) = b
<1>1. PICK b \in batches : Executes(n, b)
    BY DEF BridgeInv, PendingHasBatch
<1> QED
    BY <1>1, PayingBatchIs, Zenon

(* The events not seen yet are finitely many. *)
LEMMA PendingTyped ==
    ASSUME SumFacts, BridgeInv
    PROVE  /\ IsFiniteSet(Pending)
           /\ \A n \in Pending : n \in 1..Len(events) /\ events[n] \in Events
<1>1. events \in Seq(Events) /\ lastObserved \in Nat /\ Len(events) \in Nat
    BY DEF BridgeInv, Typed
<1>2. \A n \in Pending : n \in 1..Len(events) /\ events[n] \in Events
    BY <1>1 DEF Pending
<1>3. IsFiniteSet(Pending)
    BY <1>1 DEF SumFacts, FiniteSetFacts, Pending
<1> QED
    BY <1>2, <1>3, Zenon

(* What they are worth is a natural number. *)
LEMMA UnseenValued ==
    ASSUME SumFacts, BridgeInv, IsFiniteSet(pool), NEW t
    PROVE  /\ Valued(Pending, events, "deposit", t, Values)
           /\ Valued(Pending, events, "withdraw", t, Costs)
<1>1. ASSUME NEW n \in OfKind(Pending, events, "deposit", t) PROVE Values[n] \in Nat
    <2>1. n \in Pending /\ events[n] \in Events
        BY PendingTyped, Zenon DEF OfKind
    <2> QED
        BY <2>1, Zenon DEF Values, Events
<1>2. ASSUME NEW n \in OfKind(Pending, events, "withdraw", t) PROVE Costs[n] \in Nat
    <2>1. n \in Pending /\ events[n].kind = "withdraw"
        BY DEF OfKind
    <2>2. PICK b \in batches : PayingBatch(n) = b
        BY <2>1, UnseenPaid, Zenon
    <2>3. Total(b.txs) \in Nat
        BY BatchTotalType, Zenon
    <2> QED
        BY <2>1, <2>2, <2>3, Zenon DEF Costs
<1> QED
    BY <1>1, <1>2, PendingTyped, Zenon DEF Valued

(* The event e, if it is a payment, is one of v. *)
Pays(e, v) == e.kind = "withdraw" =>
                \E b \in batches : /\ b.token = e.token /\ b.nonce = e.value
                                   /\ v = Total(b.txs)

(* The contract emits an event. *)
LEMMA EmittedSums ==
    ASSUME SumFacts, BridgeInv, IsFiniteSet(pool), NEW e \in Events, Emit(e),
           UNCHANGED <<lastObserved, built>>, NEW v, Pays(e, v), NEW t
    PROVE  /\ UnseenDeposits(t) \in Nat /\ UnseenPayments(t) \in Nat
           /\ UnseenDeposits(t)' = UnseenDeposits(t) + Addend(e, "deposit", t, e.value)
           /\ UnseenPayments(t)' = UnseenPayments(t) + Addend(e, "withdraw", t, v)
<1>0. PICK l : l = Len(events) + 1
    BY Zenon
<1>1. /\ Len(events) \in Nat
      /\ Pending' = Pending \cup {l}
      /\ \A n \in Pending : n \in 1..Len(events) /\ events'[n] = events[n]
      /\ events'[l] = e
    BY <1>0, Emitted, Zenon DEF BridgeInv
<1>2. Fresh(Pending, l)
    BY <1>0, <1>1 DEF Fresh
<1>3. Agree(Pending, events, events')
    BY <1>1, Zenon DEF Agree
<1>4. /\ Values'[l] = e.value
      /\ \A n \in Pending : Values'[n] = Values[n]
    BY <1>1, Zenon DEF Values
<1>5. Addend(e, "deposit", t, e.value) \in Nat
    BY Zenon DEF Addend, Events
<1>6. Addend(e, "withdraw", t, Costs'[l]) = Addend(e, "withdraw", t, v)
      /\ Addend(e, "withdraw", t, v) \in Nat
    <2>1. CASE e.kind = "withdraw"
        <3>1. PICK b \in batches : b.token = e.token /\ b.nonce = e.value /\ v = Total(b.txs)
            BY <2>1, Zenon DEF Pays
        <3>2. b \in built /\ \A c \in built : c.nonce = b.nonce => c = b
            BY Zenon DEF BridgeInv, Identified
        <3>3. PayingBatch(l)' = CHOOSE c \in built : c.token = e.token /\ c.nonce = e.value
            <4>1. built' = built /\ events'[l] = e
                BY <1>1, Zenon
            <4>2. PayingBatch(l)' =
                    CHOOSE c \in built' : c.token = events'[l].token /\ c.nonce = events'[l].value
                BY Zenon DEF PayingBatch
            <4> QED
                BY <4>1, <4>2, Zenon
        <3>4. PayingBatch(l)' = b
            BY <3>1, <3>2, <3>3, Zenon
        <3>5. Costs'[l] = Total(PayingBatch(l)'.txs)
            <4>1. l \in Pending' /\ Costs' = [n \in Pending' |-> Total(PayingBatch(n)'.txs)]
                BY <1>1, Zenon DEF Costs, Total
            <4> QED
                BY <4>1, Zenon
        <3>6. v \in Nat
            BY <3>1, BatchTotalType, Zenon
        <3> QED
            BY <3>1, <3>4, <3>5, <3>6, Zenon DEF Addend
    <2>2. CASE e.kind # "withdraw"
        BY <2>2, Zenon DEF Addend
    <2> QED
        BY <2>1, <2>2, Zenon
<1>7. Agree(OfKind(Pending, events, "withdraw", t), Costs, Costs')
    <2>1. \A n \in Pending : PayingBatch(n)' = PayingBatch(n)
        BY <1>1, Zenon DEF PayingBatch
    <2>2. \A n \in Pending : /\ Costs[n] = Total(PayingBatch(n).txs)
                             /\ Costs'[n] = Total(PayingBatch(n)'.txs)
        BY <1>1, Zenon DEF Costs, Total
    <2> QED
        BY <2>1, <2>2, Zenon DEF OfKind, Agree
<1>8. /\ Valued(Pending, events, "deposit", t, Values)
      /\ Valued(Pending, events, "withdraw", t, Costs)
    BY UnseenValued, Zenon
<1>9. Agree(OfKind(Pending, events, "deposit", t), Values, Values')
    BY <1>4, Zenon DEF OfKind, Agree
<1>10. /\ SumOfKind(Pending, events, "deposit", t, Values) \in Nat
       /\ SumOfKind(Pending \cup {l}, events', "deposit", t, Values') =
            SumOfKind(Pending, events, "deposit", t, Values)
                + Addend(events'[l], "deposit", t, Values'[l])
    <2>1. Addend(events'[l], "deposit", t, Values'[l]) \in Nat
        BY <1>1, <1>4, <1>5, Zenon
    <2> QED
        BY <1>2, <1>3, <1>8, <1>9, <2>1, SumOfKindGrow
<1>11. /\ SumOfKind(Pending, events, "withdraw", t, Costs) \in Nat
       /\ SumOfKind(Pending \cup {l}, events', "withdraw", t, Costs') =
            SumOfKind(Pending, events, "withdraw", t, Costs)
                + Addend(events'[l], "withdraw", t, Costs'[l])
    <2>1. Addend(events'[l], "withdraw", t, Costs'[l]) \in Nat
        BY <1>1, <1>6, Zenon
    <2> QED
        BY <1>2, <1>3, <1>7, <1>8, <2>1, SumOfKindGrow
<1>12. /\ UnseenDeposits(t) = SumOfKind(Pending, events, "deposit", t, Values)
       /\ UnseenPayments(t) = SumOfKind(Pending, events, "withdraw", t, Costs)
       /\ UnseenDeposits(t)' = SumOfKind(Pending', events', "deposit", t, Values')
       /\ UnseenPayments(t)' = SumOfKind(Pending', events', "withdraw", t, Costs')
    BY UnseenSums, UnseenSumsNext, Zenon DEF SumsOfUnseen
<1> QED
    BY <1>1, <1>4, <1>6, <1>10, <1>11, <1>12, Zenon

(* The chain observes an event. *)
LEMMA ObservedSums ==
    ASSUME SumFacts, BridgeInv, IsFiniteSet(pool), NEW e \in NextEvents, Observe(e),
           NEW v, Pays(e, v), NEW t
    PROVE  /\ UnseenDeposits(t)' \in Nat /\ UnseenPayments(t)' \in Nat
           /\ Addend(e, "deposit", t, e.value) \in Nat
           /\ Addend(e, "withdraw", t, v) \in Nat
           /\ UnseenDeposits(t) = UnseenDeposits(t)' + Addend(e, "deposit", t, e.value)
           /\ UnseenPayments(t) = UnseenPayments(t)' + Addend(e, "withdraw", t, v)
<1> DEFINE l == lastObserved + 1
<1>1. /\ l \in Pending /\ e = events[l] /\ Pending' = Pending \ {l}
      /\ events' = events /\ built' = built
    BY Observed, Zenon
<1> HIDE DEF l
<1>2. Pending = Pending' \cup {l} /\ l \notin Pending' /\ Pending' \subseteq Pending
    BY <1>1, Zenon
<1>14. Fresh(Pending', l)
    BY <1>2, Zenon DEF Fresh
<1>3. Values[l] = e.value /\ \A n \in Pending' : Values'[n] = Values[n]
    BY <1>1, <1>2, Zenon DEF Values
<1>4. Addend(e, "withdraw", t, Costs[l]) = Addend(e, "withdraw", t, v)
    <2>1. CASE e.kind = "withdraw"
        <3>1. PICK b \in batches : b.token = e.token /\ b.nonce = e.value /\ v = Total(b.txs)
            BY <2>1, Zenon DEF Pays
        <3>2. Executes(l, b)
            BY <1>1, <2>1, <3>1, Zenon DEF Executes
        <3>3. PayingBatch(l) = b
            BY <1>1, <3>2, PayingBatchIs, Zenon
        <3>4. Costs[l] = v
            BY <1>1, <3>1, <3>3, Zenon DEF Costs
        <3> QED
            BY <3>4
    <2>2. CASE e.kind # "withdraw"
        BY <2>2 DEF Addend
    <2> QED
        BY <2>1, <2>2, Zenon
<1>5. \A n \in Pending' : Costs'[n] = Costs[n]
    <2>1. \A n \in Pending' : PayingBatch(n)' = PayingBatch(n)
        BY <1>1, Zenon DEF PayingBatch
    <2>2. \A n \in Pending' : /\ Costs[n] = Total(PayingBatch(n).txs)
                              /\ Costs'[n] = Total(PayingBatch(n)'.txs)
        BY <1>2, Zenon DEF Costs, Total
    <2> QED
        BY <2>1, <2>2, Zenon
<1>6. /\ Valued(Pending' \cup {l}, events, "deposit", t, Values)
      /\ Valued(Pending' \cup {l}, events, "withdraw", t, Costs)
    BY <1>2, UnseenValued, Zenon
<1>7. /\ SumOfKind(Pending', events, "deposit", t, Values) \in Nat
      /\ Addend(events[l], "deposit", t, Values[l]) \in Nat
      /\ SumOfKind(Pending' \cup {l}, events, "deposit", t, Values) =
            SumOfKind(Pending', events, "deposit", t, Values)
                + Addend(events[l], "deposit", t, Values[l])
    BY <1>14, <1>6, SumOfKindAdd
<1>8. /\ SumOfKind(Pending', events, "withdraw", t, Costs) \in Nat
      /\ Addend(events[l], "withdraw", t, Costs[l]) \in Nat
      /\ SumOfKind(Pending' \cup {l}, events, "withdraw", t, Costs) =
            SumOfKind(Pending', events, "withdraw", t, Costs)
                + Addend(events[l], "withdraw", t, Costs[l])
    BY <1>14, <1>6, SumOfKindAdd
<1>9. /\ SumOfKind(Pending', events', "deposit", t, Values')
            = SumOfKind(Pending', events, "deposit", t, Values)
      /\ SumOfKind(Pending', events', "withdraw", t, Costs')
            = SumOfKind(Pending', events, "withdraw", t, Costs)
    <2>1. /\ Agree(Pending', events, events')
          /\ Agree(OfKind(Pending', events, "deposit", t), Values, Values')
          /\ Agree(OfKind(Pending', events, "withdraw", t), Costs, Costs')
        BY <1>1, <1>3, <1>5, Zenon DEF OfKind, Agree
    <2> QED
        BY <2>1, SumOfKindAgree
<1>10. /\ UnseenDeposits(t) = SumOfKind(Pending, events, "deposit", t, Values)
       /\ UnseenPayments(t) = SumOfKind(Pending, events, "withdraw", t, Costs)
       /\ UnseenDeposits(t)' = SumOfKind(Pending', events', "deposit", t, Values')
       /\ UnseenPayments(t)' = SumOfKind(Pending', events', "withdraw", t, Costs')
    BY UnseenSums, UnseenSumsNext, Zenon DEF SumsOfUnseen
<1>11. /\ UnseenDeposits(t)' = SumOfKind(Pending', events, "deposit", t, Values)
       /\ UnseenPayments(t)' = SumOfKind(Pending', events, "withdraw", t, Costs)
    BY <1>9, <1>10, Zenon
<1>12. /\ UnseenDeposits(t) = SumOfKind(Pending' \cup {l}, events, "deposit", t, Values)
       /\ UnseenPayments(t) = SumOfKind(Pending' \cup {l}, events, "withdraw", t, Costs)
    BY <1>2, <1>10, Zenon
<1>13. /\ Addend(events[l], "deposit", t, Values[l]) = Addend(e, "deposit", t, e.value)
       /\ Addend(events[l], "withdraw", t, Costs[l]) = Addend(e, "withdraw", t, v)
    BY <1>1, <1>3, <1>4, Zenon
<1> QED
    BY <1>7, <1>8, <1>11, <1>12, <1>13, Zenon

-----------------------------------------------------------------------------
(* The store *)

(* Steps that leave the store alone. *)
LEMMA StoredKept ==
    ASSUME Stored, UNCHANGED <<batches, blockIndex>>
    PROVE  Stored'
BY Zenon DEF Stored

(* Batches B leave, and the entries of their heights with them. *)
LEMMA StoredLeave ==
    ASSUME Stored, NEW B, batches' = batches \ B, blockIndex' = WithoutBlocks(B)
    PROVE  Stored'
<1>1. /\ DOMAIN blockIndex' = DOMAIN blockIndex \ {b.block : b \in B}
      /\ \A h \in DOMAIN blockIndex' : blockIndex'[h] = blockIndex[h]
    BY Zenon DEF WithoutBlocks
<1>2. ASSUME NEW h \in DOMAIN blockIndex'
      PROVE  blockIndex'[h] \in batches' /\ blockIndex'[h].block = h
    <2>1. h \in DOMAIN blockIndex /\ h \notin {b.block : b \in B}
        BY <1>1, Zenon
    <2>2. blockIndex[h] \in batches /\ blockIndex[h].block = h
        BY <2>1, Zenon DEF Stored
    <2>3. blockIndex[h] \notin B
        BY <2>1, <2>2, Zenon
    <2> QED
        BY <1>1, <2>2, <2>3, Zenon
<1>3. DOMAIN blockIndex' \subseteq Nat
    BY <1>1, Zenon DEF Stored
<1>4. \A b \in batches' : \A x \in b.txs : x.token = b.token
    BY Zenon DEF Stored
<1> QED
    BY <1>2, <1>3, <1>4, Zenon DEF Stored

(* RequestBatch stores a batch of one token, under the present height. *)
LEMMA StoredRequest ==
    ASSUME BridgeInv, Stored, NEW t \in Tokens, RequestBatch(t)
    PROVE  Stored'
<1> DEFINE b == [token |-> t, nonce |-> nextBatch,
                 timeout |-> getBatchTimeoutHeight, block |-> height,
                 txs |-> pickUnbatchedTX(t)]
<1>1. /\ batches' = batches \cup {b}
      /\ blockIndex' = [h \in DOMAIN blockIndex \cup {height} |->
                            IF h = height THEN b ELSE blockIndex[h]]
    BY Zenon DEF RequestBatch
<1>2. b.token = t /\ b.block = height /\ \A x \in b.txs : x.token = t
    BY Zenon DEF pickUnbatchedTX
<1>3. height \in Nat
    BY Zenon DEF BridgeInv, Typed
<1> HIDE DEF b
<1>4. \A c \in batches' : \A x \in c.txs : x.token = c.token
    BY <1>1, <1>2, Zenon DEF Stored
<1>5. DOMAIN blockIndex' \subseteq Nat
    BY <1>1, <1>3, Zenon DEF Stored
<1>6. \A h \in DOMAIN blockIndex' :
            blockIndex'[h] \in batches' /\ blockIndex'[h].block = h
    BY <1>1, <1>2, Zenon DEF Stored
<1> QED
    BY <1>4, <1>5, <1>6, Zenon DEF Stored

-----------------------------------------------------------------------------
(* The steps *)

(* A step other than a move of the bridge keeps what it keeps even. *)
LEMMA BookedKept ==
    ASSUME MoneyInv, NEW t \in Tokens, redeploys' = redeploys,
           Books(t) => Books(t)', t # Native => (Minted(t) => Minted(t)')
    PROVE  Booked(t)'
<1>1. Booked(t)
    BY Zenon DEF MoneyInv
<1> QED
    BY <1>1, Zenon DEF Booked

(* Nothing is emitted, observed or built. *)
LEMMA UnseenKept ==
    ASSUME UNCHANGED <<events, lastObserved, built>>, NEW t
    PROVE  /\ UnseenDeposits(t)' = UnseenDeposits(t)
           /\ UnseenPayments(t)' = UnseenPayments(t)
<1>1. Pending' = Pending /\ Values' = Values
    BY Zenon DEF Pending, Values
<1>2. Costs' = Costs
    <2>1. \A n : PayingBatch(n)' = PayingBatch(n)
        BY Zenon DEF PayingBatch
    <2>2. Costs' = [n \in Pending' |-> Total(PayingBatch(n)'.txs)]
        BY Zenon DEF Costs, Total
    <2> QED
        BY <1>1, <2>1, <2>2, Zenon DEF Costs
<1> QED
    BY <1>1, <1>2, UnseenSums, UnseenSumsNext, Zenon DEF SumsOfUnseen

(* The pool stays. *)
LEMMA PoolKept ==
    ASSUME pool' = pool, NEW t
    PROVE  PoolTotal(t)' = PoolTotal(t)
BY Zenon DEF PoolTotal, TokenTotal, Total

(* No money moves. *)
LEMMA MoneyKept ==
    ASSUME MoneyInv, Stored',
           UNCHANGED <<pool, locked, supply, mintAmount, stranded, redeploys>>,
           \A t \in Tokens : /\ UnseenDeposits(t)' = UnseenDeposits(t)
                             /\ UnseenPayments(t)' = UnseenPayments(t)
    PROVE  MoneyInv'
<1>1. MoneyTyped'
    BY Zenon DEF MoneyInv, MoneyTyped
<1>2. ASSUME NEW t \in Tokens PROVE Booked(t)'
    <2>1. PoolTotal(t)' = PoolTotal(t)
        BY PoolKept, Zenon
    <2>2. Books(t) => Books(t)'
        BY <2>1, Zenon DEF Books, Even
    <2>3. Minted(t) => Minted(t)'
        BY <2>1, Zenon DEF Minted, Covers
    <2> QED
        BY <2>2, <2>3, BookedKept, Zenon
<1> QED
    BY <1>1, <1>2, Zenon DEF MoneyInv

(* A deposit on Ethereum. *)
LEMMA DepositMoney ==
    ASSUME SumFacts, BridgeInv, MoneyInv, NEW u \in Tokens, NEW a \in Amounts,
           sendToInjective(u, a)
    PROVE  MoneyInv'
<1>0. PICK e : e = [kind |-> "deposit", token |-> u, value |-> a,
                    height |-> ethHeight]
    BY Zenon
<1>1. /\ Emit(e) /\ locked' = [locked EXCEPT ![u] = @ + a]
      /\ UNCHANGED <<lastObserved, built, pool, batches, blockIndex, supply,
                     mintAmount, stranded, redeploys>>
    BY <1>0, Zenon DEF sendToInjective, withdrawals, observation
<1>2. /\ e \in Events /\ e.kind = "deposit" /\ e.token = u /\ e.value = a
      /\ a \in Nat
    BY <1>0, BridgeAssumption, Zenon DEF Events, BridgeInv, Typed
<1>3. MoneyTyped /\ IsFiniteSet(pool)
    BY Zenon DEF MoneyInv, MoneyTyped
<1>4. MoneyTyped'
    BY <1>1, <1>2, <1>3 DEF MoneyTyped
<1>5. Pays(e, 0)
    BY <1>2, Zenon DEF Pays
<1>6. ASSUME NEW t \in Tokens PROVE Booked(t)'
    <2>1. PICK v : v = Addend(e, "deposit", t, e.value)
        BY Zenon
    <2>2. Addend(e, "withdraw", t, 0) = 0 /\ v \in Nat
        BY <1>2, <2>1, Zenon DEF Addend
    <2>3. /\ UnseenDeposits(t)' = UnseenDeposits(t) + v
          /\ UnseenPayments(t)' = UnseenPayments(t) + 0
        BY <1>1, <1>2, <1>3, <1>5, <2>1, <2>2, EmittedSums
    <2>4. locked'[t] = locked[t] + v
        BY <1>1, <1>2, <1>3, <2>1 DEF MoneyTyped, Addend
    <2>5. PoolTotal(t)' = PoolTotal(t) /\ supply'[t] = supply[t] /\ stranded'[t] = stranded[t]
          /\ mintAmount'[t] = mintAmount[t]
        BY <1>1, PoolKept, Zenon
    <2>6. Books(t) => Books(t)'
        BY ONLY <2>2, <2>3, <2>4, <2>5 DEF Books, Even
    <2>7. Minted(t) => Minted(t)'
        BY <2>5, Zenon DEF Minted, Covers
    <2> QED
        BY <1>1, <2>6, <2>7, BookedKept, Zenon
<1>7. Stored'
    BY <1>1, StoredKept, Zenon DEF MoneyInv
<1> QED
    BY <1>4, <1>6, <1>7, Zenon DEF MoneyInv

(* Ethereum executes a batch. *)
LEMMA SubmitMoney ==
    ASSUME SumFacts, BridgeInv, MoneyInv, NEW b \in built, submitBatch(b)
    PROVE  MoneyInv'
<1>0. PICK e : e = [kind |-> "withdraw", token |-> b.token, value |-> b.nonce,
                    height |-> ethHeight]
    BY Zenon
<1>1. /\ ethBatchNonce[b.token] < b.nonce /\ ethHeight < b.timeout
      /\ locked[b.token] >= Total(b.txs)
      /\ Emit(e) /\ locked' = [locked EXCEPT ![b.token] = @ - Total(b.txs)]
      /\ UNCHANGED <<lastObserved, built, pool, batches, blockIndex, supply,
                     mintAmount, stranded, redeploys>>
    BY <1>0, Zenon DEF submitBatch, withdrawals, observation
<1>2. /\ b.token \in Tokens /\ b.nonce \in Nat /\ b.timeout \in Nat
      /\ ethHeight \in Nat /\ ethBatchNonce[b.token] \in Nat
    BY Zenon DEF BridgeInv, Typed, Batches
<1>3. b \in batches
    BY <1>1, <1>2 DEF BridgeInv, ForgottenIsDead
<1>4. e \in Events /\ e.kind = "withdraw" /\ e.token = b.token /\ e.value = b.nonce
    BY <1>0, <1>2, Zenon DEF Events
<1>5. MoneyTyped /\ IsFiniteSet(pool)
    BY Zenon DEF MoneyInv, MoneyTyped
<1>6. PICK c : c = Total(b.txs) /\ c \in Nat
    BY <1>3, <1>5, BatchTotalType, Zenon
<1>7. MoneyTyped'
    <2>1. locked' \in [Tokens -> Nat]
        BY <1>1, <1>2, <1>5, <1>6 DEF MoneyTyped
    <2> QED
        BY <1>1, <1>5, <2>1, Zenon DEF MoneyTyped
<1>8. Pays(e, c)
    BY <1>3, <1>4, <1>6, Zenon DEF Pays
<1>9. ASSUME NEW t \in Tokens PROVE Booked(t)'
    <2>1. PICK v : v = Addend(e, "withdraw", t, c)
        BY Zenon
    <2>2. Addend(e, "deposit", t, e.value) = 0 /\ v \in Nat
        BY <1>4, <1>6, <2>1, Zenon DEF Addend
    <2>3. /\ UnseenDeposits(t)' = UnseenDeposits(t) + 0
          /\ UnseenPayments(t)' = UnseenPayments(t) + v
        BY <1>1, <1>4, <1>5, <1>8, <2>1, <2>2, EmittedSums, ZenonT(30)
    <2>4. locked'[t] = locked[t] - v
        BY <1>1, <1>4, <1>5, <1>6, <2>1 DEF MoneyTyped, Addend
    <2>5. /\ PoolTotal(t)' = PoolTotal(t) /\ supply'[t] = supply[t]
          /\ stranded'[t] = stranded[t] /\ mintAmount'[t] = mintAmount[t]
        BY <1>1, PoolKept, Zenon
    <2>6. Books(t) => Books(t)'
        BY ONLY <2>2, <2>3, <2>4, <2>5 DEF Books, Even
    <2>7. Minted(t) => Minted(t)'
        BY <2>5, Zenon DEF Minted, Covers
    <2> QED
        BY <1>1, <2>6, <2>7, BookedKept, Zenon
<1>10. Stored'
    BY <1>1, StoredKept, Zenon DEF MoneyInv
<1> QED
    BY <1>7, <1>9, <1>10, Zenon DEF MoneyInv

(* A withdrawal enters the pool. *)
LEMMA SendMoney ==
    ASSUME SumFacts, BridgeInv, MoneyInv, NEW u \in Tokens, NEW a \in Amounts,
           NEW f \in Fees, SendToEth(u, a, f)
    PROVE  MoneyInv'
<1>0. PICK x : x = [id |-> nextTx, token |-> u, amount |-> a, fee |-> f]
    BY Zenon
<1>1. /\ nextTx < MaxTxs /\ supply[u] >= a + f
      /\ supply' = [supply EXCEPT ![u] = @ - (a + f)]
      /\ pool' = pool \cup {x}
      /\ UNCHANGED <<events, lastObserved, built, batches, blockIndex, locked,
                     mintAmount, stranded, redeploys>>
    BY <1>0, Zenon DEF SendToEth, eth, observation
<1>2. a \in Nat /\ f \in Nat /\ a + f \in Nat /\ MaxTxs \in Nat /\ SupplyCap \in Nat
    BY BridgeAssumption
<1>3. nextTx \in 0..MaxTxs /\ pool \in SUBSET Txs
    BY Zenon DEF BridgeInv, Typed
<1>4. x \in Txs /\ x.token = u /\ x.amount = a /\ x.fee = f
    <2>1. nextTx \in TxIds
        BY <1>1, <1>2, <1>3 DEF TxIds
    <2> QED
        BY <1>0, <2>1, Zenon DEF Txs
<1>5. x \notin pool
    <2>1. \A y \in pool : y.id < nextTx
        BY Zenon DEF BridgeInv, Identified
    <2>2. x.id = nextTx
        BY <1>0, Zenon
    <2> QED
        BY <1>3, <2>1, <2>2
<1>6. MoneyTyped /\ Costed(pool)
    BY <1>3, Zenon DEF MoneyInv, MoneyTyped, Costed
<1>7. MoneyTyped'
    <2>1. IsFiniteSet(pool')
        BY <1>1, <1>6, Zenon DEF SumFacts, FiniteSetFacts, MoneyTyped
    <2>2. supply' \in [Tokens -> 0..SupplyCap]
        <3>1. supply \in [Tokens -> 0..SupplyCap]
            BY <1>6, Zenon DEF MoneyTyped
        <3>2. supply[u] - (a + f) \in 0..SupplyCap
            BY <1>1, <1>2, <3>1
        <3> QED
            BY <1>1, <3>1, <3>2, Zenon
    <2> QED
        BY <1>1, <1>6, <2>1, <2>2, Zenon DEF MoneyTyped
<1>8. ASSUME NEW t \in Tokens PROVE Booked(t)'
    <2>1. PICK v : v = Part(x.amount + x.fee, t, x.token)
        BY Zenon
    <2>2. v \in Nat /\ TokenTotal(pool \cup {x}, t) = TokenTotal(pool, t) + v
        BY <1>4, <1>5, <1>6, <2>1, TokenTotalAdd, Zenon
    <2>3. PoolTotal(t)' = PoolTotal(t) + v
        <3>1. PoolTotal(t)' = TokenTotal(pool', t)
            BY Zenon DEF PoolTotal, TokenTotal, Total
        <3> QED
            BY <1>1, <2>2, <3>1, Zenon DEF PoolTotal
    <2>4. supply'[t] = supply[t] - v
        BY <1>1, <1>2, <1>4, <1>6, <2>1 DEF MoneyTyped, Part
    <2>5. /\ UnseenDeposits(t)' = UnseenDeposits(t) /\ UnseenPayments(t)' = UnseenPayments(t)
          /\ locked'[t] = locked[t] /\ mintAmount'[t] = mintAmount[t]
          /\ stranded'[t] = stranded[t]
        BY <1>1, UnseenKept, Zenon
    <2>6. Books(t) => Books(t)'
        BY ONLY <2>2, <2>3, <2>4, <2>5, SMTT(30) DEF Books, Even
    <2>7. Minted(t) => Minted(t)'
        BY ONLY <2>2, <2>3, <2>4, <2>5 DEF Minted, Covers
    <2> QED
        BY <1>1, <2>6, <2>7, BookedKept, Zenon
<1>9. Stored'
    BY <1>1, StoredKept, Zenon DEF MoneyInv
<1> QED
    BY <1>7, <1>8, <1>9, Zenon DEF MoneyInv

(* A withdrawal is refunded. *)
LEMMA CancelMoney ==
    ASSUME SumFacts, BridgeInv, MoneyInv, NEW x \in pool, CancelSendToEth(x)
    PROVE  MoneyInv'
<1>1. /\ supply[x.token] + x.amount + x.fee <= SupplyCap
      /\ pool' = pool \ {x}
      /\ supply' = [supply EXCEPT ![x.token] = @ + x.amount + x.fee]
      /\ UNCHANGED <<events, lastObserved, built, batches, blockIndex, locked,
                     mintAmount, stranded, redeploys>>
    BY Zenon DEF CancelSendToEth, eth, observation
<1>2. pool \in SUBSET Txs /\ x \in Txs
    BY DEF BridgeInv, Typed
<1>3. x.token \in Tokens /\ x.amount \in Nat /\ x.fee \in Nat /\ SupplyCap \in Nat
    BY <1>2, BridgeAssumption, Zenon DEF Txs
<1>4. MoneyTyped
    BY DEF MoneyInv
<1>5. MoneyTyped'
    <2>1. IsFiniteSet(pool')
        BY <1>1, <1>4, Zenon DEF SumFacts, FiniteSetFacts, MoneyTyped
    <2>2. supply' \in [Tokens -> 0..SupplyCap]
        <3>1. supply \in [Tokens -> 0..SupplyCap]
            BY <1>4, Zenon DEF MoneyTyped
        <3>2. supply[x.token] + x.amount + x.fee \in 0..SupplyCap
            BY <1>1, <1>3, <3>1
        <3> QED
            BY <1>1, <3>1, <3>2, Zenon
    <2> QED
        BY <1>1, <1>4, <2>1, <2>2, Zenon DEF MoneyTyped
<1>6. pool = pool' \cup {x} /\ x \notin pool' /\ Costed(pool')
    BY <1>1, <1>2, <1>5, Zenon DEF Costed, MoneyTyped
<1>7. ASSUME NEW t \in Tokens PROVE Booked(t)'
    <2>1. PICK v : v = Part(x.amount + x.fee, t, x.token)
        BY Zenon
    <2>2. v \in Nat /\ TokenTotal(pool' \cup {x}, t) = TokenTotal(pool', t) + v
        BY <1>2, <1>6, <2>1, TokenTotalAdd, Zenon
    <2>3. PoolTotal(t) = PoolTotal(t)' + v /\ PoolTotal(t)' \in Nat
        <3>1. PoolTotal(t)' = TokenTotal(pool', t) /\ TokenTotal(pool', t) \in Nat
            <4>1. TokenTotal(pool', t) \in Nat
                BY <1>2, <1>6, TokenTotalAdd, Zenon
            <4> QED
                BY <4>1, Zenon DEF PoolTotal, TokenTotal, Total
        <3> QED
            BY <1>6, <2>2, <3>1, Zenon DEF PoolTotal
    <2>4. supply'[t] = supply[t] + v
        BY <1>1, <1>3, <1>4, <2>1 DEF MoneyTyped, Part
    <2>5. /\ UnseenDeposits(t)' = UnseenDeposits(t) /\ UnseenPayments(t)' = UnseenPayments(t)
          /\ locked'[t] = locked[t] /\ mintAmount'[t] = mintAmount[t]
          /\ stranded'[t] = stranded[t]
        BY <1>1, UnseenKept, ZenonT(30)
    <2>6. Books(t) => Books(t)'
        BY ONLY <2>2, <2>3, <2>4, <2>5, SMTT(30) DEF Books, Even
    <2>7. Minted(t) => Minted(t)'
        BY ONLY <2>2, <2>3, <2>4, <2>5 DEF Minted, Covers
    <2> QED
        BY <1>1, <2>6, <2>7, BookedKept, Zenon
<1>8. Stored'
    BY <1>1, StoredKept, Zenon DEF MoneyInv
<1> QED
    BY <1>5, <1>7, <1>8 DEF MoneyInv

(* A new batch is not the one of any unseen payment. *)
LEMMA RequestMoney ==
    ASSUME BridgeInv, MoneyInv, NEW u \in Tokens, RequestBatch(u)
    PROVE  MoneyInv'
<1>1. PICK b : b.nonce = nextBatch /\ built' = built \cup {b}
    BY SMTT(30) DEF RequestBatch
<1>2. UNCHANGED <<events, lastObserved, pool, locked, supply, mintAmount, stranded,
                  redeploys>>
    BY Zenon DEF RequestBatch, observation
<1>3. Pending' = Pending /\ Values' = Values
    BY <1>2, Zenon DEF Pending, Values
<1>4. ASSUME NEW n \in Pending, events[n].kind = "withdraw"
      PROVE  PayingBatch(n)' = PayingBatch(n)
    <2>1. PICK c \in batches : Executes(n, c) /\ PayingBatch(n) = c
        BY <1>4, UnseenPaid, Zenon
    <2>2. c \in built /\ c.token = events[n].token /\ c.nonce = events[n].value
        BY <2>1, Zenon DEF BridgeInv, Identified, Executes
    <2>3. c.nonce \in Nat /\ nextBatch \in Nat /\ c.nonce < nextBatch
        BY <2>2, Zenon DEF BridgeInv, Identified, Typed, Batches
    <2>4. \A d \in built' : d.nonce = c.nonce => d = c
        BY <1>1, <2>2, <2>3 DEF BridgeInv, Identified
    <2>5. PayingBatch(n)' =
            CHOOSE d \in built' : d.token = events[n].token /\ d.nonce = events[n].value
        BY <1>2, Zenon DEF PayingBatch
    <2>6. PayingBatch(n)' = c
        BY <1>1, <2>2, <2>4, <2>5, Zenon
    <2> QED
        BY <2>1, <2>6, Zenon
<1>5. ASSUME NEW t \in Tokens
      PROVE  /\ UnseenDeposits(t)' = UnseenDeposits(t)
             /\ UnseenPayments(t)' = UnseenPayments(t)
    <2>1. Costs' = [n \in Pending' |-> Total(PayingBatch(n)'.txs)]
        BY Zenon DEF Costs, Total
    <2>2. Agree(OfKind(Pending, events, "withdraw", t), Costs, Costs')
        BY <1>3, <1>4, <2>1, Zenon DEF Agree, OfKind, Costs
    <2>3. Agree(Pending, events, events')
        BY <1>2, Zenon DEF Agree
    <2>4. SumOfKind(Pending, events', "withdraw", t, Costs')
            = SumOfKind(Pending, events, "withdraw", t, Costs)
        BY <2>2, <2>3, SumOfKindAgree
    <2> QED
        BY <1>2, <1>3, <2>4, UnseenSums, UnseenSumsNext, Zenon DEF SumsOfUnseen
<1>6. Stored'
    BY StoredRequest, Zenon DEF MoneyInv
<1> QED
    BY <1>2, <1>5, <1>6, MoneyKept, ZenonT(30)

(* A deposit is observed: minted, or stranded. *)
LEMMA ClaimMoney ==
    ASSUME SumFacts, BridgeInv, MoneyInv, NEW e \in NextEvents, handleDepositClaim(e)
    PROVE  MoneyInv'
<1>0. PICK u, v : u = e.token /\ v = e.value
    BY Zenon
<1>1. /\ e.kind = "deposit" /\ Observe(e)
      /\ UNCHANGED <<pool, batches, blockIndex>>
      /\ \/ /\ supply[u] + v <= SupplyCap
            /\ u # Native => mintAmount[u] + v <= SupplyCap
            /\ supply' = [supply EXCEPT ![u] = @ + v]
            /\ mintAmount' = IF u = Native THEN mintAmount
                             ELSE [mintAmount EXCEPT ![u] = @ + v]
            /\ UNCHANGED stranded
         \/ /\ stranded' = [stranded EXCEPT ![u] = @ + v]
            /\ UNCHANGED <<supply, mintAmount>>
    BY <1>0, Zenon DEF handleDepositClaim
<1>2. UNCHANGED <<locked, redeploys>>
    BY <1>1, Zenon DEF Observe, eth
<1>3. u \in Tokens /\ v \in Nat
    <2>1. events \in Seq(Events)
        BY Zenon DEF BridgeInv, Typed
    <2>2. e \in Events
        BY <2>1 DEF NextEvents
    <2> QED
        BY <1>0, <2>2, Zenon DEF Events
<1>4. MoneyTyped /\ IsFiniteSet(pool) /\ SupplyCap \in Nat
    BY BridgeAssumption, Zenon DEF MoneyInv, MoneyTyped
<1>5. /\ supply \in [Tokens -> 0..SupplyCap] /\ mintAmount \in [Tokens -> 0..SupplyCap]
      /\ stranded \in [Tokens -> Nat] /\ locked \in [Tokens -> Nat]
    BY <1>4, Zenon DEF MoneyTyped
<1>6. MoneyTyped'
    <2>1. /\ supply' \in [Tokens -> 0..SupplyCap] /\ mintAmount' \in [Tokens -> 0..SupplyCap]
          /\ stranded' \in [Tokens -> Nat]
        BY <1>1, <1>3, <1>4, <1>5
    <2> QED
        BY <1>1, <1>2, <1>4, <2>1, Zenon DEF MoneyTyped
<1>7. Pays(e, 0)
    BY <1>1, Zenon DEF Pays
<1>8. ASSUME NEW t \in Tokens PROVE Booked(t)'
    <2>1. PICK c : c = Addend(e, "deposit", t, e.value)
        BY Zenon
    <2>2. Addend(e, "withdraw", t, 0) = 0
        BY <1>1, Zenon DEF Addend
    <2>3. /\ UnseenDeposits(t)' \in Nat /\ UnseenPayments(t)' \in Nat /\ c \in Nat
          /\ UnseenDeposits(t) = UnseenDeposits(t)' + c
          /\ UnseenPayments(t) = UnseenPayments(t)' + 0
        BY <1>1, <1>4, <1>7, <2>1, <2>2, ObservedSums
    <2>4. c = (IF t = u THEN v ELSE 0)
        BY <1>0, <1>1, <2>1, Zenon DEF Addend
    <2>5. /\ supply[t] \in Int /\ mintAmount[t] \in Int /\ stranded[t] \in Int
        BY <1>4, <1>5
    <2>6. \/ /\ supply'[t] = supply[t] + c
             /\ t # Native => mintAmount'[t] = mintAmount[t] + c
             /\ stranded'[t] = stranded[t]
          \/ /\ stranded'[t] = stranded[t] + c
             /\ supply'[t] = supply[t] /\ mintAmount'[t] = mintAmount[t]
        BY <1>1, <1>3, <1>5, <2>4, <2>5
    <2>7. locked'[t] = locked[t] /\ PoolTotal(t)' = PoolTotal(t)
        BY <1>1, <1>2, PoolKept, ZenonT(30)
    <2>8. Books(t) => Books(t)'
        BY ONLY <2>3, <2>5, <2>6, <2>7, SMTT(30) DEF Books, Even
    <2>9. t # Native => (Minted(t) => Minted(t)')
        BY ONLY <2>3, <2>5, <2>6, <2>7 DEF Minted, Covers
    <2> QED
        BY <1>2, <2>8, <2>9, BookedKept, Zenon
<1>9. Stored'
    BY <1>1, StoredKept, Zenon DEF MoneyInv
<1> QED
    BY <1>6, <1>8, <1>9, Zenon DEF MoneyInv

(* An execution is observed: its withdrawals were paid. *)
LEMMA ExecutedMoney ==
    ASSUME SumFacts, BridgeInv, MoneyInv, NEW e \in NextEvents, OutgoingTxBatchExecuted(e)
    PROVE  MoneyInv'
<1>1. PICK b \in Executed(e) :
        LET earlier == {c \in batches : c.token = b.token /\ c.nonce < b.nonce}
        IN  /\ e.kind = "withdraw"
            /\ Observe(e)
            /\ pool' = pool \ b.txs
            /\ batches' = batches \ (earlier \cup {b})
            /\ blockIndex' = WithoutBlocks(earlier \cup {b})
            /\ mintAmount' = IF b.token = Native THEN mintAmount
                             ELSE [mintAmount EXCEPT ![b.token] = @ - Total(b.txs)]
            /\ UNCHANGED <<supply, stranded>>
    BY Zenon DEF OutgoingTxBatchExecuted
<1>2. PICK u, v : u = b.token /\ v = Total(b.txs)
    BY Zenon
<1>3. /\ e.kind = "withdraw" /\ Observe(e) /\ pool' = pool \ b.txs
      /\ mintAmount' = IF u = Native THEN mintAmount
                       ELSE [mintAmount EXCEPT ![u] = @ - v]
      /\ UNCHANGED <<supply, stranded>>
    BY <1>1, <1>2, Zenon
<1>4. UNCHANGED <<locked, redeploys>>
    BY <1>3, Zenon DEF Observe, eth
<1>5. b \in batches /\ e.token = u /\ e.value = b.nonce
    BY <1>2, Zenon DEF Executed
<1>6. u \in Tokens
    BY <1>2, <1>5 DEF BridgeInv, Typed, Identified, Batches
<1>7. MoneyTyped /\ IsFiniteSet(pool) /\ SupplyCap \in Nat
    BY BridgeAssumption, Zenon DEF MoneyInv, MoneyTyped
<1>8. b.txs \in SUBSET pool /\ v \in Nat /\ Costed(pool)
    BY <1>2, <1>5, <1>7, BatchTotalType, Zenon
<1>9. OfToken(b.txs, u)
    BY <1>2, <1>5, Zenon DEF MoneyInv, Stored, OfToken
<1>10. /\ supply \in [Tokens -> 0..SupplyCap] /\ mintAmount \in [Tokens -> 0..SupplyCap]
       /\ stranded \in [Tokens -> Nat] /\ locked \in [Tokens -> Nat]
    BY <1>7 DEF MoneyTyped
<1>11. ASSUME NEW t
       PROVE  /\ PoolTotal(t)' \in Nat /\ Part(v, t, u) \in Nat
              /\ PoolTotal(t) = PoolTotal(t)' + Part(v, t, u)
    <2>1. PoolTotal(t)' = TokenTotal(pool', t)
        BY Zenon DEF PoolTotal, TokenTotal, Total
    <2>2. /\ TokenTotal(pool \ b.txs, t) \in Nat /\ Part(Total(b.txs), t, u) \in Nat
          /\ TokenTotal(pool, t) = TokenTotal(pool \ b.txs, t) + Part(Total(b.txs), t, u)
        BY <1>8, <1>9, TokenTotalSplit, ZenonT(30)
    <2> QED
        BY <1>2, <1>3, <2>1, <2>2, Zenon DEF PoolTotal
<1>12. MoneyTyped'
    <2>1. IsFiniteSet(pool')
        BY <1>3, <1>7, Zenon DEF SumFacts, FiniteSetFacts, MoneyTyped
    <2>2. mintAmount' \in [Tokens -> 0..SupplyCap]
        <3>1. CASE u = Native
            BY <1>3, <1>10, <3>1, Zenon
        <3>2. CASE u # Native
            <4>1. Minted(u)
                BY <1>6, <3>2, Zenon DEF MoneyInv, Booked
            <4>2. mintAmount[u] = supply[u] + PoolTotal(u)
                BY <4>1 DEF Minted, Covers
            <4>3. PoolTotal(u)' \in Nat /\ PoolTotal(u) = PoolTotal(u)' + v
                BY <1>11, Zenon DEF Part
            <4>4. mintAmount[u] - v \in 0..SupplyCap
                BY <1>6, <1>7, <1>8, <1>10, <4>2, <4>3
            <4> QED
                BY <1>3, <1>10, <3>2, <4>4, Zenon
        <3> QED
            BY <3>1, <3>2
    <2> QED
        BY <1>3, <1>4, <1>7, <2>1, <2>2, Zenon DEF MoneyTyped
<1>13. Pays(e, v)
    BY <1>2, <1>5, Zenon DEF Pays
<1>14. ASSUME NEW t \in Tokens PROVE Booked(t)'
    <2>1. PICK c : c = Part(v, t, u)
        BY Zenon
    <2>2. /\ Addend(e, "deposit", t, e.value) = 0 /\ Addend(e, "withdraw", t, v) = c
        BY <1>3, <1>5, <2>1, Zenon DEF Addend, Part
    <2>3. /\ UnseenDeposits(t)' \in Nat /\ UnseenPayments(t)' \in Nat
          /\ UnseenDeposits(t) = UnseenDeposits(t)' + 0
          /\ UnseenPayments(t) = UnseenPayments(t)' + c
        BY <1>3, <1>7, <1>13, <2>2, ObservedSums, Zenon
    <2>4. /\ PoolTotal(t)' \in Nat /\ c \in Nat
          /\ PoolTotal(t) = PoolTotal(t)' + c
        BY <1>11, <2>1, Zenon
    <2>5. /\ supply[t] \in Int /\ mintAmount[t] \in Int /\ stranded[t] \in Int
        BY <1>7, <1>10, SMTT(30)
    <2>6. t # Native => mintAmount'[t] = mintAmount[t] - c
        BY <1>3, <1>8, <1>10, <2>1, <2>5 DEF Part
    <2>7. locked'[t] = locked[t] /\ supply'[t] = supply[t] /\ stranded'[t] = stranded[t]
        BY <1>3, <1>4, ZenonT(30)
    <2>8. Books(t) => Books(t)'
        BY ONLY <2>3, <2>4, <2>5, <2>7, SMTT(30) DEF Books, Even
    <2>9. t # Native => (Minted(t) => Minted(t)')
        BY ONLY <2>4, <2>5, <2>6, <2>7, SMTT(30) DEF Minted, Covers
    <2> QED
        BY <1>4, <2>8, <2>9, BookedKept, Zenon
<1>15. Stored'
    BY <1>1, StoredLeave, Zenon DEF MoneyInv
<1> QED
    BY <1>12, <1>14, <1>15, Zenon DEF MoneyInv

(* An empty pool costs nothing. *)
LEMMA NoPoolTotal ==
    ASSUME SumFacts, pool = {}, NEW t
    PROVE  PoolTotal(t) = 0
<1>1. {x \in pool : x.token = t} = {}
    OBVIOUS
<1>2. Total({}) = 0
    BY Zenon DEF SumFacts, SumOfNone, Total
<1> QED
    BY <1>1, <1>2, Zenon DEF PoolTotal, TokenTotal

(* The bridge moves: every withdrawal is minted back. *)
LEMMA ResetMoney ==
    ASSUME SumFacts, BridgeInv, MoneyInv, NEW h \in 1..MaxEthHeight, ResetPeggyModuleState(h)
    PROVE  MoneyInv'
<1>1. /\ redeploys < MaxRedeploys /\ redeploys' = redeploys + 1
      /\ \A t \in Tokens : supply[t] + PoolTotal(t) <= SupplyCap
      /\ pool' = {} /\ batches' = {} /\ blockIndex' = WithoutBlocks(batches)
      /\ supply' = [t \in Tokens |-> supply[t] + PoolTotal(t)]
      /\ locked' = [t \in Tokens |-> 0]
      /\ UNCHANGED <<mintAmount, stranded>>
    BY Zenon DEF ResetPeggyModuleState, PoolTotal, TokenTotal
<1>2. MoneyTyped /\ Costed(pool)
    BY Zenon DEF MoneyInv, MoneyTyped, BridgeInv, Typed, Costed
<1>3. ASSUME NEW t \in Tokens PROVE PoolTotal(t) \in Nat /\ supply[t] \in Nat
    <2>1. Costed({x \in pool : x.token = t})
        BY <1>2, CostedSubset, Zenon
    <2>2. PoolTotal(t) \in Nat
        BY <2>1, TotalType, Zenon DEF PoolTotal, TokenTotal
    <2>3. supply[t] \in 0..SupplyCap
        BY <1>2, Zenon DEF MoneyTyped
    <2> QED
        BY <2>2, <2>3, BridgeAssumption
<1>4. redeploys \in Nat /\ redeploys' \in 0..MaxRedeploys /\ redeploys' # 0
    BY <1>1, <1>2, BridgeAssumption DEF MoneyTyped
<1>5. MoneyTyped'
    <2>1. supply' \in [Tokens -> 0..SupplyCap]
        BY <1>1, <1>3, BridgeAssumption
    <2>2. locked' \in [Tokens -> Nat]
        BY <1>1, Zenon
    <2>3. IsFiniteSet(pool')
        BY <1>1, Zenon DEF SumFacts, FiniteSetFacts
    <2> QED
        BY <1>1, <1>2, <1>4, <2>1, <2>2, <2>3, Zenon DEF MoneyTyped
<1>6. ASSUME NEW t \in Tokens PROVE Booked(t)'
    <2>1. PoolTotal(t)' = 0
        <3>1. {x \in pool' : x.token = t} = {}
            BY <1>1, Zenon
        <3>2. Total({}) = 0
            BY Zenon DEF SumFacts, SumOfNone, Total
        <3>3. PoolTotal(t)' = Total({x \in pool' : x.token = t})
            BY Zenon DEF PoolTotal, TokenTotal, Total
        <3> QED
            BY <3>1, <3>2, <3>3, Zenon
    <2>2. supply'[t] = supply[t] + PoolTotal(t) /\ mintAmount'[t] = mintAmount[t]
        BY <1>1, Zenon
    <2>3. Minted(t) => Minted(t)'
        BY ONLY <2>1, <2>2 DEF Minted, Covers
    <2> QED
        BY <1>4, <2>3, Zenon DEF MoneyInv, Booked
<1>7. Stored'
    <2>1. batches' = batches \ batches
        BY <1>1
    <2> QED
        BY <1>1, <2>1, StoredLeave, Zenon DEF MoneyInv
<1> QED
    BY <1>5, <1>6, <1>7, Zenon DEF MoneyInv

(* The books are even at the start. *)
LEMMA InitMoneyInv ==
    ASSUME SumFacts, Init
    PROVE  MoneyInv
<1>1. MoneyTyped
    <2>1. 0 \in 0..SupplyCap /\ InitialSupply \in 0..SupplyCap /\ InitialSupply \in Nat
          /\ 0 \in 0..MaxRedeploys
        BY BridgeAssumption
    <2>2. IsFiniteSet(pool)
        BY Zenon DEF SumFacts, FiniteSetFacts, Init
    <2> QED
        BY <2>1, <2>2, ZenonT(30) DEF Init, MoneyTyped
<1>2. Stored
    BY Zenon DEF Init, Stored
<1>3. Pending = {}
    BY DEF Init, Pending
<1>4. ASSUME NEW t \in Tokens PROVE Booked(t)
    <2>1. \A k : Unseen(t, k) = {}
        BY <1>3, ZenonT(30) DEF Unseen, Pending
    <2>2. UnseenDeposits(t) = 0 /\ UnseenPayments(t) = 0
        BY <2>1, Zenon DEF SumFacts, SumOfNone, UnseenDeposits, UnseenPayments
    <2>3. PoolTotal(t) = 0
        BY NoPoolTotal, Zenon DEF Init
    <2>4. /\ locked[t] = IF t = Native THEN InitialSupply ELSE 0
          /\ supply[t] = locked[t] /\ mintAmount[t] = 0 /\ stranded[t] = 0
        BY ZenonT(30) DEF Init
    <2>5. locked[t] \in Int /\ (t # Native => locked[t] = 0)
        BY <2>4, BridgeAssumption, SMTT(30)
    <2>6. Books(t)
        BY ONLY <2>2, <2>3, <2>4, <2>5, SMTT(30) DEF Books, Even
    <2>7. t # Native => Minted(t)
        BY ONLY <2>3, <2>4, <2>5 DEF Minted, Covers
    <2> QED
        BY <2>6, <2>7, Zenon DEF Booked
<1> QED
    BY <1>1, <1>2, <1>4, ZenonT(30) DEF MoneyInv

(* Ethereum or the chain goes on to its next block. *)
LEMMA BlockMoney ==
    ASSUME MoneyInv, EthBlock \/ EndBlock \/ UNCHANGED vars
    PROVE  MoneyInv'
<1>1. UNCHANGED <<pool, locked, supply, mintAmount, stranded, redeploys, events,
                  lastObserved, built>>
    BY Zenon DEF EthBlock, EndBlock, vars, eth, withdrawals, observation
<1>2. Stored'
    <2>1. CASE EndBlock
        BY <2>1, StoredLeave, ZenonT(30) DEF MoneyInv, EndBlock
    <2>2. CASE EthBlock \/ UNCHANGED vars
        <3>1. UNCHANGED <<batches, blockIndex>>
            BY <2>2, Zenon DEF EthBlock, vars, withdrawals
        <3> QED
            BY <3>1, StoredKept, ZenonT(30) DEF MoneyInv
    <2> QED
        BY <2>1, <2>2, Zenon
<1>3. \A t \in Tokens : /\ UnseenDeposits(t)' = UnseenDeposits(t)
                        /\ UnseenPayments(t)' = UnseenPayments(t)
    BY <1>1, UnseenKept, Zenon
<1> QED
    BY <1>1, <1>2, <1>3, MoneyKept, ZenonT(30)

(* A new validator set, on Ethereum and then on the chain. *)
LEMMA ValsetMoney ==
    ASSUME SumFacts, BridgeInv, MoneyInv,
           updateValset \/ \E e \in NextEvents : handleValsetUpdatedClaim(e)
    PROVE  MoneyInv'
<1>1. UNCHANGED <<pool, locked, supply, mintAmount, stranded, redeploys, batches,
                  blockIndex>>
    BY Zenon DEF updateValset, handleValsetUpdatedClaim, Observe, eth, withdrawals
<1>2. IsFiniteSet(pool) /\ Stored
    BY Zenon DEF MoneyInv, MoneyTyped
<1>3. ASSUME NEW t \in Tokens
      PROVE  /\ UnseenDeposits(t)' = UnseenDeposits(t)
             /\ UnseenPayments(t)' = UnseenPayments(t)
    <2>1. CASE updateValset
        <3>1. PICK e : e = [kind |-> "valset", token |-> Native, value |-> 0,
                            height |-> ethHeight]
            BY Zenon
        <3>2. e \in Events /\ e.kind = "valset"
            BY <3>1, BridgeAssumption, ZenonT(30) DEF Events, BridgeInv, Typed
        <3>3. Emit(e) /\ UNCHANGED <<lastObserved, built>>
            BY <2>1, <3>1, ZenonT(30) DEF updateValset, observation
        <3>4. /\ Pays(e, 0) /\ Addend(e, "deposit", t, e.value) = 0
              /\ Addend(e, "withdraw", t, 0) = 0
            BY <3>2, Zenon DEF Pays, Addend
        <3>5. /\ UnseenDeposits(t) \in Nat /\ UnseenPayments(t) \in Nat
              /\ UnseenDeposits(t)' = UnseenDeposits(t) + 0
              /\ UnseenPayments(t)' = UnseenPayments(t) + 0
            BY <1>2, <3>2, <3>3, <3>4, EmittedSums, SMTT(30)
        <3> QED
            BY <3>5
    <2>2. CASE \E e \in NextEvents : handleValsetUpdatedClaim(e)
        <3>1. PICK e \in NextEvents : e.kind = "valset" /\ Observe(e)
            BY <2>2, Zenon DEF handleValsetUpdatedClaim
        <3>2. /\ Pays(e, 0) /\ Addend(e, "deposit", t, e.value) = 0
              /\ Addend(e, "withdraw", t, 0) = 0
            BY <3>1, Zenon DEF Pays, Addend
        <3>3. /\ UnseenDeposits(t)' \in Nat /\ UnseenPayments(t)' \in Nat
              /\ UnseenDeposits(t) = UnseenDeposits(t)' + 0
              /\ UnseenPayments(t) = UnseenPayments(t)' + 0
            BY <1>2, <3>1, <3>2, ObservedSums, SMTT(30)
        <3> QED
            BY <3>3
    <2> QED
        BY <2>1, <2>2, ZenonT(30)
<1>4. Stored'
    BY <1>1, <1>2, StoredKept, ZenonT(30)
<1> QED
    BY <1>1, <1>3, <1>4, MoneyKept, ZenonT(30)

(* Every step keeps the books. *)
LEMMA NextMoneyInv ==
    ASSUME SumFacts, BridgeInv, MoneyInv, [Next]_vars
    PROVE  MoneyInv'
<1>1. CASE EthBlock \/ EndBlock \/ UNCHANGED vars
    BY <1>1, BlockMoney, ZenonT(30)
<1>2. CASE updateValset \/ \E e \in NextEvents : handleValsetUpdatedClaim(e)
    BY <1>2, ValsetMoney, ZenonT(30)
<1>3. CASE \E t \in Tokens, a \in Amounts : sendToInjective(t, a)
    BY <1>3, DepositMoney, Zenon
<1>4. CASE \E b \in built : submitBatch(b)
    BY <1>4, SubmitMoney, Zenon
<1>5. CASE \E t \in Tokens, a \in Amounts, f \in Fees : SendToEth(t, a, f)
    BY <1>5, SendMoney, ZenonT(30)
<1>6. CASE \E x \in pool : CancelSendToEth(x)
    BY <1>6, CancelMoney
<1>7. CASE \E t \in Tokens : RequestBatch(t)
    BY <1>7, RequestMoney, ZenonT(30)
<1>8. CASE \E e \in NextEvents : handleDepositClaim(e)
    BY <1>8, ClaimMoney, Zenon
<1>9. CASE \E e \in NextEvents : OutgoingTxBatchExecuted(e)
    BY <1>9, ExecutedMoney, Zenon
<1>10. CASE \E h \in 1..MaxEthHeight : ResetPeggyModuleState(h)
    BY <1>10, ResetMoney, Zenon
<1> QED
    BY <1>1, <1>2, <1>3, <1>4, <1>5, <1>6, <1>7, <1>8, <1>9, <1>10, ZenonT(30) DEF Next

-----------------------------------------------------------------------------
(* Theorems *)

INSTANCE Sums

(* The facts about finite sets and sums that the money's steps rest on. *)
LEMMA SumFactsHold == SumFacts
<1>1. FiniteSetFacts
    BY FS_EmptySet, FS_Subset, FS_AddElement, FS_Interval, Zenon DEF FiniteSetFacts
<1>2. SumOfNaturals
    BY SumFunctionType, Zenon DEF SumOfNaturals
<1>3. SumOfNone
    BY SumFunctionEmpty, Zenon DEF SumOfNone
<1>4. SumOfOne
    BY SumFunctionSingle, Zenon DEF SumOfOne
<1>5. SumOfOneMore
    BY SumFunctionAdd, ZenonT(30) DEF SumOfOneMore
<1>6. SumOfTwoParts
    BY SumFunctionUnion DEF SumOfTwoParts
<1> QED
    BY <1>1, <1>2, <1>3, <1>4, <1>5, <1>6, ZenonT(30) DEF SumFacts

(* The inductive invariant holds of the bridge: of its pool, its batches   *)
(* and its contract.                                                       *)
THEOREM BridgeInvariant == Spec => []BridgeInv
BY InitBridgeInv, NextBridgeInv, PTL DEF Spec

(* A withdrawal is paid once on Ethereum or refunded once on the chain,    *)
(* never both, whatever the timeouts, supersessions and cancellations.     *)
THEOREM BridgeNoDoubleSpend == Spec => []NoDoubleSpend
<1>1. BridgeInv => NoDoubleSpend
    BY ZenonT(30) DEF BridgeInv, OneOutcome
<1> QED
    BY <1>1, BridgeInvariant, PTL

(* OutgoingTxBatchExecuted finds the batch of every execution: it does not *)
(* panic in the EndBlocker.                                                *)
THEOREM BridgeExecutionFindsBatch == Spec => []ExecutionFindsBatch
<1>1. BridgeInv => ExecutionFindsBatch
    BY ZenonT(30) DEF BridgeInv, PendingHasBatch, Pending, Executes, ExecutionFindsBatch
<1> QED
    BY <1>1, BridgeInvariant, PTL

(* Every withdrawal of the pool waits in the fee index or is in exactly    *)
(* one batch.                                                              *)
THEOREM BridgePoolPartition == Spec => []PoolPartition
<1>1. BridgeInv => PoolPartition
    BY Zenon DEF BridgeInv
<1> QED
    BY <1>1, BridgeInvariant, PTL

(* The books are kept for ever. *)
LEMMA MoneyInvariant == Spec => [](BridgeInv /\ MoneyInv)
<1>1. Init => BridgeInv /\ MoneyInv
    BY InitBridgeInv, InitMoneyInv, SumFactsHold, Zenon
<1>2. BridgeInv /\ MoneyInv /\ [Next]_vars => (BridgeInv /\ MoneyInv)'
    BY NextBridgeInv, NextMoneyInv, SumFactsHold, Zenon
<1> QED
    BY <1>1, <1>2, PTL DEF Spec

(* Until the bridge moves, the contract's balance of every token is, to    *)
(* the last unit, what the chain owes: vouchers, withdrawals in the pool,  *)
(* deposits on their way or stranded, less payments not seen yet.          *)
THEOREM BridgeBacked == Spec => []Backed
<1>1. MoneyInv => Backed
    BY Zenon DEF MoneyInv, Booked, Books, Even, Backed, PoolTotal, TokenTotal
<1> QED
    BY <1>1, MoneyInvariant, PTL

(* MintAmountERC20 is the supply and the withdrawals of the pool, so that  *)
(* no refund overflows an sdkmath.Int; all else has its type.              *)
THEOREM BridgeMintAmountCoversPool == Spec => []MintAmountCoversPool
<1>1. BridgeInv /\ MoneyInv => MintAmountCoversPool
    <2> SUFFICES ASSUME BridgeInv, MoneyInv PROVE MintAmountCoversPool
        BY Zenon
    <2>1. Typed /\ MoneyTyped
        BY Zenon DEF BridgeInv, MoneyInv
    <2>2. batches \subseteq Batches
        BY Zenon DEF BridgeInv, Typed, Identified
    <2>3. /\ DOMAIN blockIndex \subseteq Nat
          /\ \A h \in DOMAIN blockIndex : blockIndex[h] \in built
        BY Zenon DEF BridgeInv, Identified, MoneyInv, Stored
    <2>4. height \in Nat /\ lastHeights \in [ethereum : Nat, cosmos : Nat]
        BY <2>1 DEF Typed
    <2>5. TypeOK
        BY <2>1, <2>2, <2>3, <2>4, ZenonT(30) DEF Typed, MoneyTyped, TypeOK
    <2>6. \A t \in Tokens \ {Native} :
            mintAmount[t] = supply[t] + Total({x \in pool : x.token = t})
        BY Zenon DEF MoneyInv, Booked, Minted, Covers, PoolTotal, TokenTotal
    <2>7. \A t \in Tokens \ {Native} : mintAmount[t] <= SupplyCap
        BY <2>1, BridgeAssumption DEF MoneyTyped
    <2> QED
        BY <2>5, <2>6, <2>7, ZenonT(30) DEF MintAmountCoversPool
<1> QED
    BY <1>1, MoneyInvariant, PTL
=============================================================================
