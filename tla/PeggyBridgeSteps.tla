-------------------------- MODULE PeggyBridgeSteps --------------------------
(***************************************************************************)
(* The inductive invariant of PeggyBridge about the withdrawals            *)
(* (BridgeInv), and a lemma for each action: it keeps the invariant.       *)
(***************************************************************************)
EXTENDS PeggyBridge, TLAPS

(* Events that the chain has not seen. *)
Pending == (lastObserved + 1)..Len(events)

(* Event n is the execution of batch b. *)
Executes(n, b) == /\ events[n].kind = "withdraw"
                  /\ events[n].token = b.token
                  /\ events[n].value = b.nonce

Typed ==
    /\ ethHeight \in Nat
    /\ events \in Seq(Events)
    /\ ethBatchNonce \in [Tokens -> Nat]
    /\ height \in Nat \ {0}
    /\ phase \in {"txs", "tally"}
    /\ pool \subseteq Txs
    /\ unbatched \subseteq TxIds
    /\ built \subseteq Batches
    /\ nextTx \in 0..MaxTxs
    /\ nextBatch \in Nat
    /\ lastObserved \in 0..Len(events)
    /\ lastHeights \in [ethereum : Nat, cosmos : 0..height]
    /\ lastHeights.cosmos = 0 => lastHeights.ethereum = 0
    /\ paid \in [TxIds -> Nat] /\ refunded \in [TxIds -> Nat]

(* Ids and nonces are given once. *)
Identified ==
    /\ \A x, y \in pool : x.id = y.id => x = y
    /\ \A x \in pool : x.id < nextTx
    /\ \A i \in TxIds : i >= nextTx => paid[i] = 0 /\ refunded[i] = 0
    /\ batches \subseteq built
    /\ \A b \in built : b.nonce < nextBatch
    /\ \A b, c \in built : b.nonce = c.nonce => b = c

(* The contract takes no batch that the chain has forgotten. *)
ForgottenIsDead ==
    \A b \in built \ batches :
        b.nonce <= ethBatchNonce[b.token] \/ b.timeout <= ethHeight

(* An execution not seen yet has its batch in the store. *)
PendingHasBatch ==
    \A n \in Pending : events[n].kind = "withdraw" =>
        \E b \in batches : /\ Executes(n, b)
                           /\ events[n].height < b.timeout
                           /\ b.nonce <= ethBatchNonce[b.token]

(* Heights, and the nonces of a token's batches, grow along the events. *)
PendingOrdered ==
    /\ \A n \in Pending : events[n].height <= ethHeight
    /\ \A m, n \in Pending : m <= n => events[m].height <= events[n].height
    /\ \A m, n \in Pending :
            /\ m < n
            /\ events[m].kind = "withdraw" /\ events[n].kind = "withdraw"
            /\ events[m].token = events[n].token
            => events[m].value < events[n].value

(* Between blocks no batch is past its timeout.  In the EndBlocker the     *)
(* last observed height is one of the present contract's network, and not  *)
(* ahead of the events to come.                                            *)
TimeoutsAhead ==
    /\ phase = "txs" => \A b \in batches : lastHeights.ethereum <= b.timeout
    /\ phase = "tally" => /\ lastHeights.ethereum <= ethHeight
                          /\ \A n \in Pending :
                                lastHeights.ethereum <= events[n].height

(* A withdrawal in the pool was not refunded, and if it was paid then by   *)
(* its batch, in an execution not seen yet.                                *)
OneOutcome ==
    /\ NoDoubleSpend
    /\ \A x \in pool : refunded[x.id] = 0
    /\ \A x \in pool : paid[x.id] # 0 =>
            \E b \in batches, n \in Pending : x \in b.txs /\ Executes(n, b)

BridgeInv ==
    /\ Typed /\ Identified /\ PoolPartition /\ ForgottenIsDead
    /\ PendingHasBatch /\ PendingOrdered /\ TimeoutsAhead /\ OneOutcome

-----------------------------------------------------------------------------
(* A new bridge has no withdrawals. *)
LEMMA InitBridgeInv == Init => BridgeInv
<1> SUFFICES ASSUME Init PROVE BridgeInv
    OBVIOUS
<1>1. Pending = {}
    BY DEF Init, Pending
<1>2. Typed
    BY BridgeAssumption DEF Init, Typed
<1> QED
    BY <1>1, <1>2
      DEF Init, BridgeInv, Identified, PoolPartition, ForgottenIsDead, Ids,
           PendingHasBatch, PendingOrdered, TimeoutsAhead, OneOutcome, NoDoubleSpend

(* Ethereum produces a block. *)
LEMMA EthBlockInv ==
    ASSUME BridgeInv, EthBlock
    PROVE  BridgeInv'
<1> USE DEF BridgeInv, EthBlock, withdrawals, observation
<1>1. ethHeight \in Nat /\ ethHeight' = ethHeight + 1
    BY Zenon DEF Typed
<1>2. Typed'
    BY <1>1 DEF Typed
<1>3. Identified' /\ PoolPartition' /\ PendingHasBatch' /\ OneOutcome'
    BY DEF Identified, PoolPartition, PendingHasBatch, OneOutcome, NoDoubleSpend,
           Pending, Executes
<1>4. ForgottenIsDead'
    <2> SUFFICES ASSUME NEW b \in built \ batches
                 PROVE  b.nonce <= ethBatchNonce[b.token] \/ b.timeout <= ethHeight'
        BY DEF ForgottenIsDead
    <2>1. b.timeout \in Nat
        BY Zenon DEF Typed, Batches
    <2> QED
        BY <1>1, <2>1 DEF ForgottenIsDead
<1>5. \A n \in Pending : n \in 1..Len(events) /\ events[n] \in Events
    BY DEF Typed, Pending
<1>6. /\ Pending' = Pending /\ \A n \in Pending : events[n].height \in Nat
      /\ lastHeights.ethereum \in Nat
    BY <1>5, Zenon DEF Pending, Events, Typed
<1>7. PendingOrdered'
    BY <1>1, <1>6 DEF PendingOrdered
<1>8. TimeoutsAhead'
    BY <1>1, <1>6 DEF TimeoutsAhead
<1> QED
    BY <1>2, <1>3, <1>4, <1>7, <1>8, Zenon

(* What an event adds to those the chain has not seen. *)
LEMMA Emitted ==
    ASSUME Typed, NEW e \in Events, Emit(e), UNCHANGED lastObserved
    PROVE  /\ Len(events) \in Nat /\ Len(events') = Len(events) + 1
           /\ events' \in Seq(Events)
           /\ Pending' = Pending \cup {Len(events) + 1}
           /\ \A n \in Pending : n \in 1..Len(events) /\ events'[n] = events[n]
                                    /\ events[n] \in Events
           /\ events'[Len(events) + 1] = e
<1>1. /\ events \in Seq(Events) /\ lastObserved \in 0..Len(events)
      /\ events' = Append(events, e)
    BY DEF Typed, Emit
<1>2. /\ Len(events) \in Nat /\ Len(events') = Len(events) + 1
      /\ events' \in Seq(Events)
      /\ \A n \in 1..Len(events) : events'[n] = events[n] /\ events[n] \in Events
      /\ events'[Len(events) + 1] = e
    BY <1>1
<1>3. Pending' = Pending \cup {Len(events) + 1}
    BY <1>1, <1>2 DEF Pending
<1>4. \A n \in Pending : n \in 1..Len(events)
    BY <1>1, <1>2 DEF Pending
<1> QED
    BY <1>2, <1>3, <1>4, Zenon

(* A deposit, or a new validator set, on Ethereum. *)
LEMMA PlainEventInv ==
    ASSUME BridgeInv, NEW e \in Events, e.kind # "withdraw",
           e.height = ethHeight, Emit(e),
           UNCHANGED <<ethHeight, ethBatchNonce, built, paid, height, phase,
                       withdrawals, observation, refunded>>
    PROVE  BridgeInv'
<1> USE DEF BridgeInv, withdrawals, observation
<1> DEFINE l == Len(events) + 1
<1>1. /\ Len(events) \in Nat /\ Len(events') = Len(events) + 1
      /\ events' \in Seq(Events)
      /\ Pending' = Pending \cup {l}
      /\ \A n \in Pending : n \in 1..Len(events) /\ events'[n] = events[n]
                               /\ events[n] \in Events
      /\ events'[l] = e
    BY Emitted, Zenon
<1> HIDE DEF l
<1>2. Typed'
    BY <1>1, SMTT(30) DEF Typed
<1>3. Identified' /\ PoolPartition' /\ ForgottenIsDead'
    BY DEF Identified, PoolPartition, ForgottenIsDead
<1>4. PendingHasBatch'
    BY <1>1 DEF PendingHasBatch, Executes
<1>5. PendingOrdered'
    <2>1. \A n \in Pending : n < l
        BY <1>1 DEF l
    <2>2. l \in Nat /\ ethHeight \in Nat /\ \A n \in Pending : n \in Nat
        BY <1>1 DEF l, Typed
    <2> QED
        <3>1. \A n \in Pending' : events'[n].height <= ethHeight
            BY <1>1, <2>2 DEF PendingOrdered
        <3>2. ASSUME NEW m \in Pending', NEW n \in Pending', m <= n
              PROVE  events'[m].height <= events'[n].height
            BY <1>1, <2>1, <2>2, <3>1, <3>2 DEF PendingOrdered
        <3>3. ASSUME NEW m \in Pending', NEW n \in Pending', m < n,
                     events'[m].kind = "withdraw", events'[n].kind = "withdraw",
                     events'[m].token = events'[n].token
              PROVE  events'[m].value < events'[n].value
            BY <1>1, <3>3, Zenon DEF PendingOrdered
        <3> QED
            BY <3>1, <3>2, <3>3, Zenon DEF PendingOrdered
<1>6. TimeoutsAhead'
    BY <1>1, Zenon DEF TimeoutsAhead
<1>7. OneOutcome'
    <2>1. \A b \in batches, n \in Pending : Executes(n, b) => n \in Pending' /\ Executes(n, b)'
        BY <1>1 DEF Executes
    <2> QED
        BY <2>1, Zenon DEF OneOutcome, NoDoubleSpend
<1> QED
    BY <1>2, <1>3, <1>4, <1>5, <1>6, <1>7, Zenon

(* Ethereum executes a batch: it is in the store, and nobody in it was     *)
(* paid or refunded.                                                       *)
LEMMA SubmitBatchInv ==
    ASSUME BridgeInv, NEW b \in built, submitBatch(b)
    PROVE  BridgeInv'
<1> USE DEF BridgeInv, withdrawals, observation
<1> DEFINE l == Len(events) + 1
           e == [kind |-> "withdraw", token |-> b.token, value |-> b.nonce,
                 height |-> ethHeight]
<1>1. /\ b.token \in Tokens /\ b.nonce \in Nat /\ b.timeout \in Nat
      /\ ethHeight \in Nat /\ ethBatchNonce \in [Tokens -> Nat]
    BY Zenon DEF Typed, Batches
<1>2. /\ ethBatchNonce[b.token] < b.nonce /\ ethHeight < b.timeout
      /\ Emit(e)
      /\ ethBatchNonce' = [ethBatchNonce EXCEPT ![b.token] = b.nonce]
      /\ paid' = [i \in TxIds |-> paid[i] + IF i \in Ids(b.txs) THEN 1 ELSE 0]
      /\ UNCHANGED <<ethHeight, built, height, phase, pool, unbatched, batches,
                     nextTx, nextBatch, lastObserved, lastHeights, refunded>>
    BY DEF submitBatch
<1>3. b \in batches
    BY <1>1, <1>2 DEF ForgottenIsDead
<1>4. /\ e \in Events /\ e.kind = "withdraw" /\ e.token = b.token
      /\ e.value = b.nonce /\ e.height = ethHeight
    BY <1>1, Zenon DEF Events
<1>5. /\ Len(events) \in Nat /\ Len(events') = Len(events) + 1
      /\ events' \in Seq(Events)
      /\ Pending' = Pending \cup {l}
      /\ \A n \in Pending : n \in 1..Len(events) /\ events'[n] = events[n]
                               /\ events[n] \in Events
      /\ events'[l] = e
    BY <1>2, <1>4, Emitted, Zenon
<1> HIDE DEF l, e
<1>6. \A t \in Tokens : /\ ethBatchNonce'[t] \in Nat
                        /\ ethBatchNonce[t] <= ethBatchNonce'[t]
    BY <1>1, <1>2
<1>7. Typed'
    <2>1. paid' \in [TxIds -> Nat]
        BY <1>2 DEF Typed
    <2>2. ethBatchNonce' \in [Tokens -> Nat]
        BY <1>1, <1>2
    <2> QED
        BY <1>2, <1>5, <2>1, <2>2, SMTT(20) DEF Typed
<1>8. \A x \in b.txs : x \in pool /\ paid[x.id] = 0 /\ refunded[x.id] = 0
    <2> SUFFICES ASSUME NEW x \in b.txs
                 PROVE  x \in pool /\ paid[x.id] = 0 /\ refunded[x.id] = 0
        OBVIOUS
    <2>1. x \in pool /\ refunded[x.id] = 0
        BY <1>3 DEF PoolPartition, OneOutcome
    <2>2. ASSUME paid[x.id] # 0 PROVE FALSE
        <3>1. PICK c \in batches, n \in Pending : x \in c.txs /\ Executes(n, c)
            BY <2>1, <2>2, Zenon DEF OneOutcome
        <3>2. c = b
            BY <1>3, <3>1, Zenon DEF PoolPartition
        <3>3. PICK d \in batches : Executes(n, d) /\ d.nonce <= ethBatchNonce[d.token]
            BY <3>1, Zenon DEF PendingHasBatch, Executes
        <3>4. d = b
            BY <3>1, <3>2, <3>3, <1>3, Zenon DEF Executes, Identified
        <3> QED
            BY <1>1, <1>2, <3>3, <3>4
    <2> QED
        BY <2>1, <2>2
<1>9. Identified'
    <2>1. ASSUME NEW i \in TxIds, i >= nextTx PROVE paid'[i] = 0 /\ refunded'[i] = 0
        <3>1. i \notin Ids(b.txs)
            <4>1. \A x \in b.txs : x.id \in TxIds /\ x.id < nextTx
                BY <1>8, Zenon DEF Identified, Typed, Txs
            <4> QED
                BY <2>1, <4>1 DEF Ids, Typed, TxIds
        <3>2. paid[i] = 0 /\ refunded[i] = 0
            BY <2>1, Zenon DEF Identified
        <3> QED
            BY <1>2, <3>1, <3>2
    <2> QED
        BY <1>2, <2>1, Zenon DEF Identified
<1>10. PoolPartition'
    BY <1>2, Zenon DEF PoolPartition
<1>11. ForgottenIsDead'
    <2> SUFFICES ASSUME NEW c \in built \ batches
                 PROVE  c.nonce <= ethBatchNonce'[c.token] \/ c.timeout <= ethHeight
        BY <1>2 DEF ForgottenIsDead
    <2>1. c.token \in Tokens /\ c.nonce \in Nat
        BY Zenon DEF Typed, Batches
    <2>2. c.nonce <= ethBatchNonce[c.token] \/ c.timeout <= ethHeight
        BY Zenon DEF ForgottenIsDead
    <2> QED
        BY <1>1, <1>6, <2>1, <2>2
<1>12. PendingHasBatch'
    <2> SUFFICES ASSUME NEW n \in Pending', events'[n].kind = "withdraw"
                 PROVE  \E c \in batches : /\ Executes(n, c)'
                                           /\ events'[n].height < c.timeout
                                           /\ c.nonce <= ethBatchNonce'[c.token]
        BY <1>2, Zenon DEF PendingHasBatch
    <2>1. CASE n = l
        <3>1. ethBatchNonce'[b.token] = b.nonce
            BY <1>1, <1>2, Zenon
        <3>2. Executes(n, b)' /\ events'[n].height < b.timeout
            BY <1>2, <1>4, <1>5, <2>1, Zenon DEF Executes
        <3> QED
            BY <1>1, <1>3, <3>1, <3>2
    <2>2. CASE n \in Pending
        <3>1. PICK c \in batches : /\ Executes(n, c)
                                   /\ events[n].height < c.timeout
                                   /\ c.nonce <= ethBatchNonce[c.token]
            BY <1>5, <2>2, Zenon DEF PendingHasBatch
        <3>2. c.token \in Tokens /\ c.nonce \in Nat
            BY ZenonT(30) DEF Typed, Identified, Batches
        <3>3. c.nonce <= ethBatchNonce'[c.token]
            BY <1>1, <1>6, <3>1, <3>2
        <3>4. Executes(n, c)' /\ events'[n].height < c.timeout
            BY <1>5, <2>2, <3>1, Zenon DEF Executes
        <3> QED
            BY <3>3, <3>4, Zenon
    <2> QED
        BY <1>5, <2>1, <2>2, Zenon
<1>13. PendingOrdered'
    <2>1. \A n \in Pending : n < l /\ n \in Nat
        BY <1>5 DEF l
    <2>2. l \in Nat
        BY <1>5 DEF l
    <2>3. \A n \in Pending' : events'[n].height <= ethHeight
        BY <1>1, <1>4, <1>5 DEF PendingOrdered
    <2>4. ASSUME NEW m \in Pending', NEW n \in Pending', m <= n
          PROVE  events'[m].height <= events'[n].height
        BY <1>4, <1>5, <2>1, <2>2, <2>3, <2>4 DEF PendingOrdered
    <2>5. ASSUME NEW m \in Pending', NEW n \in Pending', m < n,
                 events'[m].kind = "withdraw", events'[n].kind = "withdraw",
                 events'[m].token = events'[n].token
          PROVE  events'[m].value < events'[n].value
        <3>1. m \in Pending
            BY <1>5, <2>1, <2>2, <2>5
        <3>2. CASE n \in Pending
            BY <1>5, <2>5, <3>1, <3>2, Zenon DEF PendingOrdered
        <3>3. CASE n = l
            <4>1. PICK c \in batches : Executes(m, c) /\ c.nonce <= ethBatchNonce[c.token]
                BY <1>5, <2>5, <3>1, Zenon DEF PendingHasBatch
            <4>2. /\ c.token = b.token /\ events'[m].value = c.nonce
                  /\ events'[n].value = b.nonce
                BY <1>4, <1>5, <2>5, <3>1, <3>3, <4>1, Zenon DEF Executes
            <4>3. c.nonce \in Nat /\ ethBatchNonce[b.token] \in Nat
                BY <1>1 DEF Typed, Identified, Batches
            <4> QED
                BY <1>1, <1>2, <4>1, <4>2, <4>3
        <3> QED
            BY <1>5, <3>2, <3>3, Zenon
    <2> QED
        BY <1>2, <2>3, <2>4, <2>5, Zenon DEF PendingOrdered
<1>14. TimeoutsAhead'
    <2>1. lastHeights.ethereum \in Nat
        BY Zenon DEF Typed
    <2> QED
        BY <1>1, <1>2, <1>4, <1>5, <2>1, Zenon DEF TimeoutsAhead
<1>15. OneOutcome'
    <2>1. NoDoubleSpend'
        <3> SUFFICES ASSUME NEW i \in TxIds
                     PROVE  paid'[i] + refunded[i] <= 1
            BY <1>2, Zenon DEF NoDoubleSpend
        <3>1. paid[i] \in Nat /\ refunded[i] \in Nat /\ paid[i] + refunded[i] <= 1
            BY Zenon DEF Typed, OneOutcome, NoDoubleSpend
        <3>2. CASE i \in Ids(b.txs)
            <4>1. paid[i] = 0 /\ refunded[i] = 0
                BY <1>8, <3>2 DEF Ids
            <4>2. paid'[i] = paid[i] + 1
                BY <1>2, <3>2, Zenon
            <4> QED
                BY ONLY <4>1, <4>2
        <3>3. CASE i \notin Ids(b.txs)
            BY <1>2, <3>1, <3>3
        <3> QED
            BY <3>2, <3>3, Zenon
    <2>2. ASSUME NEW x \in pool, paid'[x.id] # 0
          PROVE  \E c \in batches, n \in Pending' : x \in c.txs /\ Executes(n, c)'
        <3>1. CASE x.id \in Ids(b.txs)
            <4>1. x \in b.txs
                BY <1>8, <3>1, Zenon DEF Ids, Identified
            <4>2. PICK n \in Pending' : n = l
                BY <1>5, Zenon
            <4>3. Executes(n, b)'
                BY <1>4, <1>5, <4>2, Zenon DEF Executes
            <4> QED
                BY <1>3, <4>1, <4>3, Zenon
        <3>2. CASE x.id \notin Ids(b.txs)
            <4>1. x.id \in TxIds /\ paid[x.id] \in Nat
                <5>1. x \in Txs /\ paid \in [TxIds -> Nat]
                    BY Zenon DEF Typed
                <5> QED
                    BY <5>1, Zenon DEF Txs
            <4>2. paid[x.id] # 0
                BY <1>2, <2>2, <3>2, <4>1
            <4>3. PICK c \in batches, n \in Pending : x \in c.txs /\ Executes(n, c)
                BY <4>2, Zenon DEF OneOutcome
            <4>4. n \in Pending' /\ Executes(n, c)'
                BY <1>5, <4>3, Zenon DEF Executes
            <4> QED
                BY <4>3, <4>4, Zenon
        <3> QED
            BY <3>1, <3>2, Zenon
    <2> QED
        BY <1>2, <2>1, <2>2, Zenon DEF OneOutcome
<1> QED
    BY <1>7, <1>9, <1>10, <1>11, <1>12, <1>13, <1>14, <1>15, Zenon

-----------------------------------------------------------------------------
(* Pending is not touched by what happens on the chain between blocks. *)
LEMMA EventsKept ==
    ASSUME UNCHANGED <<events, lastObserved>>
    PROVE  Pending' = Pending
BY DEF Pending

(* A new withdrawal. *)
LEMMA SendToEthInv ==
    ASSUME BridgeInv, NEW t \in Tokens, NEW a \in Amounts, NEW f \in Fees,
           SendToEth(t, a, f)
    PROVE  BridgeInv'
<1> USE DEF BridgeInv
<1> DEFINE x == [id |-> nextTx, token |-> t, amount |-> a, fee |-> f]
<1>1. /\ nextTx < MaxTxs /\ nextTx' = nextTx + 1
      /\ pool' = pool \cup {x} /\ unbatched' = unbatched \cup {nextTx}
      /\ UNCHANGED <<ethHeight, events, ethBatchNonce, built, paid, height,
                     phase, batches, nextBatch, lastObserved, lastHeights, refunded>>
    BY Zenon DEF SendToEth, eth, observation
<1>2. nextTx \in TxIds /\ nextTx \in Nat /\ nextTx' \in 0..MaxTxs
    <2>1. nextTx \in 0..MaxTxs /\ MaxTxs \in Nat
        BY BridgeAssumption, Zenon DEF Typed
    <2> QED
        BY ONLY <1>1, <2>1 DEF TxIds
<1>3. x \in Txs /\ x.id = nextTx
    BY <1>2, Zenon DEF Txs
<1> HIDE DEF x
<1>4. \A y \in pool : y.id \in TxIds /\ y.id \in Nat /\ y.id < nextTx
    <2>1. \A y \in pool : y.id \in TxIds
        BY DEF Typed, Txs
    <2> QED
        BY <2>1 DEF Identified, TxIds
<1>5. Typed'
    BY <1>1, <1>2, <1>3, Zenon DEF Typed
<1>6. Identified'
    <2>1. \A y, z \in pool' : y.id = z.id => y = z
        BY <1>1, <1>2, <1>3, <1>4 DEF Identified
    <2>2. \A y \in pool' : y.id < nextTx'
        BY <1>1, <1>2, <1>3, <1>4
    <2>3. \A i \in TxIds : i >= nextTx' => paid[i] = 0 /\ refunded[i] = 0
        BY <1>1, <1>2 DEF Identified, TxIds
    <2> QED
        BY <1>1, <2>1, <2>2, <2>3, Zenon DEF Identified
<1>7. PoolPartition'
    <2>1. unbatched' \subseteq Ids(pool')
        BY <1>1, <1>3, Zenon DEF PoolPartition, Ids
    <2>2. \A b \in batches : b.txs \subseteq pool'
        BY <1>1, Zenon DEF PoolPartition
    <2>3. \A b \in batches : nextTx \notin Ids(b.txs)
        BY <1>2, <1>4, SMTT(30) DEF PoolPartition, Ids
    <2>4. \A b \in batches : Ids(b.txs) \cap unbatched' = {}
        BY <1>1, <2>3, Zenon DEF PoolPartition
    <2>5. \A y \in pool' : y.id \in unbatched' \/ \E b \in batches : y \in b.txs
        BY <1>1, <1>3 DEF PoolPartition
    <2> QED
        BY <1>1, <2>1, <2>2, <2>4, <2>5, ZenonT(30) DEF PoolPartition
<1>8. ForgottenIsDead' /\ PendingHasBatch' /\ PendingOrdered' /\ TimeoutsAhead'
    BY <1>1, EventsKept, Zenon
      DEF ForgottenIsDead, PendingHasBatch, PendingOrdered, TimeoutsAhead, Executes
<1>9. OneOutcome'
    <2>1. paid[nextTx] = 0 /\ refunded[nextTx] = 0
        BY <1>2 DEF Identified
    <2>2. \A y \in pool' : refunded[y.id] = 0
        BY <1>1, <1>3, <2>1, ZenonT(30) DEF OneOutcome
    <2>3. \A y \in pool' : paid[y.id] # 0 =>
                \E b \in batches, n \in Pending : y \in b.txs /\ Executes(n, b)
        BY <1>1, <1>3, <2>1, Zenon DEF OneOutcome
    <2> QED
        BY <1>1, <2>2, <2>3, EventsKept, Zenon DEF OneOutcome, NoDoubleSpend, Executes
<1> QED
    BY <1>5, <1>6, <1>7, <1>8, <1>9, Zenon

(* A refund: only of a withdrawal in no batch, hence not paid. *)
LEMMA CancelSendToEthInv ==
    ASSUME BridgeInv, NEW x \in pool, CancelSendToEth(x)
    PROVE  BridgeInv'
<1> USE DEF BridgeInv
<1>1. /\ x.id \in unbatched
      /\ unbatched' = unbatched \ {x.id} /\ pool' = pool \ {x}
      /\ refunded' = [refunded EXCEPT ![x.id] = @ + 1]
      /\ UNCHANGED <<ethHeight, events, ethBatchNonce, built, paid, height, phase,
                     batches, nextTx, nextBatch, lastObserved, lastHeights>>
    BY Zenon DEF CancelSendToEth, eth, observation
<1>2. x.id \in TxIds /\ x.id < nextTx
    BY Zenon DEF Typed, Txs, Identified
<1>3. paid[x.id] = 0 /\ refunded[x.id] = 0
    <2>1. \A b \in batches : x \notin b.txs
        BY <1>1, Zenon DEF PoolPartition, Ids
    <2> QED
        BY <2>1 DEF OneOutcome
<1>4. /\ refunded' \in [TxIds -> Nat] /\ refunded'[x.id] = 1
      /\ \A i \in TxIds : i # x.id => refunded'[i] = refunded[i]
    <2>1. refunded \in [TxIds -> Nat]
        BY DEF Typed
    <2> QED
        BY <1>1, <1>2, <1>3, <2>1
<1>5. Typed'
    BY <1>1, <1>4, Zenon DEF Typed
<1>6. Identified'
    <2>1. \A i \in TxIds : i >= nextTx => i # x.id
        BY <1>2 DEF TxIds, Typed
    <2> QED
        BY <1>1, <1>4, <2>1, Zenon DEF Identified
<1>7. PoolPartition'
    <2>1. \A y \in pool' : y.id # x.id
        BY <1>1, Zenon DEF Identified
    <2>2. unbatched' \subseteq Ids(pool')
        BY <1>1, Zenon DEF PoolPartition, Ids
    <2>3. \A b \in batches : b.txs \subseteq pool'
        BY <1>1, SMTT(30) DEF PoolPartition, Ids
    <2> QED
        BY <1>1, <2>1, <2>2, <2>3, Zenon DEF PoolPartition
<1>8. ForgottenIsDead' /\ PendingHasBatch' /\ PendingOrdered' /\ TimeoutsAhead'
    BY <1>1, EventsKept, Zenon
      DEF ForgottenIsDead, PendingHasBatch, PendingOrdered, TimeoutsAhead, Executes
<1>9. OneOutcome'
    <2>1. \A y \in pool' : y.id \in TxIds /\ y.id # x.id
        BY <1>1 DEF Identified, Typed, Txs
    <2>2. \A y \in pool' : refunded'[y.id] = 0
        BY <1>1, <1>4, <2>1, Zenon DEF OneOutcome
    <2>3. \A i \in TxIds : paid[i] + refunded'[i] <= 1
        BY <1>3, <1>4 DEF OneOutcome, NoDoubleSpend
    <2> QED
        BY <1>1, <2>2, <2>3, EventsKept, Zenon DEF OneOutcome, NoDoubleSpend, Executes
<1> QED
    BY <1>5, <1>6, <1>7, <1>8, <1>9, Zenon

(* A new batch times out no earlier than the last observed height. *)
LEMMA TimeoutHeight ==
    ASSUME Typed
    PROVE  /\ getBatchTimeoutHeight \in Nat
           /\ lastHeights.ethereum <= getBatchTimeoutHeight
<1>1. /\ lastHeights.ethereum \in Nat /\ lastHeights.cosmos \in 0..height
      /\ height \in Nat
      /\ lastHeights.cosmos = 0 => lastHeights.ethereum = 0
    BY DEF Typed
<1> DEFINE millis == (height - lastHeights.cosmos) * AverageBlockTime
           p == millis \div AverageEthereumBlockTime
           q == TargetBatchTimeout \div AverageEthereumBlockTime
<1>2. ASSUME NEW m \in Nat, NEW d \in Nat \ {0} PROVE m \div d \in Nat
    OBVIOUS
<1>3. millis \in Nat
    BY <1>1, BridgeAssumption
<1>4. p \in Nat /\ q \in Nat
    BY <1>2, <1>3, BridgeAssumption, Zenon
<1>5. getBatchTimeoutHeight =
        IF lastHeights.cosmos = 0 \/ lastHeights.ethereum = 0 THEN 0
        ELSE p + lastHeights.ethereum + q
    BY Zenon DEF getBatchTimeoutHeight
<1> HIDE DEF p, q
<1> QED
    BY <1>1, <1>4, <1>5

(* A new batch takes withdrawals out of the fee index. *)
LEMMA RequestBatchInv ==
    ASSUME BridgeInv, NEW t \in Tokens, RequestBatch(t)
    PROVE  BridgeInv'
<1> USE DEF BridgeInv
<1> DEFINE T == pickUnbatchedTX(t)
           b == [token |-> t, nonce |-> nextBatch,
                 timeout |-> getBatchTimeoutHeight, block |-> height, txs |-> T]
<1>1. /\ phase = "txs"
      /\ unbatched' = unbatched \ Ids(T)
      /\ batches' = batches \cup {b}
      /\ nextBatch' = nextBatch + 1
      /\ built' = built \cup {b}
      /\ UNCHANGED <<ethHeight, events, ethBatchNonce, paid, height, phase, pool,
                     nextTx, lastObserved, lastHeights, refunded>>
    BY Zenon DEF RequestBatch, observation
<1>2. T \subseteq pool /\ \A x \in T : x.id \in unbatched
    BY ZenonT(30) DEF pickUnbatchedTX
<1>3. /\ b \in Batches /\ b.token = t /\ b.nonce = nextBatch /\ b.txs = T
      /\ b.timeout \in Nat /\ lastHeights.ethereum <= b.timeout
    BY <1>2, TimeoutHeight, Zenon DEF Batches, Typed
<1> HIDE DEF T, b
<1>4. nextBatch \in Nat /\ \A c \in built : c.nonce \in Nat /\ c.nonce < nextBatch
    BY Zenon DEF Typed, Batches, Identified
<1>5. Typed'
    BY <1>1, <1>3, <1>4 DEF Typed
<1>6. Identified'
    <2>1. \A c \in built' : c.nonce < nextBatch'
        BY <1>1, <1>3, <1>4
    <2>2. \A c, d \in built' : c.nonce = d.nonce => c = d
        BY <1>1, <1>3, <1>4, SMTT(30) DEF Identified
    <2> QED
        BY <1>1, <2>1, <2>2 DEF Identified
<1>7. PoolPartition'
    <2>1. \A c \in batches : c.txs \cap T = {} /\ Ids(c.txs) \cap unbatched' = {}
        <3> SUFFICES ASSUME NEW c \in batches
                     PROVE  c.txs \cap T = {} /\ Ids(c.txs) \cap unbatched' = {}
            BY Zenon
        <3>1. Ids(c.txs) \cap unbatched = {}
            BY Zenon DEF PoolPartition
        <3>2. c.txs \cap T = {}
            BY ONLY <1>2, <3>1, Zenon DEF Ids
        <3> QED
            BY ONLY <1>1, <3>1, <3>2, Zenon
    <2>2. Ids(b.txs) \cap unbatched' = {}
        BY <1>1, <1>3, Zenon
    <2>3. \A x \in pool : x.id \in Ids(T) => x \in T
        BY <1>2, SMTT(30) DEF Ids, Identified
    <2>4. \A x \in pool : x.id \in unbatched' \/ \E c \in batches' : x \in c.txs
        BY <1>1, <1>3, <2>3, Zenon DEF PoolPartition
    <2>5. unbatched' \subseteq Ids(pool)
        BY <1>1, Zenon DEF PoolPartition
    <2>6. \A c \in batches' : c.txs \subseteq pool /\ Ids(c.txs) \cap unbatched' = {}
        BY <1>1, <1>2, <1>3, <2>1, <2>2, Zenon DEF PoolPartition
    <2>7. \A c, d \in batches' : c # d => c.txs \cap d.txs = {}
        BY <1>1, <1>3, <2>1 DEF PoolPartition
    <2> QED
        BY <1>1, <2>4, <2>5, <2>6, <2>7, Zenon DEF PoolPartition
<1>8. ForgottenIsDead' /\ PendingHasBatch' /\ PendingOrdered'
    <2>1. ForgottenIsDead'
        BY <1>1, Zenon DEF ForgottenIsDead
    <2>2. PendingHasBatch'
        BY <1>1, EventsKept, Zenon DEF PendingHasBatch, Executes
    <2>3. PendingOrdered'
        BY <1>1, EventsKept, Zenon DEF PendingOrdered
    <2> QED
        BY <2>1, <2>2, <2>3, Zenon
<1>9. TimeoutsAhead'
    BY <1>1, <1>3, Zenon DEF TimeoutsAhead
<1>10. OneOutcome'
    BY <1>1, EventsKept DEF OneOutcome, NoDoubleSpend, Executes
<1> QED
    BY <1>5, <1>6, <1>7, <1>8, <1>9, <1>10, Zenon

(* What observing an event means, whatever its kind. *)
LEMMA Observed ==
    ASSUME BridgeInv, NEW e \in NextEvents, Observe(e)
    PROVE  /\ lastObserved + 1 \in Pending
           /\ e = events[lastObserved + 1]
           /\ Pending' = Pending \ {lastObserved + 1}
           /\ \A n \in Pending' : n \in Pending /\ lastObserved + 1 < n
           /\ UNCHANGED <<ethHeight, events, ethBatchNonce, built, paid, height,
                          nextTx, nextBatch, refunded>>
           /\ lastObserved' \in 0..Len(events)
           /\ lastHeights' \in [ethereum : Nat, cosmos : 0..height]
           /\ lastHeights'.cosmos # 0
           /\ phase' = "tally"
           /\ PendingOrdered' /\ TimeoutsAhead'
<1> USE DEF BridgeInv
<1>1. /\ lastObserved \in Nat /\ lastObserved <= Len(events) /\ Len(events) \in Nat
      /\ events \in Seq(Events) /\ height \in Nat \ {0}
    BY DEF Typed
<1>2. /\ e = events[lastObserved + 1] /\ lastObserved + 1 \in 1..Len(events)
    BY Zenon DEF NextEvents
<1>3. /\ phase' = "tally" /\ lastObserved' = lastObserved + 1
      /\ lastHeights' = [ethereum |-> e.height, cosmos |-> height]
      /\ UNCHANGED <<ethHeight, events, ethBatchNonce, built, paid, height,
                     nextTx, nextBatch, refunded>>
    BY Zenon DEF Observe, eth
<1>4. e \in Events
    BY <1>1, <1>2
<1>5. /\ lastObserved + 1 \in Pending
      /\ Pending' = Pending \ {lastObserved + 1}
      /\ \A n \in Pending' : n \in Pending /\ lastObserved + 1 < n
    BY <1>1, <1>2, <1>3 DEF Pending
<1>6. e.height \in Nat
    BY <1>4, ZenonT(30) DEF Events
<1>7. /\ lastHeights' \in [ethereum : Nat, cosmos : 0..height]
      /\ lastHeights'.cosmos # 0
      /\ lastHeights'.ethereum = e.height
    <2>1. height \in 0..height /\ height # 0
        BY ONLY <1>1, SMTT(30)
    <2> QED
        BY ONLY <1>3, <1>6, <2>1, Zenon
<1>8. PendingOrdered'
    BY <1>3, <1>5, Zenon DEF PendingOrdered
<1>9. \A n \in Pending : n \in Nat
    BY <1>1, SMTT(30) DEF Pending
<1>10. TimeoutsAhead'
    <2>1. e.height <= ethHeight
        BY <1>2, <1>5, Zenon DEF PendingOrdered
    <2>2. ASSUME NEW n \in Pending' PROVE e.height <= events[n].height
        <3>1. \A i, j \in Pending : i <= j => events[i].height <= events[j].height
            BY Zenon DEF PendingOrdered
        <3>2. n \in Pending /\ lastObserved + 1 <= n
            BY <1>1, <1>5, <1>9
        <3> QED
            BY ONLY <1>2, <1>5, <3>1, <3>2, Zenon
    <2> QED
        BY <1>3, <1>7, <2>1, <2>2, Zenon DEF TimeoutsAhead
<1>11. lastObserved' \in 0..Len(events)
    BY <1>1, <1>2, <1>3, SMTT(30)
<1> QED
    BY <1>2, <1>3, <1>5, <1>7, <1>8, <1>10, <1>11, Zenon

-----------------------------------------------------------------------------
(* The EndBlocker *)

(* Batches D leave the store, their withdrawals with them; batches B are   *)
(* cancelled, their withdrawals return to the fee index.                   *)
LEMMA BatchesLeave ==
    ASSUME BridgeInv, NEW B \in SUBSET batches, NEW D \in SUBSET batches,
           B \cap D = {},
           pool' = pool \ UNION {d.txs : d \in D},
           unbatched' = unbatched \cup IdsOf(B),
           batches' = batches \ (B \cup D)
    PROVE  PoolPartition' /\ unbatched' \subseteq TxIds
<1> USE DEF BridgeInv
<1> DEFINE R == UNION {d.txs : d \in D}
<1>1. \A b \in batches : b.txs \subseteq pool
    BY Zenon DEF PoolPartition
<1>2. \A x \in pool : x \notin R => x \in pool'
    BY Zenon
<1>3. \A b \in batches \ D : b.txs \subseteq pool'
    BY <1>1 DEF PoolPartition
<1>4. \A i : i \in IdsOf(B) <=> \E b \in B : \E x \in b.txs : i = x.id
    BY DEF IdsOf, Ids
<1>5. unbatched' \subseteq Ids(pool')
    <2>1. ASSUME NEW i \in unbatched PROVE i \in Ids(pool')
        <3>1. PICK x \in pool : x.id = i
            BY ZenonT(30) DEF PoolPartition, Ids
        <3>2. x \notin R
            BY <3>1 DEF PoolPartition, Ids
        <3> QED
            BY <1>2, <3>1, <3>2, Zenon DEF Ids
    <2>2. ASSUME NEW i \in IdsOf(B) PROVE i \in Ids(pool')
        <3>1. PICK b \in B : \E x \in b.txs : i = x.id
            BY <1>4, Zenon
        <3> QED
            BY <1>3, <3>1 DEF Ids
    <2> QED
        BY <2>1, <2>2
<1>6. \A b \in batches' : b.txs \subseteq pool' /\ Ids(b.txs) \cap unbatched' = {}
    <2> SUFFICES ASSUME NEW b \in batches', NEW x \in b.txs, x.id \in unbatched'
                 PROVE  FALSE
        BY <1>3, SMTT(30) DEF Ids
    <2>1. x.id \notin unbatched
        BY DEF PoolPartition, Ids
    <2>2. PICK c \in B : \E y \in c.txs : x.id = y.id
        BY <1>4, <2>1
    <2>3. PICK y \in c.txs : x.id = y.id
        BY <2>2, Zenon
    <2>4. x = y
        BY <1>1, <2>3, Zenon DEF Identified
    <2> QED
        BY <2>3, <2>4, Zenon DEF PoolPartition
<1>7. ASSUME NEW x \in pool' PROVE x.id \in unbatched' \/ \E b \in batches' : x \in b.txs
    <2>1. x \in pool /\ x \notin R
        OBVIOUS
    <2>2. CASE x.id \in unbatched
        BY <2>2, Zenon
    <2>3. CASE \E b \in batches : x \in b.txs
        <3>1. PICK b \in batches : x \in b.txs
            BY <2>3, Zenon
        <3>2. CASE b \in B
            BY <1>4, <3>1, <3>2, Zenon
        <3>3. CASE b \notin B
            BY <2>1, <3>1, <3>3, Zenon
        <3> QED
            BY <3>2, <3>3, Zenon
    <2> QED
        BY <2>1, <2>2, <2>3, Zenon DEF PoolPartition
<1>8. unbatched' \subseteq TxIds
    <2>1. \A x \in pool : x.id \in TxIds
        BY Zenon DEF Typed, Txs
    <2>2. \A i \in IdsOf(B) : i \in TxIds
        BY <1>1, <1>4, <2>1, ZenonT(30)
    <2> QED
        BY <2>2, Zenon DEF Typed
<1> QED
    BY <1>5, <1>6, <1>7, <1>8, Zenon DEF PoolPartition

(* A deposit, or a change of the validator set, is observed. *)
LEMMA PlainObserveInv ==
    ASSUME BridgeInv, NEW e \in NextEvents, Observe(e), e.kind # "withdraw",
           UNCHANGED <<pool, unbatched, batches>>
    PROVE  BridgeInv'
<1> USE DEF BridgeInv
<1> DEFINE k == lastObserved + 1
<1>1. /\ events[k].kind # "withdraw" /\ Pending' = Pending \ {k}
      /\ UNCHANGED <<ethHeight, events, ethBatchNonce, built, paid, height,
                     nextTx, nextBatch, refunded>>
      /\ PendingOrdered' /\ TimeoutsAhead'
    BY Observed, Zenon
<1> HIDE DEF k
<1>2. Typed'
    <2>1. /\ lastObserved' \in 0..Len(events) /\ phase' = "tally"
          /\ lastHeights' \in [ethereum : Nat, cosmos : 0..height]
          /\ lastHeights'.cosmos # 0
        BY Observed, Zenon
    <2> QED
        BY <1>1, <2>1, Zenon DEF Typed
<1>3. Identified' /\ PoolPartition' /\ ForgottenIsDead'
    BY <1>1, Zenon DEF Identified, PoolPartition, ForgottenIsDead
<1>4. PendingHasBatch'
    BY <1>1, Zenon DEF PendingHasBatch, Executes
<1>5. OneOutcome'
    <2>1. ASSUME NEW x \in pool, paid[x.id] # 0
          PROVE  \E b \in batches, n \in Pending' : x \in b.txs /\ Executes(n, b)
        <3>1. PICK b \in batches, n \in Pending : x \in b.txs /\ Executes(n, b)
            BY <2>1, Zenon DEF OneOutcome
        <3>2. n # k
            BY <1>1, <3>1, Zenon DEF Executes
        <3> QED
            BY <1>1, <3>1, <3>2, Zenon
    <2>2. \A x \in pool' : paid'[x.id] # 0 =>
              \E b \in batches', n \in Pending' : x \in b.txs /\ Executes(n, b)'
        BY <1>1, <2>1, Zenon DEF Executes
    <2> QED
        BY <1>1, <2>2, Zenon DEF OneOutcome, NoDoubleSpend
<1> QED
    BY <1>1, <1>2, <1>3, <1>4, <1>5, Zenon

(* The execution of a batch is observed. *)
LEMMA ExecutedInv ==
    ASSUME BridgeInv, NEW e \in NextEvents, OutgoingTxBatchExecuted(e)
    PROVE  BridgeInv'
<1> USE DEF BridgeInv
<1> DEFINE k == lastObserved + 1
<1>1. PICK b \in Executed(e) :
        LET earlier == {c \in batches : c.token = b.token /\ c.nonce < b.nonce}
        IN  /\ e.kind = "withdraw"
            /\ Observe(e)
            /\ pool' = pool \ b.txs
            /\ unbatched' = unbatched \cup IdsOf(earlier)
            /\ batches' = batches \ (earlier \cup {b})
    BY Zenon DEF OutgoingTxBatchExecuted
<1> DEFINE earlier == {c \in batches : c.token = b.token /\ c.nonce < b.nonce}
<1>2. /\ e.kind = "withdraw"
      /\ pool' = pool \ b.txs
      /\ unbatched' = unbatched \cup IdsOf(earlier)
      /\ batches' = batches \ (earlier \cup {b})
    BY <1>1, Zenon
<1>3. /\ e = events[k] /\ k \in Pending /\ Pending' = Pending \ {k}
      /\ \A n \in Pending' : n \in Pending /\ k < n
      /\ UNCHANGED <<ethHeight, events, ethBatchNonce, built, paid, height,
                     nextTx, nextBatch, refunded>>
      /\ PendingOrdered' /\ TimeoutsAhead'
    BY <1>1, Observed, Zenon
<1>4. /\ lastObserved' \in 0..Len(events) /\ phase' = "tally"
      /\ lastHeights' \in [ethereum : Nat, cosmos : 0..height]
      /\ lastHeights'.cosmos # 0
    BY <1>1, Observed, Zenon
<1> HIDE DEF k
<1>5. b \in batches /\ b \in built /\ Executes(k, b)
    BY <1>2, <1>3, Zenon DEF Executed, Executes, Identified
<1>6. \A c \in built : c.nonce \in Nat /\ c.token \in Tokens
    BY Zenon DEF Typed, Batches
<1>7. ethBatchNonce \in [Tokens -> Nat]
    BY Zenon DEF Typed
<1>8. b.nonce <= ethBatchNonce[b.token]
    <2>1. PICK c \in batches : Executes(k, c) /\ c.nonce <= ethBatchNonce[c.token]
        BY <1>2, <1>3, Zenon DEF PendingHasBatch
    <2>2. c.nonce = b.nonce /\ c.token = b.token
        BY <1>5, <2>1, Zenon DEF Executes
    <2> QED
        BY <2>1, <2>2, SMTT(30)
<1>9. \A n \in Pending' : events[n].kind = "withdraw" /\ events[n].token = b.token
                              => b.nonce < events[n].value
    BY <1>3, <1>5, Zenon DEF PendingOrdered, Executes
<1>10. ASSUME NEW n \in Pending', NEW c \in batches, Executes(n, c)
       PROVE  c \in batches'
    <2>1. c \in built /\ c.nonce \in Nat /\ b.nonce \in Nat
        BY <1>5, <1>6, Zenon DEF Identified
    <2>2. c.token = b.token => b.nonce < c.nonce
        BY <1>9, <1>10, Zenon DEF Executes
    <2>3. c \notin earlier /\ c # b
        BY ONLY <1>9, <1>10, <2>1, <2>2 DEF Executes
    <2> QED
        BY <1>2, <2>3, Zenon
<1>11. PoolPartition' /\ unbatched' \subseteq TxIds
    <2>1. earlier \cap {b} = {}
        BY <1>5, <1>6, SMTT(30)
    <2>2. UNION {d.txs : d \in {b}} = b.txs
        BY Zenon
    <2>3. earlier \in SUBSET batches /\ {b} \in SUBSET batches
        BY <1>5, SMTT(30)
    <2> HIDE DEF earlier
    <2> QED
        BY <1>2, <2>1, <2>2, <2>3, BatchesLeave, Zenon
<1>12. Typed'
    BY <1>2, <1>3, <1>4, <1>11, Zenon DEF Typed
<1>13. Identified'
    BY <1>2, <1>3, Zenon DEF Identified
<1>14. ForgottenIsDead'
    <2>1. \A c \in earlier \cup {b} : c.nonce <= ethBatchNonce[c.token]
        BY <1>5, <1>6, <1>7, <1>8, SMTT(30) DEF Identified
    <2> QED
        BY <1>2, <1>3, <2>1, Zenon DEF ForgottenIsDead
<1>15. PendingHasBatch'
    BY <1>3, <1>10, Zenon DEF PendingHasBatch, Executes
<1>16. OneOutcome'
    <2>1. ASSUME NEW x \in pool', paid[x.id] # 0
          PROVE  \E c \in batches', n \in Pending' : x \in c.txs /\ Executes(n, c)
        <3>1. PICK c \in batches, n \in Pending : x \in c.txs /\ Executes(n, c)
            BY <1>2, <2>1, Zenon DEF OneOutcome
        <3>2. c # b
            BY <1>2, <2>1, <3>1, Zenon
        <3>3. n # k
            BY <1>5, <3>1, <3>2, Zenon DEF Executes, Identified
        <3> QED
            BY <1>3, <1>10, <3>1, <3>3, Zenon
    <2>2. \A x \in pool' : paid'[x.id] # 0 =>
              \E c \in batches', n \in Pending' : x \in c.txs /\ Executes(n, c)'
        BY <1>3, <2>1, Zenon DEF Executes
    <2>3. \A x \in pool' : refunded'[x.id] = 0
        BY <1>2, <1>3, Zenon DEF OneOutcome
    <2>4. NoDoubleSpend'
        BY <1>3, Zenon DEF OneOutcome, NoDoubleSpend
    <2> QED
        BY <2>2, <2>3, <2>4, Zenon DEF OneOutcome
<1> QED
    BY <1>3, <1>11, <1>12, <1>13, <1>14, <1>15, <1>16, Zenon

(* Batches time out, against a height that every pending event is past. *)
LEMMA EndBlockInv ==
    ASSUME BridgeInv, EndBlock
    PROVE  BridgeInv'
<1> USE DEF BridgeInv
<1>1. /\ unbatched' = unbatched \cup IdsOf(TimedOut)
      /\ batches' = batches \ TimedOut
      /\ phase' = "txs"
      /\ height' = IF height < MaxBlocks THEN height + 1 ELSE height
      /\ UNCHANGED <<ethHeight, events, ethBatchNonce, built, paid, pool, nextTx,
                     nextBatch, lastObserved, lastHeights, refunded>>
    BY Zenon DEF EndBlock, eth, observation
<1>2. /\ lastHeights.ethereum \in Nat /\ lastHeights.cosmos \in 0..height
      /\ height \in Nat \ {0} /\ ethHeight \in Nat /\ phase \in {"txs", "tally"}
    BY Zenon DEF Typed
<1>3. \A b \in built : b.timeout \in Nat
    BY Zenon DEF Typed, Batches
<1>4. \A b \in TimedOut : b \in batches /\ b \in built /\ b.timeout < lastHeights.ethereum
    BY ZenonT(30) DEF TimedOut, Identified
<1>5. \A b \in TimedOut : b.timeout <= ethHeight
    <2>1. CASE phase = "txs"
        BY <1>2, <1>3, <1>4, <2>1, SMTT(30) DEF TimeoutsAhead
    <2>2. CASE phase = "tally"
        BY <1>2, <1>3, <1>4, <2>2, SMTT(30) DEF TimeoutsAhead
    <2> QED
        BY <1>2, <2>1, <2>2, ZenonT(30)
<1>6. ASSUME NEW n \in Pending, NEW b \in batches, events[n].height < b.timeout
      PROVE  b \notin TimedOut
    <2>1. events[n].height \in Nat
        <3>1. n \in 1..Len(events) /\ events \in Seq(Events)
            BY DEF Pending, Typed
        <3>2. events[n] \in Events
            BY <3>1
        <3> QED
            BY <3>2, ZenonT(30) DEF Events
    <2>2. CASE phase = "txs"
        <3>1. \A c \in batches : lastHeights.ethereum <= c.timeout
            BY <2>2, Zenon DEF TimeoutsAhead
        <3> QED
            BY ONLY <1>2, <1>3, <1>4, <3>1, SMTT(30)
    <2>3. CASE phase = "tally"
        <3>1. lastHeights.ethereum <= events[n].height
            BY <2>3, Zenon DEF TimeoutsAhead
        <3> QED
            BY ONLY <1>2, <1>3, <1>4, <1>6, <2>1, <3>1, SMTT(30)
    <2> QED
        BY <1>2, <2>2, <2>3, ZenonT(30)
<1>7. PoolPartition' /\ unbatched' \subseteq TxIds
    <2>1. pool' = pool \ UNION {d.txs : d \in {}}
        BY <1>1, ZenonT(30)
    <2>2. TimedOut \in SUBSET batches /\ {} \in SUBSET batches
        BY <1>4, ZenonT(30)
    <2>3. TimedOut \cap {} = {} /\ batches' = batches \ (TimedOut \cup {})
        BY <1>1, Zenon
    <2> QED
        BY <1>1, <2>1, <2>2, <2>3, BatchesLeave, ZenonT(30)
<1>8. Typed'
    <2>1. height' \in Nat \ {0} /\ height <= height'
        BY <1>1, <1>2, BridgeAssumption
    <2>2. lastHeights.cosmos \in 0..height'
        BY <1>2, <2>1
    <2>3. lastHeights \in [ethereum : Nat, cosmos : 0..height']
        BY <2>2, Zenon DEF Typed
    <2> QED
        BY <1>1, <1>7, <2>1, <2>3, ZenonT(30) DEF Typed
<1>9. Identified'
    BY <1>1, Zenon DEF Identified
<1>10. ForgottenIsDead'
    BY <1>1, <1>5, ZenonT(30) DEF ForgottenIsDead
<1>11. PendingHasBatch' /\ PendingOrdered'
    <2>1. PendingHasBatch'
        BY <1>1, <1>6, EventsKept, ZenonT(30) DEF PendingHasBatch, Executes
    <2>2. PendingOrdered'
        BY <1>1, EventsKept, ZenonT(30) DEF PendingOrdered
    <2> QED
        BY <2>1, <2>2, Zenon
<1>12. TimeoutsAhead'
    <2>1. \A b \in batches' : lastHeights.ethereum <= b.timeout
        BY <1>1, <1>2, <1>3, SMTT(30) DEF TimedOut, Identified
    <2> QED
        BY <1>1, <2>1, ZenonT(30) DEF TimeoutsAhead
<1>13. OneOutcome'
    <2>1. ASSUME NEW x \in pool, paid[x.id] # 0
          PROVE  \E b \in batches', n \in Pending : x \in b.txs /\ Executes(n, b)
        <3>1. PICK b \in batches, n \in Pending : x \in b.txs /\ Executes(n, b)
            BY <2>1, Zenon DEF OneOutcome
        <3>2. PICK c \in batches : Executes(n, c) /\ events[n].height < c.timeout
            BY <3>1, Zenon DEF PendingHasBatch, Executes
        <3>3. c = b
            BY <3>1, <3>2, ZenonT(30) DEF Executes, Identified
        <3> QED
            BY <1>1, <1>6, <3>1, <3>2, <3>3, ZenonT(30)
    <2>2. \A x \in pool' : paid'[x.id] # 0 =>
              \E b \in batches', n \in Pending' : x \in b.txs /\ Executes(n, b)'
        BY <1>1, <2>1, EventsKept, ZenonT(30) DEF Executes
    <2> QED
        BY <1>1, <2>2, Zenon DEF OneOutcome, NoDoubleSpend
<1> QED
    BY <1>7, <1>8, <1>9, <1>10, <1>11, <1>12, <1>13, ZenonT(30)

(* The bridge moves to a new contract. *)
LEMMA ResetInv ==
    ASSUME BridgeInv, NEW h \in 1..MaxEthHeight, ResetPeggyModuleState(h)
    PROVE  BridgeInv'
<1> USE DEF BridgeInv
<1>1. /\ phase = "txs" /\ pool' = {} /\ unbatched' = {} /\ batches' = {}
      /\ built' = {}
      /\ refunded' = [i \in TxIds |->
                        refunded[i] + IF i \in Ids(pool) THEN 1 ELSE 0]
      /\ ethHeight' = h
      /\ events' = SubSeq(events, 1, lastObserved)
      /\ ethBatchNonce' = [t \in Tokens |-> 0]
      /\ paid' = [i \in TxIds |-> 0]
      /\ UNCHANGED <<height, phase, nextTx, nextBatch, lastObserved, lastHeights>>
    BY Zenon DEF ResetPeggyModuleState, observation
<1>2. events \in Seq(Events) /\ lastObserved \in 0..Len(events)
    BY Zenon DEF Typed
<1>3. events' \in Seq(Events) /\ Len(events') = lastObserved
    BY <1>1, <1>2
<1>4. Pending' = {}
    BY <1>1, <1>2, <1>3, SMTT(30) DEF Pending
<1>5. ethHeight' \in Nat
    BY <1>1, BridgeAssumption, SMTT(30)
<1>6. refunded \in [TxIds -> Nat] /\ paid \in [TxIds -> Nat] /\ nextTx \in Nat
    BY DEF Typed
<1>7. \A i \in TxIds : paid[i] + refunded[i] <= 1
    BY Zenon DEF OneOutcome, NoDoubleSpend
<1>8. \A i \in TxIds : i \in Ids(pool) => refunded[i] = 0 /\ i < nextTx
    BY Zenon DEF OneOutcome, Ids, Identified
<1>9. \A i \in TxIds : /\ refunded'[i] = refunded[i] + IF i \in Ids(pool) THEN 1 ELSE 0
                       /\ refunded'[i] \in Nat /\ paid'[i] = 0
    BY <1>1, <1>6
<1>10. \A i \in TxIds : refunded'[i] <= 1
    BY <1>6, <1>7, <1>8, <1>9, SMTT(30)
<1>11. Typed'
    <2>1. refunded' \in [TxIds -> Nat] /\ paid' \in [TxIds -> Nat]
        BY <1>1, <1>9, Zenon
    <2>2. ethBatchNonce' \in [Tokens -> Nat]
        BY <1>1, Zenon
    <2>3. lastObserved' \in 0..Len(events')
        BY <1>1, <1>2, <1>3, SMTT(30)
    <2> QED
        BY <1>1, <1>3, <1>5, <2>1, <2>2, <2>3, Zenon DEF Typed
<1>12. Identified'
    <2>1. \A i \in TxIds : i >= nextTx => paid'[i] = 0 /\ refunded'[i] = 0
        <3> TAKE i \in TxIds
        <3> HAVE i >= nextTx
        <3>1. i \in Nat
            BY BridgeAssumption DEF TxIds
        <3>2. i \notin Ids(pool)
            BY <1>6, <1>8, <3>1, SMTT(30)
        <3> QED
            BY <1>9, <3>2, SMTT(30) DEF Identified
    <2> QED
        BY <1>1, <2>1, ZenonT(30) DEF Identified
<1>13. PoolPartition' /\ ForgottenIsDead' /\ TimeoutsAhead'
    BY <1>1, Zenon DEF PoolPartition, ForgottenIsDead, TimeoutsAhead
<1>14. PendingHasBatch' /\ PendingOrdered'
    BY <1>4, ZenonT(30) DEF PendingHasBatch, PendingOrdered
<1>15. OneOutcome'
    <2>1. NoDoubleSpend'
        BY <1>9, <1>10, SMTT(20) DEF NoDoubleSpend
    <2> QED
        BY <1>1, <2>1, ZenonT(30) DEF OneOutcome
<1> QED
    BY <1>11, <1>12, <1>13, <1>14, <1>15, ZenonT(30)

-----------------------------------------------------------------------------
(* Every step keeps the withdrawals in order. *)
LEMMA NextBridgeInv ==
    ASSUME BridgeInv, [Next]_vars
    PROVE  BridgeInv'
<1>1. CASE EthBlock
    BY <1>1, EthBlockInv, ZenonT(30)
<1>2. ASSUME NEW t \in Tokens, NEW a \in Amounts, sendToInjective(t, a)
      PROVE  BridgeInv'
    <2> DEFINE e == [kind |-> "deposit", token |-> t, value |-> a,
                     height |-> ethHeight]
    <2>1. e \in Events
        BY BridgeAssumption, Zenon DEF Events, BridgeInv, Typed
    <2>2. e.kind # "withdraw" /\ e.height = ethHeight
        BY Zenon
    <2>3. /\ Emit(e)
          /\ UNCHANGED <<ethHeight, ethBatchNonce, built, paid, height, phase,
                         withdrawals, observation, refunded>>
        BY <1>2, Zenon DEF sendToInjective
    <2> HIDE DEF e
    <2> QED
        BY <2>1, <2>2, <2>3, PlainEventInv, ZenonT(30)
<1>3. ASSUME NEW b \in built, submitBatch(b)
      PROVE  BridgeInv'
    BY <1>3, SubmitBatchInv, ZenonT(30)
<1>4. CASE updateValset
    <2> DEFINE e == [kind |-> "valset", token |-> Native, value |-> 0,
                     height |-> ethHeight]
    <2>1. e \in Events
        BY BridgeAssumption, ZenonT(30) DEF Events, BridgeInv, Typed
    <2>2. e.kind # "withdraw" /\ e.height = ethHeight
        BY Zenon
    <2>3. /\ Emit(e)
          /\ UNCHANGED <<ethHeight, ethBatchNonce, built, paid, height, phase,
                         withdrawals, observation, refunded>>
        BY <1>4, Zenon DEF updateValset
    <2> HIDE DEF e
    <2> QED
        BY <2>1, <2>2, <2>3, PlainEventInv, ZenonT(30)
<1>5. ASSUME NEW t \in Tokens, NEW a \in Amounts, NEW f \in Fees, SendToEth(t, a, f)
      PROVE  BridgeInv'
    BY <1>5, SendToEthInv, ZenonT(30)
<1>6. ASSUME NEW x \in pool, CancelSendToEth(x)
      PROVE  BridgeInv'
    BY <1>6, CancelSendToEthInv
<1>7. ASSUME NEW t \in Tokens, RequestBatch(t)
      PROVE  BridgeInv'
    BY <1>7, RequestBatchInv, Zenon
<1>8. ASSUME NEW e \in NextEvents, handleDepositClaim(e)
      PROVE  BridgeInv'
    <2>1. e.kind # "withdraw" /\ Observe(e) /\ UNCHANGED <<pool, unbatched, batches>>
        BY <1>8, Zenon DEF handleDepositClaim
    <2> QED
        BY <2>1, PlainObserveInv, ZenonT(30)
<1>9. ASSUME NEW e \in NextEvents, OutgoingTxBatchExecuted(e)
      PROVE  BridgeInv'
    BY <1>9, ExecutedInv, ZenonT(30)
<1>10. ASSUME NEW e \in NextEvents, handleValsetUpdatedClaim(e)
       PROVE  BridgeInv'
    <2>1. e.kind # "withdraw" /\ Observe(e) /\ UNCHANGED <<pool, unbatched, batches>>
        BY <1>10, Zenon DEF handleValsetUpdatedClaim
    <2> QED
        BY <2>1, PlainObserveInv
<1>11. CASE EndBlock
    BY <1>11, EndBlockInv
<1>12. ASSUME NEW h \in 1..MaxEthHeight, ResetPeggyModuleState(h)
       PROVE  BridgeInv'
    BY <1>12, ResetInv, Zenon
<1>13. CASE UNCHANGED vars
    <2>1. UNCHANGED <<ethHeight, events, ethBatchNonce, built, paid, height, phase,
                      pool, unbatched, batches, nextTx, nextBatch, lastObserved,
                      lastHeights, refunded>>
        BY <1>13, ZenonT(30) DEF vars, eth, withdrawals, observation
    <2>2. Typed' /\ Identified' /\ PoolPartition'
        BY <2>1, ZenonT(30) DEF BridgeInv, Typed, Identified, PoolPartition
    <2>3. Pending' = Pending
        BY <2>1, EventsKept, ZenonT(30)
    <2>4. ForgottenIsDead' /\ PendingHasBatch'
        BY <2>1, <2>3, ZenonT(30)
           DEF BridgeInv, ForgottenIsDead, PendingHasBatch, Executes
    <2>5. PendingOrdered' /\ TimeoutsAhead'
        BY <2>1, <2>3, ZenonT(30) DEF BridgeInv, PendingOrdered, TimeoutsAhead
    <2>6. OneOutcome'
        BY <2>1, <2>3, ZenonT(30) DEF BridgeInv, OneOutcome, NoDoubleSpend, Executes
    <2> QED
        BY <2>2, <2>4, <2>5, <2>6, ZenonT(30) DEF BridgeInv
<1> QED
    BY <1>1, <1>2, <1>3, <1>4, <1>5, <1>6, <1>7, <1>8, <1>9, <1>10, <1>11, <1>12,
       <1>13 DEF Next
=============================================================================
