---------------------------- MODULE PeggyBridge ----------------------------
(***************************************************************************)
(* Withdrawals and deposits over the Peggy bridge: the outgoing pool and   *)
(* the batches of the peggy module, composed with the bridge contract      *)
(* Peggy.sol.  A user's withdrawal waits in the pool, is put in a batch,   *)
(* and is paid on Ethereum or comes back: batches time out, are superseded *)
(* by later ones, and are cancelled when the bridge moves.                 *)
(*                                                                         *)
(* The chain learns of Ethereum through the oracle, here by what           *)
(* EventDelivery promises: events arrive in order and once, any number of  *)
(* blocks late.  On Ethereum anybody may submit any batch that was ever    *)
(* built, whatever became of it on the chain: signatures do not expire.    *)
(*                                                                         *)
(* Tokens are ERC20 contracts without a rate limit (PeggyRateLimit has     *)
(* those).  A sender is not modelled: a withdrawal is cancelled by its own *)
(* sender or not at all.  The contract pays no valset reward.              *)
(***************************************************************************)
EXTENDS Integers, Sequences, FiniteSets, Functions

CONSTANTS
    Tokens,             \* ERC20 contracts
    Native,             \* the one that stands for INJ (CosmosCoinErc20Contract)
    InitialSupply,      \* supply of INJ at genesis, held on Ethereum too
    Amounts, Fees,      \* of a withdrawal; deposits are of Amounts as well
    SupplyCap,          \* largest sdkmath.Int, 2^256 - 1
    OutgoingTxBatchSize,
    AverageBlockTime, AverageEthereumBlockTime, TargetBatchTimeout,
    MaxTxs, MaxEvents, MaxEthHeight, MaxBlocks, MaxRedeploys    \* bounds

TxIds == 0..(MaxTxs - 1)
Txs == [id : TxIds, token : Tokens, amount : Amounts, fee : Fees]

ASSUME BridgeAssumption ==
    /\ Native \in Tokens
    /\ Amounts \subseteq Nat \ {0} /\ Fees \subseteq Nat
    /\ SupplyCap \in Nat /\ InitialSupply \in 0..SupplyCap
    /\ OutgoingTxBatchSize \in Nat \ {0}
    /\ AverageBlockTime \in Nat
    /\ AverageEthereumBlockTime \in Nat \ {0}
    /\ TargetBatchTimeout \in Nat
    /\ MaxTxs \in Nat /\ MaxEvents \in Nat /\ MaxEthHeight \in Nat
    /\ MaxBlocks \in Nat /\ MaxRedeploys \in Nat

VARIABLES
    \* Ethereum
    ethHeight,      \* block.number
    events,         \* the contract's events, by nonce
    ethBatchNonce,  \* state_lastBatchNonces
    locked,         \* the contract's balance of every token
    \* the peggy module
    height,         \* block height of the chain
    phase,          \* "txs": transactions; "tally": the EndBlocker has begun
    pool,           \* OutgoingTXPoolKey: withdrawals, those in batches included
    unbatched,      \* FeeIndexOutgoingTxKey: ids of withdrawals in no batch
    batches,        \* OutgoingTXBatchKey
    blockIndex,     \* OutgoingTXBatchBlockKey
    nextTx,         \* next id of KeyLastTXPoolID
    nextBatch,      \* next nonce of KeyLastOutgoingBatchID
    supply,         \* bank supply of the token's denom
    mintAmount,     \* MintAmountERC20
    lastObserved,   \* LastObservedEventNonce
    lastHeights,    \* LastObservedEthereumBlockHeight: both heights
    \* history
    built,          \* every batch built for the present contract
    paid,           \* times the present contract paid a withdrawal
    refunded,       \* times a withdrawal was given back
    stranded,       \* deposits that the chain could not represent
    redeploys       \* moves of the bridge so far

eth == <<ethHeight, events, ethBatchNonce, locked, built, paid>>
withdrawals == <<pool, unbatched, batches, blockIndex, nextTx, nextBatch>>
observation == <<lastObserved, lastHeights>>
vars == <<eth, height, phase, withdrawals, supply, mintAmount, observation,
          refunded, stranded, redeploys>>

Init ==
    /\ ethHeight = 1
    /\ events = <<>>
    /\ ethBatchNonce = [t \in Tokens |-> 0]
    /\ locked = [t \in Tokens |-> IF t = Native THEN InitialSupply ELSE 0]
    /\ height = 1
    /\ phase = "txs"
    /\ pool = {} /\ unbatched = {} /\ batches = {}
    /\ blockIndex = [h \in {} |-> {}]
    /\ nextTx = 0 /\ nextBatch = 0
    /\ supply = [t \in Tokens |-> IF t = Native THEN InitialSupply ELSE 0]
    /\ mintAmount = [t \in Tokens |-> 0]
    /\ lastObserved = 0
    /\ lastHeights = [ethereum |-> 0, cosmos |-> 0]
    /\ built = {}
    /\ paid = [i \in TxIds |-> 0]
    /\ refunded = [i \in TxIds |-> 0]
    /\ stranded = [t \in Tokens |-> 0]
    /\ redeploys = 0

(* What the withdrawals of T cost together, fees included. *)
Total(T) == SumFunction([x \in T |-> x.amount + x.fee])

Ids(T) == {x.id : x \in T}

-----------------------------------------------------------------------------
(* Ethereum *)

EthBlock ==
    /\ ethHeight < MaxEthHeight
    /\ ethHeight' = ethHeight + 1
    /\ UNCHANGED <<events, ethBatchNonce, locked, built, paid, height, phase,
                   withdrawals, supply, mintAmount, observation, refunded,
                   stranded, redeploys>>

Emit(e) == Len(events) < MaxEvents /\ events' = Append(events, e)

sendToInjective(t, a) ==
    /\ Emit([kind |-> "deposit", token |-> t, value |-> a, height |-> ethHeight])
    /\ locked' = [locked EXCEPT ![t] = @ + a]
    /\ UNCHANGED <<ethHeight, ethBatchNonce, built, paid, height, phase,
                   withdrawals, supply, mintAmount, observation, refunded,
                   stranded, redeploys>>

(* Pays every withdrawal of the batch, or reverts. *)
submitBatch(b) ==
    /\ ethBatchNonce[b.token] < b.nonce
    /\ ethHeight < b.timeout
    /\ locked[b.token] >= Total(b.txs)
    /\ Emit([kind |-> "withdraw", token |-> b.token, value |-> b.nonce,
             height |-> ethHeight])
    /\ ethBatchNonce' = [ethBatchNonce EXCEPT ![b.token] = b.nonce]
    /\ locked' = [locked EXCEPT ![b.token] = @ - Total(b.txs)]
    /\ paid' = [i \in TxIds |-> paid[i] + IF i \in Ids(b.txs) THEN 1 ELSE 0]
    /\ UNCHANGED <<ethHeight, built, height, phase, withdrawals, supply,
                   mintAmount, observation, refunded, stranded, redeploys>>

(* The event of a new validator set; token and value mean nothing. *)
updateValset ==
    /\ Emit([kind |-> "valset", token |-> Native, value |-> 0,
             height |-> ethHeight])
    /\ UNCHANGED <<ethHeight, ethBatchNonce, locked, built, paid, height, phase,
                   withdrawals, supply, mintAmount, observation, refunded,
                   stranded, redeploys>>

-----------------------------------------------------------------------------
(* Transactions *)

(* AddToOutgoingPool: the vouchers are burnt when the withdrawal enters    *)
(* the pool.                                                               *)
SendToEth(t, a, f) ==
    /\ phase = "txs"
    /\ nextTx < MaxTxs
    /\ supply[t] >= a + f
    /\ supply' = [supply EXCEPT ![t] = @ - (a + f)]
    /\ pool' = pool \cup {[id |-> nextTx, token |-> t, amount |-> a, fee |-> f]}
    /\ unbatched' = unbatched \cup {nextTx}
    /\ nextTx' = nextTx + 1
    /\ UNCHANGED <<eth, height, phase, batches, blockIndex, nextBatch,
                   mintAmount, observation, refunded, stranded, redeploys>>

(* Mutant of CancelSendToEth: the fee index is not consulted. *)
CancelAnySendToEth(x) ==
    /\ phase = "txs"
    /\ supply[x.token] + x.amount + x.fee <= SupplyCap
    /\ unbatched' = unbatched \ {x.id}
    /\ pool' = pool \ {x}
    /\ supply' = [supply EXCEPT ![x.token] = @ + x.amount + x.fee]
    /\ refunded' = [refunded EXCEPT ![x.id] = @ + 1]
    /\ UNCHANGED <<eth, height, phase, batches, blockIndex, nextTx, nextBatch,
                   mintAmount, observation, stranded, redeploys>>

(* Mutant of CancelSendToEth: the fee is not given back. *)
CancelWithoutFee(x) ==
    /\ phase = "txs"
    /\ x.id \in unbatched
    /\ supply[x.token] + x.amount <= SupplyCap
    /\ unbatched' = unbatched \ {x.id}
    /\ pool' = pool \ {x}
    /\ supply' = [supply EXCEPT ![x.token] = @ + x.amount]
    /\ refunded' = [refunded EXCEPT ![x.id] = @ + 1]
    /\ UNCHANGED <<eth, height, phase, batches, blockIndex, nextTx, nextBatch,
                   mintAmount, observation, stranded, redeploys>>

(* RemoveFromOutgoingPoolAndRefund.  MintCoins fails if the supply would   *)
(* not fit an sdkmath.Int.                                                 *)
CancelSendToEth(x) ==
    /\ phase = "txs"
    /\ x.id \in unbatched
    /\ supply[x.token] + x.amount + x.fee <= SupplyCap
    /\ unbatched' = unbatched \ {x.id}
    /\ pool' = pool \ {x}
    /\ supply' = [supply EXCEPT ![x.token] = @ + x.amount + x.fee]
    /\ refunded' = [refunded EXCEPT ![x.id] = @ + 1]
    /\ UNCHANGED <<eth, height, phase, batches, blockIndex, nextTx, nextBatch,
                   mintAmount, observation, stranded, redeploys>>

(* The fee index is read from the highest fee down, and from the youngest  *)
(* withdrawal among equal fees.                                            *)
PickedBefore(x, y) == x.fee > y.fee \/ (x.fee = y.fee /\ x.id > y.id)

pickUnbatchedTX(t) ==
    LET candidates == {x \in pool : x.token = t /\ x.id \in unbatched}
    IN  {x \in candidates :
            Cardinality({y \in candidates : PickedBefore(y, x)})
                < OutgoingTxBatchSize}

(* The timeout: the Ethereum height projected from the last observed one,  *)
(* and the target on top of it.                                            *)
getBatchTimeoutHeight ==
    IF lastHeights.cosmos = 0 \/ lastHeights.ethereum = 0 THEN 0
    ELSE LET projectedMillis == (height - lastHeights.cosmos) * AverageBlockTime
         IN  (projectedMillis \div AverageEthereumBlockTime)
                + lastHeights.ethereum
                + (TargetBatchTimeout \div AverageEthereumBlockTime)

(* Mutant of RequestBatch: the picked withdrawals stay in the fee index. *)
RequestBatchKeepingFees(t) ==
    LET b == [token |-> t, nonce |-> nextBatch, timeout |-> getBatchTimeoutHeight,
              block |-> height, txs |-> pickUnbatchedTX(t)]
    IN  /\ phase = "txs"
        /\ height < MaxBlocks
        /\ b.txs # {}
        /\ batches' = batches \cup {b}
        /\ blockIndex' = [h \in DOMAIN blockIndex \cup {height} |->
                            IF h = height THEN b ELSE blockIndex[h]]
        /\ nextBatch' = nextBatch + 1
        /\ built' = built \cup {b}
        /\ UNCHANGED <<ethHeight, events, ethBatchNonce, locked, paid, height,
                       phase, pool, unbatched, nextTx, supply, mintAmount,
                       observation, refunded, stranded, redeploys>>

(* BuildOutgoingTXBatch and StoreBatch.  The block index has one entry per *)
(* height, whatever the token.                                             *)
RequestBatch(t) ==
    LET b == [token |-> t, nonce |-> nextBatch, timeout |-> getBatchTimeoutHeight,
              block |-> height, txs |-> pickUnbatchedTX(t)]
    IN  /\ phase = "txs"
        /\ height < MaxBlocks
        /\ b.txs # {}
        /\ unbatched' = unbatched \ Ids(b.txs)
        /\ batches' = batches \cup {b}
        /\ blockIndex' = [h \in DOMAIN blockIndex \cup {height} |->
                            IF h = height THEN b ELSE blockIndex[h]]
        /\ nextBatch' = nextBatch + 1
        /\ built' = built \cup {b}
        /\ UNCHANGED <<ethHeight, events, ethBatchNonce, locked, paid, height,
                       phase, pool, nextTx, supply, mintAmount, observation,
                       refunded, stranded, redeploys>>

-----------------------------------------------------------------------------
(* The EndBlocker: any number of events in order, then the timeouts. *)

(* CancelOutgoingTXBatch for every batch of B: the withdrawals return to   *)
(* the fee index, and each batch takes the entry of its height out of the  *)
(* block index, its own or not.                                            *)
IdsOf(B) == UNION {Ids(b.txs) : b \in B}
WithoutBlocks(B) ==
    [h \in DOMAIN blockIndex \ {b.block : b \in B} |-> blockIndex[h]]

(* The event that the oracle delivers next, if there is one. *)
NextEvents == {events[n] : n \in {lastObserved + 1} \cap (1..Len(events))}

(* TryAttestation, for an event. *)
Observe(e) ==
    /\ phase' = "tally"
    /\ lastObserved' = lastObserved + 1
    /\ lastHeights' = [ethereum |-> e.height, cosmos |-> height]
    /\ UNCHANGED <<eth, height, nextTx, nextBatch, refunded, redeploys>>

(* Mutant of handleDepositClaim: only the bank supply is checked. *)
handleDepositClaimOnePass(e) ==
    LET t == e.token
        representable == supply[t] + e.value <= SupplyCap
    IN  /\ e.kind = "deposit"
        /\ Observe(e)
        /\ IF representable
           THEN /\ supply' = [supply EXCEPT ![t] = @ + e.value]
                /\ mintAmount' = IF t = Native THEN mintAmount
                                 ELSE [mintAmount EXCEPT ![t] = @ + e.value]
                /\ UNCHANGED stranded
           ELSE /\ stranded' = [stranded EXCEPT ![t] = @ + e.value]
                /\ UNCHANGED <<supply, mintAmount>>
        /\ UNCHANGED <<pool, unbatched, batches, blockIndex>>

(* A deposit is minted, to its receiver, to the segregated wallet or to    *)
(* the community pool; the event has no effect if the supply, or what was  *)
(* minted for the token altogether, would not fit an sdkmath.Int.          *)
handleDepositClaim(e) ==
    LET t == e.token
        representable == /\ supply[t] + e.value <= SupplyCap
                         /\ t # Native => mintAmount[t] + e.value <= SupplyCap
    IN  /\ e.kind = "deposit"
        /\ Observe(e)
        /\ IF representable
           THEN /\ supply' = [supply EXCEPT ![t] = @ + e.value]
                /\ mintAmount' = IF t = Native THEN mintAmount
                                 ELSE [mintAmount EXCEPT ![t] = @ + e.value]
                /\ UNCHANGED stranded
           ELSE /\ stranded' = [stranded EXCEPT ![t] = @ + e.value]
                /\ UNCHANGED <<supply, mintAmount>>
        /\ UNCHANGED <<pool, unbatched, batches, blockIndex>>

(* The batch a withdrawal event is about; OutgoingTxBatchExecuted panics   *)
(* if there is none.                                                       *)
Executed(e) == {b \in batches : b.token = e.token /\ b.nonce = e.value}

(* The withdrawals of the batch leave the pool; earlier batches of the     *)
(* token, which the contract will not take any more, are cancelled.        *)
OutgoingTxBatchExecuted(e) ==
    \E b \in Executed(e) :
        LET earlier == {c \in batches : c.token = b.token /\ c.nonce < b.nonce}
        IN  /\ e.kind = "withdraw"
            /\ Observe(e)
            /\ pool' = pool \ b.txs
            /\ unbatched' = unbatched \cup IdsOf(earlier)
            /\ batches' = batches \ (earlier \cup {b})
            /\ blockIndex' = WithoutBlocks(earlier \cup {b})
            /\ mintAmount' = IF b.token = Native THEN mintAmount
                             ELSE [mintAmount EXCEPT ![b.token] = @ - Total(b.txs)]
            /\ UNCHANGED <<supply, stranded>>

handleValsetUpdatedClaim(e) ==
    /\ e.kind = "valset"
    /\ Observe(e)
    /\ UNCHANGED <<pool, unbatched, batches, blockIndex, supply, mintAmount,
                   stranded>>

(* Mutant of TimedOut: against the projected Ethereum height, as the       *)
(* comment of cleanupTimedOutBatches warns not to.                         *)
TimedOutByProjection ==
    {b \in batches :
        b.timeout < lastHeights.ethereum
                        + ((height - lastHeights.cosmos) * AverageBlockTime)
                                \div AverageEthereumBlockTime}

(* Batches whose timeout lies behind the last observed Ethereum height. *)
TimedOut == {b \in batches : b.timeout < lastHeights.ethereum}

(* cleanupTimedOutBatches, and the next block begins.  The chain outlives  *)
(* MaxBlocks but builds no batch any more.                                 *)
EndBlock ==
    /\ unbatched' = unbatched \cup IdsOf(TimedOut)
    /\ batches' = batches \ TimedOut
    /\ blockIndex' = WithoutBlocks(TimedOut)
    /\ phase' = "txs"
    /\ height' = IF height < MaxBlocks THEN height + 1 ELSE height
    /\ UNCHANGED <<eth, pool, nextTx, nextBatch, supply, mintAmount,
                   observation, refunded, stranded, redeploys>>

-----------------------------------------------------------------------------
(* UpdateParams with a new contract, on another network at height h: every *)
(* batch is cancelled, then every withdrawal refunded.  The last observed  *)
(* heights stay those of the old network.  The new contract has an id of   *)
(* its own, so that no signature given for the old one counts.             *)
ResetPeggyModuleState(h) ==
    /\ phase = "txs"
    /\ redeploys < MaxRedeploys
    /\ \A t \in Tokens :
            supply[t] + Total({x \in pool : x.token = t}) <= SupplyCap
    /\ redeploys' = redeploys + 1
    /\ pool' = {} /\ unbatched' = {} /\ batches' = {}
    /\ blockIndex' = WithoutBlocks(batches)
    /\ supply' = [t \in Tokens |->
                    supply[t] + Total({x \in pool : x.token = t})]
    /\ refunded' = [i \in TxIds |->
                        refunded[i] + IF i \in Ids(pool) THEN 1 ELSE 0]
    /\ ethHeight' = h
    /\ events' = SubSeq(events, 1, lastObserved)
    /\ ethBatchNonce' = [t \in Tokens |-> 0]
    /\ locked' = [t \in Tokens |-> 0]
    /\ built' = {}
    /\ paid' = [i \in TxIds |-> 0]
    /\ UNCHANGED <<height, phase, nextTx, nextBatch, mintAmount, observation,
                   stranded>>

Next ==
    \/ EthBlock
    \/ \E t \in Tokens, a \in Amounts : sendToInjective(t, a)
    \/ \E b \in built : submitBatch(b)
    \/ updateValset
    \/ \E t \in Tokens, a \in Amounts, f \in Fees : SendToEth(t, a, f)
    \/ \E x \in pool : CancelSendToEth(x)
    \/ \E t \in Tokens : RequestBatch(t)
    \/ \E e \in NextEvents : handleDepositClaim(e)
    \/ \E e \in NextEvents : OutgoingTxBatchExecuted(e)
    \/ \E e \in NextEvents : handleValsetUpdatedClaim(e)
    \/ EndBlock
    \/ \E h \in 1..MaxEthHeight : ResetPeggyModuleState(h)

Spec == Init /\ [][Next]_vars

-----------------------------------------------------------------------------
(* Properties *)

Batches == [token : Tokens, nonce : Nat, timeout : Nat, block : Nat,
            txs : SUBSET Txs]
Events == [kind : {"deposit", "withdraw", "valset"}, token : Tokens,
           value : Nat, height : Nat]

TypeOK ==
    /\ ethHeight \in Nat
    /\ events \in Seq(Events)
    /\ ethBatchNonce \in [Tokens -> Nat]
    /\ locked \in [Tokens -> Nat]
    /\ height \in Nat
    /\ phase \in {"txs", "tally"}
    /\ pool \subseteq Txs
    /\ unbatched \subseteq TxIds
    /\ batches \subseteq Batches /\ built \subseteq Batches
    /\ DOMAIN blockIndex \subseteq Nat
    /\ \A h \in DOMAIN blockIndex : blockIndex[h] \in built
    /\ nextTx \in 0..MaxTxs
    /\ nextBatch \in Nat
    /\ supply \in [Tokens -> 0..SupplyCap]
    /\ mintAmount \in [Tokens -> 0..SupplyCap]
    /\ lastObserved \in 0..Len(events)
    /\ lastHeights \in [ethereum : Nat, cosmos : Nat]
    /\ paid \in [TxIds -> Nat] /\ refunded \in [TxIds -> Nat]
    /\ stranded \in [Tokens -> Nat]
    /\ redeploys \in 0..MaxRedeploys

(* A withdrawal that is in the pool waits in the fee index or is in one    *)
(* batch, never both, never in two batches and never in neither; nothing   *)
(* else is in the index or in a batch.  Otherwise it could be paid by two  *)
(* batches, or pickUnbatchedTX would panic on an index entry without a     *)
(* withdrawal.                                                             *)
PoolPartition ==
    /\ unbatched \subseteq Ids(pool)
    /\ \A b \in batches : b.txs \subseteq pool /\ Ids(b.txs) \cap unbatched = {}
    /\ \A b, c \in batches : b # c => b.txs \cap c.txs = {}
    /\ \A x \in pool : x.id \in unbatched \/ \E b \in batches : x \in b.txs

(* Every withdrawal comes to one end: it is paid once on Ethereum or given *)
(* back once on the chain, never both, however the submission of a batch   *)
(* races its timeout, its successors, the observation of its execution and *)
(* the user's cancellation.  "this function panics instead of returning    *)
(* errors because any failure will cause a double spend" (batch.go).       *)
NoDoubleSpend == \A i \in TxIds : paid[i] + refunded[i] <= 1

(* An execution that the chain has not seen yet finds its batch when it    *)
(* is: OutgoingTxBatchExecuted does not panic, which would halt the chain  *)
(* in the EndBlocker.                                                      *)
ExecutionFindsBatch ==
    \A n \in (lastObserved + 1)..Len(events) :
        events[n].kind = "withdraw" =>
            \E b \in batches : b.token = events[n].token /\ b.nonce = events[n].value

(* What the contract has paid or received and the chain has not seen. *)
Unseen(t, kind) ==
    {n \in (lastObserved + 1)..Len(events) :
        events[n].kind = kind /\ events[n].token = t}
PayingBatch(n) ==
    CHOOSE b \in built : b.token = events[n].token /\ b.nonce = events[n].value
UnseenDeposits(t) == SumFunction([n \in Unseen(t, "deposit") |-> events[n].value])
UnseenPayments(t) ==
    SumFunction([n \in Unseen(t, "withdraw") |-> Total(PayingBatch(n).txs)])

(* Conservation, until the bridge moves: the contract holds, to the last   *)
(* unit, the vouchers in circulation, the withdrawals in the pool, the     *)
(* deposits on their way and the ones the chain could not mint, less the   *)
(* payments the chain has yet to hear of.                                  *)
Backed ==
    redeploys = 0 =>
        \A t \in Tokens :
            locked[t] = supply[t] + Total({x \in pool : x.token = t})
                            + UnseenDeposits(t) + stranded[t] - UnseenPayments(t)

(* MintAmountERC20 is what its comment in handleDepositClaim says: the     *)
(* supply, and the vouchers burnt "on withdrawal inclusion not execution". *)
(* It keeps every refund representable: minting the whole pool back never  *)
(* overflows the supply, which with everything else has its type.          *)
MintAmountCoversPool ==
    /\ TypeOK
    /\ \A t \in Tokens \ {Native} :
        /\ mintAmount[t] = supply[t] + Total({x \in pool : x.token = t})
        /\ mintAmount[t] <= SupplyCap
=============================================================================
