--------------------------- MODULE PeggyRateLimit ---------------------------
(***************************************************************************)
(* The limits on what leaves the bridge within a window of blocks: the     *)
(* flow records by block, the net outflow kept beside them, the batches    *)
(* whose withdrawals count before they are executed, and the governance of *)
(* the limits (keeper/rate_limit.go and the block handlers that use it).   *)
(*                                                                         *)
(* A batch is its amount and fees together; PeggyBridge has what is in it. *)
(* A price of 0 stands for a price that the oracle does not know.          *)
(***************************************************************************)
EXTENDS Integers, FiniteSets, FiniteSetsExt, Functions

CONSTANTS
    Tokens,
    Limits,             \* [usd, window] that governance may set
    NoLimit,
    Prices,             \* reference prices, 0 if unknown
    Amounts,            \* of a deposit or a batch
    maxRecordsToPrune,
    MaxHeight, MaxBatches, MaxDeposits, MaxLimitChanges      \* bounds

ASSUME RateLimitAssumption ==
    \* ValidateBasic of the messages refuses zero; negative limits, under
    \* which no net outflow is let through, are left out
    /\ \A l \in Limits : l.usd \in Nat \ {0} /\ l.window \in Nat \ {0}
    /\ NoLimit \notin Limits
    /\ Prices \subseteq Nat /\ Prices \ {0} # {} /\ Amounts \subseteq Nat \ {0}
    /\ maxRecordsToPrune \in Nat \ {0}
    /\ MaxHeight \in Nat \ {0} /\ MaxBatches \in Nat
    /\ MaxDeposits \in Nat /\ MaxLimitChanges \in Nat

VARIABLES
    height,
    phase,          \* "txs", then "tally" in the EndBlocker, then "commit"
    limit,          \* RateLimitKey
    inflow,         \* RateLimitInflowKey, by block; 0 if there is no record
    outflow,        \* RateLimitOutflowKey, likewise
    netOutflow,     \* RateLimitNetOutflowKey
    hasNet,         \* the tokens with a key there
    batches,        \* OutgoingTXBatchKey
    \* history
    nextBatch, depositCount, limitChanges,   \* batches, deposits, messages so far
    received, sent, \* what came in and went out in every block
    trackedFrom,    \* block from which the records of a limit are whole
    builtAt         \* block of the last batch built

records == <<inflow, outflow, netOutflow, hasNet>>
counters == <<nextBatch, depositCount, limitChanges>>
flows == <<received, sent, trackedFrom, builtAt>>
vars == <<height, phase, limit, records, batches, counters, flows>>

Heights == 1..MaxHeight
NoFlow == [t \in Tokens |-> [h \in Heights |-> 0]]

Init ==
    /\ height = 1 /\ phase = "txs"
    /\ limit \in [Tokens -> Limits \cup {NoLimit}]
    /\ inflow = NoFlow /\ outflow = NoFlow
    /\ netOutflow = [t \in Tokens |-> 0] /\ hasNet = {}
    /\ batches = {}
    /\ nextBatch = 0 /\ depositCount = 0 /\ limitChanges = 0
    /\ received = NoFlow /\ sent = NoFlow
    /\ trackedFrom = [t \in Tokens |-> 1] /\ builtAt = [t \in Tokens |-> 0]

Limited(t) == limit[t] # NoLimit

(* What the records r of a token hold for the blocks of H. *)
Flow(r, H) == SumFunctionOnSet(r, H)
Recorded(r) == {h \in Heights : r[h] # 0}

-----------------------------------------------------------------------------
(* Messages *)

InBatches(t) == SumFunction([b \in {b \in batches : b.token = t} |-> b.amount])

(* Mutant of CheckRateLimit: batches under way are not counted. *)
CheckExecutedOnly(t, a, price) ==
    LET total == netOutflow[t] + a
    IN  Limited(t) /\ total > 0 => price > 0 /\ total * price < limit[t].usd

(* May a batch of a be built, at this price? *)
CheckRateLimit(t, a, price) ==
    LET total == netOutflow[t] + InBatches(t) + a
    IN  Limited(t) /\ total > 0 => price > 0 /\ total * price < limit[t].usd

RequestBatch(t, a, price) ==
    /\ phase = "txs"
    /\ nextBatch < MaxBatches
    /\ CheckRateLimit(t, a, price)
    /\ batches' = batches \cup {[id |-> nextBatch, token |-> t, amount |-> a]}
    /\ nextBatch' = nextBatch + 1
    /\ builtAt' = [builtAt EXCEPT ![t] = height]
    /\ UNCHANGED <<height, phase, limit, records, depositCount, limitChanges, received,
                   sent, trackedFrom>>

(* SetRateLimit, by any of the messages. *)
Change(t, l) ==
    /\ phase = "txs"
    /\ limitChanges < MaxLimitChanges
    /\ limitChanges' = limitChanges + 1
    /\ limit' = [limit EXCEPT ![t] = l]
    /\ UNCHANGED <<height, phase, records, batches, nextBatch, depositCount,
                   received, sent, builtAt>>

CreateRateLimit(t, l, price) ==
    /\ ~Limited(t)
    /\ price > 0
    /\ Change(t, l)
    /\ trackedFrom' = [trackedFrom EXCEPT ![t] = height]

(* The records that the old window had dropped do not come back. *)
UpdateRateLimit(t, l, price) ==
    /\ Limited(t)
    /\ price > 0
    /\ Change(t, l)
    /\ trackedFrom' = [trackedFrom EXCEPT
                            ![t] = Max({@, height - limit[t].window + 1})]

RemoveRateLimit(t) == Change(t, NoLimit) /\ UNCHANGED trackedFrom

-----------------------------------------------------------------------------
(* The EndBlocker *)

TrackTokenInflow(t, a) ==
    inflow' = IF Limited(t) THEN [inflow EXCEPT ![t][height] = @ + a] ELSE inflow

TrackTokenOutflow(t, a) ==
    outflow' = IF Limited(t) THEN [outflow EXCEPT ![t][height] = @ + a] ELSE outflow

(* attestationTally observes a deposit. *)
handleDepositClaim(t, a) ==
    /\ phase \in {"txs", "tally"}
    /\ depositCount < MaxDeposits
    /\ phase' = "tally"
    /\ depositCount' = depositCount + 1
    /\ TrackTokenInflow(t, a)
    /\ received' = [received EXCEPT ![t][height] = @ + a]
    /\ UNCHANGED <<height, limit, outflow, netOutflow, hasNet, batches,
                   nextBatch, limitChanges, sent, trackedFrom, builtAt>>

(* It observes the execution of a batch. *)
OutgoingTxBatchExecuted(b) ==
    /\ phase \in {"txs", "tally"}
    /\ phase' = "tally"
    /\ batches' = batches \ {b}
    /\ TrackTokenOutflow(b.token, b.amount)
    /\ sent' = [sent EXCEPT ![b.token][height] = @ + b.amount]
    /\ UNCHANGED <<height, limit, inflow, netOutflow, hasNet, counters, received,
                   trackedFrom, builtAt>>

(* A batch is superseded, or times out. *)
CancelOutgoingTXBatch(b) ==
    /\ phase \in {"txs", "tally"}
    /\ phase' = "tally"
    /\ batches' = batches \ {b}
    /\ UNCHANGED <<height, limit, records, counters, flows>>

(* includeRateLimitTransfers: the flows of this block. *)
includeRateLimitTransfers ==
    /\ netOutflow' = [t \in Tokens |->
                        IF Limited(t)
                        THEN netOutflow[t] + outflow[t][height] - inflow[t][height]
                        ELSE netOutflow[t]]
    /\ hasNet' = hasNet \cup {t \in Tokens : Limited(t)}
    /\ UNCHANGED <<inflow, outflow>>

EndBlock ==
    /\ phase \in {"txs", "tally"}
    /\ phase' = "commit"
    /\ includeRateLimitTransfers
    /\ UNCHANGED <<height, limit, batches, counters, flows>>

-----------------------------------------------------------------------------
(* The BeginBlocker of block h *)

(* Mutant of OutdatedBlocks: the window is a block short. *)
OutdatedBlocksEarly(t, h) ==
    IF h <= limit[t].window THEN {} ELSE 1..(h - limit[t].window + 1)

(* GetOutdatedInflow and GetOutdatedOutflow, PruneOldInflows and           *)
(* PruneOldOutflows: the blocks that the window has left behind.           *)
OutdatedBlocks(t, h) ==
    IF h <= limit[t].window THEN {} ELSE 1..(h - limit[t].window)

(* PruneInflowForNonExistentRateLimitToken and its counterpart: the first  *)
(* records of a token without a limit.                                     *)
FirstRecords(r) ==
    {h \in Recorded(r) :
        Cardinality({g \in Recorded(r) : g < h}) < maxRecordsToPrune}

InflowToDrop(t, h) ==
    IF Limited(t) THEN OutdatedBlocks(t, h)
    ELSE IF t \in hasNet THEN FirstRecords(inflow[t]) ELSE {}
OutflowToDrop(t, h) ==
    IF Limited(t) THEN OutdatedBlocks(t, h)
    ELSE IF t \in hasNet THEN FirstRecords(outflow[t]) ELSE {}

Without(r, H) == [g \in Heights |-> IF g \in H THEN 0 ELSE r[g]]

(* Mutant of excludeRateLimitTransfers: deposits that leave the records     *)
(* are taken off the net outflow once more, not added back.                *)
excludeTakingInflow(h) ==
    /\ netOutflow' = [t \in Tokens |->
                        netOutflow[t] - Flow(outflow[t], OutflowToDrop(t, h))
                                      - Flow(inflow[t], InflowToDrop(t, h))]
    /\ inflow' = [t \in Tokens |-> Without(inflow[t], InflowToDrop(t, h))]
    /\ outflow' = [t \in Tokens |-> Without(outflow[t], OutflowToDrop(t, h))]
    /\ hasNet' = hasNet \cup {t \in Tokens : Limited(t) /\ limit[t].window < h}

excludeRateLimitTransfers(h) ==
    /\ netOutflow' = [t \in Tokens |->
                        netOutflow[t] - Flow(outflow[t], OutflowToDrop(t, h))
                                      + Flow(inflow[t], InflowToDrop(t, h))]
    /\ inflow' = [t \in Tokens |-> Without(inflow[t], InflowToDrop(t, h))]
    /\ outflow' = [t \in Tokens |-> Without(outflow[t], OutflowToDrop(t, h))]
    /\ hasNet' = hasNet \cup {t \in Tokens : Limited(t) /\ limit[t].window < h}

BeginBlock ==
    /\ phase = "commit"
    /\ height < MaxHeight
    /\ height' = height + 1
    /\ phase' = "txs"
    /\ excludeRateLimitTransfers(height + 1)
    /\ UNCHANGED <<limit, batches, counters, flows>>

(* Mutant of InitGenesis: a net outflow of zero is not stored. *)
InitGenesisNonzero ==
    /\ phase = "commit"
    /\ netOutflow' = [t \in Tokens |-> Flow(outflow[t], Heights)
                                            - Flow(inflow[t], Heights)]
    /\ hasNet' = {t \in Tokens : netOutflow'[t] # 0}
    /\ UNCHANGED <<height, phase, limit, inflow, outflow, batches, counters,
                   flows>>

(* ExportGenesis after a block, and InitGenesis of a new chain: the net    *)
(* outflow is built anew from the records.                                 *)
InitGenesis ==
    /\ phase = "commit"
    /\ netOutflow' = [t \in Tokens |-> Flow(outflow[t], Heights)
                                            - Flow(inflow[t], Heights)]
    /\ hasNet' = {t \in Tokens : Recorded(inflow[t]) \cup Recorded(outflow[t]) # {}}
    /\ UNCHANGED <<height, phase, limit, inflow, outflow, batches, counters,
                   flows>>

Next ==
    \/ \E t \in Tokens, a \in Amounts, p \in Prices : RequestBatch(t, a, p)
    \/ \E t \in Tokens, l \in Limits, p \in Prices : CreateRateLimit(t, l, p)
    \/ \E t \in Tokens, l \in Limits, p \in Prices : UpdateRateLimit(t, l, p)
    \/ \E t \in Tokens : RemoveRateLimit(t)
    \/ \E t \in Tokens, a \in Amounts : handleDepositClaim(t, a)
    \/ \E b \in batches : OutgoingTxBatchExecuted(b)
    \/ \E b \in batches : CancelOutgoingTXBatch(b)
    \/ EndBlock
    \/ BeginBlock
    \/ InitGenesis

Spec == Init /\ [][Next]_vars

-----------------------------------------------------------------------------
(* Properties *)

TypeOK ==
    /\ height \in Heights
    /\ phase \in {"txs", "tally", "commit"}
    /\ limit \in [Tokens -> Limits \cup {NoLimit}]
    /\ inflow \in [Tokens -> [Heights -> Nat]]
    /\ outflow \in [Tokens -> [Heights -> Nat]]
    /\ netOutflow \in [Tokens -> Int]
    /\ hasNet \subseteq Tokens
    /\ batches \subseteq [id : Nat, token : Tokens, amount : Amounts]
    /\ trackedFrom \in [Tokens -> Heights]

(* The net outflow is the sum of the records beside it, those of the block *)
(* under way excepted until its EndBlocker is through: whatever limits are *)
(* created, changed, removed while their records are being pruned, and     *)
(* created again.  A restart from an exported genesis, which rebuilds the  *)
(* one from the other, therefore changes nothing.  (And the state has its  *)
(* type: no record is negative.)                                           *)
NetOutflowMatchesRecords ==
    /\ TypeOK
    /\ \A t \in Tokens :
        LET H == IF phase = "tally" THEN Heights \ {height} ELSE Heights
        IN  netOutflow[t] = Flow(outflow[t], H) - Flow(inflow[t], H)

(* What a limit is measured against is what really moved: no record ever   *)
(* differs from the flow of its block, and every block of the window that  *)
(* the limit has been there for is on record.                              *)
RecordsAreTheFlows ==
    \A t \in Tokens :
        /\ \A h \in Heights : /\ inflow[t][h] \in {0, received[t][h]}
                              /\ outflow[t][h] \in {0, sent[t][h]}
        /\ Limited(t) =>
            \A h \in trackedFrom[t]..height :
                h > height - limit[t].window =>
                    /\ inflow[t][h] = received[t][h]
                    /\ outflow[t][h] = sent[t][h]

(* The purpose of it all.  A limit that is left alone bounds what leaves   *)
(* the bridge within its window, at the lowest price the oracle has shown, *)
(* up to what had come in within the window when the last batch was built. *)
(* Batches that are executed late, all at once, or after another one was   *)
(* cancelled do not get past it.                                           *)
OutflowWithinLimit ==
    \A t \in Tokens :
        LET Window(last) == {h \in Heights : /\ h <= last
                                             /\ h > last - limit[t].window}
            out == Flow(sent[t], Window(height))
            in == Flow(received[t], Window(builtAt[t]) \ {builtAt[t]})
        IN  limitChanges = 0 /\ Limited(t) /\ out > 0 =>
                (out - in) * Min(Prices \ {0}) < limit[t].usd

Leftovers(t) == Recorded(inflow[t]) \cup Recorded(outflow[t])

(* Records that a removed limit left behind are found by the passive       *)
(* pruning: every block takes some of them, after a restart too, so that   *)
(* none stays for good.                                                    *)
LeftoversShrink ==
    [][\A t \in Tokens :
        height' > height /\ ~Limited(t) /\ Leftovers(t) # {} =>
            Leftovers(t)' \subseteq Leftovers(t) /\ Leftovers(t)' # Leftovers(t)]_vars
=============================================================================
