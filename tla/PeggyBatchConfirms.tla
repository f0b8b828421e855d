------------------------- MODULE PeggyBatchConfirms -------------------------
(***************************************************************************)
(* Confirmations of batches: the signatures that validators give, the      *)
(* jailing of those who do not (which finds batches by the block they were *)
(* built in), and the pruning.  PeggyBridge has what batches are made of   *)
(* and when they go; here they come and go as they may.  Staking is        *)
(* external, as in PeggyValset.                                            *)
(***************************************************************************)
EXTENDS Integers, FiniteSets, FiniteSetsExt

CONSTANTS
    Signers,                    \* all of them with keys
    SignedBatchesWindow,
    maxRecordsToClean,
    MaxHeight, MaxBatches       \* bounds

ASSUME BatchConfirmsAssumption ==
    /\ SignedBatchesWindow \in Nat /\ maxRecordsToClean \in Nat \ {0}
    /\ MaxHeight \in Nat \ {0} /\ MaxBatches \in Nat

VARIABLES
    height,
    phase,          \* "txs", "staking" (its EndBlocker is done), "commit"
    status, startHeight, jailed,    \* as in PeggyValset
    nextBatch,      \* KeyLastOutgoingBatchID
    batches,        \* OutgoingTXBatchKey, by nonce
    blockIndex,     \* OutgoingTXBatchBlockKey: a nonce by block
    confirms,       \* BatchConfirmKey: <<nonce, validator>>
    lastJailed,     \* LastJailedBatchBlock
    \* history
    block,          \* that built the batch of a nonce
    present,        \* the bonded validators at the end of that block
    signed,         \* every confirmation ever given
    faults          \* <<nonce, validator>> that jailing found unconfirmed

staking == <<status, startHeight>>
history == <<block, present, signed, faults>>
confirmsVars == <<height, phase, staking, jailed, nextBatch, batches,
                  blockIndex, confirms, lastJailed, history>>

BatchNonces == 0..(MaxBatches - 1)
BondedSigners == {v \in Signers : status[v] = "bonded"}

ConfirmsInit ==
    /\ height = 1 /\ phase = "txs"
    /\ status \in [Signers -> {"bonded", "unbonded"}]
    /\ BondedSigners # {}
    /\ startHeight = [v \in Signers |-> 0] /\ jailed = {}
    /\ nextBatch = 0 /\ batches = {} /\ blockIndex = [h \in {} |-> 0]
    /\ confirms = {} /\ lastJailed = 0
    /\ block = [n \in BatchNonces |-> 0] /\ present = [n \in BatchNonces |-> {}]
    /\ signed = {} /\ faults = {}

(* A batch replaces the one that its block had in the index. *)
StoreBatch ==
    /\ phase = "txs"
    /\ nextBatch < MaxBatches
    /\ nextBatch' = nextBatch + 1
    /\ batches' = batches \cup {nextBatch}
    /\ blockIndex' = [h \in DOMAIN blockIndex \cup {height} |->
                        IF h = height THEN nextBatch ELSE blockIndex[h]]
    /\ block' = [block EXCEPT ![nextBatch] = height]
    /\ UNCHANGED <<height, phase, staking, jailed, confirms, lastJailed, present,
                   signed, faults>>

ConfirmBatch(v, n) ==
    /\ phase = "txs"
    /\ n \in batches
    /\ status[v] # "unbonded"
    /\ <<n, v>> \notin confirms
    /\ confirms' = confirms \cup {<<n, v>>}
    /\ signed' = signed \cup {<<n, v>>}
    /\ UNCHANGED <<height, phase, staking, jailed, nextBatch, batches, blockIndex,
                   lastJailed, block, present, faults>>

Unjail(v) ==
    /\ phase = "txs"
    /\ v \in jailed
    /\ jailed' = jailed \ {v}
    /\ UNCHANGED <<height, phase, staking, nextBatch, batches, blockIndex,
                   confirms, lastJailed, history>>

(* Staking's EndBlocker: the validators of B are bonded from now on, those *)
(* of M have waited long enough.                                           *)
StakingEndBlock(B, M) ==
    /\ phase = "txs"
    /\ phase' = "staking"
    /\ status' = [v \in Signers |->
                    IF v \in B THEN "bonded"
                    ELSE IF status[v] = "bonded" THEN "unbonding"
                    ELSE IF v \in M THEN "unbonded" ELSE status[v]]
    /\ startHeight' = [v \in Signers |->
                        IF v \in B \ BondedSigners THEN height ELSE startHeight[v]]
    /\ present' = [n \in BatchNonces |-> IF block[n] = height THEN B ELSE present[n]]
    /\ UNCHANGED <<height, jailed, nextBatch, batches, blockIndex, confirms,
                   lastJailed, block, signed, faults>>

(* GetUnjailedBatches, by block. *)
Unjailed == {h \in DOMAIN blockIndex :
                lastJailed < h /\ h < height - SignedBatchesWindow}

(* Mutant of Offenders: those that joined in the next block are asked too. *)
OffendersOfNextBlock(h) ==
    {v \in BondedSigners \ jailed :
        startHeight[v] <= h + 1 /\ <<blockIndex[h], v>> \notin confirms}

(* batchJailing, for the batch of a block.  (A validator that several      *)
(* batches find is jailed over the first.)                                 *)
Offenders(h) ==
    {v \in BondedSigners \ jailed :
        startHeight[v] <= h /\ <<blockIndex[h], v>> \notin confirms}

(* DeleteBatch takes the entry of the batch's block out of the index. *)
WithoutBatches(X) ==
    [h \in DOMAIN blockIndex \ {block[n] : n \in X} |-> blockIndex[h]]

(* Mutant of PrunableConfirms: as soon as jailing is past the block. *)
ConfirmsPastJailing(stored) ==
    {c \in confirms : block[c[1]] < height - SignedBatchesWindow + 1}

(* PruneOldBatchConfirms: only of batches that are gone. *)
PrunableConfirms(stored) == {c \in confirms : c[1] \notin stored}

(* As many as one block cleans, in whatever order the tokens give. *)
Cleaned(P) == {R \in SUBSET P :
                Cardinality(R) = Min({Cardinality(P), maxRecordsToClean})}

(* Jailing; then batches X are executed, superseded or time out; then the  *)
(* confirmations are pruned.                                               *)
EndBlocker(X) ==
    LET found == UNION {{<<blockIndex[h], v>> : v \in Offenders(h)} : h \in Unjailed}
    IN  /\ phase = "staking"
        /\ phase' = "commit"
        /\ jailed' = jailed \cup {f[2] : f \in found}
        /\ faults' = faults \cup found
        /\ lastJailed' = Max(Unjailed \cup {lastJailed})
        /\ batches' = batches \ X
        /\ blockIndex' = WithoutBatches(X)
        /\ \E R \in Cleaned(PrunableConfirms(batches \ X)) : confirms' = confirms \ R
        /\ UNCHANGED <<height, staking, nextBatch, block, present, signed>>

NextBlock ==
    /\ phase = "commit"
    /\ height < MaxHeight
    /\ height' = height + 1
    /\ phase' = "txs"
    /\ UNCHANGED <<staking, jailed, nextBatch, batches, blockIndex, confirms,
                   lastJailed, history>>

ConfirmsNext ==
    \/ StoreBatch
    \/ \E v \in Signers, n \in BatchNonces : ConfirmBatch(v, n)
    \/ \E v \in Signers : Unjail(v)
    \/ \E B \in SUBSET (Signers \ jailed) \ {{}},
          M \in SUBSET {v \in Signers : status[v] = "unbonding"} :
            StakingEndBlock(B, M)
    \/ \E X \in SUBSET batches : EndBlocker(X)
    \/ NextBlock

ConfirmsSpec == ConfirmsInit /\ [][ConfirmsNext]_confirmsVars

-----------------------------------------------------------------------------
(* Properties *)

(* "Jailing for missing batch confirms only applies if the batch exists"   *)
(* (PruneOldBatchConfirms relies on it): whatever the block index shows is *)
(* a batch in the store, built in that block.                              *)
IndexIsLive ==
    \A h \in DOMAIN blockIndex : blockIndex[h] \in batches /\ block[blockIndex[h]] = h

(* No validator is jailed over a batch that it has confirmed: confirmations*)
(* are not pruned before batchJailing has looked for them.                 *)
BatchSignersNotJailed == [][\A f \in faults' \ faults : f \notin signed]_confirmsVars

(* Signatures of a batch that can still go to Ethereum stay for relayers.  *)
LiveBatchesRelayable == \A c \in signed : c[1] \in batches => c \in confirms

(* A validator is jailed over a batch only if it was bonded when the block *)
(* that built the batch ended, however often it has left and come back:    *)
(* batchJailing compares the start of its present bonding with that block. *)
LateJoinersNotJailed == [][\A f \in faults' \ faults : f[2] \in present[f[1]]]_confirmsVars
=============================================================================
