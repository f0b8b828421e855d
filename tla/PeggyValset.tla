---------------------------- MODULE PeggyValset ----------------------------
(***************************************************************************)
(* Validator sets of the bridge: the requests that the EndBlocker makes    *)
(* when staking moves, the confirmations that validators give them, the    *)
(* jailing of those who do not, the update of the contract, and the        *)
(* pruning of requests and confirmations (abci.go, keeper/keeper.go).      *)
(*                                                                         *)
(* A request's nonce is the block that made it.  Staking and slashing are  *)
(* external: once per block the bonded set and its powers may change, and  *)
(* a jailed validator leaves the set then.                                 *)
(***************************************************************************)
EXTENDS Integers, FiniteSets, FiniteSetsExt, Functions, Sequences

CONSTANTS
    Validators,
    Powers,                     \* staking powers of a bonded validator
    PowerCeiling,               \* powers of a set sum up to this, rounded
    SignedValsetsWindow, UnbondSlashingValsetsWindow,
    maxRecordsToClean,
    MaxHeight, MaxUnjails       \* bounds

ASSUME ValsetAssumption ==
    /\ IsFiniteSet(Validators)
    /\ Powers \subseteq Nat \ {0} /\ Powers # {} /\ PowerCeiling \in Nat \ {0}
    /\ SignedValsetsWindow \in Nat /\ UnbondSlashingValsetsWindow \in Nat
    /\ maxRecordsToClean \in Nat \ {0}
    /\ MaxHeight \in Nat \ {0} /\ MaxUnjails \in Nat

VARIABLES
    height,
    phase,          \* "txs", "staking" (its EndBlocker is done), "commit"
    \* staking and slashing
    status,         \* "bonded", "unbonding" or "unbonded"
    power,          \* LastValidatorPower
    jailed,
    startHeight,    \* of the signing info
    unbondingHeight,
    unjails,
    \* the peggy module
    keys,           \* validators with an Ethereum address
    valsets,        \* nonces under ValsetRequestKey
    latest,         \* LatestValsetNonce, 0 if none
    confirms,       \* ValsetConfirmKey: <<nonce, validator>>
    lastJailed,     \* LastJailedValsetNonce
    lastUnbonding,  \* LastUnbondingBlockHeight
    lastObserved,   \* LastObservedValset: its nonce, 0 if nil
    \* the contract
    ethValset,      \* state_lastValsetNonce
    events,         \* ValsetUpdatedEvents not observed yet
    \* history
    members,        \* of every valset that was ever made
    signed,         \* every confirmation ever given
    faults,         \* <<nonce, validator>> that jailing found unconfirmed
    emptied         \* a block ended with no validator for a new set

staking == <<status, power, startHeight, unbondingHeight>>
contract == <<ethValset, events>>
requests == <<valsets, latest, lastJailed, lastObserved, members, faults,
              emptied>>
vars == <<height, phase, staking, jailed, unjails, keys, requests, confirms,
          lastUnbonding, contract, signed>>

Nonces == 1..MaxHeight

Init ==
    /\ height = 1 /\ phase = "txs"
    /\ status \in [Validators -> {"bonded", "unbonded"}]
    /\ \E v \in Validators : status[v] = "bonded"
    /\ power = [v \in Validators |-> IF status[v] = "bonded" THEN Min(Powers) ELSE 0]
    /\ jailed = {} /\ unjails = 0
    /\ startHeight = [v \in Validators |-> 0]
    /\ unbondingHeight = [v \in Validators |-> 0]
    /\ keys = {v \in Validators : status[v] = "bonded"}
    /\ valsets = {} /\ latest = 0 /\ confirms = {}
    /\ lastJailed = 0 /\ lastUnbonding = 0 /\ lastObserved = 0
    /\ ethValset = 0 /\ events = <<>>
    /\ members = [n \in {0} |-> [v \in keys |-> PowerCeiling \div Cardinality(keys)]]
    /\ signed = {} /\ faults = {} /\ emptied = FALSE

-----------------------------------------------------------------------------
(* Messages *)

SetOrchestratorAddresses(v) ==
    /\ phase = "txs"
    /\ v \notin keys
    /\ keys' = keys \cup {v}
    /\ UNCHANGED <<height, phase, staking, jailed, unjails, requests, confirms,
                   lastUnbonding, contract, signed>>

ValsetConfirm(v, n) ==
    /\ phase = "txs"
    /\ n \in valsets
    /\ v \in keys
    /\ status[v] # "unbonded"
    /\ <<n, v>> \notin confirms
    /\ confirms' = confirms \cup {<<n, v>>}
    /\ signed' = signed \cup {<<n, v>>}
    /\ UNCHANGED <<height, phase, staking, jailed, unjails, keys, requests,
                   lastUnbonding, contract>>

(* MsgUnjail; jailing by the peggy module sets no time to wait for. *)
Unjail(v) ==
    /\ phase = "txs"
    /\ v \in jailed
    /\ unjails < MaxUnjails
    /\ unjails' = unjails + 1
    /\ jailed' = jailed \ {v}
    /\ UNCHANGED <<height, phase, staking, keys, requests, confirms,
                   lastUnbonding, contract, signed>>

(* The contract takes a set that enough of its present one have signed;    *)
(* a relayer may have kept the signatures.                                 *)
updateValset(n) ==
    LET signers == {v \in DOMAIN members[ethValset] : <<n, v>> \in signed}
    IN  /\ ethValset < n
        /\ 3 * SumFunctionOnSet(members[ethValset], signers) > 2 * PowerCeiling
        /\ ethValset' = n
        /\ events' = Append(events, n)
        /\ UNCHANGED <<height, phase, staking, jailed, unjails, keys, requests,
                       confirms, lastUnbonding, signed>>

(* Staking's EndBlocker: the validators of B are bonded, with powers p;    *)
(* unbonding ones of M have waited long enough.                            *)
StakingEndBlock(B, p, M) ==
    LET begin == {v \in Validators \ B : status[v] = "bonded"}
    IN  /\ phase = "txs"
        /\ phase' = "staking"
        /\ status' = [v \in Validators |->
                        IF v \in B THEN "bonded"
                        ELSE IF v \in begin THEN "unbonding"
                        ELSE IF v \in M THEN "unbonded" ELSE status[v]]
        /\ power' = [v \in Validators |-> IF v \in B THEN p[v] ELSE 0]
        /\ startHeight' = [v \in Validators |->
                            IF v \in B /\ status[v] # "bonded" THEN height
                            ELSE startHeight[v]]
        /\ unbondingHeight' = [v \in Validators |->
                                IF v \in begin THEN height ELSE unbondingHeight[v]]
        /\ lastUnbonding' = IF begin # {} THEN height ELSE lastUnbonding
        /\ UNCHANGED <<height, jailed, unjails, keys, requests, confirms,
                       contract, signed>>

-----------------------------------------------------------------------------
(* The EndBlocker *)

(* GetBondedValidatorsByPower: a jailed validator is out of the index. *)
Bonded(J) == {v \in Validators : status[v] = "bonded" /\ v \notin J}

(* Powers are normalised over the validators with a key. *)
GetCurrentValset(J) ==
    LET vs == Bonded(J) \cap keys
    IN  [v \in vs |-> (power[v] * PowerCeiling) \div SumFunctionOnSet(power, vs)]

Abs(i) == IF i < 0 THEN -i ELSE i

(* PowerDiff of two sets, times the ceiling. *)
PowerDiff(b, c) ==
    LET Of(m, v) == IF v \in DOMAIN m THEN m[v] ELSE 0
    IN  SumFunction([v \in DOMAIN b \cup DOMAIN c |-> Abs(Of(b, v) - Of(c, v))])

(* DefaultValsetPowerDiffThreshold is 5 %. *)
Drifted(b, c) == 20 * PowerDiff(b, c) >= PowerCeiling

(* GetUnjailedValsets: none is due until the window has passed. *)
Unjailed == {n \in valsets : lastJailed < n /\ n < height - SignedValsetsWindow}

(* Mutant of Offenders: members that joined with the set are not asked. *)
OffendersByStart(n) ==
    {v \in Validators \ jailed :
        /\ <<n, v>> \notin confirms
        /\ startHeight[v] < n
        /\ \/ status[v] = "bonded"
           \/ status[v] = "unbonding"
                /\ n < unbondingHeight[v] + UnbondSlashingValsetsWindow}

(* valsetJailing, for one set: who should have confirmed it and has not. *)
Offenders(n) ==
    {v \in Validators \ jailed :
        /\ <<n, v>> \notin confirms
        /\ \/ /\ status[v] = "bonded"
              /\ startHeight[v] < n \/ v \in DOMAIN members[n]
           \/ /\ status[v] = "unbonding"
              /\ startHeight[v] < n
              /\ n < unbondingHeight[v] + UnbondSlashingValsetsWindow}

(* Mutant of CreatesValset: unbonding does not call for a new set. *)
CreatesOnDrift(current) == latest \notin valsets \/ Drifted(current, members[latest])

(* createValsets *)
CreatesValset(current) ==
    \/ latest \notin valsets
    \/ lastUnbonding = height
    \/ Drifted(current, members[latest])

(* pruneValsets: superseded on Ethereum, and past the window. *)
Prunable(stored, observed) ==
    {n \in stored : n < observed /\ n < height - SignedValsetsWindow}

(* Mutant of PrunableConfirms: those of every earlier block's set. *)
ConfirmsBeforeHeight(asked) == {c \in confirms : c[1] < height}

(* Mutant of PrunableConfirms: those of the set just checked as well. *)
ConfirmsUpToAsked(asked) == {c \in confirms : c[1] <= asked}

(* PruneOldValsetConfirms, after jailing has come to the set asked. *)
PrunableConfirms(asked) == {c \in confirms : c[1] < asked}

(* The records that go now: the first ones, as many as one block cleans. *)
Cleaned(P) ==
    {R \in SUBSET P :
        /\ Cardinality(R) = Min({Cardinality(P), maxRecordsToClean})
        /\ \A c \in R, d \in P \ R : c[1] <= d[1]}

(* Jailing, then k events of the contract, then a new set if it is called  *)
(* for, then the pruning.                                                  *)
EndBlock(k) ==
    LET found == UNION {{<<n, v>> : v \in Offenders(n)} : n \in Unjailed}
        jailedNow == jailed \cup {f[2] : f \in found}
        asked == Max(Unjailed \cup {lastJailed})
        observed == IF k = 0 THEN lastObserved ELSE events[k]
        current == GetCurrentValset(jailedNow)
        creates == CreatesValset(current) /\ DOMAIN current # {}
        stored == IF creates THEN valsets \cup {height} ELSE valsets
    IN  /\ phase = "staking"
        /\ phase' = "commit"
        /\ jailed' = jailedNow /\ lastJailed' = asked
        /\ faults' = faults \cup found
        /\ emptied' = (emptied \/ DOMAIN current = {})
        /\ lastObserved' = observed
        /\ events' = SubSeq(events, k + 1, Len(events))
        /\ latest' = IF creates THEN height ELSE latest
        /\ members' = IF creates THEN [n \in DOMAIN members \cup {height} |->
                                        IF n = height THEN current ELSE members[n]]
                      ELSE members
        /\ valsets' = stored \ Prunable(stored, observed)
        /\ \E R \in Cleaned(PrunableConfirms(asked)) : confirms' = confirms \ R
        /\ UNCHANGED <<height, staking, unjails, keys, lastUnbonding, ethValset,
                       signed>>

NextBlock ==
    /\ phase = "commit"
    /\ height < MaxHeight
    /\ height' = height + 1
    /\ phase' = "txs"
    /\ UNCHANGED <<staking, jailed, unjails, keys, requests, confirms,
                   lastUnbonding, contract, signed>>

Next ==
    \/ \E v \in Validators : SetOrchestratorAddresses(v)
    \/ \E v \in Validators, n \in Nonces : ValsetConfirm(v, n)
    \/ \E v \in Validators : Unjail(v)
    \/ \E n \in DOMAIN members : updateValset(n)
    \/ \E B \in SUBSET (Validators \ jailed) \ {{}} :
            \E p \in [B -> Powers],
               M \in SUBSET {v \in Validators : status[v] = "unbonding"} :
                StakingEndBlock(B, p, M)
    \/ \E k \in 0..Len(events) : EndBlock(k)
    \/ NextBlock

Spec == Init /\ [][Next]_vars

-----------------------------------------------------------------------------
(* Properties *)

TypeOK ==
    /\ height \in Nonces /\ phase \in {"txs", "staking", "commit"}
    /\ status \in [Validators -> {"bonded", "unbonding", "unbonded"}]
    /\ power \in [Validators -> Powers \cup {0}]
    /\ jailed \subseteq Validators /\ keys \subseteq Validators
    /\ valsets \subseteq DOMAIN members \ {0} /\ latest \in DOMAIN members
    /\ confirms \subseteq signed /\ signed \subseteq Nonces \X Validators
    /\ lastJailed \in DOMAIN members /\ lastObserved \in DOMAIN members
    /\ \A n \in DOMAIN members :
        /\ DOMAIN members[n] \subseteq Validators
        /\ LET total == SumFunction(members[n])
           IN  total <= PowerCeiling /\ total + Cardinality(Validators) > PowerCeiling

(* No validator is ever jailed over a set that it has confirmed: no        *)
(* confirmation is pruned before valsetJailing has looked for it.          *)
SignersNotJailed == [][\A f \in faults' \ faults : f \notin signed]_vars

(* The set that is to go to Ethereum next is there, and with it every      *)
(* signature that a relayer needs: the pruning never reaches it.           *)
LatestKept ==
    latest # 0 =>
        /\ latest \in valsets
        /\ \A v \in Validators : <<latest, v>> \in signed => <<latest, v>> \in confirms

(* A relayer finds the latest set and its signatures (LatestKept), whatever *)
(* pruneValsets and PruneOldValsetConfirms have removed.  And the state    *)
(* has its type: the powers of every set add up to the ceiling, less what  *)
(* normalising truncates.                                                  *)
LatestIsRelayable == TypeOK /\ LatestKept

(* After every block the latest set is within 5 % of the bonded            *)
(* validators that are left once jailing is done.  And it holds no         *)
(* validator that has begun to unbond, however small: such a one has to    *)
(* sign a set without itself.  (A block in which every validator is jailed *)
(* makes no set, and the unbonding of that block is not made up for.)      *)
LatestFollowsStaking ==
    phase = "commit" /\ Bonded(jailed) \cap keys # {} =>
        /\ ~Drifted(GetCurrentValset(jailed), members[latest])
        /\ ~emptied => \A v \in DOMAIN members[latest] : status[v] = "bonded"

(* Nobody gets round a set: once the window has passed, a member of it     *)
(* that was bonded all along has signed it or was jailed for not doing so. *)
MembersAnswer ==
    phase = "commit" =>
        \A n \in DOMAIN members \ {0}, v \in Validators :
            /\ n < height - SignedValsetsWindow
            /\ v \in DOMAIN members[n] /\ status[v] = "bonded" /\ startHeight[v] <= n
            => <<n, v>> \in signed \cup faults
=============================================================================
