---------------------------- MODULE PeggyOracle ----------------------------
(***************************************************************************)
(* The oracle of the Peggy bridge: validators vote, with claims, on what   *)
(* happened on Ethereum; the EndBlocker applies an event once the voters   *)
(* hold 66% of the power.                                                  *)
(*                                                                         *)
(* Ethereum is the sequence events: events[n] is the event to which the    *)
(* contract Peggy.sol gave nonce n.  An orchestrator of a correct          *)
(* validator claims events[n]; one in Byzantine claims anything.  Staking  *)
(* is external: at the end of a block it installs any function of          *)
(* PowerMaps as the last validator powers, and a validator is bonded       *)
(* exactly when its power is positive.                                     *)
(***************************************************************************)
EXTENDS Integers, Sequences, FiniteSets, FiniteSetsExt, Functions

CONSTANTS
    Validators,         \* operators with a registered orchestrator
    Byzantine,          \* those whose orchestrator may claim anything
    Payloads,           \* what an event says, its block height apart
    Heights,            \* Ethereum block heights
    PowerMaps,          \* the last-validator-power tables of staking
    MaxFutureClaims,    \* 10 in the code
    MaxEvents,          \* bound: events emitted
    MaxStakingChanges,  \* bound: blocks at which the powers change
    MaxRedeploys        \* bound: moves to another contract

(* A claim as ClaimHash tells claims apart: two claims for one nonce are   *)
(* votes for the same attestation iff they are equal.                      *)
Claims == [what : Payloads, height : Heights]

(* getRequiredPower: 66% of the total, truncated. *)
TotalPower(pw) == SumFunctionOnSet(pw, Validators)
RequiredPower(pw) == (TotalPower(pw) * 66) \div 100

(* The sum TryAttestation accumulates over att.Votes: a validator that     *)
(* were listed twice would be counted twice.                               *)
VotePower(votes, pw) == MapThenSumSet(LAMBDA i : pw[votes[i]], 1..Len(votes))

(* TryAttestation compares the running sum after each vote, so a list with *)
(* no votes never passes, and any other passes iff its whole sum does.     *)
Passes(votes, pw) == /\ votes # <<>>
                     /\ VotePower(votes, pw) >= RequiredPower(pw)

(* Lists of distinct voters drawn from S. *)
VoteLists(S) == UNION {Injection(1..n, S) : n \in 0..Cardinality(S)}

ASSUME OracleAssumption ==
    /\ IsFiniteSet(Validators)
    /\ Byzantine \subseteq Validators
    /\ Heights \subseteq Nat \ {0}
    /\ PowerMaps \subseteq [Validators -> Nat]
    /\ MaxFutureClaims \in Nat
    /\ MaxEvents \in Nat
    /\ MaxStakingChanges \in Nat
    /\ MaxRedeploys \in Nat

(* The fault assumption: the Byzantine validators alone never hold the     *)
(* required power.                                                         *)
ASSUME ByzantineBelowQuorum ==
    \A pw \in PowerMaps : \A vs \in VoteLists(Byzantine) : ~ Passes(vs, pw)

VARIABLES
    events,         \* Ethereum: the events of the bridge contract
    power,          \* staking: last validator powers
    lastEvent,      \* LastEventByValidator
    atts,           \* attestations in the store, by nonce and claim
    lastObserved,   \* LastObservedEventNonce
    lastHeight,     \* LastObservedEthereumBlockHeight.EthereumBlockHeight
    applied,        \* history: the claims given to the attestation handler
    stakingChanges, \* number of power changes so far
    redeploys       \* number of contract moves so far

chain == <<lastEvent, atts, lastObserved, lastHeight, applied>>
vars == <<events, power, lastEvent, atts, lastObserved, lastHeight, applied,
          stakingChanges, redeploys>>

NoClaimYet == [nonce |-> 0, height |-> 0]

NoAttestation == [votes |-> <<>>, observed |-> FALSE]
Attestations == [votes : Seq(Validators), observed : BOOLEAN]

Bonded(v) == power[v] > 0

(* The powers of the genesis validator set; no event is known. *)
Init ==
    /\ events = <<>>
    /\ power \in PowerMaps
    /\ lastEvent = [v \in Validators |-> NoClaimYet]
    /\ atts = [k \in {} |-> NoAttestation]
    /\ lastObserved = 0
    /\ lastHeight = 0
    /\ applied = <<>>
    /\ stakingChanges = 0
    /\ redeploys = 0

-----------------------------------------------------------------------------
(* Ethereum *)

(* Peggy.sol emits an event: sendToInjective, submitBatch, updateValset.   *)
EmitEvent(c) ==
    /\ Len(events) < MaxEvents
    /\ events' = Append(events, c)
    /\ UNCHANGED <<power, chain, stakingChanges, redeploys>>

-----------------------------------------------------------------------------
(* Transactions: DepositClaim, WithdrawClaim, ERC20DeployedClaim and       *)
(* ValsetUpdateClaim check that the validator is bonded and call Attest.   *)

(* The attestation store after validator v voted for the claim of key.     *)
WithVote(key, v) ==
    [k \in DOMAIN atts \cup {key} |->
        IF k # key THEN atts[k]
        ELSE LET att == IF key \in DOMAIN atts THEN atts[key] ELSE NoAttestation
             IN  [att EXCEPT !.votes = Append(@, v)]]

(* Mutant of Attest: the validator's last event is not recorded. *)
AttestUnrecorded(v, c) ==
    LET key == [nonce |-> lastEvent[v].nonce + 1, claim |-> c]
    IN  /\ Bonded(v)
        /\ key.nonce <= lastObserved + MaxFutureClaims
        /\ Len(WithVote(key, v)[key].votes) <= Cardinality(Validators)
        /\ atts' = WithVote(key, v)
        /\ UNCHANGED <<events, power, lastEvent, lastObserved, lastHeight,
                       applied, stakingChanges, redeploys>>

(* Attest: the nonce must follow the last one v claimed, and must not run  *)
(* too far ahead of the last observed one.                                 *)
Attest(v, c) ==
    LET key == [nonce |-> lastEvent[v].nonce + 1, claim |-> c]
    IN  /\ Bonded(v)
        /\ key.nonce <= lastObserved + MaxFutureClaims
        /\ atts' = WithVote(key, v)
        /\ lastEvent' = [lastEvent EXCEPT ![v] =
                            [nonce |-> key.nonce, height |-> c.height]]
        /\ UNCHANGED <<events, power, lastObserved, lastHeight, applied,
                       stakingChanges, redeploys>>

(* A correct orchestrator claims the event of the nonce that is next for   *)
(* its validator, once Ethereum has it.                                    *)
HonestClaim(v) ==
    /\ v \notin Byzantine
    /\ lastEvent[v].nonce < Len(events)
    /\ Attest(v, events[lastEvent[v].nonce + 1])

ByzantineClaim(v, c) ==
    /\ v \in Byzantine
    /\ Attest(v, c)

-----------------------------------------------------------------------------
(* End of block: staking's EndBlocker, then peggy's. *)

(* Hooks.AfterValidatorBonded: a validator that joins for the first time   *)
(* starts at the last observed event.                                      *)
AfterBonded(pw) ==
    [v \in Validators |->
        IF /\ ~ Bonded(v) /\ pw[v] > 0
           /\ lastEvent[v] = NoClaimYet
           /\ lastObserved # 0
        THEN [nonce |-> lastObserved, height |-> lastHeight]
        ELSE lastEvent[v]]

(* Claim c has the required power at nonce n. *)
Tallies(n, c, pw) ==
    LET key == [nonce |-> n, claim |-> c]
    IN  key \in DOMAIN atts /\ Passes(atts[key].votes, pw)

(* attestationTally walks the nonces upwards and stops at the first one    *)
(* where no attestation passes.  Which of several passing attestations of  *)
(* one nonce is met first depends on the order of claim hashes.            *)
TallyResults(pw) ==
    {log \in UNION {[1..m -> {k.claim : k \in DOMAIN atts}] :
                        m \in 0..MaxFutureClaims} :
        /\ \A i \in DOMAIN log : Tallies(lastObserved + i, log[i], pw)
        /\ \A c \in Claims : ~ Tallies(lastObserved + Len(log) + 1, c, pw)}

(* setLastObservedEventNonce, once for every attestation that passed. *)
NewLastObserved(log) == lastObserved + Len(log)

(* Mutant of MarkAndPrune: attestations still being voted on are deleted. *)
PruneAll(log) ==
    [k \in {k \in DOMAIN atts : k.nonce = lastObserved + Len(log)} |-> atts[k]]

(* TryAttestation marks the attestations of log; pruneAttestations keeps   *)
(* those from the last observed nonce on.                                  *)
MarkAndPrune(log) ==
    [k \in {k \in DOMAIN atts : k.nonce >= lastObserved + Len(log)} |->
        IF k.nonce > lastObserved /\ k.nonce <= lastObserved + Len(log)
              /\ k.claim = log[k.nonce - lastObserved]
        THEN [atts[k] EXCEPT !.observed = TRUE]
        ELSE atts[k]]

EndBlock(pw) ==
    \E log \in TallyResults(pw) :
        /\ pw # power => stakingChanges < MaxStakingChanges
        /\ stakingChanges' = IF pw # power THEN stakingChanges + 1
                                           ELSE stakingChanges
        /\ power' = pw
        /\ lastEvent' = AfterBonded(pw)
        /\ lastObserved' = NewLastObserved(log)
        /\ lastHeight' = IF log = <<>> THEN lastHeight
                                       ELSE log[Len(log)].height
        /\ applied' = applied \o log
        /\ atts' = MarkAndPrune(log)
        /\ UNCHANGED <<events, redeploys>>

-----------------------------------------------------------------------------
(* Mutant of ResetPeggyModuleState: the attestations stay. *)
ResetKeepingAttestations(startHeight) ==
    /\ redeploys < MaxRedeploys
    /\ redeploys' = redeploys + 1
    /\ events' = SubSeq(events, 1, lastObserved)
    /\ lastEvent' = [v \in Validators |->
                        IF Bonded(v)
                        THEN [nonce |-> lastObserved, height |-> startHeight]
                        ELSE NoClaimYet]
    /\ UNCHANGED <<power, atts, lastObserved, lastHeight, applied,
                   stakingChanges>>

(* UpdateParams with a new bridge contract calls ResetPeggyModuleState: no *)
(* attestation survives, bonded validators continue after the last         *)
(* observed event and the others as newcomers.  The new contract starts    *)
(* with the last observed nonce, as the code expects of it.                *)
ResetPeggyModuleState(startHeight) ==
    /\ redeploys < MaxRedeploys
    /\ redeploys' = redeploys + 1
    /\ events' = SubSeq(events, 1, lastObserved)
    /\ lastEvent' = [v \in Validators |->
                        IF Bonded(v)
                        THEN [nonce |-> lastObserved, height |-> startHeight]
                        ELSE NoClaimYet]
    /\ atts' = [k \in {} |-> NoAttestation]
    /\ UNCHANGED <<power, lastObserved, lastHeight, applied, stakingChanges>>

-----------------------------------------------------------------------------
Next ==
    \/ \E c \in Claims : EmitEvent(c)
    \/ \E v \in Validators : HonestClaim(v)
    \/ \E v \in Validators, c \in Claims : ByzantineClaim(v, c)
    \/ \E pw \in PowerMaps : EndBlock(pw)
    \/ \E h \in Heights : ResetPeggyModuleState(h)

Spec == Init /\ [][Next]_vars

(* Blocks keep being produced, and every orchestrator of a correct bonded  *)
(* validator keeps running its loop.                                       *)
FairSpec ==
    /\ Spec
    /\ WF_vars(\E pw \in PowerMaps : EndBlock(pw))
    /\ \A v \in Validators : WF_vars(HonestClaim(v))

-----------------------------------------------------------------------------
(* Properties *)

Nonces == 1..(MaxEvents + MaxFutureClaims)

(* Type invariant.  That claimed nonces stay within MaxFutureClaims of the *)
(* observed ones is what bounds the attestation store and the work of the  *)
(* EndBlocker (attestation.go, "we put a hard cap").                       *)
TypeOK ==
    /\ events \in Seq(Claims) /\ Len(events) <= MaxEvents
    /\ power \in PowerMaps
    /\ lastEvent \in [Validators -> [nonce : {0} \cup Nonces, height : Nat]]
    /\ DOMAIN atts \subseteq [nonce : Nonces, claim : Claims]
    /\ atts \in [DOMAIN atts -> Attestations]
    /\ lastObserved \in 0..MaxEvents
    /\ lastHeight \in Nat
    /\ applied \in Seq(Claims)
    /\ stakingChanges \in 0..MaxStakingChanges
    /\ redeploys \in 0..MaxRedeploys

(* A validator's power is counted at most once at a nonce: it has at most  *)
(* one vote among all the attestations, agreeing or conflicting, stored    *)
(* for that nonce, whatever it claims and however it leaves and rejoins    *)
(* the bonded set or the module is reset.  (Attest's check of the last     *)
(* event "prevents validators from submitting two claims with the same     *)
(* nonce".)                                                                *)
OneVotePerNonce ==
    \A k1, k2 \in DOMAIN atts :
        \A i \in DOMAIN atts[k1].votes, j \in DOMAIN atts[k2].votes :
            /\ k1.nonce = k2.nonce
            /\ atts[k1].votes[i] = atts[k2].votes[j]
            => k1 = k2 /\ i = j

(* What TryAttestation handed to the attestation handler is exactly what   *)
(* Ethereum did: the n-th claim applied is the event with nonce n, no      *)
(* event is skipped, repeated or invented, and the stored last observed    *)
(* nonce says how many were applied.                                       *)
AppliedMatchesEthereum ==
    /\ lastObserved = Len(applied)
    /\ lastObserved <= Len(events)
    /\ \A n \in 1..lastObserved : applied[n] = events[n]

(* TryAttestation never meets an attestation that is already observed,     *)
(* which would panic in the EndBlocker and stop the chain.                 *)
NoObservedPanic ==
    \A k \in DOMAIN atts : atts[k].observed => k.nonce <= lastObserved

(* Every event of the contract is applied in the end, unless governance    *)
(* abandons the contract before.                                           *)
EventuallyApplied ==
    \A n \in 1..MaxEvents :
        Len(events) >= n ~> (lastObserved >= n \/ Len(events) < n)

(* The oracle implements ordered, exactly-once delivery of the contract's  *)
(* events (module EventDelivery).                                          *)
Delivery == INSTANCE EventDelivery
    WITH Claims <- Claims, events <- events, applied <- applied
DeliversEvents == Delivery!Spec
=============================================================================
