-------------------------- MODULE PeggyVotesProofs --------------------------
(***************************************************************************)
(* Proofs about what the validators say to the Peggy module.               *)
(*                                                                         *)
(* PeggyOracle, their claims: for any set of validators, any power tables  *)
(* in which the Byzantine validators stay below the required power, and    *)
(* any number of events, the chain applies what Ethereum did, in order.    *)
(*                                                                         *)
(* PeggyBatchConfirms, their signatures on batches: for any validators,    *)
(* windows and bounds, the block index shows only batches of the store,    *)
(* whose signatures are kept, and no signer of a batch, nor one bonded     *)
(* after it was built, is jailed over it.                                  *)
(***************************************************************************)
EXTENDS PeggyOracle, PeggyBatchConfirms, FiniteSetTheorems, TLAPS

(* A vote lies behind its voter's last event: the next claim of the        *)
(* validator is for a nonce it has no vote at.                             *)
VotesBehindLastEvent ==
    \A k \in DOMAIN atts : \A i \in DOMAIN atts[k].votes :
        k.nonce <= lastEvent[atts[k].votes[i]].nonce

(* The votes of correct validators are for what Ethereum did. *)
HonestVotesTrue ==
    \A k \in DOMAIN atts : \A i \in DOMAIN atts[k].votes :
        atts[k].votes[i] \notin Byzantine =>
            k.nonce <= Len(events) /\ k.claim = events[k.nonce]

(* The inductive invariant. *)
OracleInv ==
    /\ TypeOK
    /\ VotesBehindLastEvent
    /\ OneVotePerNonce
    /\ HonestVotesTrue
    /\ AppliedMatchesEthereum
    /\ NoObservedPanic

-----------------------------------------------------------------------------
(* Lists with the same elements are the same. *)
LEMMA SameList ==
    ASSUME NEW S, NEW s \in Seq(S), NEW t \in Seq(S), Len(s) = Len(t),
           \A i \in 1..Len(s) : s[i] = t[i]
    PROVE  s = t
OBVIOUS

(* A list of distinct voters that passes the tally has a correct voter: a  *)
(* list of Byzantine ones is among those the fault assumption excludes.    *)
LEMMA HonestVoter ==
    ASSUME NEW pw \in PowerMaps, NEW votes \in Seq(Validators),
           \A i, j \in DOMAIN votes : votes[i] = votes[j] => i = j,
           Passes(votes, pw)
    PROVE  \E i \in DOMAIN votes : votes[i] \notin Byzantine
<1> SUFFICES ASSUME \A i \in DOMAIN votes : votes[i] \in Byzantine
             PROVE  FALSE
    OBVIOUS
<1> DEFINE n == Len(votes)
<1>1. n \in Nat /\ DOMAIN votes = 1..n
    OBVIOUS
<1>2. votes \in Injection(1..n, Byzantine)
    BY <1>1 DEF Injection, IsInjective
<1>3. IsFiniteSet(Byzantine) /\ Cardinality(Byzantine) \in Nat
    BY OracleAssumption, FS_Subset, FS_CardinalityType, Zenon
<1>4. Cardinality(1..n) <= Cardinality(Byzantine)
    BY <1>2, <1>3, FS_Injection, Zenon
<1>5. Cardinality(1..n) = n
    <2>1. 1 \in Int /\ n \in Int
        BY <1>1
    <2>2. Cardinality(1..n) = IF 1 > n THEN 0 ELSE n - 1 + 1
        BY ONLY <2>1, FS_Interval, Zenon
    <2> QED
        BY <1>1, <2>2
<1>6. n \in 0..Cardinality(Byzantine)
    BY <1>1, <1>3, <1>4, <1>5
<1>7. votes \in VoteLists(Byzantine)
    BY <1>2, <1>6, Zenon DEF VoteLists
<1> QED
    BY <1>7, ByzantineBelowQuorum, Zenon

(* What a tally adds to the applied claims is what Ethereum did next. *)
LEMMA TallyIsTrue ==
    ASSUME OracleInv, NEW pw \in PowerMaps, NEW log \in TallyResults(pw)
    PROVE  /\ log \in Seq(Claims)
           /\ lastObserved + Len(log) <= Len(events)
           /\ \A i \in 1..Len(log) : log[i] = events[lastObserved + i]
<1>1. PICK m \in 0..MaxFutureClaims : log \in [1..m -> {k.claim : k \in DOMAIN atts}]
    BY DEF TallyResults
<1>2. {k.claim : k \in DOMAIN atts} \subseteq Claims
    BY Zenon DEF OracleInv, TypeOK
<1>3. m \in Nat /\ log \in Seq(Claims) /\ Len(log) = m /\ DOMAIN log = 1..m
    BY <1>1, <1>2, OracleAssumption
<1>4. ASSUME NEW i \in 1..m
      PROVE  lastObserved + i <= Len(events) /\ log[i] = events[lastObserved + i]
    <2> DEFINE key == [nonce |-> lastObserved + i, claim |-> log[i]]
    <2>1. key \in DOMAIN atts /\ Passes(atts[key].votes, pw)
        BY <1>3, Zenon DEF TallyResults, Tallies
    <2>2. atts[key].votes \in Seq(Validators)
        BY <2>1, Zenon DEF OracleInv, TypeOK, Attestations
    <2>3. \A a, b \in DOMAIN atts[key].votes :
                atts[key].votes[a] = atts[key].votes[b] => a = b
        BY <2>1 DEF OracleInv, OneVotePerNonce
    <2>4. PICK a \in DOMAIN atts[key].votes : atts[key].votes[a] \notin Byzantine
        BY <2>1, <2>2, <2>3, HonestVoter, Zenon
    <2> QED
        BY <2>1, <2>4, Zenon DEF OracleInv, HonestVotesTrue
<1>5. lastObserved + m <= Len(events)
    <2>1. CASE m = 0
        BY <2>1 DEF OracleInv, TypeOK, AppliedMatchesEthereum
    <2>2. CASE m > 0
        BY <1>4, <2>2, <1>3
    <2> QED
        BY <1>3, <2>1, <2>2
<1> QED
    BY <1>3, <1>4, <1>5, Zenon

-----------------------------------------------------------------------------
(* At genesis nobody has voted. *)
LEMMA InitOracleInv == Init => OracleInv
BY OracleAssumption
   DEF Init, OracleInv, TypeOK, VotesBehindLastEvent, OneVotePerNonce,
       HonestVotesTrue, AppliedMatchesEthereum, NoObservedPanic, NoClaimYet,
       Nonces, Attestations

(* The contract's events only grow at their end. *)
LEMMA EmitEventInv ==
    ASSUME OracleInv, NEW c \in Claims, EmitEvent(c)
    PROVE  OracleInv'
<1> USE DEF OracleInv, EmitEvent, chain
<1>1. /\ events' \in Seq(Claims) /\ Len(events') = Len(events) + 1
      /\ \A n \in 1..Len(events) : events'[n] = events[n]
    BY DEF TypeOK
<1>2. TypeOK'
    BY <1>1, OracleAssumption DEF TypeOK
<1>3. VotesBehindLastEvent' /\ OneVotePerNonce' /\ NoObservedPanic'
    BY DEF VotesBehindLastEvent, OneVotePerNonce, NoObservedPanic
<1>4. HonestVotesTrue'
    <2> SUFFICES ASSUME NEW k \in DOMAIN atts, NEW i \in DOMAIN atts[k].votes,
                        atts[k].votes[i] \notin Byzantine
                 PROVE  k.nonce <= Len(events') /\ k.claim = events'[k.nonce]
        BY Zenon DEF HonestVotesTrue
    <2>1. k.nonce \in 1..Len(events) /\ k.claim = events[k.nonce]
        BY DEF HonestVotesTrue, TypeOK, Nonces
    <2> QED
        BY <1>1, <2>1 DEF TypeOK
<1>5. AppliedMatchesEthereum'
    BY <1>1 DEF AppliedMatchesEthereum, TypeOK
<1> QED
    BY <1>2, <1>3, <1>4, <1>5, Zenon

(* A claim: the voter gains one vote, at a nonce it has none at. *)
LEMMA AttestInv ==
    ASSUME OracleInv, NEW v \in Validators, NEW c \in Claims, Attest(v, c),
           v \notin Byzantine =>
                /\ lastEvent[v].nonce < Len(events)
                /\ c = events[lastEvent[v].nonce + 1]
    PROVE  OracleInv'
<1> DEFINE key == [nonce |-> lastEvent[v].nonce + 1, claim |-> c]
           old == IF key \in DOMAIN atts THEN atts[key].votes ELSE <<>>
<1> USE DEF OracleInv
<1>1. /\ key \in [nonce : Nonces, claim : Claims]
      /\ key.nonce = lastEvent[v].nonce + 1 /\ key.claim = c
      /\ lastEvent[v].nonce \in Nat
    <2>1. lastEvent[v].nonce \in Nat /\ lastObserved \in 0..MaxEvents
        BY DEF TypeOK, Nonces
    <2>2. lastEvent[v].nonce + 1 <= lastObserved + MaxFutureClaims
        BY Zenon DEF Attest
    <2>3. lastEvent[v].nonce + 1 \in Nonces
        BY <2>1, <2>2, OracleAssumption DEF Nonces
    <2> QED
        BY <2>1, <2>3, Zenon
<1>2. old \in Seq(Validators)
    <2>1. CASE key \in DOMAIN atts
        <3>1. atts[key] \in Attestations
            BY <2>1, Zenon DEF TypeOK
        <3> QED
            BY <2>1, <3>1, Zenon DEF Attestations
    <2>2. CASE key \notin DOMAIN atts
        BY <2>2, SMTT(30)
    <2> QED
        BY <2>1, <2>2
<1>3. /\ DOMAIN atts' = DOMAIN atts \cup {key}
      /\ \A k \in DOMAIN atts : k # key => atts'[k] = atts[k]
      /\ atts'[key].votes = Append(old, v)
      /\ atts'[key] \in Attestations
      /\ atts'[key].observed => key \in DOMAIN atts /\ atts[key].observed
    <2>1. atts' = WithVote(key, v)
        BY Zenon DEF Attest
    <2>2. CASE key \in DOMAIN atts
        <3>1. atts'[key] = [atts[key] EXCEPT !.votes = Append(@, v)]
            BY <2>1, <2>2 DEF WithVote
        <3>2. \A k \in DOMAIN atts : k # key => atts'[k] = atts[k]
            BY <2>1 DEF WithVote
        <3>3. DOMAIN atts' = DOMAIN atts \cup {key}
            BY <2>1 DEF WithVote
        <3>4. atts[key] \in Attestations /\ old = atts[key].votes
            BY <2>2 DEF TypeOK
        <3>5. Append(old, v) \in Seq(Validators)
            BY <1>2
        <3> QED
            BY <2>2, <3>1, <3>2, <3>3, <3>4, <3>5, ZenonT(30) DEF Attestations
    <2>3. CASE key \notin DOMAIN atts
        <3>1. atts'[key] = [votes |-> Append(<<>>, v), observed |-> FALSE]
            BY <2>1, <2>3, Zenon DEF WithVote, NoAttestation
        <3>2. \A k \in DOMAIN atts : k # key => atts'[k] = atts[k]
            BY <2>1 DEF WithVote
        <3>3. DOMAIN atts' = DOMAIN atts \cup {key}
            BY <2>1 DEF WithVote
        <3>4. Append(<<>>, v) \in Seq(Validators)
            OBVIOUS
        <3> QED
            BY <2>3, <3>1, <3>2, <3>3, <3>4 DEF Attestations
    <2> QED
        BY <2>2, <2>3, Zenon
<1>4. /\ DOMAIN lastEvent' = Validators
      /\ lastEvent'[v].nonce = key.nonce
      /\ \A w \in Validators : w # v => lastEvent'[w] = lastEvent[w]
      /\ \A w \in Validators : lastEvent[w].nonce \in Nat /\ lastEvent'[w].nonce \in Nat
    BY <1>1, SMTT(30) DEF Attest, TypeOK, Nonces
<1>5. ASSUME NEW k \in DOMAIN atts', NEW i \in DOMAIN atts'[k].votes
      PROVE  /\ k \in [nonce : Nonces, claim : Claims]
             /\ \/ /\ k \in DOMAIN atts /\ i \in DOMAIN atts[k].votes
                   /\ atts'[k].votes[i] = atts[k].votes[i]
                   /\ atts[k].votes[i] \in Validators
                \/ k = key /\ i = Len(old) + 1 /\ atts'[k].votes[i] = v
    <2>1. k \in [nonce : Nonces, claim : Claims]
        BY <1>1, <1>3, Zenon DEF TypeOK
    <2>2. CASE k # key
        <3>1. k \in DOMAIN atts /\ atts'[k] = atts[k]
            BY <1>3, <2>2, Zenon
        <3>2. atts[k].votes \in Seq(Validators)
            BY <3>1, Zenon DEF TypeOK, Attestations
        <3> QED
            BY <2>1, <3>1, <3>2
    <2>3. CASE k = key
        <3>1. i \in 1..(Len(old) + 1)
            BY <1>2, <1>3, <2>3, SMTT(30)
        <3>2. CASE i = Len(old) + 1
            <4>1. Append(old, v)[Len(old) + 1] = v
                BY <1>2
            <4> QED
                BY <1>3, <2>1, <2>3, <3>2, <4>1, Zenon
        <3>3. CASE i \in 1..Len(old)
            <4>1. atts'[k].votes[i] = old[i] /\ old[i] \in Validators
                BY <1>2, <1>3, <2>3, <3>3
            <4>2. key \in DOMAIN atts /\ old = atts[key].votes
                BY <3>3, SMTT(30)
            <4> QED
                BY <1>2, <2>1, <2>3, <3>3, <4>1, <4>2, SMTT(30)
        <3> QED
            BY <1>2, <3>1, <3>2, <3>3
    <2> QED
        BY <2>2, <2>3
<1>6. TypeOK'
    <2>1. lastEvent' \in [Validators -> [nonce : {0} \cup Nonces, height : Nat]]
        BY <1>1, OracleAssumption, Zenon DEF Attest, TypeOK, Claims
    <2>2. atts' \in [DOMAIN atts' -> Attestations]
        <3>1. atts' = [k \in DOMAIN atts' |-> atts'[k]]
            BY Zenon DEF Attest, WithVote
        <3>2. \A k \in DOMAIN atts' : atts'[k] \in Attestations
            BY <1>3, Zenon DEF TypeOK
        <3> QED BY <3>1, <3>2
    <2> QED
        BY <1>1, <1>3, <2>1, <2>2, Zenon DEF TypeOK, Attest
<1>7. VotesBehindLastEvent'
    <2> SUFFICES ASSUME NEW k \in DOMAIN atts', NEW i \in DOMAIN atts'[k].votes
                 PROVE  k.nonce <= lastEvent'[atts'[k].votes[i]].nonce
        BY DEF VotesBehindLastEvent
    <2> QED
        BY <1>1, <1>4, <1>5 DEF VotesBehindLastEvent, Nonces
<1>8. OneVotePerNonce'
    <2> SUFFICES ASSUME NEW k1 \in DOMAIN atts', NEW k2 \in DOMAIN atts',
                        NEW i \in DOMAIN atts'[k1].votes,
                        NEW j \in DOMAIN atts'[k2].votes,
                        k1.nonce = k2.nonce,
                        atts'[k1].votes[i] = atts'[k2].votes[j]
                 PROVE  k1 = k2 /\ i = j
        BY DEF OneVotePerNonce
    <2>1. ASSUME NEW k \in DOMAIN atts, NEW a \in DOMAIN atts[k].votes,
                 atts[k].votes[a] = v
          PROVE  k.nonce # key.nonce
        BY <1>1, <2>1 DEF VotesBehindLastEvent, TypeOK, Nonces
    <2> QED
        BY <1>5, <2>1 DEF OneVotePerNonce
<1>9. HonestVotesTrue'
    <2> SUFFICES ASSUME NEW k \in DOMAIN atts', NEW i \in DOMAIN atts'[k].votes,
                        atts'[k].votes[i] \notin Byzantine
                 PROVE  k.nonce <= Len(events) /\ k.claim = events[k.nonce]
        BY Zenon DEF HonestVotesTrue, Attest
    <2> QED
        <3>1. CASE /\ k \in DOMAIN atts /\ i \in DOMAIN atts[k].votes
                   /\ atts'[k].votes[i] = atts[k].votes[i]
            BY <3>1, Zenon DEF HonestVotesTrue
        <3>2. CASE k = key /\ atts'[k].votes[i] = v
            <4>1. k.nonce = lastEvent[v].nonce + 1 /\ k.claim = c
                BY <1>1, <3>2, Zenon
            <4>2. Len(events) \in Nat
                BY DEF TypeOK
            <4> QED
                BY <1>1, <3>2, <4>1, <4>2
        <3> QED
            BY <1>5, <3>1, <3>2, Zenon
<1>10. AppliedMatchesEthereum'
    BY ZenonT(30) DEF AppliedMatchesEthereum, Attest
<1>11. NoObservedPanic'
    BY <1>3, Zenon DEF NoObservedPanic, Attest
<1> QED
    BY <1>6, <1>7, <1>8, <1>9, <1>10, <1>11, Zenon

(* The end of a block: what passes the tally is what Ethereum did next. *)
LEMMA EndBlockInv ==
    ASSUME OracleInv, NEW pw \in PowerMaps, EndBlock(pw)
    PROVE  OracleInv'
<1>1. PICK log \in TallyResults(pw) :
        /\ stakingChanges' = IF pw # power THEN stakingChanges + 1
                                           ELSE stakingChanges
        /\ pw # power => stakingChanges < MaxStakingChanges
        /\ power' = pw
        /\ lastEvent' = AfterBonded(pw)
        /\ lastObserved' = lastObserved + Len(log)
        /\ lastHeight' = IF log = <<>> THEN lastHeight
                                       ELSE log[Len(log)].height
        /\ applied' = applied \o log
        /\ atts' = MarkAndPrune(log)
        /\ UNCHANGED <<events, redeploys>>
    BY Zenon DEF EndBlock, NewLastObserved
<1>2. /\ log \in Seq(Claims)
      /\ lastObserved + Len(log) <= Len(events)
      /\ \A i \in 1..Len(log) : log[i] = events[lastObserved + i]
    BY TallyIsTrue, Zenon
<1> USE DEF OracleInv
<1>3. /\ Len(log) \in Nat /\ lastObserved \in Nat
      /\ lastObserved' \in 0..MaxEvents /\ lastObserved' >= lastObserved
    BY <1>1, <1>2, OracleAssumption, SMTT(30) DEF TypeOK
<1>4. \A k \in DOMAIN atts' :
        /\ k \in DOMAIN atts
        /\ atts'[k].votes = atts[k].votes
        /\ atts'[k] \in Attestations
        /\ atts'[k].observed => k.nonce <= lastObserved'
    <2> SUFFICES ASSUME NEW k \in DOMAIN atts'
                 PROVE  /\ k \in DOMAIN atts
                        /\ atts'[k].votes = atts[k].votes
                        /\ atts'[k] \in Attestations
                        /\ atts'[k].observed => k.nonce <= lastObserved'
        BY Zenon
    <2>1. k \in DOMAIN atts
        BY <1>1, Zenon DEF MarkAndPrune
    <2>2. atts[k] \in Attestations /\ k.nonce \in Nat
        BY <2>1 DEF TypeOK, Nonces
    <2>3. \/ atts'[k] = atts[k]
          \/ /\ atts'[k] = [atts[k] EXCEPT !.observed = TRUE]
             /\ k.nonce <= lastObserved'
        BY <1>1, Zenon DEF MarkAndPrune
    <2> QED
        <3>1. CASE atts'[k] = atts[k]
            <4>1. atts[k].observed => k.nonce <= lastObserved
                BY <2>1, Zenon DEF NoObservedPanic
            <4> QED
                BY <1>3, <2>1, <2>2, <3>1, <4>1
        <3>2. CASE /\ atts'[k] = [atts[k] EXCEPT !.observed = TRUE]
                   /\ k.nonce <= lastObserved'
            BY <2>1, <2>2, <3>2, Zenon DEF Attestations
        <3> QED
            BY <2>3, <3>1, <3>2
<1>5. /\ lastEvent' \in [Validators -> [nonce : {0} \cup Nonces, height : Nat]]
      /\ \A v \in Validators : lastEvent'[v].nonce >= lastEvent[v].nonce
    <2> SUFFICES ASSUME NEW v \in Validators
                 PROVE  /\ lastEvent'[v] \in [nonce : {0} \cup Nonces, height : Nat]
                        /\ lastEvent'[v].nonce >= lastEvent[v].nonce
        BY <1>1, Zenon DEF AfterBonded
    <2>1. lastEvent[v] \in [nonce : {0} \cup Nonces, height : Nat]
        BY Zenon DEF TypeOK
    <2>2. \/ lastEvent'[v] = lastEvent[v]
          \/ /\ lastEvent[v] = NoClaimYet
             /\ lastEvent'[v] = [nonce |-> lastObserved, height |-> lastHeight]
        BY <1>1, Zenon DEF AfterBonded
    <2>3. lastObserved \in {0} \cup Nonces /\ lastHeight \in Nat
        <3>1. lastObserved \in 0..MaxEvents /\ lastHeight \in Nat
            BY Zenon DEF TypeOK
        <3> QED
            BY <3>1, OracleAssumption DEF Nonces
    <2> QED
        BY <1>3, <2>1, <2>2, <2>3 DEF NoClaimYet, Nonces
<1>6. TypeOK'
    <2>1. atts' \in [DOMAIN atts' -> Attestations]
        <3>1. atts' = [k \in DOMAIN atts' |-> atts'[k]]
            BY <1>1 DEF MarkAndPrune
        <3> QED
            BY <1>4, <3>1
    <2>2. DOMAIN atts' \subseteq [nonce : Nonces, claim : Claims]
        BY <1>4, Zenon DEF TypeOK
    <2>3. lastHeight' \in Nat
        <3>1. CASE log = <<>>
            BY <1>1, <3>1 DEF TypeOK
        <3>2. CASE log # <<>>
            <4>1. log[Len(log)] \in Claims
                BY <1>2, <3>2
            <4> QED
                BY <1>1, <3>2, <4>1, OracleAssumption, Zenon DEF Claims
        <3> QED
            BY <3>1, <3>2, Zenon
    <2>4. applied' \in Seq(Claims)
        BY <1>1, <1>2 DEF TypeOK
    <2>5. stakingChanges' \in 0..MaxStakingChanges
        <3>1. stakingChanges \in 0..MaxStakingChanges
            BY Zenon DEF TypeOK
        <3> QED
            BY <1>1, <3>1, OracleAssumption
    <2>6. /\ events' \in Seq(Claims) /\ Len(events') <= MaxEvents
          /\ power' \in PowerMaps /\ redeploys' \in 0..MaxRedeploys
        BY <1>1, Zenon DEF TypeOK
    <2> QED
        BY <1>3, <1>5, <2>1, <2>2, <2>3, <2>4, <2>5, <2>6, Zenon DEF TypeOK
<1>7. VotesBehindLastEvent'
    <2> SUFFICES ASSUME NEW k \in DOMAIN atts', NEW i \in DOMAIN atts'[k].votes
                 PROVE  k.nonce <= lastEvent'[atts'[k].votes[i]].nonce
        BY Zenon DEF VotesBehindLastEvent
    <2>1. /\ k \in DOMAIN atts /\ i \in DOMAIN atts[k].votes
          /\ atts'[k].votes = atts[k].votes
        BY <1>4, Zenon
    <2>2. atts[k].votes[i] \in Validators /\ k.nonce \in Nat
        BY <2>1 DEF TypeOK, Attestations, Nonces
    <2>3. k.nonce <= lastEvent[atts[k].votes[i]].nonce
        BY <2>1 DEF VotesBehindLastEvent
    <2>4. \A v \in Validators : lastEvent[v].nonce \in Nat /\ lastEvent'[v].nonce \in Nat
        <3>1. lastEvent \in [Validators -> [nonce : {0} \cup Nonces, height : Nat]]
            BY DEF TypeOK
        <3> QED
            BY <1>5, <3>1 DEF Nonces
    <2> QED
        BY <1>5, <2>1, <2>2, <2>3, <2>4
<1>8. OneVotePerNonce' /\ HonestVotesTrue' /\ NoObservedPanic'
    <2>1. OneVotePerNonce'
        BY <1>4 DEF OneVotePerNonce
    <2>2. HonestVotesTrue'
        BY <1>1, <1>4, Zenon DEF HonestVotesTrue
    <2>3. NoObservedPanic'
        BY <1>4, Zenon DEF NoObservedPanic
    <2> QED
        BY <2>1, <2>2, <2>3, Zenon
<1>9. AppliedMatchesEthereum'
    <2>1. /\ applied \in Seq(Claims) /\ Len(applied) = lastObserved
          /\ \A n \in 1..lastObserved : applied[n] = events[n]
        BY Zenon DEF TypeOK, AppliedMatchesEthereum
    <2>2. Len(applied') = lastObserved'
        BY <1>1, <1>2, <2>1
    <2>3. ASSUME NEW n \in 1..lastObserved'
          PROVE  applied'[n] = events[n]
        <3>1. CASE n <= lastObserved
            BY <1>1, <1>2, <1>3, <2>1, <3>1
        <3>2. CASE n > lastObserved
            <4>1. n - lastObserved \in 1..Len(log)
                BY <1>1, <1>3, <3>2
            <4>2. applied'[n] = log[n - lastObserved]
                BY <1>1, <1>2, <1>3, <2>1, <3>2
            <4>3. lastObserved + (n - lastObserved) = n
                BY <1>3
            <4> QED
                BY <1>2, <4>1, <4>2, <4>3, Zenon
        <3> QED
            BY <1>3, <3>1, <3>2
    <2> QED
        BY <1>1, <1>2, <2>2, <2>3, Zenon DEF AppliedMatchesEthereum
<1> QED
    BY <1>6, <1>7, <1>8, <1>9, Zenon

(* A move to another contract: no vote survives, and the new contract      *)
(* continues with the nonce after the last one observed.                   *)
LEMMA ResetInv ==
    ASSUME OracleInv, NEW h \in Heights, ResetPeggyModuleState(h)
    PROVE  OracleInv'
<1> USE DEF OracleInv, ResetPeggyModuleState
<1>1. lastObserved \in Nat /\ lastObserved <= Len(events) /\ events \in Seq(Claims)
    BY DEF TypeOK, AppliedMatchesEthereum
<1>2. /\ events' \in Seq(Claims) /\ Len(events') = lastObserved
      /\ \A n \in 1..lastObserved : events'[n] = events[n]
    BY <1>1
<1>3. TypeOK'
    <2>1. lastObserved \in {0} \cup Nonces /\ h \in Nat
        BY OracleAssumption, SMTT(30) DEF TypeOK, Nonces
    <2>2. lastEvent' \in [Validators -> [nonce : {0} \cup Nonces, height : Nat]]
        BY <2>1 DEF NoClaimYet
    <2>3. redeploys' \in 0..MaxRedeploys
        <3>1. redeploys \in 0..MaxRedeploys
            BY DEF TypeOK
        <3> QED
            BY <3>1, OracleAssumption
    <2>4. Len(events') <= MaxEvents
        BY <1>2 DEF TypeOK
    <2>5. DOMAIN atts' = {} /\ atts' \in [DOMAIN atts' -> Attestations]
        BY Zenon
    <2> QED
        BY <1>2, <2>2, <2>3, <2>4, <2>5, Zenon DEF TypeOK
<1>4. /\ VotesBehindLastEvent' /\ OneVotePerNonce' /\ HonestVotesTrue'
      /\ NoObservedPanic'
    BY Zenon DEF VotesBehindLastEvent, OneVotePerNonce, HonestVotesTrue, NoObservedPanic
<1>5. AppliedMatchesEthereum'
    <2>1. /\ lastObserved = Len(applied)
          /\ \A n \in 1..lastObserved : applied[n] = events[n]
        BY Zenon DEF AppliedMatchesEthereum
    <2>2. lastObserved' = lastObserved /\ applied' = applied
        BY Zenon
    <2>3. /\ lastObserved' = Len(applied')
          /\ lastObserved' <= Len(events')
        BY <1>1, <1>2, <2>1, <2>2
    <2>4. \A n \in 1..lastObserved' : applied'[n] = events'[n]
        BY <1>2, <2>1, <2>2, Zenon
    <2> QED
        BY <2>3, <2>4, Zenon DEF AppliedMatchesEthereum
<1> QED
    BY <1>3, <1>4, <1>5

(* Every step keeps the invariant. *)
LEMMA NextOracleInv == OracleInv /\ [Next]_vars => OracleInv'
<1> SUFFICES ASSUME OracleInv, [Next]_vars
             PROVE  OracleInv'
    OBVIOUS
<1>1. ASSUME NEW c \in Claims, EmitEvent(c)
      PROVE  OracleInv'
    BY <1>1, EmitEventInv, Zenon
<1>2. ASSUME NEW v \in Validators, HonestClaim(v)
      PROVE  OracleInv'
    <2>1. events[lastEvent[v].nonce + 1] \in Claims
        <3>1. lastEvent[v].nonce \in Nat /\ events \in Seq(Claims)
            BY DEF OracleInv, TypeOK, Nonces
        <3>2. lastEvent[v].nonce < Len(events)
            BY <1>2, Zenon DEF HonestClaim
        <3> QED
            BY <3>1, <3>2
    <2> QED
        BY <1>2, <2>1, AttestInv, Zenon DEF HonestClaim
<1>3. ASSUME NEW v \in Validators, NEW c \in Claims, ByzantineClaim(v, c)
      PROVE  OracleInv'
    BY <1>3, AttestInv, Zenon DEF ByzantineClaim
<1>4. ASSUME NEW pw \in PowerMaps, EndBlock(pw)
      PROVE  OracleInv'
    BY <1>4, EndBlockInv, Zenon
<1>5. ASSUME NEW h \in Heights, ResetPeggyModuleState(h)
      PROVE  OracleInv'
    BY <1>5, ResetInv
<1>6. CASE UNCHANGED vars
    BY <1>6 DEF vars, OracleInv, TypeOK, VotesBehindLastEvent, OneVotePerNonce,
                HonestVotesTrue, AppliedMatchesEthereum, NoObservedPanic
<1> QED
    BY <1>1, <1>2, <1>3, <1>4, <1>5, <1>6, Zenon DEF Next

(* The inductive invariant holds of the oracle: votes, tallies and what    *)
(* they apply.                                                             *)
THEOREM OracleInvariant == Spec => []OracleInv
    BY InitOracleInv, NextOracleInv, PTL DEF Spec

-----------------------------------------------------------------------------
(* Type correctness, with the cap on claimed nonces (Attest's check        *)
(* against MaxFutureClaims).                                               *)
THEOREM OracleTypeCorrect == Spec => []TypeOK
<1>1. OracleInv => TypeOK
    BY Zenon DEF OracleInv
<1> QED
    BY <1>1, OracleInvariant, PTL

(* No validator's power is counted twice at a nonce. *)
THEOREM OracleOneVote == Spec => []OneVotePerNonce
<1>1. OracleInv => OneVotePerNonce
    BY Zenon DEF OracleInv
<1> QED
    BY <1>1, OracleInvariant, PTL

(* The claims applied are the contract's events, in order and once. *)
THEOREM OracleAppliesEthereum == Spec => []AppliedMatchesEthereum
<1>1. OracleInv => AppliedMatchesEthereum
    BY Zenon DEF OracleInv
<1> QED
    BY <1>1, OracleInvariant, PTL

(* The EndBlocker never reaches the panic on an observed attestation. *)
THEOREM OracleNoPanic == Spec => []NoObservedPanic
<1>1. OracleInv => NoObservedPanic
    BY Zenon DEF OracleInv
<1> QED
    BY <1>1, OracleInvariant, PTL

-----------------------------------------------------------------------------
(* A block that applies claims is a Deliver step of EventDelivery. *)
LEMMA EndBlockDelivers ==
    ASSUME OracleInv, OracleInv', NEW pw \in PowerMaps, EndBlock(pw)
    PROVE  \/ \E n \in 1..Len(events) : Delivery!Deliver(n)
           \/ UNCHANGED <<events, applied>>
<1> USE DEF OracleInv
<1>1. PICK log \in TallyResults(pw) :
          applied' = applied \o log /\ events' = events
    BY Zenon DEF EndBlock
<1>2. log \in Seq(Claims) /\ lastObserved + Len(log) <= Len(events)
    BY TallyIsTrue
<1>3. /\ applied \in Seq(Claims) /\ events \in Seq(Claims)
      /\ Len(applied) = lastObserved
    BY Zenon DEF TypeOK, AppliedMatchesEthereum
<1>4. CASE log = <<>>
    BY <1>1, <1>3, <1>4
<1>5. CASE log # <<>>
    <2> DEFINE n == Len(applied')
    <2>1. n \in Nat /\ n = Len(applied) + Len(log) /\ Len(log) > 0
        <3>1. Len(log) \in Nat /\ Len(log) # 0
            BY <1>2, <1>5
        <3>2. Len(applied \o log) = Len(applied) + Len(log) /\ Len(applied) \in Nat
            BY <1>2, <1>3, SMTT(30)
        <3> QED
            BY <1>1, <3>1, <3>2
    <2>2. n \in 1..Len(events) /\ n > Len(applied)
        BY <1>2, <1>3, <2>1
    <2>3. applied' = SubSeq(events, 1, n)
        <3>1. applied' \in Seq(Claims) /\ SubSeq(events, 1, n) \in Seq(Claims)
            BY <1>3, <2>2 DEF TypeOK
        <3>2. Len(SubSeq(events, 1, n)) = n
            BY <1>3, <2>2
        <3>3. \A i \in 1..n : applied'[i] = SubSeq(events, 1, n)[i]
            BY <1>1, <1>3, <2>2 DEF AppliedMatchesEthereum
        <3> QED
            BY <3>1, <3>2, <3>3, SameList
    <2> QED
        BY <1>1, <2>2, <2>3, Zenon DEF Delivery!Deliver
<1> QED
    BY <1>4, <1>5, Zenon

(* The oracle implements ordered, exactly-once delivery. *)
THEOREM OracleImplementsDelivery == Spec => DeliversEvents
<1>1. Init => Delivery!Init
    BY Zenon DEF Init, Delivery!Init
<1>2. OracleInv /\ OracleInv' /\ [Next]_vars => [Delivery!Next]_(Delivery!vars)
    <2> SUFFICES ASSUME OracleInv, OracleInv', [Next]_vars
                 PROVE  Delivery!Next \/ UNCHANGED <<events, applied>>
        BY Zenon DEF Delivery!vars
    <2>1. ASSUME NEW c \in Claims, EmitEvent(c)
          PROVE  Delivery!Next
        BY <2>1, Zenon DEF EmitEvent, chain, Delivery!Next, Delivery!Emit
    <2>2. ASSUME NEW v \in Validators, HonestClaim(v)
          PROVE  UNCHANGED <<events, applied>>
        BY <2>2, Zenon DEF HonestClaim, Attest
    <2>3. ASSUME NEW v \in Validators, NEW c \in Claims, ByzantineClaim(v, c)
          PROVE  UNCHANGED <<events, applied>>
        BY <2>3, Zenon DEF ByzantineClaim, Attest
    <2>4. ASSUME NEW pw \in PowerMaps, EndBlock(pw)
          PROVE  Delivery!Next \/ UNCHANGED <<events, applied>>
        BY <2>4, EndBlockDelivers, Zenon DEF Delivery!Next
    <2>5. ASSUME NEW h \in Heights, ResetPeggyModuleState(h)
          PROVE  Delivery!Next
        <3>1. /\ applied \in Seq(Claims) /\ events \in Seq(Claims)
              /\ Len(applied) = lastObserved /\ lastObserved \in Nat
              /\ lastObserved <= Len(events)
              /\ \A n \in 1..lastObserved : applied[n] = events[n]
            BY DEF OracleInv, TypeOK, AppliedMatchesEthereum
        <3>2. SubSeq(events, 1, lastObserved) = applied
            <4>1. SubSeq(events, 1, lastObserved) \in Seq(Claims)
                BY <3>1
            <4>2. Len(SubSeq(events, 1, lastObserved)) = lastObserved
                BY <3>1
            <4>3. \A i \in 1..lastObserved :
                        applied[i] = SubSeq(events, 1, lastObserved)[i]
                BY <3>1
            <4> QED
                BY <3>1, <4>1, <4>2, <4>3, SameList, Zenon
        <3> QED
            BY <2>5, <3>2, Zenon
               DEF ResetPeggyModuleState, Delivery!Next, Delivery!Redeploy
    <2>6. CASE UNCHANGED vars
        BY <2>6, Zenon DEF vars
    <2> QED
        BY <2>1, <2>2, <2>3, <2>4, <2>5, <2>6, Zenon DEF Next
<1> QED
    BY <1>1, <1>2, OracleInvariant, PTL DEF Spec, DeliversEvents, Delivery!Spec

-----------------------------------------------------------------------------
(* The confirmations of batches *)

(* Nonces are given once: what is stored or signed has an earlier one. *)
Numbered ==
    /\ nextBatch \in Nat
    /\ block \in [BatchNonces -> Nat]
    /\ height \in Nat
    /\ batches \subseteq {n \in BatchNonces : n < nextBatch}
    /\ \A c \in signed : c[1] \in Nat /\ c[1] < nextBatch

ConfirmsInv == Numbered /\ IndexIsLive /\ LiveBatchesRelayable

(* A new chain has no batches and no confirmations. *)
LEMMA InitConfirms ==
  ASSUME ConfirmsInit
  PROVE  ConfirmsInv
  BY BatchConfirmsAssumption, Zenon
     DEF BatchConfirmsAssumption, ConfirmsInit, ConfirmsInv, Numbered, IndexIsLive,
         LiveBatchesRelayable, BatchNonces

(* StoreBatch takes a nonce that nothing refers to yet. *)
LEMMA StoreBatchConfirms ==
  ASSUME ConfirmsInv, StoreBatch
  PROVE  ConfirmsInv'
  <1>0. nextBatch \in BatchNonces
    BY BatchConfirmsAssumption
       DEF BatchConfirmsAssumption, ConfirmsInv, Numbered, StoreBatch, BatchNonces
  <1>1. Numbered'
    <2>1. nextBatch' \in Nat /\ height' \in Nat
      BY DEF ConfirmsInv, Numbered, StoreBatch
    <2>2. block' \in [BatchNonces -> Nat]
      BY <1>0, Zenon DEF ConfirmsInv, Numbered, StoreBatch
    <2>3. batches' \subseteq {n \in BatchNonces : n < nextBatch'}
      BY <1>0 DEF ConfirmsInv, Numbered, StoreBatch, BatchNonces
    <2>4. \A c \in signed' : c[1] \in Nat /\ c[1] < nextBatch'
      BY DEF ConfirmsInv, Numbered, StoreBatch
    <2> QED
      BY <2>1, <2>2, <2>3, <2>4, Zenon DEF Numbered, BatchNonces
  <1>2. IndexIsLive'
    <2> SUFFICES ASSUME NEW h \in DOMAIN blockIndex'
                 PROVE  blockIndex'[h] \in batches' /\ block'[blockIndex'[h]] = h
      BY Zenon DEF IndexIsLive
    <2>1. CASE h = height
      <3>1. blockIndex'[h] = nextBatch
        BY <2>1, Zenon DEF StoreBatch
      <3>2. block'[nextBatch] = height
        BY <1>0, Zenon DEF StoreBatch, ConfirmsInv, Numbered
      <3> QED
        BY <2>1, <3>1, <3>2, Zenon DEF StoreBatch
    <2>2. CASE h # height
      <3>1. h \in DOMAIN blockIndex /\ blockIndex'[h] = blockIndex[h]
        BY <2>2, Zenon DEF StoreBatch
      <3>2. blockIndex[h] \in batches /\ block[blockIndex[h]] = h
        BY <3>1, Zenon DEF ConfirmsInv, IndexIsLive
      <3>3. \A n \in batches : n \in BatchNonces /\ n # nextBatch
        BY DEF ConfirmsInv, Numbered, BatchNonces
      <3> QED
        BY <3>1, <3>2, <3>3, Zenon DEF StoreBatch, ConfirmsInv, Numbered
    <2> QED
      BY <2>1, <2>2, Zenon
  <1>3. LiveBatchesRelayable'
    BY DEF ConfirmsInv, Numbered, LiveBatchesRelayable, StoreBatch
  <1> QED
    BY <1>1, <1>2, <1>3, Zenon DEF ConfirmsInv

(* ConfirmBatch is for a batch of the store. *)
LEMMA ConfirmBatchConfirms ==
  ASSUME NEW v \in Signers, NEW n \in BatchNonces,
         ConfirmsInv, ConfirmBatch(v, n)
  PROVE  ConfirmsInv'
  <1>1. Numbered'
    BY BatchConfirmsAssumption
       DEF BatchConfirmsAssumption, ConfirmsInv, Numbered, ConfirmBatch, BatchNonces
  <1>2. IndexIsLive'
    BY Zenon DEF ConfirmsInv, IndexIsLive, ConfirmBatch
  <1>3. LiveBatchesRelayable'
    BY Zenon DEF ConfirmsInv, LiveBatchesRelayable, ConfirmBatch
  <1> QED
    BY <1>1, <1>2, <1>3, Zenon DEF ConfirmsInv

(* DeleteBatch takes the batch's entry out of the index with it, and       *)
(* PruneOldBatchConfirms looks at what is left.                            *)
LEMMA EndBlockConfirms ==
  ASSUME NEW X \in SUBSET batches, ConfirmsInv, EndBlocker(X)
  PROVE  ConfirmsInv'
  <1>1. Numbered'
    BY Zenon DEF ConfirmsInv, Numbered, EndBlocker, BatchNonces
  <1>2. IndexIsLive'
    <2> SUFFICES ASSUME NEW h \in DOMAIN blockIndex'
                 PROVE  blockIndex'[h] \in batches' /\ block'[blockIndex'[h]] = h
      BY Zenon DEF IndexIsLive
    <2>1. blockIndex' = WithoutBatches(X) /\ block' = block /\ batches' = batches \ X
      BY Zenon DEF EndBlocker
    <2>2. h \in DOMAIN blockIndex /\ blockIndex'[h] = blockIndex[h]
          /\ \A n \in X : block[n] # h
      BY <2>1, Zenon DEF WithoutBatches
    <2>3. blockIndex[h] \in batches /\ block[blockIndex[h]] = h
      BY <2>2, Zenon DEF ConfirmsInv, IndexIsLive
    <2> QED
      BY <2>1, <2>2, <2>3, Zenon
  <1>3. LiveBatchesRelayable'
    <2>1. PICK R \in Cleaned(PrunableConfirms(batches \ X)) : confirms' = confirms \ R
      BY Zenon DEF EndBlocker
    <2>2. \A c \in R : c[1] \notin batches \ X
      BY Zenon DEF Cleaned, PrunableConfirms
    <2>3. signed' = signed /\ batches' = batches \ X
      BY Zenon DEF EndBlocker
    <2> QED
      BY <2>1, <2>2, <2>3, ZenonT(30) DEF ConfirmsInv, LiveBatchesRelayable
  <1> QED
    BY <1>1, <1>2, <1>3, ZenonT(30) DEF ConfirmsInv

(* Every step of the chain keeps the invariant. *)
LEMMA NextConfirms ==
  ASSUME ConfirmsInv, [ConfirmsNext]_confirmsVars
  PROVE  ConfirmsInv'
  <1>1. CASE StoreBatch
    BY <1>1, StoreBatchConfirms, Zenon
  <1>2. CASE \E v \in Signers, n \in BatchNonces : ConfirmBatch(v, n)
    BY <1>2, ConfirmBatchConfirms, Zenon
  <1>3. CASE \E v \in Signers : Unjail(v)
    BY <1>3, ZenonT(30)
       DEF Unjail, ConfirmsInv, Numbered, IndexIsLive, LiveBatchesRelayable,
                history, BatchNonces
  <1>4. CASE \E B \in SUBSET (Signers \ jailed) \ {{}},
                M \in SUBSET {v \in Signers : status[v] = "unbonding"} :
                  StakingEndBlock(B, M)
    BY <1>4 DEF StakingEndBlock, ConfirmsInv, Numbered, IndexIsLive,
                LiveBatchesRelayable, history, BatchNonces
  <1>5. CASE \E X \in SUBSET batches : EndBlocker(X)
    BY <1>5, EndBlockConfirms, Zenon
  <1>6. CASE NextBlock
    <2>1. Numbered'
      BY <1>6, SMTT(30) DEF NextBlock, ConfirmsInv, Numbered, history, BatchNonces
    <2>2. IndexIsLive' /\ LiveBatchesRelayable'
      BY <1>6, Zenon
         DEF NextBlock, ConfirmsInv, IndexIsLive, LiveBatchesRelayable, history
    <2> QED
      BY <2>1, <2>2, Zenon DEF ConfirmsInv
  <1>7. CASE UNCHANGED confirmsVars
    BY <1>7, Zenon DEF confirmsVars, history, ConfirmsInv, Numbered, IndexIsLive,
                LiveBatchesRelayable, BatchNonces
  <1> QED
    BY <1>1, <1>2, <1>3, <1>4, <1>5, <1>6, <1>7, Zenon DEF ConfirmsNext

(* The three facts hold together in every reachable state. *)
THEOREM ConfirmsInvariant ==
  ConfirmsSpec => []ConfirmsInv
  <1>1. ConfirmsInit => ConfirmsInv
    BY InitConfirms, Zenon
  <1>2. ConfirmsInv /\ [ConfirmsNext]_confirmsVars => ConfirmsInv'
    BY NextConfirms, Zenon
  <1> QED
    BY <1>1, <1>2, PTL DEF ConfirmsSpec

(* The index by block, from which batchJailing and so jailing works, shows *)
(* nothing that DeleteBatch has removed, for any number of batches.        *)
THEOREM ConfirmsIndexIsLive ==
  ConfirmsSpec => []IndexIsLive
  BY ConfirmsInvariant, PTL DEF ConfirmsInv

(* Pruning (PruneOldBatchConfirms) never takes a signature that a relayer  *)
(* can still use.                                                          *)
THEOREM ConfirmsRelayable ==
  ConfirmsSpec => []LiveBatchesRelayable
  BY ConfirmsInvariant, PTL DEF ConfirmsInv

(* What batchJailing finds missing was never given. *)
LEMMA FoundNotSigned ==
  ConfirmsInv /\ [ConfirmsNext]_confirmsVars => \A f \in faults' \ faults : f \notin signed
  <1> SUFFICES ASSUME ConfirmsInv, [ConfirmsNext]_confirmsVars, NEW f \in faults' \ faults
               PROVE  f \notin signed
    BY Zenon
  <1>1. PICK X \in SUBSET batches : EndBlocker(X)
    BY Zenon
       DEF ConfirmsNext, confirmsVars, history, StoreBatch, ConfirmBatch, Unjail,
           StakingEndBlock,
           NextBlock
  <1>2. PICK h \in Unjailed : f \in {<<blockIndex[h], v>> : v \in Offenders(h)}
    BY <1>1, Zenon DEF EndBlocker
  <1>3. PICK v \in Offenders(h) : f = <<blockIndex[h], v>>
    BY <1>2, Zenon
  <1>4. f \notin confirms /\ f[1] = blockIndex[h]
    BY <1>3, Zenon DEF Offenders
  <1>5. f[1] \in batches
    BY <1>4, Zenon DEF Unjailed, ConfirmsInv, IndexIsLive
  <1> QED
    BY <1>4, <1>5, Zenon DEF ConfirmsInv, LiveBatchesRelayable

(* No validator is ever jailed by batchJailing over a batch it signed,     *)
(* whatever the interleaving of confirmations, deletions and pruning.      *)
THEOREM ConfirmsSignersNotJailed ==
  ConfirmsSpec => BatchSignersNotJailed
  <1>1. ConfirmsInv /\ [ConfirmsNext]_confirmsVars
            => [\A f \in faults' \ faults : f \notin signed]_confirmsVars
    BY FoundNotSigned, Zenon
  <1> QED
    BY <1>1, ConfirmsInvariant, PTL DEF ConfirmsSpec, BatchSignersNotJailed

(* After the block of a batch has ended, who is bonded since that block or *)
(* before was bonded then: leaving and coming back moves the start.        *)
Seasoned ==
    /\ status \in [Signers -> {"bonded", "unbonding", "unbonded"}]
    /\ startHeight \in [Signers -> Nat]
    /\ present \in [BatchNonces -> SUBSET Signers]
    /\ \A n \in BatchNonces : block[n] <= height
    /\ \A n \in batches : block[n] < height \/ phase # "txs" =>
         \A v \in BondedSigners : startHeight[v] <= block[n] => v \in present[n]

(* Staking's EndBlocker bonds with the height of the block it ends. *)
LEMMA StakingSeasoned ==
  ASSUME NEW B \in SUBSET Signers, NEW M \in SUBSET Signers,
         ConfirmsInv, Seasoned, StakingEndBlock(B, M)
  PROVE  Seasoned'
  <1>1. status' \in [Signers -> {"bonded", "unbonding", "unbonded"}]
    BY Zenon DEF Seasoned, StakingEndBlock
  <1>2. startHeight' \in [Signers -> Nat]
    BY Zenon DEF Seasoned, StakingEndBlock, ConfirmsInv, Numbered
  <1>3. present' \in [BatchNonces -> SUBSET Signers]
    BY Zenon DEF Seasoned, StakingEndBlock
  <1>4. \A n \in BatchNonces : block'[n] <= height'
    BY Zenon DEF Seasoned, StakingEndBlock
  <1>5. ASSUME NEW n \in batches, NEW v \in BondedSigners', startHeight'[v] <= block[n]
        PROVE  v \in present'[n]
    <2>1. v \in B /\ v \in Signers
      BY <1>5, Zenon DEF BondedSigners, StakingEndBlock, Seasoned
    <2>2. n \in BatchNonces /\ block[n] \in Nat /\ height \in Nat /\ block[n] <= height
      BY <1>5, Zenon DEF ConfirmsInv, Numbered, Seasoned
    <2>3. CASE block[n] = height
      BY <2>1, <2>2, <2>3, ZenonT(30) DEF StakingEndBlock
    <2>4. CASE block[n] < height
      <3>1. startHeight'[v] # height
        BY <1>5, <2>2, <2>4, SMTT(30)
      <3>2. v \in BondedSigners /\ startHeight[v] <= block[n]
        BY <3>1, <2>1, <1>5, Zenon DEF StakingEndBlock
      <3>3. v \in present[n]
        BY <3>2, <2>4, <1>5, ZenonT(30) DEF Seasoned
      <3> QED
        BY <3>3, <2>2, <2>4 DEF StakingEndBlock
    <2> QED
      BY <2>2, <2>3, <2>4
  <1>6. batches' = batches /\ block' = block
    BY Zenon DEF StakingEndBlock
  <1>7. \A n \in batches' : block'[n] < height' \/ phase' # "txs" =>
          \A v \in BondedSigners' : startHeight'[v] <= block'[n] => v \in present'[n]
    BY <1>5, <1>6, Zenon
  <1> QED
    BY <1>1, <1>2, <1>3, <1>4, <1>7, Zenon DEF Seasoned, BatchNonces

(* The other steps build batches in blocks that have not ended, take       *)
(* batches away, or begin the next block.                                  *)
LEMMA NextSeasoned ==
  ASSUME ConfirmsInv, Seasoned, [ConfirmsNext]_confirmsVars
  PROVE  Seasoned'
  <1>1. CASE StoreBatch
    <2>0. nextBatch \in BatchNonces /\ \A n \in batches : n \in BatchNonces /\ n # nextBatch
      BY BatchConfirmsAssumption, <1>1
         DEF BatchConfirmsAssumption, ConfirmsInv, Numbered, StoreBatch, BatchNonces
    <2>1. /\ block' = [block EXCEPT ![nextBatch] = height]
          /\ batches' = batches \cup {nextBatch}
          /\ UNCHANGED <<height, phase, status, startHeight, present>>
          /\ phase = "txs"
      BY <1>1, Zenon DEF StoreBatch, staking
    <2>2. \A n \in BatchNonces : block'[n] <= height'
      BY <2>0, <2>1 DEF Seasoned, ConfirmsInv, Numbered
    <2>3. \A n \in batches : block'[n] = block[n]
      BY <2>0, <2>1, Zenon DEF ConfirmsInv, Numbered
    <2>4. ~(block'[nextBatch] < height')
      BY <2>0, <2>1 DEF ConfirmsInv, Numbered
    <2>5. BondedSigners' = BondedSigners
      BY <2>1, Zenon DEF BondedSigners
    <2> QED
      BY <2>1, <2>2, <2>3, <2>4, <2>5, ZenonT(30) DEF Seasoned, BatchNonces
  <1>2. CASE \E v \in Signers, n \in BatchNonces : ConfirmBatch(v, n)
    BY <1>2, Zenon DEF ConfirmBatch, staking, Seasoned, BondedSigners, BatchNonces
  <1>3. CASE \E v \in Signers : Unjail(v)
    BY <1>3, Zenon DEF Unjail, staking, history, Seasoned, BondedSigners, BatchNonces
  <1>4. CASE \E B \in SUBSET (Signers \ jailed) \ {{}},
                M \in SUBSET {v \in Signers : status[v] = "unbonding"} :
                  StakingEndBlock(B, M)
    BY <1>4, StakingSeasoned, Zenon
  <1>5. CASE \E X \in SUBSET batches : EndBlocker(X)
    <2>1. /\ batches' \subseteq batches /\ phase = "staking"
          /\ UNCHANGED <<height, status, startHeight, block, present>>
      BY <1>5, Zenon DEF EndBlocker, staking
    <2>2. BondedSigners' = BondedSigners
      BY <2>1, Zenon DEF BondedSigners
    <2> QED
      BY <2>1, <2>2, ZenonT(30) DEF Seasoned, BatchNonces
  <1>6. CASE NextBlock
    <2>1. /\ height' = height + 1 /\ phase = "commit" /\ batches' = batches
          /\ UNCHANGED <<status, startHeight, block, present>>
      BY <1>6, Zenon DEF NextBlock, staking, history
    <2>2. BondedSigners' = BondedSigners
      BY <2>1, Zenon DEF BondedSigners
    <2>3. \A n \in BatchNonces : block'[n] <= height'
      BY <2>1 DEF Seasoned, ConfirmsInv, Numbered
    <2> QED
      BY <2>1, <2>2, <2>3, Zenon DEF Seasoned, BatchNonces
  <1>7. CASE UNCHANGED confirmsVars
    BY <1>7, Zenon DEF confirmsVars, staking, history, Seasoned, BondedSigners, BatchNonces
  <1> QED
    BY <1>1, <1>2, <1>3, <1>4, <1>5, <1>6, <1>7, ZenonT(30) DEF ConfirmsNext

(* What batchJailing finds missing was asked of a validator bonded then. *)
LEMMA FoundPresent ==
  ConfirmsInv /\ Seasoned /\ [ConfirmsNext]_confirmsVars =>
      \A f \in faults' \ faults : f[2] \in present[f[1]]
  <1> SUFFICES ASSUME ConfirmsInv, Seasoned, [ConfirmsNext]_confirmsVars,
                      NEW f \in faults' \ faults
               PROVE  f[2] \in present[f[1]]
    BY Zenon
  <1>1. PICK X \in SUBSET batches : EndBlocker(X)
    BY Zenon
       DEF ConfirmsNext, confirmsVars, history, StoreBatch, ConfirmBatch, Unjail,
           StakingEndBlock,
           NextBlock
  <1>2. PICK h \in Unjailed : f \in {<<blockIndex[h], v>> : v \in Offenders(h)}
    BY <1>1, Zenon DEF EndBlocker
  <1>3. PICK v \in Offenders(h) : f = <<blockIndex[h], v>>
    BY <1>2, Zenon
  <1>4. v \in BondedSigners /\ startHeight[v] <= h
    BY <1>3, Zenon DEF Offenders
  <1>5. blockIndex[h] \in batches /\ block[blockIndex[h]] = h
    BY Zenon DEF Unjailed, ConfirmsInv, IndexIsLive
  <1>6. phase = "staking"
    BY <1>1, Zenon DEF EndBlocker
  <1>7. v \in present[blockIndex[h]]
    BY <1>4, <1>5, <1>6, Zenon DEF Seasoned
  <1> QED
    BY <1>3, <1>7, Zenon

(* No validator is ever jailed by batchJailing over a batch whose block    *)
(* ended before the validator was bonded, for any joining and leaving.     *)
THEOREM ConfirmsLateJoiners ==
  ConfirmsSpec => LateJoinersNotJailed
  <1>1. ConfirmsInit => Seasoned
    BY BatchConfirmsAssumption
       DEF BatchConfirmsAssumption, ConfirmsInit, Seasoned, BatchNonces, BondedSigners
  <1>2. ConfirmsInv /\ Seasoned /\ [ConfirmsNext]_confirmsVars =>
          [\A f \in faults' \ faults : f[2] \in present[f[1]]]_confirmsVars
    BY FoundPresent, Zenon
  <1>3. ConfirmsInv /\ Seasoned /\ [ConfirmsNext]_confirmsVars => Seasoned'
    BY NextSeasoned, Zenon
  <1> QED
    BY <1>1, <1>2, <1>3, ConfirmsInvariant, PTL DEF ConfirmsSpec, LateJoinersNotJailed

=============================================================================
