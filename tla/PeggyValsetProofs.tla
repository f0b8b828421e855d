------------------------- MODULE PeggyValsetProofs --------------------------
(***************************************************************************)
(* No validator is jailed over a set it has signed, the latest set keeps   *)
(* its signatures, and no member gets round a set, for any validators,     *)
(* powers, windows and heights.                                            *)
(*                                                                         *)
(* The first two rest on one bound: a signature is gone only if its nonce  *)
(* is below the last set that jailing has asked for (Kept).  Jailing asks  *)
(* for later sets only, so it misses no signature that was given.  And     *)
(* that set is not later than the latest one (Ordered), which is therefore *)
(* untouched.                                                              *)
(* The third needs that no set is pruned before jailing has asked for it   *)
(* (Asking), and that whoever comes back starts after it (Answered).       *)
(***************************************************************************)
EXTENDS PeggyValset, Sums, TLAPS, WellFoundedInduction

(* Nonces that the module and the contract know are those of made sets. *)
Ordered ==
    /\ height \in Nat \ {0} /\ latest \in 0..height
    /\ valsets \subseteq 1..latest
    /\ latest # 0 => latest \in valsets
    /\ lastJailed \in 0..latest /\ lastObserved \in 0..latest
    /\ DOMAIN members \subseteq 0..latest
    /\ events \in Seq(Nat)
    /\ \A i \in 1..Len(events) : events[i] \in 0..latest

(* What is pruned, jailing has asked for. *)
Kept ==
    /\ signed \subseteq Nat \X Validators
    /\ \A c \in signed : c \in confirms \/ c[1] < lastJailed

ValsetInv == Ordered /\ Kept

(* A bounded set of naturals has a maximum, which Max chooses. *)
LEMMA MaxIsLargest ==
  ASSUME NEW S \in SUBSET Nat, S # {}, NEW b \in Nat, \A x \in S : x <= b
  PROVE  Max(S) \in S /\ \A x \in S : x <= Max(S)
  <1> DEFINE T == {b - x : x \in S}
             R == OpToRel(<, Nat)
  <1>1. T \subseteq Nat /\ T # {}
    <2>1. \A x \in S : x \in Nat /\ b - x \in Nat
      OBVIOUS
    <2>2. PICK x \in S : TRUE
      BY Zenon
    <2>3. b - x \in T
      BY <2>2
    <2>4. \A t \in T : t \in Nat
      BY <2>1
    <2> QED BY <2>3, <2>4
  <1>2. PICK t \in T : \A y \in T : ~ (<<y, t>> \in R)
    <2> HIDE DEF T, R
    <2>1. IsWellFoundedOn(R, Nat)
      BY NatLessThanWellFounded DEF R
    <2> QED BY <1>1, <2>1, WFMin, Zenon
  <1>3. \A y \in T : ~ (y < t)
    BY <1>1, <1>2, Zenon DEF OpToRel
  <1>4. PICK m \in S : t = b - m
    OBVIOUS
  <1>5. \A x \in S : m >= x
    <2> SUFFICES ASSUME NEW x \in S PROVE m >= x
      OBVIOUS
    <2>1. b - x \in T
      OBVIOUS
    <2>2. ~ (b - x < b - m)
      BY <1>3, <1>4, <2>1, SMTT(20)
    <2>3. x \in Nat /\ m \in Nat
      OBVIOUS
    <2> QED
      <3> HIDE DEF T, R
      <3> QED BY <2>2, <2>3
  <1>6. Max(S) \in S /\ \A y \in S : Max(S) >= y
    BY <1>5, Zenon DEF Max
  <1> QED BY <1>6

(* The genesis state has no sets. *)
LEMMA InitValset == Init => ValsetInv
  <1> SUFFICES ASSUME Init PROVE ValsetInv
    OBVIOUS
  <1>1. Ordered
    BY DEF Init, Ordered
  <1>2. Kept
    BY DEF Init, Kept
  <1> QED BY <1>1, <1>2 DEF ValsetInv

(* A signature is given for a set that is stored. *)
LEMMA ConfirmValset ==
  ASSUME NEW v \in Validators, NEW n \in Nonces, ValsetInv, ValsetConfirm(v, n)
  PROVE  ValsetInv'
  <1>1. Ordered'
    BY DEF ValsetInv, Ordered, ValsetConfirm, requests, contract
  <1>2. n \in Nat
    BY ValsetAssumption DEF Nonces
  <1>3. Kept'
    BY <1>2 DEF ValsetInv, Kept, ValsetConfirm, requests
  <1> QED BY <1>1, <1>3 DEF ValsetInv

(* The contract takes a set that was made. *)
LEMMA UpdateValset ==
  ASSUME NEW n \in DOMAIN members, ValsetInv, updateValset(n)
  PROVE  ValsetInv'
  <1>1. n \in 0..latest /\ n \in Nat
    BY DEF ValsetInv, Ordered
  <1>2. events' = Append(events, n) /\ UNCHANGED <<height, requests, confirms, signed>>
    BY DEF updateValset
  <1>3. events' \in Seq(Nat) /\ \A i \in 1..Len(events') : events'[i] \in 0..latest
    BY <1>1, <1>2 DEF ValsetInv, Ordered
  <1>4. Ordered'
    BY <1>2, <1>3 DEF ValsetInv, Ordered, requests
  <1>5. Kept'
    BY <1>2 DEF ValsetInv, Kept, requests
  <1> QED BY <1>4, <1>5 DEF ValsetInv

(* The set that jailing has come to after a block. *)
LEMMA Asked ==
  ASSUME ValsetInv
  PROVE  LET asked == Max(Unjailed \cup {lastJailed})
         IN  /\ asked \in 0..latest /\ lastJailed <= asked
             /\ asked \in Unjailed \cup {lastJailed}
             /\ \A n \in Unjailed : n <= asked
  <1> DEFINE S == Unjailed \cup {lastJailed}
  <1>1. S \in SUBSET Nat /\ S # {} /\ latest \in Nat /\ (\A x \in S : x <= latest)
    <2>1. height \in Nat /\ latest \in 0..height /\ lastJailed \in 0..latest
      BY DEF ValsetInv, Ordered
    <2>2. \A x \in Unjailed : x \in 1..latest
      BY DEF ValsetInv, Ordered, Unjailed
    <2>3. latest \in Nat /\ \A x \in S : x \in Nat /\ x <= latest
      BY <2>1, <2>2
    <2> QED BY <2>3
  <1>2. Max(S) \in S /\ \A x \in S : x <= Max(S)
    <2> HIDE DEF S
    <2> QED BY <1>1, MaxIsLargest
  <1>3. Max(S) \in 0..latest /\ lastJailed <= Max(S)
    BY <1>1, <1>2
  <1> QED BY <1>2, <1>3

(* The events that are left once k of them are observed. *)
LEMMA EventsLeft ==
  ASSUME NEW s \in Seq(Nat), NEW k \in 0..Len(s), NEW rest, rest = SubSeq(s, k + 1, Len(s))
  PROVE  /\ rest \in Seq(Nat)
         /\ \A i \in 1..Len(rest) : i + k \in 1..Len(s) /\ rest[i] = s[i + k]
  <1>1. Len(s) \in Nat /\ k \in Nat
    OBVIOUS
  <1>2. rest \in Seq(Nat)
    BY <1>1
  <1>3. \A i \in 1..Len(rest) : i + k \in 1..Len(s)
    BY <1>1
  <1>4. \A i \in 1..Len(rest) : rest[i] = s[i + k]
    BY <1>1, SMTT(20)
  <1> QED BY <1>2, <1>3, <1>4

(* Jailing, observation, a new set and pruning. *)
LEMMA EndBlockValset ==
  ASSUME NEW k \in 0..Len(events), ValsetInv, EndBlock(k)
  PROVE  ValsetInv'
  <1> DEFINE asked == Max(Unjailed \cup {lastJailed})
             observed == IF k = 0 THEN lastObserved ELSE events[k]
  <1>1. asked \in 0..latest /\ lastJailed <= asked
    BY Asked
  <1>2. observed \in 0..latest
    BY DEF ValsetInv, Ordered
  <1>3. /\ UNCHANGED <<height, signed>>
        /\ lastJailed' = asked
        /\ lastObserved' = observed
        /\ events' = SubSeq(events, k + 1, Len(events))
        /\ \E R \in Cleaned(PrunableConfirms(asked)) : confirms' = confirms \ R
    BY DEF EndBlock
  <1>4. \/ /\ latest' = height /\ DOMAIN members' = DOMAIN members \cup {height}
           /\ valsets' = (valsets \cup {height}) \ Prunable(valsets \cup {height}, observed)
        \/ /\ latest' = latest /\ members' = members
           /\ valsets' = valsets \ Prunable(valsets, observed)
    BY Zenon DEF EndBlock
  <1> HIDE DEF asked, observed
  <1>5. height \in Nat \ {0} /\ latest \in 0..height /\ latest' \in 0..height /\ latest <= latest'
    BY <1>4 DEF ValsetInv, Ordered
  <1>6. /\ events' \in Seq(Nat)
        /\ \A i \in 1..Len(events') : events'[i] \in 0..latest
    <2>1. /\ events' \in Seq(Nat)
          /\ \A i \in 1..Len(events') : i + k \in 1..Len(events) /\ events'[i] = events[i + k]
      <3>1. events \in Seq(Nat)
        BY DEF ValsetInv, Ordered
      <3> QED BY <1>3, <3>1, EventsLeft, Zenon
    <2> QED BY <2>1, Zenon DEF ValsetInv, Ordered
  <1>7. valsets' \subseteq 1..latest'
    <2>1. valsets' \subseteq valsets \/ (latest' = height /\ valsets' \subseteq valsets \cup {height})
      BY <1>4
    <2>2. \A n \in valsets : n \in 1..latest
      BY DEF ValsetInv, Ordered
    <2>3. \A n \in 1..latest : n \in 1..latest'
      BY <1>5
    <2>4. latest' = height => height \in 1..latest'
      BY <1>5
    <2> QED BY <2>1, <2>2, <2>3, <2>4
  <1>8. latest' # 0 => latest' \in valsets'
    <2>1. observed \in Nat /\ latest' \in Nat /\ ~ (latest' < observed)
      BY <1>2, <1>5
    <2>2. \A stored : latest' \notin Prunable(stored, observed)
      BY <2>1 DEF Prunable
    <2>3. latest # 0 => latest \in valsets
      BY DEF ValsetInv, Ordered
    <2> QED BY <1>4, <2>2, <2>3
  <1>9. DOMAIN members' \subseteq 0..latest'
    <2>1. \A n \in DOMAIN members : n \in 0..latest
      BY DEF ValsetInv, Ordered
    <2>2. \A n \in 0..latest : n \in 0..latest'
      BY <1>5
    <2>3. height \in 0..height
      BY <1>5
    <2> QED BY <1>4, <2>1, <2>2, <2>3
  <1>10. Ordered'
    <2>1. \A n \in 0..latest : n \in 0..latest'
      BY <1>5
    <2>2. lastJailed' \in 0..latest' /\ lastObserved' \in 0..latest'
      BY <1>1, <1>2, <1>3, <2>1
    <2>3. \A i \in 1..Len(events') : events'[i] \in 0..latest'
      BY <1>6, <2>1
    <2>4. height' \in Nat \ {0} /\ latest' \in 0..height'
      BY <1>3, <1>5
    <2> QED BY <1>6, <1>7, <1>8, <1>9, <2>2, <2>3, <2>4 DEF Ordered
  <1>11. Kept'
    <2>1. PICK R \in Cleaned(PrunableConfirms(asked)) : confirms' = confirms \ R
      BY <1>3
    <2>2. \A c \in R : c[1] < asked
      BY DEF Cleaned, PrunableConfirms
    <2>3. \A c \in signed : c[1] \in Nat
      BY DEF ValsetInv, Kept
    <2>4. lastJailed \in Nat /\ asked \in Nat
      BY <1>1, <1>5 DEF ValsetInv, Ordered
    <2>5. ASSUME NEW c \in signed PROVE c \in confirms' \/ c[1] < asked
      <3>1. CASE c \in confirms
        BY <3>1, <2>1, <2>2
      <3>2. CASE c[1] < lastJailed
        BY <3>2, <2>3, <2>4, <1>1
      <3> QED BY <3>1, <3>2 DEF ValsetInv, Kept
    <2> QED BY <1>3, <2>5 DEF ValsetInv, Kept
  <1> QED BY <1>10, <1>11 DEF ValsetInv

(* The other steps leave sets and signatures alone. *)
LEMMA NextValset == ValsetInv /\ [Next]_vars => ValsetInv'
  <1> SUFFICES ASSUME ValsetInv, [Next]_vars PROVE ValsetInv'
    OBVIOUS
  <1>1. ASSUME UNCHANGED <<requests, confirms, events, signed>>,
               height' = height \/ height' = height + 1
        PROVE  ValsetInv'
    <2>1. Ordered'
      BY <1>1 DEF ValsetInv, Ordered, requests
    <2>2. Kept'
      BY <1>1 DEF ValsetInv, Kept, requests
    <2> QED BY <2>1, <2>2 DEF ValsetInv
  <1>2. ASSUME NEW v \in Validators, SetOrchestratorAddresses(v) PROVE ValsetInv'
    BY <1>1, <1>2 DEF SetOrchestratorAddresses, contract
  <1>3. ASSUME NEW v \in Validators, NEW n \in Nonces, ValsetConfirm(v, n) PROVE ValsetInv'
    BY <1>3, ConfirmValset
  <1>4. ASSUME NEW v \in Validators, Unjail(v) PROVE ValsetInv'
    BY <1>1, <1>4 DEF Unjail, contract
  <1>5. ASSUME NEW n \in DOMAIN members, updateValset(n) PROVE ValsetInv'
    BY <1>5, UpdateValset
  <1>6. ASSUME NEW B, NEW p, NEW M, StakingEndBlock(B, p, M) PROVE ValsetInv'
    BY <1>1, <1>6 DEF StakingEndBlock, contract
  <1>7. ASSUME NEW k \in 0..Len(events), EndBlock(k) PROVE ValsetInv'
    BY <1>7, EndBlockValset
  <1>8. CASE NextBlock
    BY <1>1, <1>8 DEF NextBlock, contract
  <1>9. CASE UNCHANGED vars
    BY <1>1, <1>9 DEF vars, contract
  <1> QED BY <1>2, <1>3, <1>4, <1>5, <1>6, <1>7, <1>8, <1>9 DEF Next

LEMMA ValsetInvariant == Spec => []ValsetInv
  BY InitValset, NextValset, PTL DEF Spec

(* The latest set and every signature of it are there for a relayer,       *)
(* whatever pruneValsets and PruneOldValsetConfirms removed.               *)
THEOREM ValsetLatestKept == Spec => []LatestKept
  <1>1. ValsetInv => LatestKept
    <2> SUFFICES ASSUME ValsetInv, latest # 0
                 PROVE  /\ latest \in valsets
                        /\ \A v \in Validators :
                             <<latest, v>> \in signed => <<latest, v>> \in confirms
      BY DEF LatestKept
    <2>1. latest \in Nat /\ lastJailed \in Nat /\ ~ (latest < lastJailed)
      BY DEF ValsetInv, Ordered
    <2> QED BY <2>1 DEF ValsetInv, Ordered, Kept
  <1> QED BY <1>1, ValsetInvariant, PTL

(* What valsetJailing finds missing was never given. *)
LEMMA MissingNotSigned ==
  ValsetInv /\ [Next]_vars => \A f \in faults' \ faults : f \notin signed
  <1> SUFFICES ASSUME ValsetInv, [Next]_vars, NEW f \in faults' \ faults
               PROVE  f \notin signed
    OBVIOUS
  <1>1. PICK k \in 0..Len(events) : EndBlock(k)
    BY Zenon DEF Next, vars, requests, SetOrchestratorAddresses, ValsetConfirm, Unjail,
           updateValset, StakingEndBlock, NextBlock
  <1>2. PICK n \in Unjailed : \E v \in Offenders(n) : f = <<n, v>>
    BY <1>1 DEF EndBlock
  <1>3. f \notin confirms /\ f[1] = n /\ lastJailed < n
    BY <1>2 DEF Offenders, Unjailed
  <1>4. lastJailed \in Nat /\ n \in Nat
    BY <1>2 DEF ValsetInv, Ordered, Unjailed
  <1> QED BY <1>3, <1>4 DEF ValsetInv, Kept

(* No step of valsetJailing jails a validator over a set it has confirmed. *)
THEOREM ValsetSignersNotJailed == Spec => SignersNotJailed
  <1>1. ValsetInv /\ [Next]_vars => [\A f \in faults' \ faults : f \notin signed]_vars
    BY MissingNotSigned
  <1> QED BY <1>1, ValsetInvariant, PTL DEF Spec, SignersNotJailed

-----------------------------------------------------------------------------
(* A set is stored until jailing has asked for it, and when a block has    *)
(* ended jailing has come to every set that is due. *)
Asking ==
    /\ lastJailed < height
    /\ \A n \in DOMAIN members \ {0} : n \in valsets \/ n <= lastJailed
    /\ phase = "commit" =>
         \A n \in valsets : n < height - SignedValsetsWindow => n <= lastJailed

(* Staking takes no jailed validator, and who was asked and stayed bonded  *)
(* has answered.  Whoever leaves and comes back starts later.              *)
Answered ==
    /\ confirms \subseteq signed
    /\ startHeight \in [Validators -> Nat]
    /\ status \in [Validators -> {"bonded", "unbonding", "unbonded"}]
    /\ phase = "staking" => \A v \in Validators : status[v] = "bonded" => v \notin jailed
    /\ \A n \in DOMAIN members \ {0} : n <= lastJailed =>
         \A v \in Validators :
           v \in DOMAIN members[n] /\ status[v] = "bonded" /\ startHeight[v] <= n
             => <<n, v>> \in signed \cup faults

LEMMA EndBlockAnswered ==
  ASSUME NEW k \in 0..Len(events), ValsetInv, Asking, Answered, EndBlock(k)
  PROVE  Asking' /\ Answered'
  <1> DEFINE asked == Max(Unjailed \cup {lastJailed})
             observed == IF k = 0 THEN lastObserved ELSE events[k]
  <1>1. asked \in 0..latest /\ lastJailed <= asked
    BY Asked
  <1>2. asked \in Unjailed \cup {lastJailed} /\ \A n \in Unjailed : n <= asked
    BY Asked, Zenon
  <1>3. /\ UNCHANGED <<height, signed, status, startHeight>>
        /\ phase = "staking" /\ phase' = "commit"
        /\ lastJailed' = asked
        /\ faults' = faults \cup UNION {{<<n, v>> : v \in Offenders(n)} : n \in Unjailed}
        /\ confirms' \subseteq confirms
    BY DEF EndBlock, staking
  <1>4. \/ /\ DOMAIN members' = DOMAIN members \cup {height}
           /\ \A n \in DOMAIN members : n # height => members'[n] = members[n]
           /\ valsets' = (valsets \cup {height}) \ Prunable(valsets \cup {height}, observed)
        \/ /\ members' = members
           /\ valsets' = valsets \ Prunable(valsets, observed)
    BY Zenon DEF EndBlock
  <1> HIDE DEF asked, observed
  <1>5. /\ height \in Nat /\ latest \in Nat /\ lastJailed \in Nat /\ asked \in Nat
        /\ SignedValsetsWindow \in Nat
        /\ \A n \in valsets : n \in Nat
        /\ \A n \in DOMAIN members : n \in Nat
    BY <1>1, ValsetAssumption DEF ValsetInv, Ordered
  <1>6. asked < height
    BY <1>2, <1>5 DEF Asking, Unjailed
  <1>7. \A n \in valsets : n < height - SignedValsetsWindow => n <= asked
    BY <1>1, <1>2, <1>5 DEF Unjailed
  <1>8. Asking'
    <2>1. ~ (height < height - SignedValsetsWindow)
      BY <1>5
    <2>2. \A n \in valsets' : n < height - SignedValsetsWindow => n <= asked
      BY <1>4, <1>7, <2>1
    <2>3. \A n \in valsets : n \in valsets' \/ n <= asked
      BY <1>4, <1>7 DEF Prunable
    <2>4. \A n \in DOMAIN members \ {0} : n \in valsets' \/ n <= asked
      BY <1>1, <1>5, <2>3 DEF Asking
    <2>5. height \in DOMAIN members' => height \in DOMAIN members \/ height \in valsets'
      BY <1>4, <2>1 DEF Prunable
    <2>6. \A n \in DOMAIN members' \ {0} : n \in valsets' \/ n <= asked
      BY <1>4, <2>4, <2>5
    <2> QED BY <1>3, <1>6, <2>2, <2>6 DEF Asking
  <1>9. ASSUME NEW n \in DOMAIN members' \ {0}, n <= asked, NEW v \in Validators,
               v \in DOMAIN members'[n], status[v] = "bonded", startHeight[v] <= n
        PROVE  <<n, v>> \in signed \cup faults'
    <2>1. n \in DOMAIN members \ {0} /\ n # height /\ members'[n] = members[n]
      BY <1>4, <1>5, <1>6, <1>9
    <2>2. CASE n <= lastJailed
      BY <1>3, <1>9, <2>1, <2>2 DEF Answered
    <2>3. CASE ~ (n <= lastJailed)
      <3>1. n \in valsets /\ lastJailed < n /\ n < height - SignedValsetsWindow
        BY <1>2, <1>5, <1>9, <2>1, <2>3 DEF Asking, Unjailed
      <3>2. n \in Unjailed
        BY <3>1 DEF Unjailed
      <3>3. v \notin jailed
        BY <1>3, <1>9 DEF Answered
      <3>4. CASE <<n, v>> \in confirms
        BY <3>4 DEF Answered
      <3>5. CASE <<n, v>> \notin confirms
        <4>1. v \in Offenders(n)
          BY <1>9, <2>1, <3>3, <3>5 DEF Offenders
        <4> QED BY <1>3, <3>2, <4>1
      <3> QED BY <3>4, <3>5
    <2> QED BY <2>2, <2>3
  <1>10. Answered'
    BY <1>3, <1>9 DEF Answered
  <1> QED BY <1>8, <1>10

(* Who bonds now starts at this block, after every set asked for. *)
LEMMA StakingAnswered ==
  ASSUME NEW B \in SUBSET (Validators \ jailed), NEW p,
         NEW M \in SUBSET {v \in Validators : status[v] = "unbonding"},
         ValsetInv, Asking, Answered, StakingEndBlock(B, p, M)
  PROVE  Asking' /\ Answered'
  <1>1. /\ UNCHANGED <<height, requests, confirms, signed, jailed>>
        /\ phase' = "staking"
        /\ startHeight' = [v \in Validators |->
                            IF v \in B /\ status[v] # "bonded" THEN height
                            ELSE startHeight[v]]
        /\ \A v \in Validators : status'[v] = "bonded" <=> v \in B
        /\ status' \in [Validators -> {"bonded", "unbonding", "unbonded"}]
    BY DEF StakingEndBlock, Answered
  <1>2. Asking'
    BY <1>1 DEF Asking, requests
  <1>3. height \in Nat /\ lastJailed \in Nat /\ \A n \in DOMAIN members : n \in Nat
    BY DEF ValsetInv, Ordered
  <1>4. ASSUME NEW n \in DOMAIN members \ {0}, n <= lastJailed, NEW v \in Validators,
               v \in DOMAIN members[n], status'[v] = "bonded", startHeight'[v] <= n
        PROVE  <<n, v>> \in signed \cup faults
    <2>1. n < height
      BY <1>3, <1>4 DEF Asking
    <2>2. status[v] = "bonded" /\ startHeight'[v] = startHeight[v]
      BY <1>1, <1>3, <1>4, <2>1
    <2> QED BY <1>4, <2>2 DEF Answered
  <1>5. startHeight' \in [Validators -> Nat]
    BY <1>1, <1>3 DEF Answered
  <1>6. \A v \in Validators : status'[v] = "bonded" => v \notin jailed'
    BY <1>1
  <1>7. Answered'
    BY <1>1, <1>4, <1>5, <1>6, SMTT(20) DEF Answered, requests
  <1> QED BY <1>2, <1>7

LEMMA NextAnswered ==
  ValsetInv /\ Asking /\ Answered /\ [Next]_vars => Asking' /\ Answered'
  <1> SUFFICES ASSUME ValsetInv, Asking, Answered, [Next]_vars
               PROVE  Asking' /\ Answered'
    OBVIOUS
  <1>0. height \in Nat /\ lastJailed \in Nat
    BY DEF ValsetInv, Ordered
  <1>1. ASSUME UNCHANGED <<requests, status, startHeight, confirms, signed>>,
               \/ phase # "staking" /\ phase' = "txs" /\ height' \in {height, height + 1}
               \/ UNCHANGED <<phase, height, jailed>>
        PROVE  Asking' /\ Answered'
    <2>1. Asking'
      BY <1>0, <1>1 DEF Asking, requests
    <2>2. Answered'
      BY <1>1 DEF Answered, requests
    <2> QED BY <2>1, <2>2
  <1>2. ASSUME NEW v \in Validators, SetOrchestratorAddresses(v) PROVE Asking' /\ Answered'
    BY <1>1, <1>2 DEF SetOrchestratorAddresses, staking
  <1>3. ASSUME NEW v \in Validators, NEW n \in Nonces, ValsetConfirm(v, n)
        PROVE  Asking' /\ Answered'
    <2>1. Asking'
      BY <1>3 DEF Asking, ValsetConfirm, requests
    <2>2. Answered'
      BY <1>3 DEF Answered, ValsetConfirm, requests, staking
    <2> QED BY <2>1, <2>2
  <1>4. ASSUME NEW v \in Validators, Unjail(v) PROVE Asking' /\ Answered'
    BY <1>1, <1>4 DEF Unjail, staking
  <1>5. ASSUME NEW n \in DOMAIN members, updateValset(n) PROVE Asking' /\ Answered'
    BY <1>1, <1>5 DEF updateValset, staking
  <1>6. ASSUME NEW B \in SUBSET (Validators \ jailed), NEW p,
               NEW M \in SUBSET {v \in Validators : status[v] = "unbonding"},
               StakingEndBlock(B, p, M)
        PROVE  Asking' /\ Answered'
    BY <1>6, StakingAnswered
  <1>7. ASSUME NEW k \in 0..Len(events), EndBlock(k) PROVE Asking' /\ Answered'
    BY <1>7, EndBlockAnswered
  <1>8. CASE NextBlock
    BY <1>1, <1>8 DEF NextBlock, staking
  <1>9. CASE UNCHANGED vars
    BY <1>1, <1>9 DEF vars, staking
  <1> QED BY <1>2, <1>3, <1>4, <1>5, <1>6, <1>7, <1>8, <1>9 DEF Next

(* Once the window has passed, a member of a set that was bonded all along *)
(* has signed it or was found by valsetJailing.                            *)
THEOREM ValsetMembersAnswer == Spec => []MembersAnswer
  <1>1. Init => Asking /\ Answered
    <2> SUFFICES ASSUME Init PROVE Asking /\ Answered
      OBVIOUS
    <2>1. Asking
      BY DEF Init, Asking
    <2>2. Answered
      BY DEF Init, Answered
    <2> QED BY <2>1, <2>2
  <1>2. ValsetInv /\ Asking /\ Answered => MembersAnswer
    BY DEF Asking, Answered, MembersAnswer
  <1> QED BY <1>1, <1>2, NextAnswered, ValsetInvariant, PTL DEF Spec

-----------------------------------------------------------------------------
(* The type of the state, with what it rests on: bonded validators have    *)
(* power, and the contract's events are about sets that were made.         *)
Typed ==
    /\ TypeOK
    /\ \A v \in Validators : status[v] = "bonded" => power[v] \in Powers
    /\ \A i \in 1..Len(events) : events[i] \in DOMAIN members

(* The powers of a set add up to the ceiling, less what is truncated. *)
Normalised(m) ==
    /\ DOMAIN m \subseteq Validators
    /\ SumFunction(m) <= PowerCeiling
    /\ SumFunction(m) + Cardinality(Validators) > PowerCeiling

(* A quotient is the largest number of parts that fit. *)
LEMMA Divided ==
  ASSUME NEW a \in Nat, NEW b \in Nat \ {0}
  PROVE  a \div b \in Nat /\ b * (a \div b) <= a /\ a + 1 <= b * ((a \div b) + 1)
  <1>1. a \div b \in Int /\ a % b \in 0..(b - 1) /\ a = b * (a \div b) + (a % b)
    OBVIOUS
  <1>2. a \div b \in Nat
    OBVIOUS
  <1> DEFINE q == a \div b
  <1>3. b * (q + 1) = b * q + b /\ b * q \in Int
    BY <1>1
  <1> HIDE DEF q
  <1>4. a % b \in Int /\ a % b >= 0 /\ (a % b) + 1 <= b
    BY <1>1
  <1> QED BY <1>1, <1>2, <1>3, <1>4 DEF q

(* Powers in proportion to f, which sums up to s, are normalised. *)
LEMMA NormalisedParts ==
  ASSUME NEW m, NEW S \in SUBSET Validators, S # {}, DOMAIN m = S,
         NEW f, NEW s \in Nat \ {0}, SumFunctionOnSet(f, S) = s,
         \A v \in S : f[v] \in Nat /\ m[v] = (f[v] * PowerCeiling) \div s
  PROVE  Normalised(m)
  <1>1. IsFiniteSet(S) /\ PowerCeiling \in Nat /\ IsFiniteSet(Validators)
    BY ValsetAssumption, FS_Subset
  <1>2. Scaled(f, m, S, PowerCeiling, s)
    <2> SUFFICES ASSUME NEW v \in S
                 PROVE  /\ f[v] \in Nat /\ m[v] \in Nat
                        /\ s * m[v] <= PowerCeiling * f[v]
                        /\ PowerCeiling * f[v] + 1 <= s * (m[v] + 1)
      BY DEF Scaled
    <2>1. f[v] * PowerCeiling \in Nat /\ f[v] * PowerCeiling = PowerCeiling * f[v]
      BY <1>1
    <2> QED BY <2>1, Divided, Zenon
  <1>3. /\ SumFunctionOnSet(m, S) \in Nat /\ SumFunctionOnSet(m, S) <= PowerCeiling
        /\ SumFunctionOnSet(m, S) + Cardinality(S) > PowerCeiling
    BY <1>1, <1>2, SumParts
  <1>4. /\ Cardinality(S) \in Nat /\ Cardinality(Validators) \in Nat
        /\ Cardinality(S) <= Cardinality(Validators)
    BY <1>1, FS_Subset, FS_CardinalityType
  <1>5. SumFunction(m) = SumFunctionOnSet(m, S)
    BY DEF SumFunction
  <1> QED BY <1>1, <1>3, <1>4, <1>5 DEF Normalised

(* GetCurrentValset, of the validators that are left. *)
LEMMA CurrentNormalised ==
  ASSUME NEW J, Typed
  PROVE  LET current == GetCurrentValset(J)
         IN  /\ DOMAIN current = Bonded(J) \cap keys
             /\ \A v \in DOMAIN current : current[v] \in Nat
             /\ DOMAIN current # {} => Normalised(current)
  <1> DEFINE S == Bonded(J) \cap keys
             current == GetCurrentValset(J)
             s == SumFunctionOnSet(power, S)
  <1>1. S \in SUBSET Validators /\ IsFiniteSet(S) /\ PowerCeiling \in Nat
    BY ValsetAssumption, FS_Subset DEF Bonded
  <1>2. \A v \in S : power[v] \in Nat \ {0}
    BY ValsetAssumption, Zenon DEF Typed, Bonded
  <1>3. DOMAIN current = S /\ \A v \in S : current[v] = (power[v] * PowerCeiling) \div s
    BY DEF GetCurrentValset
  <1>4. S # {} => s \in Nat \ {0}
    <2> HIDE DEF S
    <2> QED BY <1>1, <1>2, SumPositive
  <1> HIDE DEF s, S, current
  <1>5. \A v \in S : current[v] \in Nat
    <2> SUFFICES ASSUME NEW v \in S PROVE current[v] \in Nat
      OBVIOUS
    <2>1. power[v] * PowerCeiling \in Nat /\ s \in Nat \ {0}
      BY <1>1, <1>2, <1>4
    <2> QED BY <1>3, <2>1
  <1>6. S # {} => Normalised(current)
    <2>1. \A v \in S : power[v] \in Nat
      BY <1>2
    <2> QED BY <1>1, <1>3, <1>4, <2>1, NormalisedParts DEF s
  <1> QED BY <1>3, <1>5, <1>6 DEF S, current

(* Powers has a least element. *)
LEMMA LeastPower == Min(Powers) \in Powers
  <1> DEFINE R == OpToRel(<, Nat)
  <1>1. Powers \subseteq Nat /\ Powers # {}
    BY ValsetAssumption
  <1>2. PICK m \in Powers : \A y \in Powers : ~ (<<y, m>> \in R)
    <2> HIDE DEF R
    <2>1. IsWellFoundedOn(R, Nat)
      BY NatLessThanWellFounded DEF R
    <2> QED BY <1>1, <2>1, WFMin, Zenon
  <1>3. \A y \in Powers : ~ (y < m)
    BY <1>1, <1>2, Zenon DEF OpToRel
  <1>4. \A y \in Powers : m <= y
    BY <1>1, <1>3
  <1> QED BY <1>4, Zenon DEF Min

LEMMA InitTyped == Init => Typed
  <1> SUFFICES ASSUME Init PROVE Typed
    OBVIOUS
  <1>1. /\ status \in [Validators -> {"bonded", "unbonding", "unbonded"}]
        /\ power \in [Validators -> Powers \cup {0}]
        /\ \A v \in Validators : status[v] = "bonded" => power[v] \in Powers
    BY LeastPower DEF Init
  <1>2. keys \in SUBSET Validators /\ keys # {} /\ IsFiniteSet(keys) /\ PowerCeiling \in Nat
    BY ValsetAssumption, FS_Subset DEF Init
  <1>3. Normalised(members[0])
    <2> DEFINE m == members[0]
               n == Cardinality(keys)
               f == [v \in keys |-> 1]
    <2>1. n \in Nat \ {0}
      BY <1>2, FS_CardinalityType, FS_EmptySet
    <2>2. DOMAIN m = keys /\ \A v \in keys : m[v] = PowerCeiling \div n
      BY DEF Init
    <2>3. SumFunctionOnSet(f, keys) = n
      <3>1. \A v \in keys : f[v] = 1
        OBVIOUS
      <3> HIDE DEF f
      <3> QED BY <1>2, <3>1, SumOnes
    <2>4. \A v \in keys : f[v] \in Nat /\ f[v] * PowerCeiling = PowerCeiling
      BY <1>2
    <2> HIDE DEF m, n, f
    <2>5. \A v \in keys : f[v] \in Nat /\ m[v] = (f[v] * PowerCeiling) \div n
      BY <2>2, <2>4, ZenonT(30)
    <2>6. Normalised(m)
      BY <1>2, <2>1, <2>2, <2>3, <2>5, NormalisedParts
    <2> QED BY <2>6 DEF m
  <1>4. /\ DOMAIN members = {0} /\ valsets = {} /\ latest = 0 /\ confirms = {} /\ signed = {}
        /\ lastJailed = 0 /\ lastObserved = 0 /\ jailed = {} /\ phase = "txs" /\ height = 1
        /\ events = << >>
    BY DEF Init
  <1>5. height \in Nonces
    BY <1>4, ValsetAssumption DEF Nonces
  <1>6. \A n \in DOMAIN members : Normalised(members[n])
    BY <1>3, <1>4
  <1>7. \A i \in 1..Len(events) : events[i] \in DOMAIN members
    BY <1>4
  <1> QED BY <1>1, <1>2, <1>4, <1>5, <1>6, <1>7 DEF Typed, TypeOK, Normalised

(* The sets that were made. *)
MembersTyped ==
    /\ valsets \subseteq DOMAIN members \ {0} /\ latest \in DOMAIN members
    /\ lastJailed \in DOMAIN members /\ lastObserved \in DOMAIN members
    /\ \A n \in DOMAIN members : Normalised(members[n])
    /\ \A i \in 1..Len(events) : events[i] \in DOMAIN members

(* The validators, and what they have signed. *)
ValidatorsTyped ==
    /\ height \in Nonces /\ phase \in {"txs", "staking", "commit"}
    /\ status \in [Validators -> {"bonded", "unbonding", "unbonded"}]
    /\ power \in [Validators -> Powers \cup {0}]
    /\ \A v \in Validators : status[v] = "bonded" => power[v] \in Powers
    /\ jailed \subseteq Validators /\ keys \subseteq Validators
    /\ confirms \subseteq signed /\ signed \subseteq Nonces \X Validators

LEMMA TypedParts == Typed <=> MembersTyped /\ ValidatorsTyped
  BY SMTT(20) DEF Typed, TypeOK, MembersTyped, ValidatorsTyped, Normalised

LEMMA EndBlockTyped ==
  ASSUME NEW k \in 0..Len(events), ValsetInv, Typed, EndBlock(k)
  PROVE  Typed'
  <1> DEFINE asked == Max(Unjailed \cup {lastJailed})
             found == UNION {{<<n, v>> : v \in Offenders(n)} : n \in Unjailed}
             current == GetCurrentValset(jailed \cup {f[2] : f \in found})
             observed == IF k = 0 THEN lastObserved ELSE events[k]
  <1>1. MembersTyped /\ ValidatorsTyped
    BY TypedParts
  <1>2. asked \in Unjailed \cup {lastJailed}
    BY Asked, Zenon
  <1>3. asked \in DOMAIN members /\ observed \in DOMAIN members
    BY <1>1, <1>2, SMTT(20) DEF MembersTyped, Unjailed
  <1>4. /\ phase' = "commit" /\ lastJailed' = asked /\ lastObserved' = observed
        /\ jailed' = jailed \cup {f[2] : f \in found}
        /\ events' = SubSeq(events, k + 1, Len(events))
        /\ confirms' \subseteq confirms
        /\ UNCHANGED <<height, status, power, keys, signed>>
    BY DEF EndBlock, staking
  <1>5. \/ /\ DOMAIN current # {} /\ latest' = height
           /\ members' = [n \in DOMAIN members \cup {height} |->
                            IF n = height THEN current ELSE members[n]]
           /\ valsets' \subseteq valsets \cup {height}
        \/ latest' = latest /\ members' = members /\ valsets' \subseteq valsets
    BY Zenon DEF EndBlock
  <1>6. DOMAIN current # {} => Normalised(current)
    BY CurrentNormalised, ZenonT(30)
  <1>7. jailed' \subseteq Validators
    <2>1. ASSUME NEW f \in found PROVE f[2] \in Validators
      <3>1. PICK n \in Unjailed : \E v \in Offenders(n) : f = <<n, v>>
        BY <2>1, Zenon
      <3> QED BY <3>1, SMTT(20) DEF Offenders
    <2> HIDE DEF found
    <2> QED BY <1>1, <1>4, <2>1, ZenonT(30) DEF ValidatorsTyped
  <1> HIDE DEF asked, observed, current, found
  <1>8. ValidatorsTyped'
    BY <1>1, <1>4, <1>7, Zenon DEF ValidatorsTyped
  <1>9. DOMAIN members \subseteq DOMAIN members' /\ \A n \in DOMAIN members' : Normalised(members'[n])
    BY <1>1, <1>5, <1>6, Zenon DEF MembersTyped
  <1>10. height # 0
    BY DEF ValsetInv, Ordered
  <1>11. valsets' \subseteq DOMAIN members' \ {0} /\ latest' \in DOMAIN members'
    BY <1>1, <1>5, <1>10 DEF MembersTyped
  <1>12. \A i \in 1..Len(events') : events'[i] \in DOMAIN members
    <2>1. \A i \in 1..Len(events') : i + k \in 1..Len(events) /\ events'[i] = events[i + k]
      <3>1. events \in Seq(Nat)
        BY DEF ValsetInv, Ordered
      <3> QED BY <1>4, <3>1, EventsLeft, Zenon
    <2> QED BY <1>1, <2>1, Zenon DEF MembersTyped
  <1>13. MembersTyped'
    <2>1. lastJailed' \in DOMAIN members' /\ lastObserved' \in DOMAIN members'
      BY <1>3, <1>4, <1>9
    <2>2. \A i \in 1..Len(events') : events'[i] \in DOMAIN members'
      BY <1>9, <1>12
    <2> QED BY <1>9, <1>11, <2>1, <2>2, Zenon DEF MembersTyped
  <1>14. (MembersTyped /\ ValidatorsTyped)'
    BY <1>8, <1>13
  <1> QED BY <1>14 DEF Typed, TypeOK, MembersTyped, ValidatorsTyped, Normalised

LEMMA NextTyped ==
  ASSUME ValsetInv, Typed, [Next]_vars
  PROVE  Typed'
  <1>1. MembersTyped /\ ValidatorsTyped
    BY TypedParts, SMTT(20)
  <1>2. ASSUME MembersTyped', ValidatorsTyped'
        PROVE  Typed'
    BY <1>2 DEF Typed, TypeOK, MembersTyped, ValidatorsTyped, Normalised
  <1>3. ASSUME UNCHANGED <<requests, events>> PROVE MembersTyped'
    BY <1>1, <1>3 DEF MembersTyped, requests
  <1>4. ASSUME NEW v \in Validators, SetOrchestratorAddresses(v) PROVE Typed'
    <2>1. ValidatorsTyped'
      BY <1>1, <1>4 DEF ValidatorsTyped, SetOrchestratorAddresses, staking, requests
    <2> QED BY <1>2, <1>3, <1>4, <2>1 DEF SetOrchestratorAddresses, contract
  <1>5. ASSUME NEW v \in Validators, NEW n \in Nonces, ValsetConfirm(v, n) PROVE Typed'
    <2>1. ValidatorsTyped'
      BY <1>1, <1>5 DEF ValidatorsTyped, ValsetConfirm, staking, requests
    <2> QED BY <1>2, <1>3, <1>5, <2>1, SMTT(20) DEF ValsetConfirm, contract
  <1>6. ASSUME NEW v \in Validators, Unjail(v) PROVE Typed'
    <2>1. ValidatorsTyped'
      BY <1>1, <1>6 DEF ValidatorsTyped, Unjail, staking, requests
    <2> QED BY <1>2, <1>3, <1>6, <2>1 DEF Unjail, contract
  <1>7. ASSUME NEW n \in DOMAIN members, updateValset(n) PROVE Typed'
    <2>1. ValidatorsTyped'
      BY <1>1, <1>7 DEF ValidatorsTyped, updateValset, staking, requests
    <2>2. events' = Append(events, n) /\ UNCHANGED requests
      BY <1>7 DEF updateValset
    <2>3. events \in Seq(Nat) /\ n \in Nat
      BY DEF ValsetInv, Ordered
    <2>4. \A i \in 1..Len(events') : events'[i] = n \/ (i \in 1..Len(events) /\ events'[i] = events[i])
      BY <2>2, <2>3
    <2>5. MembersTyped'
      BY <1>1, <2>2, <2>4 DEF MembersTyped, requests
    <2> QED BY <1>2, <2>1, <2>5
  <1>8. ASSUME NEW B \in SUBSET (Validators \ jailed), NEW p \in [B -> Powers],
               NEW M \in SUBSET {v \in Validators : status[v] = "unbonding"},
               StakingEndBlock(B, p, M)
        PROVE  Typed'
    <2>1. /\ status' \in [Validators -> {"bonded", "unbonding", "unbonded"}]
          /\ \A v \in Validators : status'[v] = "bonded" <=> v \in B
      BY <1>1, <1>8, SMTT(20) DEF StakingEndBlock, ValidatorsTyped
    <2>2. /\ power' \in [Validators -> Powers \cup {0}]
          /\ \A v \in B : power'[v] \in Powers
      BY <1>8 DEF StakingEndBlock
    <2>3. phase' = "staking" /\ UNCHANGED <<height, jailed, keys, requests, confirms, events, signed>>
      BY <1>8 DEF StakingEndBlock, contract
    <2>4. ValidatorsTyped'
      BY <1>1, <2>1, <2>2, <2>3 DEF ValidatorsTyped, requests
    <2> QED BY <1>2, <1>3, <2>3, <2>4, SMTT(20)
  <1>9. ASSUME NEW k \in 0..Len(events), EndBlock(k) PROVE Typed'
    BY <1>9, EndBlockTyped
  <1>10. CASE NextBlock
    <2>1. height' \in Nonces
      BY <1>1, <1>10, ValsetAssumption, SMTT(20) DEF NextBlock, ValidatorsTyped, Nonces
    <2>2. ValidatorsTyped'
      BY <1>1, <1>10, <2>1, SMTT(20) DEF ValidatorsTyped, NextBlock, staking, requests
    <2> QED BY <1>2, <1>3, <1>10, <2>2 DEF NextBlock, contract
  <1>11. CASE UNCHANGED vars
    BY <1>1, <1>2, <1>3, <1>11 DEF vars, ValidatorsTyped, staking, contract
  <1> QED BY <1>4, <1>5, <1>6, <1>7, <1>8, <1>9, <1>10, <1>11, Zenon DEF Next

-----------------------------------------------------------------------------
(* The latest set holds no validator that has begun to unbond, unless this *)
(* block is still to make a new one.                                       *)
Followed ==
    /\ LatestFollowsStaking
    /\ ~emptied /\ latest # 0 /\ (phase = "staking" => lastUnbonding # height) =>
         \A v \in DOMAIN members[latest] : status[v] = "bonded"

(* A set has not drifted from itself. *)
LEMMA NoDrift ==
  ASSUME NEW m, IsFiniteSet(DOMAIN m), \A v \in DOMAIN m : m[v] \in Nat
  PROVE  ~Drifted(m, m)
  <1> DEFINE f == [v \in DOMAIN m \cup DOMAIN m |->
                     Abs((IF v \in DOMAIN m THEN m[v] ELSE 0)
                           - (IF v \in DOMAIN m THEN m[v] ELSE 0))]
  <1>1. DOMAIN f = DOMAIN m /\ \A v \in DOMAIN m : f[v] = 0
    BY DEF Abs
  <1>2. PowerDiff(m, m) = SumFunction(f)
    BY DEF PowerDiff
  <1> HIDE DEF f
  <1>3. PowerDiff(m, m) = 0
    BY <1>1, <1>2, SumZero DEF SumFunction
  <1> QED BY <1>3, ValsetAssumption DEF Drifted

(* The set that a block leaves. *)
LEMMA EndBlockFollowed ==
  ASSUME NEW k \in 0..Len(events), ValsetInv, Typed, Followed, EndBlock(k)
  PROVE  Followed'
  <1> DEFINE found == UNION {{<<n, v>> : v \in Offenders(n)} : n \in Unjailed}
             current == GetCurrentValset(jailed \cup {f[2] : f \in found})
             creates == CreatesValset(current) /\ DOMAIN current # {}
  <1>1. /\ phase = "staking" /\ phase' = "commit"
        /\ jailed' = jailed \cup {f[2] : f \in found}
        /\ UNCHANGED <<height, status, power, keys, lastUnbonding>>
        /\ emptied' = (emptied \/ DOMAIN current = {})
        /\ latest' = IF creates THEN height ELSE latest
        /\ members' = IF creates THEN [n \in DOMAIN members \cup {height} |->
                                        IF n = height THEN current ELSE members[n]]
                      ELSE members
    BY Zenon DEF EndBlock, staking
  <1>2. /\ DOMAIN current = Bonded(jailed') \cap keys
        /\ \A v \in DOMAIN current : current[v] \in Nat
        /\ IsFiniteSet(DOMAIN current)
    <2>1. /\ DOMAIN current = Bonded(jailed \cup {f[2] : f \in found}) \cap keys
          /\ \A v \in DOMAIN current : current[v] \in Nat
      BY CurrentNormalised, Zenon
    <2> HIDE DEF current, found
    <2>2. IsFiniteSet(DOMAIN current)
      BY <2>1, ValsetAssumption, FS_Subset DEF Bonded
    <2> QED BY <1>1, <2>1, <2>2, Zenon
  <1>3. /\ (Bonded(jailed) \cap keys)' = DOMAIN current
        /\ GetCurrentValset(jailed)' = current
    BY <1>1, <1>2, Zenon DEF Bonded, GetCurrentValset
  <1> HIDE DEF found, current
  <1>4. CASE creates
    <2>1. latest' = height /\ members'[latest'] = current
      BY <1>1, <1>4
    <2>2. ~Drifted(current, members'[latest'])
      BY <1>2, <2>1, NoDrift
    <2>3. \A v \in DOMAIN members'[latest'] : status'[v] = "bonded"
      BY <1>1, <1>2, <2>1 DEF Bonded
    <2> QED BY <1>3, <2>2, <2>3, Zenon DEF Followed, LatestFollowsStaking
  <1>5. CASE ~creates /\ DOMAIN current # {}
    <2>1. /\ latest \in valsets /\ lastUnbonding # height
          /\ ~Drifted(current, members[latest])
      BY <1>5 DEF CreatesValset
    <2>2. latest' = latest /\ members' = members /\ (emptied' <=> emptied)
      BY <1>1, <1>5, Zenon
    <2>3. latest # 0
      BY <2>1 DEF ValsetInv, Ordered
    <2>4. ~emptied' => \A v \in DOMAIN members'[latest'] : status'[v] = "bonded"
      BY <1>1, <2>1, <2>2, <2>3 DEF Followed
    <2> QED BY <1>3, <2>1, <2>2, <2>4, Zenon DEF Followed, LatestFollowsStaking
  <1>6. CASE DOMAIN current = {}
    <2>1. emptied'
      BY <1>1, <1>6, Zenon
    <2> QED BY <1>3, <1>6, <2>1, Zenon DEF Followed, LatestFollowsStaking
  <1> QED BY <1>4, <1>5, <1>6, Zenon

LEMMA NextFollowed ==
  ASSUME ValsetInv, Typed, Followed, [Next]_vars
  PROVE  Followed'
  <1>1. ASSUME UNCHANGED <<latest, members, emptied, status>>,
               phase' = "txs", phase # "staking"
        PROVE  Followed'
    BY <1>1, SMTT(20) DEF Followed, LatestFollowsStaking
  <1>2. ASSUME UNCHANGED <<latest, members, emptied, status, power, keys, jailed, phase,
                           lastUnbonding, height>>
        PROVE  Followed'
    BY <1>2 DEF Followed, LatestFollowsStaking, Bonded, GetCurrentValset
  <1>3. ASSUME NEW B \in SUBSET (Validators \ jailed), NEW p \in [B -> Powers],
               NEW M \in SUBSET {v \in Validators : status[v] = "unbonding"},
               StakingEndBlock(B, p, M)
        PROVE  Followed'
    <2> DEFINE begin == {v \in Validators \ B : status[v] = "bonded"}
    <2>1. /\ phase = "txs" /\ phase' = "staking" /\ UNCHANGED <<height, latest, members, emptied>>
          /\ lastUnbonding' = IF begin # {} THEN height ELSE lastUnbonding
          /\ \A v \in Validators : v \in B => status'[v] = "bonded"
      BY <1>3 DEF StakingEndBlock, requests
    <2>2. latest \in DOMAIN members /\ DOMAIN members[latest] \subseteq Validators
      BY DEF Typed, TypeOK
    <2>3. ASSUME ~emptied, latest # 0, lastUnbonding' # height, NEW v \in DOMAIN members[latest]
          PROVE  status'[v] = "bonded"
      <3>1. begin = {}
        BY <2>1, <2>3, Zenon
      <3>2. status[v] = "bonded"
        BY <2>1, <2>3, SMTT(20) DEF Followed
      <3> QED BY <2>1, <2>2, <2>3, <3>1, <3>2
    <2>4. LatestFollowsStaking'
      BY <2>1, SMTT(20) DEF LatestFollowsStaking
    <2> HIDE DEF begin
    <2> QED BY <2>1, <2>3, <2>4, ZenonT(30) DEF Followed
  <1>4. CASE \/ \E v \in Validators : SetOrchestratorAddresses(v) \/ Unjail(v)
             \/ \E v \in Validators, n \in Nonces : ValsetConfirm(v, n)
             \/ NextBlock
    BY <1>1, <1>4, Zenon
       DEF SetOrchestratorAddresses, Unjail, ValsetConfirm, NextBlock, requests, staking
  <1>5. CASE UNCHANGED vars \/ \E n \in DOMAIN members : updateValset(n)
    BY <1>2, <1>5, Zenon DEF vars, updateValset, requests, staking
  <1> QED BY <1>3, <1>4, <1>5, EndBlockFollowed, ZenonT(30) DEF Next

LEMMA TypedFollowed == Spec => [](Typed /\ Followed)
  <1>1. Init => Followed
    BY DEF Init, Followed, LatestFollowsStaking
  <1>2. ValsetInv /\ Typed /\ Followed /\ [Next]_vars => (Typed /\ Followed)'
    BY NextTyped, NextFollowed
  <1> QED BY <1>1, <1>2, InitTyped, ValsetInvariant, PTL DEF Spec

(* The latest set and its signatures are there for a relayer, whatever     *)
(* pruneValsets and PruneOldValsetConfirms removed; the powers of every    *)
(* set that GetCurrentValset made add up to the ceiling, less one at most  *)
(* for each validator.                                                     *)
THEOREM ValsetLatestRelayable == Spec => []LatestIsRelayable
  <1>1. Typed /\ LatestKept => LatestIsRelayable
    BY DEF Typed, LatestIsRelayable
  <1> QED BY <1>1, TypedFollowed, ValsetLatestKept, PTL

(* After every block createValsets leaves a latest set within 5 % of the   *)
(* validators that jailing has left, and without those that have begun to  *)
(* unbond.                                                                 *)
THEOREM ValsetFollowsStaking == Spec => []LatestFollowsStaking
  <1>1. Followed => LatestFollowsStaking
    BY DEF Followed
  <1> QED BY <1>1, TypedFollowed, PTL
=============================================================================
