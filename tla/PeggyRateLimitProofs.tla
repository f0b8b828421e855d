----------------------- MODULE PeggyRateLimitProofs -----------------------
(***************************************************************************)
(* Proofs about PeggyRateLimit, for any tokens, limits, prices, amounts,   *)
(* pruning bound and length of the chain.                                  *)
(*                                                                         *)
(* The argument.  A record is the flow of its block or is gone (Recording):*)
(* nothing is on record ahead of time, a message about limits comes before *)
(* the flows of its block, and what a BeginBlocker drops is outside of the *)
(* window.  Records of blocks that are over are found by the passive       *)
(* pruning (Netted), and the net outflow is theirs (NetMatches).           *)
(*                                                                         *)
(* For a limit that is left alone the records are those of its window and  *)
(* no others (Kept), so that CheckRateLimit compares what really left, and *)
(* came in, with the limit.  It counts the batches that are under way as   *)
(* well.  What has left since, together with what is still under way, is   *)
(* therefore bounded from then on (Bounded): executing a batch moves its   *)
(* amount from the one to the other.                                       *)
(***************************************************************************)
EXTENDS PeggyRateLimit, FiniteSetTheorems, WellFoundedInduction, TLAPS

-----------------------------------------------------------------------------
(* The records *)

(* The types that do not depend on sums, and what is later than what. *)
LimitTypes ==
    /\ height \in Heights /\ phase \in {"txs", "tally", "commit"}
    /\ limit \in [Tokens -> Limits \cup {NoLimit}]
    /\ inflow \in [Tokens -> [Heights -> Nat]]
    /\ outflow \in [Tokens -> [Heights -> Nat]]
    /\ received \in [Tokens -> [Heights -> Nat]]
    /\ sent \in [Tokens -> [Heights -> Nat]]
    /\ hasNet \subseteq Tokens
    /\ trackedFrom \in [Tokens -> Heights]
    /\ builtAt \in [Tokens -> Nat]
    /\ \A t \in Tokens : trackedFrom[t] <= height /\ builtAt[t] <= height
    /\ nextBatch \in Nat /\ limitChanges \in Nat

(* Batches have ids of their own. *)
BatchTypes ==
    /\ batches \subseteq [id : Nat, token : Tokens, amount : Amounts]
    /\ IsFiniteSet(batches)
    /\ \A b \in batches : b.id < nextBatch

(* The record x of a block h whose flow was y, for a token with limit l    *)
(* (tracked from block `from` on), in phase ph of block now: nothing is on *)
(* record before its time, nothing in the block under way without a limit, *)
(* and a limit has all of its window on record.                            *)
Faithful(x, y, h, now, ph, l, from) ==
    /\ h > now \/ (h = now /\ ph = "txs") => x = 0 /\ y = 0
    /\ h = now /\ l = NoLimit /\ ph = "tally" => x = 0
    /\ x \in {0, y}
    /\ l # NoLimit /\ from <= h /\ h <= now /\ h > now - l.window => x = y

Recording ==
    \A t \in Tokens, h \in Heights :
        /\ Faithful(inflow[t][h], received[t][h], h, height, phase, limit[t], trackedFrom[t])
        /\ Faithful(outflow[t][h], sent[t][h], h, height, phase, limit[t], trackedFrom[t])

(* Records of blocks that are over are found by the net outflow's key. *)
Netted ==
    \A t \in Tokens, h \in Heights :
        (h < height \/ phase = "commit") /\ (inflow[t][h] # 0 \/ outflow[t][h] # 0)
            => t \in hasNet

RecordsInv == LimitTypes /\ BatchTypes /\ Recording /\ Netted

(* Arithmetic that first-order leaves use. *)
LEMMA NatInt == \A n \in Nat : n \in Int
  OBVIOUS

LEMMA PlusZero == \A n \in Nat : n = n + 0
  OBVIOUS

(* A limit that is there has a window of at least one block. *)
LEMMA WindowType ==
  ASSUME LimitTypes, NEW t \in Tokens, Limited(t)
  PROVE  limit[t].window \in Nat /\ limit[t].window > 0 /\ limit[t].usd \in Nat
         /\ limit[t].usd > 0
  BY RateLimitAssumption DEF RateLimitAssumption, LimitTypes, Limited

(* A message about the limit, before anything of the block is on record: a *)
(* new limit starts with it, a changed one has the old window at most.     *)
LEMMA ChangeFaithful ==
  ASSUME NEW x \in Nat, NEW y \in Nat, NEW h \in Nat, NEW now \in Nat,
         NEW l, NEW from \in Nat, NEW l2, NEW from2 \in Nat,
         l2 # NoLimit => l2.window \in Nat,
         l # NoLimit => l.window \in Nat,
         \/ l2 = NoLimit
         \/ from2 = now
         \/ l # NoLimit /\ from2 >= from /\ from2 > now - l.window,
         Faithful(x, y, h, now, "txs", l, from)
  PROVE  Faithful(x, y, h, now, "txs", l2, from2)
  BY DEF Faithful

(* One more flow of token t in block h. *)
LEMMA FlowAdded ==
  ASSUME NEW r \in [Tokens -> [Heights -> Nat]], NEW t \in Tokens, NEW h \in Heights,
         NEW a \in Nat
  PROVE  /\ [r EXCEPT ![t][h] = @ + a] \in [Tokens -> [Heights -> Nat]]
         /\ \A u \in Tokens, g \in Heights :
                [r EXCEPT ![t][h] = @ + a][u][g]
                    = IF u = t /\ g = h THEN r[u][g] + a ELSE r[u][g]
  OBVIOUS

(* The larger of two numbers. *)
LEMMA MaxOfTwo ==
  ASSUME NEW a \in Int, NEW b \in Int
  PROVE  Max({a, b}) = IF a >= b THEN a ELSE b
  <1>1. \E x \in {a, b} : \A y \in {a, b} : x >= y
    OBVIOUS
  <1>2. Max({a, b}) \in {a, b} /\ \A y \in {a, b} : Max({a, b}) >= y
    BY <1>1, Zenon DEF Max
  <1> HIDE DEF Max
  <1> QED
    BY <1>2

(* A new chain has no flows. *)
LEMMA InitRecords ==
  ASSUME Init
  PROVE  RecordsInv
  <1>1. 1 \in Heights
    BY RateLimitAssumption DEF RateLimitAssumption, Heights
  <1>2. LimitTypes
    BY <1>1 DEF Init, LimitTypes, NoFlow
  <1>3. BatchTypes
    BY FS_EmptySet, Zenon DEF Init, BatchTypes
  <1>4. /\ inflow = NoFlow /\ outflow = NoFlow /\ received = NoFlow /\ sent = NoFlow
        /\ trackedFrom = [t \in Tokens |-> 1] /\ phase = "txs" /\ height = 1
    BY Zenon DEF Init
  <1>5. \A t \in Tokens, h \in Heights : NoFlow[t][h] = 0
    BY Zenon DEF NoFlow
  <1>6. Recording
    BY <1>4, <1>5, Zenon DEF Recording, Faithful
  <1>7. Netted
    BY <1>4, <1>5, Zenon DEF Netted
  <1> QED
    BY <1>2, <1>3, <1>6, <1>7, Zenon DEF RecordsInv

(* RequestBatch gives the batch an id of its own. *)
LEMMA RequestRecords ==
  ASSUME RecordsInv, NEW t \in Tokens, NEW a \in Amounts, NEW p \in Prices,
         RequestBatch(t, a, p)
  PROVE  RecordsInv'
  <1> DEFINE b == [id |-> nextBatch, token |-> t, amount |-> a]
  <1>1. /\ UNCHANGED <<height, phase, limit, inflow, outflow, hasNet, limitChanges,
                       received, sent, trackedFrom>>
        /\ batches' = batches \cup {b} /\ nextBatch' = nextBatch + 1
        /\ builtAt' = [builtAt EXCEPT ![t] = height]
    BY Zenon DEF RequestBatch, records
  <1>2. height \in Nat /\ height <= height
    BY DEF RecordsInv, LimitTypes, Heights
  <1>3. /\ builtAt' \in [Tokens -> Nat]
        /\ \A u \in Tokens : trackedFrom'[u] <= height' /\ builtAt'[u] <= height'
    BY <1>1, <1>2, Zenon DEF RecordsInv, LimitTypes
  <1>4. nextBatch' \in Nat /\ nextBatch < nextBatch'
    BY <1>1 DEF RecordsInv, LimitTypes
  <1>5. LimitTypes'
    BY <1>1, <1>3, <1>4, Zenon DEF RecordsInv, LimitTypes, Heights
  <1>6. b \in [id : Nat, token : Tokens, amount : Amounts] /\ b.id = nextBatch
    BY DEF RecordsInv, LimitTypes
  <1>7. IsFiniteSet(batches')
    BY <1>1, FS_AddElement, Zenon DEF RecordsInv, BatchTypes
  <1>8. \A c \in batches : c.id < nextBatch'
    BY <1>1 DEF RecordsInv, LimitTypes, BatchTypes
  <1>9. BatchTypes'
    BY <1>1, <1>4, <1>6, <1>7, <1>8, Zenon DEF RecordsInv, BatchTypes
  <1>10. Recording' /\ Netted'
    BY <1>1, Zenon DEF RecordsInv, Recording, Netted, Heights
  <1> QED
    BY <1>5, <1>9, <1>10, Zenon DEF RecordsInv

(* The messages about limits change nothing on record. *)
LEMMA ChangeRecords ==
  ASSUME RecordsInv, NEW t \in Tokens, NEW l \in Limits \cup {NoLimit}, Change(t, l),
         NEW from \in Heights, trackedFrom' = [trackedFrom EXCEPT ![t] = from],
         from <= height,
         \/ l = NoLimit
         \/ from = height
         \/ Limited(t) /\ from >= trackedFrom[t] /\ from > height - limit[t].window
  PROVE  RecordsInv'
  <1>1. /\ UNCHANGED <<height, phase, inflow, outflow, hasNet, batches, nextBatch,
                       received, sent, builtAt>>
        /\ phase = "txs" /\ limit' = [limit EXCEPT ![t] = l]
        /\ limitChanges' = limitChanges + 1
    BY Zenon DEF Change, records
  <1>2. /\ limit' \in [Tokens -> Limits \cup {NoLimit}]
        /\ trackedFrom' \in [Tokens -> Heights]
        /\ \A u \in Tokens : trackedFrom'[u] <= height' /\ builtAt'[u] <= height'
    BY <1>1, Zenon DEF RecordsInv, LimitTypes
  <1>3. limitChanges' \in Nat
    BY <1>1 DEF RecordsInv, LimitTypes
  <1>4. LimitTypes'
    BY <1>1, <1>2, <1>3, Zenon DEF RecordsInv, LimitTypes, Heights
  <1>5. BatchTypes'
    BY <1>1, Zenon DEF RecordsInv, BatchTypes
  <1>6. Netted'
    BY <1>1, Zenon DEF RecordsInv, Netted, Heights
  <1>7. ASSUME NEW h \in Heights, NEW x \in Nat, NEW y \in Nat,
               Faithful(x, y, h, height, "txs", limit[t], trackedFrom[t])
        PROVE  Faithful(x, y, h, height, "txs", l, from)
    <2>1. h \in Nat /\ height \in Nat /\ from \in Nat /\ trackedFrom[t] \in Nat
      BY DEF RecordsInv, LimitTypes, Heights
    <2>2. l # NoLimit => l.window \in Nat
      BY RateLimitAssumption, Zenon DEF RateLimitAssumption
    <2>3. limit[t] # NoLimit => limit[t].window \in Nat
      BY WindowType, Zenon DEF RecordsInv, Limited
    <2> HIDE DEF Faithful
    <2> QED
      BY <1>7, <2>1, <2>2, <2>3, ChangeFaithful, Zenon DEF Limited
  <1>8. ASSUME NEW u \in Tokens, NEW h \in Heights
        PROVE  /\ inflow[u][h] \in Nat /\ received[u][h] \in Nat
               /\ outflow[u][h] \in Nat /\ sent[u][h] \in Nat
    BY ZenonT(30) DEF RecordsInv, LimitTypes
  <1>9. ASSUME NEW u \in Tokens
        PROVE  /\ u = t => limit'[u] = l /\ trackedFrom'[u] = from
               /\ u # t => limit'[u] = limit[u] /\ trackedFrom'[u] = trackedFrom[u]
    BY <1>1, Zenon DEF RecordsInv, LimitTypes
  <1>10. ASSUME NEW u \in Tokens, NEW h \in Heights
         PROVE  /\ Faithful(inflow[u][h], received[u][h], h, height, "txs", limit'[u],
                            trackedFrom'[u])
                /\ Faithful(outflow[u][h], sent[u][h], h, height, "txs", limit'[u],
                            trackedFrom'[u])
    <2>1. /\ Faithful(inflow[u][h], received[u][h], h, height, "txs", limit[u], trackedFrom[u])
          /\ Faithful(outflow[u][h], sent[u][h], h, height, "txs", limit[u], trackedFrom[u])
      BY <1>1, Zenon DEF RecordsInv, Recording
    <2> QED
      BY <2>1, <1>7, <1>8, <1>9, Zenon
  <1>11. Recording'
    BY <1>1, <1>10, Zenon DEF Recording, Heights
  <1> QED
    BY <1>4, <1>5, <1>6, <1>11, Zenon DEF RecordsInv

(* CreateRateLimit, UpdateRateLimit and RemoveRateLimit. *)
LEMMA LimitMessagesRecords ==
  ASSUME RecordsInv, NEW t \in Tokens, NEW l \in Limits, NEW p \in Prices,
         CreateRateLimit(t, l, p) \/ UpdateRateLimit(t, l, p)
  PROVE  RecordsInv'
  <1>1. CASE CreateRateLimit(t, l, p)
    <2>1. height \in Heights /\ height <= height
      BY DEF RecordsInv, LimitTypes, Heights
    <2> QED
      BY <1>1, <2>1, ChangeRecords, Zenon DEF CreateRateLimit
  <1>2. CASE UpdateRateLimit(t, l, p)
    <2> DEFINE first == height - limit[t].window + 1
               from == Max({trackedFrom[t], first})
    <2>1. Limited(t) /\ Change(t, l) /\ trackedFrom' = [trackedFrom EXCEPT ![t] = from]
      BY <1>2, Zenon DEF UpdateRateLimit, RecordsInv, LimitTypes
    <2>2. limit[t].window \in Nat /\ limit[t].window > 0
      BY <2>1, WindowType, Zenon DEF RecordsInv
    <2>3. trackedFrom[t] \in Heights /\ height \in Heights /\ trackedFrom[t] <= height
      BY Zenon DEF RecordsInv, LimitTypes
    <2>4. first \in Int /\ first <= height /\ trackedFrom[t] \in Int
      BY <2>2, <2>3 DEF Heights
    <2> HIDE DEF first
    <2>5. from = IF trackedFrom[t] >= first THEN trackedFrom[t] ELSE first
      BY <2>4, MaxOfTwo, Zenon
    <2>6. from \in Heights /\ from <= height /\ from >= trackedFrom[t]
          /\ from > height - limit[t].window
      <3>1. MaxHeight \in Nat
        BY RateLimitAssumption, Zenon DEF RateLimitAssumption
      <3> HIDE DEF from
      <3> QED
        BY <2>2, <2>3, <2>4, <2>5, <3>1 DEF Heights, first
    <2> QED
      BY <2>1, <2>6, ChangeRecords, Zenon
  <1> QED
    BY <1>1, <1>2, Zenon

(* RemoveRateLimit leaves the records to the passive pruning. *)
LEMMA RemoveRecords ==
  ASSUME RecordsInv, NEW t \in Tokens, RemoveRateLimit(t)
  PROVE  RecordsInv'
  <1>1. trackedFrom[t] \in Heights /\ trackedFrom[t] <= height
        /\ [trackedFrom EXCEPT ![t] = trackedFrom[t]] = trackedFrom
    BY Zenon DEF RecordsInv, LimitTypes
  <1> QED
    BY <1>1, ChangeRecords, Zenon DEF RemoveRateLimit

(* What is known of a record. *)
LEMMA RecordTypes ==
  ASSUME LimitTypes, NEW t \in Tokens, NEW h \in Heights
  PROVE  /\ inflow[t][h] \in Nat /\ received[t][h] \in Nat
         /\ outflow[t][h] \in Nat /\ sent[t][h] \in Nat
         /\ h \in Nat /\ height \in Nat /\ trackedFrom[t] \in Nat
         /\ trackedFrom[t] <= height
         /\ limit[t] # NoLimit => limit[t].window \in Nat /\ limit[t].window > 0
  <1>1. \A g \in Heights : g \in Nat
    BY DEF Heights
  <1>2. limit[t] # NoLimit => limit[t].window \in Nat /\ limit[t].window > 0
    BY WindowType, Zenon DEF Limited
  <1> QED
    BY <1>1, <1>2 DEF LimitTypes

(* An amount that is tracked (TrackTokenInflow, TrackTokenOutflow) is on    *)
(* record if the token has a limit.                                        *)
LEMMA TrackFaithful ==
  ASSUME LimitTypes, phase \in {"txs", "tally"}, NEW t \in Tokens,
         NEW x \in Nat, NEW y \in Nat, NEW a \in Nat,
         Faithful(x, y, height, height, phase, limit[t], trackedFrom[t])
  PROVE  Faithful(IF limit[t] # NoLimit THEN x + a ELSE x, y + a,
                  height, height, "tally", limit[t], trackedFrom[t])
  <1>1. /\ height \in Nat /\ trackedFrom[t] \in Nat /\ trackedFrom[t] <= height
        /\ limit[t] # NoLimit => limit[t].window \in Nat /\ limit[t].window > 0
    BY RecordTypes, Zenon DEF LimitTypes
  <1>2. CASE limit[t] = NoLimit
    BY <1>1, <1>2 DEF Faithful
  <1>3. CASE limit[t] # NoLimit
    <2>1. x = y
      BY <1>1, <1>3 DEF Faithful
    <2> QED
      BY <1>1, <1>3, <2>1 DEF Faithful
  <1> QED
    BY <1>2, <1>3, Zenon

(* Records that a step to another phase of the block leaves alone. *)
LEMMA PhaseFaithful ==
  ASSUME NEW h, NEW now, NEW l, NEW from, phase \in {"txs", "tally"},
         NEW ph \in {"tally", "commit"}, NEW x, NEW y,
         Faithful(x, y, h, now, phase, l, from)
  PROVE  Faithful(x, y, h, now, ph, l, from)
  BY Zenon DEF Faithful

(* The end of the block, as the records of one flow see it. *)
LEMMA RecordPhases ==
  ASSUME LimitTypes, Recording, phase \in {"txs", "tally"},
         NEW t \in Tokens, NEW h \in Heights, NEW ph \in {"tally", "commit"}
  PROVE  /\ Faithful(inflow[t][h], received[t][h], h, height, ph, limit[t], trackedFrom[t])
         /\ Faithful(outflow[t][h], sent[t][h], h, height, ph, limit[t], trackedFrom[t])
  <1>1. /\ Faithful(inflow[t][h], received[t][h], h, height, phase, limit[t],
                    trackedFrom[t])
        /\ Faithful(outflow[t][h], sent[t][h], h, height, phase, limit[t], trackedFrom[t])
    BY Zenon DEF Recording
  <1>2. Faithful(inflow[t][h], received[t][h], h, height, ph, limit[t], trackedFrom[t])
    BY <1>1, PhaseFaithful
  <1>3. Faithful(outflow[t][h], sent[t][h], h, height, ph, limit[t], trackedFrom[t])
    BY <1>1, PhaseFaithful
  <1> QED
    BY <1>2, <1>3, Zenon

(* A deposit is observed, and the inflow tracked. *)
LEMMA DepositRecords ==
  ASSUME RecordsInv, NEW t \in Tokens, NEW a \in Amounts, handleDepositClaim(t, a)
  PROVE  RecordsInv'
  <1>1. /\ UNCHANGED <<height, limit, outflow, hasNet, batches, nextBatch, limitChanges,
                       sent, trackedFrom, builtAt>>
        /\ phase \in {"txs", "tally"} /\ phase' = "tally"
        /\ received' = [received EXCEPT ![t][height] = @ + a]
        /\ inflow' = IF Limited(t) THEN [inflow EXCEPT ![t][height] = @ + a] ELSE inflow
    BY Zenon DEF handleDepositClaim, TrackTokenInflow
  <1>2. a \in Nat /\ height \in Heights
    BY RateLimitAssumption, Zenon DEF RateLimitAssumption, RecordsInv, LimitTypes
  <1>3. /\ received' \in [Tokens -> [Heights -> Nat]]
        /\ inflow' \in [Tokens -> [Heights -> Nat]]
    BY <1>1, <1>2, FlowAdded, Zenon DEF RecordsInv, LimitTypes
  <1>4. LimitTypes' /\ BatchTypes'
    BY <1>1, <1>3, Zenon DEF RecordsInv, LimitTypes, BatchTypes, Heights
  <1>5. ASSUME NEW u \in Tokens, NEW h \in Heights
        PROVE  /\ received'[u][h] = IF u = t /\ h = height THEN received[u][h] + a
                                                           ELSE received[u][h]
               /\ inflow'[u][h] = IF u = t /\ h = height /\ limit[t] # NoLimit
                                  THEN inflow[u][h] + a ELSE inflow[u][h]
    <2>1. inflow \in [Tokens -> [Heights -> Nat]] /\ received \in [Tokens -> [Heights -> Nat]]
      BY Zenon DEF RecordsInv, LimitTypes
    <2>2. received'[u][h] = IF u = t /\ h = height THEN received[u][h] + a
                                                   ELSE received[u][h]
      BY <1>1, <1>2, <2>1, FlowAdded
    <2>3. [inflow EXCEPT ![t][height] = @ + a][u][h]
            = IF u = t /\ h = height THEN inflow[u][h] + a ELSE inflow[u][h]
      BY <1>2, <2>1, FlowAdded
    <2> QED
      BY <1>1, <2>2, <2>3, Zenon DEF Limited
  <1>6. ASSUME NEW u \in Tokens, NEW h \in Heights
        PROVE  /\ Faithful(inflow'[u][h], received'[u][h], h, height, "tally", limit[u],
                           trackedFrom[u])
               /\ Faithful(outflow[u][h], sent[u][h], h, height, "tally", limit[u],
                           trackedFrom[u])
    <2>1. CASE u # t \/ h # height
      <3>1. inflow'[u][h] = inflow[u][h] /\ received'[u][h] = received[u][h]
        BY <2>1, <1>5, Zenon
      <3> QED
        BY <1>1, <3>1, RecordPhases, Zenon DEF RecordsInv
    <2>2. CASE u = t /\ h = height
      <3>1. /\ inflow'[u][h] = IF limit[u] # NoLimit THEN inflow[u][h] + a ELSE inflow[u][h]
            /\ received'[u][h] = received[u][h] + a
        BY <2>2, <1>5, Zenon
      <3>2. Faithful(inflow[u][h], received[u][h], h, height, phase, limit[u], trackedFrom[u])
        BY Zenon DEF RecordsInv, Recording
      <3>3. inflow[u][h] \in Nat /\ received[u][h] \in Nat
        BY RecordTypes, Zenon DEF RecordsInv
      <3>4. Faithful(inflow'[u][h], received'[u][h], h, height, "tally", limit[u], trackedFrom[u])
        BY <1>1, <1>2, <2>2, <3>1, <3>2, <3>3, TrackFaithful DEF RecordsInv
      <3> QED
        BY <1>1, <3>4, RecordPhases, Zenon DEF RecordsInv
    <2> QED
      BY <2>1, <2>2, Zenon
  <1>7. Recording'
    BY <1>1, <1>6, Zenon DEF Recording, Heights
  <1>8. ASSUME NEW u \in Tokens, NEW h \in Heights, h < height
        PROVE  inflow'[u][h] = inflow[u][h]
    <2>1. h # height
      BY <1>2, <1>8 DEF Heights
    <2> QED
      BY <1>5, <2>1, Zenon
  <1>9. Netted'
    BY <1>1, <1>8, Zenon DEF RecordsInv, Netted, Heights
  <1> QED
    BY <1>4, <1>7, <1>9, Zenon DEF RecordsInv

(* A batch is executed, and the outflow tracked. *)
LEMMA ExecutedRecords ==
  ASSUME RecordsInv, NEW b \in batches, OutgoingTxBatchExecuted(b)
  PROVE  RecordsInv'
  <1> DEFINE t == b.token
             a == b.amount
  <1>1. /\ UNCHANGED <<height, limit, inflow, hasNet, nextBatch, limitChanges, received,
                       trackedFrom, builtAt>>
        /\ phase \in {"txs", "tally"} /\ phase' = "tally" /\ batches' = batches \ {b}
        /\ sent' = [sent EXCEPT ![t][height] = @ + a]
        /\ outflow' = IF Limited(t) THEN [outflow EXCEPT ![t][height] = @ + a] ELSE outflow
    BY Zenon DEF OutgoingTxBatchExecuted, TrackTokenOutflow, counters
  <1>2. t \in Tokens /\ a \in Amounts
    BY DEF RecordsInv, BatchTypes
  <1> HIDE DEF t, a
  <1>3. a \in Nat /\ height \in Heights
    BY <1>2, RateLimitAssumption, Zenon DEF RateLimitAssumption, RecordsInv, LimitTypes
  <1>4. /\ sent' \in [Tokens -> [Heights -> Nat]]
        /\ outflow' \in [Tokens -> [Heights -> Nat]]
    BY <1>1, <1>2, <1>3, FlowAdded, Zenon DEF RecordsInv, LimitTypes
  <1>5. LimitTypes'
    BY <1>1, <1>4, Zenon DEF RecordsInv, LimitTypes, Heights
  <1>6. BatchTypes'
    BY <1>1, FS_RemoveElement, Zenon DEF RecordsInv, BatchTypes
  <1>7. ASSUME NEW u \in Tokens, NEW h \in Heights
        PROVE  /\ sent'[u][h] = IF u = t /\ h = height THEN sent[u][h] + a ELSE sent[u][h]
               /\ outflow'[u][h] = IF u = t /\ h = height /\ limit[t] # NoLimit
                                   THEN outflow[u][h] + a ELSE outflow[u][h]
    <2>1. outflow \in [Tokens -> [Heights -> Nat]] /\ sent \in [Tokens -> [Heights -> Nat]]
      BY Zenon DEF RecordsInv, LimitTypes
    <2>2. sent'[u][h] = IF u = t /\ h = height THEN sent[u][h] + a ELSE sent[u][h]
      BY <1>1, <1>2, <1>3, <2>1, FlowAdded
    <2>3. [outflow EXCEPT ![t][height] = @ + a][u][h]
            = IF u = t /\ h = height THEN outflow[u][h] + a ELSE outflow[u][h]
      BY <1>2, <1>3, <2>1, FlowAdded
    <2> QED
      BY <1>1, <2>2, <2>3, Zenon DEF Limited
  <1>8. ASSUME NEW u \in Tokens, NEW h \in Heights
        PROVE  /\ Faithful(inflow[u][h], received[u][h], h, height, "tally", limit[u],
                           trackedFrom[u])
               /\ Faithful(outflow'[u][h], sent'[u][h], h, height, "tally", limit[u],
                           trackedFrom[u])
    <2>1. CASE u # t \/ h # height
      <3>1. outflow'[u][h] = outflow[u][h] /\ sent'[u][h] = sent[u][h]
        BY <2>1, <1>7, Zenon
      <3> QED
        BY <1>1, <3>1, RecordPhases, Zenon DEF RecordsInv
    <2>2. CASE u = t /\ h = height
      <3>1. /\ outflow'[u][h] = IF limit[u] # NoLimit THEN outflow[u][h] + a ELSE outflow[u][h]
            /\ sent'[u][h] = sent[u][h] + a
        BY <2>2, <1>7, Zenon
      <3>2. Faithful(outflow[u][h], sent[u][h], h, height, phase, limit[u], trackedFrom[u])
        BY Zenon DEF RecordsInv, Recording
      <3>3. outflow[u][h] \in Nat /\ sent[u][h] \in Nat
        BY RecordTypes, Zenon DEF RecordsInv
      <3>4. Faithful(outflow'[u][h], sent'[u][h], h, height, "tally", limit[u], trackedFrom[u])
        BY <1>1, <1>3, <2>2, <3>1, <3>2, <3>3, TrackFaithful DEF RecordsInv
      <3> QED
        BY <1>1, <3>4, RecordPhases, Zenon DEF RecordsInv
    <2> QED
      BY <2>1, <2>2, Zenon
  <1>9. Recording'
    BY <1>1, <1>8, Zenon DEF Recording, Heights
  <1>10. ASSUME NEW u \in Tokens, NEW h \in Heights, h < height
         PROVE  outflow'[u][h] = outflow[u][h]
    <2>1. h # height
      BY <1>3, <1>10 DEF Heights
    <2> QED
      BY <1>7, <2>1, Zenon
  <1>11. Netted'
    BY <1>1, <1>10, Zenon DEF RecordsInv, Netted, Heights
  <1> QED
    BY <1>5, <1>6, <1>9, <1>11, Zenon DEF RecordsInv

(* A batch is cancelled. *)
LEMMA CancelRecords ==
  ASSUME RecordsInv, NEW b \in batches, CancelOutgoingTXBatch(b)
  PROVE  RecordsInv'
  <1>1. /\ UNCHANGED <<height, limit, inflow, outflow, hasNet, nextBatch, limitChanges,
                       received, sent, trackedFrom, builtAt>>
        /\ phase \in {"txs", "tally"} /\ phase' = "tally" /\ batches' = batches \ {b}
    BY Zenon DEF CancelOutgoingTXBatch, records, counters, flows
  <1>2. LimitTypes'
    BY <1>1, Zenon DEF RecordsInv, LimitTypes, Heights
  <1>3. BatchTypes'
    BY <1>1, FS_RemoveElement, Zenon DEF RecordsInv, BatchTypes
  <1>4. Recording'
    BY <1>1, RecordPhases, Zenon DEF RecordsInv, Recording, Heights
  <1>5. Netted'
    BY <1>1, Zenon DEF RecordsInv, Netted, Heights
  <1> QED
    BY <1>2, <1>3, <1>4, <1>5, Zenon DEF RecordsInv

(* In the block under way only a token with a limit has records. *)
LEMMA NoLimitNoRecord ==
  ASSUME RecordsInv, phase \in {"txs", "tally"}, NEW t \in Tokens, NEW h \in Heights,
         ~(h < height), ~Limited(t) \/ h # height
  PROVE  inflow[t][h] = 0 /\ outflow[t][h] = 0
  <1>1. /\ Faithful(inflow[t][h], received[t][h], h, height, phase, limit[t],
                    trackedFrom[t])
        /\ Faithful(outflow[t][h], sent[t][h], h, height, phase, limit[t], trackedFrom[t])
    BY Zenon DEF RecordsInv, Recording
  <1>2. h > height \/ h = height
    BY DEF RecordsInv, LimitTypes, Heights
  <1> QED
    BY <1>1, <1>2, Zenon DEF Faithful, Limited

(* includeRateLimitTransfers gives a key to every token with a limit. *)
LEMMA EndBlockRecords ==
  ASSUME RecordsInv, EndBlock
  PROVE  RecordsInv'
  <1>1. /\ UNCHANGED <<height, limit, inflow, outflow, batches, nextBatch, limitChanges,
                       received, sent, trackedFrom, builtAt>>
        /\ phase \in {"txs", "tally"} /\ phase' = "commit"
        /\ hasNet' = hasNet \cup {t \in Tokens : Limited(t)}
    BY Zenon DEF EndBlock, includeRateLimitTransfers, counters, flows
  <1>2. LimitTypes'
    BY <1>1, Zenon DEF RecordsInv, LimitTypes, Heights
  <1>3. BatchTypes'
    BY <1>1, Zenon DEF RecordsInv, BatchTypes
  <1>4. Recording'
    BY <1>1, RecordPhases, Zenon DEF RecordsInv, Recording, Heights
  <1>5. ASSUME NEW t \in Tokens, NEW h \in Heights, inflow[t][h] # 0 \/ outflow[t][h] # 0
        PROVE  t \in hasNet'
    BY <1>1, <1>5, NoLimitNoRecord, Zenon DEF RecordsInv, Netted
  <1>6. Netted'
    BY <1>1, <1>5, Zenon DEF Netted, Heights
  <1> QED
    BY <1>2, <1>3, <1>4, <1>6, Zenon DEF RecordsInv

(* What excludeRateLimitTransfers leaves of the records. *)
LEMMA Dropped ==
  ASSUME RecordsInv, BeginBlock, NEW t \in Tokens, NEW h \in Heights
  PROVE  /\ inflow'[t][h] = IF h \in InflowToDrop(t, height + 1) THEN 0 ELSE inflow[t][h]
         /\ outflow'[t][h] = IF h \in OutflowToDrop(t, height + 1) THEN 0 ELSE outflow[t][h]
         /\ Limited(t) => /\ h \in InflowToDrop(t, height + 1)
                                <=> h <= height + 1 - limit[t].window
                          /\ h \in OutflowToDrop(t, height + 1)
                                <=> h <= height + 1 - limit[t].window
  <1>1. /\ inflow' = [u \in Tokens |-> Without(inflow[u], InflowToDrop(u, height + 1))]
        /\ outflow' = [u \in Tokens |-> Without(outflow[u], OutflowToDrop(u, height + 1))]
    BY Zenon DEF BeginBlock, excludeRateLimitTransfers
  <1>2. /\ inflow'[t][h] = IF h \in InflowToDrop(t, height + 1) THEN 0 ELSE inflow[t][h]
        /\ outflow'[t][h] = IF h \in OutflowToDrop(t, height + 1) THEN 0 ELSE outflow[t][h]
    BY <1>1, Zenon DEF Without
  <1>3. ASSUME Limited(t)
        PROVE  h \in OutdatedBlocks(t, height + 1) <=> h <= height + 1 - limit[t].window
    <2>1. limit[t].window \in Nat /\ height \in Nat /\ h \in Nat /\ h >= 1
      <3>1. limit[t].window \in Nat /\ height \in Heights
        BY <1>3, WindowType, Zenon DEF RecordsInv, LimitTypes
      <3> QED
        BY <3>1 DEF Heights
    <2>2. CASE height + 1 <= limit[t].window
      <3>1. OutdatedBlocks(t, height + 1) = {}
        BY <2>2, Zenon DEF OutdatedBlocks
      <3> QED
        BY <2>1, <2>2, <3>1
    <2>3. CASE ~(height + 1 <= limit[t].window)
      <3>1. OutdatedBlocks(t, height + 1) = 1..((height + 1) - limit[t].window)
        BY <2>3, Zenon DEF OutdatedBlocks
      <3> QED
        BY <2>1, <2>3, <3>1
    <2> QED
      BY <2>2, <2>3, Zenon
  <1> QED
    BY <1>2, <1>3, Zenon DEF InflowToDrop, OutflowToDrop

(* The next block: what is dropped is outside of the window, or of a token *)
(* without a limit.                                                        *)
LEMMA DropFaithful ==
  ASSUME LimitTypes, NEW t \in Tokens, NEW h \in Heights,
         NEW x \in Nat, NEW y \in Nat, NEW x2 \in {0, x},
         limit[t] # NoLimit /\ h > height + 1 - limit[t].window => x2 = x,
         Faithful(x, y, h, height, "commit", limit[t], trackedFrom[t])
  PROVE  Faithful(x2, y, h, height + 1, "txs", limit[t], trackedFrom[t])
  <1>1. /\ h \in Nat /\ height \in Nat /\ trackedFrom[t] \in Nat
        /\ limit[t] # NoLimit => limit[t].window \in Nat
    BY RecordTypes, Zenon
  <1>2. CASE h > height
    BY <1>1, <1>2 DEF Faithful
  <1>3. CASE h <= height
    BY <1>1, <1>3 DEF Faithful
  <1> QED
    BY <1>1, <1>2, <1>3

(* The next block begins without the records outside of its window. *)
LEMMA BeginBlockRecords ==
  ASSUME RecordsInv, BeginBlock
  PROVE  RecordsInv'
  <1>1. /\ UNCHANGED <<limit, batches, nextBatch, limitChanges, received, sent,
                       trackedFrom, builtAt>>
        /\ phase = "commit" /\ phase' = "txs" /\ height < MaxHeight /\ height' = height + 1
        /\ inflow' = [u \in Tokens |-> Without(inflow[u], InflowToDrop(u, height + 1))]
        /\ outflow' = [u \in Tokens |-> Without(outflow[u], OutflowToDrop(u, height + 1))]
        /\ hasNet' = hasNet \cup {t \in Tokens : Limited(t) /\ limit[t].window < height + 1}
    BY Zenon DEF BeginBlock, excludeRateLimitTransfers, counters, flows
  <1>2. /\ height' \in Heights
        /\ \A t \in Tokens : trackedFrom[t] <= height' /\ builtAt[t] <= height'
    <2>1. /\ height \in Heights /\ MaxHeight \in Nat
          /\ \A t \in Tokens : /\ trackedFrom[t] \in Heights /\ builtAt[t] \in Nat
                               /\ trackedFrom[t] <= height /\ builtAt[t] <= height
      BY RateLimitAssumption, Zenon DEF RateLimitAssumption, RecordsInv, LimitTypes
    <2> QED
      BY <1>1, <2>1 DEF Heights
  <1>3. ASSUME NEW r \in [Heights -> Nat], NEW D
        PROVE  Without(r, D) \in [Heights -> Nat]
    BY DEF Without
  <1>4. /\ inflow' \in [Tokens -> [Heights -> Nat]]
        /\ outflow' \in [Tokens -> [Heights -> Nat]]
    BY <1>1, <1>3, Zenon DEF RecordsInv, LimitTypes
  <1>5. LimitTypes'
    BY <1>1, <1>2, <1>4, Zenon DEF RecordsInv, LimitTypes, Heights
  <1>6. BatchTypes'
    BY <1>1, Zenon DEF RecordsInv, BatchTypes
  <1>7. ASSUME NEW t \in Tokens, NEW h \in Heights
        PROVE  /\ Faithful(inflow'[t][h], received[t][h], h, height + 1, "txs", limit[t],
                           trackedFrom[t])
               /\ Faithful(outflow'[t][h], sent[t][h], h, height + 1, "txs", limit[t],
                           trackedFrom[t])
    <2>1. /\ Faithful(inflow[t][h], received[t][h], h, height, "commit", limit[t],
                      trackedFrom[t])
          /\ Faithful(outflow[t][h], sent[t][h], h, height, "commit", limit[t],
                      trackedFrom[t])
      BY <1>1, Zenon DEF RecordsInv, Recording
    <2>2. /\ inflow[t][h] \in Nat /\ received[t][h] \in Nat
          /\ outflow[t][h] \in Nat /\ sent[t][h] \in Nat
          /\ h \in Nat /\ height \in Nat /\ trackedFrom[t] \in Nat
          /\ limit[t] # NoLimit => limit[t].window \in Nat
      BY RecordTypes, Zenon DEF RecordsInv
    <2>3. inflow'[t][h] \in {0, inflow[t][h]} /\ outflow'[t][h] \in {0, outflow[t][h]}
      BY Dropped, Zenon
    <2>4. ASSUME limit[t] # NoLimit, h > height + 1 - limit[t].window
          PROVE  inflow'[t][h] = inflow[t][h] /\ outflow'[t][h] = outflow[t][h]
      <3>1. ~(h <= height + 1 - limit[t].window)
        BY <2>2, <2>4
      <3> QED
        BY <2>4, <3>1, Dropped, Zenon DEF Limited
    <2>5. Faithful(inflow'[t][h], received[t][h], h, height + 1, "txs", limit[t],
                   trackedFrom[t])
      BY <2>1, <2>2, <2>3, <2>4, DropFaithful DEF RecordsInv
    <2>6. Faithful(outflow'[t][h], sent[t][h], h, height + 1, "txs", limit[t],
                   trackedFrom[t])
      BY <2>1, <2>2, <2>3, <2>4, DropFaithful DEF RecordsInv
    <2> QED
      BY <2>5, <2>6, Zenon
  <1>8. Recording'
    BY <1>1, <1>7, Zenon DEF Recording, Heights
  <1>9. ASSUME NEW t \in Tokens, NEW h \in Heights, inflow'[t][h] # 0 \/ outflow'[t][h] # 0
        PROVE  t \in hasNet'
    <2>1. inflow[t][h] # 0 \/ outflow[t][h] # 0
      BY <1>9, Dropped, Zenon
    <2> QED
      BY <1>1, <2>1, Zenon DEF RecordsInv, Netted
  <1>10. Netted'
    BY <1>9, Zenon DEF Netted, Heights
  <1> QED
    BY <1>5, <1>6, <1>8, <1>10, Zenon DEF RecordsInv

(* InitGenesis gives a key to every token with records. *)
LEMMA GenesisRecords ==
  ASSUME RecordsInv, InitGenesis
  PROVE  RecordsInv'
  <1>1. /\ UNCHANGED <<height, phase, limit, inflow, outflow, batches, nextBatch,
                       limitChanges, received, sent, trackedFrom, builtAt>>
        /\ hasNet' = {t \in Tokens : Recorded(inflow[t]) \cup Recorded(outflow[t]) # {}}
    BY Zenon DEF InitGenesis, counters, flows
  <1>2. LimitTypes'
    BY <1>1, Zenon DEF RecordsInv, LimitTypes, Heights
  <1>3. BatchTypes'
    BY <1>1, Zenon DEF RecordsInv, BatchTypes
  <1>4. Recording'
    BY <1>1, Zenon DEF RecordsInv, Recording, Heights
  <1>5. Netted'
    BY <1>1, Zenon DEF Netted, Recorded, Heights
  <1> QED
    BY <1>2, <1>3, <1>4, <1>5, Zenon DEF RecordsInv

(* Every step keeps the records. *)
LEMMA NextRecords ==
  ASSUME RecordsInv, [Next]_vars
  PROVE  RecordsInv'
  <1>1. CASE \E t \in Tokens, a \in Amounts, p \in Prices : RequestBatch(t, a, p)
    BY <1>1, RequestRecords, Zenon
  <1>2. CASE \E t \in Tokens, l \in Limits, p \in Prices :
                CreateRateLimit(t, l, p) \/ UpdateRateLimit(t, l, p)
    BY <1>2, LimitMessagesRecords, Zenon
  <1>3. CASE \E t \in Tokens : RemoveRateLimit(t)
    BY <1>3, RemoveRecords, Zenon
  <1>4. CASE \E t \in Tokens, a \in Amounts : handleDepositClaim(t, a)
    BY <1>4, DepositRecords, Zenon
  <1>5. CASE \E b \in batches : OutgoingTxBatchExecuted(b)
    BY <1>5, ExecutedRecords, Zenon
  <1>6. CASE \E b \in batches : CancelOutgoingTXBatch(b)
    BY <1>6, CancelRecords, Zenon
  <1>7. CASE EndBlock
    BY <1>7, EndBlockRecords, Zenon
  <1>8. CASE BeginBlock
    BY <1>8, BeginBlockRecords, Zenon
  <1>9. CASE InitGenesis
    BY <1>9, GenesisRecords, Zenon
  <1>10. CASE UNCHANGED vars
    <2>1. UNCHANGED <<height, phase, limit, inflow, outflow, hasNet, batches, nextBatch,
                      limitChanges, received, sent, trackedFrom, builtAt>>
      BY <1>10, Zenon DEF vars, records, counters, flows
    <2>2. LimitTypes' /\ BatchTypes'
      BY <2>1, Zenon DEF RecordsInv, LimitTypes, BatchTypes, Heights
    <2>3. Recording' /\ Netted'
      BY <2>1, Zenon DEF RecordsInv, Recording, Netted, Heights
    <2> QED
      BY <2>2, <2>3, Zenon DEF RecordsInv
  <1> QED
    BY <1>1, <1>2, <1>3, <1>4, <1>5, <1>6, <1>7, <1>8, <1>9, <1>10, Zenon DEF Next

-----------------------------------------------------------------------------
(* A limit that is left alone *)

Untouched(t) == limitChanges = 0 /\ Limited(t)

(* Its records go back to the first block, none is older than its window,  *)
(* and nothing has left the bridge before a batch was built.               *)
KeptFor(t) ==
    /\ trackedFrom[t] = 1
    /\ \A h \in Heights : h <= height - limit[t].window =>
            inflow[t][h] = 0 /\ outflow[t][h] = 0
    /\ builtAt[t] = 0 => /\ \A b \in batches : b.token # t
                         /\ \A h \in Heights : sent[t][h] = 0

Kept == \A t \in Tokens : Untouched(t) => KeptFor(t)

(* The steps that are no messages about limits. *)
OtherStep ==
    \/ \E t \in Tokens, a \in Amounts, p \in Prices : RequestBatch(t, a, p)
    \/ \E t \in Tokens, a \in Amounts : handleDepositClaim(t, a)
    \/ \E b \in batches : OutgoingTxBatchExecuted(b)
    \/ \E b \in batches : CancelOutgoingTXBatch(b)
    \/ EndBlock
    \/ BeginBlock
    \/ InitGenesis
    \/ UNCHANGED vars

(* A limit is left alone as long as no message about limits comes. *)
LEMMA StillUntouched ==
  ASSUME RecordsInv, [Next]_vars, NEW t \in Tokens, Untouched(t)'
  PROVE  OtherStep /\ limit' = limit /\ trackedFrom' = trackedFrom /\ Untouched(t)
         /\ limitChanges' = limitChanges
  <1>1. ASSUME NEW u \in Tokens, NEW l, Change(u, l)
        PROVE  FALSE
    <2>1. limitChanges' = limitChanges + 1 /\ limitChanges \in Nat /\ limitChanges' = 0
      BY <1>1, Zenon DEF Change, Untouched, RecordsInv, LimitTypes
    <2> QED
      BY <2>1
  <1>2. OtherStep
    BY <1>1, Zenon
       DEF Next, OtherStep, CreateRateLimit, UpdateRateLimit, RemoveRateLimit
  <1>3. limit' = limit /\ trackedFrom' = trackedFrom /\ limitChanges' = limitChanges
    BY <1>2, Zenon
       DEF OtherStep, RequestBatch, handleDepositClaim, OutgoingTxBatchExecuted,
           CancelOutgoingTXBatch, EndBlock, BeginBlock, InitGenesis, vars, counters, flows
  <1> QED
    BY <1>2, <1>3, Zenon DEF Untouched, Limited

(* In the first block nothing has happened. *)
LEMMA InitKept ==
  ASSUME Init
  PROVE  Kept
  BY Zenon DEF Init, Kept, KeptFor, NoFlow

(* What a step does to the blocks that the window has left behind. *)
LEMMA NextOutdated ==
  ASSUME RecordsInv, Kept, [Next]_vars, NEW t \in Tokens, Untouched(t)',
         NEW h \in Heights, h <= height' - limit'[t].window
  PROVE  inflow'[t][h] = 0 /\ outflow'[t][h] = 0
  <1>1. /\ OtherStep /\ limit' = limit /\ Untouched(t)
        /\ limit[t].window \in Nat /\ limit[t].window > 0
    BY StillUntouched, WindowType, Zenon DEF RecordsInv, Untouched
  <1>2. height \in Nat /\ h \in Nat
    BY DEF RecordsInv, LimitTypes, Heights
  <1>3. ASSUME height' = height
        PROVE  h # height /\ inflow[t][h] = 0 /\ outflow[t][h] = 0
    <2>1. h <= height - limit[t].window
      BY <1>1, <1>3, Zenon
    <2>2. h # height
      BY <1>1, <1>2, <2>1
    <2> QED
      BY <1>1, <2>1, <2>2, Zenon DEF Kept, KeptFor
  <1>4. CASE BeginBlock
    <2>1. height' = height + 1
      BY <1>4, Zenon DEF BeginBlock
    <2>2. h <= height + 1 - limit[t].window
      BY <1>1, <1>2, <2>1
    <2> QED
      BY <1>1, <1>4, <2>2, Dropped, Zenon DEF Untouched
  <1>5. CASE \E u \in Tokens, a \in Amounts : handleDepositClaim(u, a)
    <2>1. PICK u \in Tokens, a \in Amounts : handleDepositClaim(u, a)
      BY <1>5, Zenon
    <2>2. /\ height' = height /\ outflow' = outflow
          /\ inflow' = inflow \/ inflow' = [inflow EXCEPT ![u][height] = @ + a]
      BY <2>1, Zenon DEF handleDepositClaim, TrackTokenInflow
    <2>3. h # height /\ inflow \in [Tokens -> [Heights -> Nat]]
      BY <1>3, <2>2, Zenon DEF RecordsInv, LimitTypes
    <2>4. [inflow EXCEPT ![u][height] = @ + a][t][h] = inflow[t][h]
      BY <2>3
    <2> QED
      BY <1>3, <2>2, <2>4, Zenon
  <1>6. CASE \E b \in batches : OutgoingTxBatchExecuted(b)
    <2>1. PICK b \in batches : OutgoingTxBatchExecuted(b)
      BY <1>6, Zenon
    <2>2. /\ height' = height /\ inflow' = inflow
          /\ \/ outflow' = outflow
             \/ outflow' = [outflow EXCEPT ![b.token][height] = @ + b.amount]
      BY <2>1, Zenon DEF OutgoingTxBatchExecuted, TrackTokenOutflow
    <2>3. h # height /\ outflow \in [Tokens -> [Heights -> Nat]]
      BY <1>3, <2>2, Zenon DEF RecordsInv, LimitTypes
    <2>4. [outflow EXCEPT ![b.token][height] = @ + b.amount][t][h] = outflow[t][h]
      BY <2>3
    <2> QED
      BY <1>3, <2>2, <2>4, Zenon
  <1>7. CASE UNCHANGED <<height, inflow, outflow>>
    BY <1>3, <1>7, Zenon
  <1> QED
    BY <1>1, <1>4, <1>5, <1>6, <1>7, Zenon
       DEF OtherStep, RequestBatch, CancelOutgoingTXBatch, EndBlock, InitGenesis,
           includeRateLimitTransfers, vars, records

(* Nothing leaves before a batch was built. *)
LEMMA NextUnbuilt ==
  ASSUME RecordsInv, Kept, [Next]_vars, NEW t \in Tokens, Untouched(t)',
         builtAt'[t] = 0
  PROVE  /\ \A b \in batches' : b.token # t
         /\ \A h \in Heights : sent'[t][h] = 0
  <1>1. OtherStep /\ Untouched(t)
    BY StillUntouched, Zenon
  <1>2. ASSUME builtAt[t] = 0
        PROVE  (\A b \in batches : b.token # t) /\ \A h \in Heights : sent[t][h] = 0
    BY <1>1, <1>2, Zenon DEF Kept, KeptFor
  <1>3. CASE \E u \in Tokens, a \in Amounts, p \in Prices : RequestBatch(u, a, p)
    <2>1. PICK u \in Tokens, a \in Amounts, p \in Prices : RequestBatch(u, a, p)
      BY <1>3, Zenon
    <2>2. /\ builtAt' = [builtAt EXCEPT ![u] = height] /\ sent' = sent
          /\ batches' = batches \cup {[id |-> nextBatch, token |-> u, amount |-> a]}
      BY <2>1, Zenon DEF RequestBatch
    <2>3. height # 0
      BY DEF RecordsInv, LimitTypes, Heights
    <2>4. u # t /\ builtAt[t] = 0
      BY <2>2, <2>3, Zenon DEF RecordsInv, LimitTypes
    <2>5. \A b \in batches' : b.token # t
      BY <1>2, <2>2, <2>4
    <2> QED
      BY <1>2, <2>2, <2>4, <2>5, Zenon
  <1>4. CASE \E b \in batches : OutgoingTxBatchExecuted(b)
    <2>1. PICK b \in batches : OutgoingTxBatchExecuted(b)
      BY <1>4, Zenon
    <2>2. /\ builtAt' = builtAt /\ batches' = batches \ {b}
          /\ sent' = [sent EXCEPT ![b.token][height] = @ + b.amount]
      BY <2>1, Zenon DEF OutgoingTxBatchExecuted
    <2>3. b.token # t
      BY <1>2, <2>1, <2>2, Zenon
    <2>4. sent'[t] = sent[t]
      BY <2>2, <2>3, Zenon DEF RecordsInv, LimitTypes
    <2> QED
      BY <1>2, <2>2, <2>4, Zenon
  <1>5. CASE builtAt' = builtAt /\ sent' = sent /\ batches' \subseteq batches
    BY <1>2, <1>5, Zenon
  <1> QED
    BY <1>1, <1>3, <1>4, <1>5, Zenon
       DEF OtherStep, handleDepositClaim, CancelOutgoingTXBatch, EndBlock, BeginBlock,
           InitGenesis, vars, flows

(* Every step keeps these facts. *)
LEMMA NextKept ==
  ASSUME RecordsInv, Kept, [Next]_vars
  PROVE  Kept'
  <1> SUFFICES ASSUME NEW t \in Tokens, Untouched(t)'
               PROVE  KeptFor(t)'
    BY Zenon DEF Kept
  <1>1. trackedFrom'[t] = 1
    BY StillUntouched, Zenon DEF Kept, KeptFor
  <1> QED
    BY <1>1, NextOutdated, NextUnbuilt, Zenon DEF KeptFor, Heights

-----------------------------------------------------------------------------
(* Sums of flows and of batches *)

Records == [Heights -> Nat]
BatchSum(S, t) == SumFunction([b \in {b \in S : b.token = t} |-> b.amount])

(* What the proofs use of sums.  It holds (SumFactsHold below); until then *)
(* it is a hypothesis, so that only its proof is about Sums.               *)
FlowsNat == \A r \in Records, H \in SUBSET Heights : Flow(r, H) \in Nat
FlowsNone ==
    \A r \in Records, H \in SUBSET Heights : (\A h \in H : r[h] = 0) => Flow(r, H) = 0
FlowsSame ==
    \A r \in Records, s \in Records, H \in SUBSET Heights :
        (\A h \in H : r[h] = s[h]) => Flow(r, H) = Flow(s, H)
FlowsSplit ==
    \A r \in Records, H \in SUBSET Heights : \A D \in SUBSET H :
        Flow(r, H) = Flow(r, D) + Flow(r, H \ D)
FlowsBlock ==
    \A r \in Records, H \in SUBSET Heights : \A h \in H :
        Flow(r, H) = r[h] + Flow(r, H \ {h})
BatchSumsNat ==
    \A S, t : (IsFiniteSet(S) /\ \A b \in S : b.amount \in Nat) => BatchSum(S, t) \in Nat
BatchSumsLess ==
    \A S, t : (IsFiniteSet(S) /\ \A b \in S : b.amount \in Nat) => \A b \in S :
        BatchSum(S, t) = BatchSum(S \ {b}, t) + (IF b.token = t THEN b.amount ELSE 0)

SumFacts ==
    /\ FlowsNat /\ FlowsNone /\ FlowsSame /\ FlowsSplit /\ FlowsBlock
    /\ BatchSumsNat /\ BatchSumsLess

(* The facts, one by one. *)
LEMMA FlowNat ==
  ASSUME SumFacts, NEW r \in Records, NEW H \in SUBSET Heights
  PROVE  Flow(r, H) \in Nat
  BY Zenon DEF SumFacts, FlowsNat

LEMMA FlowSame ==
  ASSUME SumFacts, NEW r \in Records, NEW s \in Records, NEW H \in SUBSET Heights,
         \A h \in H : r[h] = s[h]
  PROVE  Flow(r, H) = Flow(s, H)
  BY Zenon DEF SumFacts, FlowsSame

LEMMA FlowNone ==
  ASSUME SumFacts, NEW r \in Records, NEW H \in SUBSET Heights, \A h \in H : r[h] = 0
  PROVE  Flow(r, H) = 0
  BY Zenon DEF SumFacts, FlowsNone

LEMMA FlowSplit ==
  ASSUME SumFacts, NEW r \in Records, NEW H \in SUBSET Heights, NEW D \in SUBSET H
  PROVE  Flow(r, H) = Flow(r, D) + Flow(r, H \ D)
  BY Zenon DEF SumFacts, FlowsSplit

(* Blocks without a flow do not count. *)
LEMMA FlowOnly ==
  ASSUME SumFacts, NEW r \in Records, NEW H \in SUBSET Heights, NEW D \in SUBSET H,
         \A h \in H \ D : r[h] = 0
  PROVE  Flow(r, H) = Flow(r, D)
  <1>1. Flow(r, D) \in Nat
    BY FlowNat, Zenon
  <1>2. Flow(r, H) = Flow(r, D) + Flow(r, H \ D)
    BY FlowSplit, Zenon
  <1>3. Flow(r, H \ D) = 0
    BY FlowNone, Zenon
  <1> QED
    BY <1>1, <1>2, <1>3

(* Fewer blocks, no more flow. *)
LEMMA FlowWithin ==
  ASSUME SumFacts, NEW r \in Records, NEW H \in SUBSET Heights, NEW D \in SUBSET H
  PROVE  Flow(r, D) <= Flow(r, H)
  <1>1. Flow(r, D) \in Nat /\ Flow(r, H \ D) \in Nat
    BY FlowNat, Zenon
  <1>2. Flow(r, H) = Flow(r, D) + Flow(r, H \ D)
    BY FlowSplit, Zenon
  <1> QED
    BY <1>1, <1>2

(* A block apart. *)
LEMMA FlowBlock ==
  ASSUME SumFacts, NEW r \in Records, NEW H \in SUBSET Heights, NEW h \in H
  PROVE  Flow(r, H) = r[h] + Flow(r, H \ {h})
  BY Zenon DEF SumFacts, FlowsBlock

(* A flow of a is added in block h. *)
LEMMA FlowMore ==
  ASSUME SumFacts, NEW r \in Records, NEW s \in Records,
         NEW H \in SUBSET Heights, NEW h \in H, NEW a \in Nat,
         s[h] = r[h] + a, \A g \in H \ {h} : s[g] = r[g]
  PROVE  Flow(s, H) = Flow(r, H) + a
  <1>1. Flow(r, H) = r[h] + Flow(r, H \ {h}) /\ Flow(s, H) = s[h] + Flow(s, H \ {h})
    BY FlowBlock, Zenon
  <1>2. Flow(s, H \ {h}) = Flow(r, H \ {h})
    BY FlowSame, Zenon
  <1>3. Flow(r, H \ {h}) \in Nat /\ r[h] \in Nat
    BY FlowNat, Zenon DEF Records
  <1> QED
    BY <1>1, <1>2, <1>3

-----------------------------------------------------------------------------
(* The net outflow *)

CountedBlocks == IF phase = "tally" THEN Heights \ {height} ELSE Heights
NetOf(t, H) == Flow(outflow[t], H) - Flow(inflow[t], H)

(* NetOutflowMatchesRecords without the types. *)
NetMatches ==
    /\ netOutflow \in [Tokens -> Int]
    /\ \A t \in Tokens : netOutflow[t] = NetOf(t, CountedBlocks)

(* It is a number. *)
LEMMA NetOfInt ==
  ASSUME SumFacts, LimitTypes, NEW t \in Tokens, NEW H \in SUBSET Heights
  PROVE  NetOf(t, H) \in Int
  <1>1. inflow[t] \in Records /\ outflow[t] \in Records
    BY Zenon DEF LimitTypes, Records
  <1>2. Flow(inflow[t], H) \in Nat /\ Flow(outflow[t], H) \in Nat
    BY <1>1, FlowNat, Zenon DEF Records
  <1> QED
    BY <1>2 DEF NetOf

(* The block under way, taken apart. *)
LEMMA NetOfBlock ==
  ASSUME SumFacts, LimitTypes, NEW t \in Tokens
  PROVE  NetOf(t, Heights)
            = NetOf(t, Heights \ {height}) + outflow[t][height] - inflow[t][height]
  <1>1. inflow[t] \in Records /\ outflow[t] \in Records
        /\ height \in Heights
    BY Zenon DEF LimitTypes, Records
  <1>2. /\ Flow(inflow[t], Heights) = inflow[t][height] + Flow(inflow[t], Heights \ {height})
        /\ Flow(outflow[t], Heights)
             = outflow[t][height] + Flow(outflow[t], Heights \ {height})
    BY <1>1, FlowBlock
  <1>3. /\ Flow(inflow[t], Heights \ {height}) \in Nat /\ inflow[t][height] \in Nat
        /\ Flow(outflow[t], Heights \ {height}) \in Nat /\ outflow[t][height] \in Nat
    BY <1>1, FlowNat, Zenon DEF Records
  <1> QED
    BY <1>2, <1>3 DEF NetOf

(* Before EndBlock the net outflow is without the block under way. *)
LEMMA NetBefore ==
  ASSUME SumFacts, RecordsInv, NetMatches, phase \in {"txs", "tally"}, NEW t \in Tokens
  PROVE  netOutflow[t] = NetOf(t, Heights \ {height})
  <1>1. CASE phase = "tally"
    BY <1>1, Zenon DEF NetMatches, CountedBlocks
  <1>2. CASE phase = "txs"
    <2>1. height \in Heights
      BY Zenon DEF RecordsInv, LimitTypes
    <2>2. inflow[t][height] = 0 /\ outflow[t][height] = 0
      BY <1>2, <2>1, Zenon DEF RecordsInv, Recording, Faithful
    <2>3. netOutflow[t] = NetOf(t, Heights)
      BY <1>2 DEF NetMatches, CountedBlocks
    <2>4. NetOf(t, Heights \ {height}) \in Int
      BY NetOfInt, Zenon DEF RecordsInv
    <2>5. NetOf(t, Heights)
            = NetOf(t, Heights \ {height}) + outflow[t][height] - inflow[t][height]
      BY NetOfBlock, Zenon DEF RecordsInv
    <2> QED
      BY <2>2, <2>3, <2>4, <2>5
  <1> QED
    BY <1>1, <1>2, Zenon

(* Steps within a block. *)
LEMMA TallyNet ==
  ASSUME SumFacts, RecordsInv, RecordsInv', NetMatches,
         phase \in {"txs", "tally"}, phase' = "tally",
         UNCHANGED <<height, netOutflow>>,
         \A t \in Tokens, h \in Heights : h # height =>
            inflow'[t][h] = inflow[t][h] /\ outflow'[t][h] = outflow[t][h]
  PROVE  NetMatches'
  <1>1. ASSUME NEW t \in Tokens
        PROVE  netOutflow'[t] = NetOf(t, CountedBlocks)'
    <2>1. CountedBlocks' = Heights \ {height}
      BY Zenon DEF CountedBlocks, Heights
    <2>2. /\ \A h \in Heights \ {height} : inflow'[t][h] = inflow[t][h]
          /\ \A h \in Heights \ {height} : outflow'[t][h] = outflow[t][h]
      BY Zenon
    <2>3. /\ inflow[t] \in Records /\ outflow[t] \in Records
          /\ inflow'[t] \in Records /\ outflow'[t] \in Records
      BY Zenon DEF RecordsInv, LimitTypes, Records, Heights
    <2>4. Flow(inflow'[t], Heights \ {height}) = Flow(inflow[t], Heights \ {height})
      BY <2>2, <2>3, FlowSame, Zenon
    <2>5. Flow(outflow'[t], Heights \ {height}) = Flow(outflow[t], Heights \ {height})
      BY <2>2, <2>3, FlowSame, Zenon
    <2>6. netOutflow[t] = NetOf(t, Heights \ {height})
      BY NetBefore, Zenon
    <2> QED
      BY <2>1, <2>4, <2>5, <2>6, Zenon DEF NetOf
  <1> QED
    BY <1>1, Zenon DEF NetMatches

(* The EndBlocker adds the flows of its block. *)
LEMMA EndBlockNet ==
  ASSUME SumFacts, RecordsInv, NetMatches, EndBlock
  PROVE  NetMatches'
  <1>1. /\ UNCHANGED <<height, inflow, outflow>>
        /\ phase \in {"txs", "tally"} /\ phase' = "commit"
        /\ netOutflow' = [t \in Tokens |->
                            IF Limited(t)
                            THEN netOutflow[t] + outflow[t][height] - inflow[t][height]
                            ELSE netOutflow[t]]
    BY Zenon DEF EndBlock, includeRateLimitTransfers
  <1>2. ASSUME NEW t \in Tokens
        PROVE  netOutflow'[t] = NetOf(t, Heights) /\ NetOf(t, Heights) \in Int
    <2>1. netOutflow[t] = NetOf(t, Heights \ {height})
      BY <1>1, NetBefore, Zenon
    <2>2. /\ NetOf(t, Heights) = NetOf(t, Heights \ {height}) + outflow[t][height]
                                    - inflow[t][height]
          /\ NetOf(t, Heights) \in Int /\ NetOf(t, Heights \ {height}) \in Int
      BY NetOfBlock, NetOfInt, Zenon DEF RecordsInv
    <2>3. CASE Limited(t)
      BY <1>1, <2>1, <2>2, <2>3, Zenon
    <2>4. CASE ~Limited(t)
      <3>1. height \in Heights /\ ~(height < height)
        BY DEF RecordsInv, LimitTypes, Heights
      <3>2. inflow[t][height] = 0 /\ outflow[t][height] = 0
        BY <1>1, <2>4, <3>1, NoLimitNoRecord, Zenon
      <3>3. NetOf(t, Heights) = NetOf(t, Heights \ {height})
        BY <2>2, <3>2
      <3> QED
        BY <1>1, <2>1, <2>2, <2>4, <3>3, Zenon
    <2> QED
      BY <2>3, <2>4, Zenon
  <1>3. CountedBlocks' = Heights
    BY <1>1 DEF CountedBlocks, Heights
  <1>4. \A t \in Tokens : NetOf(t, CountedBlocks)' = NetOf(t, Heights)
    BY <1>1, <1>3, Zenon DEF NetOf
  <1>5. netOutflow' \in [Tokens -> Int]
    <2>1. netOutflow' = [t \in Tokens |-> netOutflow'[t]]
      BY <1>1, Zenon
    <2>2. \A t \in Tokens : netOutflow'[t] \in Int
      BY <1>2, Zenon
    <2> QED
      BY <2>1, <2>2, Zenon
  <1> QED
    BY <1>2, <1>4, <1>5, Zenon DEF NetMatches

(* What is left of the sum of the records when those of D are dropped. *)
LEMMA FlowWithout ==
  ASSUME SumFacts, NEW r \in Records, NEW D \in SUBSET Heights
  PROVE  /\ Flow(Without(r, D), Heights) = Flow(r, Heights) - Flow(r, D)
         /\ Flow(r, Heights) \in Nat /\ Flow(r, D) \in Nat
  <1> DEFINE s == Without(r, D)
  <1>1. s \in Records
    BY DEF Without, Records
  <1>2. (\A h \in D : s[h] = 0) /\ (\A h \in Heights \ D : s[h] = r[h])
    BY Zenon DEF Without
  <1> HIDE DEF s
  <1>3. Heights \in SUBSET Heights
    BY Zenon
  <1>4. Flow(r, Heights) = Flow(r, D) + Flow(r, Heights \ D)
    BY <1>3, FlowSplit, Zenon
  <1>5. Flow(s, Heights) = Flow(s, D) + Flow(s, Heights \ D)
    BY <1>1, <1>3, FlowSplit, Zenon
  <1>6. Flow(s, D) = 0
    BY <1>1, <1>2, FlowNone, Zenon
  <1>7. Flow(s, Heights \ D) = Flow(r, Heights \ D)
    BY <1>1, <1>2, FlowSame, Zenon
  <1>8. Flow(r, Heights) \in Nat /\ Flow(r, D) \in Nat /\ Flow(r, Heights \ D) \in Nat
    BY FlowNat, Zenon
  <1>9. Flow(s, Heights) = Flow(r, Heights) - Flow(r, D)
    BY <1>4, <1>5, <1>6, <1>7, <1>8
  <1> QED
    BY <1>8, <1>9, Zenon DEF s

(* Only records are dropped. *)
LEMMA DroppedBlocks ==
  ASSUME RecordsInv, height < MaxHeight, NEW t \in Tokens
  PROVE  /\ InflowToDrop(t, height + 1) \in SUBSET Heights
         /\ OutflowToDrop(t, height + 1) \in SUBSET Heights
  <1>1. ASSUME Limited(t)
        PROVE  OutdatedBlocks(t, height + 1) \in SUBSET Heights
    <2>1. limit[t].window \in Nat /\ limit[t].window > 0 /\ MaxHeight \in Nat
          /\ height \in Heights
      BY <1>1, WindowType, RateLimitAssumption, Zenon
         DEF RecordsInv, LimitTypes, RateLimitAssumption
    <2> QED
      BY <2>1 DEF OutdatedBlocks, Heights
  <1>2. \A r : FirstRecords(r) \in SUBSET Heights
    BY Zenon DEF FirstRecords, Recorded
  <1> QED
    BY <1>1, <1>2, Zenon DEF InflowToDrop, OutflowToDrop

(* The BeginBlocker takes off what leaves the records. *)
LEMMA BeginBlockNet ==
  ASSUME SumFacts, RecordsInv, NetMatches, BeginBlock
  PROVE  NetMatches'
  <1> DEFINE I(t) == InflowToDrop(t, height + 1)
             O(t) == OutflowToDrop(t, height + 1)
  <1>1. /\ phase = "commit" /\ phase' = "txs" /\ height < MaxHeight
        /\ inflow' = [t \in Tokens |-> Without(inflow[t], I(t))]
        /\ outflow' = [t \in Tokens |-> Without(outflow[t], O(t))]
        /\ netOutflow' = [t \in Tokens |-> netOutflow[t] - Flow(outflow[t], O(t))
                                                          + Flow(inflow[t], I(t))]
    BY Zenon DEF BeginBlock, excludeRateLimitTransfers
  <1>2. ASSUME NEW t \in Tokens
        PROVE  netOutflow'[t] \in Int /\ netOutflow'[t] = NetOf(t, Heights)'
    <2>1. I(t) \in SUBSET Heights /\ O(t) \in SUBSET Heights
      BY <1>1, DroppedBlocks, Zenon
    <2>2. inflow[t] \in Records /\ outflow[t] \in Records
      BY Zenon DEF RecordsInv, LimitTypes, Records
    <2> HIDE DEF I, O
    <2>3. /\ Flow(inflow'[t], Heights) = Flow(inflow[t], Heights) - Flow(inflow[t], I(t))
          /\ Flow(inflow[t], Heights) \in Nat /\ Flow(inflow[t], I(t)) \in Nat
      BY <1>1, <2>1, <2>2, FlowWithout, Zenon
    <2>4. /\ Flow(outflow'[t], Heights) = Flow(outflow[t], Heights) - Flow(outflow[t], O(t))
          /\ Flow(outflow[t], Heights) \in Nat /\ Flow(outflow[t], O(t)) \in Nat
      BY <1>1, <2>1, <2>2, FlowWithout, Zenon
    <2>5. netOutflow[t] = Flow(outflow[t], Heights) - Flow(inflow[t], Heights)
      BY <1>1 DEF NetMatches, CountedBlocks, NetOf
    <2>6. netOutflow'[t] = netOutflow[t] - Flow(outflow[t], O(t)) + Flow(inflow[t], I(t))
      BY <1>1, Zenon
    <2>7. /\ netOutflow'[t] = Flow(outflow'[t], Heights) - Flow(inflow'[t], Heights)
          /\ netOutflow'[t] \in Int
      BY <2>3, <2>4, <2>5, <2>6
    <2> QED
      BY <2>7, Zenon DEF NetOf, Heights
  <1>3. CountedBlocks' = Heights
    BY <1>1 DEF CountedBlocks, Heights
  <1>4. \A t \in Tokens : NetOf(t, CountedBlocks)' = NetOf(t, Heights)'
    BY <1>3, Zenon DEF NetOf, Heights
  <1>5. netOutflow' \in [Tokens -> Int]
    <2>1. netOutflow' = [t \in Tokens |-> netOutflow'[t]]
      BY <1>1, Zenon
    <2> QED
      BY <1>2, <2>1, Zenon
  <1> QED
    BY <1>2, <1>4, <1>5, Zenon DEF NetMatches

(* InitGenesis sums the records up. *)
LEMMA GenesisNet ==
  ASSUME SumFacts, RecordsInv, InitGenesis
  PROVE  NetMatches'
  <1>1. /\ phase = "commit" /\ UNCHANGED <<height, phase, inflow, outflow>>
        /\ netOutflow' = [t \in Tokens |-> NetOf(t, Heights)]
    BY Zenon DEF InitGenesis, NetOf
  <1>2. CountedBlocks' = Heights
    BY <1>1 DEF CountedBlocks, Heights
  <1>3. \A t \in Tokens : NetOf(t, CountedBlocks)' = NetOf(t, Heights)
    BY <1>1, <1>2, Zenon DEF NetOf
  <1>4. \A t \in Tokens : NetOf(t, Heights) \in Int
    BY NetOfInt, Zenon DEF RecordsInv
  <1> QED
    BY <1>1, <1>3, <1>4, Zenon DEF NetMatches

(* Every step keeps the net outflow. *)
LEMMA NextNet ==
  ASSUME SumFacts, RecordsInv, NetMatches, [Next]_vars
  PROVE  NetMatches'
  <1>1. CASE UNCHANGED <<height, phase, inflow, outflow, netOutflow>>
    BY <1>1, Zenon DEF NetMatches, NetOf, CountedBlocks, Heights
  <1>2. CASE \E t \in Tokens, a \in Amounts : handleDepositClaim(t, a)
    <2>1. PICK t \in Tokens, a \in Amounts : handleDepositClaim(t, a)
      BY <1>2, Zenon
    <2>2. /\ UNCHANGED <<height, netOutflow, outflow>>
          /\ phase \in {"txs", "tally"} /\ phase' = "tally"
          /\ inflow' = inflow \/ inflow' = [inflow EXCEPT ![t][height] = @ + a]
      BY <2>1, Zenon DEF handleDepositClaim, TrackTokenInflow
    <2>3. \A u \in Tokens, h \in Heights : h # height =>
            [inflow EXCEPT ![t][height] = @ + a][u][h] = inflow[u][h]
      BY DEF RecordsInv, LimitTypes
    <2>4. \A u \in Tokens, h \in Heights : h # height => inflow'[u][h] = inflow[u][h]
      BY <2>2, <2>3, Zenon
    <2> QED
      BY <2>2, <2>4, NextRecords, TallyNet, Zenon
  <1>3. CASE \E b \in batches : OutgoingTxBatchExecuted(b)
    <2>1. PICK b \in batches : OutgoingTxBatchExecuted(b)
      BY <1>3, Zenon
    <2>2. /\ UNCHANGED <<height, netOutflow, inflow>>
          /\ phase \in {"txs", "tally"} /\ phase' = "tally"
          /\ \/ outflow' = outflow
             \/ outflow' = [outflow EXCEPT ![b.token][height] = @ + b.amount]
      BY <2>1, Zenon DEF OutgoingTxBatchExecuted, TrackTokenOutflow
    <2>3. \A u \in Tokens, h \in Heights : h # height =>
            [outflow EXCEPT ![b.token][height] = @ + b.amount][u][h] = outflow[u][h]
      BY DEF RecordsInv, LimitTypes
    <2>4. \A u \in Tokens, h \in Heights : h # height => outflow'[u][h] = outflow[u][h]
      BY <2>2, <2>3, Zenon
    <2> QED
      BY <2>2, <2>4, NextRecords, TallyNet, Zenon
  <1>4. CASE \E b \in batches : CancelOutgoingTXBatch(b)
    <2>1. /\ UNCHANGED <<height, netOutflow, inflow, outflow>>
          /\ phase \in {"txs", "tally"} /\ phase' = "tally"
      BY <1>4, Zenon DEF CancelOutgoingTXBatch, records
    <2> QED
      BY <2>1, NextRecords, TallyNet, Zenon
  <1>5. CASE EndBlock
    BY <1>5, EndBlockNet, Zenon
  <1>6. CASE BeginBlock
    BY <1>6, BeginBlockNet, Zenon
  <1>7. CASE InitGenesis
    BY <1>7, GenesisNet, Zenon
  <1> QED
    BY <1>1, <1>2, <1>3, <1>4, <1>5, <1>6, <1>7, Zenon
       DEF Next, RequestBatch, CreateRateLimit, UpdateRateLimit, RemoveRateLimit, Change,
           vars, records

(* At first all of it is zero. *)
LEMMA InitNet ==
  ASSUME SumFacts, Init
  PROVE  NetMatches
  <1>1. NoFlow \in [Tokens -> Records] /\ \A t \in Tokens, h \in Heights : NoFlow[t][h] = 0
    BY DEF NoFlow, Records
  <1>2. \A t \in Tokens : Flow(NoFlow[t], Heights) = 0
    BY <1>1, FlowNone, Zenon
  <1>3. CountedBlocks = Heights
    BY DEF Init, CountedBlocks
  <1>4. \A t \in Tokens : NetOf(t, CountedBlocks) = 0 - 0 /\ netOutflow[t] = 0
    BY <1>2, <1>3, Zenon DEF NetOf, Init
  <1> QED
    BY <1>4 DEF Init, NetMatches

-----------------------------------------------------------------------------
(* The limit *)

Window(t, last) == {h \in Heights : h <= last /\ h > last - limit[t].window}
Since(t) == {h \in Heights : h > builtAt[t] - limit[t].window}
MinPrice == Min(Prices \ {0})
Below(x, usd) == x > 0 => x * MinPrice < usd

(* What has left or may leave from the window of the last batch on, and    *)
(* what had come in within that window.                                    *)
Committed(t) == InBatches(t) + Flow(sent[t], Since(t))
Credit(t) == Flow(received[t], Window(t, builtAt[t]) \ {builtAt[t]})

Bounded ==
    \A t \in Tokens : Untouched(t) /\ builtAt[t] # 0 =>
        Below(Committed(t) - Credit(t), limit[t].usd)

(* The lowest price is one of the prices. *)
LEMMA LowestPrice ==
  MinPrice \in Nat /\ MinPrice > 0 /\ \A p \in Prices : p > 0 => MinPrice <= p
  <1> DEFINE S == Prices \ {0}
             R == OpToRel(<, Nat)
  <1>1. S \subseteq Nat /\ S # {}
    BY RateLimitAssumption, Zenon DEF RateLimitAssumption
  <1>2. PICK m \in S : \A y \in S : ~ (<<y, m>> \in R)
    <2> HIDE DEF R, S
    <2>1. IsWellFoundedOn(R, Nat)
      BY NatLessThanWellFounded, Zenon DEF R
    <2> QED
      BY <1>1, <2>1, WFMin, Zenon
  <1>3. \A y \in S : m <= y
    <2> SUFFICES ASSUME NEW y \in S, y < m
                 PROVE  FALSE
      BY <1>1
    <2>1. <<y, m>> \in R
      BY <1>1, Zenon DEF OpToRel
    <2> QED
      BY <1>2, <2>1, Zenon
  <1>4. MinPrice \in S /\ \A y \in S : MinPrice <= y
    BY <1>3, Zenon DEF MinPrice, Min
  <1> QED
    BY <1>1, <1>4

(* Less is below what more is below. *)
LEMMA BelowLess ==
  ASSUME NEW x \in Int, NEW y \in Int, NEW u \in Int, y <= x, Below(x, u)
  PROVE  Below(y, u)
  <1>1. MinPrice \in Nat /\ MinPrice > 0
    BY LowestPrice, Zenon
  <1> SUFFICES ASSUME y > 0
               PROVE  y * MinPrice < u
    BY Zenon DEF Below
  <1>2. x * MinPrice < u
    BY DEF Below
  <1>3. (x - y) * MinPrice >= 0 /\ (x - y) * MinPrice = x * MinPrice - y * MinPrice
    BY <1>1
  <1>4. x * MinPrice \in Int /\ y * MinPrice \in Int
    BY <1>1
  <1> QED
    BY <1>2, <1>3, <1>4

(* CheckRateLimit uses the price of the day, which is not lower. *)
LEMMA BelowPrice ==
  ASSUME NEW x \in Int, NEW p \in Prices, NEW u \in Int,
         x > 0 => p > 0 /\ x * p < u
  PROVE  Below(x, u)
  <1> SUFFICES ASSUME x > 0
               PROVE  x * MinPrice < u
    BY Zenon DEF Below
  <1>1. MinPrice \in Nat /\ MinPrice <= p /\ p \in Nat
    BY LowestPrice, RateLimitAssumption, Zenon DEF RateLimitAssumption
  <1>2. x * (p - MinPrice) >= 0 /\ x * (p - MinPrice) = x * p - x * MinPrice
    BY <1>1
  <1>3. x * MinPrice \in Int /\ x * p \in Int
    BY <1>1
  <1> QED
    BY <1>2, <1>3

(* The batches under way have amounts. *)
LEMMA BatchAmounts ==
  ASSUME RecordsInv
  PROVE  IsFiniteSet(batches) /\ \A b \in batches : b.amount \in Nat /\ b.token \in Tokens
  BY RateLimitAssumption, Zenon DEF RateLimitAssumption, RecordsInv, BatchTypes

(* The facts about batches, one by one. *)
LEMMA BatchSumNat ==
  ASSUME SumFacts, NEW S, IsFiniteSet(S), \A b \in S : b.amount \in Nat, NEW t
  PROVE  BatchSum(S, t) \in Nat
  BY Zenon DEF SumFacts, BatchSumsNat

LEMMA BatchSumLess ==
  ASSUME SumFacts, NEW S, IsFiniteSet(S), \A c \in S : c.amount \in Nat, NEW t, NEW b \in S
  PROVE  BatchSum(S, t) = BatchSum(S \ {b}, t) + (IF b.token = t THEN b.amount ELSE 0)
  BY Zenon DEF SumFacts, BatchSumsLess

(* One batch less. *)
LEMMA BatchLess ==
  ASSUME SumFacts, RecordsInv, NEW b \in batches, NEW t
  PROVE  /\ BatchSum(batches \ {b}, t) \in Nat /\ BatchSum(batches, t) \in Nat
         /\ BatchSum(batches, t)
                = BatchSum(batches \ {b}, t) + (IF b.token = t THEN b.amount ELSE 0)
  <1>1. /\ IsFiniteSet(batches) /\ \A c \in batches : c.amount \in Nat
        /\ IsFiniteSet(batches \ {b}) /\ \A c \in batches \ {b} : c.amount \in Nat
    BY BatchAmounts, FS_RemoveElement, Zenon
  <1>2. BatchSum(batches \ {b}, t) \in Nat /\ BatchSum(batches, t) \in Nat
    BY <1>1, BatchSumNat, Zenon
  <1>3. BatchSum(batches, t)
            = BatchSum(batches \ {b}, t) + (IF b.token = t THEN b.amount ELSE 0)
    BY <1>1, BatchSumLess, Zenon
  <1> QED
    BY <1>2, <1>3, Zenon

(* The parts of the bound are numbers. *)
LEMMA RoomTypes ==
  ASSUME SumFacts, RecordsInv, NEW t \in Tokens
  PROVE  /\ InBatches(t) \in Nat /\ Committed(t) \in Nat /\ Credit(t) \in Nat
         /\ Flow(sent[t], Since(t)) \in Nat
  <1>1. sent[t] \in Records /\ received[t] \in Records
    BY Zenon DEF RecordsInv, LimitTypes, Records
  <1>2. Since(t) \in SUBSET Heights /\ Window(t, builtAt[t]) \ {builtAt[t]} \in SUBSET Heights
    BY Zenon DEF Since, Window
  <1>3. Flow(sent[t], Since(t)) \in Nat /\ Credit(t) \in Nat
    BY <1>1, <1>2, FlowNat, Zenon DEF Credit
  <1>4. InBatches(t) \in Nat
    BY BatchAmounts, BatchSumNat, Zenon DEF InBatches, BatchSum
  <1> QED
    BY <1>3, <1>4 DEF Committed

(* Steps that leave the flows of a token alone. *)
LEMMA SameRoom ==
  ASSUME NEW t \in Tokens, InBatches(t)' = InBatches(t),
         sent'[t] = sent[t], received'[t] = received[t], builtAt'[t] = builtAt[t],
         limit' = limit
  PROVE  (Committed(t) - Credit(t))' = Committed(t) - Credit(t)
  <1>1. Since(t)' = Since(t) /\ Window(t, builtAt[t])' = Window(t, builtAt[t])
    BY Zenon DEF Since, Window, Heights
  <1>2. Committed(t)' = Committed(t)
    BY <1>1, Zenon DEF Committed
  <1>3. Credit(t)' = Credit(t)
    BY <1>1, Zenon DEF Credit
  <1> QED
    BY <1>2, <1>3, Zenon

(* A batch under way: what it withdraws is in the store, not yet sent. *)
LEMMA NewBatch ==
  ASSUME SumFacts, RecordsInv, NEW t \in Tokens, NEW u \in Tokens, NEW a \in Amounts,
         NEW p \in Prices, RequestBatch(t, a, p)
  PROVE  InBatches(u)' = InBatches(u) + (IF u = t THEN a ELSE 0)
  <1> DEFINE b == [id |-> nextBatch, token |-> t, amount |-> a]
  <1>1. batches' = batches \cup {b}
    BY Zenon DEF RequestBatch
  <1>2. b \notin batches
    <2>1. b.id = nextBatch /\ ~(nextBatch < nextBatch)
      BY DEF RecordsInv, LimitTypes
    <2> QED
      BY <2>1, Zenon DEF RecordsInv, BatchTypes
  <1>3. batches' \ {b} = batches
    BY <1>1, <1>2, Zenon
  <1>4. IsFiniteSet(batches') /\ \A c \in batches' : c.amount \in Nat
    <2>1. a \in Nat /\ b.amount = a
      BY RateLimitAssumption DEF RateLimitAssumption
    <2> QED
      BY <1>1, <2>1, BatchAmounts, FS_AddElement, Zenon
  <1>5. b.token = t /\ b.amount = a
    BY Zenon
  <1> HIDE DEF b
  <1>6. BatchSum(batches', u)
          = BatchSum(batches' \ {b}, u) + (IF b.token = u THEN b.amount ELSE 0)
    <2>1. b \in batches'
      BY <1>1, Zenon
    <2> QED
      BY <1>4, <2>1, BatchSumLess, Zenon
  <1>7. BatchSum(batches', u) = BatchSum(batches, u) + (IF b.token = u THEN b.amount ELSE 0)
    BY <1>3, <1>6, Zenon
  <1> QED
    BY <1>5, <1>7, Zenon DEF InBatches, BatchSum

(* What CheckRateLimit compares is what may leave in the window of the     *)
(* batch, less what has come in: the records are whole, and none is older. *)
LEMMA CheckedNet ==
  ASSUME SumFacts, RecordsInv, Kept, NetMatches, phase = "txs",
         NEW t \in Tokens, Untouched(t)
  PROVE  netOutflow[t] = Flow(sent[t], {h \in Heights : h > height - limit[t].window})
                          - Flow(received[t], Window(t, height) \ {height})
  <1> DEFINE In == {h \in Heights : h > height - limit[t].window}
             Old == Heights \ In
             W == Window(t, height) \ {height}
  <1>1. /\ limit[t].window \in Nat /\ limit[t].window > 0 /\ KeptFor(t)
        /\ height \in Nat /\ limit[t] # NoLimit
    <2>1. height \in Heights /\ \A h \in Heights : h \in Nat
      BY DEF RecordsInv, LimitTypes, Heights
    <2> QED
      BY <2>1, WindowType, Zenon DEF RecordsInv, Untouched, Kept, Limited
  <1>2. ASSUME NEW h \in In
        PROVE  outflow[t][h] = sent[t][h] /\ inflow[t][h] = received[t][h]
    <2>1. h \in Heights /\ h > height - limit[t].window /\ h \in Nat /\ 1 <= h
      BY DEF Heights
    <2>2. /\ Faithful(inflow[t][h], received[t][h], h, height, phase, limit[t], 1)
          /\ Faithful(outflow[t][h], sent[t][h], h, height, phase, limit[t], 1)
      BY <1>1, <2>1, Zenon DEF RecordsInv, Recording, KeptFor
    <2>3. h > height \/ h <= height
      BY <1>1, <2>1
    <2> QED
      BY <1>1, <2>1, <2>2, <2>3, Zenon DEF Faithful
  <1>3. ASSUME NEW h \in Old
        PROVE  outflow[t][h] = 0 /\ inflow[t][h] = 0
    <2>1. h \in Heights /\ h <= height - limit[t].window
      BY <1>1 DEF Heights
    <2> QED
      BY <1>1, <2>1, Zenon DEF KeptFor
  <1>4. ASSUME NEW h \in In \ W
        PROVE  received[t][h] = 0
    <2>1. h \in Heights /\ (h > height \/ h = height)
      BY <1>1 DEF Window, Heights
    <2> QED
      BY <2>1, Zenon DEF RecordsInv, Recording, Faithful
  <1>5. In \in SUBSET Heights /\ Heights \in SUBSET Heights
    BY Zenon
  <1>6. W \in SUBSET In /\ In \ W \in SUBSET Heights /\ W \in SUBSET Heights
    BY Zenon DEF Window
  <1>7. outflow[t] \in Records /\ sent[t] \in Records
    BY Zenon DEF RecordsInv, LimitTypes, Records
  <1>8. inflow[t] \in Records /\ received[t] \in Records
    BY Zenon DEF RecordsInv, LimitTypes, Records
  <1>9. \A h \in Heights \ In : outflow[t][h] = 0 /\ inflow[t][h] = 0
    BY <1>3, Zenon
  <1> HIDE DEF In, W
  <1>10. Flow(outflow[t], Heights) = Flow(outflow[t], In)
    BY <1>5, <1>7, <1>9, FlowOnly, Zenon
  <1>11. Flow(inflow[t], Heights) = Flow(inflow[t], In)
    BY <1>5, <1>8, <1>9, FlowOnly, Zenon
  <1>12. Flow(outflow[t], In) = Flow(sent[t], In)
    BY <1>2, <1>5, <1>7, FlowSame, Zenon
  <1>13. Flow(inflow[t], In) = Flow(received[t], In)
    BY <1>2, <1>5, <1>8, FlowSame, Zenon
  <1>14. Flow(received[t], In) = Flow(received[t], W)
    BY <1>4, <1>5, <1>6, <1>8, FlowOnly, Zenon
  <1>15. CountedBlocks = Heights
    BY DEF CountedBlocks
  <1>16. netOutflow[t] = Flow(outflow[t], Heights) - Flow(inflow[t], Heights)
    BY <1>15, Zenon DEF NetMatches, NetOf
  <1>17. netOutflow[t] = Flow(sent[t], In) - Flow(received[t], W)
    BY <1>10, <1>11, <1>12, <1>13, <1>14, <1>16, Zenon
  <1> QED
    BY <1>17, Zenon DEF In, W

(* A batch that CheckRateLimit lets through. *)
LEMMA RequestBounded ==
  ASSUME SumFacts, RecordsInv, Kept, NetMatches, NEW t \in Tokens, NEW a \in Amounts,
         NEW p \in Prices, RequestBatch(t, a, p), Untouched(t)
  PROVE  Below((Committed(t) - Credit(t))', limit[t].usd)
  <1>1. /\ phase = "txs" /\ builtAt' = [builtAt EXCEPT ![t] = height]
        /\ CheckRateLimit(t, a, p)
        /\ UNCHANGED <<limit, sent, received>>
    BY Zenon DEF RequestBatch
  <1>2. builtAt'[t] = height
    BY <1>1, Zenon DEF RecordsInv, LimitTypes
  <1> DEFINE out == Flow(sent[t], {h \in Heights : h > height - limit[t].window})
             in == Flow(received[t], Window(t, height) \ {height})
             total == netOutflow[t] + InBatches(t) + a
  <1>3. Flow(sent[t], Since(t))' = out
    BY <1>1, <1>2, Zenon DEF Since, Heights
  <1>4. Credit(t)' = in
    BY <1>1, <1>2, Zenon DEF Credit, Window, Heights
  <1>5. InBatches(t)' = InBatches(t) + a
    BY NewBatch, Zenon
  <1>6. netOutflow[t] = out - in
    BY <1>1, CheckedNet, Zenon
  <1>7. out \in Nat /\ in \in Nat
    <2>1. sent[t] \in Records /\ received[t] \in Records
      BY Zenon DEF RecordsInv, LimitTypes, Records
    <2> QED
      BY <2>1, FlowNat, Zenon DEF Window
  <1>8. InBatches(t) \in Nat /\ a \in Nat /\ limit[t].usd \in Nat
    BY RoomTypes, WindowType, RateLimitAssumption, Zenon
       DEF RateLimitAssumption, RecordsInv, Untouched
  <1> HIDE DEF out, in
  <1>9. total \in Int /\ (Committed(t) - Credit(t))' = total
    <2>1. (Committed(t) - Credit(t))' = (InBatches(t)' + out) - in
      BY <1>3, <1>4, Zenon DEF Committed
    <2> QED
      BY <1>5, <1>6, <1>7, <1>8, <2>1
  <1>10. total > 0 => p > 0 /\ total * p < limit[t].usd
    BY <1>1, Zenon DEF CheckRateLimit, Untouched
  <1>11. Below(total, limit[t].usd)
    <2> HIDE DEF total
    <2>1. limit[t].usd \in Int
      BY <1>8
    <2> QED
      BY <1>9, <1>10, <2>1, BelowPrice, Zenon
  <1> QED
    BY <1>9, <1>11, Zenon

(* The execution of a batch moves its amount from the store to the sent.   *)
LEMMA ExecutedRoom ==
  ASSUME SumFacts, RecordsInv, NEW b \in batches, OutgoingTxBatchExecuted(b),
         NEW t \in Tokens, Limited(t)
  PROVE  (Committed(t) - Credit(t))' = Committed(t) - Credit(t)
  <1>1. /\ batches' = batches \ {b} /\ UNCHANGED <<height, limit, received, builtAt>>
        /\ sent' = [sent EXCEPT ![b.token][height] = @ + b.amount]
    BY Zenon DEF OutgoingTxBatchExecuted
  <1>2. /\ BatchSum(batches', t) \in Nat
        /\ BatchSum(batches, t)
             = BatchSum(batches', t) + (IF b.token = t THEN b.amount ELSE 0)
    BY <1>1, BatchLess, Zenon
  <1>3. CASE b.token # t
    <2>1. sent'[t] = sent[t]
      BY <1>1, <1>3, Zenon DEF RecordsInv, LimitTypes
    <2>2. BatchSum(batches, t) = BatchSum(batches', t)
      BY <1>2, <1>3
    <2>3. InBatches(t)' = InBatches(t)
      BY <2>2, Zenon DEF InBatches, BatchSum
    <2> QED
      BY <1>1, <2>1, <2>3, SameRoom, Zenon
  <1>4. CASE b.token = t
    <2>1. /\ b.amount \in Nat /\ height \in Heights /\ sent[t] \in Records
          /\ builtAt[t] \in Nat /\ builtAt[t] <= height
      BY BatchAmounts, Zenon DEF RecordsInv, LimitTypes, Records
    <2>2. /\ sent'[t] \in Records /\ sent'[t][height] = sent[t][height] + b.amount
          /\ \A h \in Heights \ {height} : sent'[t][h] = sent[t][h]
      <3>1. sent'[t] = [sent[t] EXCEPT ![height] = @ + b.amount]
        BY <1>1, <1>4, Zenon DEF RecordsInv, LimitTypes
      <3> QED
        BY <2>1, <3>1 DEF Records
    <2>3. height \in Since(t) /\ Since(t) \in SUBSET Heights
      BY <2>1, WindowType DEF Since, Heights, RecordsInv
    <2>4. Flow(sent'[t], Since(t)) = Flow(sent[t], Since(t)) + b.amount
      BY <2>1, <2>2, <2>3, FlowMore
    <2>5. Since(t)' = Since(t) /\ Credit(t)' = Credit(t)
      BY <1>1, Zenon DEF Since, Credit, Window, Heights
    <2>6. InBatches(t)' \in Nat /\ InBatches(t) = InBatches(t)' + b.amount
      BY <1>2, <1>4, Zenon DEF InBatches, BatchSum
    <2>7. Flow(sent[t], Since(t)) \in Nat
      BY RoomTypes, Zenon
    <2>8. InBatches(t)' + Flow(sent'[t], Since(t)) = InBatches(t) + Flow(sent[t], Since(t))
      <3>1. b.amount \in Nat
        BY <2>1, Zenon
      <3> QED
        BY <2>4, <2>6, <2>7, <3>1
    <2> QED
      BY <2>5, <2>8, Zenon DEF Committed
  <1> QED
    BY <1>3, <1>4, Zenon

(* Its cancellation drops it. *)
LEMMA CancelRoom ==
  ASSUME SumFacts, RecordsInv, NEW b \in batches, CancelOutgoingTXBatch(b),
         NEW t \in Tokens, Limited(t)
  PROVE  /\ (Committed(t) - Credit(t))' <= Committed(t) - Credit(t)
         /\ (Committed(t) - Credit(t))' \in Int
  <1>1. batches' = batches \ {b} /\ UNCHANGED <<limit, received, builtAt, sent>>
    BY Zenon DEF CancelOutgoingTXBatch, flows
  <1>2. /\ BatchSum(batches', t) \in Nat
        /\ BatchSum(batches, t)
             = BatchSum(batches', t) + (IF b.token = t THEN b.amount ELSE 0)
    BY <1>1, BatchLess, Zenon
  <1>3. InBatches(t)' = BatchSum(batches', t) /\ InBatches(t) = BatchSum(batches, t)
    BY Zenon DEF InBatches, BatchSum
  <1>4. /\ Flow(sent[t], Since(t))' = Flow(sent[t], Since(t)) /\ Credit(t)' = Credit(t)
    BY <1>1, Zenon DEF Since, Credit, Window, Heights
  <1>5. b.amount \in Nat /\ Credit(t) \in Nat /\ Flow(sent[t], Since(t)) \in Nat
    BY RoomTypes, BatchAmounts, Zenon
  <1>6. /\ (Committed(t) - Credit(t))'
              = (BatchSum(batches', t) + Flow(sent[t], Since(t))) - Credit(t)
        /\ Committed(t) - Credit(t)
              = (BatchSum(batches, t) + Flow(sent[t], Since(t))) - Credit(t)
    BY <1>3, <1>4, Zenon DEF Committed
  <1> QED
    BY <1>2, <1>5, <1>6

(* A deposit is in the block under way, which the credit leaves out. *)
LEMMA DepositRoom ==
  ASSUME SumFacts, RecordsInv, NEW u \in Tokens, NEW a \in Amounts,
         handleDepositClaim(u, a), NEW t \in Tokens
  PROVE  (Committed(t) - Credit(t))' = Committed(t) - Credit(t)
  <1> DEFINE W == Window(t, builtAt[t]) \ {builtAt[t]}
  <1>1. /\ UNCHANGED <<batches, height, limit, sent, builtAt>>
        /\ received' = [received EXCEPT ![u][height] = @ + a]
    BY Zenon DEF handleDepositClaim
  <1>2. W \in SUBSET Heights /\ height \notin W
    <2>1. builtAt[t] \in Nat /\ builtAt[t] <= height /\ height \in Nat
      BY DEF RecordsInv, LimitTypes, Heights
    <2> QED
      BY <2>1 DEF Window
  <1>3. received[t] \in Records /\ received'[t] \in Records
    <2>1. RecordsInv'
      BY DepositRecords, Zenon
    <2> QED
      BY <2>1, Zenon DEF RecordsInv, LimitTypes, Records, Heights
  <1>4. \A h \in Heights : h # height =>
            [received EXCEPT ![u][height] = @ + a][t][h] = received[t][h]
    BY DEF RecordsInv, LimitTypes
  <1>5. \A h \in W : received'[t][h] = received[t][h]
    BY <1>1, <1>2, <1>4, Zenon
  <1> HIDE DEF W
  <1>6. Flow(received'[t], W) = Flow(received[t], W)
    BY <1>2, <1>3, <1>5, FlowSame, Zenon
  <1>7. Credit(t)' = Flow(received'[t], W) /\ Credit(t) = Flow(received[t], W)
    BY <1>1, Zenon DEF Credit, W, Window, Heights
  <1>8. Committed(t)' = Committed(t)
    BY <1>1, Zenon DEF Committed, InBatches, Since, Heights
  <1> QED
    BY <1>6, <1>7, <1>8, Zenon

(* The room left of every limit, action by action. *)
LEMMA InitBounded ==
  ASSUME Init
  PROVE  Bounded
  BY Zenon DEF Init, Bounded

(* Every step keeps within the limits that are left alone. *)
LEMMA NextBounded ==
  ASSUME SumFacts, RecordsInv, Kept, NetMatches, Bounded, [Next]_vars
  PROVE  Bounded'
  <1> SUFFICES ASSUME NEW t \in Tokens, Untouched(t)', builtAt'[t] # 0
               PROVE  Below((Committed(t) - Credit(t))', limit'[t].usd)
    BY Zenon DEF Bounded
  <1>1. Untouched(t) /\ limit' = limit
    BY StillUntouched, Zenon
  <1> SUFFICES Below((Committed(t) - Credit(t))', limit[t].usd)
    BY <1>1, Zenon
  <1>2. builtAt[t] # 0 => Below(Committed(t) - Credit(t), limit[t].usd)
    BY <1>1, Zenon DEF Bounded
  <1>3. CASE \E u \in Tokens, a \in Amounts, p \in Prices : RequestBatch(u, a, p)
    <2> PICK u \in Tokens, a \in Amounts, p \in Prices : RequestBatch(u, a, p)
      BY <1>3, Zenon
    <2>1. CASE u = t
      BY <1>1, <2>1, RequestBounded, Zenon
    <2>2. CASE u # t
      <3>1. builtAt'[t] = builtAt[t] /\ UNCHANGED <<sent, received>>
        BY <2>2, Zenon DEF RequestBatch, RecordsInv, LimitTypes
      <3>2. InBatches(t)' = InBatches(t) + 0
        BY <2>2, NewBatch, Zenon
      <3>3. InBatches(t)' = InBatches(t)
        BY <3>2, RoomTypes
      <3> QED
        BY <1>1, <1>2, <3>1, <3>3, SameRoom, Zenon
    <2> QED
      BY <2>1, <2>2, Zenon
  <1>4. CASE \E u \in Tokens, a \in Amounts : handleDepositClaim(u, a)
    <2> PICK u \in Tokens, a \in Amounts : handleDepositClaim(u, a)
      BY <1>4, Zenon
    <2>1. builtAt'[t] = builtAt[t]
      BY Zenon DEF handleDepositClaim
    <2> QED
      BY <1>2, <2>1, DepositRoom, Zenon
  <1>5. CASE \E b \in batches : OutgoingTxBatchExecuted(b)
    <2> PICK b \in batches : OutgoingTxBatchExecuted(b)
      BY <1>5, Zenon
    <2>1. builtAt'[t] = builtAt[t]
      BY Zenon DEF OutgoingTxBatchExecuted
    <2>2. Limited(t)
      BY <1>1, Zenon DEF Untouched
    <2> QED
      BY <1>2, <2>1, <2>2, ExecutedRoom, Zenon
  <1>6. CASE \E b \in batches : CancelOutgoingTXBatch(b)
    <2> PICK b \in batches : CancelOutgoingTXBatch(b)
      BY <1>6, Zenon
    <2>1. builtAt'[t] = builtAt[t]
      BY Zenon DEF CancelOutgoingTXBatch, flows
    <2>2. Limited(t)
      BY <1>1, Zenon DEF Untouched
    <2>3. /\ (Committed(t) - Credit(t))' <= Committed(t) - Credit(t)
          /\ (Committed(t) - Credit(t))' \in Int
      BY <2>2, CancelRoom, Zenon
    <2>4. Committed(t) - Credit(t) \in Int
      BY RoomTypes
    <2>5. limit[t].usd \in Int
      BY <2>2, WindowType DEF RecordsInv
    <2> QED
      BY <1>2, <2>1, <2>3, <2>4, <2>5, BelowLess, Zenon
  <1>7. CASE UNCHANGED <<batches, sent, received, builtAt>>
    <2>1. InBatches(t)' = InBatches(t)
      BY <1>7, Zenon DEF InBatches
    <2> QED
      BY <1>1, <1>2, <1>7, <2>1, SameRoom, Zenon
  <1>8. OtherStep
    BY StillUntouched, Zenon
  <1> QED
    BY <1>3, <1>4, <1>5, <1>6, <1>7, <1>8, Zenon
       DEF OtherStep, EndBlock, BeginBlock, InitGenesis, vars, counters, flows

-----------------------------------------------------------------------------
(* What the invariants say *)

(* The net outflow is that of the records. *)
LEMMA NetOutflowFromInv ==
  ASSUME RecordsInv, NetMatches
  PROVE  NetOutflowMatchesRecords
  <1>1. TypeOK
    BY DEF RecordsInv, LimitTypes, BatchTypes, NetMatches, TypeOK
  <1> QED
    BY <1>1, Zenon DEF NetMatches, NetOf, CountedBlocks, NetOutflowMatchesRecords

(* The records are the flows. *)
LEMMA FlowsFromInv ==
  ASSUME RecordsInv
  PROVE  RecordsAreTheFlows
  <1> SUFFICES ASSUME NEW t \in Tokens
               PROVE  /\ \A h \in Heights : /\ inflow[t][h] \in {0, received[t][h]}
                                            /\ outflow[t][h] \in {0, sent[t][h]}
                      /\ Limited(t) =>
                            \A h \in trackedFrom[t]..height :
                                h > height - limit[t].window =>
                                    /\ inflow[t][h] = received[t][h]
                                    /\ outflow[t][h] = sent[t][h]
    BY Zenon DEF RecordsAreTheFlows
  <1>1. \A h \in Heights :
            /\ Faithful(inflow[t][h], received[t][h], h, height, phase, limit[t], trackedFrom[t])
            /\ Faithful(outflow[t][h], sent[t][h], h, height, phase, limit[t], trackedFrom[t])
    BY Zenon DEF RecordsInv, Recording
  <1>2. \A h \in trackedFrom[t]..height : h \in Heights /\ trackedFrom[t] <= h /\ h <= height
    <2>1. trackedFrom[t] \in Heights /\ height \in Heights /\ MaxHeight \in Nat
      BY RateLimitAssumption DEF RateLimitAssumption, RecordsInv, LimitTypes
    <2> QED
      BY <2>1 DEF Heights
  <1>3. \A h \in Heights : inflow[t][h] \in {0, received[t][h]}
                            /\ outflow[t][h] \in {0, sent[t][h]}
    BY <1>1, Zenon DEF Faithful
  <1>4. ASSUME Limited(t), NEW h \in trackedFrom[t]..height, h > height - limit[t].window
        PROVE  inflow[t][h] = received[t][h] /\ outflow[t][h] = sent[t][h]
    BY <1>1, <1>2, <1>4, Zenon DEF Faithful, Limited
  <1> QED
    BY <1>3, <1>4, Zenon

(* The window of the current block is part of what CheckRateLimit bounded. *)
LEMMA OutflowFromInv ==
  ASSUME SumFacts, RecordsInv, Kept, Bounded
  PROVE  OutflowWithinLimit
  <1> SUFFICES ASSUME NEW t \in Tokens, limitChanges = 0, Limited(t),
                      Flow(sent[t], Window(t, height)) > 0
               PROVE  (Flow(sent[t], Window(t, height)) - Credit(t)) * MinPrice < limit[t].usd
    BY Zenon DEF OutflowWithinLimit, Window, Credit, MinPrice
  <1> DEFINE out == Flow(sent[t], Window(t, height))
  <1>1. /\ sent[t] \in Records /\ Untouched(t) /\ builtAt[t] \in Nat
        /\ height \in Nat /\ builtAt[t] <= height
    BY DEF RecordsInv, LimitTypes, Records, Untouched, Heights
  <1>2. limit[t].window \in Nat /\ limit[t].usd \in Nat /\ limit[t].usd > 0
    BY WindowType, Zenon DEF RecordsInv
  <1>3. Window(t, height) \in SUBSET Since(t) /\ Since(t) \in SUBSET Heights
    BY <1>1, <1>2 DEF Window, Since, Heights
  <1>4. out \in Nat /\ out <= Flow(sent[t], Since(t))
    BY <1>1, <1>3, FlowWithin, FlowNat, Zenon
  <1>5. builtAt[t] # 0
    <2> SUFFICES ASSUME builtAt[t] = 0
                 PROVE  FALSE
      BY Zenon
    <2>1. \A h \in Heights : sent[t][h] = 0
      BY <1>1, Zenon DEF Kept, KeptFor
    <2>2. out = 0
      BY <1>1, <1>3, <2>1, FlowNone, Zenon
    <2> QED
      BY <2>2
  <1>6. Below(Committed(t) - Credit(t), limit[t].usd)
    BY <1>1, <1>5, Zenon DEF Bounded
  <1>7. /\ InBatches(t) \in Nat /\ Credit(t) \in Nat /\ Flow(sent[t], Since(t)) \in Nat
        /\ Committed(t) = InBatches(t) + Flow(sent[t], Since(t))
    BY RoomTypes, Zenon DEF Committed
  <1> HIDE DEF out
  <1>8. /\ out - Credit(t) \in Int /\ Committed(t) - Credit(t) \in Int
        /\ out - Credit(t) <= Committed(t) - Credit(t) /\ limit[t].usd \in Int
    BY <1>2, <1>4, <1>7
  <1> DEFINE x == out - Credit(t)
  <1>9. Below(x, limit[t].usd)
    BY <1>6, <1>8, BelowLess, Zenon
  <1>10. MinPrice \in Nat /\ MinPrice > 0
    BY LowestPrice, Zenon
  <1>11. x \in Int
    BY <1>8, Zenon
  <1>12. x * MinPrice < limit[t].usd
    <2> HIDE DEF x
    <2>1. CASE x > 0
      BY <1>9, <2>1 DEF Below
    <2>2. CASE x <= 0
      <3>1. x * MinPrice <= 0
        BY <1>10, <1>11, <2>2
      <3> QED
        BY <1>2, <1>10, <1>11, <3>1
    <2> QED
      BY <1>11, <2>1, <2>2
  <1> QED
    BY <1>12, Zenon DEF out

-----------------------------------------------------------------------------
(* What a removed limit leaves behind *)

(* A set of blocks that has records has a first one. *)
LEMMA FirstBlock ==
  ASSUME NEW S \in SUBSET Heights, S # {}
  PROVE  \E m \in S : \A y \in S : ~(y < m)
  <1> DEFINE R == OpToRel(<, Nat)
  <1>1. S \subseteq Nat
    BY DEF Heights
  <1>2. PICK m \in S : \A y \in S : ~ (<<y, m>> \in R)
    <2> HIDE DEF R
    <2>1. IsWellFoundedOn(R, Nat)
      BY NatLessThanWellFounded, Zenon DEF R
    <2> QED
      BY <1>1, <2>1, WFMin, Zenon
  <1>3. ASSUME NEW y \in S, y < m
        PROVE  FALSE
    <2>1. <<y, m>> \in R
      BY <1>1, <1>3, Zenon DEF OpToRel
    <2> QED
      BY <1>2, <2>1, Zenon
  <1> QED
    BY <1>3, Zenon

(* The first record is one of the first maxRecordsToPrune. *)
LEMMA FirstIsPruned ==
  ASSUME NEW r, NEW m \in Recorded(r), \A g \in Recorded(r) : ~(g < m)
  PROVE  m \in FirstRecords(r)
  <1>1. {g \in Recorded(r) : g < m} = {}
    BY Zenon
  <1>2. Cardinality({}) = 0
    BY FS_EmptySet, Zenon
  <1>3. 0 < maxRecordsToPrune
    BY RateLimitAssumption DEF RateLimitAssumption
  <1>4. Cardinality({g \in Recorded(r) : g < m}) < maxRecordsToPrune
    BY <1>1, <1>2, <1>3, Zenon
  <1> QED
    BY <1>4, Zenon DEF FirstRecords

(* excludeRateLimitTransfers takes the first record of each kind. *)
LEMMA NextLeftovers ==
  ASSUME RecordsInv, [Next]_vars, NEW t \in Tokens, height' > height, ~Limited(t),
         Leftovers(t) # {}
  PROVE  Leftovers(t)' \subseteq Leftovers(t) /\ Leftovers(t)' # Leftovers(t)
  <1>1. height \in Nat
    BY DEF RecordsInv, LimitTypes, Heights
  <1>2. CASE height' = height
    BY <1>1, <1>2
  <1>3. CASE BeginBlock
    <2>1. /\ phase = "commit"
          /\ inflow' = [u \in Tokens |-> Without(inflow[u], InflowToDrop(u, height + 1))]
          /\ outflow' = [u \in Tokens |-> Without(outflow[u], OutflowToDrop(u, height + 1))]
      BY <1>3, Zenon DEF BeginBlock, excludeRateLimitTransfers
    <2>2. PICK m \in Leftovers(t) : \A y \in Leftovers(t) : ~(y < m)
      BY FirstBlock, Zenon DEF Leftovers, Recorded
    <2>3. t \in hasNet
      <3>1. m \in Heights /\ (inflow[t][m] # 0 \/ outflow[t][m] # 0)
        BY Zenon DEF Leftovers, Recorded
      <3> QED
        BY <2>1, <3>1, Zenon DEF RecordsInv, Netted
    <2>4. /\ inflow'[t] = Without(inflow[t], FirstRecords(inflow[t]))
          /\ outflow'[t] = Without(outflow[t], FirstRecords(outflow[t]))
      BY <2>1, <2>3, Zenon DEF InflowToDrop, OutflowToDrop
    <2>5. \A h \in Heights :
            /\ inflow'[t][h] = IF h \in FirstRecords(inflow[t]) THEN 0 ELSE inflow[t][h]
            /\ outflow'[t][h] = IF h \in FirstRecords(outflow[t]) THEN 0 ELSE outflow[t][h]
      BY <2>4, Zenon DEF Without
    <2>6. Leftovers(t)' = {h \in Heights : inflow'[t][h] # 0 \/ outflow'[t][h] # 0}
      BY Zenon DEF Leftovers, Recorded, Heights
    <2>7. Leftovers(t) = {h \in Heights : inflow[t][h] # 0 \/ outflow[t][h] # 0}
      BY Zenon DEF Leftovers, Recorded
    <2>8. Leftovers(t)' \subseteq Leftovers(t)
      BY <2>5, <2>6, <2>7, Zenon
    <2>9. m \in Recorded(inflow[t]) => m \in FirstRecords(inflow[t])
      BY <2>2, FirstIsPruned, Zenon DEF Leftovers
    <2>10. m \in Recorded(outflow[t]) => m \in FirstRecords(outflow[t])
      BY <2>2, FirstIsPruned, Zenon DEF Leftovers
    <2>11. m \in Heights
      BY <2>7, Zenon
    <2>12. inflow'[t][m] = 0 /\ outflow'[t][m] = 0
      BY <2>5, <2>9, <2>10, <2>11, Zenon DEF Recorded
    <2>13. m \notin Leftovers(t)'
      BY <2>6, <2>12, Zenon
    <2> QED
      BY <2>8, <2>13, Zenon
  <1> QED
    BY <1>2, <1>3, Zenon
       DEF Next, RequestBatch, CreateRateLimit, UpdateRateLimit, RemoveRateLimit, Change,
           handleDepositClaim, OutgoingTxBatchExecuted, CancelOutgoingTXBatch, EndBlock,
           InitGenesis, vars

-----------------------------------------------------------------------------
INSTANCE Sums

(* There are finitely many blocks. *)
LEMMA HeightsFinite == \A H \in SUBSET Heights : IsFiniteSet(H)
  <1>1. IsFiniteSet(Heights)
    BY FS_Interval, RateLimitAssumption, SMTT(30) DEF Heights, RateLimitAssumption
  <1> QED
    BY <1>1, FS_Subset, ZenonT(30)

(* The amounts of the batches of a token, with a batch more or less. *)
LEMMA BatchSumsHold == BatchSumsNat /\ BatchSumsLess
  <1> DEFINE Of(S, t) == {b \in S : b.token = t}
             f(S, t) == [b \in Of(S, t) |-> b.amount]
  <1>1. ASSUME NEW S, NEW t, IsFiniteSet(S), \A b \in S : b.amount \in Nat
        PROVE  /\ DOMAIN f(S, t) = Of(S, t) /\ IsFiniteSet(Of(S, t))
               /\ \A b \in Of(S, t) : /\ f(S, t)[b] = b.amount
                                       /\ f(S, t)[b] \in Nat /\ f(S, t)[b] \in Int
    <2>1. IsFiniteSet(Of(S, t))
      BY <1>1, FS_Subset, Zenon
    <2> QED
      BY <1>1, <2>1, NatInt, ZenonT(30)
  <1>2. \A S, t : BatchSum(S, t) = SumFunction(f(S, t))
    BY Zenon DEF BatchSum
  <1> HIDE DEF f
  <1>3. ASSUME NEW S, NEW t, IsFiniteSet(S), \A b \in S : b.amount \in Nat
        PROVE  BatchSum(S, t) \in Nat
    <2> DEFINE g == f(S, t)
    <2>1. IsFiniteSet(DOMAIN g) /\ \A x \in DOMAIN g : g[x] \in Nat
      BY <1>1, <1>3, Zenon
    <2> HIDE DEF g
    <2>2. SumFunction(g) \in Nat
      BY <2>1, SumFunctionType, Zenon
    <2> QED
      BY <1>2, <2>2, ZenonT(30) DEF g
  <1>4. ASSUME NEW S, NEW t, IsFiniteSet(S), \A b \in S : b.amount \in Nat, NEW b \in S
        PROVE  BatchSum(S, t)
                 = BatchSum(S \ {b}, t) + (IF b.token = t THEN b.amount ELSE 0)
    <2> DEFINE R == S \ {b}
    <2>1. IsFiniteSet(R) /\ \A c \in R : c.amount \in Nat
      BY <1>4, FS_Subset, Zenon
    <2>2. CASE b.token = t
      <3>1. Of(S, t) = Of(R, t) \cup {b} /\ b \notin Of(R, t)
        BY <2>2, Zenon
      <3> HIDE DEF R, Of
      <3>2. /\ DOMAIN f(S, t) = Of(S, t) /\ f(S, t)[b] = b.amount
            /\ \A c \in Of(S, t) : f(S, t)[c] = c.amount /\ f(S, t)[c] \in Int
        BY <1>1, <1>4, <3>1, ZenonT(30)
      <3>3. /\ DOMAIN f(R, t) = Of(R, t) /\ IsFiniteSet(DOMAIN f(R, t))
            /\ \A c \in Of(R, t) : f(R, t)[c] = c.amount
        BY <1>1, <2>1, Zenon
      <3>4. /\ b \notin DOMAIN f(R, t) /\ DOMAIN f(S, t) = DOMAIN f(R, t) \cup {b}
            /\ f(S, t)[b] \in Int
        BY <3>1, <3>2, <3>3, Zenon
      <3>5. \A c \in DOMAIN f(R, t) : f(S, t)[c] = f(R, t)[c] /\ f(R, t)[c] \in Int
        BY <3>1, <3>2, <3>3, ZenonT(30)
      <3>6. SumFunction(f(S, t)) = SumFunction(f(R, t)) + f(S, t)[b]
        <4> DEFINE g == f(R, t)
                   h == f(S, t)
        <4>1. /\ IsFiniteSet(DOMAIN g) /\ b \notin DOMAIN g
              /\ DOMAIN h = DOMAIN g \cup {b} /\ h[b] \in Int
              /\ \A c \in DOMAIN g : h[c] = g[c] /\ g[c] \in Int
          BY <3>3, <3>4, <3>5, ZenonT(30)
        <4> HIDE DEF g, h
        <4>2. SumFunction(h) = SumFunction(g) + h[b]
          BY <4>1, SumFunctionAdd, ZenonT(30)
        <4> QED
          BY <4>2, Zenon DEF g, h
      <3> QED
        BY <1>2, <2>2, <3>2, <3>6, Zenon DEF R
    <2>3. CASE b.token # t
      <3>1. Of(S, t) = Of(R, t)
        BY <2>3, Zenon
      <3>2. f(S, t) = f(R, t)
        BY <3>1, Zenon DEF f
      <3>3. BatchSum(S, t) = BatchSum(R, t)
        BY <1>2, <3>2, Zenon
      <3>4. BatchSum(R, t) \in Nat
        BY <1>3, <2>1, Zenon
      <3> QED
        BY <2>3, <3>3, <3>4, PlusZero, ZenonT(30)
    <2> QED
      BY <2>2, <2>3, Zenon
  <1> QED
    BY <1>3, <1>4, ZenonT(30) DEF BatchSumsNat, BatchSumsLess

(* All that the proofs used of sums. *)
LEMMA SumFactsHold == SumFacts
  <1>1. \A r \in Records, h \in Heights : r[h] \in Nat /\ r[h] \in Int
    BY DEF Records
  <1>2. FlowsNat
    BY <1>1, HeightsFinite, SumNat, ZenonT(30) DEF FlowsNat, Flow
  <1>3. FlowsNone
    BY HeightsFinite, SumZero, Zenon DEF FlowsNone, Flow
  <1>4. FlowsSame
    <2> SUFFICES ASSUME NEW r \in Records, NEW s \in Records, NEW H \in SUBSET Heights,
                        \A h \in H : r[h] = s[h]
                 PROVE  SumFunctionOnSet(r, H) = SumFunctionOnSet(s, H)
      BY Zenon DEF FlowsSame, Flow
    <2> QED
      BY HeightsFinite, SumAgree, Zenon
  <1>5. FlowsSplit
    <2> SUFFICES ASSUME NEW r \in Records, NEW H \in SUBSET Heights, NEW D \in SUBSET H
                 PROVE  SumFunctionOnSet(r, H)
                          = SumFunctionOnSet(r, D) + SumFunctionOnSet(r, H \ D)
      BY Zenon DEF FlowsSplit, Flow
    <2>1. Numbers(r, H)
      BY <1>1, HeightsFinite, Zenon DEF Numbers
    <2>2. Splits(r, H, D)
      BY <2>1, SumPart, Zenon
    <2> QED
      BY <2>2, Zenon DEF Splits
  <1>6. FlowsBlock
    <2> SUFFICES ASSUME NEW r \in Records, NEW H \in SUBSET Heights, NEW h \in H
                 PROVE  SumFunctionOnSet(r, H) = r[h] + SumFunctionOnSet(r, H \ {h})
      BY Zenon DEF FlowsBlock, Flow
    <2>1. Numbers(r, H)
      BY <1>1, HeightsFinite, Zenon DEF Numbers
    <2>2. SplitsOff(r, H, h)
      BY <2>1, SumPoint, Zenon
    <2> QED
      BY <2>2, Zenon DEF SplitsOff
  <1> QED
    BY <1>2, <1>3, <1>4, <1>5, <1>6, BatchSumsHold, ZenonT(30) DEF SumFacts

RateLimitInv == RecordsInv /\ Kept /\ NetMatches /\ Bounded

(* The inductive invariant holds of every limit, its records and its net   *)
(* outflow.                                                                *)
THEOREM RateLimitInvariant == Spec => []RateLimitInv
  <1>1. Init => RateLimitInv
    BY InitRecords, InitKept, InitNet, InitBounded, SumFactsHold, ZenonT(30) DEF RateLimitInv
  <1>2. RateLimitInv /\ [Next]_vars => RateLimitInv'
    BY NextRecords, NextKept, NextNet, NextBounded, SumFactsHold, Zenon DEF RateLimitInv
  <1> QED
    BY <1>1, <1>2, PTL DEF Spec

(* includeRateLimitTransfers, excludeRateLimitTransfers and the passive    *)
(* pruning keep the net outflow equal to the sum of the records, whatever  *)
(* limits come and go, so that InitGenesis rebuilds what was there.        *)
THEOREM RateLimitNetOutflow == Spec => []NetOutflowMatchesRecords
  <1>1. RateLimitInv => NetOutflowMatchesRecords
    BY NetOutflowFromInv, Zenon DEF RateLimitInv
  <1> QED
    BY <1>1, RateLimitInvariant, PTL

(* The records that CheckRateLimit's net outflow is made of are the flows  *)
(* of their blocks, and the window of a limit has none missing since the   *)
(* limit was created.                                                      *)
THEOREM RateLimitRecords == Spec => []RecordsAreTheFlows
  <1>1. RateLimitInv => RecordsAreTheFlows
    BY FlowsFromInv, ZenonT(30) DEF RateLimitInv
  <1> QED
    BY <1>1, RateLimitInvariant, PTL

(* CheckRateLimit, made when a batch is built, bounds what has left the    *)
(* bridge when batches are executed: late, together, or after another one  *)
(* was cancelled.                                                          *)
THEOREM RateLimitOutflow == Spec => []OutflowWithinLimit
  <1>1. RateLimitInv => OutflowWithinLimit
    BY OutflowFromInv, SumFactsHold, Zenon DEF RateLimitInv
  <1> QED
    BY <1>1, RateLimitInvariant, PTL

(* Every block's passive pruning takes some of the records that a removed  *)
(* limit left behind, until none is left.                                  *)
THEOREM RateLimitLeftovers == Spec => LeftoversShrink
  <1>1. RateLimitInv /\ [Next]_vars =>
          [\A t \in Tokens : height' > height /\ ~Limited(t) /\ Leftovers(t) # {} =>
              Leftovers(t)' \subseteq Leftovers(t) /\ Leftovers(t)' # Leftovers(t)]_vars
    BY NextLeftovers, Zenon DEF RateLimitInv
  <1> QED
    BY <1>1, RateLimitInvariant, PTL DEF Spec, LeftoversShrink
=============================================================================
