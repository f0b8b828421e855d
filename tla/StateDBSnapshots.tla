-------------------------- MODULE StateDBSnapshots --------------------------
(***************************************************************************)
(* StateDB implements SnapshotStack.  The code keeps no copy of the state  *)
(* in a snapshot, only an index into the journal; the history variable     *)
(* before, which nothing in StateDB reads, remembers the state before each *)
(* entry of the journal, to say which state a snapshot stands for.         *)
(***************************************************************************)
EXTENDS StateDB

VARIABLE before

hvars == <<vars, before>>

(* An account as the EVM reads it. *)
View(a) ==
    LET obj == stateObjects[a]
    IN  IF obj.live
        THEN [nonce |-> obj.nonce, code |-> obj.code,
              storage |-> [k \in Keys |-> GetState(a, obj, k)],
              selfDestructed |-> obj.selfDestructed, newContract |-> obj.newContract]
        ELSE [nonce |-> stored[a].nonce, code |-> stored[a].code,
              storage |-> stored[a].storage,
              selfDestructed |-> FALSE, newContract |-> FALSE]

(* All that a frame can change. *)
World ==
    [accounts |-> [a \in Addresses |-> View(a)], native |-> native,
     nativeEvents |-> nativeEvents, transientStorage |-> transientStorage,
     refund |-> refund, logs |-> logs, accessList |-> accessList]

(* The world between the entries of an operation that appends two. *)
Between(e, w) ==
    CASE e.type = "native" -> [w EXCEPT !.native = e.snapshot, !.nativeEvents = @ - e.events]
      [] e.type = "nonce" -> [w EXCEPT !.accounts[e.account].nonce = e.prev]
      [] e.type = "listSlot" ->
           [w EXCEPT !.accessList.addresses[e.address] = Absent,
                     !.accessList.slots = SubSeq(@, 1, Len(@) - 1)]

Remember ==
    LET n == Len(journal)
        m == Len(journal')
    IN  before' = CASE m <= n -> SubSeq(before, 1, m)
                    [] m = n + 1 -> Append(before, World)
                    [] m = n + 2 -> before \o <<World, Between(journal'[m], World')>>

HInit == Init /\ before = <<>>
HNext == Next /\ Remember
HSpec == HInit /\ [][HNext]_hvars

-----------------------------------------------------------------------------
(* The state that a snapshot at an index of the journal stands for. *)
WorldAt(i) == IF i = Len(journal) THEN World ELSE before[i + 1]

(* While the journal is unrolled, the state to come is the snapshot's. *)
CurrentWorld ==
    IF reverting = 0 THEN World ELSE WorldAt(validRevisions[reverting].journalIndex)

SavedWorlds ==
    IF phase # "running" THEN <<>>
    ELSE [i \in 1..(IF reverting = 0 THEN Len(validRevisions) ELSE reverting - 1) |->
            [id |-> validRevisions[i].id, world |-> WorldAt(validRevisions[i].journalIndex)]]

Stack == INSTANCE SnapshotStack
    WITH world <- CurrentWorld, saved <- SavedWorlds, next <- nextRevisionID

(* RevertToSnapshot gives back every part of the state, the native stores
   included, as it was at the snapshot, whatever was loaded, created, moved,
   destructed and reverted in between. *)
ImplementsSnapshots == Stack!Spec

-----------------------------------------------------------------------------
Object ==
    [live : BOOLEAN, created : BOOLEAN, nonce : Nat, code : Nat,
     dirtyStorage : [Keys -> Nat \cup {Absent}], selfDestructed : BOOLEAN,
     newContract : BOOLEAN]

(* Type invariant. *)
TypeOK ==
    /\ stored \in [Addresses -> Account] /\ native \in Native
    /\ stateObjects \in [Addresses -> Object]
    /\ transientStorage \in [Addresses -> [Keys -> Nat]]
    /\ refund \in Nat /\ nativeEvents \in Nat
    /\ logs \in Seq(Addresses)
    /\ accessList \in [addresses : [Addresses -> Nat \cup {Absent, NotListed}],
                       slots : Seq(SUBSET Keys)]
    /\ validRevisions \in Seq([id : Nat, journalIndex : Nat])
    /\ nextRevisionID \in Nat
    /\ reverting \in 0..Len(validRevisions)
    /\ err \in BOOLEAN /\ phase \in {"running", "committed", "aborted"}

(* The journal and the access list fit the objects.  Commit and the Revert
   methods find an object for every address that the journal names: none of
   them dereferences nil.  And "since additions and rollbacks are always
   performed in order", truncating the list of slot maps never cuts off one
   that an address still has. *)
UndoFindsItsPlace ==
    /\ TypeOK
    /\ \A i \in DOMAIN journal : journal[i].type \in ObjectEntries =>
         stateObjects[journal[i].account].live
    /\ \A i \in DOMAIN accessList.slots :
         /\ accessList.slots[i] # {}
         /\ \E a \in Addresses : /\ accessList.addresses[a] = i
                                 /\ \A b \in Addresses \ {a} : accessList.addresses[b] # i

(* What the next message reads of an account. *)
Reread(a) == IF a \in native.accounts THEN stored[a] ELSE EmptyAccount

(* Commit stores what the EVM saw last of every account, dirty or not, where
   the next message finds it, and nothing of those that destructed. *)
CommitStoresView ==
    [][phase' = "committed" /\ phase = "running" =>
         \A a \in Addresses :
            Reread(a)' = IF View(a).selfDestructed THEN EmptyAccount
                         ELSE [nonce |-> View(a).nonce, code |-> View(a).code,
                               storage |-> View(a).storage]]_hvars
=============================================================================
