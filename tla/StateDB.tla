------------------------------ MODULE StateDB ------------------------------
(***************************************************************************)
(* The EVM's view of the chain's state during one message: live objects    *)
(* over the stored accounts, the branch of the native stores, the journal  *)
(* that undoes changes when a call frame reverts, and Commit               *)
(* (modules/evm/statedb and modules/evm/keeper/statedb.go).                *)
(*                                                                         *)
(* The EVM (go-ethereum) is the environment: it calls the operations in    *)
(* any order its instructions allow.  Zero is the zero hash, the empty     *)
(* code and the nonce of a new account.  originStorage is a read-through   *)
(* cache of stored storage, which only Commit writes, so reads go to the   *)
(* store directly.                                                         *)
(***************************************************************************)
EXTENDS Integers, Sequences

CONSTANTS
    Addresses, Keys,
    Values, Codes, Nonces, Amounts,     \* that the EVM writes and moves
    InitialAccounts, InitialNative,     \* what the message finds
    MaxJournal, MaxSnapshots            \* bounds

Absent == -1        \* of a key in dirtyStorage, of slots in the access list
NotListed == -2     \* of an address in the access list

EmptyStorage == [k \in Keys |-> 0]
EmptyAccount == [nonce |-> 0, code |-> 0, storage |-> EmptyStorage]

Account == [nonce : Nat, code : Nat, storage : [Keys -> Nat]]
Native == [balances : [Addresses -> Nat], accounts : SUBSET Addresses]

ASSUME StateDBAssumption ==
    /\ Values \subseteq Nat /\ Codes \subseteq Nat \ {0} /\ Nonces \subseteq Nat \ {0}
    /\ Amounts \subseteq Nat \ {0}
    /\ InitialAccounts \in [Addresses -> Account]
    /\ InitialNative \in Native
    /\ \A a \in Addresses \ InitialNative.accounts : InitialAccounts[a] = EmptyAccount
    /\ MaxJournal \in Nat /\ MaxSnapshots \in Nat

VARIABLES
    stored,             \* nonces, codes and storage in the parent stores
    native,             \* cacheMS: balances, and the accounts that exist
    stateObjects,
    transientStorage, refund, logs, accessList,
    nativeEvents,       \* how many
    journal, validRevisions, nextRevisionID,
    err,                \* a balance operation has failed
    reverting,          \* index of the revision being reverted to, or 0
    phase               \* "running", "committed" or "aborted"

state == <<native, stateObjects, transientStorage, refund, logs, accessList, nativeEvents>>
revisions == <<validRevisions, nextRevisionID, reverting>>
vars == <<stored, state, journal, revisions, err, phase>>

NoObject ==
    [live |-> FALSE, created |-> FALSE, nonce |-> 0, code |-> 0,
     dirtyStorage |-> [k \in Keys |-> Absent], selfDestructed |-> FALSE,
     newContract |-> FALSE]

(* newObject; an object is created if the account did not exist. *)
newObject(acct, created) ==
    [NoObject EXCEPT !.live = TRUE, !.created = created,
                     !.nonce = acct.nonce, !.code = acct.code]

(* Prepare has filled the access list and SetNonce the sender's nonce; the
   journal of the latter is never undone. *)
Init ==
    /\ stored = InitialAccounts
    /\ native = InitialNative
    /\ stateObjects = [a \in Addresses |-> NoObject]
    /\ transientStorage = [a \in Addresses |-> EmptyStorage]
    /\ refund = 0 /\ logs = <<>> /\ nativeEvents = 0
    /\ accessList = [addresses |-> [a \in Addresses |-> NotListed], slots |-> <<>>]
    /\ journal = <<>> /\ validRevisions = <<>> /\ nextRevisionID = 0
    /\ err = FALSE /\ reverting = 0 /\ phase = "running"

-----------------------------------------------------------------------------
(* Reading *)

Exist(a) == stateObjects[a].live \/ a \in native.accounts

(* The object of an address, loaded if there is none; NoObject for nil. *)
getStateObject(a) ==
    IF stateObjects[a].live THEN stateObjects[a]
    ELSE IF a \in native.accounts THEN newObject(stored[a], FALSE)
    ELSE NoObject

(* getOrNewStateObject, and the journal entry of createObject if it is new. *)
getOrNewStateObject(a) ==
    IF Exist(a) THEN getStateObject(a) ELSE newObject(EmptyAccount, TRUE)

GetState(a, obj, k) ==
    IF obj.dirtyStorage[k] # Absent THEN obj.dirtyStorage[k] ELSE stored[a].storage[k]

GetBalance(a) == native.balances[a]

(* The EVM runs code at the address: a contract's, or its constructor. *)
Runs(a) ==
    LET obj == getStateObject(a)
    IN  obj.nonce # 0 /\ (obj.code # 0 \/ obj.newContract)

-----------------------------------------------------------------------------
(* The journal *)

createObjectChange(a) == [type |-> "createObject", account |-> a]
createContractChange(a) == [type |-> "createContract", account |-> a]
selfDestructChange(a, prev) == [type |-> "selfDestruct", account |-> a, prev |-> prev]
nonceChange(a, prev) == [type |-> "nonce", account |-> a, prev |-> prev]
codeChange(a, prev) == [type |-> "code", account |-> a, prev |-> prev]
storageChange(a, k, prev) == [type |-> "storage", account |-> a, key |-> k, prev |-> prev]
refundChange(prev) == [type |-> "refund", prev |-> prev]
addLogChange == [type |-> "addLog"]
accessListAddAccountChange(a) == [type |-> "listAccount", address |-> a]
accessListAddSlotChange(a, k) == [type |-> "listSlot", address |-> a, slot |-> k]
transientStorageChange(a, k, prev) ==
    [type |-> "transient", account |-> a, key |-> k, prev |-> prev]
nativeChange(snapshot, events) ==
    [type |-> "native", snapshot |-> snapshot, events |-> events]

Journaled == {"createObject", "selfDestruct", "nonce", "code", "storage"}

(* The addresses that the journal counts as dirty. *)
Dirties == {journal[i].account : i \in {j \in DOMAIN journal : journal[j].type \in Journaled}}

(* Mutant of created: an object that was found counts as new. *)
CreatedAnyway(a) == <<createObjectChange(a)>>

created(a) == IF Exist(a) THEN <<>> ELSE <<createObjectChange(a)>>

(* The bound counts the entries, except those that an address has at most
   once, and a failed operation. *)
Counted(e) ==
    CASE e.type \in {"createObject", "createContract"} -> FALSE
      [] e.type = "selfDestruct" -> e.prev
      [] OTHER -> TRUE

Length(entries) ==
    Len(SelectSeq(journal \o entries, Counted)) + (IF err THEN 1 ELSE 0)

append(entries) ==
    /\ Length(entries) <= MaxJournal
    /\ journal' = journal \o entries

Running == phase = "running" /\ reverting = 0

-----------------------------------------------------------------------------
(* Operations on accounts *)

(* A getter: it may load the object, which no journal entry undoes. *)
Load(a) ==
    /\ Running /\ ~stateObjects[a].live /\ a \in native.accounts
    /\ stateObjects' = [stateObjects EXCEPT ![a] = getStateObject(a)]
    /\ UNCHANGED <<stored, native, transientStorage, refund, logs, accessList,
                   nativeEvents, journal, revisions, err, phase>>

OnObject(a, obj, entries) ==
    /\ Running
    /\ append(entries)
    /\ stateObjects' = [stateObjects EXCEPT ![a] = obj]
    /\ UNCHANGED <<stored, native, transientStorage, refund, logs, accessList,
                   nativeEvents, revisions, err, phase>>

(* The EVM creates accounts that do not exist. *)
CreateAccount(a) ==
    ~Exist(a) /\ OnObject(a, newObject(EmptyAccount, TRUE), <<createObjectChange(a)>>)

(* The account of a contract to be: it exists and holds no code. *)
CreateContract(a) ==
    LET obj == getStateObject(a)
    IN  /\ Exist(a) /\ obj.code = 0 /\ obj.nonce = 0
        /\ ~obj.newContract
        /\ OnObject(a, [obj EXCEPT !.newContract = TRUE], <<createContractChange(a)>>)

SetNonce(a, nonce) ==
    LET obj == getOrNewStateObject(a)
    IN  OnObject(a, [obj EXCEPT !.nonce = nonce],
                 created(a) \o <<nonceChange(a, obj.nonce)>>)

SetCode(a, code) ==
    LET obj == getStateObject(a)
    IN  /\ obj.newContract /\ obj.nonce # 0     \* at the end of a constructor
        /\ OnObject(a, [obj EXCEPT !.code = code], <<codeChange(a, obj.code)>>)

SetState(a, k, value) ==
    LET obj == getStateObject(a)
    IN  /\ Runs(a)
        /\ GetState(a, obj, k) # value
        /\ OnObject(a, [obj EXCEPT !.dirtyStorage[k] = value],
                    <<storageChange(a, k, GetState(a, obj, k))>>)

-----------------------------------------------------------------------------
(* Native state *)

(* The bank, external: a transfer fails or gives the recipient an account. *)
Moved(from, to, amount) ==
    [balances |-> [[native.balances EXCEPT ![from] = @ - amount] EXCEPT ![to] = @ + amount],
     accounts |-> native.accounts \cup {to}]

Minted(a, amount) ==
    [balances |-> [native.balances EXCEPT ![a] = @ + amount],
     accounts |-> native.accounts \cup {a}]

Burnt(a, amount) == [native EXCEPT !.balances[a] = @ - amount]

(* ExecuteNativeAction: on success the writes and events are kept and the old
   branch is journaled; on failure nothing changes.  Every caller passes no
   converter, so that no event becomes a log. *)
ExecuteNativeAction(entries, result, events) ==
    /\ native' = result
    /\ nativeEvents' = nativeEvents + events
    /\ append(entries \o <<nativeChange(native, events)>>)

(* A balance operation of the EVM, after the journal entries of its caller: a
   failure is kept for Commit. *)
BalanceOp(entries, result, covered) ==
    /\ Running
    /\ \/ covered /\ ExecuteNativeAction(entries, result, 1) /\ UNCHANGED err
       \/ /\ Length(entries) < MaxJournal
          /\ err' = TRUE /\ append(entries) /\ UNCHANGED <<native, nativeEvents>>
    /\ UNCHANGED <<stored, transientStorage, refund, logs, accessList, revisions, phase>>

(* The EVM has checked the balance; the bank may still refuse. *)
Transfer(from, to, amount) ==
    /\ from # to /\ GetBalance(from) >= amount
    /\ BalanceOp(<<>>, Moved(from, to, amount), TRUE)
    /\ UNCHANGED stateObjects

(* A contract that destructs burns its balance, which its heir is given. *)
AddBalance(a, amount) ==
    BalanceOp(<<>>, Minted(a, amount), TRUE) /\ UNCHANGED stateObjects

SubBalance(a, amount) ==
    /\ Runs(a)
    /\ BalanceOp(<<>>, Burnt(a, amount), GetBalance(a) >= amount)
    /\ UNCHANGED stateObjects

(* A precompile's action; one that fails changes nothing. *)
Precompile(from, to, amount) ==
    /\ Running
    /\ from # to /\ GetBalance(from) >= amount
    /\ ExecuteNativeAction(<<>>, Moved(from, to, amount), 1)
    /\ UNCHANGED <<stored, stateObjects, transientStorage, refund, logs, accessList,
                   revisions, err, phase>>

(* SelfDestruct6780 of a contract of this message; it leaves others alone. *)
SelfDestruct(a) ==
    LET obj == getStateObject(a)
        entries == <<selfDestructChange(a, obj.selfDestructed)>>
        balance == GetBalance(a)
    IN  /\ obj.newContract
        /\ \/ balance > 0 /\ BalanceOp(entries, Burnt(a, balance), TRUE)
              /\ stateObjects' = [stateObjects EXCEPT ![a] = [obj EXCEPT !.selfDestructed = TRUE]]
           \/ balance = 0 /\ OnObject(a, [obj EXCEPT !.selfDestructed = TRUE], entries)

-----------------------------------------------------------------------------
(* The rest of what a frame changes *)

Aside == UNCHANGED <<stored, native, stateObjects, nativeEvents, revisions, err, phase>>

AddLog(contract) ==
    /\ Running /\ Aside /\ Runs(contract)
    /\ append(<<addLogChange>>)
    /\ logs' = Append(logs, contract)
    /\ UNCHANGED <<transientStorage, refund, accessList>>

AddRefund(gas) ==
    /\ Running /\ Aside
    /\ append(<<refundChange(refund)>>)
    /\ refund' = refund + gas
    /\ UNCHANGED <<transientStorage, logs, accessList>>

(* The EVM takes back what it has added. *)
SubRefund(gas) ==
    /\ Running /\ Aside
    /\ gas <= refund
    /\ append(<<refundChange(refund)>>)
    /\ refund' = refund - gas
    /\ UNCHANGED <<transientStorage, logs, accessList>>

SetTransientState(a, k, value) ==
    /\ Running /\ Aside /\ Runs(a)
    /\ transientStorage[a][k] # value
    /\ append(<<transientStorageChange(a, k, transientStorage[a][k])>>)
    /\ transientStorage' = [transientStorage EXCEPT ![a][k] = value]
    /\ UNCHANGED <<refund, logs, accessList>>

AddAddressToAccessList(a) ==
    /\ Running /\ Aside
    /\ accessList.addresses[a] = NotListed
    /\ append(<<accessListAddAccountChange(a)>>)
    /\ accessList' = [accessList EXCEPT !.addresses[a] = Absent]
    /\ UNCHANGED <<transientStorage, refund, logs>>

(* AddSlot: the first slot of an address opens a map of slots for it. *)
AddSlotToAccessList(a, k) ==
    LET idx == accessList.addresses[a]
        first == idx \in {NotListed, Absent}
        slots == IF first THEN {} ELSE accessList.slots[idx]
    IN  /\ Running /\ Aside
        /\ k \notin slots
        /\ append((IF idx = NotListed THEN <<accessListAddAccountChange(a)>> ELSE <<>>)
                  \o <<accessListAddSlotChange(a, k)>>)
        /\ accessList' =
             IF first
             THEN [addresses |-> [accessList.addresses EXCEPT ![a] = Len(accessList.slots) + 1],
                   slots |-> Append(accessList.slots, {k})]
             ELSE [accessList EXCEPT !.slots[idx] = @ \cup {k}]
        /\ UNCHANGED <<transientStorage, refund, logs>>

-----------------------------------------------------------------------------
(* Snapshots *)

Snapshot ==
    /\ Running /\ nextRevisionID < MaxSnapshots
    /\ validRevisions' =
         Append(validRevisions, [id |-> nextRevisionID, journalIndex |-> Len(journal)])
    /\ nextRevisionID' = nextRevisionID + 1
    /\ UNCHANGED <<stored, state, journal, reverting, err, phase>>

(* The revision is searched for by its id. *)
RevertToSnapshot(idx) ==
    /\ Running
    /\ idx \in DOMAIN validRevisions
    /\ reverting' = idx
    /\ UNCHANGED <<stored, state, journal, validRevisions, nextRevisionID, err, phase>>

(* DeleteSlot *)
DeletedSlot(a, k) ==
    LET idx == accessList.addresses[a]
        left == accessList.slots[idx] \ {k}
    IN  IF left = {}
        THEN [addresses |-> [accessList.addresses EXCEPT ![a] = Absent],
              slots |-> SubSeq(accessList.slots, 1, idx - 1)]
        ELSE [accessList EXCEPT !.slots[idx] = left]

(* What the Revert methods of the entries make of the objects. *)
RevertObject(e) ==
    LET obj == getStateObject(e.account)
    IN  CASE e.type = "createObject" -> NoObject
          [] e.type = "createContract" -> [obj EXCEPT !.newContract = FALSE]
          [] e.type = "selfDestruct" -> [obj EXCEPT !.selfDestructed = e.prev]
          [] e.type = "nonce" -> [obj EXCEPT !.nonce = e.prev]
          [] e.type = "code" -> [obj EXCEPT !.code = e.prev]
          [] e.type = "storage" -> [obj EXCEPT !.dirtyStorage[e.key] = e.prev]

ObjectEntries == Journaled \cup {"createContract"}

(* Mutant of RestoredNative: what has been written stays. *)
KeptNative(e) == native

(* revertNativeStateToSnapshot *)
RestoredNative(e) == IF e.type = "native" THEN e.snapshot ELSE native

(* The Revert methods of the journal's entries. *)
Revert(e) ==
    /\ stateObjects' = IF e.type \in ObjectEntries
                       THEN [stateObjects EXCEPT ![e.account] = RevertObject(e)]
                       ELSE stateObjects
    /\ native' = RestoredNative(e)
    /\ nativeEvents' = IF e.type = "native" THEN nativeEvents - e.events ELSE nativeEvents
    /\ refund' = IF e.type = "refund" THEN e.prev ELSE refund
    /\ logs' = IF e.type = "addLog" THEN SubSeq(logs, 1, Len(logs) - 1) ELSE logs
    /\ transientStorage' = IF e.type = "transient"
                           THEN [transientStorage EXCEPT ![e.account][e.key] = e.prev]
                           ELSE transientStorage
    /\ accessList' = CASE e.type = "listAccount" ->
                            [accessList EXCEPT !.addresses[e.address] = NotListed]
                       [] e.type = "listSlot" -> DeletedSlot(e.address, e.slot)
                       [] OTHER -> accessList

(* The loop of journal.Revert, which nothing interrupts, from the last entry
   to the revision's; then the revisions from this one on are dropped. *)
RevertLoop ==
    /\ phase = "running" /\ reverting # 0
    /\ LET n == Len(journal)
       IN  \/ /\ n > validRevisions[reverting].journalIndex
              /\ Revert(journal[n])
              /\ journal' = SubSeq(journal, 1, n - 1)
              /\ UNCHANGED revisions
           \/ /\ n = validRevisions[reverting].journalIndex
              /\ validRevisions' = SubSeq(validRevisions, 1, reverting - 1)
              /\ reverting' = 0
              /\ UNCHANGED <<state, journal, nextRevisionID>>
    /\ UNCHANGED <<stored, err, phase>>

-----------------------------------------------------------------------------
(* Commit *)

codeDirty(a) == stateObjects[a].created \/ stateObjects[a].code # stored[a].code
nonceDirty(a) == stateObjects[a].created \/ stateObjects[a].nonce # stored[a].nonce

(* Mutant of Written: storage is written only along with the account. *)
WrittenWithAccount(a) ==
    LET obj == stateObjects[a]
        writes == codeDirty(a) \/ nonceDirty(a)
    IN  IF obj.selfDestructed THEN EmptyAccount
        ELSE [nonce |-> IF writes THEN obj.nonce ELSE stored[a].nonce,
              code |-> IF writes THEN obj.code ELSE stored[a].code,
              storage |-> IF writes THEN [k \in Keys |-> GetState(a, obj, k)]
                          ELSE stored[a].storage]

(* What the store holds of a dirty account: SetAccount if nonce or code have
   changed, SetState for the dirty keys, or DeleteAccount. *)
Written(a) ==
    LET obj == stateObjects[a]
        writes == codeDirty(a) \/ nonceDirty(a)
    IN  IF obj.selfDestructed THEN EmptyAccount
        ELSE [nonce |-> IF writes THEN obj.nonce ELSE stored[a].nonce,
              code |-> IF writes THEN obj.code ELSE stored[a].code,
              storage |-> [k \in Keys |-> GetState(a, obj, k)]]

Commit ==
    LET deleted == {a \in Dirties : stateObjects[a].selfDestructed}
        set == {a \in Dirties \ deleted : codeDirty(a) \/ nonceDirty(a)}
    IN  /\ Running
        /\ \/ /\ ~err
              /\ phase' = "committed"
              /\ stored' = [a \in Addresses |-> IF a \in Dirties THEN Written(a) ELSE stored[a]]
              /\ native' = [native EXCEPT !.accounts = (@ \cup set) \ deleted]
           \/ /\ err
              /\ phase' = "aborted"
              /\ UNCHANGED <<stored, native>>
        /\ UNCHANGED <<stateObjects, transientStorage, refund, logs, accessList,
                       nativeEvents, journal, revisions, err>>

-----------------------------------------------------------------------------
Next ==
    \/ \E a \in Addresses :
         \/ Load(a) \/ CreateAccount(a) \/ CreateContract(a) \/ SelfDestruct(a)
         \/ AddLog(a) \/ AddAddressToAccessList(a)
         \/ \E n \in Nonces : SetNonce(a, n)
         \/ \E c \in Codes : SetCode(a, c)
         \/ \E k \in Keys : AddSlotToAccessList(a, k)
         \/ \E k \in Keys, v \in Values : SetState(a, k, v) \/ SetTransientState(a, k, v)
         \/ \E amount \in Amounts : AddBalance(a, amount) \/ SubBalance(a, amount)
         \/ \E b \in Addresses, amount \in Amounts :
              Transfer(a, b, amount) \/ Precompile(a, b, amount)
    \/ \E gas \in Amounts : AddRefund(gas) \/ SubRefund(gas)
    \/ Snapshot
    \/ \E idx \in 1..MaxSnapshots : RevertToSnapshot(idx)
    \/ RevertLoop
    \/ Commit

Spec == Init /\ [][Next]_vars
=============================================================================
