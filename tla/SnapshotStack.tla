--------------------------- MODULE SnapshotStack ---------------------------
(***************************************************************************)
(* What the snapshots of the EVM's state promise: whatever happens in      *)
(* between, reverting to a snapshot gives back the whole state as it was   *)
(* when the snapshot was taken, and the snapshots taken before it remain.  *)
(* How StateDB does this with a journal is the business of                 *)
(* StateDBSnapshots, which shows that it implements this module.           *)
(***************************************************************************)
EXTENDS Naturals, Sequences

VARIABLES
    world,      \* the state
    saved,      \* the snapshots that can be reverted to, the latest last
    next        \* the id of the next snapshot

vars == <<world, saved, next>>

Init == saved = <<>> /\ next = 0

Change == UNCHANGED <<saved, next>>

Snapshot ==
    /\ saved' = Append(saved, [id |-> next, world |-> world])
    /\ next' = next + 1
    /\ UNCHANGED world

RevertTo(i) ==
    /\ world' = saved[i].world
    /\ saved' = SubSeq(saved, 1, i - 1)
    /\ UNCHANGED next

(* The state is committed or thrown away, and its snapshots with it. *)
Close == saved' = <<>> /\ UNCHANGED next

Next == Change \/ Snapshot \/ (\E i \in DOMAIN saved : RevertTo(i)) \/ Close

Spec == Init /\ [][Next]_vars
=============================================================================
