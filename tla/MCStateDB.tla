----------------------------- MODULE MCStateDB -----------------------------
(* A contract with storage and coins, and an address without an account. *)
EXTENDS StateDBSnapshots

CONSTANTS contract, fresh

MCInitialAccounts ==
    [a \in Addresses |-> IF a = contract
                         THEN [nonce |-> 1, code |-> 1, storage |-> [k \in Keys |-> 1]]
                         ELSE EmptyAccount]

MCInitialNative ==
    [balances |-> [a \in Addresses |-> IF a = contract THEN 1 ELSE 0],
     accounts |-> {contract}]
=============================================================================
