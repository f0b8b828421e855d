------------------------------ MODULE Vouchers ------------------------------
(***************************************************************************)
(* Claims on coins that a module could not deliver, by address and denom   *)
(* (modules/common/vouchers/assistant.go).  A module account that keeps    *)
(* vouchers keeps the coins behind them among its own.                     *)
(***************************************************************************)
EXTENDS Integers, Functions

NoVouchers(accounts, denoms) == [a \in accounts |-> [d \in denoms |-> 0]]

GetVoucher(vouchers, denom, addr) == vouchers[addr][denom]

(* Mutant of AddVoucher: the new amount replaces the old one. *)
OverwriteVoucher(vouchers, addr, denom, amount) ==
    [vouchers EXCEPT ![addr][denom] = amount]

AddVoucher(vouchers, addr, denom, amount) ==
    [vouchers EXCEPT ![addr][denom] = GetVoucher(vouchers, denom, addr) + amount]

DeleteVoucher(vouchers, addr, denom) ==
    [vouchers EXCEPT ![addr][denom] = 0]

(* What the vouchers of all addresses claim of a denom. *)
VoucherReserved(vouchers, denom) ==
    SumFunction([a \in DOMAIN vouchers |-> vouchers[a][denom]])
=============================================================================
