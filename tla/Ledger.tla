------------------------------- MODULE Ledger -------------------------------
(***************************************************************************)
(* The SPL token program as the instructions use it: a ledger maps every   *)
(* holder to the amount in its token account of one droplet mint.  The     *)
(* program calls it by CPI; a call whose payer is short aborts the whole   *)
(* instruction.                                                            *)
(***************************************************************************)
EXTENDS Integers

CanPay(ledger, holder, amount) == ledger[holder] >= amount

MintTo(ledger, holder, amount) == [ledger EXCEPT ![holder] = @ + amount]

Burn(ledger, holder, amount) == [ledger EXCEPT ![holder] = @ - amount]

\* Debits before it credits, so a transfer to oneself changes nothing.
Transfer(ledger, from, to, amount) == MintTo(Burn(ledger, from, amount), to, amount)
=============================================================================
