------------------------------- MODULE Vaults -------------------------------
(***************************************************************************)
(* What the protocol promises, without saying how: a vault per droplet     *)
(* mint takes NFTs in and gives them out, and issues droplets, or claims   *)
(* to them, for exactly what each NFT in it is worth to the vault.         *)
(***************************************************************************)
EXTENDS Integers

CONSTANTS Nfts, Droplets, NFT_VALUE

VARIABLES
    holding,    \* per vault and NFT, as what the vault has it
    issued      \* per vault, what has been issued and not taken back

vars == <<holding, issued>>

Nothing == [kind |-> "Nothing", worth |-> 0]
Deposited == [kind |-> "Deposit", worth |-> NFT_VALUE]
Lent(principal) == [kind |-> "Loan", worth |-> principal]

\* A loan is for no more than a deposit would bring.
Loans == {Lent(principal) : principal \in 0..NFT_VALUE}

Init ==
    /\ holding = [m \in Droplets |-> [n \in Nfts |-> Nothing]]
    /\ issued = [m \in Droplets |-> 0]

-----------------------------------------------------------------------------
\* No vault has n.
Free(n) == \A m \in Droplets : holding[m][n] = Nothing

\* n changes its status in the vault; the difference is issued or taken back.
Exchange(m, n, new) ==
    /\ holding' = [holding EXCEPT ![m][n] = new]
    /\ issued' = [issued EXCEPT ![m] = @ + new.worth - holding[m][n].worth]

Deposit(m, n) == Free(n) /\ Exchange(m, n, Deposited)

\* A deposit on top of a pending swap: that claim is given up.
DepositForfeiting(m, n) ==
    /\ Free(n)
    /\ holding' = [holding EXCEPT ![m][n] = Deposited]
    /\ UNCHANGED issued

Redeem(m, n) == holding[m][n] = Deposited /\ Exchange(m, n, Nothing)

Borrow(m, n) == Free(n) /\ holding'[m][n] \in Loans /\ Exchange(m, n, holding'[m][n])

Repay(m, n) == holding[m][n].kind = "Loan" /\ Exchange(m, n, Nothing)

Liquidate(m, n) == holding[m][n].kind = "Loan" /\ Exchange(m, n, Deposited)

\* Holders destroy droplets of their own.
Burn(m) ==
    /\ UNCHANGED holding
    /\ issued'[m] \in 0..(issued[m] - 1)
    /\ issued' = [issued EXCEPT ![m] = issued'[m]]

Next ==
    \E m \in Droplets :
        \/ \E n \in Nfts :
               \/ Deposit(m, n) \/ DepositForfeiting(m, n) \/ Redeem(m, n)
               \/ Borrow(m, n) \/ Repay(m, n) \/ Liquidate(m, n)
        \/ Burn(m)

Spec == Init /\ [][Next]_vars
=============================================================================
