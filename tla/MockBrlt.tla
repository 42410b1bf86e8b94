------------------------------ MODULE MockBrlt ------------------------------
(***************************************************************************)
(* The fungible token contract contracts/mock_brlt: an admin, one balance  *)
(* per address and the supply the OpenZeppelin Base keeps beside them.     *)
(* The module is instantiated twice by LiquidityPool, once for BRLT and    *)
(* once for the pool's share token (CBPOOL).  A Soroban invocation is      *)
(* atomic: a panic anywhere rolls the whole call back, so a call whose     *)
(* guard fails is simply not a step.                                       *)
(***************************************************************************)
EXTENDS Integers

CONSTANTS Address,   \* every account or contract that can hold tokens
          NoAdmin    \* DataKey::Admin not yet written

VARIABLES admin, balances, total_supply

token == <<admin, balances, total_supply>>

TokenInit ==
    /\ admin = NoAdmin
    /\ balances = [a \in Address |-> 0]
    /\ total_supply = 0

\* Can be called once: the flag Initialized and the admin are written together.
initialize(a) ==
    /\ admin = NoAdmin
    /\ admin' = a
    /\ UNCHANGED <<balances, total_supply>>

\* Base::mint: update(None, to, amount).
mint(caller, to, amount) ==
    /\ caller = admin
    /\ amount >= 0
    /\ balances' = [balances EXCEPT ![to] = @ + amount]
    /\ total_supply' = total_supply + amount
    /\ admin' = admin

\* Faulty variant: the holder keeps the burned tokens.
burn_supply_only(from, amount) ==
    /\ 0 <= amount /\ amount <= balances[from]
    /\ total_supply' = total_supply - amount
    /\ UNCHANGED <<admin, balances>>

\* Base::burn: authorised by the holder itself, never by the admin.
burn(from, amount) ==
    /\ 0 <= amount /\ amount <= balances[from]
    /\ balances' = [balances EXCEPT ![from] = @ - amount]
    /\ total_supply' = total_supply - amount
    /\ admin' = admin

\* FungibleToken::transfer of the library, authorised by `from`.
transfer(from, to, amount) ==
    /\ 0 <= amount /\ amount <= balances[from]
    /\ balances' = [[balances EXCEPT ![from] = @ - amount] EXCEPT ![to] = @ + amount]
    /\ UNCHANGED <<admin, total_supply>>

TokenTypeOK ==
    /\ balances \in [Address -> Nat]
    /\ total_supply \in Int
=============================================================================
