--------------------------- MODULE LiquidityPool ----------------------------
(***************************************************************************)
(* The Soroban contract contracts/liquidity_pool together with the two     *)
(* token contracts it calls: BRLT, the asset investors pay in, and CBPOOL, *)
(* the share token whose admin is the pool.  One action per entry point.   *)
(* Whatever an outside account may do to the tokens without going through  *)
(* the pool (BRLT minted or transferred straight to the pool, shares       *)
(* transferred or burned by their holder) is an action too, because the    *)
(* pool prices shares from the BRLT balance it happens to hold.            *)
(***************************************************************************)
EXTENDS Integers, Totals

CONSTANTS Account,    \* investors and sellers
          Staff,      \* addresses the admin may appoint operator; they hold no tokens
          Admin,      \* admin of the pool and of BRLT
          Pool,       \* the address of the pool contract
          Invoice,    \* invoice hashes (BytesN<32>)
          Amounts,    \* amounts callers may pass, valid or not
          NoAdmin,    \* see MockBrlt
          MaxSupply   \* bound: BRLT ever in circulation

ASSUME AddressAssumption ==
    /\ Admin \in Staff
    /\ Pool \notin Account \cup Staff
    /\ NoAdmin \notin Staff \cup {Pool}

ASSUME AmountAssumption == Amounts \subseteq Int /\ MaxSupply \in Nat

\* Addresses and hashes are 32 bytes each: there are many, but not infinitely many.
ASSUME FiniteAssumption == IsFiniteSet(Account) /\ IsFiniteSet(Invoice)

\* The addresses that hold tokens.
Address == Account \cup {Pool}

VARIABLES initialized,       \* DataKey::Initialized
          operator,
          total_principal,   \* BRLT advanced on invoices not yet settled
          total_shares,      \* the pool's own count of shares
          paused,
          processed,         \* DataKey::ProcessedInvoice
          brltAdmin, brlt, brltSupply,
          shareAdmin, share, shareSupply,
          disbursed          \* history: BRLT paid out for each invoice

poolState == <<operator, total_principal, total_shares, paused>>
brltToken == <<brltAdmin, brlt, brltSupply>>
shareToken == <<shareAdmin, share, shareSupply>>
vars == <<initialized, poolState, processed, brltToken, shareToken, disbursed>>

Brlt == INSTANCE MockBrlt WITH
    admin <- brltAdmin, balances <- brlt, total_supply <- brltSupply
Share == INSTANCE MockBrlt WITH
    admin <- shareAdmin, balances <- share, total_supply <- shareSupply

Init ==
    /\ initialized = FALSE
    /\ operator = Admin
    /\ total_principal = 0
    /\ total_shares = 0
    /\ paused = FALSE
    /\ processed = {}
    /\ Brlt!TokenInit
    /\ Share!TokenInit
    /\ disbursed = [i \in Invoice |-> 0]

----------------------------------------------------------------------------
\* get_token_balance(asset_address)
cash == brlt[Pool]

get_nav == cash + total_principal

\* Faulty variant: the paused flag is not consulted.
require_initialized_only == initialized

\* load_state, then require_not_paused
require_not_paused == initialized /\ ~paused

require_operator(caller) == caller \in {operator, Admin}

\* Faulty variant: every deposit is priced at par.
shares_at_par(amount) == amount

\* shares = amount * total_shares / nav_before, one for one into an empty pool
shares_to_mint(amount) ==
    IF total_shares = 0 THEN amount ELSE (amount * total_shares) \div get_nav

\* Faulty variant: what is paid out is rounded up.
brlt_rounded_up(shares) == (shares * get_nav + total_shares - 1) \div total_shares

brlt_to_return(shares) == (shares * get_nav) \div total_shares

\* Faulty variant: an off-by-one that never lets the pool pay its last unit.
leaves_cash(amount) == amount < cash

\* The negation of both InsufficientPoolBalance conditions.
pool_can_pay(amount) == amount <= cash

\* Faulty variant: the invoice is booked at its face value.
book_face_value(face_value, advance_amount) == total_principal + face_value

principal_after_purchase(face_value, advance_amount) == total_principal + advance_amount

\* Faulty variant: the reduction is not clamped.
principal_unclamped(principal_to_reduce) == total_principal - principal_to_reduce

principal_after_settlement(principal_to_reduce) ==
    IF principal_to_reduce > total_principal
    THEN 0 ELSE total_principal - principal_to_reduce

----------------------------------------------------------------------------
initialize(op) ==
    /\ ~initialized
    /\ initialized' = TRUE
    /\ operator' = op
    /\ total_principal' = 0
    /\ total_shares' = 0
    /\ paused' = FALSE
    /\ UNCHANGED <<processed, brltToken, shareToken, disbursed>>

deposit(investor, amount) ==
    /\ require_not_paused
    /\ amount > 0
    /\ total_shares = 0 \/ get_nav > 0
    /\ Brlt!transfer(investor, Pool, amount)
    /\ Share!mint(Pool, investor, shares_to_mint(amount))
    /\ total_shares' = total_shares + shares_to_mint(amount)
    /\ UNCHANGED <<initialized, operator, total_principal, paused, processed, disbursed>>

\* Faulty variant: total_shares drops by the BRLT paid, not the shares burned.
withdraw_counting_brlt(investor, shares) ==
    /\ require_not_paused
    /\ 0 < shares /\ shares <= total_shares
    /\ get_nav > 0
    /\ pool_can_pay(brlt_to_return(shares))
    /\ Share!burn(investor, shares)
    /\ Brlt!transfer(Pool, investor, brlt_to_return(shares))
    /\ total_shares' = total_shares - brlt_to_return(shares)
    /\ UNCHANGED <<initialized, operator, total_principal, paused, processed, disbursed>>

withdraw(investor, shares) ==
    /\ require_not_paused
    /\ 0 < shares /\ shares <= total_shares
    /\ get_nav > 0
    /\ pool_can_pay(brlt_to_return(shares))
    /\ Share!burn(investor, shares)
    /\ Brlt!transfer(Pool, investor, brlt_to_return(shares))
    /\ total_shares' = total_shares - shares
    /\ UNCHANGED <<initialized, operator, total_principal, paused, processed, disbursed>>

\* The seller is any address, the pool's own included.
buy_tokenized_invoice(caller, seller, i, face_value, advance_amount) ==
    /\ require_not_paused
    /\ require_operator(caller)
    /\ 0 < advance_amount /\ 0 < face_value /\ advance_amount <= face_value
    /\ i \notin processed
    /\ pool_can_pay(advance_amount)
    /\ Brlt!transfer(Pool, seller, advance_amount)
    /\ total_principal' = principal_after_purchase(face_value, advance_amount)
    /\ processed' = processed \cup {i}
    /\ disbursed' = [disbursed EXCEPT ![i] = @ + advance_amount]
    /\ UNCHANGED <<initialized, operator, total_shares, paused, shareToken>>

\* The invoice hash only reaches the event: neither ProcessedInvoice nor a
\* repayment is looked at, and a call is not recorded.
settle_invoice_in_pool(caller, principal_to_reduce) ==
    /\ require_not_paused
    /\ require_operator(caller)
    /\ principal_to_reduce > 0
    /\ total_principal' = principal_after_settlement(principal_to_reduce)
    /\ UNCHANGED <<initialized, operator, total_shares, paused, processed,
                   brltToken, shareToken, disbursed>>

pause(caller) ==
    /\ initialized /\ caller = Admin
    /\ paused' = TRUE
    /\ UNCHANGED <<initialized, operator, total_principal, total_shares, processed,
                   brltToken, shareToken, disbursed>>

unpause(caller) ==
    /\ initialized /\ caller = Admin
    /\ paused' = FALSE
    /\ UNCHANGED <<initialized, operator, total_principal, total_shares, processed,
                   brltToken, shareToken, disbursed>>

set_operator(caller, new_operator) ==
    /\ initialized /\ caller = Admin
    /\ operator' = new_operator
    /\ UNCHANGED <<initialized, total_principal, total_shares, paused, processed,
                   brltToken, shareToken, disbursed>>

----------------------------------------------------------------------------
(* What other accounts do directly to the two tokens.                      *)

poolUnchanged == UNCHANGED <<initialized, poolState, processed, disbursed>>

DeployTokens ==
    /\ \/ Brlt!initialize(Admin) /\ UNCHANGED shareToken
       \/ Share!initialize(Pool) /\ UNCHANGED brltToken
    /\ poolUnchanged

\* Deposits bought with Pix, and the repayment of an invoice, mint BRLT.
BrltMint(to, amount) ==
    /\ brltSupply + amount <= MaxSupply
    /\ Brlt!mint(Admin, to, amount)
    /\ poolUnchanged /\ UNCHANGED shareToken

BrltTransfer(from, to, amount) ==
    /\ Brlt!transfer(from, to, amount)
    /\ poolUnchanged /\ UNCHANGED shareToken

BrltBurn(from, amount) ==
    /\ Brlt!burn(from, amount)
    /\ poolUnchanged /\ UNCHANGED shareToken

ShareTransfer(from, to, amount) ==
    /\ Share!transfer(from, to, amount)
    /\ poolUnchanged /\ UNCHANGED brltToken

\* CBPOOL is a MockBrlt like any other: its holder may burn without the pool.
ShareBurn(from, amount) ==
    /\ Share!burn(from, amount)
    /\ poolUnchanged /\ UNCHANGED brltToken

Next ==
    \/ DeployTokens
    \/ \E op \in Staff : initialize(op)
    \/ \E a \in Account, x \in Amounts :
         deposit(a, x) \/ withdraw(a, x) \/ BrltBurn(a, x) \/ ShareBurn(a, x)
    \/ \E c \in Staff, s \in Address, i \in Invoice, f, x \in Amounts :
         buy_tokenized_invoice(c, s, i, f, x)
    \/ \E c \in Staff, x \in Amounts : settle_invoice_in_pool(c, x)
    \/ \E c, op \in Staff : pause(c) \/ unpause(c) \/ set_operator(c, op)
    \/ \E to \in Address, x \in Amounts : BrltMint(to, x)
    \/ \E a \in Account, to \in Address, x \in Amounts :
         BrltTransfer(a, to, x) \/ ShareTransfer(a, to, x)

Spec == Init /\ [][Next]_vars

----------------------------------------------------------------------------
\* The state keeps its shape; in particular no balance, no share count and no
\* principal is ever negative ("total_shares >= 0", "NAV >= 0" in section 4 of
\* documentacao/referencia-tecnica-fase2.md), although every subtraction in
\* the contract is unchecked i128 arithmetic.
TypeOK ==
    /\ initialized \in BOOLEAN
    /\ operator \in Staff
    /\ total_principal \in Nat
    /\ total_shares \in Nat
    /\ paused \in BOOLEAN
    /\ processed \subseteq Invoice
    /\ brltAdmin \in {NoAdmin, Admin} /\ Brlt!TokenTypeOK
    /\ shareAdmin \in {NoAdmin, Pool} /\ Share!TokenTypeOK
    /\ disbursed \in [Invoice -> Nat]

\* The share tokens that exist never exceed the count the pool divides by,
\* although holders can move and burn them without the pool: otherwise
\* withdraw would promise more than the NAV.
ShareSupplyCovered == shareSupply <= total_shares

\* What every holder would be paid if all redeemed at today's price is
\* together at most the NAV.
ClaimsCovered ==
    total_shares > 0 =>
        total([a \in Address |-> brlt_to_return(share[a])]) <= get_nav

\* The value of a share, nav / total_shares, never falls, whatever anyone does
\* in whatever order, except when the operator writes principal off.  Written
\* without division; it also says that no deposit can be withdrawn at a profit.
NoDilution ==
    [][total_shares > 0 /\ total_principal' >= total_principal =>
         get_nav' * total_shares >= get_nav * total_shares']_vars

\* A pool with shares keeps a positive NAV, down to the last share and the last
\* BRLT, unless the operator writes principal off.  At NAV zero deposit and
\* withdraw both refuse (InvalidNav) and the pool could neither be entered nor
\* left again.
PoolStaysOpen ==
    [][(total_shares > 0 => get_nav > 0) /\ total_principal' >= total_principal =>
         (total_shares' > 0 => get_nav' > 0)]_vars

\* Once no principal is outstanding, whoever holds shares can redeem all of
\* them in one withdraw: none of its early returns can lock a holder in
\* while the pool has any value.
NoLockedShares ==
    \A a \in Account :
        require_not_paused /\ total_principal = 0 /\ get_nav > 0 /\ share[a] > 0
            => ENABLED withdraw(a, share[a])

\* The principal on the books is at most the BRLT the pool has paid out for the
\* invoices it bought (to itself, when it is named the seller).
PrincipalBacked == total_principal <= total(disbursed)

\* While the pool is paused its books do not move and no BRLT leaves it.
FrozenWhilePaused ==
    [][paused /\ paused' =>
         UNCHANGED <<total_principal, total_shares, processed>> /\ cash' >= cash]_vars
=============================================================================
