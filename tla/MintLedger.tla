----------------------------- MODULE MintLedger -----------------------------
(***************************************************************************)
(* What the Pix callbacks promise about BRLT, and what the rest of the     *)
(* system may rely on: a confirmation of a deposit is put on record once,  *)
(* stays there, and entitles to one mint.  Nothing else is minted through  *)
(* a callback, and no mint is taken back.                                  *)
(***************************************************************************)
EXTENDS Sequences

VARIABLES confirmations,  \* confirmed deposits on record, one element per callback
          ledger          \* the confirmations minted for, in order

ledgerVars == <<confirmations, ledger>>

Init == confirmations = {} /\ ledger = <<>>

minted(c) == \E i \in DOMAIN ledger : ledger[i] = c

Confirm(c) ==
    /\ c \notin confirmations
    /\ confirmations' = confirmations \cup {c}
    /\ UNCHANGED ledger

Mint(c) ==
    /\ c \in confirmations /\ ~minted(c)
    /\ ledger' = Append(ledger, c)
    /\ UNCHANGED confirmations

Next ==
    \/ \E c \in confirmations' : Confirm(c)
    \/ \E c \in confirmations : Mint(c)

Spec == Init /\ [][Next]_ledgerVars
=============================================================================
