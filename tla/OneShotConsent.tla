--------------------------- MODULE OneShotConsent ---------------------------
(***************************************************************************)
(* What financial authorizations promise to the operations that require    *)
(* one: "bound to one operation and can be consumed only once"             *)
(* (docs/superpowers/specs/2026-05-20-smart-account-financial-auth-design  *)
(* .md).  A consent is asked for once, for one user and purpose, given at  *)
(* most once, and spent at most once, for what it was asked for.           *)
(***************************************************************************)
CONSTANTS Authorization, User, Purpose, Nothing

VARIABLES stage,   \* "absent", "asked", "given" or "spent"
          terms,   \* the user and purpose a consent was asked for, or Nothing
          spentOn  \* the user and purpose it was spent on, or Nothing

consentVars == <<stage, terms, spentOn>>

Init ==
    /\ stage = [a \in Authorization |-> "absent"]
    /\ terms = [a \in Authorization |-> Nothing]
    /\ spentOn = [a \in Authorization |-> Nothing]

Ask(a, u, p) ==
    /\ stage[a] = "absent"
    /\ stage' = [stage EXCEPT ![a] = "asked"]
    /\ terms' = [terms EXCEPT ![a] = [user |-> u, purpose |-> p]]
    /\ UNCHANGED spentOn

Give(a) ==
    /\ stage[a] = "asked"
    /\ stage' = [stage EXCEPT ![a] = "given"]
    /\ UNCHANGED <<terms, spentOn>>

Spend(a) ==
    /\ stage[a] = "given"
    /\ stage' = [stage EXCEPT ![a] = "spent"]
    /\ spentOn' = [spentOn EXCEPT ![a] = terms[a]]
    /\ UNCHANGED terms

Next ==
    \E a \in Authorization :
        Give(a) \/ Spend(a) \/ \E u \in User, p \in Purpose : Ask(a, u, p)

Spec == Init /\ [][Next]_consentVars
=============================================================================
