---------------------- MODULE FinancialAuthorizations -----------------------
(***************************************************************************)
(* FinancialAuthorizationsService (apps/api/src/modules/                   *)
(* financial-authorizations): a user asks for a challenge bound to one     *)
(* operation, signs its hash with the Privy Stellar wallet, has the        *)
(* signature verified, and a business endpoint consumes it.                *)
(*                                                                         *)
(* verify and consume read the row, check it, and write it in a later      *)
(* statement, so calls about the same row interleave.  The operation, the  *)
(* resource, the amount and the destination are one value, a Purpose: the  *)
(* code compares all four for equality.                                    *)
(***************************************************************************)
EXTENDS Naturals

CONSTANTS Authorization,   \* ids of FinancialAuthorization rows
          User, Wallet, Purpose,
          Call,            \* requests served at a time
          Nothing,         \* null
          TTL,             \* AUTH_TTL_MS
          MaxTime          \* bound on the clock

Terms == [user : User, purpose : Purpose]
Grant == [user : User, purpose : Purpose, at : Nat]
Row == [user : User, wallet : Wallet, purpose : Purpose, expiresAt : Nat,
        verified : BOOLEAN, consumed : BOOLEAN]

ASSUME NothingAssumption == Nothing \notin Wallet \cup Row \cup Grant \cup Terms
ASSUME TimeAssumption == TTL \in Nat /\ MaxTime \in Nat

VARIABLES clock,
          wallet,     \* User.privyStellarWalletAddress while privyWalletStatus is 'ready'
          row,        \* the FinancialAuthorization table, Nothing while there is no row
          signature,  \* <<wallet, authorization>>: payload hashes the wallet's owner has signed
          call,       \* what each request is doing
          uses,       \* history: how often consume returned for a row
          grant       \* history: what the last consume of a row was for, and when

vars == <<clock, wallet, row, signature, call, uses, grant>>

Idle == [pc |-> "idle"]

Init ==
    /\ clock = 0
    /\ wallet = [u \in User |-> Nothing]
    /\ row = [a \in Authorization |-> Nothing]
    /\ signature = {}
    /\ call = [k \in Call |-> Idle]
    /\ uses = [a \in Authorization |-> 0]
    /\ grant = [a \in Authorization |-> Nothing]

Tick ==
    /\ clock < MaxTime
    /\ clock' = clock + 1
    /\ UNCHANGED <<wallet, row, signature, call, uses, grant>>

\* privySession: a user's wallet becomes known, or is replaced; the address
\* is UNIQUE among users.
SyncWallet(u, w) ==
    /\ \A v \in User \ {u} : wallet[v] # w
    /\ wallet' = [wallet EXCEPT ![u] = w]
    /\ UNCHANGED <<clock, row, signature, call, uses, grant>>

\* The payload hash stands for the row: payload and nonce are unique to it.
createChallenge(a, u, p) ==
    /\ row[a] = Nothing
    /\ wallet[u] # Nothing
    /\ row' = [row EXCEPT ![a] = [user |-> u, wallet |-> wallet[u], purpose |-> p,
                                  expiresAt |-> clock + TTL,
                                  verified |-> FALSE, consumed |-> FALSE]]
    /\ UNCHANGED <<clock, wallet, signature, call, uses, grant>>

Sign(w, a) ==
    /\ row[a] # Nothing
    /\ signature' = signature \cup {<<w, a>>}
    /\ UNCHANGED <<clock, wallet, row, call, uses, grant>>

----------------------------------------------------------------------------
expired(r) == r.expiresAt < clock

\* Faulty variant: any wallet's signature will do.
signedBySomeone(a) == \E w \in Wallet : <<w, a>> \in signature

\* verifyPrivyRawHashSignature
signatureValid(a) ==
    /\ wallet[row[a].user] = row[a].wallet
    /\ <<row[a].wallet, a>> \in signature

verify(k, u, a) ==
    /\ call[k].pc = "idle"
    /\ row[a] # Nothing /\ row[a].user = u
    /\ ~row[a].consumed
    /\ ~expired(row[a])
    /\ signatureValid(a)
    /\ call' = [call EXCEPT ![k] = [pc |-> "verifying", id |-> a]]
    /\ UNCHANGED <<clock, wallet, row, signature, uses, grant>>

\* Faulty variant: the row is written back as it was read, unconsumed.
verifyUpdateWholeRow(k) ==
    /\ call[k].pc = "verifying"
    /\ row' = [row EXCEPT ![call[k].id].verified = TRUE, ![call[k].id].consumed = FALSE]
    /\ call' = [call EXCEPT ![k] = Idle]
    /\ UNCHANGED <<clock, wallet, signature, uses, grant>>

\* update({ where: { id }, data: { signature, verifiedAt } })
verifyUpdate(k) ==
    /\ call[k].pc = "verifying"
    /\ row' = [row EXCEPT ![call[k].id].verified = TRUE]
    /\ call' = [call EXCEPT ![k] = Idle]
    /\ UNCHANGED <<clock, wallet, signature, uses, grant>>

\* consume up to the last of its checks
consume(k, u, a, p) ==
    /\ call[k].pc = "idle"
    /\ row[a] # Nothing /\ row[a].user = u
    /\ row[a].verified
    /\ ~row[a].consumed
    /\ ~expired(row[a])
    /\ row[a].purpose = p
    /\ call' = [call EXCEPT ![k] = [pc |-> "consuming", id |-> a, user |-> u, purpose |-> p]]
    /\ UNCHANGED <<clock, wallet, row, signature, uses, grant>>

\* Faulty variant: the update does not look at consumedAt and expiresAt again.
matchesById(c) == row[c.id].user = c.user

\* Faulty variant: expiry is left to the check before the update.
matchesIgnoringExpiry(c) ==
    /\ row[c.id].user = c.user /\ row[c.id].purpose = c.purpose
    /\ row[c.id].verified
    /\ ~row[c.id].consumed

\* The WHERE clause of updateMany.
matches(c) ==
    /\ row[c.id].user = c.user /\ row[c.id].purpose = c.purpose
    /\ row[c.id].verified
    /\ ~row[c.id].consumed
    /\ row[c.id].expiresAt > clock

\* updateMany; a count other than 1 is an error to the caller.
consumeUpdate(k) ==
    LET c == call[k] IN
    /\ c.pc = "consuming"
    /\ IF matches(c)
       THEN /\ row' = [row EXCEPT ![c.id].consumed = TRUE]
            /\ uses' = [uses EXCEPT ![c.id] = @ + 1]
            /\ grant' = [grant EXCEPT ![c.id] = [user |-> c.user, purpose |-> c.purpose, at |-> clock]]
       ELSE UNCHANGED <<row, uses, grant>>
    /\ call' = [call EXCEPT ![k] = Idle]
    /\ UNCHANGED <<clock, wallet, signature>>

\* The request dies between its two statements.
Crash(k) ==
    /\ call[k].pc # "idle"
    /\ call' = [call EXCEPT ![k] = Idle]
    /\ UNCHANGED <<clock, wallet, row, signature, uses, grant>>

Next ==
    \/ Tick
    \/ \E u \in User, w \in Wallet : SyncWallet(u, w)
    \/ \E a \in Authorization, u \in User, p \in Purpose : createChallenge(a, u, p)
    \/ \E w \in Wallet, a \in Authorization : Sign(w, a)
    \/ \E k \in Call, u \in User, a \in Authorization :
         verify(k, u, a) \/ \E p \in Purpose : consume(k, u, a, p)
    \/ \E k \in Call : verifyUpdate(k) \/ consumeUpdate(k) \/ Crash(k)

Spec == Init /\ [][Next]_vars

----------------------------------------------------------------------------
Calls == [pc : {"idle"}] \cup [pc : {"verifying"}, id : Authorization]
           \cup [pc : {"consuming"}, id : Authorization, user : User, purpose : Purpose]

\* Shape of the state; a call in progress is about a row that exists.
TypeOK ==
    /\ clock \in Nat
    /\ wallet \in [User -> Wallet \cup {Nothing}]
    /\ row \in [Authorization -> Row \cup {Nothing}]
    /\ signature \subseteq Wallet \X Authorization
    /\ call \in [Call -> Calls]
    /\ \A k \in Call : call[k].pc # "idle" => row[call[k].id] # Nothing
    /\ uses \in [Authorization -> Nat]
    /\ grant \in [Authorization -> Grant \cup {Nothing}]

\* "can be consumed only once": two requests that both pass the checks of
\* consume do not both return.
ConsumedOnce == \A a \in Authorization : uses[a] <= 1

\* Whatever is executed was asked for by that user, for that purpose, signed by
\* the wallet the challenge named, and had not expired when it was consumed.
ConsentGiven ==
    \A a \in Authorization :
        uses[a] > 0 =>
            /\ row[a].user = grant[a].user /\ row[a].purpose = grant[a].purpose
            /\ <<row[a].wallet, a>> \in signature
            /\ grant[a].at < row[a].expiresAt

\* The inductive invariant: consumedAt is the record of the one use, and what
\* a call has checked cannot be undone by another one.
Inv ==
    /\ TypeOK
    /\ \A a \in Authorization :
         IF row[a] = Nothing THEN uses[a] = 0 /\ grant[a] = Nothing
         ELSE /\ uses[a] = IF row[a].consumed THEN 1 ELSE 0
              /\ row[a].consumed <=> grant[a] # Nothing
              /\ row[a].consumed =>
                   /\ row[a].verified
                   /\ grant[a].user = row[a].user /\ grant[a].purpose = row[a].purpose
                   /\ grant[a].at < row[a].expiresAt
              /\ row[a].verified => <<row[a].wallet, a>> \in signature
    /\ \A k \in Call :
         call[k].pc = "verifying" => <<row[call[k].id].wallet, call[k].id>> \in signature

----------------------------------------------------------------------------
\* The refinement mapping: a verified row is a consent that was given, a
\* consumed one is spent.
stageOf(a) ==
    IF row[a] = Nothing THEN "absent"
    ELSE IF row[a].consumed THEN "spent"
    ELSE IF row[a].verified THEN "given" ELSE "asked"
termsOf(a) ==
    IF row[a] = Nothing THEN Nothing
    ELSE [user |-> row[a].user, purpose |-> row[a].purpose]
spentOnOf(a) ==
    IF grant[a] = Nothing THEN Nothing
    ELSE [user |-> grant[a].user, purpose |-> grant[a].purpose]

Consent == INSTANCE OneShotConsent WITH
    stage <- [a \in Authorization |-> stageOf(a)],
    terms <- [a \in Authorization |-> termsOf(a)],
    spentOn <- [a \in Authorization |-> spentOnOf(a)]

\* The service implements OneShotConsent: no interleaving of verify and consume
\* calls gives a consent twice, takes one back, or spends it on other terms.
ImplementsConsent == Consent!Spec
=============================================================================
