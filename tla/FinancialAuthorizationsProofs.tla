------------------- MODULE FinancialAuthorizationsProofs --------------------
(***************************************************************************)
(* Proofs about FinancialAuthorizations: Inv is inductive, an              *)
(* authorization is consumed at most once and only as consented to, and    *)
(* the service implements OneShotConsent.                                  *)
(***************************************************************************)
EXTENDS FinancialAuthorizations, TLAPS

RowInv(a) ==
    IF row[a] = Nothing THEN uses[a] = 0 /\ grant[a] = Nothing
    ELSE /\ uses[a] = IF row[a].consumed THEN 1 ELSE 0
         /\ row[a].consumed <=> grant[a] # Nothing
         /\ row[a].consumed =>
              /\ row[a].verified
              /\ grant[a].user = row[a].user /\ grant[a].purpose = row[a].purpose
              /\ grant[a].at < row[a].expiresAt
         /\ row[a].verified => <<row[a].wallet, a>> \in signature

CallInv(k) ==
    call[k].pc = "verifying" => <<row[call[k].id].wallet, call[k].id>> \in signature

\* Inv, split into the part about a row and the part about a call.
LEMMA InvParts ==
    Inv <=> /\ TypeOK
            /\ \A a \in Authorization : RowInv(a)
            /\ \A k \in Call : CallInv(k)
BY DEF Inv, RowInv, CallInv

\* The same split in the next state.
LEMMA InvPartsNext ==
    Inv' <=> /\ TypeOK'
             /\ \A a \in Authorization : RowInv(a)'
             /\ \A k \in Call : CallInv(k)'
BY DEF Inv, RowInv, CallInv

\* The empty table satisfies the invariant.
LEMMA InvInit == Init => Inv
<1> SUFFICES ASSUME Init PROVE Inv
  OBVIOUS
<1>1. TypeOK
  BY DEF Init, TypeOK, Idle, Calls
<1>2. QED
  BY <1>1, InvParts DEF Init, Idle, RowInv, CallInv

\* A call in progress is about an authorization and carries what it checked.
LEMMA CallType ==
    ASSUME TypeOK, NEW k \in Call
    PROVE  /\ call[k].pc \in {"idle", "verifying", "consuming"}
           /\ call[k].pc # "idle" => call[k].id \in Authorization /\ row[call[k].id] \in Row
           /\ call[k].pc = "consuming" => call[k].user \in User /\ call[k].purpose \in Purpose
BY DEF TypeOK, Calls

\* Every step keeps the invariant.
LEMMA InvNext == Inv /\ [Next]_vars => Inv'
<1> SUFFICES ASSUME Inv, [Next]_vars PROVE Inv'
  OBVIOUS
<1>0. TypeOK /\ (\A a \in Authorization : RowInv(a)) /\ (\A k \in Call : CallInv(k))
  BY InvParts
<1>1. CASE Tick
  <2>1. TypeOK'
    BY <1>0, <1>1 DEF Tick, TypeOK, Calls
  <2>2. QED
    BY <1>0, <1>1, <2>1, InvPartsNext DEF Tick, RowInv, CallInv
<1>2. ASSUME NEW u \in User, NEW w \in Wallet, SyncWallet(u, w) PROVE Inv'
  <2>1. TypeOK'
    BY <1>0, <1>2 DEF SyncWallet, TypeOK, Calls
  <2>2. QED
    BY <1>0, <1>2, <2>1, InvPartsNext DEF SyncWallet, RowInv, CallInv
<1>3. ASSUME NEW a \in Authorization, NEW u \in User, NEW p \in Purpose,
             createChallenge(a, u, p)
      PROVE  Inv'
  <2> DEFINE new == [user |-> u, wallet |-> wallet[u], purpose |-> p,
                     expiresAt |-> clock + TTL, verified |-> FALSE, consumed |-> FALSE]
  <2>1. new \in Row
    BY <1>0, <1>3, TimeAssumption DEF createChallenge, TypeOK, Row
  <2>2. row' = [row EXCEPT ![a] = new] /\ row[a] = Nothing
    BY <1>3 DEF createChallenge
  <2>3. UNCHANGED <<clock, wallet, signature, call, uses, grant>>
    BY <1>3 DEF createChallenge
  <2> HIDE DEF new
  <2>4. TypeOK'
    BY <1>0, <2>1, <2>2, <2>3, NothingAssumption DEF TypeOK, Calls
  <2>5. ASSUME NEW b \in Authorization PROVE RowInv(b)'
    <3>1. CASE b = a
      BY <1>0, <3>1, <2>1, <2>2, <2>3, NothingAssumption DEF RowInv, new, TypeOK
    <3>2. CASE b # a
      BY <1>0, <3>2, <2>2, <2>3 DEF RowInv, TypeOK
    <3>3. QED
      BY <3>1, <3>2
  <2>6. ASSUME NEW k \in Call PROVE CallInv(k)'
    BY <1>0, <2>2, <2>3, CallType, NothingAssumption DEF CallInv, TypeOK
  <2>7. QED
    BY <2>4, <2>5, <2>6, InvPartsNext
<1>4. ASSUME NEW w \in Wallet, NEW a \in Authorization, Sign(w, a) PROVE Inv'
  <2>1. TypeOK'
    BY <1>0, <1>4 DEF Sign, TypeOK, Calls
  <2>2. QED
    BY <1>0, <1>4, <2>1, InvPartsNext DEF Sign, RowInv, CallInv
<1>5. ASSUME NEW k \in Call, NEW u \in User, NEW a \in Authorization, verify(k, u, a)
      PROVE  Inv'
  <2>1. TypeOK'
    BY <1>0, <1>5 DEF verify, TypeOK, Calls, Idle
  <2>2. \A j \in Call : CallInv(j)'
    BY <1>0, <1>5 DEF verify, signatureValid, CallInv, TypeOK
  <2>3. QED
    BY <1>0, <1>5, <2>1, <2>2, InvPartsNext DEF verify, RowInv
<1>6. ASSUME NEW k \in Call, NEW u \in User, NEW a \in Authorization, NEW p \in Purpose,
             consume(k, u, a, p)
      PROVE  Inv'
  <2>1. TypeOK'
    BY <1>0, <1>6 DEF consume, TypeOK, Calls, Idle
  <2>2. \A j \in Call : CallInv(j)'
    BY <1>0, <1>6 DEF consume, CallInv, TypeOK
  <2>3. QED
    BY <1>0, <1>6, <2>1, <2>2, InvPartsNext DEF consume, RowInv
<1>7. ASSUME NEW k \in Call, verifyUpdate(k) PROVE Inv'
  <2> DEFINE i == call[k].id
  <2>1. i \in Authorization /\ row[i] \in Row /\ <<row[i].wallet, i>> \in signature
    BY <1>0, <1>7, CallType DEF verifyUpdate, CallInv
  <2>2. row' = [row EXCEPT ![i] = [row[i] EXCEPT !.verified = TRUE]]
    BY <1>0, <1>7, <2>1 DEF verifyUpdate, TypeOK
  <2>3. call' = [call EXCEPT ![k] = Idle] /\ UNCHANGED <<clock, wallet, signature, uses, grant>>
    BY <1>7 DEF verifyUpdate
  <2> HIDE DEF i
  <2>4. [row[i] EXCEPT !.verified = TRUE] \in Row
    BY <2>1 DEF Row
  <2>5. TypeOK'
    BY <1>0, <2>1, <2>2, <2>3, <2>4, NothingAssumption DEF TypeOK, Calls, Idle
  <2>6. ASSUME NEW b \in Authorization PROVE RowInv(b)'
    <3>1. CASE b = i
      BY <1>0, <3>1, <2>1, <2>2, <2>3, <2>4, NothingAssumption DEF RowInv, TypeOK, Row
    <3>2. CASE b # i
      BY <1>0, <3>2, <2>2, <2>3 DEF RowInv, TypeOK
    <3>3. QED
      BY <3>1, <3>2
  <2>7. ASSUME NEW j \in Call PROVE CallInv(j)'
    BY <1>0, <2>1, <2>2, <2>3, CallType DEF CallInv, TypeOK, Idle, Row
  <2>8. QED
    BY <2>5, <2>6, <2>7, InvPartsNext
<1>8. ASSUME NEW k \in Call, consumeUpdate(k) PROVE Inv'
  <2> DEFINE c == call[k]
             i == call[k].id
  <2>1. c.pc = "consuming" /\ i \in Authorization /\ row[i] \in Row
        /\ c.user \in User /\ c.purpose \in Purpose
    BY <1>0, <1>8, CallType DEF consumeUpdate
  <2>2. call' = [call EXCEPT ![k] = Idle] /\ UNCHANGED <<clock, wallet, signature>>
    BY <1>8 DEF consumeUpdate
  <2>3. CASE ~matches(c)
    <3>1. UNCHANGED <<row, uses, grant>>
      BY <1>8, <2>3 DEF consumeUpdate
    <3>2. TypeOK'
      BY <1>0, <2>2, <3>1 DEF TypeOK, Calls, Idle
    <3>3. QED
      BY <1>0, <2>2, <3>1, <3>2, InvPartsNext DEF RowInv, CallInv, Idle, TypeOK
  <2>4. CASE matches(c)
    <3> DEFINE g == [user |-> c.user, purpose |-> c.purpose, at |-> clock]
               r == [row[i] EXCEPT !.consumed = TRUE]
    <3>1. /\ row[i].user = c.user /\ row[i].purpose = c.purpose /\ row[i].verified
          /\ ~row[i].consumed /\ row[i].expiresAt > clock
      BY <2>4 DEF matches
    <3>2. g \in Grant /\ r \in Row
      BY <1>0, <2>1 DEF TypeOK, Grant, Row
    <3>3. row' = [row EXCEPT ![i] = r]
      BY <1>0, <1>8, <2>4, <2>1 DEF consumeUpdate, TypeOK
    <3>4. uses' = [uses EXCEPT ![i] = uses[i] + 1] /\ grant' = [grant EXCEPT ![i] = g]
      BY <1>8, <2>4 DEF consumeUpdate
    <3>5. /\ r.user = row[i].user /\ r.purpose = row[i].purpose /\ r.wallet = row[i].wallet
          /\ r.verified = row[i].verified /\ r.expiresAt = row[i].expiresAt /\ r.consumed = TRUE
          /\ g.user = c.user /\ g.purpose = c.purpose /\ g.at = clock
      BY <2>1 DEF Row
    <3> HIDE DEF c, i, g, r
    <3>6. TypeOK'
      BY <1>0, <2>1, <2>2, <3>2, <3>3, <3>4, NothingAssumption DEF TypeOK, Calls, Idle
    <3>7. ASSUME NEW b \in Authorization PROVE RowInv(b)'
      <4>1. CASE b = i
        <5>1. uses[i] = 0 /\ grant[i] = Nothing
          BY <1>0, <2>1, <3>1, NothingAssumption DEF RowInv
        <5>2. row'[i] = r /\ grant'[i] = g /\ uses'[i] = 1
          BY <1>0, <2>1, <3>3, <3>4, <5>1 DEF TypeOK
        <5>3. r # Nothing /\ g # Nothing
          BY <3>2, NothingAssumption
        <5>4. clock < row[i].expiresAt
          BY <1>0, <2>1, <3>1 DEF TypeOK, Row
        <5>5. <<row[i].wallet, i>> \in signature'
          BY <1>0, <2>1, <2>2, <3>1, NothingAssumption DEF RowInv
        <5>6. QED
          BY <4>1, <3>1, <3>5, <5>2, <5>3, <5>4, <5>5 DEF RowInv
      <4>2. CASE b # i
        BY <1>0, <4>2, <2>2, <3>3, <3>4 DEF RowInv, TypeOK
      <4>3. QED
        BY <4>1, <4>2
    <3>8. ASSUME NEW j \in Call PROVE CallInv(j)'
      BY <1>0, <2>1, <2>2, <3>3, <3>5, CallType DEF CallInv, TypeOK, Idle
    <3>9. QED
      BY <3>6, <3>7, <3>8, InvPartsNext
  <2>5. QED
    BY <2>3, <2>4
<1>9. ASSUME NEW k \in Call, Crash(k) PROVE Inv'
  <2>1. TypeOK'
    BY <1>0, <1>9 DEF Crash, TypeOK, Calls, Idle
  <2>2. QED
    BY <1>0, <1>9, <2>1, InvPartsNext DEF Crash, RowInv, CallInv, Idle, TypeOK
<1>10. CASE UNCHANGED vars
  <2>1. TypeOK'
    BY <1>0, <1>10 DEF vars, TypeOK, Calls
  <2>2. QED
    BY <1>0, <1>10, <2>1, InvPartsNext DEF vars, RowInv, CallInv
<1>11. QED
  BY <1>1, <1>2, <1>3, <1>4, <1>5, <1>6, <1>7, <1>8, <1>9, <1>10 DEF Next

\* Inv holds in every reachable state.
THEOREM Invariant == Spec => []Inv
BY InvInit, InvNext, PTL DEF Spec

\* An authorization is consumed at most once, for any number of users, rows and
\* requests: consumedAt is written by a conditional update.
THEOREM AuthorizationConsumedOnce == Spec => []ConsumedOnce
<1>1. Inv => ConsumedOnce
  <2> SUFFICES ASSUME Inv, NEW a \in Authorization PROVE uses[a] <= 1
    BY DEF ConsumedOnce
  <2>1. RowInv(a)
    BY InvParts
  <2>2. QED
    BY <2>1 DEF RowInv
<1>2. QED
  BY <1>1, Invariant, PTL

\* What is consumed was consented to: same user and purpose, signed by the
\* wallet of the challenge, before it expired.
THEOREM ConsumedAsConsented == Spec => []ConsentGiven
<1>1. Inv => ConsentGiven
  <2> SUFFICES ASSUME Inv, NEW a \in Authorization, uses[a] > 0
               PROVE  /\ row[a].user = grant[a].user /\ row[a].purpose = grant[a].purpose
                      /\ <<row[a].wallet, a>> \in signature
                      /\ grant[a].at < row[a].expiresAt
    BY DEF ConsentGiven
  <2>1. RowInv(a)
    BY InvParts
  <2>2. row[a] # Nothing /\ row[a].consumed
    BY <2>1 DEF RowInv
  <2>3. QED
    BY <2>1, <2>2 DEF RowInv
<1>2. QED
  BY <1>1, Invariant, PTL

----------------------------------------------------------------------------
(* Refinement.                                                             *)

\* Where a row, its uses and its grant do not change, neither does its image.
LEMMA SameImage ==
    ASSUME UNCHANGED <<row, grant>>
    PROVE  UNCHANGED <<[a \in Authorization |-> stageOf(a)],
                       [a \in Authorization |-> termsOf(a)],
                       [a \in Authorization |-> spentOnOf(a)]>>
BY DEF stageOf, termsOf, spentOnOf

\* The empty table is the initial state of OneShotConsent.
LEMMA ConsentInit == Init => Consent!Init
BY DEF Init, Consent!Init, stageOf, termsOf, spentOnOf

\* createChallenge asks for a consent.
LEMMA ChallengeAsks ==
    ASSUME Inv, NEW a \in Authorization, NEW u \in User, NEW p \in Purpose,
           createChallenge(a, u, p)
    PROVE  Consent!Ask(a, u, p)
<1> DEFINE new == [user |-> u, wallet |-> wallet[u], purpose |-> p,
                   expiresAt |-> clock + TTL, verified |-> FALSE, consumed |-> FALSE]
<1>1. TypeOK
  BY InvParts
<1>2. new \in Row
  BY <1>1, TimeAssumption DEF createChallenge, TypeOK, Row
<1>3. row' = [row EXCEPT ![a] = new] /\ row[a] = Nothing /\ grant' = grant
  BY DEF createChallenge
<1>4. new.user = u /\ new.purpose = p /\ ~new.consumed /\ ~new.verified
  OBVIOUS
<1> HIDE DEF new
<1>5. row'[a] = new /\ new # Nothing /\ \A b \in Authorization : b # a => row'[b] = row[b]
  BY <1>1, <1>2, <1>3, NothingAssumption DEF TypeOK
<1>6. stageOf(a) = "absent"
  BY <1>3 DEF stageOf
<1>7. [b \in Authorization |-> stageOf(b)'] =
        [[b \in Authorization |-> stageOf(b)] EXCEPT ![a] = "asked"]
  BY <1>4, <1>5 DEF stageOf
<1>8. [b \in Authorization |-> termsOf(b)'] =
        [[b \in Authorization |-> termsOf(b)] EXCEPT ![a] = [user |-> u, purpose |-> p]]
  BY <1>4, <1>5 DEF termsOf
<1>9. [b \in Authorization |-> spentOnOf(b)'] = [b \in Authorization |-> spentOnOf(b)]
  BY <1>3 DEF spentOnOf
<1>10. QED
  BY <1>6, <1>7, <1>8, <1>9 DEF Consent!Ask

\* verifyUpdate gives the consent, or changes nothing that matters.
LEMMA VerifyGives ==
    ASSUME Inv, NEW k \in Call, verifyUpdate(k)
    PROVE  Consent!Give(call[k].id) \/ UNCHANGED Consent!consentVars
<1>1. TypeOK
  BY InvParts
<1>2. PICK i \in Authorization : i = call[k].id /\ row[i] \in Row
  BY <1>1, CallType DEF verifyUpdate
<1> DEFINE r == [row[i] EXCEPT !.verified = TRUE]
<1>3. row' = [row EXCEPT ![i] = r] /\ grant' = grant
  BY <1>1, <1>2 DEF verifyUpdate, TypeOK
<1>4. /\ r \in Row /\ r.verified /\ r.consumed = row[i].consumed
      /\ r.user = row[i].user /\ r.purpose = row[i].purpose
  BY <1>2 DEF Row
<1> HIDE DEF r
<1>5. row'[i] = r /\ r # Nothing /\ row[i] # Nothing
      /\ \A b \in Authorization : b # i => row'[b] = row[b]
  BY <1>1, <1>2, <1>3, <1>4, NothingAssumption DEF TypeOK
<1>6. [b \in Authorization |-> termsOf(b)'] = [b \in Authorization |-> termsOf(b)]
  BY <1>4, <1>5 DEF termsOf
<1>7. [b \in Authorization |-> spentOnOf(b)'] = [b \in Authorization |-> spentOnOf(b)]
  BY <1>3 DEF spentOnOf
<1>8. CASE stageOf(i) = "asked"
  <2>1. ~row[i].consumed
    BY <1>5, <1>8 DEF stageOf
  <2>2. [b \in Authorization |-> stageOf(b)'] =
          [[b \in Authorization |-> stageOf(b)] EXCEPT ![i] = "given"]
    BY <1>4, <1>5, <2>1 DEF stageOf
  <2>3. QED
    BY <1>2, <1>6, <1>7, <1>8, <2>2 DEF Consent!Give
<1>9. CASE stageOf(i) # "asked"
  <2>1. row[i].consumed \/ row[i].verified
    BY <1>5, <1>9 DEF stageOf
  <2>2. stageOf(i)' = stageOf(i)
    BY <1>4, <1>5, <2>1 DEF stageOf
  <2>3. [b \in Authorization |-> stageOf(b)'] = [b \in Authorization |-> stageOf(b)]
    BY <1>5, <2>2 DEF stageOf
  <2>4. QED
    BY <1>6, <1>7, <2>3 DEF Consent!consentVars
<1>10. QED
  BY <1>8, <1>9

\* consumeUpdate spends the consent on its own terms, or changes nothing.
LEMMA ConsumeSpends ==
    ASSUME Inv, NEW k \in Call, consumeUpdate(k)
    PROVE  Consent!Spend(call[k].id) \/ UNCHANGED Consent!consentVars
<1>1. TypeOK
  BY InvParts
<1>2. PICK i \in Authorization :
        i = call[k].id /\ row[i] \in Row /\ call[k].user \in User /\ call[k].purpose \in Purpose
  BY <1>1, CallType DEF consumeUpdate
<1> DEFINE c == call[k]
           r == [row[i] EXCEPT !.consumed = TRUE]
           g == [user |-> c.user, purpose |-> c.purpose, at |-> clock]
<1>3. CASE ~matches(c)
  BY <1>3, SameImage DEF consumeUpdate, Consent!consentVars
<1>4. CASE matches(c)
  <2>1. row[i].user = c.user /\ row[i].purpose = c.purpose /\ row[i].verified /\ ~row[i].consumed
    BY <1>2, <1>4 DEF matches
  <2>2. row' = [row EXCEPT ![i] = r] /\ grant' = [grant EXCEPT ![i] = g]
    BY <1>1, <1>2, <1>4 DEF consumeUpdate, TypeOK
  <2>3. /\ r \in Row /\ r.consumed /\ r.user = row[i].user /\ r.purpose = row[i].purpose
        /\ g \in Grant /\ g.user = c.user /\ g.purpose = c.purpose
    BY <1>1, <1>2 DEF Row, Grant, TypeOK
  <2> HIDE DEF r, g
  <2>4. /\ row'[i] = r /\ r # Nothing /\ row[i] # Nothing /\ grant'[i] = g /\ g # Nothing
        /\ \A b \in Authorization : b # i => row'[b] = row[b] /\ grant'[b] = grant[b]
    BY <1>1, <1>2, <2>2, <2>3, NothingAssumption DEF TypeOK
  <2>5. stageOf(i) = "given"
    BY <2>1, <2>4 DEF stageOf
  <2>6. [b \in Authorization |-> stageOf(b)'] =
          [[b \in Authorization |-> stageOf(b)] EXCEPT ![i] = "spent"]
    BY <2>3, <2>4 DEF stageOf
  <2>7. [b \in Authorization |-> termsOf(b)'] = [b \in Authorization |-> termsOf(b)]
    BY <2>3, <2>4 DEF termsOf
  <2>8. termsOf(i) = [user |-> c.user, purpose |-> c.purpose]
    BY <2>1, <2>4 DEF termsOf
  <2>9. [b \in Authorization |-> spentOnOf(b)'] =
          [[b \in Authorization |-> spentOnOf(b)] EXCEPT ![i] = termsOf(i)]
    BY <2>3, <2>4, <2>8 DEF spentOnOf
  <2>10. QED
    BY <1>2, <2>5, <2>6, <2>7, <2>9 DEF Consent!Spend
<1>5. QED
  BY <1>3, <1>4

\* Every step of the service is a step of OneShotConsent or leaves it unchanged.
LEMMA ConsentNext == Inv /\ [Next]_vars => [Consent!Next]_(Consent!consentVars)
<1> SUFFICES ASSUME Inv, [Next]_vars PROVE [Consent!Next]_(Consent!consentVars)
  OBVIOUS
<1>1. ASSUME NEW a \in Authorization, NEW u \in User, NEW p \in Purpose,
             createChallenge(a, u, p)
      PROVE  Consent!Next
  BY <1>1, ChallengeAsks DEF Consent!Next
<1>2. ASSUME NEW k \in Call, verifyUpdate(k) PROVE [Consent!Next]_(Consent!consentVars)
  <2>1. call[k].id \in Authorization
    BY <1>2, InvParts, CallType DEF verifyUpdate
  <2>2. QED
    BY <1>2, <2>1, VerifyGives DEF Consent!Next
<1>3. ASSUME NEW k \in Call, consumeUpdate(k) PROVE [Consent!Next]_(Consent!consentVars)
  <2>1. call[k].id \in Authorization
    BY <1>3, InvParts, CallType DEF consumeUpdate
  <2>2. QED
    BY <1>3, <2>1, ConsumeSpends DEF Consent!Next
<1>4. CASE UNCHANGED <<row, grant>>
  BY <1>4, SameImage DEF Consent!consentVars
<1>5. QED
  BY <1>1, <1>2, <1>3, <1>4
     DEF Next, vars, Tick, SyncWallet, Sign, verify, consume, Crash

\* The service implements OneShotConsent, for any number of users, rows and
\* requests in progress.
THEOREM ServiceImplementsConsent == Spec => ImplementsConsent
BY ConsentInit, ConsentNext, Invariant, PTL DEF Spec, ImplementsConsent, Consent!Spec
=============================================================================
