------------------------- MODULE ReceivablesProofs --------------------------
(***************************************************************************)
(* Theorems about Receivables, for any number of receivables, documents,   *)
(* requests in flight, collection orders and reports of payments.          *)
(***************************************************************************)
EXTENDS Receivables, NfeTokenizationProofs, FiniteSetTheorems, SequenceTheorems

\* What a request carries in h depends on what it does: a document for the
\* chain, a collection and its order, or the order that was paid.
CarriesTyped ==
    \A w \in Worker :
        /\ req[w].op \in {"tokenize", "submit"} => req[w].h \in Document \cup {NoDocument}
        /\ req[w].op = "collect" => req[w].h \in Nat \X Order
        /\ req[w].op = "settle" => req[w].h \in Order

CollectionRow == [status : {"pending_payment", "paid"}, order : Order]

RowsTyped ==
    /\ status \in [Key -> Status]
    /\ document \in [Key -> Document \cup {NoDocument}]
    /\ investment \in [Key -> {"none", "reserved", "charged"}]
    /\ collection \in [Key -> Seq(CollectionRow)]
    /\ recorded \subseteq paid /\ paid \subseteq Event /\ IsFiniteSet(paid)
    /\ orders \in [Key -> Order]

TypeInv == ReceivablesTypeOK /\ CarriesTyped /\ IsFiniteSet(paid)

----------------------------------------------------------------------------
(* How a request moves.                                                    *)

OpName == {"tokenize", "reject", "request", "assign", "submit", "collect", "settle", "invest"}
PcName == {"validate", "read", "chain", "store", "sign", "transfer", "await", "buy", "collect", "name",
           "collection", "reserve", "consume", "wallet", "charge"}
Anything == Hash \cup {NoDocument} \cup Order \cup (Nat \X Order)
Carried(op) ==
    IF op \in {"tokenize", "submit"} THEN Document \cup {NoDocument}
    ELSE IF op = "collect" THEN Nat \X Order
    ELSE IF op = "settle" THEN Order
    ELSE Anything

ReqTyped == req \in [Worker -> Request] /\ CarriesTyped

\* A request is replaced by one that is well formed.
LEMMA BecomesTyped ==
    ASSUME ReqTyped, NEW w \in Worker, NEW op \in OpName, NEW r \in Key, NEW pc \in PcName,
           NEW h \in Carried(op),
           req' = [req EXCEPT ![w] = [op |-> op, r |-> r, pc |-> pc, h |-> h]]
    PROVE  /\ ReqTyped'
           /\ req'[w] = [op |-> op, r |-> r, pc |-> pc, h |-> h]
           /\ \A u \in Worker : u # w => req'[u] = req[u]
  <1>1. [op |-> op, r |-> r, pc |-> pc, h |-> h] \in Request
    BY ReceivableAssumption DEF Request, OpName, PcName, Carried, Anything
  <1>2. /\ req' \in [Worker -> Request]
        /\ req'[w] = [op |-> op, r |-> r, pc |-> pc, h |-> h]
        /\ \A u \in Worker : u # w => req'[u] = req[u]
    BY <1>1 DEF ReqTyped
  <1>3. CarriesTyped'
    BY <1>2 DEF ReqTyped, CarriesTyped, Carried
  <1> QED
    BY <1>2, <1>3 DEF ReqTyped

\* A request ends.
LEMMA FinishTyped ==
    ASSUME ReqTyped, NEW w \in Worker, Finish(w)
    PROVE  /\ ReqTyped'
           /\ req'[w] = Idle
           /\ \A u \in Worker : u # w => req'[u] = req[u]
  <1>1. /\ req' \in [Worker -> Request]
        /\ req'[w] = Idle
        /\ \A u \in Worker : u # w => req'[u] = req[u]
    BY DEF ReqTyped, Finish, Request
  <1>2. CarriesTyped'
    BY <1>1 DEF ReqTyped, CarriesTyped, Idle
  <1> QED
    BY <1>1, <1>2 DEF ReqTyped

\* A request that is not idle is a well-formed record.
LEMMA RunningTyped ==
    ASSUME ReqTyped, NEW w \in Worker, req[w] # Idle
    PROVE  /\ req[w].op \in OpName /\ req[w].r \in Key /\ req[w].pc \in PcName
           /\ req[w].h \in Carried(req[w].op)
           /\ req[w] = [op |-> req[w].op, r |-> req[w].r, pc |-> req[w].pc, h |-> req[w].h]
  <1>1. req[w] \in [op : OpName, r : Key, pc : PcName, h : Anything]
    BY DEF ReqTyped, Request, OpName, PcName, Anything
  <1> QED
    BY <1>1 DEF ReqTyped, CarriesTyped, Carried

\* A request goes to its next step.
LEMMA GotoTyped ==
    ASSUME ReqTyped, NEW w \in Worker, req[w] # Idle, NEW pc \in PcName, Goto(w, pc)
    PROVE  /\ ReqTyped'
           /\ req'[w] = [op |-> req[w].op, r |-> req[w].r, pc |-> pc, h |-> req[w].h]
           /\ \A u \in Worker : u # w => req'[u] = req[u]
  <1> DEFINE q == req[w]
  <1>1. /\ q.op \in OpName /\ q.r \in Key /\ q.h \in Carried(q.op)
        /\ q = [op |-> q.op, r |-> q.r, pc |-> q.pc, h |-> q.h]
    BY RunningTyped
  <1>2. [q EXCEPT !.pc = pc] = [op |-> q.op, r |-> q.r, pc |-> pc, h |-> q.h]
    BY <1>1
  <1>3. req' = [req EXCEPT ![w] = [op |-> q.op, r |-> q.r, pc |-> pc, h |-> q.h]]
    BY <1>2 DEF Goto, ReqTyped
  <1> QED
    BY <1>1, <1>3, BecomesTyped

\* The same, with another thing to carry.
Carry(w, pc, h) == req' = [req EXCEPT ![w].pc = pc, ![w].h = h]

\* A request goes on to pc, and carries h along.
LEMMA CarryTyped ==
    ASSUME ReqTyped, NEW w \in Worker, req[w] # Idle, NEW pc \in PcName, NEW h \in Carried(req[w].op),
           Carry(w, pc, h)
    PROVE  /\ ReqTyped'
           /\ req'[w] = [op |-> req[w].op, r |-> req[w].r, pc |-> pc, h |-> h]
           /\ \A u \in Worker : u # w => req'[u] = req[u]
  <1> DEFINE q == req[w]
             Shape == [op : OpName, r : Key, pc : PcName, h : Anything]
  <1>1. /\ q.op \in OpName /\ q.r \in Key /\ q \in Shape
        /\ h \in Carried(q.op) /\ h \in Anything
    BY RunningTyped, ReceivableAssumption DEF Carried, Anything, ReqTyped, Request, OpName, PcName
  <1> DEFINE q1 == [q EXCEPT !.pc = pc]
             q2 == [q1 EXCEPT !.h = h]
  <1>2. q1 \in Shape /\ q1.op = q.op /\ q1.r = q.r /\ q1.pc = pc
    BY <1>1
  <1>3. q2 \in Shape /\ q2.op = q.op /\ q2.r = q.r /\ q2.pc = pc /\ q2.h = h
    <2> HIDE DEF q1
    <2> QED
      BY <1>1, <1>2
  <1>4. q2 = [op |-> q.op, r |-> q.r, pc |-> pc, h |-> h]
    <2> HIDE DEF q1, q2
    <2> QED
      BY <1>3
  <1>5. req' = [req EXCEPT ![w] = q2]
    BY DEF ReqTyped, Carry
  <1>6. req' = [req EXCEPT ![w] = [op |-> q.op, r |-> q.r, pc |-> pc, h |-> h]]
    BY <1>4, <1>5
  <1> QED
    BY <1>1, <1>6, BecomesTyped

\* The same, field by field.
LEMMA GotoFields ==
    ASSUME ReqTyped, NEW w \in Worker, req[w] # Idle, NEW pc \in PcName,
           Goto(w, pc) \/ \E h \in Carried(req[w].op) : Carry(w, pc, h)
    PROVE  /\ req'[w].op = req[w].op /\ req'[w].r = req[w].r /\ req'[w].pc = pc
           /\ \A u \in Worker : u # w => req'[u] = req[u]
  <1>1. CASE Goto(w, pc)
    <2>1. /\ req'[w] = [op |-> req[w].op, r |-> req[w].r, pc |-> pc, h |-> req[w].h]
          /\ \A u \in Worker : u # w => req'[u] = req[u]
      BY <1>1, GotoTyped
    <2> QED
      BY <2>1
  <1>2. ASSUME NEW h \in Carried(req[w].op), Carry(w, pc, h)
        PROVE  /\ req'[w].op = req[w].op /\ req'[w].r = req[w].r /\ req'[w].pc = pc
               /\ \A u \in Worker : u # w => req'[u] = req[u]
    <2>1. /\ req'[w] = [op |-> req[w].op, r |-> req[w].r, pc |-> pc, h |-> h]
          /\ \A u \in Worker : u # w => req'[u] = req[u]
      BY <1>2, CarryTyped
    <2> QED
      BY <2>1
  <1> QED
    BY <1>1, <1>2

----------------------------------------------------------------------------
(* Where a receivable is, whatever its row says.  Three things happen to it  *)
(* at most once, each done by one request or by a transaction that request   *)
(* has given up on: the title is registered, it is transferred, and the pool *)
(* pays.  Everything the database says later rests on the request that saw   *)
(* the thing happen.                                                         *)

registering(q, r) == q.op = "tokenize" /\ q.pc = "store" /\ q.r = r
assigning(q, r) == q.op \in {"request", "assign", "submit"} /\ q.r = r
awaiting(q, r) == q.op = "submit" /\ q.pc = "await" /\ q.r = r
buying(q, r) == q.op = "submit" /\ q.pc = "buy" /\ q.r = r
claiming(q, r) == awaiting(q, r) \/ buying(q, r)
storing(q, r) == q.op = "submit" /\ q.pc = "store" /\ q.r = r
selling(q, r) ==
    /\ q.op \in {"collect", "settle", "invest"} \/ (q.op = "submit" /\ q.pc = "collect")
    /\ q.r = r

payoutLate(r) == \E tx \in late : tx.kind = "buy" /\ tx.r = r

\* The assignment of the receivable has been started.
rowBegun(r) == status[r] \in {"tokenized", "assignment_pending", "active"}
begun(r) ==
    \/ rowBegun(r) \/ payouts[r] > 0 \/ payoutLate(r)
    \/ \E w \in Worker : assigning(req[w], r)

\* Something rests on the payout for the receivable.
rowOffered(r) ==
    \/ status[r] = "active" \/ investment[r] # "none"
    \/ orders[r] > 0 \/ collection[r] # <<>>
    \/ \E e \in paid : e[1] = r
offered(r) == rowOffered(r) \/ \E w \in Worker : selling(req[w], r)

\* A registered title is with the company or, for good, with the platform.
Titled(r) ==
    nfe[r] # Unknown =>
        nfe[r].status = "Active" /\ nfe[r].owner \in {Pme, Platform} /\ nft[r] = nfe[r].owner

\* One request stores the registration, before anything rests on it.
RegisteredOnce(r) ==
    /\ begun(r) \/ (\E w \in Worker : registering(req[w], r)) => nfe[r] # Unknown
    /\ begun(r) => \A w \in Worker : ~registering(req[w], r)
    /\ \A w, u \in Worker : registering(req[w], r) /\ registering(req[u], r) => w = u

\* Who waits for the transfer waits for one that may still be applied, or has
\* been; unless it was another transaction that was submitted, the pool is
\* asked to pay once the title has moved; and the payout is stored after it.
PaidForTitle(r) ==
    /\ \A w \in Worker : awaiting(req[w], r) => transferTx(r) \in late \/ nfe[r].owner = Platform
    /\ r \notin foreign =>
          (payouts[r] > 0 \/ payoutLate(r) \/ (\E w \in Worker : buying(req[w], r))
              => nfe[r].owner = Platform)
    /\ \A w \in Worker : storing(req[w], r) => payouts[r] > 0

\* Unless the transfer was submitted twice or was another transaction, the
\* right to have the pool pay is with one request, or with one transaction
\* given up on, or has been used.
PaidOnce(r) ==
    r \notin foreign \cup resent =>
        /\ payouts[r] \in {0, 1}
        /\ payoutLate(r) => payouts[r] = 0
        /\ \A t1, t2 \in late : t1.kind = "buy" /\ t2.kind = "buy" /\ t1.r = r /\ t2.r = r => t1 = t2
        /\ \A w \in Worker : claiming(req[w], r) => payouts[r] = 0 /\ ~payoutLate(r)
        /\ \A w, u \in Worker : claiming(req[w], r) /\ claiming(req[u], r) => w = u

\* What is offered rests on a payout.
OfferedOnce(r) == offered(r) => payouts[r] > 0

LifeInv(r) == Titled(r) /\ RegisteredOnce(r) /\ PaidForTitle(r) /\ PaidOnce(r) /\ OfferedOnce(r)

Inv == TypeInv /\ \A r \in Key : LifeInv(r)

\* A step of a request that leaves the chain alone takes up none of the rights,
\* except that it may find the transfer it waits for applied, and what newly
\* rests on one was earned by the request itself.
LEMMA LocalStep ==
    ASSUME NEW r \in Key, LifeInv(r), NEW w \in Worker,
           nfe'[r] = nfe[r], nft'[r] = nft[r], payouts'[r] = payouts[r],
           late' = late, resent' = resent, foreign' = foreign,
           \A u \in Worker : u # w => req'[u] = req[u],
           registering(req'[w], r) => registering(req[w], r),
           awaiting(req'[w], r) => awaiting(req[w], r),
           buying(req'[w], r) => buying(req[w], r) \/ (awaiting(req[w], r) /\ nfe[r].owner = Platform),
           storing(req'[w], r) => storing(req[w], r),
           rowBegun(r)' \/ assigning(req'[w], r)
              => begun(r) \/ (registering(req[w], r) /\ ~registering(req'[w], r)),
           rowOffered(r)' \/ selling(req'[w], r) => offered(r) \/ storing(req[w], r)
    PROVE  LifeInv(r)'
  <1>1. payoutLate(r)' <=> payoutLate(r)
    BY DEF payoutLate
  <1>2. \A u \in Worker : registering(req'[u], r) => registering(req[u], r)
    OBVIOUS
  <1>3. \A u \in Worker : /\ awaiting(req'[u], r) => awaiting(req[u], r)
                          /\ buying(req'[u], r) => buying(req[u], r) \/ nfe[r].owner = Platform
                          /\ claiming(req'[u], r) => claiming(req[u], r)
                          /\ storing(req'[u], r) => storing(req[u], r)
    BY DEF claiming
  <1>5. Titled(r)'
    BY DEF LifeInv, Titled
  <1>6. PaidForTitle(r)' /\ PaidOnce(r)'
    BY <1>1, <1>3 DEF LifeInv, PaidForTitle, PaidOnce, transferTx
  <1>7. begun(r)' => begun(r) \/ (registering(req[w], r) /\ ~registering(req'[w], r))
    BY <1>1 DEF begun
  <1>8. offered(r)' => offered(r) \/ storing(req[w], r)
    BY DEF offered
  <1>9. RegisteredOnce(r)'
    <2> USE DEF LifeInv, RegisteredOnce
    <2>1. begun(r)' => nfe[r] # Unknown /\ \A u \in Worker : ~registering(req'[u], r)
      BY <1>2, <1>7
    <2> QED
      BY <1>2, <2>1
  <1>10. OfferedOnce(r)'
    BY <1>8 DEF LifeInv, OfferedOnce, PaidForTitle
  <1> QED
    BY <1>5, <1>6, <1>9, <1>10 DEF LifeInv

\* What LocalStep asks of the request w about the receivable r.
EarnedStep(w, r) ==
    /\ registering(req'[w], r) => registering(req[w], r)
    /\ awaiting(req'[w], r) => awaiting(req[w], r)
    /\ buying(req'[w], r) => buying(req[w], r) \/ (awaiting(req[w], r) /\ nfe[r].owner = Platform)
    /\ storing(req'[w], r) => storing(req[w], r)
    /\ rowBegun(r)' \/ assigning(req'[w], r)
          => begun(r) \/ (registering(req[w], r) /\ ~registering(req'[w], r))
    /\ rowOffered(r)' \/ selling(req'[w], r) => offered(r) \/ storing(req[w], r)

\* A step of a request that leaves the chain alone keeps the invariant.
LEMMA OffChain ==
    ASSUME Inv, NEW w \in Worker, UNCHANGED <<chainVars, sentVars>>, RowsTyped', ReqTyped',
           \A u \in Worker : u # w => req'[u] = req[u],
           \A r \in Key : EarnedStep(w, r)
    PROVE  Inv'
  <1>1. TypeInv'
    BY DEF Inv, TypeInv, ReceivablesTypeOK, RowsTyped, ReqTyped, CollectionRow, chainVars, nfeVars, poolVars, NfeTypeOK,
           sentVars, sentHistory
  <1>2. ASSUME NEW r \in Key PROVE LifeInv(r)'
    <2>1. /\ nfe'[r] = nfe[r] /\ nft'[r] = nft[r] /\ payouts'[r] = payouts[r]
          /\ late' = late /\ resent' = resent /\ foreign' = foreign
      BY DEF chainVars, nfeVars, poolVars, sentVars, sentHistory
    <2> QED
      BY <2>1, LocalStep DEF EarnedStep, Inv
  <1> QED
    BY <1>1, <1>2 DEF Inv

\* The same, where the rows stay as they are.
LEMMA MoveStep ==
    ASSUME Inv, NEW w \in Worker, UNCHANGED <<rowVars, chainVars, sentVars, pixVars>>, ReqTyped',
           \A u \in Worker : u # w => req'[u] = req[u],
           \A r \in Key : /\ ~registering(req'[w], r) /\ ~claiming(req'[w], r) /\ ~storing(req'[w], r)
                          /\ assigning(req'[w], r) => begun(r)
                          /\ selling(req'[w], r) => offered(r)
    PROVE  Inv'
  <1>1. RowsTyped'
    BY DEF Inv, TypeInv, ReceivablesTypeOK, RowsTyped, CollectionRow, rowVars, pixVars
  <1>2. ASSUME NEW r \in Key PROVE EarnedStep(w, r)
    <2>1. (rowBegun(r)' <=> rowBegun(r)) /\ (rowOffered(r)' <=> rowOffered(r))
      BY DEF rowBegun, rowOffered, rowVars, pixVars
    <2> QED
      BY <2>1 DEF EarnedStep, begun, offered, claiming
  <1> QED
    BY <1>1, <1>2, OffChain

\* No request moves.
LEMMA RowStep ==
    ASSUME Inv, UNCHANGED <<chainVars, sentVars, req>>, RowsTyped',
           \A r \in Key : (rowBegun(r)' => begun(r)) /\ (rowOffered(r)' => offered(r))
    PROVE  Inv'
  <1>1. TypeInv'
    BY DEF Inv, TypeInv, ReceivablesTypeOK, RowsTyped, CollectionRow, CarriesTyped, chainVars, nfeVars, poolVars,
           NfeTypeOK, sentVars, sentHistory
  <1>2. ASSUME NEW r \in Key PROVE LifeInv(r)'
    <2>1. /\ nfe' = nfe /\ nft' = nft /\ payouts' = payouts /\ req' = req
          /\ late' = late /\ resent' = resent /\ foreign' = foreign
          /\ LifeInv(r)
      BY DEF chainVars, nfeVars, poolVars, sentVars, sentHistory, Inv
    <2>2. payoutLate(r)' <=> payoutLate(r)
      BY <2>1 DEF payoutLate
    <2>3. (begun(r)' => begun(r)) /\ (offered(r)' => offered(r))
      BY <2>1, <2>2 DEF begun, offered
    <2>4. Titled(r)'
      BY <2>1 DEF LifeInv, Titled
    <2>5. PaidForTitle(r)' /\ PaidOnce(r)'
      BY <2>1, <2>2 DEF LifeInv, PaidForTitle, PaidOnce, transferTx
    <2>6. RegisteredOnce(r)'
      BY <2>1, <2>3 DEF LifeInv, RegisteredOnce
    <2>7. OfferedOnce(r)'
      BY <2>1, <2>3 DEF LifeInv, OfferedOnce
    <2> QED
      BY <2>4, <2>5, <2>6, <2>7 DEF LifeInv
  <1> QED
    BY <1>1, <1>2 DEF Inv

----------------------------------------------------------------------------
(* The requests that are taken up, and what leaves rows and chain alone.   *)

\* The requests of a well-typed state.
LEMMA InvTyped == Inv => ReqTyped /\ RowsTyped
  BY DEF Inv, TypeInv, ReceivablesTypeOK, ReqTyped, RowsTyped, CollectionRow

\* A request is taken up.
LEMMA StartStep ==
    ASSUME Inv, NEW w \in Worker, NEW r \in Key, NEW op \in OpName, NEW pc \in PcName,
           NEW h \in Carried(op), Start(w, op, r, pc, h),
           UNCHANGED <<rowVars, chainVars, sentVars, pixVars>>,
           op = "submit" => pc = "sign", op = "tokenize" => pc # "store",
           op \in {"request", "assign", "submit"} => begun(r),
           op \in {"collect", "settle", "invest"} => offered(r)
    PROVE  Inv'
  <1>1. req' = [req EXCEPT ![w] = [op |-> op, r |-> r, pc |-> pc, h |-> h]]
    BY DEF Start
  <1>2. /\ ReqTyped'
        /\ req'[w] = [op |-> op, r |-> r, pc |-> pc, h |-> h]
        /\ \A u \in Worker : u # w => req'[u] = req[u]
    BY <1>1, InvTyped, BecomesTyped
  <1>3. \A k \in Key : /\ ~registering(req'[w], k) /\ ~claiming(req'[w], k) /\ ~storing(req'[w], k)
                       /\ assigning(req'[w], k) => begun(k)
                       /\ selling(req'[w], k) => offered(k)
    BY <1>2 DEF registering, claiming, awaiting, buying, storing, assigning, selling
  <1> QED
    BY <1>2, <1>3, MoveStep

\* A request ends, and leaves everything as it is.
LEMMA FinishStep ==
    ASSUME Inv, NEW w \in Worker, Finish(w), UNCHANGED <<rowVars, chainVars, sentVars, pixVars>>
    PROVE  Inv'
  <1>1. /\ ReqTyped' /\ req'[w].op = "idle"
        /\ \A u \in Worker : u # w => req'[u] = req[u]
    BY InvTyped, FinishTyped DEF Idle
  <1>2. \A k \in Key : /\ ~registering(req'[w], k) /\ ~claiming(req'[w], k) /\ ~storing(req'[w], k)
                       /\ assigning(req'[w], k) => begun(k)
                       /\ selling(req'[w], k) => offered(k)
    BY <1>1 DEF registering, claiming, awaiting, buying, storing, assigning, selling
  <1> QED
    BY <1>1, <1>2, MoveStep

\* What a running request is about has begun, or is offered.
LEMMA RunningEarned ==
    ASSUME Inv, NEW w \in Worker, req[w] # Idle
    PROVE  /\ req[w].r \in Key
           /\ req[w].op \in {"request", "assign", "submit"} => begun(req[w].r)
           /\ req[w].op \in {"collect", "settle", "invest"} => offered(req[w].r)
           /\ req[w].op = "submit" /\ req[w].pc = "collect" => offered(req[w].r)
  <1>1. req[w].r \in Key
    BY InvTyped, RunningTyped
  <1> QED
    BY <1>1 DEF begun, offered, assigning, selling

\* A request goes on to a step at which it holds none of the rights.
LEMMA GotoStep ==
    ASSUME Inv, NEW w \in Worker, req[w] # Idle, NEW pc \in PcName, NEW h \in Carried(req[w].op),
           (Goto(w, pc) /\ h = req[w].h) \/ Carry(w, pc, h),
           UNCHANGED <<rowVars, chainVars, sentVars, pixVars>>,
           pc \notin {"store", "await", "buy", "collect"}
    PROVE  Inv'
  <1>1. /\ ReqTyped'
        /\ req'[w] = [op |-> req[w].op, r |-> req[w].r, pc |-> pc, h |-> h]
        /\ \A u \in Worker : u # w => req'[u] = req[u]
    BY InvTyped, GotoTyped, CarryTyped
  <1>2. \A k \in Key : /\ ~registering(req'[w], k) /\ ~claiming(req'[w], k) /\ ~storing(req'[w], k)
                       /\ assigning(req'[w], k) => begun(k)
                       /\ selling(req'[w], k) => offered(k)
    BY <1>1, RunningEarned DEF registering, claiming, awaiting, buying, storing, assigning, selling
  <1> QED
    BY <1>1, <1>2, MoveStep

\* A request finds the transfer applied, and goes on to the payout.
LEMMA AwaitStep ==
    ASSUME Inv, NEW w \in Worker, At(w, "submit", "await"), nfe[req[w].r].owner = Platform, Goto(w, "buy"),
           UNCHANGED <<rowVars, chainVars, sentVars, pixVars>>
    PROVE  Inv'
  <1>1. /\ req[w] # Idle /\ req[w].op = "submit" /\ req[w].pc = "await" /\ "buy" \in PcName
        /\ ReqTyped /\ RowsTyped
    BY InvTyped DEF At, Idle, PcName
  <1>2. PICK r \in Key : req[w].r = r
    BY <1>1, RunningEarned
  <1>3. /\ ReqTyped' /\ \A u \in Worker : u # w => req'[u] = req[u]
        /\ req'[w].op = "submit" /\ req'[w].r = r /\ req'[w].pc = "buy"
    BY <1>1, <1>2, GotoTyped, GotoFields
  <1>4. RowsTyped'
    BY <1>1 DEF RowsTyped, rowVars, pixVars
  <1>5. ASSUME NEW k \in Key PROVE EarnedStep(w, k)
    <2>1. (rowBegun(k)' <=> rowBegun(k)) /\ (rowOffered(k)' <=> rowOffered(k))
      BY DEF rowBegun, rowOffered, rowVars, pixVars
    <2>2. /\ ~registering(req'[w], k) /\ ~awaiting(req'[w], k) /\ ~storing(req'[w], k) /\ ~selling(req'[w], k)
          /\ buying(req'[w], k) => awaiting(req[w], k) /\ nfe[k].owner = Platform
          /\ assigning(req'[w], k) => assigning(req[w], k)
      BY <1>1, <1>2, <1>3 DEF registering, awaiting, storing, selling, buying, assigning
    <2> QED
      BY <2>1, <2>2 DEF EarnedStep, begun, offered
  <1> QED
    BY <1>3, <1>4, <1>5, OffChain

\* Everything that moves a request and nothing else.
LEMMA MovesOnly ==
    ASSUME Inv, NEW w \in Worker, NEW r \in Key,
           \/ approveReceivable(w, r) \/ rejectReceivable(w, r) \/ tokenize(w, r)
           \/ requestAssignment(w, r) \/ assign(w, r) \/ prepareAssignment(w, r) \/ invest(w, r)
           \/ TokenizeRead(w) \/ AssignChain(w) \/ submitAssignment(w)
           \/ InvestConsume(w) \/ ensureCustodialWalletForUser(w) \/ InvestTransfer(w)
           \/ AwaitTransfer(w) \/ SettleChain(w) \/ Crash(w)
    PROVE  Inv'
  <1>0. ReqTyped /\ RowsTyped /\ document[r] \in Document \cup {NoDocument}
    BY InvTyped DEF RowsTyped
  <1>1. CASE approveReceivable(w, r)
    BY <1>1, StartStep DEF approveReceivable, OpName, PcName, Carried
  <1>2. CASE rejectReceivable(w, r)
    BY <1>2, StartStep DEF rejectReceivable, OpName, PcName, Carried, Anything
  <1>3. CASE tokenize(w, r)
    BY <1>0, <1>3, StartStep DEF tokenize, OpName, PcName, Carried
  <1>4. CASE requestAssignment(w, r)
    BY <1>4, StartStep DEF requestAssignment, OpName, PcName, Carried, Anything, begun, rowBegun
  <1>5. CASE assign(w, r)
    BY <1>5, StartStep DEF assign, assignable, OpName, PcName, Carried, Anything, begun, rowBegun
  <1>6. CASE prepareAssignment(w, r)
    BY <1>6, StartStep DEF prepareAssignment, assignable, OpName, PcName, Carried, begun, rowBegun
  <1>7. CASE invest(w, r)
    BY <1>7, StartStep DEF invest, OpName, PcName, Carried, Anything, offered, rowOffered
  <1>8. CASE TokenizeRead(w)
    <2>1. req[w].op = "tokenize" /\ req[w] # Idle
      BY <1>8 DEF TokenizeRead, At, Idle
    <2>2. req[w].r \in Key /\ document[req[w].r] \in Carried(req[w].op)
      BY <1>0, <2>1, RunningTyped DEF RowsTyped, Carried
    <2>3. CASE Finish(w)
      BY <1>8, <2>3, FinishStep DEF TokenizeRead
    <2>4. CASE Carry(w, "chain", document[req[w].r])
      BY <1>8, <2>1, <2>2, <2>4, GotoStep DEF TokenizeRead, PcName
    <2> QED
      BY <1>8, <2>3, <2>4 DEF TokenizeRead, Carry
  <1>9. CASE AssignChain(w)
    BY <1>9, FinishStep DEF AssignChain
  <1>10. CASE submitAssignment(w)
    <2>1. req[w].op = "submit" /\ req[w] # Idle
      BY <1>10 DEF submitAssignment, At, Idle
    <2>2. req[w].r \in Key /\ document[req[w].r] \in Carried(req[w].op)
      BY <1>0, <2>1, RunningTyped DEF RowsTyped, Carried
    <2>3. CASE Finish(w)
      BY <1>10, <2>3, FinishStep DEF submitAssignment
    <2>4. CASE Carry(w, "transfer", document[req[w].r])
      BY <1>10, <2>1, <2>2, <2>4, GotoStep DEF submitAssignment, PcName
    <2> QED
      BY <1>10, <2>3, <2>4 DEF submitAssignment, Carry
  <1>11. ASSUME NEW pc \in {"wallet", "charge"}, req[w] # Idle, Goto(w, pc) \/ Finish(w),
                UNCHANGED <<rowVars, chainVars, sentVars, pixVars>>
         PROVE  Inv'
    <2>1. req[w].h \in Carried(req[w].op) /\ pc \in PcName
      BY <1>0, <1>11, RunningTyped DEF PcName
    <2> QED
      BY <1>11, <2>1, FinishStep, GotoStep
  <1>12. CASE InvestConsume(w)
    BY <1>11, <1>12 DEF InvestConsume, At, Idle
  <1>13. CASE ensureCustodialWalletForUser(w)
    BY <1>11, <1>13 DEF ensureCustodialWalletForUser, At, Idle
  <1>14. CASE InvestTransfer(w)
    BY <1>14, FinishStep DEF InvestTransfer
  <1>15. CASE Crash(w)
    BY <1>15, FinishStep DEF Crash
  <1>16. CASE SettleChain(w)
    BY <1>16, FinishStep DEF SettleChain
  <1>17. CASE AwaitTransfer(w)
    BY <1>17, FinishStep, AwaitStep DEF AwaitTransfer
  <1> QED
    BY <1>1, <1>2, <1>3, <1>4, <1>5, <1>6, <1>7, <1>8, <1>9, <1>10, <1>12, <1>13, <1>14, <1>15, <1>16, <1>17

----------------------------------------------------------------------------
(* The writes of rows.                                                     *)

\* A write of one status.
LEMMA StatusTyped ==
    ASSUME RowsTyped, NEW r \in Key, NEW s \in Status, setStatus(r, s)
    PROVE  /\ status' \in [Key -> Status]
           /\ status'[r] = s /\ \A k \in Key : k # r => status'[k] = status[k]
  BY DEF RowsTyped, setStatus

\* A request writes the status of its receivable, and is then where it earned
\* that status or has ended.
LEMMA StatusStep ==
    ASSUME Inv, NEW w \in Worker, req[w] # Idle, NEW r \in Key, req[w].r = r,
           NEW s \in Status, setStatus(r, s),
           UNCHANGED <<document, investment, collection, recorded, chainVars, sentVars, pixVars>>,
           ReqTyped', \A u \in Worker : u # w => req'[u] = req[u],
           req'[w].op # "idle" =>
              req'[w].op = req[w].op /\ req'[w].r = r /\ req'[w].pc \notin {"store", "await", "buy"},
           s \in {"tokenized", "assignment_pending", "active"}
              => begun(r) \/ registering(req[w], r),
           s = "active" \/ (req'[w].op # "idle" /\ req'[w].pc = "collect")
              => offered(r) \/ storing(req[w], r)
    PROVE  Inv'
  <1>2. /\ status' \in [Key -> Status] /\ RowsTyped
        /\ status'[r] = s /\ \A k \in Key : k # r => status'[k] = status[k]
    BY InvTyped, StatusTyped
  <1>3. RowsTyped'
    BY <1>2 DEF RowsTyped, pixVars
  <1>4. ASSUME NEW k \in Key PROVE EarnedStep(w, k)
    <2>1. ~registering(req'[w], k) /\ ~claiming(req'[w], k) /\ ~storing(req'[w], k)
      BY DEF registering, claiming, awaiting, buying, storing
    <2>2. k # r => (rowBegun(k)' <=> rowBegun(k)) /\ (rowOffered(k)' <=> rowOffered(k))
      BY <1>2 DEF rowBegun, rowOffered, pixVars
    <2>3. assigning(req'[w], k) => k = r /\ begun(r)
      BY RunningEarned DEF assigning
    <2>4. selling(req'[w], k) => k = r /\ (offered(r) \/ storing(req[w], r))
      BY RunningEarned DEF selling
    <2>5. rowOffered(r)' => offered(r) \/ storing(req[w], r)
      BY <1>2 DEF rowOffered, offered, pixVars
    <2>6. rowBegun(r)' => begun(r) \/ registering(req[w], r)
      BY <1>2 DEF rowBegun
    <2>7. rowBegun(k)' \/ assigning(req'[w], k) => begun(k) \/ registering(req[w], k)
      BY <2>2, <2>3, <2>6 DEF begun
    <2>8. rowOffered(k)' \/ selling(req'[w], k) => offered(k) \/ storing(req[w], k)
      BY <2>2, <2>4, <2>5 DEF offered
    <2> QED
      BY <2>1, <2>7, <2>8 DEF EarnedStep, claiming
  <1> QED
    BY <1>3, <1>4, OffChain

\* The steps of a request that write the status of its receivable.
LEMMA StatusWrites ==
    ASSUME Inv, NEW w \in Worker,
           \/ ApproveValidate(w) \/ RejectStore(w) \/ TokenizeStore(w)
           \/ RequestStore(w) \/ SubmitStore(w)
    PROVE  Inv'
  <1>1. req[w] # Idle
    BY DEF ApproveValidate, RejectStore, TokenizeStore, RequestStore, SubmitStore, At, Idle
  <1>2. PICK r \in Key : req[w].r = r
    BY <1>1, RunningEarned
  <1>3. /\ ReqTyped
        /\ req[w].op \in {"request", "assign", "submit"} => begun(r)
        /\ req[w].op \in {"collect", "settle", "invest"} => offered(r)
    BY <1>1, <1>2, InvTyped, RunningEarned
  <1>4. ASSUME Finish(w)
        PROVE  ReqTyped' /\ req'[w].op = "idle" /\ \A u \in Worker : u # w => req'[u] = req[u]
    BY <1>3, <1>4, FinishTyped DEF Idle
  <1>5. ASSUME NEW pc \in PcName, Goto(w, pc)
        PROVE  /\ ReqTyped' /\ \A u \in Worker : u # w => req'[u] = req[u]
               /\ req'[w].op = req[w].op /\ req'[w].r = r /\ req'[w].pc = pc
    <2>1. /\ ReqTyped'
          /\ req'[w] = [op |-> req[w].op, r |-> req[w].r, pc |-> pc, h |-> req[w].h]
          /\ \A u \in Worker : u # w => req'[u] = req[u]
      BY <1>1, <1>3, <1>5, GotoTyped
    <2> QED
      BY <1>2, <2>1
  <1>6. CASE ApproveValidate(w)
    <2>1. setStatus(r, "validated") /\ "validated" \in Status
      BY <1>2, <1>6 DEF ApproveValidate, Status
    <2>2. /\ ReqTyped' /\ \A u \in Worker : u # w => req'[u] = req[u]
          /\ req'[w].op = req[w].op /\ req'[w].r = r /\ req'[w].pc = "read"
      BY <1>5, <1>6 DEF ApproveValidate, PcName
    <2> QED
      BY <1>1, <1>2, <1>6, <2>1, <2>2, StatusStep DEF ApproveValidate
  <1>7. CASE RejectStore(w)
    <2>1. setStatus(r, "rejected") /\ "rejected" \in Status
      BY <1>2, <1>7 DEF RejectStore, Status
    <2>2. ReqTyped' /\ req'[w].op = "idle" /\ \A u \in Worker : u # w => req'[u] = req[u]
      BY <1>4, <1>7 DEF RejectStore
    <2> QED
      BY <1>1, <1>2, <1>7, <2>1, <2>2, StatusStep DEF RejectStore
  <1>8. CASE TokenizeStore(w)
    <2>1. setStatus(r, "tokenized") /\ "tokenized" \in Status /\ registering(req[w], r)
      BY <1>2, <1>8 DEF TokenizeStore, Status, At, registering
    <2>2. ReqTyped' /\ req'[w].op = "idle" /\ \A u \in Worker : u # w => req'[u] = req[u]
      BY <1>4, <1>8 DEF TokenizeStore
    <2> QED
      BY <1>1, <1>2, <1>8, <2>1, <2>2, StatusStep DEF TokenizeStore
  <1>9. CASE RequestStore(w)
    <2>1. setStatus(r, "assignment_pending") /\ "assignment_pending" \in Status /\ begun(r)
      BY <1>2, <1>3, <1>9 DEF RequestStore, Status, At
    <2>2. ReqTyped' /\ req'[w].op = "idle" /\ \A u \in Worker : u # w => req'[u] = req[u]
      BY <1>4, <1>9 DEF RequestStore
    <2> QED
      BY <1>1, <1>2, <1>9, <2>1, <2>2, StatusStep DEF RequestStore
  <1>10. CASE SubmitStore(w)
    <2>1. /\ setStatus(r, "active") /\ "active" \in Status
          /\ begun(r) /\ storing(req[w], r)
      BY <1>2, <1>3, <1>10 DEF SubmitStore, Status, At, storing
    <2>2. /\ ReqTyped' /\ \A u \in Worker : u # w => req'[u] = req[u]
          /\ req'[w].op = req[w].op /\ req'[w].r = r /\ req'[w].pc = "collect"
      BY <1>5, <1>10 DEF SubmitStore, PcName
    <2> QED
      BY <1>1, <1>2, <1>10, <2>1, <2>2, StatusStep DEF SubmitStore
  <1> QED
    BY <1>6, <1>7, <1>8, <1>9, <1>10

\* The rows of receivables that exist, their documents and the payments of
\* their debtors are written without a request to remember.
LEMMA RowWrites ==
    ASSUME Inv, NEW r \in Key,
           \/ create(r)
           \/ \E d \in Document : createDocument(r, d)
           \/ \E n \in 1..MaxOrders : PayOrder(r, n)
    PROVE  Inv'
  <1>0. RowsTyped
    BY InvTyped
  <1>1. CASE create(r)
    <2>1. setStatus(r, "pending") /\ "pending" \in Status /\ status[r] = "absent"
      BY <1>1 DEF create, Status
    <2>2. /\ status' \in [Key -> Status]
          /\ status'[r] = "pending" /\ \A k \in Key : k # r => status'[k] = status[k]
      BY <1>0, <2>1, StatusTyped
    <2>3. RowsTyped'
      BY <1>0, <1>1, <2>2 DEF RowsTyped, create, pixVars
    <2>4. ASSUME NEW k \in Key PROVE (rowBegun(k)' => rowBegun(k)) /\ (rowOffered(k)' => rowOffered(k))
      BY <1>1, <2>2 DEF rowBegun, rowOffered, create, pixVars
    <2>5. UNCHANGED <<chainVars, sentVars, req>>
      BY <1>1 DEF create
    <2> QED
      BY <2>3, <2>4, <2>5, RowStep DEF begun, offered
  <1>2. ASSUME NEW d \in Document, createDocument(r, d) PROVE Inv'
    <2>3. RowsTyped'
      BY <1>0, <1>2 DEF RowsTyped, createDocument, pixVars
    <2>4. ASSUME NEW k \in Key PROVE (rowBegun(k)' => rowBegun(k)) /\ (rowOffered(k)' => rowOffered(k))
      BY <1>2 DEF rowBegun, rowOffered, createDocument, pixVars
    <2>5. UNCHANGED <<chainVars, sentVars, req>>
      BY <1>2 DEF createDocument
    <2> QED
      BY <2>3, <2>4, <2>5, RowStep DEF begun, offered
  <1>3. ASSUME NEW n \in 1..MaxOrders, PayOrder(r, n) PROVE Inv'
    <2> DEFINE same == {e \in paid : e[1] = r /\ e[2] = n}
    <2>1. IsFiniteSet(same) /\ Cardinality(same) <= Cardinality(paid)
      BY <1>0, FS_Subset DEF RowsTyped
    <2>2. Cardinality(same) \in Nat /\ Cardinality(paid) \in Nat
      BY <1>0, <2>1, FS_CardinalityType DEF RowsTyped
    <2>3. PICK c \in 1..MaxReports : c = Cardinality(same) + 1
      <3> HIDE DEF same
      <3> QED
        BY <1>3, <2>1, <2>2, ReceivableAssumption DEF PayOrder
    <2>4. paid' = paid \cup {<<r, n, c>>} /\ <<r, n, c>> \in Event
      BY <1>3, <2>3 DEF PayOrder, Event
    <2>5. IsFiniteSet(paid')
      BY <1>0, <2>4, FS_AddElement DEF RowsTyped
    <2>6. RowsTyped'
      BY <1>0, <1>3, <2>4, <2>5 DEF RowsTyped, PayOrder, rowVars
    <2>7. orders[r] > 0
      BY <1>0, <1>3 DEF PayOrder, RowsTyped, Order
    <2>8. ASSUME NEW k \in Key PROVE (rowBegun(k)' => rowBegun(k)) /\ (rowOffered(k)' => rowOffered(k))
      <3>1. UNCHANGED <<status, investment, collection, orders>>
        BY <1>3 DEF PayOrder, rowVars
      <3>2. \A e \in paid' : e \in paid \/ e[1] = r
        BY <2>4
      <3> QED
        BY <2>7, <3>1, <3>2 DEF rowBegun, rowOffered
    <2>9. UNCHANGED <<chainVars, sentVars, req>>
      BY <1>3 DEF PayOrder
    <2> QED
      BY <2>6, <2>8, <2>9, RowStep DEF begun, offered
  <1> QED
    BY <1>1, <1>2, <1>3

\* A request about an offered receivable writes its row.
LEMMA OfferedStep ==
    ASSUME Inv, NEW w \in Worker, NEW r \in Key, offered(r),
           UNCHANGED <<chainVars, sentVars, paid>>, RowsTyped', ReqTyped',
           \A u \in Worker : u # w => req'[u] = req[u],
           req'[w].op # "idle" => req'[w].op \in {"collect", "settle", "invest"} /\ req'[w].r = r,
           \A k \in Key : k # r => /\ status'[k] = status[k] /\ investment'[k] = investment[k]
                                   /\ orders'[k] = orders[k] /\ collection'[k] = collection[k]
    PROVE  Inv'
  <1>1. begun(r)
    BY DEF Inv, LifeInv, OfferedOnce, begun
  <1>2. ASSUME NEW k \in Key PROVE EarnedStep(w, k)
    <2>1. /\ ~registering(req'[w], k) /\ ~claiming(req'[w], k) /\ ~storing(req'[w], k)
          /\ ~assigning(req'[w], k)
          /\ selling(req'[w], k) => k = r
      BY DEF registering, claiming, awaiting, buying, storing, assigning, selling
    <2>2. k # r => (rowBegun(k)' => begun(k)) /\ (rowOffered(k)' => offered(k))
      BY DEF rowBegun, rowOffered, begun, offered
    <2> QED
      BY <1>1, <2>1, <2>2 DEF EarnedStep, claiming
  <1> QED
    BY <1>2, OffChain

\* The order the Pix service makes, and the request that goes on to name it.
LEMMA OrderStep ==
    ASSUME ReqTyped, RowsTyped, NEW w \in Worker, NEW r \in Key, NEW i \in Nat, createCollection(w, r, i)
    PROVE  /\ ReqTyped' /\ \A u \in Worker : u # w => req'[u] = req[u]
           /\ req'[w].op # "idle" => req'[w].op = "collect" /\ req'[w].r = r
           /\ orders' \in [Key -> Order] /\ \A k \in Key : k # r => orders'[k] = orders[k]
  <1>1. orders' \in [Key -> Order] /\ \A k \in Key : k # r => orders'[k] = orders[k]
    <2>1. \/ orders[r] < MaxOrders /\ orders' = [orders EXCEPT ![r] = @ + 1]
          \/ orders' = orders
      BY DEF createCollection
    <2>2. orders \in [Key -> 0..MaxOrders] /\ MaxOrders \in Nat
      BY ReceivableAssumption DEF RowsTyped, Order
    <2>3. orders[r] < MaxOrders => orders[r] + 1 \in 0..MaxOrders
      BY <2>2
    <2> QED
      BY <2>1, <2>2, <2>3 DEF Order
  <1>2. CASE Finish(w)
    BY <1>1, <1>2, FinishTyped DEF Idle
  <1>3. CASE /\ orders[r] < MaxOrders
             /\ req' = [req EXCEPT ![w] = [op |-> "collect", r |-> r, pc |-> "name", h |-> <<i, orders[r] + 1>>]]
    <2>1. <<i, orders[r] + 1>> \in Carried("collect")
      BY <1>3, ReceivableAssumption DEF RowsTyped, Order, Carried
    <2>2. "collect" \in OpName /\ "name" \in PcName
      BY DEF OpName, PcName
    <2>3. /\ ReqTyped' /\ \A u \in Worker : u # w => req'[u] = req[u]
          /\ req'[w] = [op |-> "collect", r |-> r, pc |-> "name", h |-> <<i, orders[r] + 1>>]
      BY <1>3, <2>1, <2>2, BecomesTyped
    <2> QED
      BY <1>1, <2>3
  <1> QED
    BY <1>2, <1>3 DEF createCollection

\* The collections of one receivable, when one of them is named or paid.
LEMMA OneKept ==
    ASSUME RowsTyped, NEW r \in Key,
           \/ \E i \in Nat, n \in Order : collection' = [collection EXCEPT ![r][i].order = n]
           \/ \E n : collection' = [collection EXCEPT ![r] = [i \in DOMAIN @ |-> paidIf(@[i], n)]]
    PROVE  /\ collection' \in [Key -> Seq(CollectionRow)]
           /\ \A k \in Key : k # r => collection'[k] = collection[k]
           /\ \A k \in Key : Len(collection'[k]) = Len(collection[k])
  <1>0. collection \in [Key -> Seq(CollectionRow)] /\ collection[r] \in Seq(CollectionRow)
    BY DEF RowsTyped
  <1> DEFINE old == collection[r]
  <1>1. DOMAIN old = 1..Len(old) /\ Len(old) \in Nat /\ \A j \in 1..Len(old) : old[j] \in CollectionRow
    BY <1>0
  <1>2. ASSUME NEW rows \in [1..Len(old) -> CollectionRow], collection' = [collection EXCEPT ![r] = rows]
        PROVE  /\ collection' \in [Key -> Seq(CollectionRow)]
               /\ \A k \in Key : k # r => collection'[k] = collection[k]
               /\ \A k \in Key : Len(collection'[k]) = Len(collection[k])
    <2>1. rows \in Seq(CollectionRow) /\ Len(rows) = Len(old)
      <3> HIDE DEF old
      <3> QED
        BY <1>1, IsASeq, LenProperties
    <2> QED
      BY <1>0, <1>2, <2>1
  <1>3. ASSUME NEW i \in Nat, NEW n \in Order, collection' = [collection EXCEPT ![r][i].order = n]
        PROVE  \E rows \in [1..Len(old) -> CollectionRow] : collection' = [collection EXCEPT ![r] = rows]
    <2> DEFINE rows == [old EXCEPT ![i].order = n]
    <2>1. \A j \in 1..Len(old) : [old[j] EXCEPT !.order = n] \in CollectionRow
      BY <1>1 DEF CollectionRow
    <2>2. rows \in [1..Len(old) -> CollectionRow]
      BY <1>0, <1>1, <2>1
    <2>3. collection' = [collection EXCEPT ![r] = rows]
      BY <1>3
    <2> HIDE DEF rows
    <2> QED
      BY <2>2, <2>3
  <1>4. ASSUME NEW n, collection' = [collection EXCEPT ![r] = [i \in DOMAIN @ |-> paidIf(@[i], n)]]
        PROVE  \E rows \in [1..Len(old) -> CollectionRow] : collection' = [collection EXCEPT ![r] = rows]
    <2> DEFINE rows == [j \in 1..Len(old) |-> paidIf(old[j], n)]
    <2>1. \A j \in 1..Len(old) : paidIf(old[j], n) \in CollectionRow
      BY <1>1 DEF CollectionRow, paidIf
    <2>2. rows \in [1..Len(old) -> CollectionRow]
      BY <2>1
    <2>3. collection' = [collection EXCEPT ![r] = rows]
      BY <1>0, <1>1, <1>4
    <2> HIDE DEF rows
    <2> QED
      BY <2>2, <2>3
  <1> QED
    BY <1>2, <1>3, <1>4

\* Everything that is done about a receivable the pool has paid for.
LEMMA OfferedWrites ==
    ASSUME Inv, NEW w \in Worker,
           \/ createCollectionOrder(w) \/ NameOrder(w) \/ CallbackCollection(w)
           \/ InvestReserve(w) \/ InvestCharge(w)
           \/ \E k \in Key : retryCollectionOrder(w, k)
           \/ \E e \in paid : processCollectionCallback(w, e)
    PROVE  Inv'
  <1>0. ReqTyped /\ RowsTyped
    BY InvTyped
  <1>1. ASSUME NEW k \in Key, retryCollectionOrder(w, k) PROVE Inv'
    <2>0. collection[k] \in Seq(CollectionRow)
      BY <1>0 DEF RowsTyped
    <2>00. PICK i \in 1..Len(collection[k]) : createCollection(w, k, i)
      BY <1>1 DEF retryCollectionOrder
    <2>1. /\ ReqTyped' /\ \A u \in Worker : u # w => req'[u] = req[u]
          /\ req'[w].op # "idle" => req'[w].op = "collect" /\ req'[w].r = k
          /\ orders' \in [Key -> Order] /\ \A j \in Key : j # k => orders'[j] = orders[j]
      BY <1>0, <2>00, OrderStep
    <2>2. RowsTyped' /\ UNCHANGED <<chainVars, sentVars, paid, status, investment, collection>>
      BY <1>0, <1>1, <2>1 DEF RowsTyped, retryCollectionOrder, rowVars
    <2>3. offered(k)
      BY <2>0, <2>00 DEF offered, rowOffered
    <2> QED
      BY <2>1, <2>2, <2>3, OfferedStep
  <1>2. ASSUME NEW e \in paid, processCollectionCallback(w, e) PROVE Inv'
    <2>1. e \in Event
      BY <1>0 DEF RowsTyped
    <2>2. PICK k \in Key, n \in 1..MaxOrders : e[1] = k /\ e[2] = n
      BY <2>1 DEF Event
    <2>3. n \in Carried("settle") /\ "settle" \in OpName /\ "collection" \in PcName
      BY ReceivableAssumption DEF Carried, Order, OpName, PcName
    <2>4. req' = [req EXCEPT ![w] = [op |-> "settle", r |-> k, pc |-> "collection", h |-> n]]
      BY <1>2, <2>2 DEF processCollectionCallback, Start
    <2>5. /\ ReqTyped' /\ \A u \in Worker : u # w => req'[u] = req[u]
          /\ req'[w] = [op |-> "settle", r |-> k, pc |-> "collection", h |-> n]
      BY <1>0, <2>3, <2>4, BecomesTyped
    <2>6. RowsTyped' /\ UNCHANGED <<chainVars, sentVars, paid, status, investment, collection, orders>>
      BY <1>0, <1>2 DEF RowsTyped, processCollectionCallback, recordEvent, pixVars
    <2>7. offered(k)
      BY <2>2 DEF offered, rowOffered
    <2> QED
      BY <2>5, <2>6, <2>7, OfferedStep
  <1>3. ASSUME req[w] # Idle,
               \/ req[w].op \in {"collect", "settle", "invest"}
               \/ req[w].op = "submit" /\ req[w].pc = "collect",
               NEW r \in Key, req[w].r = r,
               \/ createCollectionOrder(w) \/ NameOrder(w) \/ CallbackCollection(w)
               \/ InvestReserve(w) \/ InvestCharge(w)
        PROVE  Inv'
    <2>1. offered(r)
      BY <1>3, RunningEarned
    <2>2. ASSUME Finish(w)
          PROVE  ReqTyped' /\ req'[w].op = "idle" /\ \A u \in Worker : u # w => req'[u] = req[u]
      BY <1>0, <2>2, FinishTyped DEF Idle
    <2>3. ASSUME NEW pc \in PcName, Goto(w, pc)
          PROVE  /\ ReqTyped' /\ \A u \in Worker : u # w => req'[u] = req[u]
                 /\ req'[w].op = req[w].op /\ req'[w].r = r
      <3>1. /\ ReqTyped'
            /\ req'[w] = [op |-> req[w].op, r |-> req[w].r, pc |-> pc, h |-> req[w].h]
            /\ \A u \in Worker : u # w => req'[u] = req[u]
        BY <1>0, <1>3, <2>3, GotoTyped
      <3> QED
        BY <1>3, <3>1
    <2>4. CASE createCollectionOrder(w)
      <3>1. createCollection(w, r, Len(collection[r]) + 1) /\ Len(collection[r]) + 1 \in Nat
        BY <1>0, <1>3, <2>4 DEF createCollectionOrder, RowsTyped
      <3>2. /\ ReqTyped' /\ \A u \in Worker : u # w => req'[u] = req[u]
            /\ req'[w].op # "idle" => req'[w].op = "collect" /\ req'[w].r = r
            /\ orders' \in [Key -> Order] /\ \A k \in Key : k # r => orders'[k] = orders[k]
        BY <1>0, <3>1, OrderStep
      <3>3. collection' = [collection EXCEPT ![r] = Append(@, [status |-> "pending_payment", order |-> 0])]
        BY <1>3, <2>4 DEF createCollectionOrder
      <3>4. /\ collection' \in [Key -> Seq(CollectionRow)]
            /\ \A k \in Key : k # r => collection'[k] = collection[k]
        <4>0. [status |-> "pending_payment", order |-> 0] \in CollectionRow
          BY ReceivableAssumption DEF CollectionRow, Order
        <4>1. collection[r] \in Seq(CollectionRow) /\ [status |-> "pending_payment", order |-> 0] \in CollectionRow
          BY <1>0, <4>0 DEF RowsTyped
        <4>2. Append(collection[r], [status |-> "pending_payment", order |-> 0]) \in Seq(CollectionRow)
          BY <4>1
        <4> QED
          BY <1>0, <3>3, <4>2 DEF RowsTyped
      <3>5. UNCHANGED <<status, document, investment, recorded, chainVars, sentVars, paid>>
        BY <2>4 DEF createCollectionOrder
      <3>6. RowsTyped'
        BY <1>0, <3>2, <3>4, <3>5 DEF RowsTyped
      <3> QED
        BY <2>1, <3>2, <3>4, <3>5, <3>6, OfferedStep
    <2>5. CASE NameOrder(w)
      <3>1. req[w].h[1] \in Nat /\ req[w].h[2] \in Order
        BY <1>0, <1>3, <2>5, RunningTyped DEF NameOrder, At, Carried
      <3>2. collection' = [collection EXCEPT ![r][req[w].h[1]].order = req[w].h[2]]
        BY <1>3, <2>5 DEF NameOrder
      <3>3. /\ collection' \in [Key -> Seq(CollectionRow)]
            /\ \A k \in Key : k # r => collection'[k] = collection[k]
        BY <1>0, <3>1, <3>2, OneKept
      <3>4. UNCHANGED <<status, document, investment, recorded, chainVars, sentVars, orders, paid>>
        BY <2>5 DEF NameOrder, pixVars
      <3>5. RowsTyped'
        BY <1>0, <3>3, <3>4 DEF RowsTyped
      <3>6. ReqTyped' /\ req'[w].op = "idle" /\ \A u \in Worker : u # w => req'[u] = req[u]
        BY <2>2, <2>5 DEF NameOrder
      <3> QED
        BY <2>1, <3>3, <3>4, <3>5, <3>6, OfferedStep
    <2>6. CASE CallbackCollection(w)
      <3>1. collection' = [collection EXCEPT ![r] = [i \in DOMAIN @ |-> paidIf(@[i], req[w].h)]]
        BY <1>3, <2>6 DEF CallbackCollection
      <3>2. /\ collection' \in [Key -> Seq(CollectionRow)]
            /\ \A k \in Key : k # r => collection'[k] = collection[k]
        BY <1>0, <3>1, OneKept
      <3>3. UNCHANGED <<status, document, investment, recorded, chainVars, sentVars, orders, paid>>
        BY <2>6 DEF CallbackCollection, pixVars
      <3>4. RowsTyped'
        BY <1>0, <3>2, <3>3 DEF RowsTyped
      <3>5. Goto(w, "chain")
        BY <2>6 DEF CallbackCollection
      <3>6. req[w].op = "settle" /\ "chain" \in PcName
        BY <2>6 DEF CallbackCollection, At, PcName
      <3>7. /\ ReqTyped' /\ \A u \in Worker : u # w => req'[u] = req[u]
            /\ req'[w].op # "idle" => req'[w].op = "settle" /\ req'[w].r = r
        BY <2>2, <2>3, <3>5, <3>6
      <3> QED
        BY <2>1, <3>2, <3>3, <3>4, <3>7, OfferedStep
    <2>7. CASE InvestReserve(w)
      <3>1. \/ /\ investment' = [investment EXCEPT ![r] = "reserved"]
               /\ setStatus(r, "active") /\ Goto(w, "consume")
            \/ Finish(w) /\ UNCHANGED <<investment, status>>
        BY <1>3, <2>7 DEF InvestReserve
      <3>2. /\ investment' \in [Key -> {"none", "reserved", "charged"}]
            /\ status' \in [Key -> Status]
            /\ \A k \in Key : k # r => investment'[k] = investment[k] /\ status'[k] = status[k]
        BY <1>0, <3>1 DEF RowsTyped, setStatus, Status
      <3>3. UNCHANGED <<document, collection, recorded, chainVars, sentVars, orders, paid>>
        BY <2>7 DEF InvestReserve, pixVars
      <3>4. RowsTyped'
        BY <1>0, <3>2, <3>3 DEF RowsTyped
      <3>5. req[w].op = "invest" /\ "consume" \in PcName
        BY <2>7 DEF InvestReserve, At, PcName
      <3>6. /\ ReqTyped' /\ \A u \in Worker : u # w => req'[u] = req[u]
            /\ req'[w].op # "idle" => req'[w].op = "invest" /\ req'[w].r = r
        BY <2>2, <2>3, <3>1, <3>5
      <3> QED
        BY <2>1, <3>2, <3>3, <3>4, <3>6, OfferedStep
    <2>8. CASE InvestCharge(w)
      <3>1. \/ investment' = [investment EXCEPT ![r] = "charged"] /\ Goto(w, "chain")
            \/ Finish(w) /\ UNCHANGED investment
        BY <1>3, <2>8 DEF InvestCharge
      <3>2. /\ investment' \in [Key -> {"none", "reserved", "charged"}]
            /\ \A k \in Key : k # r => investment'[k] = investment[k]
        BY <1>0, <3>1 DEF RowsTyped
      <3>3. UNCHANGED <<status, document, collection, recorded, chainVars, sentVars, orders, paid>>
        BY <2>8 DEF InvestCharge, pixVars
      <3>4. RowsTyped'
        BY <1>0, <3>2, <3>3 DEF RowsTyped
      <3>5. req[w].op = "invest" /\ "chain" \in PcName
        BY <2>8 DEF InvestCharge, At, PcName
      <3>6. /\ ReqTyped' /\ \A u \in Worker : u # w => req'[u] = req[u]
            /\ req'[w].op # "idle" => req'[w].op = "invest" /\ req'[w].r = r
        BY <2>2, <2>3, <3>1, <3>5
      <3> QED
        BY <2>1, <3>2, <3>3, <3>4, <3>6, OfferedStep
    <2> QED
      BY <1>3, <2>4, <2>5, <2>6, <2>7, <2>8
  <1>4. CASE \/ createCollectionOrder(w) \/ NameOrder(w) \/ CallbackCollection(w)
             \/ InvestReserve(w) \/ InvestCharge(w)
    <2>1. /\ req[w] # Idle
          /\ \/ req[w].op \in {"collect", "settle", "invest"}
             \/ req[w].op = "submit" /\ req[w].pc = "collect"
      <3>1. \/ At(w, "submit", "collect") \/ At(w, "collect", "name") \/ At(w, "settle", "collection")
            \/ At(w, "invest", "reserve") \/ At(w, "invest", "charge")
        BY <1>4, Zenon DEF createCollectionOrder, NameOrder, CallbackCollection, InvestReserve, InvestCharge
      <3> QED
        BY <3>1 DEF At, Idle
    <2>2. req[w].r \in Key
      BY <2>1, RunningEarned
    <2> QED
      BY <1>3, <1>4, <2>1, <2>2
  <1> QED
    BY <1>1, <1>2, <1>4

----------------------------------------------------------------------------
(* Transactions on the chain.                                              *)

Tx == [kind : {"tokenize", "assign", "buy"}, r : Key, h : Hash]

ChainTyped ==
    /\ NfeTypeOK
    /\ processed \subseteq Hash
    /\ payouts \in [Key -> Nat]

\* What a transaction changes when it takes effect.
LEMMA ApplyEffect ==
    ASSUME TypeInv, NEW tx \in Tx, NEW r \in Key, tx.r = r, Apply(tx)
    PROVE  /\ ChainTyped'
           /\ \A k \in Key : k # r =>
                 nfe'[k] = nfe[k] /\ nft'[k] = nft[k] /\ payouts'[k] = payouts[k]
           /\ tx.kind = "tokenize" =>
                 /\ nfe[r] = Unknown /\ nfe'[r] # Unknown
                 /\ nfe'[r].status = "Active" /\ nfe'[r].owner = Pme /\ nft'[r] = Pme
                 /\ payouts'[r] = payouts[r]
           /\ tx.kind = "assign" =>
                 /\ nfe[r] # Unknown /\ nfe[r].owner = Pme
                 /\ nfe'[r].status = "Active" /\ nfe'[r].owner = Platform /\ nft'[r] = Platform
                 /\ payouts'[r] = payouts[r]
           /\ tx.kind = "buy" =>
                 nfe'[r] = nfe[r] /\ nft'[r] = nft[r] /\ payouts'[r] = payouts[r] + 1
  <1>0. ChainTyped /\ NfeTypeOK /\ tx.h \in Hash /\ Pme \in Address /\ Platform \in Address
    BY ReceivableAssumption DEF TypeInv, ReceivablesTypeOK, ChainTyped, Tx, Address
  <1>1. CASE tx.kind = "tokenize" /\ tokenize_nfe(r, tx.h, Pme) /\ UNCHANGED poolVars
    <2> DEFINE new == [status |-> "Active", owner |-> Pme, xml_hash |-> tx.h]
    <2>1. /\ nfe[r] = Unknown /\ nfe' = [nfe EXCEPT ![r] = new] /\ nft' = [nft EXCEPT ![r] = Pme]
          /\ xmlHashes' = xmlHashes \cup {tx.h} /\ listed' = listed
          /\ UNCHANGED <<processed, payouts>>
      BY <1>1 DEF tokenize_nfe, not_tokenized, poolVars
    <2>2. new \in [status : NfeStatus, owner : Address, xml_hash : Hash] /\ new # Unknown
      BY <1>0 DEF NfeStatus, Unknown
    <2>3. NfeTypeOK'
      BY <1>0, <2>1, <2>2 DEF NfeTypeOK
    <2>4. nfe'[r] = new /\ nft'[r] = Pme /\ \A k \in Key : k # r => nfe'[k] = nfe[k] /\ nft'[k] = nft[k]
      BY <1>0, <2>1 DEF NfeTypeOK
    <2> QED
      BY <1>0, <1>1, <2>1, <2>2, <2>3, <2>4 DEF ChainTyped
  <1>2. CASE tx.kind = "assign" /\ transfer_ownership(r, Platform, {Pme}) /\ UNCHANGED poolVars
    <2>1. /\ nfe[r].status = "Active" /\ nfe[r].owner = Pme
          /\ nfe' = [nfe EXCEPT ![r].owner = Platform] /\ nft' = [nft EXCEPT ![r] = Platform]
          /\ xmlHashes' = xmlHashes /\ listed' = listed
          /\ UNCHANGED <<processed, payouts>>
      BY <1>2 DEF transfer_ownership, base_transfer, poolVars
    <2>2. nfe[r] # Unknown /\ nfe[r] \in [status : NfeStatus, owner : Address, xml_hash : Hash]
      BY <1>0, <2>1, KnownByStatus
    <2>3. /\ nfe'[r].status = "Active" /\ nfe'[r].owner = Platform
          /\ nfe'[r] \in [status : NfeStatus, owner : Address, xml_hash : Hash]
          /\ \A k \in Key : k # r => nfe'[k] = nfe[k]
      BY <1>0, <2>1, <2>2 DEF NfeTypeOK
    <2>4. nft'[r] = Platform /\ \A k \in Key : k # r => nft'[k] = nft[k]
      BY <1>0, <2>1 DEF NfeTypeOK
    <2>5. nfe' \in [Key -> [status : NfeStatus, owner : Address, xml_hash : Hash] \cup {Unknown}]
      BY <1>0, <2>1, <2>3 DEF NfeTypeOK
    <2>6. NfeTypeOK'
      BY <1>0, <2>1, <2>5 DEF NfeTypeOK
    <2> QED
      BY <1>0, <1>2, <2>1, <2>2, <2>3, <2>4, <2>6 DEF ChainTyped
  <1>3. CASE tx.kind = "buy" /\ buy(r, tx.h) /\ UNCHANGED nfeVars
    BY <1>0, <1>3 DEF buy, nfeVars, ChainTyped, NfeTypeOK
  <1> QED
    BY <1>1, <1>2, <1>3 DEF Apply

\* What rests on a receivable, when no row changes.
LEMMA RestingOn ==
    ASSUME NEW r \in Key, UNCHANGED <<rowVars, pixVars>>
    PROVE  /\ rowBegun(r)' <=> rowBegun(r)
           /\ rowOffered(r)' <=> rowOffered(r)
  BY DEF rowBegun, rowOffered, rowVars, pixVars

\* Requests end and transactions are forgotten, or it is about something else.
LEMMA DropStep ==
    ASSUME NEW r \in Key, LifeInv(r), UNCHANGED <<rowVars, pixVars>>,
           nfe'[r] = nfe[r], nft'[r] = nft[r], payouts'[r] = payouts[r],
           r \in foreign' <=> r \in foreign, r \in resent' <=> r \in resent,
           \A u \in Worker : /\ registering(req'[u], r) => registering(req[u], r)
                             /\ assigning(req'[u], r) => assigning(req[u], r)
                             /\ awaiting(req'[u], r) =>
                                   /\ awaiting(req[u], r)
                                   /\ transferTx(r) \in late => transferTx(r) \in late'
                             /\ buying(req'[u], r) => buying(req[u], r)
                             /\ storing(req'[u], r) => storing(req[u], r)
                             /\ selling(req'[u], r) => selling(req[u], r),
           \A tx \in late' : tx.kind = "buy" /\ tx.r = r => tx \in late
    PROVE  LifeInv(r)'
  <1>1. payoutLate(r)' => payoutLate(r)
    BY DEF payoutLate
  <1>2. (begun(r)' => begun(r)) /\ (offered(r)' => offered(r))
    BY <1>1, RestingOn DEF begun, offered
  <1>3. Titled(r)'
    BY DEF LifeInv, Titled
  <1>4. RegisteredOnce(r)'
    BY <1>2 DEF LifeInv, RegisteredOnce
  <1>5. PaidForTitle(r)'
    BY <1>1 DEF LifeInv, PaidForTitle, transferTx
  <1>6. PaidOnce(r)'
    BY <1>1 DEF LifeInv, PaidOnce, claiming
  <1>7. OfferedOnce(r)'
    BY <1>2 DEF LifeInv, OfferedOnce
  <1> QED
    BY <1>3, <1>4, <1>5, <1>6, <1>7 DEF LifeInv

\* The title is registered: nothing was begun, and w alone learns of it.
LEMMA RegisterStep ==
    ASSUME NEW r \in Key, LifeInv(r), UNCHANGED <<rowVars, pixVars>>, NEW w,
           nfe[r] = Unknown, nfe'[r] # Unknown, payouts[r] \in Nat,
           nfe'[r].status = "Active", nfe'[r].owner = Pme, nft'[r] = Pme, payouts'[r] = payouts[r],
           \A u \in Worker : /\ registering(req'[u], r) => u = w
                             /\ assigning(req'[u], r) => assigning(req[u], r)
                             /\ selling(req'[u], r) => selling(req[u], r),
           late' \subseteq late
    PROVE  LifeInv(r)'
  <1>1. ~begun(r)
    BY DEF LifeInv, RegisteredOnce
  <1>2. payoutLate(r)' => payoutLate(r)
    BY DEF payoutLate
  <1>3. ~begun(r)'
    BY <1>1, <1>2, RestingOn DEF begun
  <1>4. ~offered(r)
    BY <1>1 DEF LifeInv, OfferedOnce, begun
  <1>5. ~offered(r)'
    BY <1>4, RestingOn DEF offered
  <1>6. \A u \in Worker : ~awaiting(req'[u], r) /\ ~buying(req'[u], r) /\ ~storing(req'[u], r)
    BY <1>3 DEF begun, assigning, awaiting, buying, storing
  <1>7. payouts'[r] = 0 /\ ~payoutLate(r)'
    BY <1>1, <1>3 DEF begun
  <1>8. Titled(r)'
    BY DEF Titled
  <1>9. RegisteredOnce(r)'
    BY <1>3 DEF RegisteredOnce
  <1>10. PaidForTitle(r)' /\ PaidOnce(r)'
    BY <1>6, <1>7 DEF PaidForTitle, PaidOnce, payoutLate, claiming
  <1>11. OfferedOnce(r)'
    BY <1>5 DEF OfferedOnce
  <1> QED
    BY <1>8, <1>9, <1>10, <1>11 DEF LifeInv

\* The title moves to the platform, and the requests have yet to find out.
LEMMA TransferStep ==
    ASSUME NEW r \in Key, LifeInv(r), UNCHANGED <<rowVars, sentHistory, pixVars, req>>,
           nfe[r] # Unknown, nfe'[r] # Unknown,
           nfe'[r].status = "Active", nfe'[r].owner = Platform, nft'[r] = Platform,
           payouts'[r] = payouts[r], late' \subseteq late
    PROVE  LifeInv(r)'
  <1>1. (payoutLate(r)' => payoutLate(r)) /\ foreign' = foreign /\ resent' = resent /\ req' = req
    BY DEF payoutLate, sentHistory
  <1>2. (begun(r)' => begun(r)) /\ (offered(r)' => offered(r))
    BY <1>1, RestingOn DEF begun, offered
  <1>3. Titled(r)'
    BY DEF Titled
  <1>4. RegisteredOnce(r)'
    BY <1>1, <1>2 DEF LifeInv, RegisteredOnce
  <1>5. PaidForTitle(r)'
    BY <1>1 DEF LifeInv, PaidForTitle
  <1>6. PaidOnce(r)'
    BY <1>1 DEF LifeInv, PaidOnce
  <1>7. OfferedOnce(r)'
    BY <1>2 DEF LifeInv, OfferedOnce
  <1> QED
    BY <1>3, <1>4, <1>5, <1>6, <1>7 DEF LifeInv

\* The request w submits the transfer.  Sent for the first time, the title is
\* still with the company, and so nobody else has the right to a payout; sent
\* again, or another transaction in its place, it is on record.
LEMMA TransferRequested ==
    ASSUME NEW r \in Key, LifeInv(r), NEW w \in Worker,
           UNCHANGED <<rowVars, pixVars>>, nfe' = nfe, nft' = nft, payouts' = payouts, payouts[r] \in Nat,
           req[w].op = "submit", req[w].pc = "transfer", req[w].r = r,
           req'[w].op = "submit", req'[w].r = r, \A u \in Worker : u # w => req'[u] = req[u],
           \/ /\ transferTx(r) \in late /\ req'[w].pc = "await"
              /\ resent' = resent \cup {r} /\ late' = late /\ foreign' = foreign
           \/ /\ transferTx(r) \notin late /\ nfe[r].owner = Pme /\ req'[w].pc = "await"
              /\ late' = late \cup {transferTx(r)} /\ resent' = resent /\ foreign' = foreign
           \/ /\ foreign' = foreign \cup {r} /\ req'[w].pc = "buy"
              /\ late' = late /\ resent' = resent
    PROVE  LifeInv(r)'
  <1>1. Pme # Platform
    BY ReceivableAssumption, NfeAssumption
  <1>2. \A t \in late' : t.kind = "buy" => t \in late
    BY DEF transferTx
  <1>3. late \subseteq late' /\ (payoutLate(r)' <=> payoutLate(r))
    BY <1>2 DEF payoutLate
  <1>4. \A u \in Worker : /\ registering(req'[u], r) => registering(req[u], r)
                          /\ assigning(req'[u], r) => assigning(req[u], r)
                          /\ storing(req'[u], r) => storing(req[u], r)
                          /\ selling(req'[u], r) => selling(req[u], r)
    BY DEF registering, assigning, storing, selling
  <1>5. (begun(r)' => begun(r)) /\ (offered(r)' => offered(r))
    BY <1>3, <1>4, RestingOn DEF begun, offered
  <1>6. Titled(r)'
    BY DEF LifeInv, Titled
  <1>7. RegisteredOnce(r)'
    BY <1>4, <1>5 DEF LifeInv, RegisteredOnce
  <1>8. OfferedOnce(r)'
    BY <1>5 DEF LifeInv, OfferedOnce
  <1>9. CASE transferTx(r) \in late /\ req'[w].pc = "await" /\ resent' = resent \cup {r} /\ foreign' = foreign
    <2>1. \A u \in Worker : /\ buying(req'[u], r) => buying(req[u], r)
                            /\ awaiting(req'[u], r) => u = w \/ awaiting(req[u], r)
      BY <1>9 DEF buying, awaiting
    <2>2. PaidForTitle(r)'
      BY <1>3, <1>4, <1>9, <2>1 DEF LifeInv, PaidForTitle, transferTx
    <2>3. PaidOnce(r)'
      BY <1>9 DEF PaidOnce
    <2> QED
      BY <1>6, <1>7, <1>8, <2>2, <2>3 DEF LifeInv
  <1>10. CASE /\ transferTx(r) \notin late /\ nfe[r].owner = Pme /\ req'[w].pc = "await"
              /\ late' = late \cup {transferTx(r)} /\ resent' = resent /\ foreign' = foreign
    <2>1. \A u \in Worker : /\ buying(req'[u], r) => buying(req[u], r)
                            /\ awaiting(req'[u], r) => u = w \/ awaiting(req[u], r)
      BY <1>10 DEF buying, awaiting
    <2>2. PaidForTitle(r)'
      BY <1>3, <1>4, <1>10, <2>1 DEF LifeInv, PaidForTitle, transferTx
    <2>3. ASSUME r \notin foreign
          PROVE  /\ payouts[r] = 0 /\ ~payoutLate(r)
                 /\ \A u \in Worker : ~awaiting(req[u], r) /\ ~buying(req[u], r)
      BY <1>1, <1>10, <2>3 DEF LifeInv, PaidForTitle
    <2>4. PaidOnce(r)'
      BY <1>2, <1>3, <1>10, <2>1, <2>3 DEF LifeInv, PaidOnce, claiming
    <2> QED
      BY <1>6, <1>7, <1>8, <2>2, <2>4 DEF LifeInv
  <1>11. CASE foreign' = foreign \cup {r} /\ req'[w].pc = "buy" /\ late' = late
    <2>1. \A u \in Worker : awaiting(req'[u], r) => awaiting(req[u], r)
      BY <1>11 DEF awaiting
    <2>2. PaidForTitle(r)'
      BY <1>4, <1>11, <2>1 DEF LifeInv, PaidForTitle, transferTx
    <2>3. PaidOnce(r)'
      BY <1>11 DEF PaidOnce
    <2> QED
      BY <1>6, <1>7, <1>8, <2>2, <2>3 DEF LifeInv
  <1> QED
    BY <1>9, <1>10, <1>11

\* The pool pays: the right to it was with w, or with the transaction tx that
\* was given up on, and is used up.
LEMMA PayStep ==
    ASSUME NEW r \in Key, LifeInv(r), UNCHANGED <<rowVars, sentHistory, pixVars>>, NEW w,
           nfe'[r] = nfe[r], nft'[r] = nft[r], payouts[r] \in Nat, payouts'[r] = payouts[r] + 1,
           \/ w \in Worker /\ buying(req[w], r) /\ ~claiming(req'[w], r) /\ late' = late
           \/ \E tx \in late : tx.kind = "buy" /\ tx.r = r /\ late' = late \ {tx},
           \A u \in Worker : /\ registering(req'[u], r) => registering(req[u], r)
                             /\ assigning(req'[u], r) => assigning(req[u], r)
                             /\ awaiting(req'[u], r) => awaiting(req[u], r)
                             /\ buying(req'[u], r) => buying(req[u], r)
                             /\ selling(req'[u], r) => selling(req[u], r)
    PROVE  LifeInv(r)'
  <1>0. foreign' = foreign /\ resent' = resent
    BY DEF sentHistory
  <1>1. r \notin foreign => nfe[r].owner = Platform
    BY DEF LifeInv, PaidForTitle, payoutLate
  <1>2. payouts'[r] > 0
    OBVIOUS
  <1>3. transferTx(r) \in late => transferTx(r) \in late'
    BY DEF transferTx
  <1>4. begun(r)
    BY DEF begun, payoutLate, assigning, buying
  <1>5. Titled(r)'
    BY DEF LifeInv, Titled
  <1>6. RegisteredOnce(r)'
    BY <1>4 DEF LifeInv, RegisteredOnce
  <1>7. PaidForTitle(r)'
    BY <1>0, <1>1, <1>2, <1>3 DEF LifeInv, PaidForTitle, transferTx
  <1>8. ASSUME r \notin foreign \cup resent
        PROVE  payouts[r] = 0 /\ ~payoutLate(r)' /\ \A u \in Worker : ~claiming(req'[u], r)
    <2>1. \A u \in Worker : claiming(req'[u], r) => claiming(req[u], r)
      BY DEF claiming
    <2>2. CASE w \in Worker /\ buying(req[w], r) /\ ~claiming(req'[w], r) /\ late' = late
      BY <1>8, <2>1, <2>2 DEF LifeInv, PaidOnce, payoutLate, claiming
    <2>3. CASE \E tx \in late : tx.kind = "buy" /\ tx.r = r /\ late' = late \ {tx}
      BY <1>8, <2>1, <2>3 DEF LifeInv, PaidOnce, payoutLate
    <2> QED
      BY <2>2, <2>3
  <1>9. PaidOnce(r)'
    BY <1>0, <1>8 DEF PaidOnce, payoutLate
  <1>10. OfferedOnce(r)'
    BY <1>2 DEF OfferedOnce
  <1> QED
    BY <1>5, <1>6, <1>7, <1>9, <1>10 DEF LifeInv

\* The request that had the right to a payout gives its transaction up.
LEMMA GiveUpStep ==
    ASSUME NEW r \in Key, LifeInv(r), UNCHANGED <<rowVars, sentHistory, pixVars>>, NEW w \in Worker,
           nfe'[r] = nfe[r], nft'[r] = nft[r], payouts'[r] = payouts[r],
           buying(req[w], r), req'[w] = Idle, \A u \in Worker : u # w => req'[u] = req[u],
           NEW tx, tx.kind = "buy", tx.r = r, late' = late \cup {tx}
    PROVE  LifeInv(r)'
  <1>0. foreign' = foreign /\ resent' = resent
    BY DEF sentHistory
  <1>1. r \notin foreign => nfe[r].owner = Platform
    BY DEF LifeInv, PaidForTitle
  <1>2. req'[w].op = "idle"
    BY DEF Idle
  <1>3. \A u \in Worker : /\ awaiting(req'[u], r) => awaiting(req[u], r)
                          /\ buying(req'[u], r) => buying(req[u], r)
                          /\ storing(req'[u], r) => storing(req[u], r)
                          /\ registering(req'[u], r) => registering(req[u], r)
                          /\ selling(req'[u], r) => selling(req[u], r)
    BY <1>2 DEF registering, awaiting, buying, storing, selling
  <1>4. begun(r)
    BY DEF begun, assigning, buying
  <1>5. offered(r)' => offered(r)
    BY <1>3, RestingOn DEF offered
  <1>6. Titled(r)'
    BY DEF LifeInv, Titled
  <1>7. RegisteredOnce(r)'
    BY <1>3, <1>4 DEF LifeInv, RegisteredOnce
  <1>8. PaidForTitle(r)'
    BY <1>0, <1>1, <1>3 DEF LifeInv, PaidForTitle, transferTx
  <1>9. ASSUME r \notin foreign \cup resent PROVE
           /\ payouts[r] = 0
           /\ \A t \in late' : t.kind = "buy" /\ t.r = r => t = tx
           /\ \A u \in Worker : ~claiming(req'[u], r)
    <2>1. claiming(req[w], r) /\ ~claiming(req'[w], r)
      BY <1>2 DEF claiming, awaiting, buying
    <2>2. \A u \in Worker : claiming(req'[u], r) => claiming(req[u], r)
      BY <1>3 DEF claiming
    <2> QED
      BY <1>9, <2>1, <2>2 DEF LifeInv, PaidOnce, payoutLate
  <1>10. PaidOnce(r)'
    BY <1>0, <1>9 DEF PaidOnce
  <1>11. OfferedOnce(r)'
    BY <1>5 DEF LifeInv, OfferedOnce
  <1> QED
    BY <1>6, <1>7, <1>8, <1>10, <1>11 DEF LifeInv

\* The outcomes of invokeContract that a request has to reckon with.
Outcome(w, tx, next) ==
    \/ Apply(tx) /\ Goto(w, next) /\ UNCHANGED late
    \/ Finish(w) /\ UNCHANGED <<chainVars, late>>
    \/ late' = late \cup {tx} /\ Finish(w) /\ UNCHANGED chainVars

\* A registration and a payout are each sent from one place.
Sender(tx, q, next) ==
    /\ q.r = tx.r
    /\ \/ tx.kind = "tokenize" /\ q.op = "tokenize" /\ q.pc = "chain" /\ next = "store"
       \/ tx.kind = "buy" /\ q.op = "submit" /\ q.pc = "buy" /\ next = "store"

\* Types after a step on the chain.
LEMMA ChainTypes ==
    ASSUME TypeInv, UNCHANGED <<rowVars, pixVars>>, ChainTyped', ReqTyped', late' \subseteq Tx,
           foreign' \subseteq Key, resent' \subseteq Key
    PROVE  TypeInv'
  BY DEF TypeInv, ReceivablesTypeOK, ChainTyped, ReqTyped, CarriesTyped, rowVars, pixVars, Tx

\* What the steps on the chain use of the invariant.
LEMMA InvChain ==
    Inv => /\ TypeInv /\ ReqTyped /\ ChainTyped /\ late \subseteq Tx
           /\ foreign \subseteq Key /\ resent \subseteq Key /\ \A r \in Key : payouts[r] \in Nat
  BY InvTyped DEF Inv, TypeInv, ReceivablesTypeOK, ChainTyped, Tx

\* A step that leaves the chain alone keeps its types.
LEMMA ChainKept == ChainTyped /\ UNCHANGED chainVars => ChainTyped' /\ nfe' = nfe /\ nft' = nft /\ payouts' = payouts
  BY DEF ChainTyped, NfeTypeOK, chainVars, nfeVars, poolVars

\* A call to the chain: confirmed, refused, or given up on.
LEMMA SendStep ==
    ASSUME Inv, NEW w \in Worker, req[w] # Idle, NEW tx \in Tx, NEW next \in PcName,
           Sender(tx, req[w], next), Outcome(w, tx, next), UNCHANGED <<rowVars, sentHistory, pixVars>>
    PROVE  Inv'
  <1>0. /\ TypeInv /\ ReqTyped /\ ChainTyped /\ late \subseteq Tx /\ tx.r \in Key
        /\ foreign' = foreign /\ resent' = resent /\ foreign \subseteq Key /\ resent \subseteq Key
    BY InvChain DEF Tx, sentHistory
  <1>1. PICK r \in Key : tx.r = r /\ req[w].r = r
    BY <1>0 DEF Sender
  <1>2. CASE Apply(tx) /\ Goto(w, next) /\ UNCHANGED late
    <2>1. /\ ReqTyped' /\ \A u \in Worker : u # w => req'[u] = req[u]
          /\ req'[w] = [op |-> req[w].op, r |-> req[w].r, pc |-> next, h |-> req[w].h]
      BY <1>0, <1>2, GotoTyped
    <2>2. req'[w].op = req[w].op /\ req'[w].r = r /\ req'[w].pc = next
      BY <1>1, <2>1
    <2>3. TypeInv'
      BY <1>0, <1>1, <1>2, <2>1, ApplyEffect, ChainTypes
    <2>4. ASSUME NEW k \in Key, k # r PROVE LifeInv(k)'
      <3>1. LifeInv(k)
        BY DEF Inv
      <3>2. nfe'[k] = nfe[k] /\ nft'[k] = nft[k] /\ payouts'[k] = payouts[k]
        BY <1>0, <1>1, <1>2, <2>4, ApplyEffect
      <3>3. \A u \in Worker : /\ registering(req'[u], k) => registering(req[u], k)
                              /\ assigning(req'[u], k) => assigning(req[u], k)
                              /\ awaiting(req'[u], k) => awaiting(req[u], k)
                              /\ buying(req'[u], k) => buying(req[u], k)
                              /\ storing(req'[u], k) => storing(req[u], k)
                              /\ selling(req'[u], k) => selling(req[u], k)
        BY <2>1, <2>2, <2>4 DEF registering, assigning, awaiting, buying, storing, selling
      <3> QED
        BY <1>0, <1>2, <3>1, <3>2, <3>3, DropStep
    <2>5. LifeInv(r)'
      <3>0. LifeInv(r) /\ payouts[r] \in Nat
        BY InvChain DEF Inv
      <3>1. CASE tx.kind = "tokenize"
        <4>1. req[w].op = "tokenize"
          BY <3>1 DEF Sender
        <4>2. /\ nfe[r] = Unknown /\ nfe'[r] # Unknown
              /\ nfe'[r].status = "Active" /\ nfe'[r].owner = Pme /\ nft'[r] = Pme
              /\ payouts'[r] = payouts[r]
          BY <1>0, <1>1, <1>2, <3>1, ApplyEffect
        <4>3. \A u \in Worker : ~registering(req[u], r)
          BY <3>0, <4>2 DEF LifeInv, RegisteredOnce
        <4>4. \A u \in Worker : /\ registering(req'[u], r) => u = w
                                /\ assigning(req'[u], r) => assigning(req[u], r)
                                /\ selling(req'[u], r) => selling(req[u], r)
          BY <2>1, <2>2, <4>1, <4>3 DEF assigning, selling
        <4> QED
          BY <1>2, <3>0, <4>2, <4>4, RegisterStep
      <3>2. CASE tx.kind = "buy"
        <4>1. req[w].op = "submit" /\ req[w].pc = "buy" /\ next = "store"
          BY <3>2 DEF Sender
        <4>2. nfe'[r] = nfe[r] /\ nft'[r] = nft[r] /\ payouts'[r] = payouts[r] + 1
          BY <1>0, <1>1, <1>2, <3>2, ApplyEffect
        <4>3. buying(req[w], r) /\ ~claiming(req'[w], r)
          BY <1>1, <2>2, <4>1 DEF claiming, awaiting, buying
        <4>4. \A u \in Worker : /\ registering(req'[u], r) => registering(req[u], r)
                                /\ assigning(req'[u], r) => assigning(req[u], r)
                                /\ awaiting(req'[u], r) => awaiting(req[u], r)
                                /\ buying(req'[u], r) => buying(req[u], r)
                                /\ selling(req'[u], r) => selling(req[u], r)
          BY <1>1, <2>1, <2>2, <4>1 DEF registering, assigning, awaiting, buying, selling
        <4> QED
          BY <1>2, <3>0, <4>2, <4>3, <4>4, PayStep
      <3> QED
        BY <3>1, <3>2 DEF Sender
    <2> QED
      BY <2>3, <2>4, <2>5 DEF Inv
  <1>3. CASE Finish(w) /\ UNCHANGED <<chainVars, late>>
    BY <1>3, FinishStep DEF sentVars
  <1>4. CASE late' = late \cup {tx} /\ Finish(w) /\ UNCHANGED chainVars
    <2>1. /\ ReqTyped' /\ req'[w] = Idle /\ req'[w].op = "idle"
          /\ \A u \in Worker : u # w => req'[u] = req[u]
      BY <1>0, <1>4, FinishTyped DEF Idle
    <2>2. ChainTyped' /\ nfe' = nfe /\ nft' = nft /\ payouts' = payouts
      BY <1>0, <1>4, ChainKept
    <2>3. TypeInv'
      BY <1>0, <1>4, <2>1, <2>2, ChainTypes
    <2>4. \A k \in Key, u \in Worker :
                    /\ registering(req'[u], k) => registering(req[u], k)
                    /\ assigning(req'[u], k) => assigning(req[u], k)
                    /\ awaiting(req'[u], k) => awaiting(req[u], k)
                    /\ buying(req'[u], k) => buying(req[u], k)
                    /\ storing(req'[u], k) => storing(req[u], k)
                    /\ selling(req'[u], k) => selling(req[u], k)
      BY <2>1 DEF registering, assigning, awaiting, buying, storing, selling
    <2>5. ASSUME NEW k \in Key PROVE LifeInv(k)'
      <3>0. LifeInv(k) /\ nfe'[k] = nfe[k] /\ nft'[k] = nft[k] /\ payouts'[k] = payouts[k]
        BY <2>2 DEF Inv
      <3>1. CASE tx.kind = "buy" /\ k = r
        <4>1. buying(req[w], k) /\ tx.r = k
          BY <1>1, <3>1 DEF Sender, buying
        <4> QED
          BY <1>4, <2>1, <3>0, <3>1, <4>1, GiveUpStep
      <3>2. CASE tx.kind # "buy" \/ k # r
        <4>1. /\ \A t \in late' : t.kind = "buy" /\ t.r = k => t \in late
              /\ late \subseteq late'
          BY <1>1, <1>4, <3>2
        <4> QED
          BY <1>0, <2>4, <3>0, <4>1, DropStep
      <3> QED
        BY <3>1, <3>2
    <2> QED
      BY <2>3, <2>5 DEF Inv
  <1> QED
    BY <1>2, <1>3, <1>4 DEF Outcome

\* The requests that send a transaction and wait for it in one step.
LEMMA Sends ==
    ASSUME Inv, NEW w \in Worker, TokenizeChain(w) \/ SubmitBuy(w)
    PROVE  /\ req[w] # Idle /\ UNCHANGED <<rowVars, sentHistory, pixVars>>
           /\ \E tx \in Tx, next \in PcName : Sender(tx, req[w], next) /\ Outcome(w, tx, next)
  <1> DEFINE Sent == \E tx \in Tx, next \in PcName : Sender(tx, req[w], next) /\ Outcome(w, tx, next)
  <1>0. ReqTyped /\ req[w] # Idle
    BY InvTyped DEF TokenizeChain, SubmitBuy, At, Idle
  <1>1. PICK r \in Key, h \in Carried(req[w].op) : req[w].r = r /\ req[w].h = h
    BY <1>0, RunningTyped
  <1>2. "store" \in PcName
    BY DEF PcName
  <1>3. ASSUME TokenizeChain(w) PROVE Sent /\ UNCHANGED <<rowVars, sentHistory, pixVars>>
    <2> DEFINE tx == [kind |-> "tokenize", r |-> req[w].r, h |-> xml_hash(req[w].r, req[w].h)]
    <2>1. h \in Document \cup {NoDocument} /\ req[w].op = "tokenize"
      BY <1>1, <1>3 DEF TokenizeChain, At, Carried
    <2>2. tx \in Tx
      BY <1>1, <2>1, ReceivableAssumption DEF Tx, xml_hash
    <2>3. Outcome(w, tx, "store") /\ UNCHANGED <<rowVars, sentHistory, pixVars>>
      BY <1>3 DEF TokenizeChain, invokeContract, Outcome
    <2>4. Sender(tx, req[w], "store")
      BY <1>3 DEF TokenizeChain, At, Sender
    <2> HIDE DEF tx
    <2> QED
      BY <1>2, <2>2, <2>3, <2>4
  <1>4. ASSUME SubmitBuy(w) PROVE Sent /\ UNCHANGED <<rowVars, sentHistory, pixVars>>
    <2> DEFINE tx == [kind |-> "buy", r |-> req[w].r,
                      h |-> IF req[w].h = NoDocument THEN ZeroHash ELSE req[w].h]
    <2>1. h \in Document \cup {NoDocument} /\ req[w].op = "submit"
      BY <1>1, <1>4 DEF SubmitBuy, At, Carried
    <2>2. tx \in Tx
      BY <1>1, <2>1, ReceivableAssumption DEF Tx
    <2>3. Outcome(w, tx, "store") /\ UNCHANGED <<rowVars, sentHistory, pixVars>>
      BY <1>4 DEF SubmitBuy, invokeContract, Outcome
    <2>4. Sender(tx, req[w], "store")
      BY <1>4 DEF SubmitBuy, At, Sender
    <2> HIDE DEF tx
    <2> QED
      BY <1>2, <2>2, <2>3, <2>4
  <1> HIDE DEF Sent
  <1> QED
    BY <1>0, <1>3, <1>4 DEF Sent

\* The steps of a request that call the chain.
LEMMA ChainRequests ==
    ASSUME Inv, NEW w \in Worker, TokenizeChain(w) \/ SubmitBuy(w)
    PROVE  Inv'
  BY Sends, SendStep

\* A request submits the transfer, or whatever the company signed.
LEMMA SubmitTransferStep ==
    ASSUME Inv, NEW w \in Worker, SubmitTransfer(w)
    PROVE  Inv'
  <1>0. /\ req[w] # Idle /\ req[w].op = "submit" /\ req[w].pc = "transfer"
        /\ "await" \in PcName /\ "buy" \in PcName
    BY DEF SubmitTransfer, At, Idle, PcName
  <1>1. PICK r \in Key : req[w].r = r
    BY <1>0, RunningEarned
  <1>2. /\ TypeInv /\ ReqTyped /\ ChainTyped /\ late \subseteq Tx /\ foreign \subseteq Key /\ resent \subseteq Key
        /\ payouts[r] \in Nat
    BY InvChain
  <1>3. transferTx(r) \in Tx
    BY ReceivableAssumption DEF transferTx, Tx
  <1>4. UNCHANGED <<rowVars, chainVars, pixVars>>
    BY DEF SubmitTransfer
  <1>5. ChainTyped' /\ nfe' = nfe /\ nft' = nft /\ payouts' = payouts
    BY <1>2, <1>4, ChainKept
  <1>6. CASE Finish(w) /\ UNCHANGED sentVars
    BY <1>4, <1>6, FinishStep
  <1>7. ASSUME NEW pc \in {"await", "buy"}, Goto(w, pc),
               \/ /\ transferTx(r) \in late /\ pc = "await"
                  /\ resent' = resent \cup {r} /\ late' = late /\ foreign' = foreign
               \/ /\ transferTx(r) \notin late /\ nfe[r].owner = Pme /\ pc = "await"
                  /\ late' = late \cup {transferTx(r)} /\ resent' = resent /\ foreign' = foreign
               \/ /\ foreign' = foreign \cup {r} /\ pc = "buy"
                  /\ late' = late /\ resent' = resent
        PROVE  Inv'
    <2>1. ReqTyped'
      BY <1>0, <1>2, <1>7, GotoTyped
    <2>2. /\ \A u \in Worker : u # w => req'[u] = req[u]
          /\ req'[w].op = "submit" /\ req'[w].r = r /\ req'[w].pc = pc
      BY <1>0, <1>1, <1>2, <1>7, GotoFields
    <2>3. TypeInv'
      <3>1. late' \subseteq Tx /\ foreign' \subseteq Key /\ resent' \subseteq Key
        BY <1>2, <1>3, <1>7
      <3> QED
        BY <1>2, <1>4, <1>5, <2>1, <3>1, ChainTypes
    <2>4. LifeInv(r)'
      <3>1. LifeInv(r)
        BY DEF Inv
      <3> QED
        BY <1>0, <1>1, <1>2, <1>4, <1>5, <1>7, <2>2, <3>1, TransferRequested
    <2>5. ASSUME NEW k \in Key, k # r PROVE LifeInv(k)'
      <3>1. /\ LifeInv(k) /\ late \subseteq late'
            /\ k \in foreign' <=> k \in foreign
            /\ k \in resent' <=> k \in resent
        BY <1>7, <2>5 DEF Inv
      <3>2. \A t \in late' : t.kind = "buy" => t \in late
        BY <1>7 DEF transferTx
      <3>3. \A u \in Worker : /\ registering(req'[u], k) => registering(req[u], k)
                              /\ assigning(req'[u], k) => assigning(req[u], k)
                              /\ awaiting(req'[u], k) => awaiting(req[u], k)
                              /\ buying(req'[u], k) => buying(req[u], k)
                              /\ storing(req'[u], k) => storing(req[u], k)
                              /\ selling(req'[u], k) => selling(req[u], k)
        BY <2>2, <2>5 DEF registering, assigning, awaiting, buying, storing, selling
      <3>4. nfe'[k] = nfe[k] /\ nft'[k] = nft[k] /\ payouts'[k] = payouts[k]
        BY <1>5
      <3> QED
        BY <1>4, <3>1, <3>2, <3>3, <3>4, DropStep
    <2> QED
      BY <2>3, <2>4, <2>5 DEF Inv
  <1> QED
    BY <1>1, <1>6, <1>7 DEF SubmitTransfer, sentHistory

\* A transaction takes effect, whoever waits for it.
LEMMA AppliedStep ==
    ASSUME Inv, NEW tx \in late, TransactionApplied(tx)
    PROVE  Inv'
  <1>0. TypeInv /\ ReqTyped /\ ChainTyped /\ late \subseteq Tx /\ tx \in Tx
    BY InvChain
  <1>1. PICK r \in Key : tx.r = r
    BY <1>0 DEF Tx
  <1>2. /\ late' = late \ {tx} /\ late' \subseteq late /\ Apply(tx)
        /\ UNCHANGED <<rowVars, sentHistory, pixVars, req>> /\ foreign' = foreign /\ resent' = resent
    BY DEF TransactionApplied, sentHistory
  <1>3. ReqTyped'
    BY <1>0, <1>2 DEF ReqTyped, CarriesTyped
  <1>4. ChainTyped'
    BY <1>0, <1>1, <1>2, ApplyEffect
  <1>5. TypeInv'
    BY <1>0, <1>2, <1>3, <1>4, InvChain, ChainTypes
  <1>6. ASSUME NEW k \in Key, k # r PROVE LifeInv(k)'
    <2>1. nfe'[k] = nfe[k] /\ nft'[k] = nft[k] /\ payouts'[k] = payouts[k]
      BY <1>0, <1>1, <1>2, <1>6, ApplyEffect
    <2>2. LifeInv(k) /\ (transferTx(k) \in late => transferTx(k) \in late')
      BY <1>1, <1>2, <1>6 DEF Inv, transferTx
    <2> QED
      BY <1>2, <2>1, <2>2, DropStep
  <1>7. LifeInv(r)'
    <2>0. LifeInv(r) /\ payouts[r] \in Nat
      BY InvChain DEF Inv
    <2>1. CASE tx.kind = "tokenize"
      <3>1. /\ nfe[r] = Unknown /\ nfe'[r] # Unknown
            /\ nfe'[r].status = "Active" /\ nfe'[r].owner = Pme /\ nft'[r] = Pme
            /\ payouts'[r] = payouts[r]
        BY <1>0, <1>1, <1>2, <2>1, ApplyEffect
      <3>2. \A u \in Worker : ~registering(req[u], r)
        BY <2>0, <3>1 DEF LifeInv, RegisteredOnce
      <3> QED
        BY <1>2, <2>0, <3>1, <3>2, RegisterStep
    <2>2. CASE tx.kind = "assign"
      <3>1. /\ nfe[r] # Unknown
            /\ nfe'[r].status = "Active" /\ nfe'[r].owner = Platform /\ nft'[r] = Platform
            /\ payouts'[r] = payouts[r]
        BY <1>0, <1>1, <1>2, <2>2, ApplyEffect
      <3>2. nfe'[r] # Unknown
        BY <3>1 DEF Unknown
      <3> QED
        BY <1>2, <2>0, <3>1, <3>2, TransferStep
    <2>3. CASE tx.kind = "buy"
      <3>1. nfe'[r] = nfe[r] /\ nft'[r] = nft[r] /\ payouts'[r] = payouts[r] + 1
        BY <1>0, <1>1, <1>2, <2>3, ApplyEffect
      <3> QED
        BY <1>1, <1>2, <2>0, <2>3, <3>1, PayStep
    <2> QED
      BY <1>0, <2>1, <2>2, <2>3 DEF Tx
  <1> QED
    BY <1>5, <1>6, <1>7 DEF Inv

\* A transaction fails or expires, and the requests that wait for it with it.
LEMMA DroppedStep ==
    ASSUME Inv, NEW tx \in late, TransactionDropped(tx)
    PROVE  Inv'
  <1>0. TypeInv /\ ReqTyped /\ ChainTyped /\ late \subseteq Tx /\ tx \in Tx
    BY InvChain
  <1>1. /\ late' = late \ {tx} /\ late' \subseteq late
        /\ UNCHANGED <<rowVars, chainVars, sentHistory, pixVars>> /\ foreign' = foreign /\ resent' = resent
    BY DEF TransactionDropped, sentHistory
  <1>2. /\ req' \in [Worker -> Request]
        /\ \A u \in Worker : req'[u] = IF awaits(u, tx) THEN Idle ELSE req[u]
    BY <1>0 DEF TransactionDropped, ReqTyped, Request
  <1>3. Idle.op = "idle"
    BY DEF Idle
  <1>4. ReqTyped'
    BY <1>0, <1>2, <1>3 DEF ReqTyped, CarriesTyped
  <1>5. ChainTyped' /\ nfe' = nfe /\ nft' = nft /\ payouts' = payouts
    BY <1>0, <1>1, ChainKept
  <1>6. TypeInv'
    BY <1>0, <1>1, <1>4, <1>5, InvChain, ChainTypes
  <1>7. ASSUME NEW k \in Key PROVE LifeInv(k)'
    <2>1. \A u \in Worker : /\ registering(req'[u], k) => registering(req[u], k)
                            /\ assigning(req'[u], k) => assigning(req[u], k)
                            /\ awaiting(req'[u], k) => awaiting(req[u], k) /\ ~awaits(u, tx)
                            /\ buying(req'[u], k) => buying(req[u], k)
                            /\ storing(req'[u], k) => storing(req[u], k)
                            /\ selling(req'[u], k) => selling(req[u], k)
      BY <1>2, <1>3 DEF registering, assigning, awaiting, buying, storing, selling
    <2>2. \A u \in Worker : awaiting(req[u], k) /\ ~awaits(u, tx) => tx # transferTx(k)
      BY DEF awaiting, awaits, At, transferTx
    <2>3. LifeInv(k) /\ nfe'[k] = nfe[k] /\ nft'[k] = nft[k] /\ payouts'[k] = payouts[k]
      BY <1>5 DEF Inv
    <2> QED
      BY <1>1, <2>1, <2>2, <2>3, DropStep
  <1> QED
    BY <1>6, <1>7 DEF Inv

----------------------------------------------------------------------------
(* The theorems.                                                           *)

\* Empty tables and an empty register satisfy the invariant.
LEMMA InitInv == Init => Inv
  <1> SUFFICES ASSUME Init PROVE Inv
    OBVIOUS
  <1>1. NfeTypeOK
    BY NfeInitInv DEF Init, NfeInv
  <1>2. TypeInv
    BY <1>1, FS_EmptySet, ReceivableAssumption
    DEF Init, TypeInv, ReceivablesTypeOK, CarriesTyped, Status, Order, Request, Idle
  <1>3. ASSUME NEW r \in Key PROVE LifeInv(r)
    <2>1. /\ nfe[r] = Unknown /\ payouts[r] = 0 /\ status[r] = "absent" /\ orders[r] = 0
          /\ investment[r] = "none" /\ collection[r] = <<>> /\ paid = {} /\ late = {}
          /\ \A w \in Worker : req[w].op = "idle"
      BY DEF Init, NfeInit, Idle
    <2>2. ~payoutLate(r) /\ ~rowBegun(r) /\ ~rowOffered(r)
      BY <2>1 DEF payoutLate, rowBegun, rowOffered
    <2>3. \A w \in Worker : /\ ~registering(req[w], r) /\ ~assigning(req[w], r) /\ ~selling(req[w], r)
                            /\ ~awaiting(req[w], r) /\ ~buying(req[w], r) /\ ~storing(req[w], r)
      BY <2>1 DEF registering, assigning, awaiting, buying, storing, selling
    <2>4. ~begun(r) /\ ~offered(r)
      BY <2>1, <2>2, <2>3 DEF begun, offered
    <2> QED
      BY <2>1, <2>2, <2>3, <2>4 DEF LifeInv, Titled, RegisteredOnce, PaidForTitle, PaidOnce, OfferedOnce, claiming
  <1> QED
    BY <1>2, <1>3 DEF Inv

\* Every step of the API, of the Pix service and of the chain.
LEMMA NextInv == Inv /\ [Next]_vars => Inv'
  <1> SUFFICES ASSUME Inv, [Next]_vars PROVE Inv'
    OBVIOUS
  <1>1. CASE UNCHANGED vars
    <2>1. ReqTyped /\ RowsTyped
      BY InvTyped
    <2>2. UNCHANGED <<rowVars, chainVars, sentVars, pixVars, req>>
      BY <1>1 DEF vars
    <2>3. RowsTyped'
      BY <2>1, <2>2 DEF RowsTyped, rowVars, pixVars
    <2>4. \A r \in Key : (rowBegun(r)' => begun(r)) /\ (rowOffered(r)' => offered(r))
      BY <2>2, RestingOn DEF begun, offered
    <2> QED
      BY <2>2, <2>3, <2>4, RowStep
  <1>2. ASSUME NEW r \in Key,
               create(r) \/ (\E d \in Document : createDocument(r, d)) \/ (\E n \in 1..MaxOrders : PayOrder(r, n))
        PROVE  Inv'
    BY <1>2, RowWrites
  <1>3. ASSUME NEW r \in Key, NEW w \in Worker,
               \/ approveReceivable(w, r) \/ rejectReceivable(w, r) \/ tokenize(w, r)
               \/ requestAssignment(w, r) \/ assign(w, r) \/ prepareAssignment(w, r) \/ invest(w, r)
               \/ retryCollectionOrder(w, r)
        PROVE  Inv'
    BY <1>3, MovesOnly, OfferedWrites
  <1>4. ASSUME NEW w \in Worker, Step(w) \/ Crash(w) PROVE Inv'
    <2>0. req[w].r \in Key
      <3>1. req[w] # Idle
        <4>1. req[w] # Idle \/ \E op \in OpName, pc \in PcName : At(w, op, pc)
          BY <1>4, Zenon DEF Step, Crash, ApproveValidate, TokenizeRead, TokenizeChain, TokenizeStore,
             RejectStore, RequestStore, AssignChain, submitAssignment, SubmitTransfer, AwaitTransfer, SubmitBuy,
             SubmitStore, createCollectionOrder, NameOrder, CallbackCollection, SettleChain, InvestReserve,
             InvestConsume, ensureCustodialWalletForUser, InvestCharge, InvestTransfer, OpName, PcName
        <4> QED
          BY <4>1 DEF At, Idle, OpName
      <3> QED
        BY <3>1, RunningEarned
    <2>1. CASE \/ TokenizeRead(w) \/ AssignChain(w) \/ submitAssignment(w)
               \/ InvestConsume(w) \/ ensureCustodialWalletForUser(w) \/ InvestTransfer(w)
               \/ AwaitTransfer(w) \/ SettleChain(w) \/ Crash(w)
      BY <2>0, <2>1, MovesOnly
    <2>2. CASE \/ ApproveValidate(w) \/ RejectStore(w) \/ TokenizeStore(w)
               \/ RequestStore(w) \/ SubmitStore(w)
      BY <2>2, StatusWrites
    <2>3. CASE \/ createCollectionOrder(w) \/ NameOrder(w) \/ CallbackCollection(w)
               \/ InvestReserve(w) \/ InvestCharge(w)
      BY <2>3, OfferedWrites
    <2>4. CASE TokenizeChain(w) \/ SubmitBuy(w)
      BY <2>4, ChainRequests
    <2>5. CASE SubmitTransfer(w)
      BY <2>5, SubmitTransferStep
    <2> QED
      BY <1>4, <2>1, <2>2, <2>3, <2>4, <2>5 DEF Step
  <1>5. ASSUME NEW w \in Worker, NEW e \in paid, processCollectionCallback(w, e) PROVE Inv'
    BY <1>5, OfferedWrites
  <1>6. ASSUME NEW tx \in late, TransactionApplied(tx) \/ TransactionDropped(tx) PROVE Inv'
    BY <1>6, AppliedStep, DroppedStep
  <1> QED
    BY <1>1, <1>2, <1>3, <1>4, <1>5, <1>6 DEF Next

\* The inductive invariant holds in every state of every behaviour.
LEMMA InvHolds == Spec => []Inv
  BY InitInv, NextInv, PTL DEF Spec

\* Rows, title, pool, transactions in flight and requests keep their shape.
THEOREM ReceivablesTypeCorrect == Spec => []ReceivablesTypeOK
  <1>1. Inv => ReceivablesTypeOK
    BY DEF Inv, TypeInv
  <1> QED
    BY <1>1, InvHolds, PTL

\* The pool pays only with the title at the platform for good, and at most once
\* for a receivable, although no transaction spans transfer_ownership,
\* buy_tokenized_invoice and the update of the row, requests overlap and stop
\* anywhere, and transactions take effect after everyone gave up on them.  The
\* first holds of receivables whose own transfer was submitted, the second of
\* those for which it was not submitted again while pending.
THEOREM PoolPaysOncePerTitle == Spec => []PaidOnceForTitle
  <1>1. Inv => PaidOnceForTitle
    <2> SUFFICES ASSUME Inv, NEW r \in Key, payouts[r] > 0
                 PROVE  /\ r \notin foreign => nfe[r].owner = Platform /\ nft[r] = Platform
                        /\ r \notin foreign \cup resent => payouts[r] = 1
      BY DEF PaidOnceForTitle
    <2>1. r \notin foreign => nfe[r].owner = Platform
      BY DEF Inv, LifeInv, PaidForTitle
    <2>2. nfe[r] # Unknown
      BY DEF Inv, LifeInv, RegisteredOnce, begun
    <2>3. r \notin foreign \cup resent => payouts[r] = 1
      BY DEF Inv, LifeInv, PaidOnce
    <2> QED
      BY <2>1, <2>2, <2>3 DEF Inv, LifeInv, Titled
  <1> QED
    BY <1>1, InvHolds, PTL

\* What investors are offered or sold, and what is collected, the pool has paid
\* for, although those handlers look at the database alone.
THEOREM OffersRestOnPayout == Spec => []OfferedOnlyIfPaid
  <1>1. Inv => OfferedOnlyIfPaid
    BY DEF OfferedOnlyIfPaid, Inv, LifeInv, OfferedOnce, offered, rowOffered
  <1> QED
    BY <1>1, InvHolds, PTL

\* Of the writes that could take a receivable off the market, the two that
\* follow a confirmed transaction, tokenized and active, never do: the row a
\* registration stores is one that nothing rests on yet.
THEOREM WithdrawnByStaleReadsAlone == Spec => WithdrawnOnlyByStaleRequest
  <1> DEFINE StaleWrite(r) ==
               \E w \in Worker :
                  /\ req[w] # Idle /\ req'[w] # req[w] /\ req[w].r = r
                  /\ <<req[w].op, req[w].pc>> \in {<<"tokenize", "validate">>, <<"reject", "store">>,
                                                   <<"request", "store">>}
             Withdrawn(r) == status[r] = "active" /\ status'[r] # "active"
  <1>1. Inv /\ [Next]_vars => [\A r \in Key : Withdrawn(r) => StaleWrite(r)]_vars
    <2> SUFFICES ASSUME Inv, Next, NEW r \in Key, status[r] = "active", status'[r] # "active"
                 PROVE  StaleWrite(r)
      BY DEF vars
    <2>0. ReqTyped /\ RowsTyped /\ rowBegun(r)
      BY InvTyped DEF rowBegun
    <2>1. \A u \in Worker : ~registering(req[u], r)
      BY <2>0 DEF Inv, LifeInv, RegisteredOnce, begun
    <2>2. status' # status
      OBVIOUS
    <2>3. ASSUME NEW k \in Key, create(k) PROVE FALSE
      BY <2>0, <2>3 DEF create, setStatus, RowsTyped
    <2>4. ASSUME NEW k \in Key,
                 \/ \E d \in Document : createDocument(k, d)
                 \/ \E n \in 1..MaxOrders : PayOrder(k, n)
                 \/ \E w \in Worker :
                      \/ approveReceivable(w, k) \/ rejectReceivable(w, k) \/ tokenize(w, k)
                      \/ requestAssignment(w, k) \/ assign(w, k) \/ prepareAssignment(w, k) \/ invest(w, k)
                      \/ retryCollectionOrder(w, k)
          PROVE  FALSE
      BY <2>2, <2>4 DEF createDocument, PayOrder, approveReceivable, rejectReceivable, tokenize,
         requestAssignment, assign, prepareAssignment, invest, retryCollectionOrder, rowVars
    <2>5. ASSUME NEW w \in Worker, NEW e \in paid, processCollectionCallback(w, e) PROVE FALSE
      BY <2>2, <2>5 DEF processCollectionCallback
    <2>6. ASSUME NEW tx \in late, TransactionApplied(tx) \/ TransactionDropped(tx) PROVE FALSE
      BY <2>2, <2>6 DEF TransactionApplied, TransactionDropped, rowVars
    <2>7. ASSUME NEW w \in Worker,
                 \/ TokenizeRead(w) \/ TokenizeChain(w) \/ AssignChain(w)
                 \/ submitAssignment(w) \/ SubmitTransfer(w) \/ AwaitTransfer(w) \/ SubmitBuy(w)
                 \/ createCollectionOrder(w) \/ NameOrder(w) \/ CallbackCollection(w) \/ SettleChain(w)
                 \/ InvestConsume(w) \/ ensureCustodialWalletForUser(w) \/ InvestCharge(w)
                 \/ InvestTransfer(w) \/ Crash(w)
          PROVE  FALSE
      BY <2>2, <2>7 DEF TokenizeRead, TokenizeChain, AssignChain, submitAssignment, SubmitTransfer, AwaitTransfer,
         SubmitBuy, createCollectionOrder, NameOrder, CallbackCollection, SettleChain, InvestConsume,
         ensureCustodialWalletForUser, InvestCharge, InvestTransfer, Crash, rowVars
    <2>8. ASSUME NEW w \in Worker, TokenizeStore(w) \/ SubmitStore(w) \/ InvestReserve(w) PROVE FALSE
      <3>1. req[w] # Idle
        BY <2>8 DEF TokenizeStore, SubmitStore, InvestReserve, At, Idle
      <3>2. PICK k \in Key : req[w].r = k
        BY <3>1, RunningEarned
      <3>3. k # r => status'[r] = status[r]
        BY <2>0, <2>8, <3>2 DEF TokenizeStore, SubmitStore, InvestReserve, setStatus, RowsTyped
      <3>4. k # r
        BY <2>0, <2>1, <2>8, <3>2
        DEF TokenizeStore, SubmitStore, InvestReserve, setStatus, RowsTyped, At, registering
      <3> QED
        BY <3>3, <3>4
    <2>9. ASSUME NEW w \in Worker, ApproveValidate(w) \/ RejectStore(w) \/ RequestStore(w)
          PROVE  StaleWrite(r)
      <3>1. req[w] # Idle
        BY <2>9 DEF ApproveValidate, RejectStore, RequestStore, At, Idle
      <3>2. PICK k \in Key : req[w].r = k
        BY <3>1, RunningEarned
      <3>3. k # r => status'[r] = status[r]
        BY <2>0, <2>9, <3>2 DEF ApproveValidate, RejectStore, RequestStore, setStatus, RowsTyped
      <3>4. <<req[w].op, req[w].pc>> \in {<<"tokenize", "validate">>, <<"reject", "store">>,
                                          <<"request", "store">>}
        BY <2>9 DEF ApproveValidate, RejectStore, RequestStore, At
      <3>5. ASSUME Goto(w, "read"), "read" # req[w].pc PROVE req'[w] # req[w]
        BY <2>0, <3>1, <3>5, GotoFields DEF PcName
      <3>6. Finish(w) => req'[w] # req[w]
        BY <2>0, <3>1, FinishTyped
      <3>7. req'[w] # req[w]
        BY <2>9, <3>5, <3>6 DEF ApproveValidate, RejectStore, RequestStore, At
      <3> QED
        BY <3>1, <3>2, <3>3, <3>4, <3>7
    <2> HIDE DEF StaleWrite
    <2> QED
      BY <2>3, <2>4, <2>5, <2>6, <2>7, <2>8, <2>9 DEF Next, Step
  <1> QED
    BY <1>1, InvHolds, PTL DEF Spec, WithdrawnOnlyByStaleRequest

\* A transaction on the register is a call of the contract.
LEMMA ApplyRefines ==
    ASSUME NEW tx \in Tx, Apply(tx)
    PROVE  NfeNext \/ UNCHANGED nfeVars
  <1>1. tx.r \in Key /\ tx.h \in Hash /\ Pme \in Address /\ Platform \in Address
    BY ReceivableAssumption DEF Tx, Address
  <1>2. CASE tokenize_nfe(tx.r, tx.h, Pme)
    BY <1>1, <1>2 DEF NfeNext
  <1>3. CASE transfer_ownership(tx.r, Platform, {Pme})
    BY <1>1, <1>3 DEF NfeNext
  <1> QED
    BY <1>2, <1>3 DEF Apply

\* The API drives the register as the contract allows: whatever is proved
\* about the contract holds of the titles of the receivables.
THEOREM ReceivablesRefineRegister == Spec => NfeSpec
  <1>1. Init => NfeInit
    BY DEF Init
  <1>2. Inv /\ [Next]_vars => [NfeNext]_nfeVars
    <2> SUFFICES ASSUME Inv, [Next]_vars PROVE NfeNext \/ UNCHANGED nfeVars
      OBVIOUS
    <2>0. ReqTyped /\ late \subseteq Tx
      BY InvTyped DEF Inv, TypeInv, ReceivablesTypeOK, Tx
    <2>1. CASE UNCHANGED vars
      BY <2>1 DEF vars, chainVars
    <2>2. ASSUME NEW k \in Key,
                 \/ create(k)
                 \/ \E d \in Document : createDocument(k, d)
                 \/ \E n \in 1..MaxOrders : PayOrder(k, n)
                 \/ \E w \in Worker :
                      \/ approveReceivable(w, k) \/ rejectReceivable(w, k) \/ tokenize(w, k)
                      \/ requestAssignment(w, k) \/ assign(w, k) \/ prepareAssignment(w, k) \/ invest(w, k)
                      \/ retryCollectionOrder(w, k)
          PROVE  UNCHANGED nfeVars
      BY <2>2 DEF create, createDocument, PayOrder, approveReceivable, rejectReceivable, tokenize,
         requestAssignment, assign, prepareAssignment, invest, retryCollectionOrder, chainVars
    <2>3. ASSUME NEW w \in Worker, NEW e \in paid, processCollectionCallback(w, e)
          PROVE  UNCHANGED nfeVars
      BY <2>3 DEF processCollectionCallback, chainVars
    <2>4. ASSUME NEW tx \in late, TransactionApplied(tx) \/ TransactionDropped(tx)
          PROVE  NfeNext \/ UNCHANGED nfeVars
      BY <2>0, <2>4, ApplyRefines DEF TransactionApplied, TransactionDropped, chainVars
    <2>5. ASSUME NEW w \in Worker,
                 \/ ApproveValidate(w) \/ TokenizeRead(w) \/ TokenizeStore(w) \/ RejectStore(w)
                 \/ RequestStore(w) \/ AssignChain(w) \/ submitAssignment(w) \/ SubmitStore(w)
                 \/ SubmitTransfer(w) \/ AwaitTransfer(w)
                 \/ createCollectionOrder(w) \/ NameOrder(w) \/ CallbackCollection(w) \/ SettleChain(w)
                 \/ InvestReserve(w) \/ InvestConsume(w) \/ ensureCustodialWalletForUser(w)
                 \/ InvestCharge(w) \/ InvestTransfer(w) \/ Crash(w)
          PROVE  UNCHANGED nfeVars
      BY <2>5 DEF ApproveValidate, TokenizeRead, TokenizeStore, RejectStore, RequestStore, AssignChain,
         submitAssignment, SubmitStore, SubmitTransfer, AwaitTransfer, createCollectionOrder, NameOrder,
         CallbackCollection, SettleChain,
         InvestReserve, InvestConsume, ensureCustodialWalletForUser, InvestCharge, InvestTransfer, Crash,
         chainVars
    <2>6. ASSUME NEW w \in Worker, TokenizeChain(w) \/ SubmitBuy(w)
          PROVE  NfeNext \/ UNCHANGED nfeVars
      BY <2>0, <2>6, Sends, ApplyRefines DEF Outcome, chainVars
    <2> QED
      BY <2>1, <2>2, <2>3, <2>4, <2>5, <2>6 DEF Next, Step
  <1> QED
    BY <1>1, <1>2, InvHolds, PTL DEF Spec, NfeSpec

----------------------------------------------------------------------------
(* Collections.  A payout that is confirmed to the request that ordered it is *)
(* one permission to bill the debtor: it is with that request until the row   *)
(* of the collection is made.                                                 *)

mayBill(q, r) == q.op = "submit" /\ q.pc \in {"store", "collect"} /\ q.r = r
billing(r) == {w \in Worker : mayBill(req[w], r)}

BillInv(r) ==
    /\ IsFiniteSet(billing(r))
    /\ Len(collection[r]) + Cardinality(billing(r)) <= payouts[r]

\* The numbers BillInv compares.
LEMMA BillNumbers ==
    ASSUME Inv, NEW r \in Key, BillInv(r)
    PROVE  Len(collection[r]) \in Nat /\ Cardinality(billing(r)) \in Nat /\ payouts[r] \in Nat
  BY InvTyped, InvChain, FS_CardinalityType DEF RowsTyped, BillInv

\* Nobody is given the permission, and no row is made.
LEMMA NoNewBill ==
    ASSUME Inv, NEW r \in Key, BillInv(r),
           Len(collection'[r]) = Len(collection[r]), payouts'[r] \in Nat, payouts'[r] >= payouts[r],
           \A u \in Worker : mayBill(req'[u], r) => mayBill(req[u], r)
    PROVE  BillInv(r)'
  <1>1. billing(r)' \subseteq billing(r)
    BY DEF billing
  <1>2. IsFiniteSet(billing(r)') /\ Cardinality(billing(r)') <= Cardinality(billing(r))
    BY <1>1, FS_Subset DEF BillInv
  <1>3. Cardinality(billing(r)') \in Nat
    BY <1>2, FS_CardinalityType
  <1>4. Len(collection'[r]) + Cardinality(billing(r)') <= payouts'[r]
    BY <1>2, <1>3, BillNumbers DEF BillInv
  <1> QED
    BY <1>2, <1>4 DEF BillInv

\* The pool pays, and w sees it.
LEMMA NewBill ==
    ASSUME Inv, NEW r \in Key, BillInv(r), NEW w \in Worker,
           collection' = collection, payouts'[r] = payouts[r] + 1,
           \A u \in Worker : mayBill(req'[u], r) => u = w \/ mayBill(req[u], r)
    PROVE  BillInv(r)'
  <1>1. billing(r)' \subseteq billing(r) \cup {w}
    BY DEF billing
  <1>2. IsFiniteSet(billing(r))
    BY DEF BillInv
  <1>3. /\ IsFiniteSet(billing(r) \cup {w})
        /\ \/ Cardinality(billing(r) \cup {w}) = Cardinality(billing(r))
           \/ Cardinality(billing(r) \cup {w}) = Cardinality(billing(r)) + 1
    BY <1>2, FS_AddElement
  <1>4. /\ IsFiniteSet(billing(r)') /\ Cardinality(billing(r)') <= Cardinality(billing(r) \cup {w})
        /\ Cardinality(billing(r)') \in Nat
    BY <1>1, <1>3, FS_Subset, FS_CardinalityType
  <1>5. Len(collection'[r]) + Cardinality(billing(r)') <= payouts'[r]
    BY <1>3, <1>4, BillNumbers DEF BillInv
  <1> QED
    BY <1>4, <1>5 DEF BillInv

\* The row is made, and the permission is used up.
LEMMA BillUsed ==
    ASSUME Inv, NEW r \in Key, BillInv(r), NEW w \in Worker, mayBill(req[w], r),
           Len(collection'[r]) = Len(collection[r]) + 1, payouts' = payouts,
           \A u \in Worker : mayBill(req'[u], r) => u # w /\ mayBill(req[u], r)
    PROVE  BillInv(r)'
  <1>1. billing(r)' \subseteq billing(r) \ {w} /\ w \in billing(r)
    BY DEF billing
  <1>2. IsFiniteSet(billing(r))
    BY DEF BillInv
  <1>3. IsFiniteSet(billing(r) \ {w}) /\ Cardinality(billing(r) \ {w}) = Cardinality(billing(r)) - 1
    BY <1>1, <1>2, FS_RemoveElement
  <1>4. /\ IsFiniteSet(billing(r)') /\ Cardinality(billing(r)') <= Cardinality(billing(r) \ {w})
        /\ Cardinality(billing(r)') \in Nat
    BY <1>1, <1>3, FS_Subset, FS_CardinalityType
  <1>5. Len(collection'[r]) + Cardinality(billing(r)') <= payouts'[r]
    BY <1>3, <1>4, BillNumbers DEF BillInv
  <1> QED
    BY <1>4, <1>5 DEF BillInv

\* What a request may become without being given the permission.
LEMMA OtherRequest ==
    ASSUME ReqTyped, RowsTyped, NEW w \in Worker, NEW r \in Key,
           \/ Finish(w)
           \/ req[w] # Idle /\ \E pc \in PcName \ {"store", "collect"} : Goto(w, pc)
           \/ req[w] # Idle /\ \E pc \in PcName \ {"store", "collect"}, h \in Carried(req[w].op) : Carry(w, pc, h)
           \/ At(w, "submit", "store") /\ Goto(w, "collect")
           \/ req[w] # Idle /\ req[w].op # "submit" /\ \E pc \in PcName : Goto(w, pc)
           \/ \E k \in Key, i \in Nat : createCollection(w, k, i)
           \/ \E op \in OpName, k \in Key, pc \in PcName : \E h \in Carried(op) :
                 (op = "submit" => pc = "sign") /\ Start(w, op, k, pc, h)
    PROVE  \A u \in Worker : mayBill(req'[u], r) => mayBill(req[u], r)
  <1>1. CASE Finish(w)
    BY <1>1, FinishTyped DEF Idle, mayBill
  <1>2. ASSUME req[w] # Idle, NEW pc \in PcName \ {"store", "collect"}, Goto(w, pc)
        PROVE  \A u \in Worker : mayBill(req'[u], r) => mayBill(req[u], r)
    BY <1>2, GotoFields DEF mayBill
  <1>3. ASSUME req[w] # Idle, NEW pc \in PcName \ {"store", "collect"}, NEW h \in Carried(req[w].op), Carry(w, pc, h)
        PROVE  \A u \in Worker : mayBill(req'[u], r) => mayBill(req[u], r)
    BY <1>3, GotoFields DEF mayBill
  <1>4. CASE At(w, "submit", "store") /\ Goto(w, "collect")
    <2>1. req[w] # Idle /\ "collect" \in PcName
      BY <1>4 DEF At, Idle, PcName
    <2> QED
      BY <1>4, <2>1, GotoFields DEF mayBill, At
  <1>5. ASSUME req[w] # Idle, req[w].op # "submit", NEW pc \in PcName, Goto(w, pc)
        PROVE  \A u \in Worker : mayBill(req'[u], r) => mayBill(req[u], r)
    BY <1>5, GotoFields DEF mayBill
  <1>6. ASSUME NEW k \in Key, NEW i \in Nat, createCollection(w, k, i)
        PROVE  \A u \in Worker : mayBill(req'[u], r) => mayBill(req[u], r)
    BY <1>6, OrderStep DEF mayBill
  <1>7. ASSUME NEW op \in OpName, NEW k \in Key, NEW pc \in PcName, NEW h \in Carried(op),
               op = "submit" => pc = "sign", Start(w, op, k, pc, h)
        PROVE  \A u \in Worker : mayBill(req'[u], r) => mayBill(req[u], r)
    <2>0. req' = [req EXCEPT ![w] = [op |-> op, r |-> k, pc |-> pc, h |-> h]]
      BY <1>7 DEF Start
    <2>1. /\ req'[w] = [op |-> op, r |-> k, pc |-> pc, h |-> h]
          /\ \A u \in Worker : u # w => req'[u] = req[u]
      BY <2>0 DEF ReqTyped
    <2> QED
      BY <1>7, <2>1 DEF mayBill
  <1> QED
    BY <1>1, <1>2, <1>3, <1>4, <1>5, <1>6, <1>7

\* Everything that neither pays nor bills.
LEMMA OtherStep ==
    ASSUME Inv, NEW r \in Key, BillInv(r),
           \/ \E k \in Key :
                \/ create(k)
                \/ \E d \in Document : createDocument(k, d)
                \/ \E n \in 1..MaxOrders : PayOrder(k, n)
                \/ \E w \in Worker :
                     \/ approveReceivable(w, k) \/ rejectReceivable(w, k) \/ tokenize(w, k)
                     \/ requestAssignment(w, k) \/ assign(w, k) \/ prepareAssignment(w, k) \/ invest(w, k)
                     \/ retryCollectionOrder(w, k)
           \/ \E w \in Worker :
                \/ ApproveValidate(w) \/ TokenizeRead(w) \/ TokenizeStore(w) \/ RejectStore(w)
                \/ RequestStore(w) \/ AssignChain(w) \/ submitAssignment(w) \/ SubmitTransfer(w)
                \/ AwaitTransfer(w) \/ SubmitStore(w) \/ NameOrder(w) \/ CallbackCollection(w) \/ SettleChain(w)
                \/ InvestReserve(w) \/ InvestConsume(w) \/ ensureCustodialWalletForUser(w)
                \/ InvestCharge(w) \/ InvestTransfer(w) \/ Crash(w)
                \/ \E e \in paid : processCollectionCallback(w, e)
    PROVE  BillInv(r)'
  <1>0. /\ ReqTyped /\ RowsTyped /\ payouts[r] \in Nat
        /\ \A k \in Key : document[k] \in Document \cup {NoDocument} /\ collection[k] \in Seq(CollectionRow)
    BY InvTyped, InvChain DEF RowsTyped
  <1>1. ASSUME UNCHANGED <<collection, chainVars>>,
               \A u \in Worker : mayBill(req'[u], r) => mayBill(req[u], r)
        PROVE  BillInv(r)'
    BY <1>0, <1>1, NoNewBill DEF chainVars, poolVars
  <1>2. ASSUME NEW k \in Key,
               \/ create(k)
               \/ \E d \in Document : createDocument(k, d)
               \/ \E n \in 1..MaxOrders : PayOrder(k, n)
        PROVE  BillInv(r)'
    BY <1>1, <1>2 DEF create, createDocument, PayOrder, rowVars
  <1>3. ASSUME NEW k \in Key, NEW w \in Worker,
               \/ approveReceivable(w, k) \/ rejectReceivable(w, k) \/ tokenize(w, k)
               \/ requestAssignment(w, k) \/ assign(w, k) \/ prepareAssignment(w, k) \/ invest(w, k)
        PROVE  BillInv(r)'
    <2>1. \E op \in OpName, pc \in PcName : \E h \in Carried(op) :
             (op = "submit" => pc = "sign") /\ Start(w, op, k, pc, h)
      <3>1. NoDocument \in Carried("tokenize") /\ document[k] \in Carried("tokenize") /\ NoDocument \in Carried("submit")
        BY <1>0 DEF Carried
      <3>2. \A op \in {"reject", "request", "assign", "invest"} : NoDocument \in Carried(op)
        BY DEF Carried, Anything
      <3>3. /\ {"tokenize", "reject", "request", "assign", "submit", "invest"} \subseteq OpName
            /\ {"validate", "store", "chain", "sign", "reserve"} \subseteq PcName
        BY DEF OpName, PcName
      <3> QED
        BY <1>3, <3>1, <3>2, <3>3 DEF approveReceivable, rejectReceivable, tokenize, requestAssignment,
           assign, prepareAssignment, invest
    <2>2. \A u \in Worker : mayBill(req'[u], r) => mayBill(req[u], r)
      BY <1>0, <2>1, OtherRequest
    <2>3. UNCHANGED <<collection, chainVars>>
      BY <1>3 DEF approveReceivable, rejectReceivable, tokenize, requestAssignment,
         assign, prepareAssignment, invest, rowVars
    <2> QED
      BY <1>1, <2>2, <2>3
  <1>4. ASSUME NEW k \in Key, NEW w \in Worker, retryCollectionOrder(w, k) PROVE BillInv(r)'
    <2>1. \E i \in Nat : createCollection(w, k, i)
      BY <1>0, <1>4 DEF retryCollectionOrder
    <2>2. UNCHANGED <<collection, chainVars>>
      BY <1>4 DEF retryCollectionOrder, rowVars
    <2> QED
      BY <1>0, <1>1, <2>1, <2>2, OtherRequest
  <1>5. ASSUME NEW w \in Worker,
               \/ TokenizeStore(w) \/ RejectStore(w) \/ RequestStore(w) \/ AssignChain(w)
               \/ SettleChain(w) \/ InvestTransfer(w) \/ Crash(w)
        PROVE  BillInv(r)'
    <2>1. Finish(w) /\ UNCHANGED <<collection, chainVars>>
      BY <1>5 DEF TokenizeStore, RejectStore, RequestStore, AssignChain, SettleChain,
         InvestTransfer, Crash, rowVars
    <2> QED
      BY <1>0, <1>1, <2>1, OtherRequest
  <1>6. ASSUME NEW w \in Worker,
               \/ ApproveValidate(w) \/ InvestReserve(w) \/ InvestConsume(w)
               \/ ensureCustodialWalletForUser(w) \/ InvestCharge(w) \/ AwaitTransfer(w) \/ SubmitTransfer(w)
        PROVE  BillInv(r)'
    <2>1. req[w] # Idle
      BY <1>6 DEF ApproveValidate, InvestReserve, InvestConsume, ensureCustodialWalletForUser,
         InvestCharge, AwaitTransfer, SubmitTransfer, At, Idle
    <2>2. Finish(w) \/ \E pc \in PcName \ {"store", "collect"} : Goto(w, pc)
      <3>1. {"read", "consume", "wallet", "charge", "chain", "buy", "await"} \subseteq PcName \ {"store", "collect"}
        BY DEF PcName
      <3> QED
        BY <1>6, <3>1 DEF ApproveValidate, InvestReserve, InvestConsume, ensureCustodialWalletForUser,
           InvestCharge, AwaitTransfer, SubmitTransfer
    <2>3. UNCHANGED <<collection, chainVars>>
      BY <1>6 DEF ApproveValidate, InvestReserve, InvestConsume, ensureCustodialWalletForUser,
         InvestCharge, AwaitTransfer, SubmitTransfer, rowVars
    <2> QED
      BY <1>0, <1>1, <2>1, <2>2, <2>3, OtherRequest
  <1>7. ASSUME NEW w \in Worker, TokenizeRead(w) \/ submitAssignment(w) PROVE BillInv(r)'
    <2>1. req[w] # Idle /\ req[w].op \in {"tokenize", "submit"}
      BY <1>7 DEF TokenizeRead, submitAssignment, At, Idle
    <2>2. req[w].r \in Key
      BY <1>0, <2>1, RunningTyped
    <2>3. /\ document[req[w].r] \in Carried(req[w].op)
          /\ "chain" \in PcName \ {"store", "collect"} /\ "transfer" \in PcName \ {"store", "collect"}
      BY <1>0, <2>1, <2>2 DEF Carried, PcName
    <2>4. \/ Finish(w) \/ Carry(w, "chain", document[req[w].r])
          \/ Carry(w, "transfer", document[req[w].r])
      BY <1>7 DEF TokenizeRead, submitAssignment, Carry
    <2>5. UNCHANGED <<collection, chainVars>>
      BY <1>7 DEF TokenizeRead, submitAssignment, rowVars
    <2>6. \A u \in Worker : mayBill(req'[u], r) => mayBill(req[u], r)
      BY <1>0, <2>1, <2>3, <2>4, OtherRequest
    <2> QED
      BY <1>1, <2>5, <2>6
  <1>8. ASSUME NEW w \in Worker, SubmitStore(w) PROVE BillInv(r)'
    <2>1. At(w, "submit", "store") /\ Goto(w, "collect") /\ UNCHANGED <<collection, chainVars>>
      BY <1>8 DEF SubmitStore
    <2> QED
      BY <1>0, <1>1, <2>1, OtherRequest
  <1>9. ASSUME NEW w \in Worker, NEW e \in paid, processCollectionCallback(w, e) PROVE BillInv(r)'
    <2>1. e \in Event
      BY <1>0 DEF RowsTyped
    <2>2. PICK k \in Key, n \in 1..MaxOrders : e[1] = k /\ e[2] = n
      BY <2>1 DEF Event
    <2>3. n \in Carried("settle") /\ "settle" \in OpName /\ "collection" \in PcName
      BY ReceivableAssumption DEF Carried, Order, OpName, PcName
    <2>4. Start(w, "settle", k, "collection", n) /\ UNCHANGED <<collection, chainVars>>
      BY <1>9, <2>2 DEF processCollectionCallback
    <2>5. \A u \in Worker : mayBill(req'[u], r) => mayBill(req[u], r)
      BY <1>0, <2>3, <2>4, OtherRequest
    <2> QED
      BY <1>1, <2>4, <2>5
  <1>10. ASSUME NEW w \in Worker, NameOrder(w) \/ CallbackCollection(w) PROVE BillInv(r)'
    <2>1. At(w, "collect", "name") \/ At(w, "settle", "collection")
      BY <1>10, Zenon DEF NameOrder, CallbackCollection
    <2>2. req[w] # Idle /\ req[w].op \in {"collect", "settle"} /\ "chain" \in PcName
      BY <2>1 DEF At, Idle, PcName
    <2>3. PICK k \in Key : req[w].r = k
      BY <2>2, RunningEarned
    <2>4. \A u \in Worker : mayBill(req'[u], r) => mayBill(req[u], r)
      <3>1. Finish(w) \/ Goto(w, "chain")
        BY <1>10, Zenon DEF NameOrder, CallbackCollection
      <3> QED
        BY <1>0, <2>2, <3>1, OtherRequest
    <2>5. collection' \in [Key -> Seq(CollectionRow)] /\ Len(collection'[r]) = Len(collection[r])
      <3>1. CASE NameOrder(w)
        <4>1. req[w].op = "collect"
          BY <3>1 DEF NameOrder, At
        <4>2. req[w].h[1] \in Nat /\ req[w].h[2] \in Order
          BY <1>0, <2>2, <4>1, RunningTyped DEF Carried
        <4>3. collection' = [collection EXCEPT ![k][req[w].h[1]].order = req[w].h[2]]
          BY <2>3, <3>1 DEF NameOrder
        <4> QED
          BY <1>0, <4>2, <4>3, OneKept
      <3>2. CASE CallbackCollection(w)
        <4>1. collection' = [collection EXCEPT ![k] = [i \in DOMAIN @ |-> paidIf(@[i], req[w].h)]]
          BY <2>3, <3>2 DEF CallbackCollection
        <4> QED
          BY <1>0, <4>1, OneKept
      <3> QED
        BY <1>10, <3>1, <3>2
    <2>6. payouts' = payouts
      BY <1>10 DEF NameOrder, CallbackCollection, chainVars, poolVars
    <2> QED
      BY <1>0, <2>4, <2>5, <2>6, NoNewBill
  <1> QED
    BY <1>2, <1>3, <1>4, <1>5, <1>6, <1>7, <1>8, <1>9, <1>10

\* The debtor is billed: a row is made by a request that saw its payout.
LEMMA BillStep ==
    ASSUME Inv, NEW r \in Key, BillInv(r), NEW w \in Worker, createCollectionOrder(w)
    PROVE  BillInv(r)'
  <1>0. ReqTyped /\ RowsTyped /\ payouts[r] \in Nat /\ At(w, "submit", "collect")
    BY InvTyped, InvChain DEF createCollectionOrder
  <1>1. req[w] # Idle /\ req[w].op = "submit" /\ req[w].pc = "collect"
    BY <1>0 DEF At, Idle
  <1>2. PICK k \in Key : req[w].r = k
    BY <1>1, RunningEarned
  <1>3. /\ createCollection(w, k, Len(collection[k]) + 1) /\ payouts' = payouts
        /\ collection' = [collection EXCEPT ![k] = Append(@, [status |-> "pending_payment", order |-> 0])]
    BY <1>2 DEF createCollectionOrder, chainVars, poolVars
  <1>4. collection \in [Key -> Seq(CollectionRow)] /\ Len(collection[k]) + 1 \in Nat
    BY <1>0 DEF RowsTyped
  <1>5. /\ \A u \in Worker : u # w => req'[u] = req[u]
        /\ req'[w].op # "idle" => req'[w].op = "collect"
    BY <1>0, <1>3, <1>4, OrderStep
  <1>6. \A u \in Worker : mayBill(req'[u], r) => u # w /\ mayBill(req[u], r)
    BY <1>5 DEF mayBill
  <1>7. CASE k = r
    <2>1. collection[r] \in Seq(CollectionRow)
      BY <1>4
    <2>2. collection'[r] = Append(collection[r], [status |-> "pending_payment", order |-> 0])
      BY <1>3, <1>4, <1>7
    <2>3. Len(collection'[r]) = Len(collection[r]) + 1
      BY <2>1, <2>2
    <2>4. mayBill(req[w], r)
      BY <1>1, <1>2, <1>7 DEF mayBill
    <2> QED
      BY <1>3, <1>6, <2>3, <2>4, BillUsed
  <1>8. CASE k # r
    <2>1. Len(collection'[r]) = Len(collection[r])
      BY <1>3, <1>4, <1>8
    <2> QED
      BY <1>0, <1>3, <1>6, <2>1, NoNewBill
  <1> QED
    BY <1>7, <1>8

\* Payouts only grow.
LEMMA ApplyPays ==
    ASSUME Inv, NEW tx \in Tx, Apply(tx), NEW r \in Key
    PROVE  /\ payouts'[r] \in Nat /\ payouts'[r] >= payouts[r]
           /\ tx.kind = "buy" /\ tx.r = r => payouts'[r] = payouts[r] + 1
  <1>1. payouts \in [Key -> Nat] /\ tx.r \in Key
    BY DEF Inv, TypeInv, ReceivablesTypeOK, Tx
  <1> QED
    BY <1>1 DEF Apply, buy, poolVars

\* A request and its transaction.
LEMMA SendBills ==
    ASSUME Inv, NEW r \in Key, BillInv(r), NEW w \in Worker, req[w] # Idle,
           NEW tx \in Tx, NEW next \in PcName, Sender(tx, req[w], next), Outcome(w, tx, next),
           UNCHANGED rowVars
    PROVE  BillInv(r)'
  <1>0. ReqTyped /\ RowsTyped /\ collection' = collection /\ payouts[r] \in Nat
    BY InvTyped, InvChain DEF rowVars
  <1>1. CASE Finish(w) /\ UNCHANGED chainVars
    <2>1. \A u \in Worker : mayBill(req'[u], r) => mayBill(req[u], r)
      BY <1>0, <1>1, OtherRequest
    <2> QED
      BY <1>0, <1>1, <2>1, NoNewBill DEF chainVars, poolVars
  <1>2. CASE Apply(tx) /\ Goto(w, next)
    <2>1. /\ payouts'[r] \in Nat /\ payouts'[r] >= payouts[r]
          /\ tx.kind = "buy" /\ tx.r = r => payouts'[r] = payouts[r] + 1
      BY <1>2, ApplyPays
    <2>2. /\ req'[w].op = req[w].op /\ req'[w].r = req[w].r
          /\ \A u \in Worker : u # w => req'[u] = req[u]
      BY <1>0, <1>2, GotoFields
    <2>3. CASE tx.kind = "buy" /\ tx.r = r
      BY <1>0, <2>1, <2>2, <2>3, NewBill
    <2>4. CASE ~(tx.kind = "buy" /\ tx.r = r)
      <3>1. \A u \in Worker : mayBill(req'[u], r) => mayBill(req[u], r)
        BY <2>2, <2>4 DEF Sender, mayBill
      <3> QED
        BY <1>0, <2>1, <3>1, NoNewBill
    <2> QED
      BY <2>3, <2>4
  <1> QED
    BY <1>1, <1>2 DEF Outcome

\* A permission to bill is neither copied nor made up.
LEMMA BillKept ==
    ASSUME Inv, NEW r \in Key, BillInv(r), [Next]_vars
    PROVE  BillInv(r)'
  <1>0. ReqTyped /\ RowsTyped /\ late \subseteq Tx /\ payouts[r] \in Nat
    BY InvTyped, InvChain
  <1>1. CASE UNCHANGED vars
    BY <1>0, <1>1, NoNewBill DEF vars, rowVars, chainVars, poolVars
  <1>2. ASSUME NEW w \in Worker, TokenizeChain(w) \/ SubmitBuy(w) PROVE BillInv(r)'
    BY <1>2, Sends, SendBills
  <1>3. ASSUME NEW tx \in late, TransactionApplied(tx) PROVE BillInv(r)'
    <2>1. tx \in Tx /\ req' = req /\ collection' = collection /\ Apply(tx)
      BY <1>0, <1>3 DEF TransactionApplied, rowVars
    <2> QED
      BY <2>1, ApplyPays, NoNewBill
  <1>4. ASSUME NEW tx \in late, TransactionDropped(tx) PROVE BillInv(r)'
    <2>1. collection' = collection /\ payouts' = payouts /\ Idle.op = "idle"
      BY <1>4 DEF TransactionDropped, rowVars, chainVars, poolVars, Idle
    <2>2. \A u \in Worker : req'[u] = Idle \/ req'[u] = req[u]
      BY <1>4 DEF TransactionDropped
    <2>3. \A u \in Worker : mayBill(req'[u], r) => mayBill(req[u], r)
      BY <2>1, <2>2 DEF mayBill
    <2> QED
      BY <1>0, <2>1, <2>3, NoNewBill
  <1>5. ASSUME NEW w \in Worker, createCollectionOrder(w) PROVE BillInv(r)'
    BY <1>5, BillStep
  <1>6. ASSUME NEW k \in Key,
               \/ create(k)
               \/ \E d \in Document : createDocument(k, d)
               \/ \E n \in 1..MaxOrders : PayOrder(k, n)
               \/ \E w \in Worker :
                    \/ approveReceivable(w, k) \/ rejectReceivable(w, k) \/ tokenize(w, k)
                    \/ requestAssignment(w, k) \/ assign(w, k) \/ prepareAssignment(w, k) \/ invest(w, k)
                    \/ retryCollectionOrder(w, k)
        PROVE  BillInv(r)'
    BY <1>6, OtherStep
  <1>7. ASSUME NEW w \in Worker,
               \/ ApproveValidate(w) \/ TokenizeRead(w) \/ TokenizeStore(w) \/ RejectStore(w)
               \/ RequestStore(w) \/ AssignChain(w) \/ submitAssignment(w) \/ SubmitTransfer(w)
               \/ AwaitTransfer(w) \/ SubmitStore(w) \/ NameOrder(w) \/ CallbackCollection(w) \/ SettleChain(w)
               \/ InvestReserve(w) \/ InvestConsume(w) \/ ensureCustodialWalletForUser(w)
               \/ InvestCharge(w) \/ InvestTransfer(w) \/ Crash(w)
               \/ \E e \in paid : processCollectionCallback(w, e)
        PROVE  BillInv(r)'
    BY <1>7, OtherStep
  <1> QED
    BY <1>1, <1>2, <1>3, <1>4, <1>5, <1>6, <1>7 DEF Next, Step

\* Every collection rests on a payout of its own, although createCollectionOrder
\* checks nothing, the same transfer may be confirmed to several requests, and
\* collections are retried and paid in any order.
THEOREM CollectionsRestOnPayouts == Spec => []BilledOncePerPayout
  <1> DEFINE Bills == \A r \in Key : BillInv(r)
  <1>1. Init => Bills
    <2> SUFFICES ASSUME Init, NEW r \in Key PROVE BillInv(r)
      OBVIOUS
    <2>1. billing(r) = {} /\ collection[r] = <<>> /\ payouts[r] = 0
      BY DEF Init, billing, mayBill, Idle
    <2> QED
      BY <2>1, FS_EmptySet DEF BillInv
  <1>2. Inv /\ Bills /\ [Next]_vars => Bills'
    BY BillKept
  <1>3. Inv /\ Bills => BilledOncePerPayout
    <2> SUFFICES ASSUME Inv, NEW r \in Key, BillInv(r) PROVE Len(collection[r]) <= payouts[r]
      BY DEF BilledOncePerPayout
    <2> QED
      BY BillNumbers DEF BillInv
  <1> QED
    BY <1>1, <1>2, <1>3, InvHolds, PTL DEF Spec
=============================================================================
