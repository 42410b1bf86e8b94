---------------------------- MODULE Transactions ----------------------------
(***************************************************************************)
(* Money in and out of an investor's wallet: a Transaction row is written  *)
(* by Pix callbacks (PixCallbacks), by operators who approve deposits by   *)
(* hand, by the investor who reports a payment, and by the two dialogs     *)
(* that have the wallet sign: FinalizeAssignmentModal (BRLT into the pool) *)
(* and WithdrawalDrawer (burn BRLT, then Pix Out).                         *)
(*                                                                         *)
(* Every amount is one unit.  The wallet is a Stellar account: a signed    *)
(* transaction carries the sequence number that was current when it was    *)
(* built and is valid only while it still is.  A transaction whose         *)
(* confirmation is given up on stays valid until it is applied or expires. *)
(***************************************************************************)
EXTENDS PixCallbacks, Totals

CONSTANTS Tab,           \* dialogs of the investor and requests they post, repeated ones included
          Operator,      \* back-office users with a request in flight
          MaxCallbacks,  \* bound: callbacks the Pix service sends
          MaxApprovals,  \* bound: approvals operators start
          MaxSeq         \* bound: transactions of the wallet, none is built beyond

ASSUME TransactionsAssumption ==
    /\ Deposit \cap Withdrawal = {} /\ Tab \cap Operator = {}
    /\ {MaxCallbacks, MaxApprovals, MaxSeq} \subseteq Nat
    /\ IsFiniteSet(Deposit)

VARIABLES brlt,        \* BRLT balance of the wallet
          seq,         \* its sequence number
          pooled,      \* history: pool deposits applied for each transaction
          burned,      \* history: sequence numbers of the burns applied
          applied,     \* history: transactions of the wallet applied
          burnOf,      \* Transaction.txHash of a withdrawal: its burn, 0 if null;
                       \* history: where the row has it from
          late,        \* signed transactions sent and given up on
          approvals, operatorMints, \* history, per deposit
          tab, operator \* dialogs and back-office requests in progress

walletVars == <<brlt, seq, pooled, burned, applied, late>>
backOfficeVars == <<approvals, operatorMints, operator>>
vars == <<apiVars, walletVars, backOfficeVars, burnOf, tab>>

Transaction == Deposit \cup Withdrawal
Closed == [dialog |-> "closed"]
Free == [op |-> "free"]

Init ==
    /\ ApiInit
    /\ brlt = 0 /\ seq = 1 /\ burned = {} /\ applied = {} /\ late = {}
    /\ pooled = [d \in Deposit |-> 0]
    /\ burnOf = [o \in Withdrawal |-> [tx |-> 0, from |-> "none"]]
    /\ approvals = [d \in Deposit |-> 0] /\ operatorMints = [d \in Deposit |-> 0]
    /\ tab = [t \in Tab |-> Closed] /\ operator = [p \in Operator |-> Free]

setStatus(o, s) == transaction' = [transaction EXCEPT ![o] = s]

----------------------------------------------------------------------------
(* Callbacks of the Pix service, about deposits; PixFlow has those about    *)
(* withdrawals, which touch neither the wallet nor the deposits.           *)

\* Any order, any number of callbacks per order: what PixFlow shows to happen.
Receive(o, s) ==
    LET n == Cardinality(webhookEvent) IN
    /\ n < MaxCallbacks
    /\ transaction[o] # "NONE"
    /\ persistEvent([id |-> <<o, s, n>>, order |-> o, status |-> s])
    /\ UNCHANGED <<transaction, pixOrderId, mintLog, mintFailed>>
    /\ UNCHANGED <<walletVars, backOfficeVars, burnOf, tab>>

Handle(cb) ==
    /\ \/ HandlerStep(cb) /\ brlt' = brlt + 1
       \/ HandlerReturn(cb) /\ UNCHANGED brlt
       \/ handlerCrash(cb) /\ UNCHANGED brlt
    /\ UNCHANGED <<seq, pooled, burned, applied, late, backOfficeVars, burnOf, tab>>

----------------------------------------------------------------------------
(* The back office.                                                        *)

\* admin.createDeposit makes the row without a Pix order.
createDeposit(o) == createDepositOrder(o)

NewDeposit(o) ==
    /\ createDeposit(o)
    /\ UNCHANGED <<walletVars, backOfficeVars, burnOf, tab>>

\* PENDING is the default of the column; no code of the API leaves it.
awaitsApproval(o) == transaction[o] \in {"PENDING", "PAYMENT_SUBMITTED"}

\* No withdrawal awaits approval, so the branch that takes shares out of the
\* pool is never reached.
approveTransaction(p, o, decision) ==
    /\ operator[p] = Free /\ awaitsApproval(o)
    /\ approvals[o] < MaxApprovals
    /\ approvals' = [approvals EXCEPT ![o] = @ + (IF decision = "APPROVED" THEN 1 ELSE 0)]
    /\ operator' = [operator EXCEPT ![p] =
                       [op |-> IF decision = "APPROVED" THEN "mint" ELSE "reject", o |-> o]]
    /\ UNCHANGED <<apiVars, walletVars, operatorMints, burnOf, tab>>

RejectStore(p) ==
    /\ operator[p].op = "reject"
    /\ setStatus(operator[p].o, "REJECTED")
    /\ operator' = [operator EXCEPT ![p] = Free]
    /\ UNCHANGED <<pixOrderId, webhookEvent, handling, mintLog, mintFailed>>
    /\ UNCHANGED <<walletVars, approvals, operatorMints, burnOf, tab>>

\* Faulty variant: a mint that was not confirmed in time is sent once more.
ApproveMintRepeated(p) ==
    /\ operator[p].op = "mint"
    /\ operatorMints' = [operatorMints EXCEPT ![operator[p].o] = @ + 2]
    /\ brlt' = brlt + 2
    /\ operator' = [operator EXCEPT ![p].op = "store"]
    /\ UNCHANGED <<apiVars, seq, pooled, burned, applied, late, approvals, burnOf, tab>>

\* stellar.mintBrlt included
ApproveMint(p) ==
    /\ operator[p].op = "mint"
    /\ operatorMints' = [operatorMints EXCEPT ![operator[p].o] = @ + 1]
    /\ brlt' = brlt + 1
    /\ operator' = [operator EXCEPT ![p].op = "store"]
    /\ UNCHANGED <<apiVars, seq, pooled, burned, applied, late, approvals, burnOf, tab>>

ApproveStore(p) ==
    /\ operator[p].op = "store"
    /\ setStatus(operator[p].o, "APPROVED")
    /\ operator' = [operator EXCEPT ![p] = Free]
    /\ UNCHANGED <<pixOrderId, webhookEvent, handling, mintLog, mintFailed>>
    /\ UNCHANGED <<walletVars, approvals, operatorMints, burnOf, tab>>

\* No wallet, mintBrlt failed or timed out, or the process stopped.
ApproveFails(p) ==
    /\ operator[p] # Free
    /\ operator' = [operator EXCEPT ![p] = Free]
    /\ UNCHANGED <<apiVars, walletVars, approvals, operatorMints, burnOf, tab>>

----------------------------------------------------------------------------
(* The investor's dialogs.                                                 *)

Open(t, dialog, o, pc) ==
    tab' = [tab EXCEPT ![t] = [dialog |-> dialog, o |-> o, pc |-> pc, seq |-> seq]]
At(t, dialog, pc) == tab[t].dialog = dialog /\ tab[t].pc = pc
Goto(t, pc) == tab' = [tab EXCEPT ![t].pc = pc]
Close(t) == tab' = [tab EXCEPT ![t] = Closed]

\* DepositModal, "I have already transferred": markAsPaid reads, then writes.
markAsPaid(t, o) ==
    /\ tab[t] = Closed /\ transaction[o] = "PENDING_PAYMENT"
    /\ Open(t, "notify", o, "store")
    /\ UNCHANGED <<apiVars, walletVars, backOfficeVars, burnOf>>

MarkAsPaidStore(t) ==
    /\ At(t, "notify", "store")
    /\ setStatus(tab[t].o, "PAYMENT_SUBMITTED")
    /\ Close(t)
    /\ UNCHANGED <<pixOrderId, webhookEvent, handling, mintLog, mintFailed>>
    /\ UNCHANGED <<walletVars, backOfficeVars, burnOf>>

\* What the wallet signs: the allowance is not used by the pool's transfer.
needsBalance(kind) == kind \in {"deposit", "burn"}
loadApprovedDeposit(o) == o \in Deposit => transaction[o] = "APPROVED"

\* FinalizeAssignmentModal, and its "try again", start from the allowance.
handleFinalize(t, o) ==
    /\ tab[t] = Closed /\ seq <= MaxSeq
    /\ loadApprovedDeposit(o)
    /\ Open(t, "finalize", o, "approve")
    /\ UNCHANGED <<apiVars, walletVars, backOfficeVars, burnOf>>

\* WithdrawalDrawer, "Resgatar": buildWithdrawalTx simulates the burn; o is the
\* id the row is going to have.
handleWithdraw(t, o) ==
    /\ tab[t] = Closed /\ brlt > 0 /\ seq <= MaxSeq
    /\ transaction[o] = "NONE" /\ \A u \in Tab : tab[u] # Closed => tab[u].o # o
    /\ Open(t, "withdraw", o, "burn")
    /\ UNCHANGED <<apiVars, walletVars, backOfficeVars, burnOf>>

\* The dialog ends in its error step and leads back to its start.
DialogFails(t) ==
    /\ tab[t] # Closed
    /\ Close(t)
    /\ UNCHANGED <<apiVars, walletVars, backOfficeVars, burnOf>>

\* buildDepositStage, for the deposit: checked and simulated, then signed.
buildDepositStage(t) ==
    /\ At(t, "finalize", "deposit_build")
    /\ loadApprovedDeposit(tab[t].o) /\ brlt > 0 /\ seq <= MaxSeq
    /\ tab' = [tab EXCEPT ![t].pc = "deposit_submit", ![t].seq = seq]
    /\ UNCHANGED <<apiVars, walletVars, backOfficeVars, burnOf>>

\* submitDepositStage loads the row again, before it sends the deposit; what it
\* does before it sends the allowance commutes with every other step.
submitDepositStage(t) ==
    /\ At(t, "finalize", "deposit_submit")
    /\ loadApprovedDeposit(tab[t].o)
    /\ Goto(t, "deposit")
    /\ UNCHANGED <<apiVars, walletVars, backOfficeVars, burnOf>>

\* The sequence number is current, and the contract finds the balance.
applies(tx) == tx.seq = seq /\ seq <= MaxSeq /\ (needsBalance(tx.kind) => brlt > 0)

Apply(tx) ==
    /\ applies(tx)
    /\ seq' = seq + 1
    /\ brlt' = IF needsBalance(tx.kind) THEN brlt - 1 ELSE brlt
    /\ pooled' = IF tx.kind = "deposit" THEN [pooled EXCEPT ![tx.o] = @ + 1] ELSE pooled
    /\ burned' = IF tx.kind = "burn" THEN burned \cup {tx.seq} ELSE burned
    /\ applied' = applied \cup {tx}

\* Nothing in a transaction names the row: two built in one second are the same if
\* their amounts are.  Those of different deposits are taken to differ.
Tx(t, kind) ==
    IF kind = "deposit" THEN [kind |-> kind, seq |-> tab[t].seq, o |-> tab[t].o]
                        ELSE [kind |-> kind, seq |-> tab[t].seq]

\* Faulty variant: the hash is returned as soon as the transaction is sent.
submitUnconfirmed(t, dialog, kind, next) ==
    /\ At(t, dialog, kind)
    /\ late' = late \cup {Tx(t, kind)}
    /\ Goto(t, next)
    /\ UNCHANGED <<brlt, seq, pooled, burned, applied, apiVars, backOfficeVars, burnOf>>

\* Sent and confirmed.
submitSignedTx(t, dialog, kind, next) ==
    /\ At(t, dialog, kind)
    /\ Apply(Tx(t, kind))
    /\ Goto(t, next)
    /\ UNCHANGED <<late, apiVars, backOfficeVars, burnOf>>

\* Sent while the same transaction was pending: one body posted twice, or two built
\* in one second.  The answer is DUPLICATE, only ERROR is a failure, and what is
\* awaited and found confirmed is the transaction of the other request.
submitDuplicate(t, dialog, kind, next) ==
    /\ At(t, dialog, kind)
    /\ Tx(t, kind) \in applied
    /\ Goto(t, next)
    /\ UNCHANGED <<apiVars, walletVars, backOfficeVars, burnOf>>

\* Sent, and waitForConfirmation gave up; a refusal is DialogFails.
SubmitGivenUp(t, kind) ==
    /\ tab[t] # Closed /\ tab[t].pc = kind
    /\ late' = late \cup {Tx(t, kind)}
    /\ Close(t)
    /\ UNCHANGED <<brlt, seq, pooled, burned, applied, apiVars, backOfficeVars, burnOf>>

LateTransaction(tx) ==
    /\ late' = late \ {tx}
    /\ Apply(tx) \/ UNCHANGED <<brlt, seq, pooled, burned, applied>>
    /\ UNCHANGED <<apiVars, backOfficeVars, burnOf, tab>>

\* submitDepositStage, after the deposit stage
CompletedStore(t) ==
    /\ At(t, "finalize", "completed_store")
    /\ setStatus(tab[t].o, "COMPLETED")
    /\ Close(t)
    /\ UNCHANGED <<pixOrderId, webhookEvent, handling, mintLog, mintFailed>>
    /\ UNCHANGED <<walletVars, backOfficeVars, burnOf>>

withdrawalRow(o, tx, from) ==
    /\ createWithdrawalOrder(o)
    /\ burnOf' = [burnOf EXCEPT ![o] = [tx |-> tx, from |-> from]]

\* Faulty variant: the row names the transaction the wallet is going to send next.
submitWithdrawalNext(t, from) ==
    /\ At(t, "withdraw", from)
    /\ withdrawalRow(tab[t].o, seq, from)
    /\ Close(t)
    /\ UNCHANGED <<walletVars, backOfficeVars>>

\* submitWithdrawal, after the burn: the row; the order at the Pix service and
\* its answer are PixFlow's.
submitWithdrawal(t, from) ==
    /\ At(t, "withdraw", from)
    /\ withdrawalRow(tab[t].o, tab[t].seq, from)
    /\ Close(t)
    /\ UNCHANGED <<walletVars, backOfficeVars>>

\* POST /pix/withdrawals: the caller names a burn, or none, and answers for it.
createWithdrawal(o, tx) ==
    /\ \A t \in Tab : tab[t] # Closed => tab[t].o # o
    /\ withdrawalRow(o, tx, "caller")
    /\ UNCHANGED <<walletVars, backOfficeVars, tab>>

Stage(t, dialog, kind, next, again) ==
    \/ submitSignedTx(t, dialog, kind, next)
    \/ submitDuplicate(t, dialog, kind, again)
    \/ SubmitGivenUp(t, kind)

\* runOnChainDeposit: both stages, one after the other.
runOnChainDeposit(t) ==
    \/ Stage(t, "finalize", "approve", "deposit_build", "deposit_build")
    \/ buildDepositStage(t) \/ submitDepositStage(t)
    \/ Stage(t, "finalize", "deposit", "completed_store", "completed_store")
    \/ CompletedStore(t)

withdraw(t) ==
    \/ Stage(t, "withdraw", "burn", "confirmed", "duplicate")
    \/ \E from \in {"confirmed", "duplicate"} : submitWithdrawal(t, from)

Next ==
    \/ \E o \in Deposit :
         \/ NewDeposit(o)
         \/ \E s \in DepositOutcomes : Receive(o, s)
    \/ \E h \in handling : Handle(h.callback)
    \/ \E p \in Operator :
         \/ \E o \in Deposit, decision \in {"APPROVED", "REJECTED"} : approveTransaction(p, o, decision)
         \/ RejectStore(p) \/ ApproveMint(p) \/ ApproveStore(p) \/ ApproveFails(p)
    \/ \E t \in Tab :
         \/ \E o \in Deposit : markAsPaid(t, o) \/ handleFinalize(t, o)
         \/ \E o \in Withdrawal : handleWithdraw(t, o)
         \/ MarkAsPaidStore(t) \/ runOnChainDeposit(t) \/ withdraw(t) \/ DialogFails(t)
    \/ \E tx \in late : LateTransaction(tx)
    \/ \E o \in Withdrawal, tx \in {0} \cup burned : createWithdrawal(o, tx)

Spec == Init /\ [][Next]_vars

----------------------------------------------------------------------------
minted(d) == Cardinality({i \in DOMAIN mintLog : mintLog[i].order = d}) + operatorMints[d]
confirmed(d) == Cardinality({e \in webhookEvent : e[1] = d /\ e[2] = "CONFIRMED"})

\* Rows and wallet keep their shape, and the balance of the wallet is what was
\* minted less what was pooled and burned.
TransactionsTypeOK ==
    /\ transaction \in [Transaction -> {"NONE", "PENDING_PAYMENT", "PAYMENT_SUBMITTED", "PROCESSING",
                                        "APPROVED", "REJECTED", "COMPLETED", "FAILED", "EXPIRED"}]
    /\ brlt \in Nat /\ seq \in 1..(MaxSeq + 1) /\ burned \subseteq 1..MaxSeq
    /\ burnOf \in [Withdrawal -> [tx : 0..MaxSeq, from : {"none", "confirmed", "duplicate", "caller"}]]
    /\ pooled \in [Deposit -> Nat]
    /\ brlt = total([d \in Deposit |-> minted(d)]) - total(pooled) - Cardinality(burned)

\* What the investor is shown has happened on the chain, whoever wrote the
\* row: an approved or completed deposit was minted, and a completed one is in
\* the pool, through overlapping callbacks, approvals, dialogs and time-outs.
LedgerBehindStatus ==
    \A d \in Deposit :
        /\ transaction[d] \in {"APPROVED", "COMPLETED"} => minted(d) > 0
        /\ transaction[d] = "COMPLETED" => pooled[d] > 0

\* BRLT is minted at most once for each confirmation of the Pix service and
\* each approval by an operator.
MintPerDecision == \A d \in Deposit : minted(d) <= confirmed(d) + approvals[d]

\* The confirmed deposits on record, as the callbacks that were received.
confirmations ==
    {[id |-> e, order |-> e[1], status |-> e[2]] : e \in {e \in webhookEvent : e[2] = "CONFIRMED"}}

Ledger == INSTANCE MintLedger WITH ledger <- mintLog

\* Around the wallet too the callbacks implement MintLedger: no operator, dialog
\* or transaction applied late adds to what they mint or repeats it.
ImplementsMintLedger == Ledger!Spec

\* A withdrawal made after a burn, by the investor's dialogs, names a burn that was
\* applied, and no burn that was confirmed to its own request pays for two of them,
\* with several tabs at work and transactions applied late.  A burn answered as
\* DUPLICATE and the caller of POST /pix/withdrawals do make withdrawals that have
\* no burn of their own.
BurnPerWithdrawal ==
    /\ \A o \in Withdrawal : burnOf[o].from \in {"confirmed", "duplicate"} => burnOf[o].tx \in burned
    /\ \A o, q \in Withdrawal :
         o # q /\ burnOf[o].from = "confirmed" /\ burnOf[q].from = "confirmed" => burnOf[o].tx # burnOf[q].tx
=============================================================================
