---------------------------- MODULE PixCallbacks ----------------------------
(***************************************************************************)
(* The Pix module of the CredBridge API (apps/api/src/modules/pix): the    *)
(* Transaction rows behind Pix orders, and what a callback from the Pix    *)
(* service does to them and to the BRLT ledger.  A callback is a record    *)
(* with the event id, the order and the order status it announces.         *)
(***************************************************************************)
EXTENDS Naturals, Sequences

CONSTANTS Deposit, Withdrawal   \* Transaction ids, the externalId of the Pix orders

VARIABLES transaction,    \* Transaction.status, "NONE" while there is no row
          pixOrderId,     \* transactions whose pixOrderId is known
          webhookEvent,   \* PixWebhookEvent.eventId, UNIQUE
          handling,       \* callbacks between the insert of their event and the end of the handler
          mintLog,        \* the chain: callbacks whose mint of BRLT was included, in order
          mintFailed      \* transactions with a pix.deposit.mint_failed audit log

apiVars == <<transaction, pixOrderId, webhookEvent, handling, mintLog, mintFailed>>

ApiInit ==
    /\ transaction = [o \in Deposit \cup Withdrawal |-> "NONE"]
    /\ pixOrderId = {}
    /\ webhookEvent = {}
    /\ handling = {}
    /\ mintLog = <<>>
    /\ mintFailed = {}

----------------------------------------------------------------------------
\* The rows are written before the Pix service is called; for a withdrawal the
\* BRLT has been burned by then (submitWithdrawal).
createDepositOrder(o) ==
    /\ o \in Deposit /\ transaction[o] = "NONE"
    /\ transaction' = [transaction EXCEPT ![o] = "PENDING_PAYMENT"]
    /\ UNCHANGED <<pixOrderId, webhookEvent, handling, mintLog, mintFailed>>

createWithdrawalOrder(o) ==
    /\ o \in Withdrawal /\ transaction[o] = "NONE"
    /\ transaction' = [transaction EXCEPT ![o] = "PROCESSING"]
    /\ UNCHANGED <<pixOrderId, webhookEvent, handling, mintLog, mintFailed>>

\* The answer of the Pix service reached the API: the end of both creates.
storePixOrder(o) ==
    /\ transaction[o] # "NONE" /\ o \notin pixOrderId
    /\ pixOrderId' = pixOrderId \cup {o}
    /\ UNCHANGED <<transaction, webhookEvent, handling, mintLog, mintFailed>>

----------------------------------------------------------------------------
\* What a callback can say of a deposit: CORPX_EVENT_TO_STATUS has no other
\* status for the events of a QR code.
DepositOutcomes == {"CONFIRMED", "EXPIRED", "CANCELED"}

seen(cb) == cb.id \in webhookEvent

\* Faulty variant: the event is recorded, duplicates are not turned away.
persistEventAlways(cb) ==
    /\ webhookEvent' = webhookEvent \cup {cb.id}
    /\ handling' = handling \cup {[callback |-> cb, pc |-> "persisted"]}

\* findUnique, then create with the P2002 of the UNIQUE eventId caught: of all
\* deliveries of a callback only the one that inserts the event goes on.
persistEvent(cb) ==
    /\ ~seen(cb)
    /\ webhookEvent' = webhookEvent \cup {cb.id}
    /\ handling' = handling \cup {[callback |-> cb, pc |-> "persisted"]}

isDeposit(cb) == cb.order \in Deposit

at(cb, pc) == [callback |-> cb, pc |-> pc] \in handling

ends(cb, pc) == handling' = handling \ {[callback |-> cb, pc |-> pc]}

\* Faulty variant: a Pix Out that timed out is taken for a failed one.
statusAfterTimeoutFails(cb) ==
    CASE cb.status = "CONFIRMED" -> "COMPLETED"
      [] cb.status \in {"FAILED", "TIMEOUT"} -> "FAILED"
      [] cb.status = "EXPIRED" -> "EXPIRED"
      [] OTHER -> transaction[cb.order]

\* handleWithdrawalConfirmed, handleOrderFailed, handleOrderExpired; no branch
\* for CANCELED, TIMEOUT and REFUNDED
statusAfter(cb) ==
    CASE cb.status = "CONFIRMED" -> "COMPLETED"
      [] cb.status = "FAILED" -> "FAILED"
      [] cb.status = "EXPIRED" -> "EXPIRED"
      [] OTHER -> transaction[cb.order]

handleStatus(cb) ==
    /\ at(cb, "persisted")
    /\ ~(cb.status = "CONFIRMED" /\ isDeposit(cb))
    /\ transaction' = [transaction EXCEPT ![cb.order] = statusAfter(cb)]
    /\ ends(cb, "persisted")
    /\ UNCHANGED <<pixOrderId, webhookEvent, mintLog, mintFailed>>

\* Faulty variant: every callback about a deposit mints.
mintWhateverStatus(cb) == isDeposit(cb)

mints(cb) == cb.status = "CONFIRMED" /\ isDeposit(cb)

\* handleDepositConfirmed, without a Stellar wallet
failNoWallet(cb) ==
    /\ at(cb, "persisted") /\ mints(cb)
    /\ transaction' = [transaction EXCEPT ![cb.order] = "FAILED"]
    /\ ends(cb, "persisted")
    /\ UNCHANGED <<pixOrderId, webhookEvent, mintLog, mintFailed>>

\* stellar.mintBrlt was included on chain
mintBrlt(cb) ==
    /\ at(cb, "persisted") /\ mints(cb)
    /\ mintLog' = Append(mintLog, cb)
    /\ handling' = (handling \ {[callback |-> cb, pc |-> "persisted"]})
                      \cup {[callback |-> cb, pc |-> "minted"]}
    /\ UNCHANGED <<transaction, pixOrderId, webhookEvent, mintFailed>>

\* mintBrlt returned, and the transaction is approved.  An error after that,
\* from the audit log, is caught and recorded as a failed mint.
approve(cb) ==
    /\ at(cb, "minted")
    /\ transaction' = [transaction EXCEPT ![cb.order] = "APPROVED"]
    /\ \E failed \in SUBSET {cb.order} : mintFailed' = mintFailed \cup failed
    /\ ends(cb, "minted")
    /\ UNCHANGED <<pixOrderId, webhookEvent, mintLog>>

\* mintBrlt threw: before inclusion, or after it when the wait for the
\* confirmation timed out.  The error is logged, and the answer is still 2xx.
mintError(cb, pc) ==
    /\ at(cb, pc) /\ mints(cb)
    /\ mintFailed' = mintFailed \cup {cb.order}
    /\ ends(cb, pc)
    /\ UNCHANGED <<transaction, pixOrderId, webhookEvent, mintLog>>

\* What a handler that runs does next, up to its normal return.
HandlerStep(cb) == mintBrlt(cb)
HandlerReturn(cb) ==
    handleStatus(cb) \/ failNoWallet(cb) \/ approve(cb)
        \/ \E pc \in {"persisted", "minted"} : mintError(cb, pc)

\* The process restarts or the database fails in the middle of the handler.
handlerCrash(cb) ==
    \E pc \in {"persisted", "minted"} :
        /\ at(cb, pc)
        /\ ends(cb, pc)
        /\ UNCHANGED <<transaction, pixOrderId, webhookEvent, mintLog, mintFailed>>
=============================================================================
