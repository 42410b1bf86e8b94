------------------------------ MODULE PixFlow -------------------------------
(***************************************************************************)
(* The Pix service and the Pix module of the API together: the API creates *)
(* and refreshes orders, and the workers of the service POST callbacks to  *)
(* POST /pix/webhooks/orders.  A POST may be lost, may be answered after   *)
(* the worker has given up waiting, and is sent again on any failure.      *)
(***************************************************************************)
EXTENDS PixService

VARIABLES transaction, pixOrderId, webhookEvent, handling, mintLog, mintFailed,
          wire   \* the POST of each worker: "idle", "sent", "handling" or "acked"

Api == INSTANCE PixCallbacks

apiVars == <<transaction, pixOrderId, webhookEvent, handling, mintLog, mintFailed>>
vars == <<serviceVars, apiVars, wire>>

Init ==
    /\ ServiceInit
    /\ Api!ApiInit
    /\ wire = [w \in Worker |-> "idle"]

\* The body of the POST (_build_callback_payload).
callback(c) == [id |-> c, order |-> outbox[c].order, status |-> outbox[c].status]

----------------------------------------------------------------------------
(* The API calls the service.                                              *)

\* createDepositOrder or createWithdrawalOrder: one create call per row.
CreateOrder(h, o) ==
    /\ Api!createDepositOrder(o) \/ Api!createWithdrawalOrder(o)
    /\ create(h, o)
    /\ UNCHANGED wire

CreateAnswered(o) ==
    /\ exists(o)
    /\ Api!storePixOrder(o)
    /\ UNCHANGED <<serviceVars, wire>>

\* PixService.refreshPixOrder
RefreshPixOrder(h, o) ==
    /\ o \in pixOrderId
    /\ refresh_order(h, o)
    /\ UNCHANGED <<apiVars, wire>>

ServiceStep ==
    /\ \/ \E x \in Identifier : CorpxMoves(x)
       \/ \E h \in Handler : Request(h)
    /\ UNCHANGED <<apiVars, wire>>

----------------------------------------------------------------------------
(* The service calls the API.                                              *)

Loop(w) ==
    /\ send_pending_callbacks(w) \/ worker_commit(w)
    /\ UNCHANGED <<apiVars, wire>>

Post(w) ==
    /\ attempt_send(w)
    /\ wire' = [wire EXCEPT ![w] = "sent"]
    /\ UNCHANGED apiVars

\* receivePixWebhook: a callback already seen is answered at once.
Receive(w) ==
    /\ wire[w] = "sent"
    /\ LET cb == callback(worker[w].posting) IN
         \/ /\ Api!persistEvent(cb)
            /\ wire' = [wire EXCEPT ![w] = "handling"]
            /\ UNCHANGED <<transaction, pixOrderId, mintLog, mintFailed>>
         \/ /\ Api!seen(cb)
            /\ wire' = [wire EXCEPT ![w] = "acked"]
            /\ UNCHANGED apiVars
    /\ UNCHANGED serviceVars

\* The worker, if it is still waiting, gets the answer of the handler.
Handle(cb) ==
    /\ \/ Api!HandlerStep(cb) /\ UNCHANGED wire
       \/ /\ Api!HandlerReturn(cb)
          /\ wire' = [w \in Worker |->
                        IF wire[w] = "handling" /\ worker[w].posting = cb.id THEN "acked" ELSE wire[w]]
    /\ UNCHANGED serviceVars

\* The worker sees a broken connection, a 5xx or a timeout: GiveUp.
Crash(cb) ==
    /\ Api!handlerCrash(cb)
    /\ UNCHANGED <<serviceVars, wire>>

Acknowledged(w) ==
    /\ wire[w] = "acked"
    /\ post_returns(w, TRUE)
    /\ wire' = [wire EXCEPT ![w] = "idle"]
    /\ UNCHANGED apiVars

GiveUp(w) ==
    /\ post_returns(w, FALSE)
    /\ wire' = [wire EXCEPT ![w] = "idle"]
    /\ UNCHANGED apiVars

BatchLost(w) ==
    /\ worker_rollback(w)
    /\ wire' = [wire EXCEPT ![w] = "idle"]
    /\ UNCHANGED apiVars

Next ==
    \/ ServiceStep
    \/ \E o \in Order : CreateAnswered(o)
    \/ \E h \in Handler, o \in Order : CreateOrder(h, o) \/ RefreshPixOrder(h, o)
    \/ \E w \in Worker :
         Loop(w) \/ Post(w) \/ Receive(w) \/ Acknowledged(w) \/ GiveUp(w) \/ BatchLost(w)
    \/ \E r \in handling : Handle(r.callback) \/ Crash(r.callback)

\* The workers loop and their POSTs end (httpx timeout); a handler of the API
\* that is not interrupted runs to its end.
Fairness ==
    /\ \A w \in Worker :
         WF_vars(Loop(w)) /\ WF_vars(Post(w)) /\ WF_vars(Acknowledged(w) \/ GiveUp(w))
    /\ WF_vars(\E r \in handling : Handle(r.callback))

Spec == Init /\ [][Next]_vars /\ Fairness

----------------------------------------------------------------------------
mintsOf(o) == {i \in DOMAIN mintLog : mintLog[i].order = o}

\* The state keeps its shape; an event is on record before its effect starts.
FlowTypeOK ==
    /\ ServiceTypeOK
    /\ transaction \in [Order -> {"NONE", "PENDING_PAYMENT", "PROCESSING", "APPROVED",
                                  "COMPLETED", "FAILED", "EXPIRED"}]
    /\ pixOrderId \subseteq Order
    /\ webhookEvent \subseteq DOMAIN outbox
    /\ \A r \in handling : r.callback.id \in webhookEvent /\ r.pc \in {"persisted", "minted"}
    /\ mintFailed \subseteq Deposit
    /\ wire \in [Worker -> {"idle", "sent", "handling", "acked"}]

\* BRLT is minted only for a deposit whose payer has paid the QR at CorpX,
\* whatever is replayed, reordered or read stale on the way.
MintBacked == \A i \in DOMAIN mintLog : corpxState(mintLog[i].order) = "paid"

\* A callback mints at most once, however often the workers deliver it and
\* however long the first delivery is still being handled.
MintOncePerCallback == IsInjective(mintLog)

\* The confirmed deposits the API has on record.
confirmations == {callback(c) : c \in {e \in webhookEvent : Api!mints(callback(e))}}

Ledger == INSTANCE MintLedger WITH ledger <- mintLog

\* The flow implements MintLedger: whatever the workers repeat, lose or overtake
\* each other with, and wherever the API stops, each confirmation that
\* receivePixWebhook has put on record is minted for at most once, none is
\* forgotten, and nothing else mints.
ImplementsMintLedger == Ledger!Spec

\* What Transactions takes for granted of the callbacks: each is about a row
\* the API has, and says one of three things of a deposit.
CallbacksExpected ==
    \A c \in DOMAIN outbox :
        /\ transaction[outbox[c].order] # "NONE"
        /\ outbox[c].order \in Deposit => outbox[c].status \in Api!DepositOutcomes

\* A callback is marked SENT only if the API has recorded its event.
SentMeansReceived == \A c \in DOMAIN outbox : outbox[c].state = "SENT" => c \in webhookEvent

\* A withdrawal shown as COMPLETED has left CorpX, and one shown as FAILED has not.
WithdrawalHonest ==
    \A o \in Withdrawal :
        /\ transaction[o] = "COMPLETED" => corpxState(o) = "completed"
        /\ transaction[o] = "FAILED" => corpxState(o) \in {"failed", "unrefunded"}

\* The end of a withdrawal is final: no callback that was overtaken, repeated or
\* enqueued by a request with a stale read moves it from COMPLETED or FAILED.
WithdrawalFinal ==
    [][\A o \in Withdrawal :
         transaction[o] \in {"COMPLETED", "FAILED"} => transaction'[o] = transaction[o]]_vars

\* "nao executem efeitos colaterais multiplas vezes" (idempotency_service.py):
\* a deposit is minted once.
MintOncePerDeposit == \A o \in Deposit : Cardinality(mintsOf(o)) <= 1

\* "que fara retry em caso de erro" (pix.controller.ts): once a confirmation has
\* been acknowledged and nobody is working on it, the deposit has been minted
\* or the failure is on record.
AcknowledgedMeansHandled ==
    \A c \in DOMAIN outbox :
        LET o == outbox[c].order IN
        /\ outbox[c].state = "SENT" /\ outbox[c].status = "CONFIRMED" /\ o \in Deposit
        /\ ~\E r \in handling : r.callback.id = c
        => mintsOf(o) # {} \/ o \in mintFailed \/ transaction[o] = "FAILED"
=============================================================================
