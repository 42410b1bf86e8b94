----------------------------- MODULE PixService -----------------------------
(***************************************************************************)
(* The Pix microservice (pix-service/app): the orders it keeps for the     *)
(* CredBridge API, the CorpX webhooks and look-ups that move them, and the *)
(* outbox of callbacks to the API.                                         *)
(*                                                                         *)
(* Every HTTP request is one database transaction (database.get_db):       *)
(* SELECTs under READ COMMITTED without row locks, awaits on CorpX in      *)
(* between, and one COMMIT that writes the columns the handler changed,    *)
(* whatever other requests have committed since the SELECT.  So a request  *)
(* is several steps here, and what it read is kept in req[h].seen.         *)
(*                                                                         *)
(* uvicorn runs with --workers 2 and each process starts its own           *)
(* callback_worker, so the outbox has several workers and no lock either.  *)
(***************************************************************************)
EXTENDS Integers, Sequences, FiniteSets, Functions

CONSTANTS Deposit,       \* external ids of deposit orders
          Withdrawal,    \* external ids of withdrawal orders
          Handler,       \* requests the service serves at a time
          Worker,        \* callback_worker tasks, one per process
          Keyed,         \* whether webhook payloads carry an event id: any of TRUE, FALSE
          MaxCreates,    \* bound: create requests that reach CorpX, per order
          MaxAttempts,   \* settings.callback_max_attempts
          BatchLimit     \* rows per batch of send_pending_callbacks

ASSUME OrderAssumption == Deposit \cap Withdrawal = {}
ASSUME BoundAssumption ==
    {MaxCreates, MaxAttempts, BatchLimit} \subseteq Nat \ {0}
ASSUME KeyedAssumption == Keyed \subseteq BOOLEAN

Order == Deposit \cup Withdrawal

VARIABLES status,      \* pix_orders.status, "NONE" while there is no row
          identifier,  \* pix_orders.identifier: number of the create that made the row, or 0
          events,      \* pix_events.event_id
          outbox,      \* outbox_callbacks, in order of created_at
          req,         \* what each request handler is doing
          worker,      \* what each callback worker is doing
          corpx,       \* CorpX: what became of the QR or Pix Out of each create
          notices      \* CorpX: events it has published; any may arrive, at any time, any number of times

tables == <<status, identifier, events, outbox>>
provider == <<corpx, notices>>
serviceVars == <<tables, req, worker, provider>>

----------------------------------------------------------------------------
(* domain/status.py                                                        *)

ALLOWED_TRANSITIONS ==
    [CREATED         |-> {"PENDING_PAYMENT", "PROCESSING", "FAILED"},
     PENDING_PAYMENT |-> {"CONFIRMED", "EXPIRED", "CANCELED", "FAILED"},
     PROCESSING      |-> {"CONFIRMED", "FAILED", "TIMEOUT", "REFUNDED"},
     TIMEOUT         |-> {"CONFIRMED", "FAILED", "REFUNDED"},
     CONFIRMED |-> {}, FAILED |-> {}, EXPIRED |-> {}, CANCELED |-> {}, REFUNDED |-> {}]

PixOrderStatus == DOMAIN ALLOWED_TRANSITIONS

TERMINAL_STATUSES == {"CONFIRMED", "FAILED", "EXPIRED", "CANCELED", "REFUNDED"}

is_terminal(s) == s \in TERMINAL_STATUSES

is_transition_allowed(current, next) == next \in ALLOWED_TRANSITIONS[current]

\* Faulty variant: a refund is taken for a payment.
refund_confirms(type) ==
    CASE type \in {"qrcode.paid", "pix.in.completed", "pix.out.completed",
                   "pix.refund.completed"} -> "CONFIRMED"
      [] type = "qrcode.expired" -> "EXPIRED"
      [] type = "qrcode.cancelled" -> "CANCELED"
      [] type \in {"pix.out.failed", "pix.refund.failed"} -> "FAILED"
      [] type = "pix.out.timeout" -> "TIMEOUT"

CORPX_EVENT_TO_STATUS(type) ==
    CASE type \in {"qrcode.paid", "pix.in.completed", "pix.out.completed"} -> "CONFIRMED"
      [] type = "qrcode.expired" -> "EXPIRED"
      [] type = "qrcode.cancelled" -> "CANCELED"
      [] type \in {"pix.out.failed", "pix.refund.failed"} -> "FAILED"
      [] type = "pix.out.timeout" -> "TIMEOUT"
      [] type = "pix.refund.completed" -> "REFUNDED"

----------------------------------------------------------------------------
(* CorpX.  A QR or Pix Out is known by the order and the number of the     *)
(* create request that made it: every create generates a new identifier.   *)

Identifier == Order \X (1..MaxCreates)

Event(x, type) == [order |-> x[1], identifier |-> x[2], type |-> type]

\* A change of state at CorpX and the events it publishes.
corpxMoves == {
    [kind |-> "DEPOSIT",    from |-> "active",  to |-> "paid",
        publishes |-> {"qrcode.paid", "pix.in.completed"}],
    [kind |-> "DEPOSIT",    from |-> "active",  to |-> "expired",    publishes |-> {"qrcode.expired"}],
    [kind |-> "WITHDRAWAL", from |-> "pending", to |-> "completed",  publishes |-> {"pix.out.completed"}],
    [kind |-> "WITHDRAWAL", from |-> "pending", to |-> "failed",     publishes |-> {"pix.out.failed"}],
    [kind |-> "WITHDRAWAL", from |-> "pending", to |-> "timeout",    publishes |-> {"pix.out.timeout"}],
    [kind |-> "WITHDRAWAL", from |-> "timeout", to |-> "completed",  publishes |-> {"pix.out.completed"}],
    [kind |-> "WITHDRAWAL", from |-> "timeout", to |-> "failed",     publishes |-> {"pix.out.failed"}],
    [kind |-> "WITHDRAWAL", from |-> "timeout", to |-> "refunded",   publishes |-> {"pix.refund.completed"}],
    [kind |-> "WITHDRAWAL", from |-> "timeout", to |-> "unrefunded", publishes |-> {"pix.refund.failed"}]}

OrderType(o) == IF o \in Deposit THEN "DEPOSIT" ELSE "WITHDRAWAL"

\* A QR can be paid only after the create that made it has answered.
CorpxMoves(x) ==
    \E m \in corpxMoves :
        /\ OrderType(x[1]) = m.kind /\ corpx[x] = m.from
        /\ m.to = "paid" => identifier[x[1]] = x[2]
        /\ corpx' = [corpx EXCEPT ![x] = m.to]
        /\ notices' = notices \cup {Event(x, type) : type \in m.publishes}
        /\ UNCHANGED <<tables, req, worker>>

----------------------------------------------------------------------------
Idle == [pc |-> "idle"]

ServiceInit ==
    /\ status = [o \in Order |-> "NONE"]
    /\ identifier = [o \in Order |-> 0]
    /\ events = {}
    /\ outbox = <<>>
    /\ req = [h \in Handler |-> Idle]
    /\ worker = [w \in Worker |-> [batch |-> <<>>, posting |-> 0, done |-> {}]]
    /\ corpx = [x \in Identifier |-> "none"]
    /\ notices = {}

becomes(h, r) == req' = [req EXCEPT ![h] = r]
returns(h) == becomes(h, Idle)

exists(o) == status[o] # "NONE"

\* The transaction rolls back: an exception, a lost connection, a restart.
rollback(h) ==
    /\ req[h].pc # "idle"
    /\ returns(h)
    /\ UNCHANGED <<tables, worker, provider>>

----------------------------------------------------------------------------
(* OrdersService.create_deposit and create_withdrawal.  CorpX is called    *)
(* before the row is inserted; the existing order is returned when there   *)
(* is one (no step).                                                       *)

create(h, o) ==
    /\ req[h].pc = "idle"
    /\ ~exists(o)
    /\ becomes(h, [pc |-> "creating", order |-> o])
    /\ UNCHANGED <<tables, worker, provider>>

create_at_corpx(h) ==
    /\ req[h].pc = "creating"
    /\ LET o == req[h].order IN
       \E n \in 1..MaxCreates :
         /\ corpx[<<o, n>>] = "none" /\ \A k \in 1..(n - 1) : corpx[<<o, k>>] # "none"
         /\ corpx' = [corpx EXCEPT ![<<o, n>>] = IF o \in Deposit THEN "active" ELSE "pending"]
         /\ becomes(h, [pc |-> "created", order |-> o, identifier |-> n])
    /\ UNCHANGED <<tables, worker, notices>>

\* Faulty variant: no UNIQUE constraint on pix_orders.external_id.
create_commit_overwriting(h) ==
    /\ req[h].pc = "created"
    /\ LET r == req[h] IN
         /\ status' = [status EXCEPT ![r.order] =
                         IF r.order \in Deposit THEN "PENDING_PAYMENT" ELSE "PROCESSING"]
         /\ identifier' = [identifier EXCEPT ![r.order] = r.identifier]
    /\ returns(h)
    /\ UNCHANGED <<events, outbox, worker, provider>>

\* pix_orders.external_id is UNIQUE: the second of two creates rolls back.
create_commit(h) ==
    /\ req[h].pc = "created"
    /\ ~exists(req[h].order)
    /\ LET r == req[h] IN
         /\ status' = [status EXCEPT ![r.order] =
                         IF r.order \in Deposit THEN "PENDING_PAYMENT" ELSE "PROCESSING"]
         /\ identifier' = [identifier EXCEPT ![r.order] = r.identifier]
    /\ returns(h)
    /\ UNCHANGED <<events, outbox, worker, provider>>

----------------------------------------------------------------------------
(* Webhooks, refresh and cancel.  "keyed" is whether the payload carries an *)
(* event id; without one the handler makes up a fresh uuid.                *)

\* receive_corpx_webhook up to event_already_processed
receive_corpx_webhook(h, e, keyed) ==
    /\ req[h].pc = "idle"
    /\ e \in notices
    /\ ~(keyed /\ e \in events)
    /\ becomes(h, [pc |-> "received", event |-> e, keyed |-> keyed])
    /\ UNCHANGED <<tables, worker, provider>>

\* _find_order_for_event; an event without an order is logged and dropped.
find_order_for_event(h) ==
    /\ req[h].pc = "received"
    /\ LET e == req[h].event IN
       IF identifier[e.order] = e.identifier
       THEN becomes(h, [pc |-> "found", event |-> e, keyed |-> req[h].keyed, seen |-> status[e.order]])
       ELSE returns(h)
    /\ UNCHANGED <<tables, worker, provider>>

\* reconcile_order: a terminal order is left alone.
refresh_order(h, o) ==
    /\ req[h].pc = "idle"
    /\ exists(o) /\ ~is_terminal(status[o])
    /\ becomes(h, [pc |-> "reconciling", order |-> o, seen |-> status[o]])
    /\ UNCHANGED <<tables, worker, provider>>

\* corpx_status_to_event; CorpX states without an entry need no update.
corpx_status_to_event ==
    [paid |-> "qrcode.paid", expired |-> "qrcode.expired", cancelled |-> "qrcode.cancelled",
     completed |-> "pix.out.completed", failed |-> "pix.out.failed"]

\* lookup_qr or lookup_payment answers; a failed look-up is a rollback.
lookup(h) ==
    /\ req[h].pc = "reconciling"
    /\ LET o == req[h].order
           x == <<o, identifier[o]>> IN
       IF corpx[x] \in DOMAIN corpx_status_to_event
       THEN becomes(h, [pc |-> "found", event |-> Event(x, corpx_status_to_event[corpx[x]]),
                        keyed |-> FALSE, seen |-> req[h].seen])
       ELSE returns(h)
    /\ UNCHANGED <<tables, worker, provider>>

\* "cause" is history: the event id that led to the callback.
enqueue_callback(o, new_status, cause) ==
    outbox' = Append(outbox, [order |-> o, status |-> new_status, state |-> "PENDING",
                              attempt_count |-> 0, cause |-> cause])

\* Faulty variant: a TIMEOUT is not notified.
apply_without_timeout_notice(e, seen, keyed) ==
    LET new_status == CORPX_EVENT_TO_STATUS(e.type) IN
    IF is_transition_allowed(seen, new_status)
    THEN /\ status' = [status EXCEPT ![e.order] = new_status]
         /\ IF new_status = "TIMEOUT" THEN UNCHANGED outbox
            ELSE enqueue_callback(e.order, new_status, IF keyed THEN {e} ELSE {})
    ELSE UNCHANGED <<status, outbox>>

\* apply_corpx_event and the enqueue_callback that both callers make.
apply_corpx_event(e, seen, keyed) ==
    LET new_status == CORPX_EVENT_TO_STATUS(e.type) IN
    IF is_transition_allowed(seen, new_status)
    THEN /\ status' = [status EXCEPT ![e.order] = new_status]
         /\ enqueue_callback(e.order, new_status, IF keyed THEN {e} ELSE {})
    ELSE UNCHANGED <<status, outbox>>

\* Faulty variant: no UNIQUE constraint on pix_events.event_id.
commit_without_unique(h) ==
    /\ req[h].pc = "found"
    /\ events' = IF req[h].keyed THEN events \cup {req[h].event} ELSE events
    /\ apply_corpx_event(req[h].event, req[h].seen, req[h].keyed)
    /\ returns(h)
    /\ UNCHANGED <<identifier, worker, provider>>

\* The end of _process_webhook_event and of _reconcile_*, then COMMIT.
\* pix_events.event_id is UNIQUE: a duplicate rolls everything back.
commit_event(h) ==
    /\ req[h].pc = "found"
    /\ ~(req[h].keyed /\ req[h].event \in events)
    /\ events' = IF req[h].keyed THEN events \cup {req[h].event} ELSE events
    /\ apply_corpx_event(req[h].event, req[h].seen, req[h].keyed)
    /\ returns(h)
    /\ UNCHANGED <<identifier, worker, provider>>

\* Faulty variant: the QR of a deposit is left active.
cancel_order_locally(h, o) ==
    /\ req[h].pc = "idle"
    /\ exists(o) /\ ~is_terminal(status[o])
    /\ becomes(h, [pc |-> "cancelled", order |-> o])
    /\ UNCHANGED <<tables, worker, provider>>

\* cancel_order up to the CorpX call, which only a deposit makes.
cancel_order(h, o) ==
    /\ req[h].pc = "idle"
    /\ exists(o) /\ ~is_terminal(status[o])
    /\ becomes(h, [pc |-> IF o \in Deposit THEN "cancelling" ELSE "cancelled", order |-> o])
    /\ UNCHANGED <<tables, worker, provider>>

\* CorpX refuses unless the QR is active: the request fails (rollback).
cancel_qr(h) ==
    /\ req[h].pc = "cancelling"
    /\ LET x == <<req[h].order, identifier[req[h].order]>> IN
         /\ corpx[x] = "active"
         /\ corpx' = [corpx EXCEPT ![x] = "cancelled"]
         /\ notices' = notices \cup {Event(x, "qrcode.cancelled")}
    /\ becomes(h, [pc |-> "cancelled", order |-> req[h].order])
    /\ UNCHANGED <<tables, worker>>

\* The event id internal-cancel-<order> is UNIQUE too.  No callback.
cancel_commit(h) ==
    LET o == req[h].order
        e == Event(<<o, identifier[o]>>, "internal-cancel") IN
    /\ req[h].pc = "cancelled"
    /\ e \notin events
    /\ events' = events \cup {e}
    /\ status' = [status EXCEPT ![o] = "CANCELED"]
    /\ returns(h)
    /\ UNCHANGED <<identifier, outbox, worker, provider>>

----------------------------------------------------------------------------
(* services/callback_service.py, driven by main.callback_worker: one       *)
(* session per batch, committed when the whole batch has been tried.       *)

pending == {c \in DOMAIN outbox : outbox[c].state = "PENDING"}

\* SELECT ... WHERE next_attempt_at <= now ORDER BY created_at LIMIT 50.  A
\* new row is due at once; one that was tried before is due some time later.
send_pending_callbacks(w) ==
    /\ worker[w].batch = <<>> /\ worker[w].done = {} /\ worker[w].posting = 0
    /\ \E due \in SUBSET pending :
         /\ due # {}
         /\ \A c \in pending : outbox[c].attempt_count = 0 => c \in due
         /\ LET n == IF Cardinality(due) < BatchLimit THEN Cardinality(due) ELSE BatchLimit IN
            \E rows \in [1..n -> due] :
              /\ \A i \in 1..n : Cardinality({c \in due : c < rows[i]}) = i - 1
              /\ worker' = [worker EXCEPT ![w].batch =
                              [i \in 1..n |-> [id |-> rows[i], attempt_count |-> outbox[rows[i]].attempt_count]]]
    /\ UNCHANGED <<tables, req, provider>>

\* _attempt_send up to http_client.post
attempt_send(w) ==
    /\ worker[w].batch # <<>> /\ worker[w].posting = 0
    /\ worker' = [worker EXCEPT ![w].posting = Head(worker[w].batch).id]
    /\ UNCHANGED <<tables, req, provider>>

\* Faulty variant: the last attempt is retried too.
state_never_failed(attempt_count) == "PENDING"

\* _schedule_retry; "PENDING" leaves the status column alone.
state_after_failure(attempt_count) ==
    IF attempt_count >= MaxAttempts THEN "FAILED" ELSE "PENDING"

\* Faulty variant: any answer at all counts as delivered.
post_returns_optimistic(w, ok) ==
    LET row == Head(worker[w].batch) IN
    /\ worker[w].posting # 0
    /\ worker' = [worker EXCEPT ![w] =
         [batch |-> Tail(@.batch), posting |-> 0,
          done |-> @.done \cup {[id |-> row.id, attempt_count |-> row.attempt_count + 1,
                                 state |-> "SENT"]}]]
    /\ UNCHANGED <<tables, req, provider>>

\* The rest of _attempt_send, on a 2xx answer (ok) or on any other answer,
\* ConnectError or timeout.  The row is changed in the session only.
post_returns(w, ok) ==
    LET row == Head(worker[w].batch)
        n == row.attempt_count + 1 IN
    /\ worker[w].posting # 0
    /\ worker' = [worker EXCEPT ![w] =
         [batch |-> Tail(@.batch), posting |-> 0,
          done |-> @.done \cup {[id |-> row.id, attempt_count |-> n,
                                 state |-> IF ok THEN "SENT" ELSE state_after_failure(n)]}]]
    /\ UNCHANGED <<tables, req, provider>>

\* Faulty variant: the attempt is not counted in the table.
worker_commit_uncounted(w) ==
    /\ worker[w].batch = <<>> /\ worker[w].done # {}
    /\ outbox' = [c \in DOMAIN outbox |->
         LET mine == {d \in worker[w].done : d.id = c /\ d.state # "PENDING"} IN
         IF mine = {} THEN outbox[c]
         ELSE [outbox[c] EXCEPT !.state = (CHOOSE d \in mine : TRUE).state]]
    /\ worker' = [worker EXCEPT ![w].done = {}]
    /\ UNCHANGED <<status, identifier, events, req, provider>>

\* session.commit(): the changed columns of every row of the batch.
worker_commit(w) ==
    /\ worker[w].batch = <<>> /\ worker[w].done # {}
    /\ outbox' = [c \in DOMAIN outbox |->
         LET mine == {d \in worker[w].done : d.id = c} IN
         IF mine = {} THEN outbox[c]
         ELSE LET d == CHOOSE d \in mine : TRUE IN
              [outbox[c] EXCEPT !.attempt_count = d.attempt_count,
                                !.state = IF d.state = "PENDING" THEN @ ELSE d.state]]
    /\ worker' = [worker EXCEPT ![w].done = {}]
    /\ UNCHANGED <<status, identifier, events, req, provider>>

\* Any other exception, of httpx too (a broken read, a protocol error), or a
\* restart: the batch's session is rolled back with every attempt it counted.
worker_rollback(w) ==
    /\ worker[w].batch # <<>> \/ worker[w].done # {}
    /\ worker' = [worker EXCEPT ![w] = [batch |-> <<>>, posting |-> 0, done |-> {}]]
    /\ UNCHANGED <<tables, req, provider>>

----------------------------------------------------------------------------
Request(h) ==
    \/ create_at_corpx(h) \/ create_commit(h)
    \/ \E e \in notices, keyed \in Keyed : receive_corpx_webhook(h, e, keyed)
    \/ find_order_for_event(h)
    \/ \E o \in Order : cancel_order(h, o)
    \/ lookup(h) \/ commit_event(h)
    \/ cancel_qr(h) \/ cancel_commit(h)
    \/ rollback(h)

\* POST a callback, whatever the API at the other end answers.
WorkerStep(w) ==
    \/ send_pending_callbacks(w)
    \/ attempt_send(w)
    \/ worker_commit(w)

ServiceNext ==
    \/ \E x \in Identifier : CorpxMoves(x)
    \/ \E h \in Handler : Request(h) \/ \E o \in Order : create(h, o) \/ refresh_order(h, o)
    \/ \E w \in Worker :
         WorkerStep(w) \/ worker_rollback(w) \/ \E ok \in BOOLEAN : post_returns(w, ok)

\* callback_worker loops every 5 seconds for as long as its process runs, and
\* every POST ends within httpx's timeout of 10 seconds.
WorkerFairness ==
    \A w \in Worker : /\ WF_serviceVars(WorkerStep(w))
                      /\ WF_serviceVars(\E ok \in BOOLEAN : post_returns(w, ok))

ServiceSpec == ServiceInit /\ [][ServiceNext]_serviceVars /\ WorkerFairness

----------------------------------------------------------------------------
EventTypes == {"qrcode.paid", "pix.in.completed", "qrcode.expired", "qrcode.cancelled",
               "pix.out.completed", "pix.out.failed", "pix.out.timeout",
               "pix.refund.completed", "pix.refund.failed", "internal-cancel"}

Events == [order : Order, identifier : 1..MaxCreates, type : EventTypes]

Rows == [order : Order, status : PixOrderStatus, state : {"PENDING", "SENT", "FAILED"},
         attempt_count : 0..MaxAttempts, cause : SUBSET Events]

\* The tables keep their shape; in particular attempt_count never passes
\* callback_max_attempts although two workers count attempts of the same row
\* from their own copies.
ServiceTypeOK ==
    /\ status \in [Order -> PixOrderStatus \cup {"NONE"}]
    /\ identifier \in [Order -> 0..MaxCreates]
    /\ events \subseteq Events
    /\ outbox \in Seq(Rows)
    /\ \A h \in Handler : "pc" \in DOMAIN req[h]
    /\ \A w \in Worker : worker[w].posting \in {0} \cup DOMAIN outbox
    /\ notices \subseteq Events

\* What CorpX says now about the QR or Pix Out behind the order's row.
corpxState(o) == corpx[<<o, identifier[o]>>]

canceledHere(o) == Event(<<o, identifier[o]>>, "internal-cancel") \in events

\* Transactional outbox (domain/models.py, OutboxCallback): an order that left
\* its first status has a callback row that says so, however its handlers
\* interleave and wherever one is cut off.  Only cancel_order tells nobody.
OrderNotified ==
    \A o \in Order :
        status[o] \in TERMINAL_STATUSES \cup {"TIMEOUT"} =>
            \/ \E c \in DOMAIN outbox : outbox[c].order = o /\ outbox[c].status = status[o]
            \/ status[o] = "CANCELED" /\ canceledHere(o)

\* A callback never says of a payment what CorpX does not: replayed, delayed
\* or reordered webhooks and stale reads cannot confirm money that did not move.
CallbackTruthful ==
    \A c \in DOMAIN outbox :
        LET x == corpxState(outbox[c].order) IN
        CASE outbox[c].status = "CONFIRMED" -> x \in {"paid", "completed"}
          [] outbox[c].status = "FAILED"    -> x \in {"failed", "unrefunded"}
          [] outbox[c].status = "EXPIRED"   -> x = "expired"
          [] outbox[c].status = "CANCELED"  -> x = "cancelled"
          [] outbox[c].status = "REFUNDED"  -> x = "refunded"
          [] OTHER -> x \notin {"none", "pending"}

\* A webhook CorpX delivers again (same event id) is applied once, also when
\* both deliveries pass the event_already_processed check together.
EventAppliedOnce ==
    \A c, d \in DOMAIN outbox :
        outbox[c].cause \cap outbox[d].cause # {} => c = d

\* The row of an order stays with the QR or Pix Out it was created for, even
\* if the create call is repeated while the first one is still at CorpX.
IdentifierFixed ==
    [][\A o \in Order : exists(o) => identifier'[o] = identifier[o]]_serviceVars

\* A terminal status is final (domain/status.py lets none be left), although a
\* commit checks the transition against what its request read before: that of a
\* deposit always, that of a withdrawal but for a CANCELED, which is written over
\* any end and overwritten by any, and for a stale TIMEOUT.
TerminalKept ==
    [][\A o \in Order :
         is_terminal(status[o]) =>
             \/ status'[o] = status[o]
             \/ /\ o \in Withdrawal
                /\ status'[o] = "TIMEOUT" \/ "CANCELED" \in {status[o], status'[o]}]_serviceVars

\* The API is told one end of an order at most: two callbacks about the same
\* order that name a terminal status name the same.
OneOutcome ==
    \A c, d \in DOMAIN outbox :
        /\ outbox[c].order = outbox[d].order
        /\ is_terminal(outbox[c].status) /\ is_terminal(outbox[d].status)
        => outbox[c].status = outbox[d].status

\* A deposit its payer has paid for is never recorded as canceled or expired:
\* cancel_order withdraws the QR before it writes CANCELED.
PaidDepositKept ==
    \A o \in Deposit :
        exists(o) /\ corpxState(o) = "paid" => status[o] \in {"PENDING_PAYMENT", "CONFIRMED"}

rowsPending(o) == \E c \in pending : outbox[c].order = o

\* The batch is lost, and not committed with nothing to change.
batchLost(w) == worker_rollback(w) /\ ~worker_commit(w)

\* Every callback is eventually SENT or given up as FAILED, although two workers
\* overwrite each other's attempt_count, if one of them ceases to lose its batches:
\* it then drains the outbox whatever becomes of the batches of the others.  An
\* error that rolls back every batch of every worker keeps their rows PENDING for
\* ever, the attempts uncounted.
OutboxDrained ==
    \A w \in Worker :
        <>[][~batchLost(w)]_serviceVars => \A o \in Order : rowsPending(o) ~> ~rowsPending(o)
=============================================================================
