----------------------------- MODULE PixProofs ------------------------------
(***************************************************************************)
(* Theorems about PixService, and about PixFlow, the Pix service and the   *)
(* API together, for any number of orders, request handlers, callback      *)
(* workers, creates, attempts, rows per batch and lost batches.            *)
(***************************************************************************)
EXTENDS PixFlow, FiniteSetTheorems, SequenceTheorems, TLAPS

\* The states of CorpX in which it is true to say that an order has status s.
\* A Pix Out that timed out may have ended since.
backs(s, x) ==
    \/ s = "CONFIRMED" /\ x \in {"paid", "completed"}
    \/ s = "FAILED" /\ x \in {"failed", "unrefunded"}
    \/ s = "EXPIRED" /\ x = "expired"
    \/ s = "CANCELED" /\ x = "cancelled"
    \/ s = "REFUNDED" /\ x = "refunded"
    \/ s = "TIMEOUT" /\ x \in {"timeout", "completed", "failed", "refunded", "unrefunded"}

\* The QR of a deposit and the Pix Out of a withdrawal have states of their own.
CorpxStates(o) ==
    IF o \in Deposit
    THEN {"none", "active", "paid", "expired", "cancelled"}
    ELSE {"none", "pending", "timeout", "completed", "failed", "refunded", "unrefunded"}

\* An event that CorpX has published or a look-up has made of its answer.
Published(e) ==
    /\ e \in Events /\ e.type # "internal-cancel"
    /\ backs(CORPX_EVENT_TO_STATUS(e.type), corpx[<<e.order, e.identifier>>])

DataTyped ==
    /\ status \in [Order -> PixOrderStatus \cup {"NONE"}]
    /\ identifier \in [Order -> 0..MaxCreates]
    /\ events \subseteq Events
    /\ outbox \in Seq(Rows)
    /\ DOMAIN corpx = Identifier
    /\ \A x \in Identifier : corpx[x] \in CorpxStates(x[1])

\* An order is in the table with the create that made it, which CorpX knows.
OrdersOK ==
    \A o \in Order :
        /\ exists(o) <=> identifier[o] # 0
        /\ exists(o) => corpxState(o) # "none"

\* What a deposit has become is what CorpX says of its QR.
DepositsOK ==
    \A o \in Deposit :
        exists(o) => status[o] = "PENDING_PAYMENT" \/ backs(status[o], corpxState(o))

NoticesOK == \A e \in notices : Published(e)

\* What a request has read is still true, as far as its commit relies on it.
RequestOK(q) ==
    /\ "pc" \in DOMAIN q
    /\ q.pc \in {"creating", "created", "reconciling", "cancelling", "cancelled"} => q.order \in Order
    /\ q.pc = "created" =>
          q.identifier \in 1..MaxCreates /\ corpx[<<q.order, q.identifier>>] # "none"
    /\ q.pc \in {"received", "found"} => Published(q.event) /\ q.keyed \in BOOLEAN
    /\ q.pc = "found" => identifier[q.event.order] = q.event.identifier
    /\ q.pc \in {"reconciling", "cancelling", "cancelled"} => exists(q.order)
    /\ q.pc = "cancelling" => q.order \in Deposit
    /\ q.pc = "cancelled" /\ q.order \in Deposit => corpxState(q.order) = "cancelled"

RequestsOK == DOMAIN req = Handler /\ \A h \in Handler : RequestOK(req[h])

\* The copies a worker has of the rows of its batch.
WorkerOK(k) ==
    /\ k \in [batch : Seq([id : Nat, attempt_count : Nat]), posting : Nat,
              done : SUBSET [id : Nat, attempt_count : Nat, state : {"PENDING", "SENT", "FAILED"}]]
    /\ \A i \in 1..Len(k.batch) :
          k.batch[i].id \in DOMAIN outbox /\ k.batch[i].attempt_count < MaxAttempts
    /\ k.posting # 0 => k.batch # <<>> /\ k.posting = Head(k.batch).id
    /\ \A d \in k.done :
          /\ d.id \in DOMAIN outbox /\ d.attempt_count <= MaxAttempts
          /\ d.state = "PENDING" => d.attempt_count < MaxAttempts

WorkersOK == DOMAIN worker = Worker /\ \A w \in Worker : WorkerOK(worker[w])

\* A row of the outbox says what CorpX says, has its cause on record, and is
\* tried again only while attempts are left.
RowsOK ==
    \A c \in DOMAIN outbox :
        /\ exists(outbox[c].order)
        /\ backs(outbox[c].status, corpxState(outbox[c].order))
        /\ outbox[c].cause \subseteq events
        /\ outbox[c].state = "PENDING" => outbox[c].attempt_count < MaxAttempts

ServiceInv ==
    /\ DataTyped /\ OrdersOK /\ DepositsOK /\ NoticesOK /\ RequestsOK /\ WorkersOK /\ RowsOK
    /\ EventAppliedOnce
    /\ OrderNotified

----------------------------------------------------------------------------
(* What stays true, whatever the provider and the other requests do.       *)

\* CorpX never takes back what it has said, and an order keeps its identifier.
Forward ==
    /\ \A x \in Identifier : corpx[x] # "none" => corpx'[x] # "none"
    /\ \A x \in Identifier, s \in PixOrderStatus : backs(s, corpx[x]) => backs(s, corpx'[x])
    /\ \A o \in Order : exists(o) => exists(o)' /\ identifier'[o] = identifier[o]

\* The order statuses; an order that does not exist has none of them.
LEMMA Statuses ==
    /\ {"CREATED", "PENDING_PAYMENT", "PROCESSING", "TIMEOUT", "CONFIRMED", "FAILED", "EXPIRED", "CANCELED",
        "REFUNDED"} = PixOrderStatus
    /\ "NONE" \notin PixOrderStatus
  BY DEF PixOrderStatus, ALLOWED_TRANSITIONS

\* The status an event of CorpX leads to.
LEMMA EventStatus ==
    ASSUME NEW e \in Events, e.type # "internal-cancel"
    PROVE  CORPX_EVENT_TO_STATUS(e.type)
             \in {"CONFIRMED", "EXPIRED", "CANCELED", "FAILED", "TIMEOUT", "REFUNDED"}
  BY DEF Events, EventTypes, CORPX_EVENT_TO_STATUS

\* The QR or Pix Out of an order that is in the table.
LEMMA OwnIdentifier ==
    ASSUME DataTyped, OrdersOK, NEW o \in Order, exists(o)
    PROVE  <<o, identifier[o]>> \in Identifier
  <1>1. identifier[o] \in 0..MaxCreates /\ identifier[o] # 0
    BY DEF DataTyped, OrdersOK
  <1>2. identifier[o] \in 1..MaxCreates
    BY <1>1, BoundAssumption
  <1> QED
    BY <1>2 DEF Identifier

\* What CorpX has published stays true as CorpX goes forward.
LEMMA PublishedKept ==
    ASSUME Forward, NEW e, Published(e)
    PROVE  Published(e)'
  <1>1. e \in Events /\ e.type # "internal-cancel" /\ <<e.order, e.identifier>> \in Identifier
    BY DEF Published, Events, Identifier
  <1>2. CORPX_EVENT_TO_STATUS(e.type) \in PixOrderStatus
    BY <1>1, EventStatus, Statuses
  <1> QED
    BY <1>1, <1>2 DEF Forward, Published

\* What CorpX says of the order behind a row stays true.
LEMMA StateKept ==
    ASSUME DataTyped, OrdersOK, Forward, NEW o \in Order, exists(o)
    PROVE  /\ exists(o)' /\ identifier'[o] = identifier[o]
           /\ corpxState(o) # "none" => corpxState(o)' # "none"
           /\ \A s \in PixOrderStatus : backs(s, corpxState(o)) => backs(s, corpxState(o)')
  <1>1. <<o, identifier[o]>> \in Identifier
    BY OwnIdentifier
  <1>2. exists(o)' /\ identifier'[o] = identifier[o]
    BY DEF Forward
  <1> QED
    BY <1>1, <1>2 DEF Forward, corpxState

\* What a request relies on stays true while orders and CorpX go forward.
LEMMA RequestKept ==
    ASSUME DataTyped, OrdersOK, Forward, NEW q, RequestOK(q)
    PROVE  RequestOK(q)'
  <1>1. q.pc = "created" =>
          q.identifier \in 1..MaxCreates /\ corpx'[<<q.order, q.identifier>>] # "none"
    BY DEF RequestOK, Forward, Identifier
  <1>2. q.pc \in {"received", "found"} => Published(q.event)' /\ q.keyed \in BOOLEAN
    BY PublishedKept DEF RequestOK
  <1>3. q.pc = "found" => identifier'[q.event.order] = q.event.identifier
    <2> SUFFICES ASSUME q.pc = "found" PROVE identifier'[q.event.order] = q.event.identifier
      OBVIOUS
    <2>1. q.event \in Events /\ identifier[q.event.order] = q.event.identifier
      BY DEF RequestOK, Published
    <2>2. q.event.order \in Order /\ identifier[q.event.order] # 0
      BY <2>1, BoundAssumption DEF Events
    <2>3. exists(q.event.order)
      BY <2>2 DEF OrdersOK
    <2> QED
      BY <2>1, <2>2, <2>3 DEF Forward
  <1>4. q.pc \in {"reconciling", "cancelling", "cancelled"} => exists(q.order)'
    BY DEF RequestOK, Forward
  <1>5. q.pc = "cancelled" /\ q.order \in Deposit => corpxState(q.order)' = "cancelled"
    <2> SUFFICES ASSUME q.pc = "cancelled", q.order \in Deposit PROVE corpxState(q.order)' = "cancelled"
      OBVIOUS
    <2>1. q.order \in Order /\ exists(q.order) /\ corpxState(q.order) = "cancelled"
      BY DEF RequestOK
    <2>2. "CANCELED" \in PixOrderStatus
      BY Statuses
    <2>3. backs("CANCELED", corpxState(q.order))
      BY <2>1 DEF backs
    <2>4. backs("CANCELED", corpxState(q.order)')
      BY <2>1, <2>2, <2>3, StateKept
    <2> QED
      BY <2>4 DEF backs
  <1> QED
    BY <1>1, <1>2, <1>3, <1>4, <1>5 DEF RequestOK

\* What the rows say stays true, while the outbox is left alone.
LEMMA RowsKept ==
    ASSUME DataTyped, OrdersOK, RowsOK, Forward, outbox' = outbox, events \subseteq events'
    PROVE  RowsOK'
  <1> SUFFICES ASSUME NEW c \in DOMAIN outbox
               PROVE  /\ exists(outbox[c].order)'
                      /\ backs(outbox[c].status, corpxState(outbox[c].order)')
                      /\ outbox[c].cause \subseteq events'
                      /\ outbox[c].state = "PENDING" => outbox[c].attempt_count < MaxAttempts
    BY DEF RowsOK
  <1>1. outbox[c] \in Rows
    BY DEF DataTyped
  <1>2. outbox[c].order \in Order /\ outbox[c].status \in PixOrderStatus
    BY <1>1 DEF Rows
  <1> QED
    BY <1>2, StateKept DEF RowsOK

\* The same for all requests at once.
LEMMA RequestsKept ==
    ASSUME DataTyped, OrdersOK, RequestsOK, Forward, DOMAIN req' = Handler,
           \A h \in Handler : req'[h] = req[h] \/ RequestOK(req[h])'
    PROVE  RequestsOK'
  <1> SUFFICES ASSUME NEW h \in Handler, req'[h] = req[h] PROVE RequestOK(req[h])'
    BY DEF RequestsOK
  <1>1. RequestOK(req[h])
    BY DEF RequestsOK
  <1>2. \A q : RequestOK(q) => RequestOK(q)'
    BY RequestKept
  <1> QED
    BY <1>1, <1>2

\* A request is now q.
LEMMA Becomes ==
    ASSUME RequestsOK, NEW h \in Handler, NEW q, becomes(h, q)
    PROVE  /\ DOMAIN req' = Handler /\ req'[h] = q
           /\ \A i \in Handler : i # h => req'[i] = req[i]
  BY DEF RequestsOK, becomes

\* CorpX moves on; the tables and the workers stay.
LEMMA ProviderStep ==
    ASSUME ServiceInv, UNCHANGED <<tables, worker>>,
           DOMAIN corpx' = Identifier, \A x \in Identifier : corpx'[x] \in CorpxStates(x[1]),
           Forward, \A e \in notices' : e \in notices \/ Published(e)',
           DOMAIN req' = Handler, \A h \in Handler : req'[h] = req[h] \/ RequestOK(req[h])'
    PROVE  ServiceInv'
  <1> USE DEF ServiceInv
  <1>0. /\ status' = status /\ identifier' = identifier /\ events' = events /\ outbox' = outbox
        /\ worker' = worker
    BY DEF tables
  <1>1. DataTyped'
    BY <1>0 DEF DataTyped
  <1>2. OrdersOK'
    <2> SUFFICES ASSUME NEW o \in Order
                 PROVE  (exists(o)' <=> identifier'[o] # 0) /\ (exists(o)' => corpxState(o)' # "none")
      BY DEF OrdersOK
    <2>1. exists(o)' <=> exists(o)
      BY <1>0 DEF exists
    <2> QED
      BY <1>0, <2>1, StateKept DEF OrdersOK
  <1>3. DepositsOK'
    <2> SUFFICES ASSUME NEW o \in Deposit, exists(o)'
                 PROVE  status'[o] = "PENDING_PAYMENT" \/ backs(status'[o], corpxState(o)')
      BY DEF DepositsOK
    <2>1. o \in Order /\ exists(o) /\ status[o] \in PixOrderStatus
      BY <1>0 DEF exists, DataTyped, Order
    <2> QED
      BY <1>0, <2>1, StateKept DEF DepositsOK
  <1>4. NoticesOK'
    BY PublishedKept DEF NoticesOK
  <1>5. RequestsOK'
    BY RequestsKept
  <1>6. WorkersOK'
    BY <1>0 DEF WorkersOK, WorkerOK
  <1>7. RowsOK'
    BY <1>0, RowsKept
  <1>8. EventAppliedOnce' /\ OrderNotified'
    BY <1>0 DEF EventAppliedOnce, OrderNotified, canceledHere
  <1> QED
    BY <1>1, <1>2, <1>3, <1>4, <1>5, <1>6, <1>7, <1>8

\* A request goes on, and nothing else changes.
LEMMA RequestStep ==
    ASSUME ServiceInv, UNCHANGED <<tables, worker, provider>>,
           NEW h \in Handler, NEW q, becomes(h, q), RequestOK(q)
    PROVE  ServiceInv'
  <1>1. status' = status /\ identifier' = identifier /\ corpx' = corpx /\ notices' = notices
    BY DEF tables, provider
  <1>2. Forward
    BY <1>1 DEF Forward, exists
  <1>3. RequestOK(q)'
    BY <1>2, RequestKept DEF ServiceInv
  <1>4. /\ DOMAIN req' = Handler /\ req'[h] = q
        /\ \A i \in Handler : i # h => req'[i] = req[i]
    BY Becomes DEF ServiceInv
  <1>5. \A i \in Handler : req'[i] = req[i] \/ RequestOK(req[i])'
    BY <1>3, <1>4
  <1>6. DOMAIN corpx' = Identifier /\ \A x \in Identifier : corpx'[x] \in CorpxStates(x[1])
    BY <1>1 DEF ServiceInv, DataTyped
  <1> QED
    BY <1>1, <1>2, <1>4, <1>5, <1>6, ProviderStep

\* A request that returns.
LEMMA IdleOK == RequestOK(Idle)
  BY DEF RequestOK, Idle

----------------------------------------------------------------------------
(* The steps of requests before their commit, and of CorpX.                *)

\* Everything a request reads, and every request that ends without a commit.
LEMMA Reads ==
    ASSUME ServiceInv, NEW h \in Handler,
           \/ \E o \in Order : create(h, o) \/ refresh_order(h, o) \/ cancel_order(h, o)
           \/ \E e \in notices, keyed \in Keyed : receive_corpx_webhook(h, e, keyed)
           \/ find_order_for_event(h) \/ lookup(h) \/ rollback(h)
    PROVE  ServiceInv'
  <1> USE DEF ServiceInv
  <1>0. RequestOK(req[h]) /\ OrdersOK /\ DataTyped
    BY DEF RequestsOK
  <1>1. ASSUME NEW o \in Order, create(h, o) PROVE ServiceInv'
    <2>1. RequestOK([pc |-> "creating", order |-> o])
      BY DEF RequestOK
    <2> QED
      BY <1>1, <2>1, RequestStep DEF create
  <1>2. ASSUME NEW o \in Order, refresh_order(h, o) PROVE ServiceInv'
    <2>1. RequestOK([pc |-> "reconciling", order |-> o, seen |-> status[o]])
      BY <1>2 DEF RequestOK, refresh_order
    <2> QED
      BY <1>2, <2>1, RequestStep DEF refresh_order
  <1>3. ASSUME NEW o \in Order, cancel_order(h, o) PROVE ServiceInv'
    <2>1. RequestOK([pc |-> IF o \in Deposit THEN "cancelling" ELSE "cancelled", order |-> o])
      BY <1>3 DEF RequestOK, cancel_order
    <2> QED
      BY <1>3, <2>1, RequestStep DEF cancel_order
  <1>4. ASSUME NEW e \in notices, NEW keyed \in Keyed, receive_corpx_webhook(h, e, keyed) PROVE ServiceInv'
    <2>1. RequestOK([pc |-> "received", event |-> e, keyed |-> keyed])
      BY KeyedAssumption DEF RequestOK, NoticesOK
    <2> QED
      BY <1>4, <2>1, RequestStep DEF receive_corpx_webhook
  <1>5. CASE find_order_for_event(h)
    <2> DEFINE e == req[h].event
               q == [pc |-> "found", event |-> e, keyed |-> req[h].keyed, seen |-> status[e.order]]
    <2>1. Published(e) /\ req[h].keyed \in BOOLEAN
      BY <1>0, <1>5 DEF find_order_for_event, RequestOK
    <2>2. CASE identifier[e.order] = e.identifier
      <3>1. /\ "pc" \in DOMAIN q /\ q.pc = "found" /\ q.event = e /\ q.keyed = req[h].keyed
        OBVIOUS
      <3>2. becomes(h, q)
        BY <1>5, <2>2 DEF find_order_for_event
      <3> HIDE DEF q, e
      <3>3. RequestOK(q)
        BY <2>1, <2>2, <3>1 DEF RequestOK
      <3> QED
        BY <1>5, <3>2, <3>3, RequestStep DEF find_order_for_event
    <2>3. CASE identifier[e.order] # e.identifier
      BY <1>5, <2>3, IdleOK, RequestStep DEF find_order_for_event, returns
    <2> QED
      BY <2>2, <2>3
  <1>6. CASE lookup(h)
    <2>0. req[h].pc = "reconciling" /\ UNCHANGED <<tables, worker, provider>>
      BY <1>6 DEF lookup
    <2>1. PICK o \in Order : o = req[h].order /\ exists(o)
      BY <1>0, <2>0 DEF RequestOK
    <2>2. PICK x \in Identifier : x = <<o, identifier[o]>>
      BY <1>0, <2>1, OwnIdentifier
    <2>3. corpx[x] \in CorpxStates(x[1])
      BY <1>0 DEF DataTyped
    <2>4. CASE corpx[x] \in DOMAIN corpx_status_to_event
      <3> DEFINE type == corpx_status_to_event[corpx[x]]
                 e == Event(x, type)
                 q == [pc |-> "found", event |-> e, keyed |-> FALSE, seen |-> req[h].seen]
      <3>1. becomes(h, q)
        BY <1>6, <2>1, <2>2, <2>4 DEF lookup
      <3>2. /\ corpx[x] \in {"paid", "expired", "cancelled", "completed", "failed"}
            /\ type \in EventTypes /\ type # "internal-cancel"
            /\ backs(CORPX_EVENT_TO_STATUS(type), corpx[x])
        BY <2>4 DEF corpx_status_to_event, EventTypes, CORPX_EVENT_TO_STATUS, backs
      <3> HIDE DEF type
      <3>3. e \in Events /\ e.type = type /\ e.order = o /\ e.identifier = identifier[o]
            /\ <<e.order, e.identifier>> = x
        BY <2>2, <3>2 DEF Event, Events, Identifier
      <3>4. "pc" \in DOMAIN q /\ q.pc = "found" /\ q.event = e /\ q.keyed = FALSE
        OBVIOUS
      <3> HIDE DEF q, e
      <3>5. Published(e)
        BY <3>2, <3>3 DEF Published
      <3>6. RequestOK(q)
        BY <3>3, <3>4, <3>5 DEF RequestOK
      <3> QED
        BY <2>0, <3>1, <3>6, RequestStep
    <2>5. CASE corpx[x] \notin DOMAIN corpx_status_to_event
      BY <1>6, <2>0, <2>1, <2>2, <2>5, IdleOK, RequestStep DEF lookup, returns
    <2> QED
      BY <2>4, <2>5
  <1>7. CASE rollback(h)
    BY <1>7, IdleOK, RequestStep DEF rollback, returns
  <1> QED
    BY <1>1, <1>2, <1>3, <1>4, <1>5, <1>6, <1>7

\* CorpX moves one QR or Pix Out on: what was true of it is true.
LEMMA CorpxForward ==
    ASSUME DataTyped, NEW x \in Identifier, NEW to \in CorpxStates(x[1]),
           corpx' = [corpx EXCEPT ![x] = to], to # "none",
           corpx[x] \in {"none", "active", "pending"} \/ (corpx[x] = "timeout" /\ backs("TIMEOUT", to)),
           UNCHANGED <<status, identifier>>
    PROVE  /\ DOMAIN corpx' = Identifier /\ \A y \in Identifier : corpx'[y] \in CorpxStates(y[1])
           /\ corpx'[x] = to /\ Forward
  <1>1. /\ DOMAIN corpx' = Identifier /\ corpx'[x] = to
        /\ \A y \in Identifier : y # x => corpx'[y] = corpx[y]
    BY DEF DataTyped
  <1>2. \A y \in Identifier : corpx'[y] \in CorpxStates(y[1])
    BY <1>1 DEF DataTyped
  <1>3. \A s \in PixOrderStatus : backs(s, corpx[x]) => backs(s, to)
    BY DEF backs
  <1> QED
    BY <1>1, <1>2, <1>3 DEF Forward, exists

\* A move of CorpX, and the event it publishes, keep the invariant.
LEMMA CorpxSteps ==
    ASSUME ServiceInv,
           \/ \E x \in Identifier : CorpxMoves(x)
           \/ \E h \in Handler : create_at_corpx(h) \/ cancel_qr(h)
    PROVE  ServiceInv'
  <1> USE DEF ServiceInv
  <1>1. ASSUME NEW x \in Identifier, CorpxMoves(x) PROVE ServiceInv'
    <2>1. PICK m \in corpxMoves :
            /\ OrderType(x[1]) = m.kind /\ corpx[x] = m.from
            /\ corpx' = [corpx EXCEPT ![x] = m.to]
            /\ notices' = notices \cup {Event(x, type) : type \in m.publishes}
            /\ UNCHANGED <<tables, req, worker>>
      BY <1>1 DEF CorpxMoves
    <2>2. x[1] \in Order /\ x[2] \in 1..MaxCreates /\ x = <<x[1], x[2]>>
      BY DEF Identifier
    <2>3. /\ m.to \in CorpxStates(x[1]) /\ m.to # "none"
          /\ m.from \in {"active", "pending"} \/ (m.from = "timeout" /\ backs("TIMEOUT", m.to))
      BY <2>1 DEF corpxMoves, OrderType, CorpxStates, backs
    <2>4. \A type \in m.publishes : /\ type \in EventTypes /\ type # "internal-cancel"
                                    /\ backs(CORPX_EVENT_TO_STATUS(type), m.to)
      BY DEF corpxMoves, EventTypes, CORPX_EVENT_TO_STATUS, backs
    <2>5. /\ DOMAIN corpx' = Identifier /\ \A y \in Identifier : corpx'[y] \in CorpxStates(y[1])
          /\ corpx'[x] = m.to /\ Forward
      BY <2>1, <2>3, CorpxForward DEF tables
    <2>6. ASSUME NEW type \in m.publishes PROVE Published(Event(x, type))'
      <3>1. /\ Event(x, type) \in Events /\ Event(x, type).type = type
            /\ <<Event(x, type).order, Event(x, type).identifier>> = x
        BY <2>2, <2>4 DEF Event, Events
      <3> QED
        BY <2>4, <2>5, <3>1 DEF Published
    <2>7. \A e \in notices' : e \in notices \/ Published(e)'
      BY <2>1, <2>6
    <2>8. DOMAIN req' = Handler /\ \A h \in Handler : req'[h] = req[h]
      BY <2>1 DEF RequestsOK
    <2> QED
      BY <2>1, <2>5, <2>7, <2>8, ProviderStep
  <1>2. ASSUME NEW h \in Handler, create_at_corpx(h) PROVE ServiceInv'
    <2>0. RequestOK(req[h]) /\ req[h].pc = "creating" /\ UNCHANGED <<tables, worker, notices>>
      BY <1>2 DEF RequestsOK, create_at_corpx
    <2>1. PICK o \in Order : o = req[h].order
      BY <2>0 DEF RequestOK
    <2>2. PICK n \in 1..MaxCreates :
            /\ corpx[<<o, n>>] = "none"
            /\ corpx' = [corpx EXCEPT ![<<o, n>>] = IF o \in Deposit THEN "active" ELSE "pending"]
            /\ becomes(h, [pc |-> "created", order |-> o, identifier |-> n])
      BY <1>2, <2>1 DEF create_at_corpx
    <2> DEFINE q == [pc |-> "created", order |-> o, identifier |-> n]
               to == IF o \in Deposit THEN "active" ELSE "pending"
    <2>3. <<o, n>> \in Identifier /\ to \in CorpxStates(o) /\ to # "none"
      BY DEF Identifier, CorpxStates
    <2>4. /\ DOMAIN corpx' = Identifier /\ \A y \in Identifier : corpx'[y] \in CorpxStates(y[1])
          /\ corpx'[<<o, n>>] = to /\ Forward
      BY <2>0, <2>2, <2>3, CorpxForward DEF tables
    <2>5. "pc" \in DOMAIN q /\ q.pc = "created" /\ q.order = o /\ q.identifier = n
      OBVIOUS
    <2>6. becomes(h, q)
      BY <2>2
    <2> HIDE DEF q, to
    <2>7. RequestOK(q)'
      BY <2>3, <2>4, <2>5 DEF RequestOK
    <2>8. DOMAIN req' = Handler /\ \A i \in Handler : req'[i] = req[i] \/ RequestOK(req[i])'
      BY <2>6, <2>7, Becomes
    <2>9. \A e \in notices' : e \in notices
      BY <2>0
    <2> QED
      BY <2>0, <2>4, <2>8, <2>9, ProviderStep
  <1>3. ASSUME NEW h \in Handler, cancel_qr(h) PROVE ServiceInv'
    <2>0. RequestOK(req[h]) /\ req[h].pc = "cancelling" /\ UNCHANGED <<tables, worker>>
      BY <1>3 DEF RequestsOK, cancel_qr
    <2>1. PICK o \in Order : o = req[h].order /\ o \in Deposit /\ exists(o)
      BY <2>0 DEF RequestOK
    <2>2. PICK x \in Identifier : x = <<o, identifier[o]>>
      BY <2>1, OwnIdentifier
    <2>3. /\ corpx[x] = "active" /\ corpx' = [corpx EXCEPT ![x] = "cancelled"]
          /\ notices' = notices \cup {Event(x, "qrcode.cancelled")}
          /\ becomes(h, [pc |-> "cancelled", order |-> o])
      BY <1>3, <2>1, <2>2 DEF cancel_qr
    <2>4. "cancelled" \in CorpxStates(x[1])
      BY <2>1, <2>2 DEF CorpxStates
    <2>5. /\ DOMAIN corpx' = Identifier /\ \A y \in Identifier : corpx'[y] \in CorpxStates(y[1])
          /\ corpx'[x] = "cancelled" /\ Forward
      BY <2>0, <2>3, <2>4, CorpxForward DEF tables
    <2> DEFINE e == Event(x, "qrcode.cancelled")
               q == [pc |-> "cancelled", order |-> o]
    <2>6. /\ e \in Events /\ e.type = "qrcode.cancelled" /\ <<e.order, e.identifier>> = x
      BY <2>2 DEF Event, Events, EventTypes, Identifier
    <2>7. Published(e)'
      <3> HIDE DEF e
      <3> QED
        BY <2>5, <2>6 DEF Published, CORPX_EVENT_TO_STATUS, backs
    <2>8. \A i \in notices' : i \in notices \/ Published(i)'
      BY <2>3, <2>7
    <2>9. "pc" \in DOMAIN q /\ q.pc = "cancelled" /\ q.order = o /\ becomes(h, q)
      BY <2>3
    <2>10. exists(o)' /\ corpxState(o)' = "cancelled"
      BY <2>0, <2>1, <2>2, <2>5 DEF exists, corpxState, tables
    <2> HIDE DEF q
    <2>11. RequestOK(q)'
      BY <2>9, <2>10 DEF RequestOK
    <2>12. DOMAIN req' = Handler /\ \A i \in Handler : req'[i] = req[i] \/ RequestOK(req[i])'
      BY <2>9, <2>11, Becomes
    <2> QED
      BY <2>0, <2>5, <2>8, <2>12, ProviderStep
  <1> QED
    BY <1>1, <1>2, <1>3

----------------------------------------------------------------------------
(* The commits.                                                            *)

\* What a commit need not show: CorpX, the other requests and the workers.
LEMMA CommitStep ==
    ASSUME ServiceInv, NEW h \in Handler, returns(h), UNCHANGED <<worker, provider>>,
           Forward, DOMAIN outbox \subseteq DOMAIN outbox',
           DataTyped', OrdersOK', DepositsOK', RowsOK', EventAppliedOnce', OrderNotified'
    PROVE  ServiceInv'
  <1> USE DEF ServiceInv
  <1>1. NoticesOK'
    BY PublishedKept DEF NoticesOK, provider
  <1>2. /\ DOMAIN req' = Handler /\ req'[h] = Idle
        /\ \A i \in Handler : i # h => req'[i] = req[i]
    BY Becomes DEF returns
  <1>3. RequestOK(Idle)'
    BY DEF RequestOK, Idle
  <1>4. \A i \in Handler : req'[i] = req[i] \/ RequestOK(req[i])'
    BY <1>2, <1>3
  <1>5. RequestsOK'
    BY <1>2, <1>4, RequestsKept
  <1>6. WorkersOK'
    BY DEF WorkersOK, WorkerOK
  <1> QED
    BY <1>1, <1>5, <1>6

\* The COMMIT of a create.
LEMMA CreateCommit ==
    ASSUME ServiceInv, NEW h \in Handler, create_commit(h)
    PROVE  ServiceInv'
  <1> USE DEF ServiceInv
  <1>0. /\ RequestOK(req[h]) /\ req[h].pc = "created"
        /\ UNCHANGED <<events, outbox, worker, provider>> /\ returns(h)
    BY DEF RequestsOK, create_commit
  <1>1. PICK o \in Order, n \in 1..MaxCreates :
          o = req[h].order /\ n = req[h].identifier /\ corpx[<<o, n>>] # "none"
    BY <1>0 DEF RequestOK
  <1>2. PICK s \in {"PENDING_PAYMENT", "PROCESSING"} :
          /\ ~exists(o) /\ status' = [status EXCEPT ![o] = s]
          /\ identifier' = [identifier EXCEPT ![o] = n]
          /\ o \in Deposit => s = "PENDING_PAYMENT"
    BY <1>1 DEF create_commit
  <1>3. /\ status'[o] = s /\ identifier'[o] = n
        /\ \A k \in Order : k # o => status'[k] = status[k] /\ identifier'[k] = identifier[k]
        /\ status' \in [Order -> PixOrderStatus \cup {"NONE"}] /\ identifier' \in [Order -> 0..MaxCreates]
    BY <1>2, BoundAssumption, Statuses DEF DataTyped
  <1>4. corpx' = corpx /\ outbox' = outbox /\ events' = events
    BY <1>0 DEF provider
  <1>5. exists(o)' /\ \A k \in Order : k # o => (exists(k)' <=> exists(k))
    BY <1>3 DEF exists
  <1>6. Forward
    BY <1>2, <1>3, <1>4, <1>5 DEF Forward
  <1>7. DataTyped'
    BY <1>3, <1>4 DEF DataTyped
  <1>8. \A k \in Order : k # o => corpxState(k)' = corpxState(k)
    BY <1>3, <1>4 DEF corpxState
  <1>9. OrdersOK'
    <2>1. corpxState(o)' # "none" /\ identifier'[o] # 0
      BY <1>1, <1>3, <1>4, BoundAssumption DEF corpxState
    <2> QED
      BY <1>3, <1>5, <1>8, <2>1 DEF OrdersOK
  <1>10. DepositsOK'
    <2> SUFFICES ASSUME NEW k \in Deposit, exists(k)'
                 PROVE  status'[k] = "PENDING_PAYMENT" \/ backs(status'[k], corpxState(k)')
      BY DEF DepositsOK
    <2> QED
      BY <1>2, <1>3, <1>5, <1>8 DEF DepositsOK, Order
  <1>11. RowsOK'
    BY <1>4, <1>6, RowsKept
  <1>12. OrderNotified'
    <2> SUFFICES ASSUME NEW k \in Order, status'[k] \in TERMINAL_STATUSES \cup {"TIMEOUT"}
                 PROVE  \/ \E c \in DOMAIN outbox : outbox[c].order = k /\ outbox[c].status = status'[k]
                        \/ status'[k] = "CANCELED" /\ canceledHere(k)'
      BY <1>4 DEF OrderNotified
    <2>1. k # o
      BY <1>3 DEF TERMINAL_STATUSES
    <2>2. canceledHere(k)' <=> canceledHere(k)
      BY <1>3, <1>4, <2>1 DEF canceledHere
    <2> QED
      BY <1>3, <2>1, <2>2 DEF OrderNotified
  <1>13. EventAppliedOnce'
    BY <1>4 DEF EventAppliedOnce
  <1> QED
    BY <1>0, <1>4, <1>6, <1>7, <1>9, <1>10, <1>11, <1>12, <1>13, CommitStep

\* A status is written that CorpX backs or, for a withdrawal, that is nobody's.
LEMMA StatusCommit ==
    ASSUME ServiceInv, NEW o \in Order, exists(o), NEW s \in PixOrderStatus,
           status' = [status EXCEPT ![o] = s], UNCHANGED <<identifier, corpx>>,
           o \in Deposit => backs(s, corpxState(o))
    PROVE  /\ status' \in [Order -> PixOrderStatus \cup {"NONE"}]
           /\ status'[o] = s /\ \A k \in Order : k # o => status'[k] = status[k]
           /\ Forward /\ OrdersOK' /\ DepositsOK'
           /\ \A k \in Order : (exists(k)' <=> exists(k)) /\ corpxState(k)' = corpxState(k)
  <1> USE DEF ServiceInv
  <1>1. /\ status' \in [Order -> PixOrderStatus \cup {"NONE"}]
        /\ status'[o] = s /\ \A k \in Order : k # o => status'[k] = status[k]
    BY DEF DataTyped
  <1>2. \A k \in Order : (exists(k)' <=> exists(k)) /\ corpxState(k)' = corpxState(k)
    BY <1>1, Statuses DEF exists, corpxState
  <1>3. Forward
    BY <1>2 DEF Forward
  <1>4. OrdersOK'
    BY <1>2 DEF OrdersOK
  <1>5. DepositsOK'
    BY <1>1, <1>2 DEF DepositsOK, Order
  <1> QED
    BY <1>1, <1>2, <1>3, <1>4, <1>5

\* The COMMIT of a cancel.
LEMMA CancelCommit ==
    ASSUME ServiceInv, NEW h \in Handler, cancel_commit(h)
    PROVE  ServiceInv'
  <1> USE DEF ServiceInv
  <1>0. /\ RequestOK(req[h]) /\ req[h].pc = "cancelled" /\ returns(h)
        /\ UNCHANGED <<identifier, outbox, worker, provider>>
    BY DEF RequestsOK, cancel_commit
  <1>1. PICK o \in Order :
          o = req[h].order /\ exists(o) /\ (o \in Deposit => corpxState(o) = "cancelled")
    BY <1>0 DEF RequestOK
  <1>2. PICK e : e = Event(<<o, identifier[o]>>, "internal-cancel")
    OBVIOUS
  <1>3. events' = events \cup {e} /\ status' = [status EXCEPT ![o] = "CANCELED"]
    BY <1>1, <1>2 DEF cancel_commit
  <1>4. "CANCELED" \in PixOrderStatus /\ (o \in Deposit => backs("CANCELED", corpxState(o)))
    BY <1>1, Statuses DEF backs
  <1>5. corpx' = corpx /\ identifier' = identifier /\ outbox' = outbox
    BY <1>0 DEF provider
  <1>6. /\ status' \in [Order -> PixOrderStatus \cup {"NONE"}]
        /\ status'[o] = "CANCELED" /\ \A k \in Order : k # o => status'[k] = status[k]
        /\ Forward /\ OrdersOK' /\ DepositsOK'
    BY <1>1, <1>3, <1>4, <1>5, StatusCommit
  <1>7. e \in Events
    BY <1>1, <1>2, OwnIdentifier DEF Event, Events, EventTypes, Identifier
  <1>8. DataTyped'
    BY <1>3, <1>5, <1>6, <1>7 DEF DataTyped
  <1>9. RowsOK'
    BY <1>3, <1>5, <1>6, RowsKept
  <1>10. EventAppliedOnce'
    BY <1>5 DEF EventAppliedOnce
  <1>11. OrderNotified'
    <2> SUFFICES ASSUME NEW k \in Order, status'[k] \in TERMINAL_STATUSES \cup {"TIMEOUT"}
                 PROVE  \/ \E c \in DOMAIN outbox : outbox[c].order = k /\ outbox[c].status = status'[k]
                        \/ status'[k] = "CANCELED" /\ canceledHere(k)'
      BY <1>5 DEF OrderNotified
    <2>1. canceledHere(k) => canceledHere(k)'
      BY <1>3, <1>5 DEF canceledHere
    <2>2. canceledHere(o)'
      BY <1>2, <1>3, <1>5 DEF canceledHere
    <2> QED
      BY <1>6, <2>1, <2>2 DEF OrderNotified
  <1> QED
    BY <1>0, <1>5, <1>6, <1>8, <1>9, <1>10, <1>11, CommitStep

\* A row is added to the outbox.
LEMMA Enqueue ==
    ASSUME outbox \in Seq(Rows), NEW row \in Rows, outbox' = Append(outbox, row)
    PROVE  /\ outbox' \in Seq(Rows) /\ DOMAIN outbox' = DOMAIN outbox \cup {Len(outbox) + 1}
           /\ Len(outbox) + 1 \notin DOMAIN outbox
           /\ \A c \in DOMAIN outbox : outbox'[c] = outbox[c]
           /\ outbox'[Len(outbox) + 1] = row
  OBVIOUS

\* The COMMIT of a webhook or of a refresh, with the row it puts into the outbox.
LEMMA EventCommit ==
    ASSUME ServiceInv, NEW h \in Handler, commit_event(h)
    PROVE  ServiceInv'
  <1> USE DEF ServiceInv
  <1>0. /\ RequestOK(req[h]) /\ req[h].pc = "found" /\ returns(h)
        /\ UNCHANGED <<identifier, worker, provider>>
    BY DEF RequestsOK, commit_event
  <1>1. PICK e : e = req[h].event
    OBVIOUS
  <1> DEFINE keyed == req[h].keyed
  <1>2. /\ Published(e) /\ e \in Events /\ e.type # "internal-cancel" /\ identifier[e.order] = e.identifier
    BY <1>0, <1>1 DEF RequestOK, Published
  <1>3. PICK o \in Order : o = e.order
    BY <1>2 DEF Events
  <1>4. exists(o)
    <2>1. identifier[o] # 0
      BY <1>2, <1>3, BoundAssumption DEF Events
    <2> QED
      BY <2>1 DEF OrdersOK
  <1>5. PICK s \in PixOrderStatus : s = CORPX_EVENT_TO_STATUS(e.type)
    BY <1>2, EventStatus, Statuses
  <1>6. backs(s, corpxState(o))
    BY <1>2, <1>3, <1>5 DEF Published, corpxState
  <1>7. PICK cause : cause = IF keyed THEN {e} ELSE {}
    OBVIOUS
  <1>8. events' = events \cup cause /\ cause \cap events = {} /\ cause \subseteq Events
    BY <1>1, <1>2, <1>7 DEF commit_event
  <1>9. corpx' = corpx /\ identifier' = identifier
    BY <1>0 DEF provider
  <1>10. CASE is_transition_allowed(req[h].seen, s)
    <2> DEFINE row == [order |-> o, status |-> s, state |-> "PENDING", attempt_count |-> 0, cause |-> cause]
    <2>1. status' = [status EXCEPT ![o] = s] /\ outbox' = Append(outbox, row)
      BY <1>1, <1>3, <1>5, <1>7, <1>10 DEF commit_event, apply_corpx_event, enqueue_callback
    <2>2. row \in Rows
      BY <1>8, BoundAssumption DEF Rows
    <2>3. /\ row.order = o /\ row.status = s /\ row.state = "PENDING" /\ row.attempt_count = 0
          /\ row.cause = cause
      OBVIOUS
    <2> HIDE DEF row
    <2>4. /\ outbox' \in Seq(Rows) /\ DOMAIN outbox' = DOMAIN outbox \cup {Len(outbox) + 1}
          /\ Len(outbox) + 1 \notin DOMAIN outbox
          /\ \A c \in DOMAIN outbox : outbox'[c] = outbox[c]
          /\ outbox'[Len(outbox) + 1] = row
      BY <2>1, <2>2, Enqueue DEF DataTyped
    <2>5. PICK new : new = Len(outbox) + 1
      OBVIOUS
    <2>6. /\ status' \in [Order -> PixOrderStatus \cup {"NONE"}]
          /\ status'[o] = s /\ \A k \in Order : k # o => status'[k] = status[k]
          /\ Forward /\ OrdersOK' /\ DepositsOK'
          /\ \A k \in Order : (exists(k)' <=> exists(k)) /\ corpxState(k)' = corpxState(k)
      BY <1>4, <1>6, <1>9, <2>1, StatusCommit
    <2>7. DataTyped'
      BY <1>8, <1>9, <2>4, <2>6 DEF DataTyped
    <2>8. \A c \in DOMAIN outbox : outbox[c].order \in Order
      <3>1. \A c \in DOMAIN outbox : outbox[c] \in Rows
        BY DEF DataTyped
      <3> QED
        BY <3>1 DEF Rows
    <2>9. RowsOK'
      <3> SUFFICES ASSUME NEW c \in DOMAIN outbox', NEW r, r = outbox'[c]
                   PROVE  /\ exists(r.order)'
                          /\ backs(r.status, corpxState(r.order)')
                          /\ r.cause \subseteq events'
                          /\ r.state = "PENDING" => r.attempt_count < MaxAttempts
        BY DEF RowsOK
      <3>1. CASE c \in DOMAIN outbox
        <4>1. r = outbox[c] /\ r.order \in Order
          BY <2>4, <2>8, <3>1
        <4>2. /\ exists(r.order) /\ backs(r.status, corpxState(r.order)) /\ r.cause \subseteq events
              /\ r.state = "PENDING" => r.attempt_count < MaxAttempts
          BY <3>1, <4>1 DEF RowsOK
        <4> QED
          BY <1>8, <2>6, <4>1, <4>2
      <3>2. CASE c = new
        <4>1. 0 < MaxAttempts
          BY BoundAssumption
        <4>2. r = row
          BY <2>4, <2>5, <3>2
        <4> QED
          BY <1>4, <1>6, <1>8, <2>3, <2>6, <4>1, <4>2
      <3> QED
        BY <2>4, <2>5, <3>1, <3>2
    <2>10. EventAppliedOnce'
      <3> SUFFICES ASSUME NEW c \in DOMAIN outbox', NEW d \in DOMAIN outbox',
                          outbox'[c].cause \cap outbox'[d].cause # {}
                   PROVE  c = d
        BY DEF EventAppliedOnce
      <3>1. \A i \in DOMAIN outbox : outbox[i].cause \cap cause = {}
        BY <1>8 DEF RowsOK
      <3>2. \A i \in DOMAIN outbox' : (i \in DOMAIN outbox /\ outbox'[i] = outbox[i]) \/ (i = new /\ outbox'[i].cause = cause)
        BY <2>3, <2>4, <2>5
      <3> QED
        BY <3>1, <3>2 DEF EventAppliedOnce
    <2>11. OrderNotified'
      <3> SUFFICES ASSUME NEW k \in Order, status'[k] \in TERMINAL_STATUSES \cup {"TIMEOUT"}
                   PROVE  \/ \E c \in DOMAIN outbox' : outbox'[c].order = k /\ outbox'[c].status = status'[k]
                          \/ status'[k] = "CANCELED" /\ canceledHere(k)'
        BY DEF OrderNotified
      <3>1. canceledHere(k) => canceledHere(k)'
        BY <1>8, <1>9 DEF canceledHere
      <3>2. CASE k = o
        BY <2>3, <2>4, <2>5, <2>6, <3>2
      <3>3. CASE k # o
        BY <2>4, <2>6, <3>1, <3>3 DEF OrderNotified
      <3> QED
        BY <3>2, <3>3
    <2> QED
      BY <1>0, <2>4, <2>6, <2>7, <2>9, <2>10, <2>11, CommitStep
  <1>11. CASE ~is_transition_allowed(req[h].seen, s)
    <2>1. status' = status /\ outbox' = outbox
      BY <1>1, <1>5, <1>11 DEF commit_event, apply_corpx_event
    <2>2. \A k \in Order : (exists(k)' <=> exists(k)) /\ corpxState(k)' = corpxState(k)
      BY <1>9, <2>1 DEF exists, corpxState
    <2>3. Forward /\ OrdersOK' /\ DepositsOK'
      BY <1>9, <2>1, <2>2 DEF Forward, OrdersOK, DepositsOK, Order
    <2>4. DataTyped'
      BY <1>8, <1>9, <2>1 DEF DataTyped
    <2>5. RowsOK'
      BY <1>8, <2>1, <2>3, RowsKept
    <2>6. EventAppliedOnce'
      BY <2>1 DEF EventAppliedOnce
    <2>7. OrderNotified'
      <3>1. \A k \in Order : canceledHere(k) => canceledHere(k)'
        BY <1>8, <1>9 DEF canceledHere
      <3> QED
        BY <2>1, <3>1 DEF OrderNotified
    <2> QED
      BY <1>0, <2>1, <2>3, <2>4, <2>5, <2>6, <2>7, CommitStep
  <1> QED
    BY <1>10, <1>11

----------------------------------------------------------------------------
(* The workers.                                                            *)

CopyType == [id : Nat, attempt_count : Nat]
ResultType == [id : Nat, attempt_count : Nat, state : {"PENDING", "SENT", "FAILED"}]

\* What a step of a worker that commits nothing need not show.
LEMMA BatchStep ==
    ASSUME ServiceInv, UNCHANGED <<tables, req, provider>>,
           NEW w \in Worker, NEW k, worker' = [worker EXCEPT ![w] = k], WorkerOK(k)
    PROVE  ServiceInv'
  <1> USE DEF ServiceInv
  <1>1. /\ status' = status /\ identifier' = identifier /\ events' = events /\ outbox' = outbox
        /\ corpx' = corpx /\ notices' = notices /\ req' = req
    BY DEF tables, provider
  <1>2. /\ DOMAIN worker' = Worker /\ worker'[w] = k
        /\ \A v \in Worker : v # w => worker'[v] = worker[v]
    BY DEF WorkersOK
  <1>3. \A j : WorkerOK(j) => WorkerOK(j)'
    BY <1>1 DEF WorkerOK
  <1>4. WorkersOK'
    BY <1>2, <1>3 DEF WorkersOK
  <1>5. DataTyped' /\ EventAppliedOnce' /\ OrderNotified'
    BY <1>1 DEF DataTyped, EventAppliedOnce, OrderNotified, canceledHere
  <1>6. OrdersOK' /\ DepositsOK' /\ RowsOK'
    BY <1>1 DEF OrdersOK, DepositsOK, RowsOK, exists, corpxState
  <1>7. NoticesOK' /\ RequestsOK'
    BY <1>1 DEF NoticesOK, RequestsOK, RequestOK, Published, exists, corpxState
  <1> QED
    BY <1>4, <1>5, <1>6, <1>7

\* A worker reads its batch.
LEMMA BatchRead ==
    ASSUME ServiceInv, NEW w \in Worker, send_pending_callbacks(w)
    PROVE  ServiceInv'
  <1> USE DEF ServiceInv
  <1>0. /\ WorkerOK(worker[w]) /\ worker[w].batch = <<>> /\ worker[w].done = {} /\ worker[w].posting = 0
        /\ UNCHANGED <<tables, req, provider>>
    BY DEF WorkersOK, send_pending_callbacks
  <1> DEFINE size(due) == IF Cardinality(due) < BatchLimit THEN Cardinality(due) ELSE BatchLimit
             read(n, rows) == [worker EXCEPT ![w].batch =
                 [i \in 1..n |-> [id |-> rows[i], attempt_count |-> outbox[rows[i]].attempt_count]]]
             ordered(due, n, rows) == \A i \in 1..n : Cardinality({c \in due : c < rows[i]}) = i - 1
  <1>due. \E due \in SUBSET pending : \E rows \in [1..size(due) -> due] :
            ordered(due, size(due), rows) /\ worker' = read(size(due), rows)
    BY Zenon DEF send_pending_callbacks
  <1> HIDE DEF size, read, ordered
  <1>1. PICK due \in SUBSET pending : \E rows \in [1..size(due) -> due] : worker' = read(size(due), rows)
    BY <1>due
  <1>2. outbox \in Seq(Rows) /\ DOMAIN outbox = 1..Len(outbox) /\ Len(outbox) \in Nat
    BY DEF DataTyped
  <1>3. Cardinality(due) \in Nat
    <2>1. IsFiniteSet(DOMAIN outbox)
      BY <1>2, FS_Interval
    <2>2. due \subseteq DOMAIN outbox
      BY DEF pending
    <2> QED
      BY <2>1, <2>2, FS_Subset, FS_CardinalityType
  <1>4. PICK n \in Nat : n = size(due)
    BY <1>3, BoundAssumption DEF size
  <1> PICK rows \in [1..n -> due] : worker' = read(n, rows)
    BY <1>1, <1>4
  <1> DEFINE copy(i) == [id |-> rows[i], attempt_count |-> outbox[rows[i]].attempt_count]
             batch == [i \in 1..n |-> copy(i)]
  <1>5. ASSUME NEW i \in 1..n
        PROVE  copy(i) \in CopyType /\ copy(i).id \in DOMAIN outbox /\ copy(i).attempt_count < MaxAttempts
    <2>1. rows[i] \in DOMAIN outbox /\ rows[i] \in Nat /\ outbox[rows[i]].state = "PENDING"
      BY <1>2 DEF pending
    <2>2. outbox[rows[i]] \in Rows
      BY <1>2, <2>1
    <2>3. outbox[rows[i]].attempt_count \in Nat
      BY <2>2, BoundAssumption DEF Rows
    <2>4. outbox[rows[i]].attempt_count < MaxAttempts
      BY <2>1 DEF RowsOK
    <2> QED
      BY <2>1, <2>3, <2>4 DEF CopyType
  <1> HIDE DEF copy
  <1>6. /\ batch \in Seq(CopyType) /\ Len(batch) = n
        /\ \A i \in 1..Len(batch) : batch[i].id \in DOMAIN outbox /\ batch[i].attempt_count < MaxAttempts
    BY <1>5
  <1>7. worker' = [worker EXCEPT ![w].batch = batch]
    BY DEF copy, read
  <1> HIDE DEF batch
  <1> DEFINE k == [worker[w] EXCEPT !.batch = batch]
  <1>8. worker' = [worker EXCEPT ![w] = k]
    BY <1>7 DEF WorkersOK
  <1>9. /\ k \in [batch : Seq(CopyType), posting : Nat, done : SUBSET ResultType]
        /\ k.batch = batch /\ k.posting = 0 /\ k.done = {}
    BY <1>0, <1>6 DEF WorkerOK, CopyType, ResultType
  <1> HIDE DEF k
  <1>10. WorkerOK(k)
    BY <1>6, <1>9 DEF WorkerOK, CopyType, ResultType
  <1> QED
    BY <1>0, <1>8, <1>10, BatchStep

\* A worker sends a row, notes how the POST ended, or loses its batch.
LEMMA BatchPost ==
    ASSUME ServiceInv, NEW w \in Worker,
           attempt_send(w) \/ worker_rollback(w) \/ \E ok \in BOOLEAN : post_returns(w, ok)
    PROVE  ServiceInv'
  <1> USE DEF ServiceInv
  <1>0. /\ WorkerOK(worker[w]) /\ outbox \in Seq(Rows)
        /\ worker[w] \in [batch : Seq(CopyType), posting : Nat, done : SUBSET ResultType]
    BY DEF WorkersOK, WorkerOK, DataTyped, CopyType, ResultType
  <1>1. CASE attempt_send(w)
    <2> DEFINE k == [worker[w] EXCEPT !.posting = Head(worker[w].batch).id]
    <2>1. /\ worker[w].batch # <<>> /\ worker[w].batch \in Seq(CopyType)
          /\ Head(worker[w].batch) = worker[w].batch[1] /\ 1 \in 1..Len(worker[w].batch)
      BY <1>0, <1>1 DEF attempt_send
    <2>6. Head(worker[w].batch) \in CopyType
      BY <2>1
    <2>2. Head(worker[w].batch).id \in Nat
      BY <2>6 DEF CopyType
    <2>3. worker' = [worker EXCEPT ![w] = k]
      BY <1>1 DEF attempt_send, WorkersOK
    <2>4. /\ k \in [batch : Seq(CopyType), posting : Nat, done : SUBSET ResultType]
          /\ k.batch = worker[w].batch /\ k.posting = Head(worker[w].batch).id /\ k.done = worker[w].done
      BY <1>0, <2>2
    <2> HIDE DEF k
    <2>5. WorkerOK(k)
      BY <1>0, <2>1, <2>4 DEF WorkerOK, CopyType, ResultType
    <2> QED
      BY <1>0, <1>1, <2>3, <2>5, BatchStep DEF attempt_send
  <1>2. CASE worker_rollback(w)
    <2>1. WorkerOK([batch |-> <<>>, posting |-> 0, done |-> {}])
      BY DEF WorkerOK
    <2> QED
      BY <1>2, <2>1, BatchStep DEF worker_rollback
  <1>3. ASSUME NEW ok \in BOOLEAN, post_returns(w, ok) PROVE ServiceInv'
    <2>1. /\ worker[w].posting # 0 /\ worker[w].batch # <<>> /\ worker[w].batch \in Seq(CopyType)
          /\ UNCHANGED <<tables, req, provider>>
      BY <1>0, <1>3 DEF post_returns, WorkerOK
    <2>2. PICK row : row = Head(worker[w].batch)
      OBVIOUS
    <2>3. /\ row \in CopyType /\ row.id \in DOMAIN outbox
          /\ row.attempt_count < MaxAttempts /\ row.attempt_count \in Nat /\ row.id \in Nat
      <3>1. row = worker[w].batch[1] /\ 1 \in 1..Len(worker[w].batch) /\ row \in CopyType
        BY <2>1, <2>2
      <3> QED
        BY <1>0, <3>1 DEF WorkerOK, CopyType
    <2>4. PICK n \in Nat : n = row.attempt_count + 1 /\ n <= MaxAttempts
      BY <2>3, BoundAssumption
    <2>5. PICK s : s = IF ok THEN "SENT" ELSE state_after_failure(n)
      OBVIOUS
    <2>6. s \in {"PENDING", "SENT", "FAILED"} /\ (s = "PENDING" => n < MaxAttempts)
      BY <2>4, <2>5, BoundAssumption DEF state_after_failure
    <2> DEFINE d == [id |-> row.id, attempt_count |-> n, state |-> s]
               k == [batch |-> Tail(worker[w].batch), posting |-> 0, done |-> worker[w].done \cup {d}]
    <2>7. worker' = [worker EXCEPT ![w] = k]
      BY <1>3, <2>2, <2>4, <2>5 DEF post_returns
    <2>8. d \in ResultType /\ d.id = row.id /\ d.attempt_count = n /\ d.state = s
      BY <2>3, <2>6 DEF ResultType
    <2>9. /\ Tail(worker[w].batch) \in Seq(CopyType)
          /\ \A i \in 1..Len(Tail(worker[w].batch)) :
               i + 1 \in 1..Len(worker[w].batch) /\ Tail(worker[w].batch)[i] = worker[w].batch[i + 1]
      BY <2>1
    <2> HIDE DEF d
    <2>10. /\ k \in [batch : Seq(CopyType), posting : Nat, done : SUBSET ResultType]
           /\ k.batch = Tail(worker[w].batch) /\ k.posting = 0 /\ k.done = worker[w].done \cup {d}
      BY <1>0, <2>8, <2>9
    <2> HIDE DEF k
    <2>11. \A i \in 1..Len(k.batch) : k.batch[i].id \in DOMAIN outbox /\ k.batch[i].attempt_count < MaxAttempts
      <3>1. \A j \in 1..Len(worker[w].batch) :
              worker[w].batch[j].id \in DOMAIN outbox /\ worker[w].batch[j].attempt_count < MaxAttempts
        BY <1>0 DEF WorkerOK
      <3>2. k.batch = Tail(worker[w].batch)
        BY <2>10
      <3>3. ASSUME NEW i \in 1..Len(Tail(worker[w].batch))
            PROVE  /\ Tail(worker[w].batch)[i].id \in DOMAIN outbox
                   /\ Tail(worker[w].batch)[i].attempt_count < MaxAttempts
        <4>1. i + 1 \in 1..Len(worker[w].batch) /\ Tail(worker[w].batch)[i] = worker[w].batch[i + 1]
          BY <2>9
        <4> QED
          BY <3>1, <4>1
      <3> QED
        BY <3>2, <3>3
    <2>12. \A r \in k.done : /\ r.id \in DOMAIN outbox /\ r.attempt_count <= MaxAttempts
                             /\ r.state = "PENDING" => r.attempt_count < MaxAttempts
      BY <1>0, <2>3, <2>4, <2>6, <2>8, <2>10 DEF WorkerOK
    <2>13. WorkerOK(k)
      BY <2>10, <2>11, <2>12 DEF WorkerOK, CopyType, ResultType
    <2> QED
      BY <1>0, <2>1, <2>7, <2>13, BatchStep
  <1> QED
    BY <1>1, <1>2, <1>3


\* What a commit leaves of a row, and where a state it writes comes from.
LEMMA CommittedRow ==
    ASSUME ServiceInv, NEW w \in Worker, worker_commit(w), NEW c \in DOMAIN outbox
    PROVE  /\ outbox'[c] \in Rows
           /\ outbox'[c].order = outbox[c].order /\ outbox'[c].status = outbox[c].status
           /\ outbox'[c].cause = outbox[c].cause
           /\ outbox'[c].state = "PENDING" => outbox'[c].attempt_count < MaxAttempts
           /\ \/ outbox'[c].state = outbox[c].state
              \/ \E d \in worker[w].done : d.id = c /\ d.state = outbox'[c].state
  <1> USE DEF ServiceInv
  <1> DEFINE mine == {d \in worker[w].done : d.id = c}
             last == CHOOSE d \in mine : TRUE
  <1>0. outbox[c] \in Rows
    BY DEF DataTyped
  <1>1. outbox[c] \in Rows /\ (outbox[c].state = "PENDING" => outbox[c].attempt_count < MaxAttempts)
    BY <1>0 DEF RowsOK
  <1>2. outbox'[c] =
          IF mine = {} THEN outbox[c]
          ELSE [outbox[c] EXCEPT !.attempt_count = last.attempt_count,
                                 !.state = IF last.state = "PENDING" THEN @ ELSE last.state]
    BY DEF worker_commit
  <1>3. CASE mine = {}
    BY <1>1, <1>2, <1>3
  <1>4. CASE mine # {}
    <2>1. last \in mine
      BY <1>4
    <2>2. PICK d \in worker[w].done : d = last /\ d.id = c
      BY <2>1
    <2>3. outbox'[c] = [outbox[c] EXCEPT !.attempt_count = d.attempt_count,
                                         !.state = IF d.state = "PENDING" THEN @ ELSE d.state]
      BY <1>2, <1>4, <2>2
    <2> HIDE DEF mine, last
    <2>4. /\ d \in ResultType /\ d.attempt_count <= MaxAttempts
          /\ d.state = "PENDING" => d.attempt_count < MaxAttempts
      BY <2>2 DEF WorkersOK, WorkerOK, ResultType
    <2>5. d.attempt_count \in 0..MaxAttempts /\ d.state \in {"PENDING", "SENT", "FAILED"}
      BY <2>4, BoundAssumption DEF ResultType
    <2> DEFINE r == outbox[c]
               n == d.attempt_count
               s == d.state
               t == outbox'[c]
    <2>6. r \in Rows /\ n \in 0..MaxAttempts /\ s \in {"PENDING", "SENT", "FAILED"}
      BY <1>0, <2>5
    <2>7. t = [r EXCEPT !.attempt_count = n, !.state = IF s = "PENDING" THEN r.state ELSE s]
      BY <2>3
    <2> HIDE DEF r, n, s, t
    <2>8. /\ t \in Rows /\ t.order = r.order /\ t.status = r.status /\ t.cause = r.cause
          /\ t.attempt_count = n /\ t.state = IF s = "PENDING" THEN r.state ELSE s
      BY <2>6, <2>7 DEF Rows
    <2>9. /\ outbox'[c] \in Rows
          /\ outbox'[c].order = outbox[c].order /\ outbox'[c].status = outbox[c].status
          /\ outbox'[c].cause = outbox[c].cause /\ outbox'[c].attempt_count = d.attempt_count
          /\ outbox'[c].state = IF d.state = "PENDING" THEN outbox[c].state ELSE d.state
      BY <2>8 DEF r, n, s, t
    <2> QED
      BY <2>2, <2>4, <2>9
  <1> QED
    BY <1>3, <1>4

\* No row is removed, and none changes what it says.
RowsStay ==
    /\ DOMAIN outbox \subseteq DOMAIN outbox'
    /\ \A c \in DOMAIN outbox :
         /\ outbox'[c].order = outbox[c].order /\ outbox'[c].status = outbox[c].status
         /\ outbox'[c].cause = outbox[c].cause

\* A worker commits its batch.
LEMMA BatchCommit ==
    ASSUME ServiceInv, NEW w \in Worker, worker_commit(w)
    PROVE  ServiceInv' /\ RowsStay
  <1> USE DEF ServiceInv
  <1>1. /\ status' = status /\ identifier' = identifier /\ events' = events
        /\ corpx' = corpx /\ notices' = notices /\ req' = req
        /\ worker' = [worker EXCEPT ![w].done = {}]
    BY DEF worker_commit, provider
  <1>2. outbox \in Seq(Rows) /\ DOMAIN outbox = 1..Len(outbox) /\ Len(outbox) \in Nat
    BY DEF DataTyped
  <1>3. DOMAIN outbox' = DOMAIN outbox /\ outbox' = [c \in 1..Len(outbox) |-> outbox'[c]]
    BY <1>2 DEF worker_commit
  <1>4. /\ \A c \in DOMAIN outbox : outbox'[c] \in Rows
        /\ \A c \in DOMAIN outbox :
             /\ outbox'[c].order = outbox[c].order /\ outbox'[c].status = outbox[c].status
             /\ outbox'[c].cause = outbox[c].cause
        /\ \A c \in DOMAIN outbox : outbox'[c].state = "PENDING" => outbox'[c].attempt_count < MaxAttempts
    BY CommittedRow
  <1>5. outbox' \in Seq(Rows)
    BY <1>2, <1>3, <1>4
  <1>6. DataTyped'
    BY <1>1, <1>5 DEF DataTyped
  <1>7. OrdersOK' /\ DepositsOK'
    BY <1>1 DEF OrdersOK, DepositsOK, exists, corpxState
  <1>8. NoticesOK' /\ RequestsOK'
    BY <1>1 DEF NoticesOK, RequestsOK, RequestOK, Published, exists, corpxState
  <1>9. WorkersOK'
    <2> DEFINE k == [worker[w] EXCEPT !.done = {}]
    <2>1. DOMAIN worker' = Worker /\ worker'[w] = k /\ \A v \in Worker : v # w => worker'[v] = worker[v]
      BY <1>1 DEF WorkersOK
    <2>2. /\ k \in [batch : Seq(CopyType), posting : Nat, done : SUBSET ResultType]
          /\ k.batch = worker[w].batch /\ k.posting = worker[w].posting /\ k.done = {}
      BY DEF WorkersOK, WorkerOK, CopyType, ResultType
    <2> HIDE DEF k
    <2>3. WorkerOK(worker[w])
      BY DEF WorkersOK
    <2>4. WorkerOK(k)
      BY <2>2, <2>3 DEF WorkerOK, CopyType, ResultType
    <2>5. \A j : WorkerOK(j) => WorkerOK(j)'
      BY <1>3 DEF WorkerOK
    <2> QED
      BY <2>1, <2>4, <2>5 DEF WorkersOK
  <1>10. RowsOK'
    BY <1>1, <1>3, <1>4 DEF RowsOK, exists, corpxState
  <1>11. EventAppliedOnce'
    BY <1>3, <1>4 DEF EventAppliedOnce
  <1>12. OrderNotified'
    BY <1>1, <1>3, <1>4 DEF OrderNotified, canceledHere
  <1>13. RowsStay
    BY <1>3, <1>4 DEF RowsStay
  <1> QED
    BY <1>6, <1>7, <1>8, <1>9, <1>10, <1>11, <1>12, <1>13


----------------------------------------------------------------------------
(* The theorems.                                                           *)

\* The empty tables satisfy the invariant.
LEMMA InvInit == ServiceInit => ServiceInv
  <1> SUFFICES ASSUME ServiceInit PROVE ServiceInv
    OBVIOUS
  <1> USE DEF ServiceInit
  <1>1. DataTyped
    <2>1. outbox \in Seq(Rows)
      OBVIOUS
    <2>2. /\ 0 \in 0..MaxCreates
          /\ \A x \in Identifier : corpx[x] \in CorpxStates(x[1])
      BY BoundAssumption DEF CorpxStates
    <2> QED
      BY <2>1, <2>2 DEF DataTyped
  <1>2. OrdersOK /\ DepositsOK
    BY DEF OrdersOK, DepositsOK, exists, Order
  <1>3. NoticesOK /\ RowsOK /\ EventAppliedOnce
    BY DEF NoticesOK, RowsOK, EventAppliedOnce
  <1>4. RequestsOK
    BY IdleOK DEF RequestsOK
  <1>5. WorkersOK
    BY DEF WorkersOK, WorkerOK
  <1>6. OrderNotified
    BY DEF OrderNotified, TERMINAL_STATUSES
  <1> QED
    BY <1>1, <1>2, <1>3, <1>4, <1>5, <1>6 DEF ServiceInv

\* A step that leaves the service alone.
LEMMA InvUnchanged ==
    ASSUME ServiceInv, UNCHANGED serviceVars
    PROVE  ServiceInv'
  <1> USE DEF ServiceInv
  <1>1. /\ status' = status /\ identifier' = identifier /\ events' = events /\ outbox' = outbox
        /\ corpx' = corpx /\ notices' = notices /\ req' = req /\ worker' = worker
    BY DEF serviceVars, tables, provider
  <1>2. DataTyped' /\ OrdersOK' /\ DepositsOK'
    BY <1>1 DEF DataTyped, OrdersOK, DepositsOK, exists, corpxState
  <1>3. NoticesOK' /\ RequestsOK'
    BY <1>1 DEF NoticesOK, RequestsOK, RequestOK, Published, exists, corpxState
  <1>4. WorkersOK'
    BY <1>1 DEF WorkersOK, WorkerOK
  <1>5. RowsOK' /\ EventAppliedOnce' /\ OrderNotified'
    BY <1>1 DEF RowsOK, EventAppliedOnce, OrderNotified, exists, corpxState, canceledHere
  <1> QED
    BY <1>2, <1>3, <1>4, <1>5

\* Every step of a request keeps the invariant.
LEMMA InvRequest ==
    ASSUME ServiceInv, NEW h \in Handler, Request(h)
    PROVE  ServiceInv'
  <1>1. CASE create_at_corpx(h) \/ cancel_qr(h)
    BY <1>1, CorpxSteps
  <1>2. CASE create_commit(h)
    BY <1>2, CreateCommit
  <1>3. CASE commit_event(h)
    BY <1>3, EventCommit
  <1>4. CASE cancel_commit(h)
    BY <1>4, CancelCommit
  <1>5. CASE \/ \E e \in notices, keyed \in Keyed : receive_corpx_webhook(h, e, keyed)
             \/ \E o \in Order : cancel_order(h, o)
             \/ find_order_for_event(h) \/ lookup(h) \/ rollback(h)
    BY <1>5, Reads
  <1> QED
    BY <1>1, <1>2, <1>3, <1>4, <1>5 DEF Request

\* Every step of the service keeps the invariant.
LEMMA InvStep ==
    ASSUME ServiceInv, [ServiceNext]_serviceVars
    PROVE  ServiceInv'
  <1>1. CASE \E x \in Identifier : CorpxMoves(x)
    BY <1>1, CorpxSteps
  <1>2. ASSUME NEW h \in Handler, Request(h) PROVE ServiceInv'
    BY <1>2, InvRequest
  <1>3. ASSUME NEW h \in Handler, NEW o \in Order, create(h, o) \/ refresh_order(h, o) PROVE ServiceInv'
    BY <1>3, Reads
  <1>4. ASSUME NEW w \in Worker, WorkerStep(w) PROVE ServiceInv'
    BY <1>4, BatchRead, BatchPost, BatchCommit DEF WorkerStep
  <1>5. ASSUME NEW w \in Worker, worker_rollback(w) \/ \E ok \in BOOLEAN : post_returns(w, ok)
        PROVE  ServiceInv'
    BY <1>5, BatchPost
  <1>6. CASE UNCHANGED serviceVars
    BY <1>6, InvUnchanged
  <1> QED
    BY <1>1, <1>2, <1>3, <1>4, <1>5, <1>6 DEF ServiceNext

\* The invariant on which the properties rest.
LEMMA InvAlways == ServiceSpec => []ServiceInv
  BY InvInit, InvStep, PTL DEF ServiceSpec

\* A worker posts a row of the outbox, and what CorpX has published is typed.
LEMMA InvTyped == ServiceInv => ServiceTypeOK
  <1> SUFFICES ASSUME ServiceInv PROVE ServiceTypeOK
    OBVIOUS
  <1> USE DEF ServiceInv
  <1>1. ASSUME NEW w \in Worker PROVE worker[w].posting \in {0} \cup DOMAIN outbox
    <2>1. WorkerOK(worker[w])
      BY DEF WorkersOK
    <2> SUFFICES ASSUME worker[w].posting # 0 PROVE worker[w].posting \in DOMAIN outbox
      OBVIOUS
    <2>2. worker[w].batch # <<>> /\ worker[w].batch \in Seq(CopyType) /\ worker[w].posting = Head(worker[w].batch).id
      BY <2>1 DEF WorkerOK, CopyType
    <2>3. 1 \in 1..Len(worker[w].batch) /\ Head(worker[w].batch) = worker[w].batch[1]
      BY <2>2
    <2> QED
      BY <2>1, <2>2, <2>3 DEF WorkerOK
  <1>2. \A h \in Handler : "pc" \in DOMAIN req[h]
    BY DEF RequestsOK, RequestOK
  <1>3. notices \subseteq Events
    BY DEF NoticesOK, Published
  <1> QED
    BY <1>1, <1>2, <1>3 DEF ServiceTypeOK, DataTyped

\* The tables keep their shape, for any number of orders, requests and
\* workers; attempt_count stays within callback_max_attempts.
THEOREM ServiceTypeCorrect == ServiceSpec => []ServiceTypeOK
  BY InvAlways, InvTyped, PTL

\* No webhook is applied twice, whatever CorpX delivers again and however the
\* requests that handle it interleave.
THEOREM WebhookAppliedOnce == ServiceSpec => []EventAppliedOnce
  <1>1. ServiceInv => EventAppliedOnce
    BY DEF ServiceInv
  <1> QED
    BY <1>1, InvAlways, PTL

\* An order that has left its first status has a callback that says so, or
\* was cancelled by the API itself.
THEOREM OutboxComplete == ServiceSpec => []OrderNotified
  <1>1. ServiceInv => OrderNotified
    BY DEF ServiceInv
  <1> QED
    BY <1>1, InvAlways, PTL

\* What the rows of the outbox say is what CorpX says.
LEMMA InvTruthful == ServiceInv => CallbackTruthful
  <1> SUFFICES ASSUME ServiceInv, NEW c \in DOMAIN outbox, NEW x, x = corpxState(outbox[c].order),
                      NEW s, s = outbox[c].status
               PROVE  CASE s = "CONFIRMED" -> x \in {"paid", "completed"}
                        [] s = "FAILED"    -> x \in {"failed", "unrefunded"}
                        [] s = "EXPIRED"   -> x = "expired"
                        [] s = "CANCELED"  -> x = "cancelled"
                        [] s = "REFUNDED"  -> x = "refunded"
                        [] OTHER -> x \notin {"none", "pending"}
    BY DEF CallbackTruthful
  <1>1. backs(s, x)
    BY DEF ServiceInv, RowsOK
  <1> QED
    BY <1>1 DEF backs

\* No callback says of a payment what CorpX does not.
THEOREM CallbacksTruthful == ServiceSpec => []CallbackTruthful
  BY InvAlways, InvTruthful, PTL

\* A deposit that has been paid is never recorded as canceled or expired.
THEOREM PaidDepositsKept == ServiceSpec => []PaidDepositKept
  <1>1. ServiceInv => PaidDepositKept
    <2> SUFFICES ASSUME ServiceInv, NEW o \in Deposit, exists(o), corpxState(o) = "paid"
                 PROVE  status[o] \in {"PENDING_PAYMENT", "CONFIRMED"}
      BY DEF PaidDepositKept
    <2>1. status[o] = "PENDING_PAYMENT" \/ backs(status[o], corpxState(o))
      BY DEF ServiceInv, DepositsOK
    <2> QED
      BY <2>1 DEF backs
  <1> QED
    BY <1>1, InvAlways, PTL

\* A step that changes identifier is the commit of a create that found no row.
LEMMA IdentifierWrites ==
    ASSUME ServiceInv, ServiceNext
    PROVE  identifier' = identifier \/ \E h \in Handler : create_commit(h)
  BY DEF ServiceNext, Request, WorkerStep, tables, CorpxMoves, create, create_at_corpx,
         receive_corpx_webhook, find_order_for_event, refresh_order, lookup, commit_event, cancel_order,
         cancel_qr, cancel_commit, rollback, send_pending_callbacks, attempt_send, post_returns,
         worker_commit, worker_rollback

\* A row keeps the QR or Pix Out it was created with.
THEOREM IdentifiersFixed == ServiceSpec => IdentifierFixed
  <1>1. ASSUME ServiceInv, [ServiceNext]_serviceVars
        PROVE  [\A o \in Order : exists(o) => identifier'[o] = identifier[o]]_serviceVars
    <2> SUFFICES ASSUME ServiceNext, NEW o \in Order, exists(o) PROVE identifier'[o] = identifier[o]
      BY <1>1
    <2>1. CASE identifier' = identifier
      BY <2>1
    <2>2. ASSUME NEW h \in Handler, create_commit(h) PROVE identifier'[o] = identifier[o]
      <3>1. req[h].order # o
        BY <2>2 DEF create_commit
      <3>2. identifier' = [identifier EXCEPT ![req[h].order] = req[h].identifier]
        BY <2>2 DEF create_commit
      <3> QED
        BY <1>1, <3>1, <3>2 DEF ServiceInv, DataTyped
    <2> QED
      BY <1>1, <2>1, <2>2, IdentifierWrites
  <1> QED
    BY <1>1, InvAlways, PTL DEF ServiceSpec, IdentifierFixed

\* CorpX is in one final state, so it backs one terminal status only.
LEMMA OneEnd ==
    ASSUME NEW s, NEW t, NEW x, backs(s, x), backs(t, x), is_terminal(s), t # "TIMEOUT"
    PROVE  s = t
  BY DEF backs, is_terminal, TERMINAL_STATUSES

\* The API is never told two ends of one order.
THEOREM OutcomesAgree == ServiceSpec => []OneOutcome
  <1>1. ServiceInv => OneOutcome
    <2> SUFFICES ASSUME ServiceInv, NEW c \in DOMAIN outbox, NEW d \in DOMAIN outbox,
                        outbox[c].order = outbox[d].order,
                        is_terminal(outbox[c].status), is_terminal(outbox[d].status)
                 PROVE  outbox[c].status = outbox[d].status
      BY DEF OneOutcome
    <2>1. /\ backs(outbox[c].status, corpxState(outbox[c].order))
          /\ backs(outbox[d].status, corpxState(outbox[c].order))
      BY DEF ServiceInv, RowsOK
    <2>2. outbox[d].status # "TIMEOUT"
      BY DEF is_terminal, TERMINAL_STATUSES
    <2> QED
      BY <2>1, <2>2, OneEnd
  <1> QED
    BY <1>1, InvAlways, PTL

\* A terminal status is what CorpX says of the order, unless it is the CANCELED
\* of a withdrawal, of which CorpX is not told.
LEMMA TerminalBacked ==
    ASSUME ServiceInv, NEW o \in Order, is_terminal(status[o]), o \in Withdrawal => status[o] # "CANCELED"
    PROVE  backs(status[o], corpxState(o)) /\ exists(o)
  <1>1. status[o] \in TERMINAL_STATUSES /\ exists(o)
    BY DEF is_terminal, TERMINAL_STATUSES, exists
  <1>2. CASE o \in Deposit
    BY <1>1, <1>2 DEF ServiceInv, DepositsOK, TERMINAL_STATUSES
  <1>3. CASE o \in Withdrawal
    <2>1. PICK c \in DOMAIN outbox : outbox[c].order = o /\ outbox[c].status = status[o]
      BY <1>1, <1>3 DEF ServiceInv, OrderNotified
    <2> QED
      BY <1>1, <2>1 DEF ServiceInv, RowsOK
  <1> QED
    BY <1>2, <1>3 DEF Order

\* A step that changes status is a commit.
LEMMA StatusWrites ==
    ASSUME ServiceNext
    PROVE  \/ status' = status
           \/ \E h \in Handler : create_commit(h) \/ commit_event(h) \/ cancel_commit(h)
  BY DEF ServiceNext, Request, WorkerStep, tables, CorpxMoves, create, create_at_corpx,
         receive_corpx_webhook, find_order_for_event, refresh_order, lookup, cancel_order,
         cancel_qr, rollback, send_pending_callbacks, attempt_send, post_returns,
         worker_commit, worker_rollback

\* What a commit may make of an order that has ended.
LEMMA TerminalStep ==
    ASSUME ServiceInv, ServiceNext, NEW o \in Order, is_terminal(status[o]), status'[o] # status[o]
    PROVE  o \in Withdrawal /\ (status'[o] = "TIMEOUT" \/ "CANCELED" \in {status[o], status'[o]})
  <1>0. status \in [Order -> PixOrderStatus \cup {"NONE"}] /\ exists(o)
    BY DEF ServiceInv, DataTyped, is_terminal, TERMINAL_STATUSES, exists
  <1>1. ASSUME NEW h \in Handler, create_commit(h) PROVE FALSE
    BY <1>0, <1>1 DEF create_commit
  <1>2. ASSUME NEW h \in Handler, commit_event(h)
        PROVE  o \in Withdrawal /\ (status'[o] = "TIMEOUT" \/ status[o] = "CANCELED")
    <2>1. PICK e, t : /\ e = req[h].event /\ t = CORPX_EVENT_TO_STATUS(e.type)
                      /\ status' = [status EXCEPT ![e.order] = t]
      BY <1>2 DEF commit_event, apply_corpx_event
    <2>2. e.order = o /\ status'[o] = t
      BY <1>0, <2>1
    <2>3. Published(e) /\ identifier[o] = e.identifier
      BY <1>2, <2>1, <2>2 DEF ServiceInv, RequestsOK, RequestOK, commit_event
    <2>4. backs(t, corpxState(o))
      BY <2>1, <2>2, <2>3 DEF Published, corpxState
    <2>5. corpxState(o) \in CorpxStates(o)
      BY <1>0, OwnIdentifier DEF ServiceInv, DataTyped, corpxState
    <2>6. CASE o \in Deposit
      <3>1. backs(status[o], corpxState(o))
        BY <2>6, TerminalBacked, OrderAssumption
      <3>2. t # "TIMEOUT"
        BY <2>4, <2>5, <2>6 DEF backs, CorpxStates
      <3> QED
        BY <2>2, <2>4, <3>1, <3>2, OneEnd
    <2>7. CASE o \in Withdrawal /\ status[o] # "CANCELED" /\ t # "TIMEOUT"
      <3>1. backs(status[o], corpxState(o))
        BY <2>7, TerminalBacked
      <3> QED
        BY <2>2, <2>4, <2>7, <3>1, OneEnd
    <2> QED
      BY <2>2, <2>6, <2>7 DEF Order
  <1>3. ASSUME NEW h \in Handler, cancel_commit(h) PROVE o \in Withdrawal /\ status'[o] = "CANCELED"
    <2>1. status' = [status EXCEPT ![req[h].order] = "CANCELED"] /\ req[h].pc = "cancelled"
      BY <1>3 DEF cancel_commit
    <2>2. req[h].order = o /\ status'[o] = "CANCELED"
      BY <1>0, <2>1
    <2>3. CASE o \in Deposit
      <3>1. corpxState(o) = "cancelled"
        BY <2>1, <2>2, <2>3 DEF ServiceInv, RequestsOK, RequestOK
      <3>2. backs(status[o], corpxState(o))
        BY <2>3, TerminalBacked, OrderAssumption
      <3>3. backs("CANCELED", corpxState(o))
        BY <3>1 DEF backs
      <3> QED
        BY <2>2, <3>2, <3>3, OneEnd
    <2> QED
      BY <2>2, <2>3 DEF Order
  <1> QED
    BY <1>1, <1>2, <1>3, StatusWrites

\* The end of an order is final, although its requests write what they decided
\* from a status read before: of a deposit always, of a withdrawal but for a
\* CANCELED and for a stale TIMEOUT (apply_corpx_event, cancel_order).
THEOREM TerminalsKept == ServiceSpec => TerminalKept
  <1>1. ServiceInv /\ [ServiceNext]_serviceVars =>
          [\A o \in Order :
             is_terminal(status[o]) =>
                 \/ status'[o] = status[o]
                 \/ /\ o \in Withdrawal
                    /\ status'[o] = "TIMEOUT" \/ "CANCELED" \in {status[o], status'[o]}]_serviceVars
    BY TerminalStep
  <1> QED
    BY <1>1, InvAlways, PTL DEF ServiceSpec, TerminalKept


\* A row is SENT because it was, or because a worker's batch says so.
SentByWorker ==
    \A c \in DOMAIN outbox' : outbox'[c].state = "SENT" =>
        \/ c \in DOMAIN outbox /\ outbox[c].state = "SENT"
        \/ \E w \in Worker : \E d \in worker[w].done : d.id = c /\ d.state = "SENT"

\* Rows are written by the commits of events and of batches alone.
LEMMA OutboxWrites ==
    ASSUME ServiceNext
    PROVE  \/ outbox' = outbox
           \/ \E h \in Handler : commit_event(h)
           \/ \E w \in Worker : worker_commit(w)
  BY DEF ServiceNext, Request, WorkerStep, tables, CorpxMoves, create, create_at_corpx,
         receive_corpx_webhook, find_order_for_event, refresh_order, lookup, create_commit, cancel_order,
         cancel_qr, cancel_commit, rollback, send_pending_callbacks, attempt_send, post_returns,
         worker_rollback

\* What the rows of the outbox go through in a step of the service.
LEMMA RowsOfStep ==
    ASSUME ServiceInv, [ServiceNext]_serviceVars
    PROVE  RowsStay /\ SentByWorker
  <1> USE DEF ServiceInv
  <1>1. CASE outbox' = outbox
    BY <1>1 DEF RowsStay, SentByWorker
  <1>2. ASSUME NEW h \in Handler, commit_event(h), outbox' # outbox PROVE RowsStay /\ SentByWorker
    <2>1. PICK o, s, cause :
            outbox' = Append(outbox, [order |-> o, status |-> s, state |-> "PENDING",
                                      attempt_count |-> 0, cause |-> cause])
      BY <1>2 DEF commit_event, apply_corpx_event, enqueue_callback
    <2> DEFINE row == [order |-> o, status |-> s, state |-> "PENDING", attempt_count |-> 0, cause |-> cause]
    <2>2. row.state = "PENDING"
      OBVIOUS
    <2> HIDE DEF row
    <2>3. outbox' = Append(outbox, row) /\ outbox \in Seq(Rows)
      BY <2>1 DEF row, DataTyped
    <2>4. /\ DOMAIN outbox' = DOMAIN outbox \cup {Len(outbox) + 1}
          /\ \A c \in DOMAIN outbox : outbox'[c] = outbox[c]
          /\ outbox'[Len(outbox) + 1] = row
      BY <2>3
    <2> QED
      BY <2>2, <2>4 DEF RowsStay, SentByWorker
  <1>3. ASSUME NEW w \in Worker, worker_commit(w) PROVE RowsStay /\ SentByWorker
    <2>1. RowsStay
      BY <1>3, BatchCommit
    <2>2. DOMAIN outbox' = DOMAIN outbox
      BY <1>3 DEF worker_commit
    <2>3. \A c \in DOMAIN outbox :
            \/ outbox'[c].state = outbox[c].state
            \/ \E d \in worker[w].done : d.id = c /\ d.state = outbox'[c].state
      BY <1>3, CommittedRow
    <2> QED
      BY <2>1, <2>2, <2>3 DEF SentByWorker
  <1>4. UNCHANGED serviceVars => outbox' = outbox
    BY DEF serviceVars, tables
  <1> QED
    BY <1>1, <1>2, <1>3, <1>4, OutboxWrites

----------------------------------------------------------------------------
(* The service and the API together.                                       *)

StatusType == {"NONE", "PENDING_PAYMENT", "PROCESSING", "APPROVED", "COMPLETED", "FAILED", "EXPIRED"}

CallbackType == [id : Nat, order : Order, status : PixOrderStatus]

ApiTyped ==
    /\ transaction \in [Order -> StatusType]
    /\ pixOrderId \subseteq Order
    /\ webhookEvent \subseteq DOMAIN outbox
    /\ mintFailed \subseteq Deposit
    /\ mintLog \in Seq(CallbackType)
    /\ wire \in [Worker -> {"idle", "sent", "handling", "acked"}]

\* A handler works on the callback of an event that is on record, and has
\* minted only for a confirmed deposit.
HandlingOK ==
    \A r \in handling : \E c \in webhookEvent, pc \in {"persisted", "minted"} :
        /\ r = [callback |-> callback(c), pc |-> pc]
        /\ pc = "minted" => Api!mints(callback(c))

\* An event is handled by one handler at a time ...
HandledOnce == \A r, s \in handling : r.callback.id = s.callback.id => r = s

\* ... and the one that has still to mint is the first.
NotYetMinted ==
    \A r \in handling : r.pc = "persisted" => \A i \in DOMAIN mintLog : mintLog[i] # r.callback

\* Every mint is for the callback of a confirmed deposit.
MintsOK ==
    \A i \in DOMAIN mintLog : \E c \in webhookEvent : mintLog[i] = callback(c) /\ Api!mints(callback(c))

\* A worker that has an answer has it for an event on record.
WireOK ==
    \A w \in Worker :
        /\ wire[w] # "idle" => worker[w].posting # 0
        /\ wire[w] \in {"handling", "acked"} => worker[w].posting \in webhookEvent
        /\ \A d \in worker[w].done : d.state = "SENT" => d.id \in webhookEvent

\* What a withdrawal's transaction says is what a row of the outbox says.
WithdrawalsOK ==
    \A o \in Withdrawal :
        /\ transaction[o] = "COMPLETED" =>
              \E c \in DOMAIN outbox : outbox[c].order = o /\ outbox[c].status = "CONFIRMED"
        /\ transaction[o] = "FAILED" =>
              \E c \in DOMAIN outbox : outbox[c].order = o /\ outbox[c].status = "FAILED"

FlowInv ==
    /\ ServiceInv
    /\ ApiTyped /\ HandlingOK /\ HandledOnce /\ NotYetMinted /\ MintsOK
    /\ MintOncePerCallback
    /\ WireOK
    /\ SentMeansReceived
    /\ WithdrawalsOK


----------------------------------------------------------------------------
(* What the two sides leave of each other's state.                         *)

\* A step of the whole is a step of the service or leaves it alone.
LEMMA ServiceSteps ==
    ASSUME [Next]_vars
    PROVE  [ServiceNext]_serviceVars
  <1>1. CASE ServiceStep
    BY <1>1 DEF ServiceStep, ServiceNext
  <1>2. ASSUME NEW o \in Order, CreateAnswered(o) PROVE UNCHANGED serviceVars
    BY <1>2 DEF CreateAnswered
  <1>3. ASSUME NEW h \in Handler, NEW o \in Order, CreateOrder(h, o) \/ RefreshPixOrder(h, o)
        PROVE  ServiceNext
    BY <1>3 DEF CreateOrder, RefreshPixOrder, ServiceNext
  <1>4. ASSUME NEW w \in Worker, Loop(w) \/ Post(w) PROVE ServiceNext
    BY <1>4 DEF Loop, Post, WorkerStep, ServiceNext
  <1>5. ASSUME NEW w \in Worker, Acknowledged(w) \/ GiveUp(w) \/ BatchLost(w) PROVE ServiceNext
    BY <1>5 DEF Acknowledged, GiveUp, BatchLost, ServiceNext
  <1>6. ASSUME NEW w \in Worker, Receive(w) PROVE UNCHANGED serviceVars
    BY <1>6 DEF Receive
  <1>7. ASSUME NEW r \in handling, Handle(r.callback) \/ Crash(r.callback) PROVE UNCHANGED serviceVars
    BY <1>7 DEF Handle, Crash
  <1>8. CASE UNCHANGED vars
    BY <1>8 DEF vars
  <1> QED
    BY <1>1, <1>2, <1>3, <1>4, <1>5, <1>6, <1>7, <1>8 DEF Next

\* The body of the POST of a row is the same every time it is sent.
LEMMA CallbackKept ==
    ASSUME RowsStay, NEW c \in DOMAIN outbox
    PROVE  c \in DOMAIN outbox' /\ callback(c)' = callback(c)
  BY DEF RowsStay, callback

\* What the records of the API owe to the outbox, while they are left alone.
LEMMA RecordsKept ==
    ASSUME FlowInv, RowsStay, UNCHANGED <<webhookEvent, handling, mintLog>>
    PROVE  /\ webhookEvent' \subseteq DOMAIN outbox'
           /\ HandlingOK' /\ HandledOnce' /\ NotYetMinted' /\ MintsOK' /\ MintOncePerCallback'
  <1> USE DEF FlowInv
  <1>1. \A c \in webhookEvent : c \in DOMAIN outbox' /\ callback(c)' = callback(c)
    BY CallbackKept DEF ApiTyped
  <1>2. \A c \in webhookEvent : Api!mints(callback(c))' <=> Api!mints(callback(c))
    BY <1>1 DEF Api!mints, Api!isDeposit
  <1>3. HandlingOK'
    BY <1>1, <1>2 DEF HandlingOK
  <1>4. MintsOK'
    BY <1>1, <1>2 DEF MintsOK
  <1>5. HandledOnce' /\ NotYetMinted' /\ MintOncePerCallback'
    BY DEF HandledOnce, NotYetMinted, MintOncePerCallback, IsInjective
  <1> QED
    BY <1>1, <1>3, <1>4, <1>5

\* A row that is SENT has been received, while no event is forgotten.
LEMMA SentKept ==
    ASSUME FlowInv, SentByWorker, webhookEvent \subseteq webhookEvent'
    PROVE  SentMeansReceived'
  BY DEF FlowInv, SentByWorker, SentMeansReceived, WireOK

\* No transaction of a withdrawal is moved to an end.
LEMMA WithdrawalsKept ==
    ASSUME FlowInv, RowsStay,
           \A o \in Withdrawal :
              transaction'[o] = transaction[o] \/ transaction'[o] \notin {"COMPLETED", "FAILED"}
    PROVE  WithdrawalsOK'
  BY DEF FlowInv, RowsStay, WithdrawalsOK

\* One worker goes on with its batch; k is what it is then doing.
LEMMA WireStep ==
    ASSUME FlowInv, NEW w \in Worker, NEW k, NEW s \in {"idle", "sent", "handling", "acked"},
           worker' = [worker EXCEPT ![w] = k], wire' = [wire EXCEPT ![w] = s],
           webhookEvent' = webhookEvent,
           s # "idle" => k.posting # 0,
           s \in {"handling", "acked"} => k.posting \in webhookEvent,
           \A d \in k.done : d.state = "SENT" => d.id \in webhookEvent
    PROVE  WireOK' /\ wire' \in [Worker -> {"idle", "sent", "handling", "acked"}]
  <1> USE DEF FlowInv
  <1>1. /\ worker'[w] = k /\ wire'[w] = s
        /\ \A v \in Worker : v # w => worker'[v] = worker[v] /\ wire'[v] = wire[v]
        /\ wire' \in [Worker -> {"idle", "sent", "handling", "acked"}]
    BY DEF ApiTyped, ServiceInv, WorkersOK
  <1> QED
    BY <1>1 DEF WireOK

\* The service moves, the API does not.
LEMMA ServiceSide ==
    ASSUME FlowInv, [ServiceNext]_serviceVars, UNCHANGED apiVars,
           WireOK', wire' \in [Worker -> {"idle", "sent", "handling", "acked"}]
    PROVE  FlowInv'
  <1>0. ServiceInv' /\ RowsStay /\ SentByWorker
    BY InvStep, RowsOfStep DEF FlowInv
  <1>1. /\ transaction' = transaction /\ pixOrderId' = pixOrderId /\ webhookEvent' = webhookEvent
        /\ handling' = handling /\ mintLog' = mintLog /\ mintFailed' = mintFailed
    BY DEF apiVars
  <1>2. /\ webhookEvent' \subseteq DOMAIN outbox'
        /\ HandlingOK' /\ HandledOnce' /\ NotYetMinted' /\ MintsOK' /\ MintOncePerCallback'
    BY <1>0, <1>1, RecordsKept
  <1>3. SentMeansReceived' /\ WithdrawalsOK'
    BY <1>0, <1>1, SentKept, WithdrawalsKept
  <1>4. ApiTyped'
    BY <1>1, <1>2 DEF FlowInv, ApiTyped
  <1> QED
    BY <1>0, <1>2, <1>3, <1>4 DEF FlowInv


----------------------------------------------------------------------------
(* The steps of the service.                                               *)

\* CorpX and the requests leave the workers alone.
LEMMA RequestsSpareWorkers ==
    ASSUME (\E x \in Identifier : CorpxMoves(x)) \/ \E h \in Handler : Request(h)
    PROVE  worker' = worker
  BY DEF Request, CorpxMoves, create_at_corpx, create_commit, receive_corpx_webhook, find_order_for_event,
         cancel_order, lookup, commit_event, cancel_qr, cancel_commit, rollback

\* CorpX and the requests of the service.
LEMMA ServiceStepKeeps ==
    ASSUME FlowInv, [Next]_vars,
           ServiceStep \/ (\E h \in Handler, o \in Order : RefreshPixOrder(h, o)) \/ UNCHANGED vars
    PROVE  FlowInv'
  <1>1. worker' = worker /\ wire' = wire /\ UNCHANGED apiVars
    BY RequestsSpareWorkers DEF ServiceStep, RefreshPixOrder, refresh_order, vars, serviceVars
  <1>2. webhookEvent' = webhookEvent
    BY <1>1 DEF apiVars
  <1>3. WireOK' /\ wire' \in [Worker -> {"idle", "sent", "handling", "acked"}]
    BY <1>1, <1>2 DEF FlowInv, WireOK, ApiTyped
  <1> QED
    BY <1>1, <1>3, ServiceSteps, ServiceSide

\* The worker's copy of the row it is posting.
LEMMA PostedRow ==
    ASSUME ServiceInv, NEW w \in Worker, worker[w].batch # <<>>
    PROVE  Head(worker[w].batch).id \in DOMAIN outbox /\ Head(worker[w].batch).id # 0
  <1>1. /\ WorkerOK(worker[w]) /\ worker[w].batch \in Seq(CopyType)
        /\ DOMAIN outbox = 1..Len(outbox) /\ Len(outbox) \in Nat
    BY DEF ServiceInv, WorkersOK, WorkerOK, CopyType, DataTyped
  <1>2. 1 \in 1..Len(worker[w].batch) /\ Head(worker[w].batch) = worker[w].batch[1]
    BY <1>1
  <1>3. worker[w].batch[1].id \in DOMAIN outbox
    BY <1>1, <1>2 DEF WorkerOK
  <1> QED
    BY <1>1, <1>2, <1>3

\* A worker that reads or commits its batch.
LEMMA LoopKeeps ==
    ASSUME FlowInv, [Next]_vars, NEW w \in Worker, Loop(w)
    PROVE  FlowInv'
  <1>0. /\ wire' = wire /\ UNCHANGED apiVars /\ webhookEvent' = webhookEvent
        /\ DOMAIN worker = Worker /\ WireOK
        /\ wire \in [Worker -> {"idle", "sent", "handling", "acked"}]
        /\ worker[w] \in [batch : Seq(CopyType), posting : Nat, done : SUBSET ResultType]
    BY DEF Loop, apiVars, FlowInv, ServiceInv, WorkersOK, WorkerOK, ApiTyped, CopyType, ResultType
  <1>1. \E f : worker' = [worker EXCEPT ![w].batch = f] \/ worker' = [worker EXCEPT ![w].done = {}]
    BY DEF Loop, send_pending_callbacks, worker_commit
  <1>2. /\ \A v \in Worker : v # w => worker'[v] = worker[v]
        /\ worker'[w].posting = worker[w].posting /\ worker'[w].done \subseteq worker[w].done
    BY <1>0, <1>1
  <1>3. WireOK' /\ wire' \in [Worker -> {"idle", "sent", "handling", "acked"}]
    BY <1>0, <1>2 DEF WireOK
  <1> QED
    BY <1>0, <1>3, ServiceSteps, ServiceSide

\* A POST that is sent.
LEMMA PostKeeps ==
    ASSUME FlowInv, [Next]_vars, NEW w \in Worker, Post(w)
    PROVE  FlowInv'
  <1>0. /\ worker[w].batch # <<>> /\ UNCHANGED apiVars /\ webhookEvent' = webhookEvent
        /\ worker[w] \in [batch : Seq(CopyType), posting : Nat, done : SUBSET ResultType]
    BY DEF Post, attempt_send, apiVars, FlowInv, ServiceInv, WorkersOK, WorkerOK, CopyType, ResultType
  <1> DEFINE k == [worker[w] EXCEPT !.posting = Head(worker[w].batch).id]
  <1>1. worker' = [worker EXCEPT ![w] = k] /\ wire' = [wire EXCEPT ![w] = "sent"]
    BY DEF Post, attempt_send, FlowInv, ServiceInv, WorkersOK
  <1>2. k.posting # 0 /\ k.done = worker[w].done
    BY <1>0, PostedRow DEF FlowInv
  <1> HIDE DEF k
  <1>3. \A d \in k.done : d.state = "SENT" => d.id \in webhookEvent
    BY <1>2 DEF FlowInv, WireOK
  <1>4. WireOK' /\ wire' \in [Worker -> {"idle", "sent", "handling", "acked"}]
    BY <1>0, <1>1, <1>2, <1>3, WireStep
  <1> QED
    BY <1>0, <1>4, ServiceSteps, ServiceSide

\* A POST that returns, is given up on, or is lost with its batch.
LEMMA ReturnKeeps ==
    ASSUME FlowInv, [Next]_vars, NEW w \in Worker, Acknowledged(w) \/ GiveUp(w) \/ BatchLost(w)
    PROVE  FlowInv'
  <1>0. wire' = [wire EXCEPT ![w] = "idle"] /\ UNCHANGED apiVars /\ webhookEvent' = webhookEvent
    BY DEF Acknowledged, GiveUp, BatchLost, apiVars
  <1>1. PICK k : /\ worker' = [worker EXCEPT ![w] = k]
                 /\ \A d \in k.done : d.state = "SENT" => d.id \in webhookEvent
    <2>1. ASSUME NEW ok \in BOOLEAN, post_returns(w, ok), ok => wire[w] = "acked"
          PROVE  \E k : /\ worker' = [worker EXCEPT ![w] = k]
                        /\ \A d \in k.done : d.state = "SENT" => d.id \in webhookEvent
      <3> DEFINE row == Head(worker[w].batch)
                 d == [id |-> row.id, attempt_count |-> row.attempt_count + 1,
                       state |-> IF ok THEN "SENT" ELSE state_after_failure(row.attempt_count + 1)]
                 k == [batch |-> Tail(worker[w].batch), posting |-> 0, done |-> worker[w].done \cup {d}]
      <3>1. worker' = [worker EXCEPT ![w] = k]
        BY <2>1 DEF post_returns
      <3>2. worker[w].posting # 0 /\ worker[w].posting = row.id
        BY <2>1 DEF post_returns, FlowInv, ServiceInv, WorkersOK, WorkerOK
      <3>3. ok => row.id \in webhookEvent
        BY <2>1, <3>2 DEF FlowInv, WireOK
      <3>4. /\ d.id = row.id
            /\ d.state = IF ok THEN "SENT" ELSE state_after_failure(row.attempt_count + 1)
        OBVIOUS
      <3>5. d.state = "SENT" => d.id \in webhookEvent
        BY <3>3, <3>4 DEF state_after_failure
      <3> HIDE DEF d
      <3>6. \A e \in k.done : e.state = "SENT" => e.id \in webhookEvent
        BY <3>5 DEF FlowInv, WireOK
      <3> QED
        BY <3>1, <3>6
    <2>2. CASE Acknowledged(w)
      BY <2>1, <2>2 DEF Acknowledged
    <2>3. CASE GiveUp(w)
      BY <2>1, <2>3 DEF GiveUp
    <2>4. CASE BatchLost(w)
      <3> DEFINE k == [batch |-> <<>>, posting |-> 0, done |-> {}]
      <3>1. worker' = [worker EXCEPT ![w] = k] /\ k.done = {}
        BY <2>4 DEF BatchLost, worker_rollback
      <3> HIDE DEF k
      <3> QED
        BY <3>1
    <2> QED
      BY <2>2, <2>3, <2>4
  <1>2. WireOK' /\ wire' \in [Worker -> {"idle", "sent", "handling", "acked"}]
    BY <1>0, <1>1, WireStep
  <1> QED
    BY <1>0, <1>2, ServiceSteps, ServiceSide


----------------------------------------------------------------------------
(* The steps of the API.                                                   *)

\* A row of the outbox has an order and a status that is an order's.
LEMMA CallbackTyped ==
    ASSUME ServiceInv, NEW c \in DOMAIN outbox
    PROVE  /\ callback(c) \in CallbackType
           /\ callback(c).id = c /\ callback(c).order = outbox[c].order /\ callback(c).status = outbox[c].status
           /\ callback(c).order \in Order
  <1>1. outbox[c] \in Rows /\ c \in Nat
    BY DEF ServiceInv, DataTyped
  <1>2. outbox[c].order \in Order /\ outbox[c].status \in PixOrderStatus
    BY <1>1 DEF Rows
  <1> QED
    BY <1>1, <1>2 DEF callback, CallbackType

\* The API creates an order, and stores the answer.
LEMMA CreateKeeps ==
    ASSUME FlowInv, [Next]_vars, NEW o \in Order,
           CreateAnswered(o) \/ \E h \in Handler : CreateOrder(h, o)
    PROVE  FlowInv'
  <1>0. ServiceInv' /\ RowsStay /\ SentByWorker
    BY ServiceSteps, InvStep, RowsOfStep DEF FlowInv
  <1>1. /\ worker' = worker /\ wire' = wire /\ webhookEvent' = webhookEvent /\ handling' = handling
        /\ mintLog' = mintLog /\ mintFailed' = mintFailed
        /\ pixOrderId' = pixOrderId \/ pixOrderId' = pixOrderId \cup {o}
        /\ \/ transaction' = transaction
           \/ transaction' = [transaction EXCEPT ![o] = "PENDING_PAYMENT"]
           \/ transaction' = [transaction EXCEPT ![o] = "PROCESSING"]
    BY DEF CreateAnswered, CreateOrder, create, serviceVars, Api!storePixOrder, Api!createDepositOrder,
           Api!createWithdrawalOrder
  <1>2. /\ transaction' \in [Order -> StatusType]
        /\ \A k \in Order : transaction'[k] = transaction[k] \/ transaction'[k] \notin {"COMPLETED", "FAILED"}
    BY <1>1 DEF FlowInv, ApiTyped, StatusType
  <1>3. /\ webhookEvent' \subseteq DOMAIN outbox'
        /\ HandlingOK' /\ HandledOnce' /\ NotYetMinted' /\ MintsOK' /\ MintOncePerCallback'
    BY <1>0, <1>1, RecordsKept
  <1>4. SentMeansReceived' /\ WithdrawalsOK'
    BY <1>0, <1>1, <1>2, SentKept, WithdrawalsKept DEF Order
  <1>5. ApiTyped'
    BY <1>1, <1>2, <1>3 DEF FlowInv, ApiTyped
  <1>6. WireOK'
    BY <1>1 DEF FlowInv, WireOK
  <1> QED
    BY <1>0, <1>3, <1>4, <1>5, <1>6 DEF FlowInv

\* The API receives a POST, and records its event once.
LEMMA ReceiveKeeps ==
    ASSUME FlowInv, [Next]_vars, NEW w \in Worker, Receive(w)
    PROVE  FlowInv'
  <1> USE DEF FlowInv
  <1>0. /\ wire[w] = "sent" /\ UNCHANGED serviceVars /\ worker' = worker /\ outbox' = outbox
        /\ DOMAIN worker = Worker
    BY DEF Receive, serviceVars, tables, ServiceInv, WorkersOK
  <1>1. ServiceInv' /\ RowsStay /\ SentByWorker
    BY ServiceSteps, InvStep, RowsOfStep
  <1>2. PICK c : c = worker[w].posting
    OBVIOUS
  <1>3. c # 0 /\ c \in DOMAIN outbox
    BY <1>0, <1>2, InvTyped DEF WireOK, ServiceTypeOK
  <1>4. PICK cb \in CallbackType : cb = callback(c) /\ cb.id = c
    BY <1>3, CallbackTyped
  <1>5. CASE Api!seen(cb) /\ wire' = [wire EXCEPT ![w] = "acked"] /\ UNCHANGED apiVars
    <2>1. c \in webhookEvent /\ webhookEvent' = webhookEvent
      BY <1>4, <1>5 DEF Api!seen, apiVars
    <2>2. /\ wire' \in [Worker -> {"idle", "sent", "handling", "acked"}] /\ wire'[w] = "acked"
          /\ \A v \in Worker : v # w => wire'[v] = wire[v]
      BY <1>5 DEF ApiTyped
    <2>3. WireOK'
      BY <1>0, <1>2, <1>3, <2>1, <2>2 DEF WireOK
    <2> QED
      BY <1>5, <2>2, <2>3, ServiceSteps, ServiceSide
  <1>6. CASE /\ Api!persistEvent(cb) /\ wire' = [wire EXCEPT ![w] = "handling"]
             /\ UNCHANGED <<transaction, pixOrderId, mintLog, mintFailed>>
    <2> DEFINE new == [callback |-> cb, pc |-> "persisted"]
    <2>1. /\ c \notin webhookEvent /\ webhookEvent' = webhookEvent \cup {c}
          /\ handling' = handling \cup {new}
      BY <1>4, <1>6 DEF Api!persistEvent, Api!seen
    <2>2. /\ wire' \in [Worker -> {"idle", "sent", "handling", "acked"}] /\ wire'[w] = "handling"
          /\ \A v \in Worker : v # w => wire'[v] = wire[v]
      BY <1>6 DEF ApiTyped
    <2>3. WireOK'
      BY <1>0, <1>2, <1>3, <2>1, <2>2 DEF WireOK
    <2>4. ApiTyped'
      BY <1>0, <1>3, <1>6, <2>1, <2>2 DEF ApiTyped
    <2>5. \A e \in DOMAIN outbox : callback(e)' = callback(e) /\ (Api!mints(callback(e))' <=> Api!mints(callback(e)))
      BY <1>0 DEF callback, Api!mints, Api!isDeposit
    <2>6. new.callback = cb /\ new.pc = "persisted"
      OBVIOUS
    <2>7. \A r \in handling : r.callback.id # c
      <3> SUFFICES ASSUME NEW r \in handling PROVE r.callback.id # c
        OBVIOUS
      <3>1. PICK e \in webhookEvent : r.callback = callback(e)
        BY DEF HandlingOK
      <3>2. r.callback.id = e
        BY <3>1, CallbackTyped DEF ApiTyped
      <3> QED
        BY <2>1, <3>2
    <2>8. \A i \in DOMAIN mintLog : mintLog[i] # cb
      <3> SUFFICES ASSUME NEW i \in DOMAIN mintLog PROVE mintLog[i] # cb
        OBVIOUS
      <3>1. PICK e \in webhookEvent : mintLog[i] = callback(e)
        BY DEF MintsOK
      <3>2. mintLog[i].id = e
        BY <3>1, CallbackTyped DEF ApiTyped
      <3> QED
        BY <1>4, <2>1, <3>2
    <2>9. HandlingOK'
      <3> SUFFICES ASSUME NEW r \in handling'
                   PROVE  \E e \in webhookEvent', pc \in {"persisted", "minted"} :
                             /\ r = [callback |-> callback(e)', pc |-> pc]
                             /\ pc = "minted" => Api!mints(callback(e))'
        BY DEF HandlingOK
      <3>1. CASE r \in handling
        <4>1. PICK e \in webhookEvent, pc \in {"persisted", "minted"} :
                r = [callback |-> callback(e), pc |-> pc] /\ (pc = "minted" => Api!mints(callback(e)))
          BY <3>1 DEF HandlingOK
        <4> QED
          BY <2>1, <2>5, <4>1 DEF ApiTyped
      <3>2. CASE r = new
        BY <1>3, <1>4, <2>1, <2>5, <3>2
      <3> QED
        BY <2>1, <3>1, <3>2
    <2> HIDE DEF new
    <2>10. HandledOnce'
      BY <1>4, <2>1, <2>6, <2>7 DEF HandledOnce
    <2>11. NotYetMinted'
      BY <1>6, <2>1, <2>6, <2>8 DEF NotYetMinted
    <2>12. MintsOK'
      BY <1>6, <2>1, <2>5 DEF MintsOK, ApiTyped
    <2>13. MintOncePerCallback'
      BY <1>6 DEF MintOncePerCallback, IsInjective
    <2>14. SentMeansReceived' /\ WithdrawalsOK'
      BY <1>1, <1>6, <2>1, SentKept, WithdrawalsKept
    <2> QED
      BY <1>1, <2>3, <2>4, <2>9, <2>10, <2>11, <2>12, <2>13, <2>14
  <1> QED
    BY <1>2, <1>4, <1>5, <1>6 DEF Receive


\* A handler ends: no event is forgotten and nothing more is minted.
LEMMA EndKeeps ==
    ASSUME FlowInv, UNCHANGED serviceVars, UNCHANGED <<pixOrderId, webhookEvent, mintLog>>,
           handling' \subseteq handling, transaction' \in [Order -> StatusType], mintFailed' \subseteq Deposit,
           WithdrawalsOK',
           \/ wire' = wire
           \/ \E e \in webhookEvent : wire' = [w \in Worker |->
                 IF wire[w] = "handling" /\ worker[w].posting = e THEN "acked" ELSE wire[w]]
    PROVE  FlowInv'
  <1> USE DEF FlowInv
  <1>0. ServiceInv' /\ RowsStay /\ SentByWorker
    BY InvStep, RowsOfStep
  <1>1. outbox' = outbox /\ worker' = worker
    BY DEF serviceVars, tables
  <1>2. /\ wire' \in [Worker -> {"idle", "sent", "handling", "acked"}]
        /\ \A w \in Worker : wire'[w] = wire[w] \/ (wire[w] = "handling" /\ wire'[w] = "acked")
    BY DEF ApiTyped
  <1>3. WireOK'
    BY <1>1, <1>2 DEF WireOK
  <1>4. ApiTyped'
    BY <1>1, <1>2 DEF ApiTyped
  <1>5. \A e \in DOMAIN outbox : callback(e)' = callback(e) /\ (Api!mints(callback(e))' <=> Api!mints(callback(e)))
    BY <1>1 DEF callback, Api!mints, Api!isDeposit
  <1>6. HandlingOK'
    BY <1>5 DEF HandlingOK, ApiTyped
  <1>7. MintsOK'
    BY <1>5 DEF MintsOK, ApiTyped
  <1>8. HandledOnce' /\ NotYetMinted' /\ MintOncePerCallback'
    BY DEF HandledOnce, NotYetMinted, MintOncePerCallback, IsInjective
  <1>9. SentMeansReceived'
    BY <1>0, SentKept
  <1> QED
    BY <1>0, <1>3, <1>4, <1>6, <1>7, <1>8, <1>9

\* The callback a handler works on.
LEMMA HandledCallback ==
    ASSUME FlowInv, NEW cb, NEW pc \in {"persisted", "minted"}, Api!at(cb, pc)
    PROVE  /\ cb \in CallbackType /\ cb.order \in Order /\ cb.id \in webhookEvent
           /\ cb = callback(cb.id) /\ cb.id \in DOMAIN outbox
           /\ cb.order = outbox[cb.id].order /\ cb.status = outbox[cb.id].status
           /\ pc = "minted" => Api!mints(cb)
  <1> DEFINE r == [callback |-> cb, pc |-> pc]
  <1>1. r \in handling /\ r.callback = cb /\ r.pc = pc
    BY DEF Api!at
  <1> HIDE DEF r
  <1>2. PICK c \in webhookEvent, p \in {"persisted", "minted"} :
          r = [callback |-> callback(c), pc |-> p] /\ (p = "minted" => Api!mints(callback(c)))
    BY <1>1 DEF FlowInv, HandlingOK
  <1>3. cb = callback(c) /\ pc = p
    BY <1>1, <1>2
  <1>4. c \in DOMAIN outbox
    BY DEF FlowInv, ApiTyped
  <1> QED
    BY <1>2, <1>3, <1>4, CallbackTyped DEF FlowInv

\* What a handler makes of a withdrawal is what the callback says.
LEMMA StatusAfter ==
    ASSUME FlowInv, NEW cb, Api!at(cb, "persisted"),
           transaction' = [transaction EXCEPT ![cb.order] = Api!statusAfter(cb)], outbox' = outbox
    PROVE  transaction' \in [Order -> StatusType] /\ WithdrawalsOK'
  <1>1. /\ cb.order \in Order /\ cb.id \in DOMAIN outbox
        /\ cb.order = outbox[cb.id].order /\ cb.status = outbox[cb.id].status
    BY HandledCallback
  <1>2. /\ transaction'[cb.order] = Api!statusAfter(cb)
        /\ \A o \in Order : o # cb.order => transaction'[o] = transaction[o]
    BY <1>1 DEF FlowInv, ApiTyped
  <1>3. /\ Api!statusAfter(cb) \in StatusType
        /\ Api!statusAfter(cb) = "COMPLETED" => cb.status = "CONFIRMED" \/ transaction[cb.order] = "COMPLETED"
        /\ Api!statusAfter(cb) = "FAILED" => cb.status = "FAILED" \/ transaction[cb.order] = "FAILED"
    BY <1>1 DEF Api!statusAfter, FlowInv, ApiTyped, StatusType
  <1>4. transaction' \in [Order -> StatusType]
    BY <1>3 DEF FlowInv, ApiTyped
  <1>5. WithdrawalsOK'
    BY <1>1, <1>2, <1>3 DEF FlowInv, WithdrawalsOK, Order
  <1> QED
    BY <1>4, <1>5

\* A handler mints.
LEMMA MintKeeps ==
    ASSUME FlowInv, UNCHANGED serviceVars, UNCHANGED wire, NEW cb, Api!mintBrlt(cb)
    PROVE  FlowInv'
  <1> USE DEF FlowInv
  <1>0. ServiceInv' /\ RowsStay /\ SentByWorker
    BY InvStep, RowsOfStep
  <1>1. outbox' = outbox /\ worker' = worker
    BY DEF serviceVars, tables
  <1> DEFINE old == [callback |-> cb, pc |-> "persisted"]
             new == [callback |-> cb, pc |-> "minted"]
  <1>2. /\ Api!at(cb, "persisted") /\ Api!mints(cb) /\ old \in handling
        /\ mintLog' = Append(mintLog, cb) /\ handling' = (handling \ {old}) \cup {new}
        /\ UNCHANGED <<transaction, pixOrderId, webhookEvent, mintFailed>>
    BY DEF Api!mintBrlt, Api!at
  <1>3. cb \in CallbackType /\ cb.id \in webhookEvent /\ cb = callback(cb.id)
    BY <1>2, HandledCallback
  <1>4. old.callback = cb /\ old.pc = "persisted" /\ new.callback = cb /\ new.pc = "minted"
    OBVIOUS
  <1>5. \A e \in DOMAIN outbox : callback(e)' = callback(e) /\ (Api!mints(callback(e))' <=> Api!mints(callback(e)))
    BY <1>1 DEF callback, Api!mints, Api!isDeposit
  <1>6. HandlingOK'
    <2> SUFFICES ASSUME NEW r \in handling'
                 PROVE  \E e \in webhookEvent', pc \in {"persisted", "minted"} :
                           /\ r = [callback |-> callback(e)', pc |-> pc]
                           /\ pc = "minted" => Api!mints(callback(e))'
      BY DEF HandlingOK
    <2>1. CASE r = new
      BY <1>2, <1>3, <1>5, <2>1 DEF ApiTyped
    <2>2. CASE r \in handling
      <3>1. PICK e \in webhookEvent, pc \in {"persisted", "minted"} :
              r = [callback |-> callback(e), pc |-> pc] /\ (pc = "minted" => Api!mints(callback(e)))
        BY <2>2 DEF HandlingOK
      <3> QED
        BY <1>2, <1>5, <3>1 DEF ApiTyped
    <2> QED
      BY <1>2, <2>1, <2>2
  <1> HIDE DEF old, new
  <1>7. HandledOnce'
    BY <1>2, <1>4 DEF HandledOnce
  <1>8. mintLog \in Seq(CallbackType)
    BY DEF ApiTyped
  <1>9. /\ mintLog' \in Seq(CallbackType) /\ DOMAIN mintLog' = DOMAIN mintLog \cup {Len(mintLog) + 1}
        /\ \A i \in DOMAIN mintLog : mintLog'[i] = mintLog[i]
        /\ mintLog'[Len(mintLog) + 1] = cb
    BY <1>2, <1>3, <1>8
  <1>10. \A i \in DOMAIN mintLog : mintLog[i] # cb
    BY <1>2, <1>4 DEF NotYetMinted
  <1>11. MintOncePerCallback'
    BY <1>9, <1>10 DEF MintOncePerCallback, IsInjective
  <1>12. \A r \in handling' : r.pc = "persisted" => r \in handling /\ r.callback # cb
    BY <1>2, <1>4 DEF HandledOnce
  <1>13. NotYetMinted'
    BY <1>9, <1>12 DEF NotYetMinted
  <1>14. MintsOK'
    BY <1>2, <1>3, <1>5, <1>9 DEF MintsOK, ApiTyped
  <1>15. ApiTyped' /\ WireOK'
    BY <1>1, <1>2, <1>9 DEF ApiTyped, WireOK
  <1>16. SentMeansReceived' /\ WithdrawalsOK'
    BY <1>0, <1>2, SentKept, WithdrawalsKept
  <1> QED
    BY <1>0, <1>6, <1>7, <1>11, <1>13, <1>14, <1>15, <1>16

\* A handler goes on, returns or is interrupted.
LEMMA HandleKeeps ==
    ASSUME FlowInv, NEW cb, Handle(cb) \/ Crash(cb)
    PROVE  FlowInv'
  <1>0. UNCHANGED serviceVars /\ outbox' = outbox /\ RowsStay
    BY DEF Handle, Crash, serviceVars, tables, RowsStay
  <1> DEFINE answered == [w \in Worker |->
                 IF wire[w] = "handling" /\ worker[w].posting = cb.id THEN "acked" ELSE wire[w]]
  <1>1. CASE Api!HandlerStep(cb) /\ UNCHANGED wire
    BY <1>0, <1>1, MintKeeps DEF Api!HandlerStep
  <1>2. CASE Api!handleStatus(cb) /\ wire' = answered
    <2>1. cb.id \in webhookEvent
      BY <1>2, HandledCallback DEF Api!handleStatus
    <2>2. transaction' \in [Order -> StatusType] /\ WithdrawalsOK'
      BY <1>0, <1>2, StatusAfter DEF Api!handleStatus
    <2>3. mintFailed' \subseteq Deposit
      BY <1>2 DEF Api!handleStatus, FlowInv, ApiTyped
    <2> QED
      BY <1>0, <1>2, <2>1, <2>2, <2>3, EndKeeps DEF Api!handleStatus, Api!ends
  <1>3. ASSUME NEW s \in {"FAILED", "APPROVED"}, NEW pc \in {"persisted", "minted"},
               Api!at(cb, pc), Api!ends(cb, pc), Api!mints(cb),
               transaction' = [transaction EXCEPT ![cb.order] = s] \/ transaction' = transaction,
               \E failed \in SUBSET {cb.order} : mintFailed' = mintFailed \cup failed,
               UNCHANGED <<pixOrderId, webhookEvent, mintLog>>, wire' = answered
        PROVE  FlowInv'
    <2>1. cb.id \in webhookEvent /\ cb.order \in Order /\ cb.order \in Deposit
      BY <1>3, HandledCallback DEF Api!mints, Api!isDeposit
    <2>2. transaction' \in [Order -> StatusType] /\ \A o \in Withdrawal : transaction'[o] = transaction[o]
      BY <1>3, <2>1, OrderAssumption DEF FlowInv, ApiTyped, StatusType, Order
    <2>3. WithdrawalsOK'
      BY <1>0, <2>2, WithdrawalsKept
    <2>4. mintFailed' \subseteq Deposit
      BY <1>3, <2>1 DEF FlowInv, ApiTyped
    <2> QED
      BY <1>0, <1>3, <2>1, <2>2, <2>3, <2>4, EndKeeps DEF Api!ends
  <1>4. CASE Api!failNoWallet(cb) /\ wire' = answered
    <2>1. {} \in SUBSET {cb.order} /\ mintFailed' = mintFailed \cup {}
      BY <1>4 DEF Api!failNoWallet
    <2> QED
      BY <1>3, <1>4, <2>1 DEF Api!failNoWallet
  <1>5. CASE Api!approve(cb) /\ wire' = answered
    <2>1. Api!mints(cb)
      BY <1>5, HandledCallback DEF Api!approve
    <2> QED
      BY <1>3, <1>5, <2>1 DEF Api!approve
  <1>6. CASE (\E pc \in {"persisted", "minted"} : Api!mintError(cb, pc)) /\ wire' = answered
    BY <1>3, <1>6 DEF Api!mintError
  <1>7. CASE Crash(cb)
    <2>1. /\ handling' \subseteq handling /\ wire' = wire /\ transaction' = transaction
          /\ UNCHANGED <<pixOrderId, webhookEvent, mintLog>> /\ mintFailed' = mintFailed
      BY <1>7 DEF Crash, Api!handlerCrash, Api!ends
    <2>2. WithdrawalsOK'
      BY <1>0, <2>1, WithdrawalsKept
    <2> QED
      BY <1>0, <2>1, <2>2, EndKeeps DEF FlowInv, ApiTyped
  <1> QED
    BY <1>1, <1>2, <1>4, <1>5, <1>6, <1>7 DEF Handle, Api!HandlerReturn


----------------------------------------------------------------------------
(* The theorems.                                                           *)

\* The empty tables on both sides satisfy the invariant.
LEMMA FlowInit == Init => FlowInv
  <1> SUFFICES ASSUME Init PROVE FlowInv
    OBVIOUS
  <1> USE DEF Init, Api!ApiInit
  <1>1. ServiceInv
    BY InvInit
  <1>2. ApiTyped
    <2>1. mintLog \in Seq(CallbackType)
      OBVIOUS
    <2> QED
      BY <2>1 DEF ApiTyped, StatusType, Order
  <1>3. HandlingOK /\ HandledOnce /\ NotYetMinted /\ MintsOK /\ MintOncePerCallback
    BY DEF HandlingOK, HandledOnce, NotYetMinted, MintsOK, MintOncePerCallback, IsInjective
  <1>4. WireOK /\ SentMeansReceived
    BY DEF WireOK, SentMeansReceived, ServiceInit
  <1>5. WithdrawalsOK
    BY DEF WithdrawalsOK
  <1> QED
    BY <1>1, <1>2, <1>3, <1>4, <1>5 DEF FlowInv

\* Every step of the composition keeps the invariant.
LEMMA FlowStep ==
    ASSUME FlowInv, [Next]_vars
    PROVE  FlowInv'
  <1>1. CASE ServiceStep \/ (\E h \in Handler, o \in Order : RefreshPixOrder(h, o)) \/ UNCHANGED vars
    BY <1>1, ServiceStepKeeps
  <1>2. ASSUME NEW o \in Order, CreateAnswered(o) \/ \E h \in Handler : CreateOrder(h, o) PROVE FlowInv'
    BY <1>2, CreateKeeps
  <1>3. ASSUME NEW w \in Worker, Loop(w) \/ Post(w) PROVE FlowInv'
    BY <1>3, LoopKeeps, PostKeeps
  <1>4. ASSUME NEW w \in Worker, Acknowledged(w) \/ GiveUp(w) \/ BatchLost(w) PROVE FlowInv'
    BY <1>4, ReturnKeeps
  <1>5. ASSUME NEW w \in Worker, Receive(w) PROVE FlowInv'
    BY <1>5, ReceiveKeeps
  <1>6. ASSUME NEW r \in handling, Handle(r.callback) \/ Crash(r.callback) PROVE FlowInv'
    BY <1>6, HandleKeeps
  <1> QED
    BY <1>1, <1>2, <1>3, <1>4, <1>5, <1>6 DEF Next

\* The inductive invariant holds always.
LEMMA FlowAlways == Spec => []FlowInv
  BY FlowInit, FlowStep, PTL DEF Spec

\* The state of the service and of the API keeps its shape; no handler works
\* on an event that is not on record.
THEOREM FlowTypeCorrect == Spec => []FlowTypeOK
  <1>1. FlowInv => FlowTypeOK
    <2> SUFFICES ASSUME FlowInv PROVE FlowTypeOK
      OBVIOUS
    <2>1. ASSUME NEW r \in handling PROVE r.callback.id \in webhookEvent /\ r.pc \in {"persisted", "minted"}
      <3>1. PICK c \in webhookEvent, pc \in {"persisted", "minted"} : r = [callback |-> callback(c), pc |-> pc]
        BY DEF FlowInv, HandlingOK
      <3>2. callback(c).id = c
        BY DEF callback
      <3> QED
        BY <3>1, <3>2
    <2> QED
      BY <2>1, InvTyped DEF FlowInv, FlowTypeOK, ApiTyped, StatusType
  <1> QED
    BY <1>1, FlowAlways, PTL

\* BRLT is minted only for deposits that have been paid at CorpX.
THEOREM MintsBacked == Spec => []MintBacked
  <1>1. FlowInv => MintBacked
    <2> SUFFICES ASSUME FlowInv, NEW i \in DOMAIN mintLog PROVE corpxState(mintLog[i].order) = "paid"
      BY DEF MintBacked
    <2>1. PICK c \in webhookEvent : mintLog[i] = callback(c) /\ Api!mints(callback(c))
      BY DEF FlowInv, MintsOK
    <2>2. c \in DOMAIN outbox
      BY DEF FlowInv, ApiTyped
    <2>3. PICK o \in Deposit : /\ o \in Order /\ mintLog[i].order = o /\ exists(o)
                               /\ backs("CONFIRMED", corpxState(o))
      <3>1. mintLog[i].order = outbox[c].order /\ outbox[c].order \in Deposit /\ outbox[c].status = "CONFIRMED"
        BY <2>1, <2>2, CallbackTyped DEF FlowInv, Api!mints, Api!isDeposit
      <3>2. exists(outbox[c].order) /\ backs(outbox[c].status, corpxState(outbox[c].order))
        BY <2>2 DEF FlowInv, ServiceInv, RowsOK
      <3> QED
        BY <3>1, <3>2 DEF Order
    <2>4. <<o, identifier[o]>> \in Identifier
      BY <2>3, OwnIdentifier DEF FlowInv, ServiceInv
    <2>5. corpxState(o) \in CorpxStates(o)
      BY <2>4 DEF FlowInv, ServiceInv, DataTyped, corpxState
    <2> QED
      BY <2>3, <2>5 DEF backs, CorpxStates
  <1> QED
    BY <1>1, FlowAlways, PTL

\* No callback mints twice, however often and however late it is delivered.
THEOREM MintsOncePerCallback == Spec => []MintOncePerCallback
  <1>1. FlowInv => MintOncePerCallback
    BY DEF FlowInv
  <1> QED
    BY <1>1, FlowAlways, PTL

\* A row is SENT only if the API has its event on record.
THEOREM SentAreReceived == Spec => []SentMeansReceived
  <1>1. FlowInv => SentMeansReceived
    BY DEF FlowInv
  <1> QED
    BY <1>1, FlowAlways, PTL

\* A withdrawal shown as COMPLETED has left CorpX, and one shown as FAILED
\* has not.
THEOREM WithdrawalsHonest == Spec => []WithdrawalHonest
  <1>1. FlowInv => WithdrawalHonest
    <2>1. ASSUME FlowInv, NEW o \in Withdrawal, NEW c \in DOMAIN outbox, outbox[c].order = o,
                 NEW s, outbox[c].status = s
          PROVE  backs(s, corpxState(o)) /\ corpxState(o) \in CorpxStates(o) /\ o \notin Deposit
      <3>1. exists(o) /\ backs(s, corpxState(o)) /\ o \in Order /\ o \notin Deposit
        BY <2>1, OrderAssumption DEF FlowInv, ServiceInv, RowsOK, Order
      <3>2. <<o, identifier[o]>> \in Identifier
        BY <2>1, <3>1, OwnIdentifier DEF FlowInv, ServiceInv
      <3>3. corpxState(o) \in CorpxStates(o)
        BY <2>1, <3>2 DEF FlowInv, ServiceInv, DataTyped, corpxState
      <3> QED
        BY <3>1, <3>3
    <2> SUFFICES ASSUME FlowInv, NEW o \in Withdrawal
                 PROVE  /\ transaction[o] = "COMPLETED" => corpxState(o) = "completed"
                        /\ transaction[o] = "FAILED" => corpxState(o) \in {"failed", "unrefunded"}
      BY DEF WithdrawalHonest
    <2>2. ASSUME transaction[o] = "COMPLETED" PROVE corpxState(o) = "completed"
      <3>1. PICK c \in DOMAIN outbox : outbox[c].order = o /\ outbox[c].status = "CONFIRMED"
        BY <2>2 DEF FlowInv, WithdrawalsOK
      <3>2. backs("CONFIRMED", corpxState(o)) /\ corpxState(o) \in CorpxStates(o) /\ o \notin Deposit
        BY <2>1, <3>1
      <3> QED
        BY <3>2 DEF backs, CorpxStates
    <2>3. ASSUME transaction[o] = "FAILED" PROVE corpxState(o) \in {"failed", "unrefunded"}
      <3>1. PICK c \in DOMAIN outbox : outbox[c].order = o /\ outbox[c].status = "FAILED"
        BY <2>3 DEF FlowInv, WithdrawalsOK
      <3>2. backs("FAILED", corpxState(o))
        BY <2>1, <3>1
      <3> QED
        BY <3>2 DEF backs
    <2> QED
      BY <2>2, <2>3
  <1> QED
    BY <1>1, FlowAlways, PTL

\* With the API at the other end too, an order that left its first status has
\* a callback, and no callback says what CorpX does not.
THEOREM OutboxCompleteInFlow == Spec => [](OrderNotified /\ CallbackTruthful)
  <1>1. FlowInv => OrderNotified /\ CallbackTruthful
    BY InvTruthful DEF FlowInv, ServiceInv
  <1> QED
    BY <1>1, FlowAlways, PTL


\* The two sides together do only what the Pix service does by itself: the API
\* is one of the ways in which its requests arrive and its POSTs are answered.
THEOREM FlowImplementsService == Spec => ServiceInit /\ [][ServiceNext]_serviceVars
  BY ServiceSteps, PTL DEF Spec, Init


----------------------------------------------------------------------------
(* The composition implements MintLedger.                                  *)

\* The confirmations on record are those of the same events, while none comes in.
LEMMA ConfirmationsKept ==
    ASSUME FlowInv, RowsStay, webhookEvent' = webhookEvent
    PROVE  confirmations' = confirmations
  <1>1. \A c \in webhookEvent :
          callback(c)' = callback(c) /\ (Api!mints(callback(c))' <=> Api!mints(callback(c)))
    BY CallbackKept DEF FlowInv, ApiTyped, Api!mints, Api!isDeposit
  <1> QED
    BY <1>1 DEF confirmations

\* A step that leaves the events and the mints alone.
LEMMA LedgerStutters ==
    ASSUME FlowInv, RowsStay, UNCHANGED <<webhookEvent, mintLog>>
    PROVE  UNCHANGED Ledger!ledgerVars
  BY ConfirmationsKept DEF Ledger!ledgerVars

\* The API receives a POST: a confirmation comes in, or none.
LEMMA ReceiveLedger ==
    ASSUME FlowInv, NEW w \in Worker, Receive(w)
    PROVE  [Ledger!Next]_(Ledger!ledgerVars)
  <1> USE DEF FlowInv
  <1>1. outbox' = outbox /\ mintLog' = mintLog
    BY DEF Receive, serviceVars, tables, apiVars
  <1>2. RowsStay
    BY <1>1 DEF RowsStay
  <1>3. PICK c : c = worker[w].posting
    OBVIOUS
  <1>4. c \in DOMAIN outbox
    BY <1>3, InvTyped DEF Receive, WireOK, ServiceTypeOK
  <1>5. callback(c).id = c
    BY <1>4, CallbackTyped
  <1>6. CASE webhookEvent' = webhookEvent
    BY <1>1, <1>2, <1>6, LedgerStutters
  <1>7. CASE c \notin webhookEvent /\ webhookEvent' = webhookEvent \cup {c}
    <2>1. \A e \in DOMAIN outbox :
            callback(e)' = callback(e) /\ (Api!mints(callback(e))' <=> Api!mints(callback(e)))
      BY <1>1 DEF callback, Api!mints, Api!isDeposit
    <2>2. webhookEvent \subseteq DOMAIN outbox
      BY DEF ApiTyped
    <2>3. CASE Api!mints(callback(c))
      <3>1. confirmations' = confirmations \cup {callback(c)}
        BY <1>4, <1>7, <2>1, <2>2, <2>3 DEF confirmations
      <3>2. callback(c) \notin confirmations
        <4>1. \A e \in webhookEvent : callback(e).id = e
          BY <2>2, CallbackTyped
        <4> QED
          BY <1>5, <1>7, <4>1 DEF confirmations
      <3>3. Ledger!Confirm(callback(c))
        BY <1>1, <3>1, <3>2 DEF Ledger!Confirm
      <3> QED
        BY <3>1, <3>3 DEF Ledger!Next
    <2>4. CASE ~Api!mints(callback(c))
      <3>1. confirmations' = confirmations
        BY <1>4, <1>7, <2>1, <2>2, <2>4 DEF confirmations
      <3> QED
        BY <1>1, <3>1 DEF Ledger!ledgerVars
    <2> QED
      BY <2>3, <2>4
  <1> QED
    BY <1>3, <1>5, <1>6, <1>7 DEF Receive, Api!persistEvent, Api!seen, apiVars

\* A handler mints for the confirmation it works on.
LEMMA MintLedgerStep ==
    ASSUME FlowInv, UNCHANGED serviceVars, NEW cb, Api!mintBrlt(cb)
    PROVE  Ledger!Next
  <1> DEFINE old == [callback |-> cb, pc |-> "persisted"]
  <1>1. /\ Api!at(cb, "persisted") /\ Api!mints(cb) /\ mintLog' = Append(mintLog, cb)
        /\ webhookEvent' = webhookEvent /\ old \in handling
    BY DEF Api!mintBrlt, Api!at
  <1>2. old.callback = cb /\ old.pc = "persisted"
    OBVIOUS
  <1> HIDE DEF old
  <1>3. cb.id \in webhookEvent /\ cb = callback(cb.id)
    BY <1>1, HandledCallback
  <1>4. cb \in confirmations
    BY <1>1, <1>3 DEF confirmations
  <1>5. ~Ledger!minted(cb)
    BY <1>1, <1>2 DEF FlowInv, NotYetMinted, Ledger!minted
  <1>6. RowsStay
    BY DEF RowsStay, serviceVars, tables
  <1>7. confirmations' = confirmations
    BY <1>1, <1>6, ConfirmationsKept
  <1> QED
    BY <1>1, <1>4, <1>5, <1>7 DEF Ledger!Next, Ledger!Mint

\* Events are recorded by Receive and minted for by mintBrlt alone.
LEMMA LedgerWrites ==
    ASSUME [Next]_vars
    PROVE  \/ UNCHANGED <<webhookEvent, mintLog>>
           \/ \E w \in Worker : Receive(w)
           \/ \E r \in handling : Api!mintBrlt(r.callback) /\ UNCHANGED serviceVars
  <1>1. ASSUME NEW r \in handling, Handle(r.callback) \/ Crash(r.callback)
        PROVE  \/ UNCHANGED <<webhookEvent, mintLog>>
               \/ Api!mintBrlt(r.callback) /\ UNCHANGED serviceVars
    BY <1>1 DEF Handle, Crash, Api!HandlerStep, Api!HandlerReturn, Api!handleStatus, Api!failNoWallet,
                Api!approve, Api!mintError, Api!handlerCrash
  <1>2. ASSUME NEW h \in Handler, NEW o \in Order, CreateOrder(h, o) \/ RefreshPixOrder(h, o)
        PROVE  UNCHANGED <<webhookEvent, mintLog>>
    BY <1>2 DEF CreateOrder, RefreshPixOrder, Api!createDepositOrder, Api!createWithdrawalOrder, apiVars
  <1>3. ASSUME NEW o \in Order, CreateAnswered(o) PROVE UNCHANGED <<webhookEvent, mintLog>>
    BY <1>3 DEF CreateAnswered, Api!storePixOrder
  <1>4. ASSUME NEW w \in Worker, Loop(w) \/ Post(w) \/ Acknowledged(w) \/ GiveUp(w) \/ BatchLost(w)
        PROVE  UNCHANGED <<webhookEvent, mintLog>>
    BY <1>4 DEF Loop, Post, Acknowledged, GiveUp, BatchLost, apiVars
  <1>5. CASE ServiceStep \/ UNCHANGED vars
    BY <1>5 DEF ServiceStep, vars, apiVars
  <1> QED
    BY <1>1, <1>2, <1>3, <1>4, <1>5 DEF Next

\* From the QR code to the chain: each confirmation that receivePixWebhook has
\* put on record is minted for at most once, and nothing else mints.
THEOREM FlowImplementsMintLedger == Spec => ImplementsMintLedger
  <1>1. Init => Ledger!Init
    BY DEF Init, Api!ApiInit, Ledger!Init, confirmations
  <1>2. ASSUME FlowInv, [Next]_vars PROVE [Ledger!Next]_(Ledger!ledgerVars)
    <2>1. RowsStay
      BY <1>2, ServiceSteps, RowsOfStep DEF FlowInv
    <2>2. CASE UNCHANGED <<webhookEvent, mintLog>>
      BY <1>2, <2>1, <2>2, LedgerStutters
    <2> QED
      BY <1>2, <2>2, LedgerWrites, ReceiveLedger, MintLedgerStep
  <1> QED
    BY <1>1, <1>2, FlowAlways, PTL DEF Spec, ImplementsMintLedger, Ledger!Spec

----------------------------------------------------------------------------
(* What the API shows, and what it can expect of callbacks.                *)

\* Of two rows about a withdrawal that ended, both say the same end; so a
\* handler leaves the end alone.
LEMMA EndStays ==
    ASSUME FlowInv, NEW cb, Api!handleStatus(cb), NEW o \in Withdrawal,
           transaction[o] \in {"COMPLETED", "FAILED"}
    PROVE  transaction'[o] = transaction[o]
  <1>1. /\ Api!at(cb, "persisted")
        /\ transaction' = [transaction EXCEPT ![cb.order] = Api!statusAfter(cb)]
    BY DEF Api!handleStatus
  <1>2. transaction \in [Order -> StatusType]
    BY DEF FlowInv, ApiTyped
  <1>3. CASE cb.order # o
    BY <1>1, <1>2, <1>3 DEF Order
  <1>4. CASE cb.order = o
    <2>1. cb.id \in DOMAIN outbox /\ outbox[cb.id].order = o /\ outbox[cb.id].status = cb.status
      BY <1>1, <1>4, HandledCallback
    <2>2. backs(cb.status, corpxState(o))
      BY <2>1 DEF FlowInv, ServiceInv, RowsOK
    <2>3. /\ transaction[o] = "COMPLETED" => backs("CONFIRMED", corpxState(o))
          /\ transaction[o] = "FAILED" => backs("FAILED", corpxState(o))
      <3>1. ASSUME NEW c \in DOMAIN outbox, outbox[c].order = o PROVE backs(outbox[c].status, corpxState(o))
        BY <3>1 DEF FlowInv, ServiceInv, RowsOK
      <3> QED
        BY <3>1 DEF FlowInv, WithdrawalsOK
    <2>4. Api!statusAfter(cb) = transaction[o]
      <3>1. /\ cb.status = "CONFIRMED" => transaction[o] = "COMPLETED"
            /\ cb.status = "FAILED" => transaction[o] = "FAILED"
            /\ cb.status # "EXPIRED"
        BY <2>2, <2>3 DEF backs
      <3> QED
        BY <1>4, <3>1 DEF Api!statusAfter
    <2>5. o \in Order
      BY DEF Order
    <2> QED
      BY <1>1, <1>2, <1>4, <2>4, <2>5
  <1> QED
    BY <1>3, <1>4

\* How a step may change what the API shows of the transactions.
LEMMA TransactionWrites ==
    ASSUME FlowInv, [Next]_vars
    PROVE  \/ transaction' = transaction
           \/ \E o \in Order, s \in {"PENDING_PAYMENT", "PROCESSING"} :
                 transaction[o] = "NONE" /\ transaction' = [transaction EXCEPT ![o] = s]
           \/ \E o \in Deposit, s \in {"FAILED", "APPROVED"} :
                 transaction' = [transaction EXCEPT ![o] = s]
           \/ \E cb : Api!handleStatus(cb)
  <1>1. ASSUME NEW r \in handling, Handle(r.callback) \/ Crash(r.callback)
        PROVE  \/ transaction' = transaction
               \/ \E o \in Deposit, s \in {"FAILED", "APPROVED"} :
                     transaction' = [transaction EXCEPT ![o] = s]
               \/ Api!handleStatus(r.callback)
    <2>1. PICK cb : cb = r.callback
      OBVIOUS
    <2>2. CASE Api!failNoWallet(cb)
      BY <2>2 DEF Api!failNoWallet, Api!mints, Api!isDeposit
    <2>3. CASE Api!approve(cb)
      <3>1. cb.order \in Deposit
        BY <2>3, HandledCallback DEF Api!approve, Api!mints, Api!isDeposit
      <3> QED
        BY <2>3, <3>1 DEF Api!approve
    <2>4. CASE Api!mintBrlt(cb) \/ (\E pc \in {"persisted", "minted"} : Api!mintError(cb, pc))
                 \/ Api!handlerCrash(cb)
      BY <2>4 DEF Api!mintBrlt, Api!mintError, Api!handlerCrash
    <2> QED
      BY <1>1, <2>1, <2>2, <2>3, <2>4 DEF Handle, Crash, Api!HandlerStep, Api!HandlerReturn
  <1>2. ASSUME NEW h \in Handler, NEW o \in Order, CreateOrder(h, o)
        PROVE  \E s \in {"PENDING_PAYMENT", "PROCESSING"} :
                 transaction[o] = "NONE" /\ transaction' = [transaction EXCEPT ![o] = s]
    BY <1>2 DEF CreateOrder, Api!createDepositOrder, Api!createWithdrawalOrder
  <1>3. ASSUME NEW o \in Order, CreateAnswered(o) \/ \E h \in Handler : RefreshPixOrder(h, o)
        PROVE  transaction' = transaction
    BY <1>3 DEF CreateAnswered, RefreshPixOrder, Api!storePixOrder, apiVars
  <1>4. ASSUME NEW w \in Worker,
               Loop(w) \/ Post(w) \/ Receive(w) \/ Acknowledged(w) \/ GiveUp(w) \/ BatchLost(w)
        PROVE  transaction' = transaction
    BY <1>4 DEF Loop, Post, Receive, Acknowledged, GiveUp, BatchLost, apiVars
  <1>5. CASE ServiceStep \/ UNCHANGED vars
    BY <1>5 DEF ServiceStep, vars, apiVars
  <1> QED
    BY <1>1, <1>2, <1>3, <1>4, <1>5 DEF Next

\* What the user has been told of a withdrawal's end is not taken back by
\* callbacks that come late, twice or in another order (handleWithdrawalConfirmed,
\* handleOrderFailed).
THEOREM WithdrawalsFinal == Spec => WithdrawalFinal
  <1>1. ASSUME FlowInv, [Next]_vars, NEW o \in Withdrawal, transaction[o] \in {"COMPLETED", "FAILED"}
        PROVE  transaction'[o] = transaction[o]
    <2>1. transaction \in [Order -> StatusType] /\ o \in Order /\ o \notin Deposit
      BY <1>1, OrderAssumption DEF FlowInv, ApiTyped, Order
    <2>2. ASSUME NEW k \in Order, NEW s, transaction[k] = "NONE" \/ k \in Deposit,
                 transaction' = [transaction EXCEPT ![k] = s]
          PROVE  transaction'[o] = transaction[o]
      BY <1>1, <2>1, <2>2
    <2>3. Deposit \subseteq Order
      BY DEF Order
    <2> QED
      BY <1>1, <2>2, <2>3, EndStays, TransactionWrites
  <1>2. FlowInv /\ [Next]_vars =>
          [\A o \in Withdrawal :
             transaction[o] \in {"COMPLETED", "FAILED"} => transaction'[o] = transaction[o]]_vars
    BY <1>1
  <1> QED
    BY <1>2, FlowAlways, PTL DEF Spec, WithdrawalFinal

\* An order is known to the API before it is known to the service, and while
\* its create is under way.
KnownInv ==
    /\ \A o \in Order : exists(o) => transaction[o] # "NONE"
    /\ \A h \in Handler : req[h].pc \in {"creating", "created"} => transaction[req[h].order] # "NONE"

\* A row of the API stays.
LEMMA TransactionStays ==
    ASSUME FlowInv, [Next]_vars, NEW o \in Order, transaction[o] # "NONE"
    PROVE  transaction'[o] # "NONE"
  <1>1. transaction \in [Order -> StatusType]
    BY DEF FlowInv, ApiTyped
  <1>2. ASSUME NEW k \in Order, NEW s, s # "NONE", transaction' = [transaction EXCEPT ![k] = s]
        PROVE  transaction'[o] # "NONE"
    BY <1>1, <1>2
  <1>3. ASSUME NEW cb, Api!handleStatus(cb) PROVE transaction'[o] # "NONE"
    <2>1. cb.order \in Order
      BY <1>3, HandledCallback DEF Api!handleStatus
    <2>2. transaction' = [transaction EXCEPT ![cb.order] = Api!statusAfter(cb)]
      BY <1>3 DEF Api!handleStatus
    <2>3. Api!statusAfter(cb) = "NONE" => transaction[cb.order] = "NONE"
      BY DEF Api!statusAfter
    <2> QED
      BY <1>1, <2>1, <2>2, <2>3
  <1> QED
    BY <1>2, <1>3, TransactionWrites DEF Order

\* A request that is creating an order was so before; refreshes, webhooks and
\* cancels create none.
LEMMA CreatesGoOn ==
    ASSUME ServiceInv, NEW g \in Handler, NEW h \in Handler,
           Request(g) \/ \E o \in Order : refresh_order(g, o),
           req'[h].pc \in {"creating", "created"}
    PROVE  req[h].pc \in {"creating", "created"} /\ req'[h].order = req[h].order
  <1>1. DOMAIN req = Handler
    BY DEF ServiceInv, RequestsOK
  <1>2. CASE h # g
    <2>1. req'[h] = req[h]
      BY <1>1, <1>2 DEF Request, becomes, returns, create_at_corpx, create_commit, receive_corpx_webhook,
         find_order_for_event, refresh_order, cancel_order, lookup, commit_event, cancel_qr, cancel_commit,
         rollback
    <2> QED
      BY <2>1
  <1>3. CASE h = g
    <2>1. ASSUME NEW q, becomes(g, q), q.pc \notin {"creating", "created"} PROVE FALSE
      BY <1>1, <1>3, <2>1 DEF becomes
    <2>2. ~returns(g)
      BY <2>1 DEF returns, Idle
    <2>3. create_at_corpx(g)
      <3>1. ~(find_order_for_event(g) \/ lookup(g))
        BY <2>1, <2>2 DEF find_order_for_event, lookup
      <3>2. ~\E e \in notices, keyed \in Keyed : receive_corpx_webhook(g, e, keyed)
        BY <2>1 DEF receive_corpx_webhook
      <3>3. ~\E o \in Order : refresh_order(g, o)
        BY <2>1 DEF refresh_order
      <3>4. ~\E o \in Order : cancel_order(g, o)
        BY <2>1 DEF cancel_order
      <3>5. ~cancel_qr(g)
        BY <2>1 DEF cancel_qr
      <3> QED
        BY <2>2, <3>1, <3>2, <3>3, <3>4, <3>5
           DEF Request, create_commit, commit_event, cancel_commit, rollback
    <2> QED
      BY <1>1, <1>3, <2>3 DEF create_at_corpx, becomes
  <1> QED
    BY <1>2, <1>3

\* An order comes into the table by the create of the API's request.
LEMMA KnownStep ==
    ASSUME FlowInv, KnownInv, [Next]_vars
    PROVE  KnownInv'
  <1>0. ServiceInv /\ ServiceInv' /\ [ServiceNext]_serviceVars /\ DOMAIN req = Handler
    BY ServiceSteps, FlowStep DEF FlowInv, ServiceInv, RequestsOK
  <1>1. ASSUME NEW o \in Order, exists(o)' PROVE transaction'[o] # "NONE"
    <2>1. CASE exists(o)
      BY <2>1, TransactionStays DEF KnownInv
    <2>2. CASE ~exists(o)
      <3>1. identifier'[o] # 0 /\ identifier[o] = 0
        BY <1>0, <1>1, <2>2 DEF ServiceInv, OrdersOK
      <3>2. PICK h \in Handler : create_commit(h)
        BY <1>0, <3>1, IdentifierWrites DEF serviceVars, tables
      <3>3. req[h].order = o /\ req[h].pc = "created"
        BY <1>0, <3>1, <3>2 DEF create_commit, ServiceInv, DataTyped
      <3> QED
        BY <3>3, TransactionStays DEF KnownInv
    <2> QED
      BY <2>1, <2>2
  <1>2. ASSUME NEW h \in Handler, req'[h].pc \in {"creating", "created"}
        PROVE  transaction'[req'[h].order] # "NONE"
    <2>1. ASSUME req[h].pc \in {"creating", "created"}, req'[h].order = req[h].order
          PROVE  transaction'[req'[h].order] # "NONE"
      <3>1. req[h].order \in Order
        BY <1>0, <2>1 DEF ServiceInv, RequestsOK, RequestOK
      <3> QED
        BY <2>1, <3>1, TransactionStays DEF KnownInv
    <2>2. CASE req' = req
      BY <1>2, <2>1, <2>2
    <2>3. ASSUME NEW g \in Handler, NEW o \in Order, CreateOrder(g, o)
          PROVE  transaction'[req'[h].order] # "NONE"
      <3>1. req' = [req EXCEPT ![g] = [pc |-> "creating", order |-> o]]
        BY <2>3 DEF CreateOrder, create, becomes
      <3>2. \E s \in {"PENDING_PAYMENT", "PROCESSING"} : transaction' = [transaction EXCEPT ![o] = s]
        BY <2>3 DEF CreateOrder, Api!createDepositOrder, Api!createWithdrawalOrder
      <3>3. transaction'[o] # "NONE"
        BY <3>2 DEF FlowInv, ApiTyped
      <3>4. CASE h = g
        BY <1>0, <3>1, <3>3, <3>4
      <3>5. CASE h # g
        BY <1>0, <1>2, <2>1, <3>1, <3>5
      <3> QED
        BY <3>4, <3>5
    <2>4. ASSUME NEW g \in Handler, Request(g) \/ \E o \in Order : refresh_order(g, o)
          PROVE  transaction'[req'[h].order] # "NONE"
      BY <1>0, <1>2, <2>1, <2>4, CreatesGoOn
    <2>5. CASE ServiceStep
      BY <2>2, <2>4, <2>5 DEF ServiceStep, CorpxMoves
    <2>6. ASSUME NEW g \in Handler, NEW o \in Order, RefreshPixOrder(g, o)
          PROVE  transaction'[req'[h].order] # "NONE"
      BY <2>4, <2>6 DEF RefreshPixOrder
    <2>7. ASSUME NEW w \in Worker,
                 Loop(w) \/ Post(w) \/ Receive(w) \/ Acknowledged(w) \/ GiveUp(w) \/ BatchLost(w)
          PROVE  req' = req
      BY <2>7 DEF Loop, Post, Receive, Acknowledged, GiveUp, BatchLost, send_pending_callbacks, worker_commit,
                  attempt_send, post_returns, worker_rollback, serviceVars
    <2>8. ASSUME NEW r \in handling, Handle(r.callback) \/ Crash(r.callback) PROVE req' = req
      BY <2>8 DEF Handle, Crash, serviceVars
    <2>9. ASSUME NEW o \in Order, CreateAnswered(o) PROVE req' = req
      BY <2>9 DEF CreateAnswered, serviceVars
    <2>10. CASE UNCHANGED vars
      BY <2>2, <2>10 DEF vars, serviceVars
    <2> QED
      BY <2>2, <2>3, <2>5, <2>6, <2>7, <2>8, <2>9, <2>10 DEF Next
  <1> QED
    BY <1>1, <1>2 DEF KnownInv

\* What Transactions assumes of the callbacks is what the Pix service sends:
\* every row of the outbox is about a transaction the API has made before
\* (createDepositOrder, createWithdrawalOrder), and of a deposit it says
\* nothing but CONFIRMED, EXPIRED or CANCELED.
THEOREM CallbacksAreExpected == Spec => []CallbacksExpected
  <1>1. Init => KnownInv
    BY DEF Init, ServiceInit, KnownInv, exists, Idle
  <1>2. FlowInv /\ KnownInv /\ [Next]_vars => KnownInv'
    BY KnownStep
  <1>3. ASSUME FlowInv, KnownInv PROVE CallbacksExpected
    <2> SUFFICES ASSUME NEW c \in DOMAIN outbox, NEW o, o = outbox[c].order
                 PROVE  /\ transaction[o] # "NONE"
                        /\ o \in Deposit => outbox[c].status \in Api!DepositOutcomes
      BY DEF CallbacksExpected
    <2>0. outbox[c] \in Rows
      BY <1>3 DEF FlowInv, ServiceInv, DataTyped
    <2>1. exists(o) /\ backs(outbox[c].status, corpxState(o))
      BY <1>3 DEF FlowInv, ServiceInv, RowsOK
    <2>2. o \in Order
      BY <2>0 DEF Rows
    <2>3. corpxState(o) \in CorpxStates(o)
      BY <1>3, <2>1, <2>2, OwnIdentifier DEF FlowInv, ServiceInv, DataTyped, corpxState
    <2>4. o \in Deposit => outbox[c].status \in Api!DepositOutcomes
      BY <2>1, <2>3 DEF backs, CorpxStates, Api!DepositOutcomes
    <2> QED
      BY <1>3, <2>1, <2>2, <2>4 DEF KnownInv
  <1> QED
    BY <1>1, <1>2, <1>3, FlowAlways, PTL DEF Spec
=============================================================================
