---------------------------- MODULE Receivables -----------------------------
(***************************************************************************)
(* The life of a receivable in the API: registration, validation by the    *)
(* back office, tokenization, assignment to the platform and payout by the *)
(* pool, purchase by an investor and collection from the debtor.  The row  *)
(* is in the database, the title in NfeTokenization, the money in the      *)
(* liquidity pool, the collection in the Pix service, and no transaction   *)
(* spans two of them.                                                      *)
(*                                                                         *)
(* A request is a process: it reads the row, calls out, and writes the row *)
(* by id, whatever the row has become.  A call to the chain ends in one of *)
(* three ways: confirmed, refused, or given up on after the poll deadline  *)
(* although the transaction may still be applied (late).                   *)
(***************************************************************************)
EXTENDS NfeTokenization, Sequences

CONSTANTS Document,    \* hashes of uploaded invoices: SHA-256 in hex, by the upload form
          Pme,         \* the wallet of the company that owns the receivables
          ZeroHash,    \* toBytes32 of the default in submitAssignment
          NoDocument,
          Worker,      \* requests in flight at once
          MaxOrders,   \* bound: collection orders per receivable
          MaxReports   \* bound: callbacks about paid collections

ASSUME ReceivableAssumption ==
    /\ Pme \in Wallet
    /\ Hash = Document \cup Key \cup {ZeroHash}
    /\ NoDocument \notin Hash /\ ZeroHash \notin Document \cup Key
    /\ Document \cap Key = {}
    /\ MaxOrders \in Nat /\ MaxReports \in Nat

VARIABLES status,      \* Receivable.status, "absent" before the row exists
          document,    \* Receivable.documentHash
          investment,  \* Investment of each receivable: none, reserved, charged
          collection,  \* ReceivableCollection rows: status and the order each names
          recorded,    \* PixWebhookEvent rows of type COLLECTION
          processed,   \* pool: ProcessedInvoice
          payouts,     \* history: payouts by the pool
          late,        \* transactions sent that may still be applied
          resent,      \* history: receivables whose pending transfer was sent again
          foreign,     \* history: receivables submitted with some other transaction
          orders, paid, \* Pix service: orders made, orders paid
          req          \* what each request is at

rowVars == <<status, document, investment, collection, recorded>>
poolVars == <<processed, payouts>>
pixVars == <<orders, paid>>
chainVars == <<nfeVars, poolVars>>
sentHistory == <<resent, foreign>>
sentVars == <<late, sentHistory>>
vars == <<rowVars, chainVars, sentVars, pixVars, req>>

Status == {"absent", "pending", "validated", "rejected", "tokenized",
           "assignment_pending", "active"}
Order == 0..MaxOrders
Event == Key \X (1..MaxOrders) \X (1..MaxReports)  \* receivable, order, report
Idle == [op |-> "idle"]

Init ==
    /\ NfeInit
    /\ status = [r \in Key |-> "absent"]
    /\ document = [r \in Key |-> NoDocument]
    /\ investment = [r \in Key |-> "none"]
    /\ collection = [r \in Key |-> <<>>]
    /\ recorded = {}
    /\ processed = {}
    /\ payouts = [r \in Key |-> 0]
    /\ late = {} /\ resent = {} /\ foreign = {}
    /\ orders = [r \in Key |-> 0] /\ paid = {}
    /\ req = [w \in Worker |-> Idle]

----------------------------------------------------------------------------
(* Transactions on the chain.                                              *)

\* Without a document the hash is derived from the key, so that invoices
\* without XML do not collide in the contract.
xml_hash(r, d) == IF d = NoDocument THEN r ELSE d

\* buy_tokenized_invoice: the pool pays once per hash, if it has the BRLT (a
\* pool without it is one of the refusals of invokeContract)
buy(r, h) ==
    /\ h \notin processed
    /\ processed' = processed \cup {h}
    /\ payouts' = [payouts EXCEPT ![r] = @ + 1]

Apply(tx) ==
    \/ tx.kind = "tokenize" /\ tokenize_nfe(tx.r, tx.h, Pme) /\ UNCHANGED poolVars
    \/ tx.kind = "assign" /\ transfer_ownership(tx.r, Platform, {Pme}) /\ UNCHANGED poolVars
    \/ tx.kind = "buy" /\ buy(tx.r, tx.h) /\ UNCHANGED nfeVars

At(w, op, pc) == req[w].op = op /\ req[w].pc = pc
Goto(w, pc) == req' = [req EXCEPT ![w].pc = pc]
Finish(w) == req' = [req EXCEPT ![w] = Idle]
Start(w, op, r, pc, h) ==
    /\ req[w] = Idle
    /\ req' = [req EXCEPT ![w] = [op |-> op, r |-> r, pc |-> pc, h |-> h]]

\* The ledger takes a transaction that was sent, whether or not anyone still
\* waits for it.
TransactionApplied(tx) ==
    /\ tx \in late
    /\ late' = late \ {tx}
    /\ Apply(tx)
    /\ UNCHANGED <<rowVars, sentHistory, pixVars, req>>

awaits(w, tx) == tx.kind = "assign" /\ At(w, "submit", "await") /\ req[w].r = tx.r

\* It fails or expires, and who waits for it fails too.
TransactionDropped(tx) ==
    /\ tx \in late
    /\ late' = late \ {tx}
    /\ req' = [w \in Worker |-> IF awaits(w, tx) THEN Idle ELSE req[w]]
    /\ UNCHANGED <<rowVars, chainVars, sentHistory, pixVars>>

\* Simulate, send and wait for the confirmation.
invokeContract(w, tx, next) ==
    \/ Apply(tx) /\ Goto(w, next) /\ UNCHANGED late
    \/ Finish(w) /\ UNCHANGED <<chainVars, late>>
    \/ ENABLED Apply(tx) /\ late' = late \cup {tx} /\ Finish(w) /\ UNCHANGED chainVars

\* An update by id, without a condition on the status.
setStatus(r, s) == status' = [status EXCEPT ![r] = s]

----------------------------------------------------------------------------
(* Registration: the upload form makes the row, then the document.         *)

create(r) ==
    /\ status[r] = "absent"
    /\ setStatus(r, "pending")
    /\ UNCHANGED <<document, investment, collection, recorded, chainVars, sentVars,
                   pixVars, req>>

\* documents.create with type invoice, whatever the receivable has become
createDocument(r, d) ==
    /\ status[r] # "absent"
    /\ document' = [document EXCEPT ![r] = d]
    /\ UNCHANGED <<status, investment, collection, recorded, chainVars, sentVars,
                   pixVars, req>>

----------------------------------------------------------------------------
(* Validation and tokenization.                                            *)

approveReceivable(w, r) ==
    /\ status[r] = "pending"
    /\ Start(w, "tokenize", r, "validate", NoDocument)
    /\ UNCHANGED <<rowVars, chainVars, sentVars, pixVars>>

ApproveValidate(w) ==
    /\ At(w, "tokenize", "validate")
    /\ setStatus(req[w].r, "validated")
    /\ Goto(w, "read")
    /\ UNCHANGED <<document, investment, collection, recorded, chainVars, sentVars,
                   pixVars>>

rejectReceivable(w, r) ==
    /\ status[r] = "pending"
    /\ Start(w, "reject", r, "store", NoDocument)
    /\ UNCHANGED <<rowVars, chainVars, sentVars, pixVars>>

RejectStore(w) ==
    /\ At(w, "reject", "store")
    /\ setStatus(req[w].r, "rejected")
    /\ Finish(w)
    /\ UNCHANGED <<document, investment, collection, recorded, chainVars, sentVars,
                   pixVars>>

\* tokenize and activate, called by the company instead of the back office
tokenize(w, r) ==
    /\ status[r] = "validated"
    /\ Start(w, "tokenize", r, "chain", document[r])
    /\ UNCHANGED <<rowVars, chainVars, sentVars, pixVars>>

\* The back office's call goes on into tokenize, which reads the row again.
TokenizeRead(w) ==
    /\ At(w, "tokenize", "read")
    /\ IF status[req[w].r] = "validated"
       THEN req' = [req EXCEPT ![w].pc = "chain", ![w].h = document[req[w].r]]
       ELSE Finish(w)
    /\ UNCHANGED <<rowVars, chainVars, sentVars, pixVars>>

\* Faulty variant: the refusal of a second registration counts as success.
TokenizeChainTolerant(w) ==
    /\ At(w, "tokenize", "chain")
    /\ \/ nfe[req[w].r] # Unknown /\ Goto(w, "store") /\ UNCHANGED <<chainVars, late>>
       \/ invokeContract(w, [kind |-> "tokenize", r |-> req[w].r, h |-> xml_hash(req[w].r, req[w].h)], "store")
    /\ UNCHANGED <<rowVars, sentHistory, pixVars>>

TokenizeChain(w) ==
    /\ At(w, "tokenize", "chain")
    /\ invokeContract(w, [kind |-> "tokenize", r |-> req[w].r, h |-> xml_hash(req[w].r, req[w].h)], "store")
    /\ UNCHANGED <<rowVars, sentHistory, pixVars>>

TokenizeStore(w) ==
    /\ At(w, "tokenize", "store")
    /\ setStatus(req[w].r, "tokenized")
    /\ Finish(w)
    /\ UNCHANGED <<document, investment, collection, recorded, chainVars, sentVars,
                   pixVars>>

----------------------------------------------------------------------------
(* Assignment.                                                             *)

assignable(r) == status[r] \in {"tokenized", "assignment_pending"}

requestAssignment(w, r) ==
    /\ status[r] = "tokenized"
    /\ Start(w, "request", r, "store", NoDocument)
    /\ UNCHANGED <<rowVars, chainVars, sentVars, pixVars>>

RequestStore(w) ==
    /\ At(w, "request", "store")
    /\ setStatus(req[w].r, "assignment_pending")
    /\ Finish(w)
    /\ UNCHANGED <<document, investment, collection, recorded, chainVars, sentVars,
                   pixVars>>

\* assign consumes an authorization (FinancialAuthorizations) and then calls
\* transfer_ownership with three arguments, which the two-argument function
\* of the contract refuses.
assign(w, r) ==
    /\ assignable(r)
    /\ Start(w, "assign", r, "chain", NoDocument)
    /\ UNCHANGED <<rowVars, chainVars, sentVars, pixVars>>

AssignChain(w) ==
    /\ At(w, "assign", "chain")
    /\ Finish(w)
    /\ UNCHANGED <<rowVars, chainVars, sentVars, pixVars>>

\* StellarService.prepareAssignment simulates transfer_ownership without asking
\* for the owner's signature: it fails for an unknown or inactive invoice alone.
simulates(r) == nfe[r].status = "Active"

\* The assignment dialog: prepareAssignment builds the transaction, the
\* company's wallet signs it, and submitAssignment reads the row again.
prepareAssignment(w, r) ==
    /\ assignable(r)
    /\ simulates(r)
    /\ Start(w, "submit", r, "sign", NoDocument)
    /\ UNCHANGED <<rowVars, chainVars, sentVars, pixVars>>

submitAssignment(w) ==
    /\ At(w, "submit", "sign")
    /\ \/ /\ assignable(req[w].r)
          /\ req' = [req EXCEPT ![w].pc = "transfer", ![w].h = document[req[w].r]]
       \/ Finish(w)   \* signature refused, or the receivable moved on
    /\ UNCHANGED <<rowVars, chainVars, sentVars, pixVars>>

\* The transaction prepareAssignment built.
transferTx(r) == [kind |-> "assign", r |-> r, h |-> ZeroHash]

\* Faulty variant: the payout is ordered before the title has moved.
SubmitTransferUnconfirmed(w) ==
    /\ At(w, "submit", "transfer")
    /\ Goto(w, "buy")
    /\ late' = late \cup {transferTx(req[w].r)}
    /\ UNCHANGED <<rowVars, chainVars, sentHistory, pixVars>>

\* submitSignedAssignment sends what the company signed.  Only ERROR is a
\* failure: the same transfer, still pending, is answered DUPLICATE, and the
\* request waits for it like the one that sent it first.  (Another transfer
\* built beside a pending one has its sequence number and is never applied, and
\* one of a title that has moved fails: both end the request.)  Nor is the
\* transaction compared with the one that was built: any other of the wallet
\* that is confirmed serves; what that one does is not followed here.
SubmitTransfer(w) ==
    LET r == req[w].r  tx == transferTx(r) IN
    /\ At(w, "submit", "transfer")
    /\ \/ tx \in late
          /\ resent' = resent \cup {r}
          /\ Goto(w, "await") /\ UNCHANGED <<late, foreign>>
       \/ tx \notin late /\ nfe[r].owner = Pme
          /\ late' = late \cup {tx}
          /\ Goto(w, "await") /\ UNCHANGED sentHistory
       \/ foreign' = foreign \cup {r}
          /\ Goto(w, "buy") /\ UNCHANGED <<late, resent>>
       \/ Finish(w) /\ UNCHANGED sentVars
    /\ UNCHANGED <<rowVars, chainVars, pixVars>>

\* waitForConfirmation: the transfer is found applied, or not in time.
AwaitTransfer(w) ==
    /\ At(w, "submit", "await")
    /\ \/ nfe[req[w].r].owner = Platform /\ Goto(w, "buy")
       \/ Finish(w)
    /\ UNCHANGED <<rowVars, chainVars, sentVars, pixVars>>

\* Faulty variant: a payout that failed is logged and the assignment goes on.
SubmitBuyUnchecked(w) ==
    /\ At(w, "submit", "buy")
    /\ Goto(w, "store")
    /\ UNCHANGED <<rowVars, chainVars, sentVars, pixVars>>

\* The pool pays the company; without a document the hash is all zeros.
SubmitBuy(w) ==
    /\ At(w, "submit", "buy")
    /\ invokeContract(w, [kind |-> "buy", r |-> req[w].r,
                          h |-> IF req[w].h = NoDocument THEN ZeroHash ELSE req[w].h], "store")
    /\ UNCHANGED <<rowVars, sentHistory, pixVars>>

SubmitStore(w) ==
    /\ At(w, "submit", "store")
    /\ setStatus(req[w].r, "active")
    /\ Goto(w, "collect")
    /\ UNCHANGED <<document, investment, collection, recorded, chainVars, sentVars,
                   pixVars>>

----------------------------------------------------------------------------
(* Collection from the debtor.                                             *)

\* The Pix service makes an order, whether or not its answer arrives, and the
\* request goes on to name it in the i-th collection of r; an error ends the
\* request.  Neither end is idempotent: every call makes another order.
createCollection(w, r, i) ==
    \/ /\ orders[r] < MaxOrders
       /\ orders' = [orders EXCEPT ![r] = @ + 1]
       /\ \/ req' = [req EXCEPT ![w] = [op |-> "collect", r |-> r, pc |-> "name", h |-> <<i, orders[r] + 1>>]]
          \/ Finish(w)
    \/ UNCHANGED orders /\ Finish(w)

\* The row is made first; a failing Pix service leaves it without an order
\* and does not fail the assignment.
createCollectionOrder(w) ==
    LET r == req[w].r IN
    /\ At(w, "submit", "collect")
    /\ collection' = [collection EXCEPT ![r] = Append(@, [status |-> "pending_payment", order |-> 0])]
    /\ createCollection(w, r, Len(collection[r]) + 1)
    /\ UNCHANGED <<status, document, investment, recorded, chainVars, sentVars, paid>>

\* Faulty variant: a retry makes a collection of its own.
retryWithNewRow(w, r) ==
    /\ req[w] = Idle
    /\ collection[r] # <<>>
    /\ collection' = [collection EXCEPT ![r] = Append(@, [status |-> "pending_payment", order |-> 0])]
    /\ createCollection(w, r, Len(collection[r]) + 1)
    /\ UNCHANGED <<status, document, investment, recorded, chainVars, sentVars, paid>>

\* The page offers it for a pending collection without a QR code; the API
\* takes it for any collection.
retryCollectionOrder(w, r) ==
    /\ req[w] = Idle
    /\ \E i \in 1..Len(collection[r]) : createCollection(w, r, i)
    /\ UNCHANGED <<rowVars, chainVars, sentVars, paid>>

\* The update with the order id and the identifier the Pix service gave it.
NameOrder(w) ==
    /\ At(w, "collect", "name")
    /\ collection' = [collection EXCEPT ![req[w].r][req[w].h[1]].order = req[w].h[2]]
    /\ Finish(w)
    /\ UNCHANGED <<status, document, investment, recorded, chainVars, sentVars, pixVars>>

\* The debtor pays; CorpX reports it as qrcode.paid and as pix.in.completed,
\* and each report becomes a callback with an event id of its own.
PayOrder(r, n) ==
    /\ n \in 1..orders[r]
    /\ Cardinality(paid) < MaxReports
    /\ paid' = paid \cup {<<r, n, Cardinality({e \in paid : e[1] = r /\ e[2] = n}) + 1>>}
    /\ UNCHANGED <<rowVars, chainVars, sentVars, orders, req>>

\* findUnique and the unique index on eventId: an event is taken up once.
recordEvent(e) == e \in paid /\ e \notin recorded

processCollectionCallback(w, e) ==
    /\ recordEvent(e)
    /\ recorded' = recorded \cup {e}
    /\ Start(w, "settle", e[1], "collection", e[2])
    /\ UNCHANGED <<status, document, investment, collection, chainVars, sentVars, pixVars>>

\* The row with its order paid, if it is the one.
paidIf(row, n) == [row EXCEPT !.status = IF row.order = n THEN "paid" ELSE @]

\* Marks the collection that names the order paid; settleInvoice then reads the
\* receivable, which nothing has ever made settled.
CallbackCollection(w) ==
    LET r == req[w].r IN
    /\ At(w, "settle", "collection")
    /\ collection' = [collection EXCEPT ![r] = [i \in DOMAIN @ |-> paidIf(@[i], req[w].h)]]
    /\ Goto(w, "chain")
    /\ UNCHANGED <<status, document, investment, recorded, chainVars, sentVars, pixVars>>

\* settleInvoiceInPool gives the pool the receivable's UUID as invoice hash, of
\* which toBytes32 makes 4 bytes: the contract, which takes 32, refuses the call,
\* and the receivable stays as it is with the event on record.
SettleChain(w) ==
    /\ At(w, "settle", "chain")
    /\ Finish(w)
    /\ UNCHANGED <<rowVars, chainVars, sentVars, pixVars>>

----------------------------------------------------------------------------
(* Purchase by an investor.                                                *)

\* The reads of the reserving transaction (read committed, no row lock).
invest(w, r) ==
    /\ investment[r] = "none" /\ status[r] = "active"
    /\ Start(w, "invest", r, "reserve", NoDocument)
    /\ UNCHANGED <<rowVars, chainVars, sentVars, pixVars>>

\* Its writes: a second purchase fails on the unique index, and the receivable
\* is written active again.
InvestReserve(w) ==
    LET r == req[w].r IN
    /\ At(w, "invest", "reserve")
    /\ IF investment[r] = "none"
       THEN /\ investment' = [investment EXCEPT ![r] = "reserved"]
            /\ setStatus(r, "active")
            /\ Goto(w, "consume")
       ELSE Finish(w) /\ UNCHANGED <<investment, status>>
    /\ UNCHANGED <<document, collection, recorded, chainVars, sentVars, pixVars>>

\* The authorization is consumed after the reservation, which stays when there
\* is none.
InvestConsume(w) ==
    /\ At(w, "invest", "consume")
    /\ Goto(w, "wallet") \/ Finish(w)
    /\ UNCHANGED <<rowVars, chainVars, sentVars, pixVars>>

\* The API has the key of a custodial wallet only, and may have to make its
\* account first, from the account of the platform.
ensureCustodialWalletForUser(w) ==
    /\ At(w, "invest", "wallet")
    /\ Goto(w, "charge") \/ Finish(w)
    /\ UNCHANGED <<rowVars, chainVars, sentVars, pixVars>>

\* chargeInvestor, confirmed or not
InvestCharge(w) ==
    /\ At(w, "invest", "charge")
    /\ \/ investment' = [investment EXCEPT ![req[w].r] = "charged"] /\ Goto(w, "chain")
       \/ Finish(w) /\ UNCHANGED investment
    /\ UNCHANGED <<status, document, collection, recorded, chainVars, sentVars, pixVars>>

\* transferNftToInvestor fails like transferNftToPlatform, and nothing takes
\* the charge back.
InvestTransfer(w) ==
    /\ At(w, "invest", "chain")
    /\ Finish(w)
    /\ UNCHANGED <<rowVars, chainVars, sentVars, pixVars>>

----------------------------------------------------------------------------
\* The API process stops between two steps of a request.
Crash(w) ==
    /\ req[w] # Idle
    /\ Finish(w)
    /\ UNCHANGED <<rowVars, chainVars, sentVars, pixVars>>

Step(w) ==
    \/ ApproveValidate(w) \/ TokenizeRead(w) \/ TokenizeChain(w) \/ TokenizeStore(w)
    \/ RejectStore(w) \/ RequestStore(w) \/ AssignChain(w)
    \/ submitAssignment(w) \/ SubmitTransfer(w) \/ AwaitTransfer(w) \/ SubmitBuy(w) \/ SubmitStore(w)
    \/ createCollectionOrder(w) \/ NameOrder(w)
    \/ CallbackCollection(w) \/ SettleChain(w)
    \/ InvestReserve(w) \/ InvestConsume(w) \/ ensureCustodialWalletForUser(w) \/ InvestCharge(w) \/ InvestTransfer(w)

Next ==
    \/ \E r \in Key :
         \/ create(r)
         \/ \E d \in Document : createDocument(r, d)
         \/ \E n \in 1..MaxOrders : PayOrder(r, n)
         \/ \E w \in Worker :
              \/ approveReceivable(w, r) \/ rejectReceivable(w, r) \/ tokenize(w, r)
              \/ requestAssignment(w, r) \/ assign(w, r) \/ prepareAssignment(w, r) \/ invest(w, r)
              \/ retryCollectionOrder(w, r)
    \/ \E w \in Worker :
         \/ Step(w) \/ Crash(w)
         \/ \E e \in paid : processCollectionCallback(w, e)
    \/ \E tx \in late : TransactionApplied(tx) \/ TransactionDropped(tx)

Spec == Init /\ [][Next]_vars

----------------------------------------------------------------------------
Request ==
    {Idle} \cup
    [op : {"tokenize", "reject", "request", "assign", "submit", "collect", "settle", "invest"}, r : Key,
     pc : {"validate", "read", "chain", "store", "sign", "transfer", "await", "buy", "collect", "name",
           "collection", "reserve", "consume", "wallet", "charge"},
     h : Hash \cup {NoDocument} \cup Order \cup (Nat \X Order)]

\* Rows, title, pool and requests keep their shape.
ReceivablesTypeOK ==
    /\ NfeTypeOK
    /\ status \in [Key -> Status]
    /\ document \in [Key -> Document \cup {NoDocument}]
    /\ investment \in [Key -> {"none", "reserved", "charged"}]
    /\ collection \in [Key -> Seq([status : {"pending_payment", "paid"}, order : Order])]
    /\ recorded \subseteq paid /\ paid \subseteq Event
    /\ processed \subseteq Hash
    /\ payouts \in [Key -> Nat]
    /\ late \subseteq [kind : {"tokenize", "assign", "buy"}, r : Key, h : Hash]
    /\ resent \subseteq Key /\ foreign \subseteq Key
    /\ orders \in [Key -> Order]
    /\ req \in [Worker -> Request]

\* The pool pays for a receivable only when the title is with the platform for
\* good, and once: overlapping submissions, submissions repeated after a lost
\* answer, documents replaced half way and transactions applied after everyone
\* gave up on them do not pay twice.  It rests on what the client submits: the
\* same signed transfer sent again while it is pending is confirmed to both
\* requests, which may buy with two document hashes, and a transaction other
\* than the transfer that was built is not noticed.
PaidOnceForTitle ==
    \A r \in Key : payouts[r] > 0 =>
        /\ r \notin foreign => nfe[r].owner = Platform /\ nft[r] = Platform
        /\ r \notin foreign \cup resent => payouts[r] = 1

\* Only a receivable the pool has paid for is offered to investors, sold to
\* one or collected from its debtor, although findPool and create look at the
\* database alone.
OfferedOnlyIfPaid ==
    \A r \in Key :
        status[r] = "active" \/ investment[r] # "none" \/ orders[r] > 0
            => payouts[r] > 0

\* The debtor is billed at most once per payout: createCollectionOrder makes a
\* row each time it runs, so however submissions overlap, are repeated or
\* break off, only a request that saw a payout of its own may get there.
BilledOncePerPayout == \A r \in Key : Len(collection[r]) <= payouts[r]

\* Updates go by id and repeat no check, so a request that read the row before
\* the pool paid may take the receivable off the market again.  Only the three
\* writes that no contract call precedes do: the writes that follow a confirmed
\* transaction never find a later status than the one they were made for.
WithdrawnOnlyByStaleRequest ==
    [][\A r \in Key :
         status[r] = "active" /\ status'[r] # "active" =>
            \E w \in Worker :
                /\ req[w] # Idle /\ req'[w] # req[w] /\ req[w].r = r
                /\ <<req[w].op, req[w].pc>> \in {<<"tokenize", "validate">>, <<"reject", "store">>,
                                                 <<"request", "store">>}]_vars
=============================================================================
