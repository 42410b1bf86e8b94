# CredBridge: a TLA+ model of the money paths

CredBridge turns Brazilian invoices (NF-e) into receivables that a liquidity
pool finances. Investors pay in by Pix, receive BRLT tokens and deposit them
into a Soroban pool contract; the pool advances BRLT to small companies (PMEs)
against tokenized invoices; the PME withdraws by Pix. This directory models the
parts of the code through which money moves, model-checks them with TLC on
small instances and proves the central results with TLAPS for all sizes.

Source paths below are relative to `src/`.

## 1. Inventory

| Component | State | Operations | Talks to |
|---|---|---|---|
| BRLT and CBPOOL tokens, `contracts/mock_brlt` | admin, balances, supply | initialize, mint, burn, transfer | called by the pool, by holders and by the platform |
| Liquidity pool, `contracts/liquidity_pool` | PoolState, processed invoices | initialize, deposit, withdraw, buy_tokenized_invoice, settle_invoice_in_pool, pause, unpause, set_operator | both tokens (cross-contract calls) |
| NF-e contract, `contracts/nfe_tokenization` | NF-e records, NFT owners, listings | tokenize_nfe, list_invoice_for_sale, mark_as_sold, transfer_ownership, settle_nfe, NFT transfer and burn | called by the API's Stellar adapter |
| Pix service, `pix-service/app` | pix_orders, pix_events, outbox_callbacks, collection_orders | create, webhook, refresh, cancel, collections; callback worker | CorpX (HTTP and webhooks), the API (callbacks) |
| API Pix module, `apps/api/src/modules/pix` | Transaction, PixWebhookEvent, ReceivableCollection | create deposit / withdrawal, burn and submit, refresh, order and collection callbacks | Pix service, Stellar adapter |
| API financial authorizations | FinancialAuthorization | createChallenge, verify, consume | called by every operation that needs consent |
| API receivables, investments, settlements, back office | Receivable, Investment, Settlement, Transaction | the assignment and investment sagas, settleInvoice, approve / reject / mint by hand, createDeposit, markAsPaid, on-chain deposit | Stellar adapter, authorizations, Pix module |
| Stellar adapter, `apps/api/src/shared/blockchain` | none of its own (platform key, RPC) | build and simulate, submit, wait for confirmation, give up | the contracts |
| Sessions and wallets | User | privySession, login, roles | Privy |
| Web front end: session, `apps/web` | Privy account, token in localStorage, attempt marker in sessionStorage, login panel | sign in, automatic and clicked exchange, 401, navigation, reload, sign-out here and in another tab | API, Privy |
| Web front end: dialogs | what a dialog is open for and shows, calls and timers in flight | twelve components that submit something | API, wallet |
| Documents, audit log, KYC / storage stubs, display | append-only rows, UI | | |

What is hard here:

* **Stale reads.** Every request of the Pix service is one READ COMMITTED
  transaction without row locks. It reads an order, awaits CorpX, checks the
  transition against what it read and commits the changed columns. Nothing
  compares the row again.
* **At-least-once everything.** CorpX redelivers webhooks, the outbox
  redelivers callbacks, clients repeat creates, and `uvicorn --workers 2`
  starts two callback workers over one table.
* **Effects outside the database.** A mint or a burn on chain, a QR or a Pix
  Out at CorpX happen between two database statements; a crash or a timeout
  separates them.
* **Rounding.** Shares are priced by integer division, in both directions.
* **Sagas without a coordinator.** A receivable lives in the database, its
  title in one contract, its money in another, its collection at the Pix
  service. A request that is refused, interrupted or given up on half way
  leaves the others as they are, and another request starts from there.
* **Given up is not undone.** `waitForConfirmation` stops polling after a
  while; the transaction may still be applied, after the request that sent it
  has reported failure and a new one has been started.
* **Sent again is a success.** The network answers a transaction it already has
  with DUPLICATE, and the adapter rejects ERROR only: two requests that carry
  the same signed transaction both find it confirmed.
* **Continuations.** A dialog can be closed and opened for something else
  while its handler awaits; what the handler then does hits what is shown by
  then. A client-side navigation takes the page away and ends no handler.
* **Consent.** One signature authorizes one operation once, although verify
  and consume are each a read followed by a write.

`PROJECT.json` lists each of these hazards at its line with the properties
that would catch it.

## 2. Modules

| Module | Models | State |
|---|---|---|
| `MockBrlt` | a fungible token with an admin | admin, balances, total_supply |
| `LiquidityPool` | the pool contract with two instances of `MockBrlt` (BRLT, CBPOOL) | PoolState, processed invoices, both tokens; history `disbursed` |
| `Totals` | the sum of a function with natural values, by counting units | |
| `TotalsProofs` | lemmas about sums | |
| `LiquidityPoolProofs` | theorems about `LiquidityPool` | |
| `PixService` | orders, webhooks, refresh, cancel and outbox of the Pix service, with CorpX as environment | the three tables, what each request handler and worker is doing, CorpX |
| `PixCallbacks` | the API side of a Pix order | Transaction, PixWebhookEvent, handlers in progress, the mints on chain |
| `MintLedger` | abstract: a confirmation is put on record once and minted for at most once, and nothing else mints | confirmations, ledger |
| `PixFlow` | `PixService` and `PixCallbacks` composed over an unreliable POST; implements `MintLedger` | both, and the POST of each worker |
| `PixProofs` | theorems about `PixService` and `PixFlow` | |
| `OneShotConsent` | abstract: a consent is asked for, given and spent once | stage, terms, spentOn |
| `FinancialAuthorizations` | the service, calls split at their awaits; implements `OneShotConsent` | the table, wallets, signatures, calls in progress, clock |
| `FinancialAuthorizationsProofs` | theorems about it | |
| `NfeTokenization` | the NF-e contract with the NFT of the token library | records, known hashes, listings, holder of each NFT |
| `NfeTokenizationProofs` | theorems about it | |
| `Receivables` | a receivable from registration to the payment by its debtor, extending `NfeTokenization`; pool, Pix service and database beside it | rows, payouts of the pool, orders and payments, transactions sent and not yet applied, what each request is at; history of what was sent again or was not the transfer |
| `ReceivablesProofs` | theorems about it | |
| `Transactions` | deposits and withdrawals around the wallet, extending `PixCallbacks`: operators, reported payments, the finalize and withdrawal dialogs; implements `MintLedger` | Transaction, BRLT balance and sequence number of the wallet, burns, transactions applied and still pending, dialogs and approvals in progress |
| `TransactionsProofs` | theorems about it | |
| `WebClient` | one browser tab: session and dialogs | see the inventory |
| `WebClientProofs` | theorems about it | |
| `MC...` | symmetry sets for TLC | |

Each handler is as many actions as it has points where others can run. A
contract entry point is one action (Soroban transactions are atomic, and a
panic leaves no trace, so early returns are guards). A Pix service request is
the SELECT (`receive_corpx_webhook`, `find_order_for_event`, `refresh_order`,
`cancel_order`, `create`), the call to CorpX (`create_at_corpx`, `lookup`,
`cancel_qr`) and the COMMIT (`create_commit`, `commit_event`,
`cancel_commit`); `rollback` can end it in between. A UNIQUE column is a guard
of the COMMIT. The worker's batch is read, sent row by row and committed at
the end, so two workers hold two copies of a row. In the API, the insert of
the webhook event, the mint and the approval are three steps, and the process
can stop between them.

A request of `Receivables` is a process whose `pc` moves from the read of the
row (with all its checks) to each call and each write of the service method;
the write goes by id and repeats no check, as Prisma's `update` does. A call to
the chain is confirmed, refused, or given up on: the last puts it into `late`,
from where it is applied at any time or never. `submitAssignment` goes
through signature, transfer of the title, payout by the pool, row and collection
order. Its transfer is sent and then awaited, because others can send the same
signed transaction meanwhile: `SubmitTransfer` finds it pending (DUPLICATE, the
request waits for it all the same), sends it, or is given some other transaction
of the wallet, which the API does not compare with the one it built. An
investment's `create` is reserve, consume the authorization, charge,
transfer. `transferNftToPlatform` and `transferNftToInvestor` give
`transfer_ownership` an argument more than it has and are refused each time; the
sagas are modelled with that outcome, and an investment therefore ends with its
charge. `settleInvoiceInPool` gives the pool a UUID as invoice hash, of which
`toBytes32` makes 4 bytes; the contract, which takes 32, refuses the call, so
`SettleChain` ends the callback there, with the event on record and the
collection marked paid.

In `Transactions` a dialog of the investor is the sequence of its API calls; a
signed transaction carries the sequence number that was current when it was
built and is applied only while it still is, which is what makes the burn of a
withdrawal unique. A tab that sends a transaction another one had applied is
answered DUPLICATE and goes on like it (`submitDuplicate`), and
`createWithdrawal` is POST `/pix/withdrawals`, where the caller names the burn:
`burnOf` keeps which of the three ways each withdrawal was made. The callbacks
are `PixCallbacks`' own actions, so a deposit can be minted by a callback and by
an operator at the same time.

In `WebClient` a dialog is described by a few predicates: which chain of calls
its handler awaits, whether it can be closed or submitted while busy, whether
it is reset on opening, whether success starts a timer. `Submit`, `NextCall`,
`Succeed` and `Fail` are the handler; the API is reduced to its answers.
`Navigate`, the sign-out, the 401 and the login take a page away (`Unmounted`):
the next one starts with fresh flags, and the handlers in flight go on without a
component, counted in `left`, until they end (`LeftBehindEnds`); a 401 of one of
them still clears the token. `Reload` alone ends them. The logouts of the login
panel likewise go on after it (`logouts`), and its button is enabled during
them.

Definitions named as "Faulty variant" are used by nothing: each is the body of
another definition with a plausible mistake in it, kept to show that the
property which guards against the mistake does fail when it is made.

### Abstractions

* Amounts are small integers in the pool and absent in the Pix modules: every
  order has its own amount, which nothing changes.
* CorpX, the wallet and the chain are modelled from how the code uses them.
  CorpX may move a QR or a Pix Out along `corpxMoves` at any time, publishes
  an event for every move, and any published event can be delivered at any
  time, any number of times, with or without an event id.
* A purpose in `FinancialAuthorizations` is operation, resource, amount and
  destination together: the code compares the four for equality.
* Every amount in `Transactions` and `Receivables` is one unit: what is paid,
  burned or settled is counted, not added up. `LiquidityPool` has the amounts.
* `Receivables` uses of the pool that an invoice is bought, by the hash
  `buy_tokenized_invoice` remembers; the pool's books are `LiquidityPool`'s.
  A document's hash is 64 hexadecimal digits, which `toBytes32` keeps; without a
  document, `tokenizeNfe` takes the SHA-256 of the key, which is the key here.
* A transaction submitted instead of the transfer that was built is confirmed
  and nothing else: what it does on the chain is not followed.
* Of a handler whose page is gone `WebClient` keeps that it is in flight; its
  calls reach the API like any other, which is `Transactions` and `Receivables`.
  One dialog component is in use at a time, on the page of its role.
* sessionStorage works. Where it is disabled, `PrivyLoginPanel` catches the
  exception, the attempt reads as not made, and `didBootstrapRef` is left, which
  every mount of the panel renews: `OneAutomaticAttempt` does not hold there.
* The back-off of the outbox is "some time later"; the clock of
  authorizations is discrete.
* Message signatures, logging, metadata and formatting are left out.

## 3. Runs

| Run | Instance | Shows |
|---|---|---|
| `pool` | 2 accounts, admin, operator, 1 invoice, amounts 0..3, at most 3 BRLT | the pool's books, whatever is called in whatever order |
| `pix_orders` | 1 deposit, 2 concurrent requests, 2 creates, keyed and unkeyed webhooks | row-level safety under stale reads: what ended stays ended, what was paid stays paid, an event is applied once |
| `pix_outbox` | 1 withdrawal (up to two callbacks), 2 workers, 3 attempts, batches of 1, lost any number of times | bounds and liveness of the outbox (126 thousand states) |
| `pix_deposits` | 1 deposit, 2 requests, 1 worker, 2 attempts, batches of 2 | from the QR to the mint; refinement of `MintLedger` (1.2 million states) |
| `pix_withdrawals` | 1 withdrawal, 2 requests, 1 worker, 1 attempt, batches of 2, lost any number of times | from the Pix Out to the status the user sees, which is true and final (1.2 million states) |
| `financial_authorizations` | 1 authorization, 2 users, 2 wallets, 2 purposes, 3 calls, time to live 2, clock to 4 | consent; refinement of `OneShotConsent` |
| `nfe_tokenization` | 3 invoices, 3 hashes, a PME, an investor, the platform | the register and the NFT, whatever is called in whatever order |
| `receivables` | 1 receivable, 2 requests of any kind, 1 collection order, 1 reported payment (917 thousand states) | what the pool pays for, and how often; nothing is offered, sold or billed that it did not pay for |
| `transactions` | 1 deposit, 2 withdrawals, 2 tabs, 1 operator, 1 callback, 2 approvals, 2 transactions of the wallet (1.6 million states) | statuses, mints and burns stay in step |
| `web_client` | 2 targets, 2 handlers in flight, 2 timers, 1 logout (160 thousand states) | no login loop, no false success, no double submission from one page, no endless spinner |

Two runs expect a violation. Each checks a sentence of the repository's
comments that the code does not keep:

* `pix_mint_twice`: a webhook and a refresh of the same payment each produce a
  callback with its own event id, and the API mints for each.
* `pix_ack_lost`: the API records the event before the mint; if it stops in
  between, the retry is answered as a duplicate and the deposit is never
  minted, nor recorded as failed.

More observations, which need no run of their own to be seen in the models:

* `settle_invoice_in_pool` writes principal off without a repayment, so shares
  can exist at price zero, where `deposit` and `withdraw` both refuse.
  `PoolStaysOpen` says that nothing else leads there.
* No settlement by the API reaches the pool (see `SettleChain` above): a
  receivable whose debtor has paid stays active with its collection paid, and
  the callback is not repeated, because its event is on record.
* Two requests of the Pix service that read the same order overwrite each other,
  so the terminal status of a withdrawal can change; `TerminalKept` says exactly
  how: to or from CANCELED, of which CorpX is not told, or back to TIMEOUT by a
  request with a stale read; that of a deposit never (`pix_orders` checks it of a
  deposit, the theorem covers both). Neither reaches the user: `WithdrawalFinal`
  holds of what the API shows.
* `send_pending_callbacks` catches `ConnectError` and `TimeoutException`. Any
  other error of httpx rolls back the whole batch with the attempts it counted,
  so a row whose POST fails that way each time is never FAILED and keeps the rest
  of its batch PENDING. `OutboxDrained` therefore promises only what is left: one
  worker that ceases to lose its batches drains the outbox, whatever happens to
  the other's.
* One signed burn posted twice while it is pending makes two withdrawals, and
  POST `/pix/withdrawals` makes one without any burn. `BurnPerWithdrawal` is what
  holds beside them: a withdrawal of a dialog names a burn that was applied, and
  the requests a burn was confirmed to are at most one.
* The same signed transfer posted twice is confirmed to two submissions, which
  then buy with the document each has read, so a document replaced in between
  brings the company two payouts and the debtor two collections; and the API
  does not notice a transaction that is not the transfer at all. `PaidOnceForTitle`
  excepts exactly these (`resent`, `foreign`); `BilledOncePerPayout` holds in
  spite of them.
* A request that read a receivable before the pool paid for it can take it off
  the market again; `WithdrawnOnlyByStaleRequest` says exactly which three writes
  do, and that no write that follows a confirmed transaction is among them.
* `OneSubmissionAtATime` excepts the withdrawal drawer and the tables of rows,
  where a second handler can be started while the first is under way, and counts
  the handlers of the page that is shown: who confirms, follows a link of the
  sidebar, comes back and confirms again has two submissions under way.

**Bounds.** Orders, authorizations and invoices do not interact with each
other except through the pool's books and the outbox batch, so one order or
authorization with two or three actors around it contains the races of
interest: an interleaving needs one actor between the read and the write of
another. Two accounts are one who stays and one who moves, all that dilution
is about; with three BRLT the share price already takes the values 1/3, 1/2,
2/3, 1, 3/2, 2 and 3, so both roundings occur. `MaxCreates`, `MaxAttempts`,
`BatchLimit`, `MaxSupply` and `MaxTime` bound what the code leaves unbounded or
sets in configuration. `MaxOrders` of 1 allows a collection to be retried after
the Pix service refused it, and two of them where the pool has paid twice,
though only one gets an order; `MaxReports` is 1, because a callback about a
collection changes nothing but the row of the collection since the settlement
that would follow is refused; `MaxCallbacks`, `MaxApprovals` and `MaxSeq` of 1,
2 and 2 let a callback and an operator approve one deposit, the operator approve
it again after a failure, and the wallet send a second transaction after one it
gave up on; none is built beyond the bound, as it could not be applied.
`MaxCalls` and `MaxTimers` of 2 are one handler or timer left over from before
the dialog was opened again, `MaxHandlers` of 2 one handler of the page beside
one of a page that is gone, and `MaxLogouts` of 1 a logout during which the
button is used again.
How often a batch is lost has no bound. `pix_outbox` takes 3 attempts with
2 workers so that one worker can be a whole attempt behind the other.

**Deadlock** is not checked: every run has states where all orders are
settled, the supply is spent, or a clock or counter has reached its bound.

**Fairness.** `OutboxDrained` and `BusyEnds` need it. `callback_worker` is a
`while True` loop with a 5 s sleep that catches every exception, and each POST
ends by httpx's timeout of 10 s: weak fairness of the worker's steps and of
the return of a POST. A handler of the API that is not interrupted runs to its
end. No fairness is assumed of CorpX, of users, of refreshes, or that the API
ever answers 2xx, and nothing keeps a batch from being lost: `OutboxDrained` has
"this worker loses no batch any more" as its premise, for one of the workers.
`BusyEnds` assumes that a promise settles: the login panel's exchange, its
logouts and each call of a dialog's handler are weakly fair, as every call
answers or ends with the connection; the front end itself has no timeout.
Nothing is assumed of the user, who may close, reopen, reload or sign out at any
time.

## 4. Proofs

Every safety property that a passing run checks, but for the one that uses
ENABLED, is also a theorem: for arbitrary constants, under the named assumptions
of the modules.

| Module | Assumptions | What they say |
|---|---|---|
| `LiquidityPool` | `AddressAssumption`, `AmountAssumption`, `FiniteAssumption` | the pool, the staff and the holders differ; amounts are any integers; accounts and invoices are finitely many |
| `PixService` | `OrderAssumption`, `BoundAssumption`, `KeyedAssumption` | no order is both a deposit and a withdrawal; attempts and batches are at least one |
| `FinancialAuthorizations` | `NothingAssumption`, `TimeAssumption` | "no row" is not a row; times are natural numbers |
| `NfeTokenization` | `NfeAssumption` | the platform is not a customer's wallet |
| `Receivables` | `ReceivableAssumption` | document hashes, access keys and the hash of zeros differ |
| `Transactions` | `TransactionsAssumption` | deposits and withdrawals, tabs and operators differ; finitely many deposits |
| `WebClient` | `WebAssumption` | bounds are natural numbers |

**Sums.** The folds of the library are defined by recursion over a set, which
the provers cannot do induction over. `Totals` counts instead: a function with
natural values hands out `f[a]` units to each `a`, and `total(f)` is the
cardinality of the set of units. `TotalsProofs` derives from the theorems on
cardinality how a total changes with one value (`TotalAdd`), that it bounds each
value (`TotalBounds`), and how it scales (`TotalScaled`: if `g[a] * T <= f[a] * N`
for each `a`, then `total(g) * T <= total(f) * N`; the injection numbers the
slots of all units of one `a` and renumbers them by division).

`LiquidityPoolProofs`

* `PoolTypeCorrect`: `Spec => []TypeOK`. Amounts are any integers, so this is
  the claim that the guards keep all unchecked i128 arithmetic non-negative.
  It needs the transfers' own balance checks and `DivRoundsDown`.
* `SharesCovered`: `Spec => []ShareSupplyCovered`. Inductive only together
  with "nothing is minted before `initialize`" (`SharesIInv`), because
  `initialize` sets `total_shares` to zero.
* `PriceNeverDiluted`: `Spec => NoDilution`. Prices are compared by cross
  multiplication; `MintAtPrice` and `RedeemAtPrice` are the two directions of
  rounding, every other entry point leaves the shares alone and can only add
  to the NAV, settlement excepted.
* `PauseFreezes`: `Spec => FrozenWhilePaused`. The entry points that move
  funds are refused; the calls that remain (the administration of the pool, and
  holders and platform at the two tokens) leave the books alone and can only
  add to the pool's BRLT, since only the pool spends it.
* `PoolNeverStranded`: `Spec => PoolStaysOpen`. A withdrawal leaves
  `nav * (T - s)`, rounded in favour of those who stay, so with shares left the
  NAV is positive (`OpenNext` takes the entry points one by one).
* `ClaimsAreCovered`: `Spec => []ClaimsCovered`. Not inductive, and not proved
  by induction: each claim is `share[a] * nav / total_shares` rounded down, so
  `TotalScaled` bounds the sum of the claims by the shares that exist, which
  `SharesCovered` and the conservation of the token (`MintTotal`, `BurnTotal`,
  `MoveTotal`) bound by `total_shares`.
* `HoldersCanRedeem`: when no principal is outstanding, a holder's whole balance
  passes the checks of `withdraw` on shares and cash. This is what
  `NoLockedShares` says with ENABLED, stated on the guards.
* `NoRoundTripProfit`: what a deposit into a pool that has shares mints is worth
  at most the deposit if redeemed at once: from
  `s = x * T \div N` follows `s * (N + x) <= x * (T + s)`, whatever was donated
  to the pool, lent by it or burned around it. It does not extend to a pool
  without shares, where the first deposit takes over what the pool holds.
* `PrincipalIsBacked`: `Spec => []PrincipalBacked`.

`PixProofs`, about `PixService` (over `ServiceSpec`)

* `ServiceInv` is the inductive invariant. Besides the types it says what
  survives between the SELECT and the COMMIT of a request: what a request has
  read of CorpX is still backed by what CorpX says now (`RequestOK`, with
  `backs` for the states a status may be true of), a deposit is what CorpX says
  of its QR (`DepositsOK`), the copies a worker holds are of rows that exist and
  have attempts left (`WorkerOK`), and every row has its cause on record
  (`RowsOK`). `Forward` is the reason it is stable: CorpX moves only forward and
  orders keep their identifier.
* From it: `ServiceTypeCorrect`, `WebhookAppliedOnce`, `OutboxComplete`,
  `CallbacksTruthful`, `PaidDepositsKept`; and, of steps, `IdentifiersFixed`.
* `TerminalsKept`: `ServiceSpec => TerminalKept`. A COMMIT checks the transition
  against what its request read, so the row it overwrites may have ended since;
  `RequestOK` says what the request has learned is backed by CorpX, as is the
  status in the row, and CorpX ends an order once.
* `OutcomesAgree`: `ServiceSpec => []OneOutcome`. Two rows about one order that
  name an end name the same, because no state of CorpX backs two ends.

`PixProofs`, about `PixFlow` (over `Spec`)

* `FlowInv` adds the API: a handler works on the callback of a recorded event
  (`HandlingOK`), on no event do two work (`HandledOnce`), and the one that has
  still to mint is not in the log (`NotYetMinted`); an acknowledged POST has its
  event on record, and so has every row a worker is about to mark SENT
  (`WireOK`), which is what makes `SentMeansReceived` survive the commit of a
  whole batch from copies.
* From it: `FlowTypeCorrect`, `MintsBacked`, `MintsOncePerCallback`,
  `SentAreReceived`, `WithdrawalsHonest`, and `OutboxCompleteInFlow`, which has
  the service's own two properties inside the composition.
* `FlowImplementsMintLedger`: `Spec => ImplementsMintLedger`. The record of a
  CONFIRMED callback of a deposit is `Confirm`, the mint on the chain is `Mint`,
  everything else stutters; `HandlingOK` makes the mint one of a recorded
  callback and `NotYetMinted` makes it the first.
* `WithdrawalsFinal`: `Spec => WithdrawalFinal`. A callback that would move a
  withdrawal from COMPLETED to FAILED or back would contradict the state of
  CorpX that `WithdrawalHonest` ties the present status to.
* `CallbacksAreExpected`: `Spec => []CallbacksExpected`. With `KnownInv`: an
  order the service has, or a request is about to create, has a transaction
  at the API. This is the assumption `Transactions` makes of the callbacks that
  reach it (`Receive` takes any deposit the API has and any of
  `DepositOutcomes`).
* `FlowImplementsService`: every step of the composition is a step of
  `PixService` or leaves its tables alone.

`FinancialAuthorizationsProofs`

* `Invariant`: `Spec => []Inv`. `Inv` says that `consumedAt` is the record of
  the one use, that a verified row was signed by the wallet it names, and that
  a verify in progress has seen that signature; the last part is what survives
  between the two statements of a call.
* `AuthorizationConsumedOnce` and `ConsumedAsConsented` follow from it.
* `ServiceImplementsConsent`: `Spec => Consent!Spec`. `createChallenge` is
  Ask, the first `verifyUpdate` is Give, a matching `consumeUpdate` is Spend,
  and every other step stutters, a verify that writes after a consume
  included.

`NfeTokenizationProofs`

* `NfeTypeCorrect`, `DocumentBacksOneTitle` (a hash once registered stays
  registered, so two records never share one), `SettlementBurns` (a settled
  record has no NFT, and nothing mints for a key twice) and `ListingIsOneWay`,
  for any keys, hashes and accounts.

`ReceivablesProofs`

* `Inv` says where a receivable is whatever its row says (`LifeInv`). Three
  things happen to it: the title is registered, it moves to the platform, the
  pool pays. Once a request is at `buy` on a transfer of this receivable the title
  is with the platform (`PaidForTitle`). For a receivable whose transfer was sent
  once, the right to the payout is with one request that awaits the transfer or
  is at `buy`, or with one transaction that was given up on, or has been used
  (`PaidOnce`); a second request gets it by sending the same transfer again
  (`resent`) or by sending something else (`foreign`), and in no other way. What
  the database says later rests on a request that saw the payout (`OfferedOnce`).
  None of this is in the tables: no transaction spans `transfer_ownership`,
  `buy_tokenized_invoice` and the update of the row.
* From it: `ReceivablesTypeCorrect`, `PoolPaysOncePerTitle`,
  `OffersRestOnPayout`, and `WithdrawnByStaleReadsAlone`.
* `CollectionsRestOnPayouts`: `Spec => []BilledOncePerPayout`. `BillInv` counts,
  for each receivable, the collections there are and the requests that have seen
  a payout and not yet made theirs: together they are no more than the payouts.
  A confirmed `buy` gives one request the permission, the row uses it up, and a
  retry names an order in a row that exists.
* `ReceivablesRefineRegister`: `Spec => NfeSpec`. Every step is a call of the
  NF-e contract or leaves the register alone, so the theorems of
  `NfeTokenizationProofs` hold of the titles of receivables.

`TransactionsProofs`

* `BurnPaysOnce`: `Spec => []BurnPerWithdrawal`, for any number of orders, tabs
  and operators and any value of the bounds.
  `BurnIInv` adds what holds between the burn and the row: every burn has a
  sequence number below the current one, and a tab whose burn was confirmed to it
  and that has not yet made its row holds a burn no other such tab and no such row
  names; a tab that was answered DUPLICATE holds one that was applied
  (`AppliedOK`). `SubmitStep` is the reason it stays so: a transaction is applied
  under the current number, which is larger than every number burned before.
* `BalanceExplained`: `Spec => []TransactionsTypeOK`. A mint by callback or
  operator adds one to the wallet and to the sum of `minted`, a transaction of
  the wallet moves one from it to `pooled` or `burned` (`ApplyWallet`), early or
  late; a burn counts because its sequence number is new (`BurnIInv`).
* `StatusesBacked`: `Spec => []LedgerBehindStatus`. Inductive with what the
  writers have seen before they write (`RowsOK`, `OperatorsOK`): an operator
  about to store has minted, a handler past its mint is in the log, a dialog
  that finalizes started from an approved row, and one that is to store
  COMPLETED has its deposit in the pool.
* `MintsDecided`: `Spec => []MintPerDecision`. Mints by callback inject into the
  recorded confirmations (`RecordsOK`); mints by operators, and operators who are
  about to mint, are together no more than the approvals (`OperatorsOK`).

* `WalletImplementsMintLedger`: `Spec => ImplementsMintLedger`. The same abstract
  specification as in `PixFlow`, now with operators who approve by hand and
  dialogs at work on the same rows: they do not touch the record of callbacks
  or the log of what callbacks minted.

`WebClientProofs`

* `NoLoginLoop`: `Spec => []OneAutomaticAttempt`. Inductive with "an attempt
  that was made is remembered for as long as somebody is signed in at Privy"
  (`AttemptIInv`).
* `NoDoubleSubmission` and `SuccessIsEarned`, from `DialogIInv`: a dialog whose
  submit is guarded has one slot at most, and the upload form's only slot is
  about the file it shows. Both are about the page that is shown; a page that is
  mounted starts without slots (`MountedFresh`), whatever an earlier one left
  running.

Proved and in no run of their own, because a stronger or a broader property
is: `FlowTypeOK`, `MintOncePerCallback` (a part of `MintLedger`),
`IdentifierFixed`, `OneOutcome`, `CallbacksExpected`, and `ImplementsMintLedger`
of `Transactions`. TLC has agreed to each
on the instances of the runs of its module.

Only model-checked: `NoLockedShares`, because it uses ENABLED (see
`HoldersCanRedeem`), and `OutboxDrained` and `BusyEnds`, which are liveness under
fairness. The prover handles neither.

## 5. Plan

The order in which the models were written is the order of the money: pool and
tokens, Pix service and its callbacks, consent, the NF-e contract, receivables
with collection and settlement, wallet transactions and back office, the web
client. What is left:

1. **Collections in the Pix service**: `create_collection`,
   `cancel_collection` and `_process_collection_event` beside the orders in
   `PixService`. Properties: the API is told of every paid collection. The row
   `_process_collection_event` puts into the outbox has no `next_attempt_at`,
   by which the worker selects.
2. **The platform's account**: calls of several requests share its sequence
   number and its funds (`fundAccountFromPlatform`).
3. **Two receivables without a document** in `Receivables`: the pool knows both
   by the hash of zeros, so the second is refused after its title has moved.
4. **Proofs**: what a model gains by 1 to 3. The money path is proved in two
   halves that meet in `PixCallbacks`: `PixFlow` guarantees of its callbacks what
   `Transactions` assumes (`CallbacksAreExpected`), and both implement
   `MintLedger`. One specification that composes the two would make the
   step between them a theorem as well.

## 6. Not modelled

* The collection tables of the Pix service (see the plan); `Receivables`
  models what the API sees of them.
* The sequence number of the platform's account and the top-up of new wallets;
  `payPme`, `createCustodialWallet`, `depositToPool` and `withdrawFromPool`,
  which nothing calls; the withdrawal branch of `approveTransaction`, which no
  row reaches.
* Leaving the login page by another way than signing in, with an exchange under
  way; several dialog components of one page in use together.
* In `Transactions`, a transaction of the wallet that is not the one the API
  built: a dialog is taken to send what it was given. The same body posted twice,
  or two bodies built alike within a second, are modelled.
* The writes of `settleInvoice` after the contract call, which is reached only
  without a configured pool, where a mock hash is returned.
* Registration, passwords, Google login, roles, onboarding and profile edits:
  statements on one row that no modelled operation reads, apart from the
  wallet, which `FinancialAuthorizations` has.
* The audit log, but for the entry that records a failed mint; the contents of
  documents and the parsing of the uploaded XML.
* Marketing and audit pages, tables, charts, formatting and translations; form
  contents.
* KYC, storage and payment stubs; message authentication and configuration;
  the OAuth token cache of the CorpX client; events, metadata and TTLs of the
  contracts, and i128 overflow.
