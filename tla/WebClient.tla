----------------------------- MODULE WebClient ------------------------------
(***************************************************************************)
(* One browser tab of the web front end: the session (Privy account, the   *)
(* API's token in localStorage, the login panel) and the dialogs of the    *)
(* dashboards.  A dialog's handler is a chain of awaited calls; what the   *)
(* continuation does to the component's state hits whatever the component  *)
(* shows by then.  The API is reduced to its answers.                      *)
(***************************************************************************)
EXTENDS Naturals, Sequences, FiniteSets

CONSTANTS Target,     \* the rows, deposits, files a dialog can be about
          NoTarget,
          MaxCalls,   \* bound: handlers of one dialog in flight
          MaxHandlers, \* bound: handlers of the tab in flight
          MaxTimers,  \* bound: pending timers of one dialog
          MaxLogouts  \* bound: logouts of the panel in flight

ASSUME WebAssumption ==
    /\ NoTarget \notin Target
    /\ MaxCalls \in Nat \ {0} /\ MaxHandlers \in Nat \ {0}
    /\ MaxTimers \in Nat \ {0} /\ MaxLogouts \in Nat \ {0}

VARIABLES privy,      \* account signed in at Privy: "out", "member" of the panel's role, "other"
          token,      \* localStorage: "none", "member", "other" or "expired"
          attempted,  \* sessionStorage: AUTO_BOOTSTRAP_ATTEMPT_KEY
          page,       \* "login" or "dashboard"
          panel,      \* PrivyLoginPanel: didBootstrapRef, what it awaits, for which account
          logouts,    \* logouts that continueWithPrivy awaits for an account of another role
          unanswered, \* a request that the API will answer 401 is under way
          attempts,   \* history: automatic exchanges since the sign-in at Privy
          dialog,     \* the dialog component in use on the dashboard
          target,     \* what it is open for
          step,       \* what it shows
          processing, \* processingId of the operator's dashboard, actionRowId of the invoices
          calls,      \* its handlers in flight
          left,       \* how many handlers of pages the router took away are in flight
          timers,     \* its setTimeouts that close it
          done        \* history: targets whose handler ran to its end on this page

sessionVars == <<privy, token, attempted, page, panel, logouts, unanswered, attempts>>
dialogVars == <<dialog, target, step, processing, calls, left, timers, done>>
vars == <<sessionVars, dialogVars>>

Free == [dialog |-> "free", target |-> NoTarget, at |-> 0]
Slot == 1..MaxCalls
IdlePanel == [did |-> FALSE, awaits |-> "nothing", account |-> "out"]

\* The dialogs on the pages of each role.
Pages == [pme |-> {"upload", "cessao", "withdraw", "invoices", "collection", "settings"},
          investor |-> {"buy", "deposit", "finalize", "settings"},
          operator |-> {"receivable", "transactions", "create_deposit"}]

\* A page that is mounted starts over: its state is new, and what the timers of
\* the one before it would close is gone.
Mounted(d) ==
    /\ dialog' = d /\ target' = NoTarget /\ step' = "form" /\ processing' = NoTarget
    /\ calls' = [i \in Slot |-> Free] /\ timers' = 0 /\ done' = {}

inFlight == {i \in Slot : calls[i] # Free}

\* The router takes the page away.  Nothing cancels the handlers in flight, which
\* go on to sign and to submit; they have no component left to change.
Unmounted(d) ==
    /\ Mounted(d)
    /\ left' = left + Cardinality(inFlight)

Init ==
    /\ privy = "out" /\ token = "none" /\ attempted = FALSE /\ attempts = 0
    /\ page = "login" /\ panel = IdlePanel /\ logouts = 0 /\ unanswered = FALSE
    /\ dialog = "none" /\ target = NoTarget /\ step = "form" /\ processing = NoTarget
    /\ calls = [i \in Slot |-> Free] /\ left = 0 /\ timers = 0 /\ done = {}

----------------------------------------------------------------------------
(* The session.                                                            *)

\* The panel's effect forgets the automatic attempt while nobody is signed in.
\* The browser's sessionStorage works: where it is disabled, the attempt reads as
\* not made and only the component's own didBootstrapRef is left.
forgetsAttempt == attempted' = (attempted /\ ~(page' = "login" /\ privy' = "out"))

ToLogin ==
    /\ page' = "login"
    /\ IF page = "login" THEN UNCHANGED <<panel, dialogVars>>
       ELSE panel' = IdlePanel /\ Unmounted("none")

\* The panel's button, and Privy's own dialog.
login(account) ==
    /\ page = "login" /\ privy = "out" /\ panel.awaits = "nothing"
    /\ privy' = account /\ attempts' = 0
    /\ UNCHANGED <<token, attempted, page, panel, logouts, unanswered, dialogVars>>

\* bootstrapSession, up to exchangePrivySession
bootstrapSession(did) ==
    /\ logouts < MaxLogouts
    /\ panel' = [did |-> did, awaits |-> "exchange", account |-> privy]
    /\ UNCHANGED logouts

\* isBootstrapping, which disables the button, ends with the exchange: a logout
\* that is awaited after it does not keep the button from being used.
continueWithPrivy ==
    /\ page = "login" /\ privy # "out" /\ panel.awaits = "nothing"
    /\ bootstrapSession(panel.did)
    /\ UNCHANGED <<privy, token, attempted, page, unanswered, attempts, dialogVars>>

\* Faulty variant: only the component remembers the automatic attempt.
AutoBootstrapPerMount ==
    /\ page = "login" /\ privy # "out" /\ panel.awaits = "nothing"
    /\ ~panel.did
    /\ bootstrapSession(TRUE)
    /\ attempted' = TRUE /\ attempts' = attempts + 1
    /\ UNCHANGED <<privy, token, page, unanswered, dialogVars>>

\* The effect that starts the exchange without a click.
AutoBootstrap ==
    /\ page = "login" /\ privy # "out" /\ panel.awaits = "nothing"
    /\ ~panel.did /\ ~attempted
    /\ bootstrapSession(TRUE)
    /\ attempted' = TRUE /\ attempts' = attempts + 1
    /\ UNCHANGED <<privy, token, page, unanswered, dialogVars>>

\* The API knows the account's e-mail, and the token is stored before the
\* panel compares the role.
privySession ==
    /\ panel.awaits = "exchange"
    /\ token' = panel.account
    /\ IF panel.account = "member"
       THEN /\ page' = "dashboard" /\ panel' = IdlePanel /\ UNCHANGED logouts
            /\ \E role \in DOMAIN Pages : \E d \in Pages[role] : Unmounted(d)
       ELSE /\ panel' = [panel EXCEPT !.awaits = "nothing"] /\ logouts' = logouts + 1
            /\ UNCHANGED <<page, dialogVars>>
    /\ UNCHANGED <<privy, attempted, unanswered, attempts>>

\* verifySession or privySession refuses, which clears the stored token
\* (skipAuth: no redirect), or no answer comes, which does not.
ExchangeFails ==
    /\ panel.awaits = "exchange"
    /\ token' \in {"none", token}
    /\ panel' = [panel EXCEPT !.awaits = "nothing"]
    /\ UNCHANGED <<privy, attempted, page, logouts, unanswered, attempts, dialogVars>>

\* A role other than the panel's: logout, then clearInternalSession, wherever
\* the tab is by then; the exception of a failed logout skips the rest.
RoleMismatch ==
    /\ logouts > 0
    /\ logouts' = logouts - 1
    /\ \/ privy' = "out" /\ token' = "none" /\ attempted' = FALSE
       \/ UNCHANGED <<privy, token, attempted>>
    /\ UNCHANGED <<page, panel, unanswered, attempts, dialogVars>>

\* "Use another account", offered during an exchange too.
restartLogin ==
    /\ page = "login" /\ privy # "out"
    /\ privy' = "out" /\ token' = "none" /\ attempted' = FALSE
    /\ UNCHANGED <<page, panel, logouts, unanswered, attempts, dialogVars>>

\* AppShell; an error of Privy's logout is logged, and the session is cleared.
handleLogout ==
    /\ page = "dashboard"
    /\ privy' \in {"out", privy} /\ token' = "none"
    /\ ToLogin /\ forgetsAttempt
    /\ UNCHANGED <<logouts, unanswered, attempts>>

ExpireToken ==
    /\ token \in {"member", "other"}
    /\ token' = "expired"
    /\ UNCHANGED <<privy, attempted, page, panel, logouts, unanswered, attempts, dialogVars>>

\* Another tab signs out: localStorage is shared.
OtherTabSignsOut ==
    /\ token # "none"
    /\ token' = "none"
    /\ UNCHANGED <<privy, attempted, page, panel, logouts, unanswered, attempts, dialogVars>>

\* The token is read when the request is made, by the page or by a handler ...
apiFetch ==
    /\ page = "dashboard" \/ left > 0
    /\ token \in {"none", "expired"}
    /\ unanswered' = TRUE
    /\ UNCHANGED <<privy, token, attempted, page, panel, logouts, attempts, dialogVars>>

\* ... and the 401 clears the token stored by then, and leads to the login.
onUnauthorized ==
    /\ unanswered
    /\ unanswered' = FALSE
    /\ token' = "none"
    /\ UNCHANGED <<privy, logouts, attempts>>
    /\ ToLogin /\ forgetsAttempt

\* A link of the sidebar, or the way back: another page of the same role, or the
\* same one anew.
Navigate ==
    /\ page = "dashboard"
    /\ \E role \in DOMAIN Pages : dialog \in Pages[role] /\ \E d \in Pages[role] : Unmounted(d)
    /\ UNCHANGED sessionVars

\* The tab is loaded again, which alone ends what was in flight; on a dashboard useRequireAuth looks at the token.
Reload ==
    /\ UNCHANGED <<privy, token, attempts>>
    /\ unanswered' = FALSE /\ panel' = IdlePanel /\ logouts' = 0
    /\ page' = IF token = "none" THEN "login" ELSE page
    /\ Mounted(IF page' = "login" THEN "none" ELSE dialog) /\ left' = 0
    /\ forgetsAttempt

----------------------------------------------------------------------------
(* The dialogs: the calls their handlers chain, the steps at which their    *)
(* submit and close controls work, and whether the handler has a step of   *)
(* its own or sets a flag that disables the submit button.                 *)

\* useFinancialAuthorization
authorize == <<"challenge", "signRawHash", "verify">>

\* What the API builds, the wallet signs and the API submits, for each stage.
runOnChainDeposit ==
    LET stage == <<"buildDepositStage", "signRawHash", "submitDepositStage">> IN stage \o stage

\* Faulty variant: another file may be picked while the first one is sent.
UploadZoneClosable == [calls |-> <<"createReceivable", "createDocument">>,
                       submit |-> {"form", "error"}, close |-> {"form", "busy", "error", "success"},
                       own_step |-> TRUE]

UploadZone == [calls |-> <<"createReceivable", "createDocument">>,
               submit |-> {"form", "error"}, close |-> {"form", "error", "success"},
               own_step |-> TRUE]

CessaoModal == [calls |-> <<"prepareAssignment", "signRawHash", "submitAssignment">>,
                submit |-> {"form", "error"}, close |-> {"form", "error", "success"},
                own_step |-> FALSE]

WithdrawalDrawer == [calls |-> <<"buildWithdrawalTx", "signRawHash", "submitWithdrawal">>,
                     submit |-> {"form"}, close |-> {"form", "busy", "error", "success"},
                     own_step |-> TRUE]

CollectionModal == [calls |-> <<"retryCollection">>,
                    submit |-> {"form"}, close |-> {"form"}, own_step |-> FALSE]

BuyDrawer == [calls |-> authorize \o <<"buy">>,
              submit |-> {"form"}, close |-> {"form", "busy", "success"}, own_step |-> TRUE]

DepositModal == [calls |-> <<"notifyPayment">>,
                 submit |-> {"form"}, close |-> {"form"}, own_step |-> FALSE]

FinalizeAssignmentModal == [calls |-> runOnChainDeposit,
                            submit |-> {"form", "error"}, close |-> {"form", "error", "success"},
                            own_step |-> TRUE]

\* The operator's dashboard: a receivable on display, the table of
\* transactions (what is open is the row clicked), the form for a new deposit.
ReceivableModal == [calls |-> <<"decide">>,
                    submit |-> {"form"}, close |-> {"form"}, own_step |-> FALSE]

TransactionsTab == [calls |-> <<"approveTransaction">>,
                    submit |-> {"form"}, close |-> {"form"}, own_step |-> FALSE]

CreateDepositForm == [calls |-> <<"createDeposit">>,
                      submit |-> {"form"}, close |-> {"form"}, own_step |-> FALSE]

\* The company's table of invoices; what is open is the row clicked.
InvoiceTable == [calls |-> <<"tokenize">>,
                 submit |-> {"form"}, close |-> {"form"}, own_step |-> FALSE]

\* The sections of the settings page share one mutation.
AccountSettings == [calls |-> <<"updateMe">>,
                    submit |-> {"form"}, close |-> {"form"}, own_step |-> FALSE]

Component(d) ==
    CASE d = "upload" -> UploadZone
      [] d = "cessao" -> CessaoModal
      [] d = "withdraw" -> WithdrawalDrawer
      [] d = "collection" -> CollectionModal
      [] d = "buy" -> BuyDrawer
      [] d = "deposit" -> DepositModal
      [] d = "finalize" -> FinalizeAssignmentModal
      [] d = "receivable" -> ReceivableModal
      [] d = "transactions" -> TransactionsTab
      [] d = "create_deposit" -> CreateDepositForm
      [] d = "invoices" -> InvoiceTable
      [] d = "settings" -> AccountSettings

component == Component(dialog)
running(d) == {i \in Slot : calls[i].dialog = d}

\* DepositModal, which has no step of its own, and FinalizeAssignmentModal are
\* about one selectedTransaction of the investor's page.
onPage(d) == IF d \in {"deposit", "finalize"} THEN {"deposit", "finalize"} ELSE {d}
allowed(steps) == dialog = "deposit" \/ step \in steps

Open(x) ==
    /\ page = "dashboard" /\ target = NoTarget
    /\ target' = x
    /\ dialog' \in onPage(dialog)
    /\ UNCHANGED <<sessionVars, step, processing, calls, left, timers, done>>

\* The drawers, the upload form and FinalizeAssignmentModal start over when
\* they are closed; the others keep what they show.
Close ==
    /\ page = "dashboard" /\ target # NoTarget /\ allowed(component.close)
    /\ target' = NoTarget
    /\ step' = IF component.own_step THEN "form" ELSE step
    /\ UNCHANGED <<sessionVars, dialog, processing, calls, left, timers, done>>

\* WithdrawalDrawer leaves its error by a button of its own.
TryAgain ==
    /\ page = "dashboard" /\ dialog = "withdraw" /\ target # NoTarget /\ step = "error"
    /\ step' = "form"
    /\ UNCHANGED <<sessionVars, dialog, target, processing, calls, left, timers, done>>

\* Pages that know the last row clicked, and no other, to be in progress.
rowwise == {"receivable", "transactions", "invoices"}

\* Faulty variant: nothing but the dialog's step keeps a second submission out.
enabledWhilePending == dialog \in rowwise => processing # target

\* loading, isRetrying, submitting, isPending or isAuthorizing outlive the
\* closing of the dialog; the drawer for withdrawals has only its step.
submitEnabled ==
    CASE dialog \in rowwise -> processing # target
      [] dialog = "withdraw" -> TRUE
      [] OTHER -> running(dialog) = {}

Submit(i) ==
    /\ page = "dashboard" /\ target # NoTarget
    /\ allowed(component.submit) /\ submitEnabled
    /\ calls[i] = Free /\ left + Cardinality(inFlight) < MaxHandlers
    /\ calls' = [calls EXCEPT ![i] = [dialog |-> dialog, target |-> target, at |-> 1]]
    /\ step' = IF component.own_step THEN "busy" ELSE IF dialog = "cessao" THEN "form" ELSE step
    /\ processing' = IF dialog \in rowwise THEN target ELSE processing
    /\ UNCHANGED <<sessionVars, dialog, target, left, timers, done>>

\* handleWithdraw and runOnChainDeposit name each stage as they come to it.
NextCall(i) ==
    /\ calls[i] # Free /\ calls[i].at < Len(Component(calls[i].dialog).calls)
    /\ calls' = [calls EXCEPT ![i].at = @ + 1]
    /\ step' = IF calls[i].dialog \in {"withdraw", "finalize"} THEN "busy" ELSE step
    /\ UNCHANGED <<sessionVars, dialog, target, processing, left, timers, done>>

\* What each handler does to its component in the end.
handleSubmit(ok) ==
    step' = (IF ok THEN "success" ELSE "error") /\ UNCHANGED <<target, processing, timers>>

handleAssign(ok) ==
    /\ step' = IF ok THEN "success" ELSE "error"
    /\ timers' = IF ok THEN timers + 1 ELSE timers
    /\ UNCHANGED <<target, processing>>

handleWithdraw(ok) ==
    step' = (IF ok THEN "success" ELSE "error") /\ UNCHANGED <<target, processing, timers>>

\* The collection it made a QR code for is what the page then shows.
handleRetryCollection(i, ok) ==
    target' = (IF ok THEN calls[i].target ELSE target) /\ UNCHANGED <<step, processing, timers>>

\* "Somebody was faster" closes the drawer after a while.
handleConfirm(ok) ==
    /\ step' = IF ok THEN "success" ELSE "form"
    /\ \/ UNCHANGED timers
       \/ ~ok /\ timers < MaxTimers /\ timers' = timers + 1
    /\ UNCHANGED <<target, processing>>

handleConfirmPayment(ok) ==
    target' = (IF ok THEN NoTarget ELSE target) /\ UNCHANGED <<step, processing, timers>>

handleFinalize(ok) ==
    step' = (IF ok THEN "success" ELSE "error") /\ UNCHANGED <<target, processing, timers>>

handleApproveReceivable(ok) ==
    /\ target' = (IF ok THEN NoTarget ELSE target) /\ processing' = NoTarget
    /\ UNCHANGED <<step, timers>>

handleCreateDeposit(ok) ==
    target' = (IF ok THEN NoTarget ELSE target) /\ UNCHANGED <<step, processing, timers>>

handleApproveTransaction(ok) == processing' = NoTarget /\ UNCHANGED <<target, step, timers>>

handleReceivableAction(ok) == processing' = NoTarget /\ UNCHANGED <<target, step, timers>>

\* A toast, and the profile is fetched again.
handleSaveProfile(ok) == UNCHANGED <<target, step, processing, timers>>

Settle(i, ok) ==
    LET d == calls[i].dialog IN
    CASE d = "upload" -> handleSubmit(ok)
      [] d = "cessao" -> handleAssign(ok)
      [] d = "withdraw" -> handleWithdraw(ok)
      [] d = "collection" -> handleRetryCollection(i, ok)
      [] d = "buy" -> handleConfirm(ok)
      [] d = "deposit" -> handleConfirmPayment(ok)
      [] d = "finalize" -> handleFinalize(ok)
      [] d = "receivable" -> handleApproveReceivable(ok)
      [] d = "transactions" -> handleApproveTransaction(ok)
      [] d = "create_deposit" -> handleCreateDeposit(ok)
      [] d = "invoices" -> handleReceivableAction(ok)
      [] d = "settings" -> handleSaveProfile(ok)

Succeed(i) ==
    /\ calls[i] # Free /\ calls[i].at = Len(Component(calls[i].dialog).calls)
    /\ done' = done \cup {calls[i].target}
    /\ calls' = [calls EXCEPT ![i] = Free]
    /\ Settle(i, TRUE)
    /\ UNCHANGED <<sessionVars, dialog, left>>

\* Faulty variant: an exception ends the handler and nothing else.
FailSilently(i) ==
    /\ calls[i] # Free
    /\ calls' = [calls EXCEPT ![i] = Free]
    /\ UNCHANGED <<sessionVars, dialog, target, step, processing, left, timers, done>>

\* A call is refused, the wallet does not sign, or there is no connection.
Fail(i) ==
    /\ calls[i] # Free
    /\ calls' = [calls EXCEPT ![i] = Free]
    /\ Settle(i, FALSE)
    /\ UNCHANGED <<sessionVars, dialog, left, done>>

\* A handler without a page comes to its end, and shows it to nobody.
LeftBehindEnds ==
    /\ left > 0
    /\ left' = left - 1
    /\ UNCHANGED <<sessionVars, dialog, target, step, processing, calls, timers, done>>

\* The timer closes what is open by then.
TimerFires ==
    /\ timers > 0
    /\ timers' = timers - 1
    /\ target' = NoTarget
    /\ step' = IF dialog = "buy" \/ step = "success" THEN "form" ELSE step
    /\ UNCHANGED <<sessionVars, dialog, processing, calls, left, done>>

----------------------------------------------------------------------------
ExchangeSettles == privySession \/ ExchangeFails
CallSettles(i) == NextCall(i) \/ Succeed(i) \/ Fail(i)

Next ==
    \/ \E account \in {"member", "other"} : login(account)
    \/ continueWithPrivy \/ AutoBootstrap \/ ExchangeSettles \/ RoleMismatch \/ restartLogin
    \/ handleLogout \/ ExpireToken \/ OtherTabSignsOut \/ apiFetch \/ onUnauthorized
    \/ Navigate \/ Reload
    \/ \E x \in Target : Open(x)
    \/ \E i \in Slot : Submit(i) \/ CallSettles(i)
    \/ Close \/ TryAgain \/ LeftBehindEnds \/ TimerFires

\* Promises settle: the API answers within its deadlines, Privy's dialog is
\* answered or dismissed.
Fairness ==
    /\ WF_vars(ExchangeSettles) /\ WF_vars(RoleMismatch) /\ WF_vars(LeftBehindEnds)
    /\ \A i \in Slot : WF_vars(CallSettles(i))

Spec == Init /\ [][Next]_vars /\ Fairness

----------------------------------------------------------------------------
\* The panel starts at most one exchange by itself for a sign-in at Privy,
\* however often the API's 401, a reload or a sign-out leads back to the
\* login page: a refused session does not become a loop of logins.
OneAutomaticAttempt == attempts <= 1

\* A dialog that shows success has had a handler run to its end; the upload
\* form, which cannot be left while it works, shows it for the right file.
\* The others may be closed and opened for something else in between, and the
\* answer of DepositModal takes its transaction from FinalizeAssignmentModal.
SuccessWasEarned ==
    step = "success" => done # {} /\ (dialog = "upload" => target \in done)

\* A dialog has at most one handler in flight from the page it is on, closed and
\* opened again as often as one likes.  The withdrawal drawer knows only its step,
\* and a table only the last row clicked, so both let a second one through.  A
\* handler the router left behind is not counted, because nothing on the page
\* knows of it: who leaves the page and comes back can submit beside it.
OneSubmissionAtATime ==
    dialog \notin {"withdraw"} \cup rowwise => Cardinality(running(dialog)) <= 1

\* Nobody is left in front of a spinner: a panel or a dialog that is busy
\* comes to an end, whatever was closed, opened or started meanwhile.
BusyEnds ==
    /\ panel.awaits = "exchange" ~> panel.awaits = "nothing"
    /\ step = "busy" ~> step # "busy"
=============================================================================
