--------------------------- MODULE WebClientProofs ---------------------------
(***************************************************************************)
(* Theorems about WebClient, for any number of targets, handlers in flight *)
(* and timers.                                                             *)
(***************************************************************************)
EXTENDS WebClient, FiniteSetTheorems, TLAPS

\* The automatic attempt is remembered for as long as somebody is signed in at
\* Privy, which is what keeps the panel from starting another one.
AttemptIInv ==
    /\ attempted \in BOOLEAN
    /\ attempts \in {0, 1}
    /\ attempts = 1 => attempted \/ privy = "out"

\* A step that keeps the account and the attempts, and forgets the attempt
\* only when nobody is signed in, keeps the invariant.
LEMMA ForgetKeeps ==
    ASSUME AttemptIInv, attempts' = attempts, forgetsAttempt, privy' \in {"out", privy}
    PROVE  AttemptIInv'
  <1>1. attempted' \in BOOLEAN
    BY DEF forgetsAttempt
  <1>2. attempted /\ privy' # "out" => attempted'
    BY DEF forgetsAttempt
  <1>3. CASE privy' = "out"
    BY <1>1, <1>3 DEF AttemptIInv
  <1>4. CASE privy' # "out"
    BY <1>1, <1>2, <1>4 DEF AttemptIInv
  <1> QED
    BY <1>3, <1>4

\* Every step of the session and of the dialogs keeps the attempt accounted for.
LEMMA AttemptNext == AttemptIInv /\ [Next]_vars => AttemptIInv'
  <1> SUFFICES ASSUME AttemptIInv, [Next]_vars
               PROVE  AttemptIInv'
    OBVIOUS
  <1> USE DEF AttemptIInv
  <1>1. ASSUME NEW account \in {"member", "other"}, login(account)
        PROVE  AttemptIInv'
    BY <1>1 DEF login
  <1>2. CASE continueWithPrivy
    BY <1>2 DEF continueWithPrivy
  <1>3. CASE AutoBootstrap
    BY <1>3 DEF AutoBootstrap
  <1>4. CASE ExchangeSettles \/ RoleMismatch
    <2>1. CASE privySession
      BY <2>1 DEF privySession
    <2>2. CASE ExchangeFails
      BY <2>2 DEF ExchangeFails
    <2>3. CASE RoleMismatch
      <3>1. CASE privy' = "out" /\ attempted' = FALSE /\ attempts' = attempts
        BY <3>1
      <3>2. CASE UNCHANGED <<privy, attempted, attempts>>
        BY <3>2
      <3> QED
        BY <2>3, <3>1, <3>2 DEF RoleMismatch
    <2> QED
      BY <1>4, <2>1, <2>2, <2>3 DEF ExchangeSettles
  <1>5. CASE restartLogin
    BY <1>5 DEF restartLogin
  <1>6. CASE handleLogout
    BY <1>6, ForgetKeeps DEF handleLogout
  <1>7. CASE ExpireToken \/ OtherTabSignsOut \/ apiFetch
    BY <1>7 DEF ExpireToken, OtherTabSignsOut, apiFetch
  <1>8. CASE onUnauthorized \/ Reload
    BY <1>8, ForgetKeeps DEF onUnauthorized, Reload
  <1>9. ASSUME UNCHANGED sessionVars
        PROVE  AttemptIInv'
    BY <1>9 DEF sessionVars
  <1>10. ASSUME NEW x \in Target, Open(x)
         PROVE  AttemptIInv'
    BY <1>9, <1>10 DEF Open, sessionVars
  <1>11. ASSUME NEW i \in Slot, Submit(i) \/ CallSettles(i)
         PROVE  AttemptIInv'
    BY <1>9, <1>11 DEF Submit, CallSettles, NextCall, Succeed, Fail, sessionVars
  <1>12. CASE Navigate \/ Close \/ TryAgain \/ LeftBehindEnds \/ TimerFires \/ UNCHANGED vars
    BY <1>9, <1>12 DEF Navigate, Close, TryAgain, LeftBehindEnds, TimerFires, vars, sessionVars
  <1> QED
    BY <1>1, <1>2, <1>3, <1>4, <1>5, <1>6, <1>7, <1>8, <1>10, <1>11, <1>12 DEF Next

\* However often a 401, a reload or a sign-out leads back to the login page, the
\* panel exchanges the session by itself at most once for a sign-in at Privy.
THEOREM NoLoginLoop == Spec => []OneAutomaticAttempt
  <1>1. Init => AttemptIInv
    BY DEF Init, AttemptIInv
  <1>2. AttemptIInv => OneAutomaticAttempt
    BY DEF AttemptIInv, OneAutomaticAttempt
  <1> QED
    BY <1>1, <1>2, AttemptNext, PTL DEF Spec

----------------------------------------------------------------------------
Dialogs == {"upload", "cessao", "withdraw", "collection", "buy", "deposit", "finalize",
            "receivable", "transactions", "create_deposit", "invoices", "settings"}

\* The part of the state the dialogs use is well typed, and a dialog is in use
\* on the dashboard only.
DialogTypeOK ==
    /\ page \in {"login", "dashboard"}
    /\ dialog \in Dialogs \cup {"none"}
    /\ page = "dashboard" => dialog \in Dialogs
    /\ calls \in [Slot -> [dialog : Dialogs \cup {"free"}, target : Target \cup {NoTarget}, at : Nat]]
    /\ \A i \in Slot : calls[i] # Free => calls[i].dialog \in Dialogs
    /\ timers \in Nat
    /\ target \in Target \cup {NoTarget}

guarded == Dialogs \ ({"withdraw"} \cup rowwise)

\* The dialogs whose submit control knows of a handler in flight have one.
OneHandler ==
    \A i, j \in Slot :
        calls[i].dialog \in guarded /\ calls[i].dialog = calls[j].dialog => i = j

\* The upload form is busy for the file it shows, and shows success for it.
UploadIInv ==
    dialog = "upload" =>
        /\ timers = 0
        /\ target = NoTarget => step = "form"
        /\ step = "success" => target \in done
        /\ \A i \in Slot :
              /\ calls[i].dialog \in {"free", "upload"}
              /\ calls[i].dialog = "upload" => step = "busy" /\ calls[i].target = target

DialogIInv ==
    /\ DialogTypeOK
    /\ OneHandler
    /\ step = "success" => done # {}
    /\ UploadIInv

\* A page that is mounted starts over, whatever was left in flight.
LEMMA MountedFresh ==
    ASSUME NEW d \in Dialogs \cup {"none"}, Mounted(d), page' \in {"login", "dashboard"},
           page' = "dashboard" => d \in Dialogs
    PROVE  DialogIInv'
  <1>1. /\ dialog' = d /\ target' = NoTarget /\ step' = "form" /\ timers' = 0
        /\ calls' = [i \in Slot |-> Free]
    BY DEF Mounted
  <1>2. /\ Free \in [dialog : Dialogs \cup {"free"}, target : Target \cup {NoTarget}, at : Nat]
        /\ Free.dialog = "free"
    BY DEF Free
  <1>3. DialogTypeOK'
    BY <1>1, <1>2 DEF DialogTypeOK
  <1>4. \A i \in Slot : calls'[i].dialog = "free"
    BY <1>1, <1>2
  <1>5. OneHandler'
    BY <1>4 DEF OneHandler, guarded, Dialogs
  <1>6. UploadIInv'
    BY <1>1, <1>4 DEF UploadIInv
  <1> QED
    BY <1>1, <1>3, <1>5, <1>6 DEF DialogIInv

\* A step that leaves page and dialogs alone keeps the invariant.
LEMMA DialogsUntouched ==
    ASSUME DialogIInv, page' = page, UNCHANGED <<dialog, target, step, calls, timers, done>>
    PROVE  DialogIInv'
  BY DEF DialogIInv, DialogTypeOK, OneHandler, UploadIInv

\* What the end of a handler may do: the upload form keeps its file, and only
\* an end that is no failure brings success on the screen.
LEMMA SettleEffect ==
    ASSUME DialogTypeOK, NEW i \in Slot, calls[i].dialog \in Dialogs, NEW ok \in BOOLEAN,
           Settle(i, ok)
    PROVE  /\ calls[i].dialog = "upload" =>
                /\ step' = IF ok THEN "success" ELSE "error"
                /\ target' = target /\ timers' = timers
           /\ ~ok => step' # "success" \/ step' = step
           /\ target' \in Target \cup {NoTarget}
           /\ timers' \in Nat
  <1> DEFINE d == calls[i].dialog
  <1>0. calls[i].target \in Target \cup {NoTarget} /\ timers \in Nat /\ target \in Target \cup {NoTarget}
    BY DEF DialogTypeOK
  <1>1. CASE d = "upload"
    BY <1>0, <1>1 DEF Settle, handleSubmit
  <1>2. CASE d = "cessao"
    BY <1>0, <1>2 DEF Settle, handleAssign
  <1>3. CASE d = "withdraw"
    BY <1>0, <1>3 DEF Settle, handleWithdraw
  <1>4. CASE d = "collection"
    BY <1>0, <1>4 DEF Settle, handleRetryCollection
  <1>5. CASE d = "buy"
    BY <1>0, <1>5 DEF Settle, handleConfirm
  <1>6. CASE d = "deposit"
    BY <1>0, <1>6 DEF Settle, handleConfirmPayment
  <1>7. CASE d = "finalize"
    BY <1>0, <1>7 DEF Settle, handleFinalize
  <1>8. CASE d = "receivable"
    BY <1>0, <1>8 DEF Settle, handleApproveReceivable
  <1>9. CASE d = "transactions"
    BY <1>0, <1>9 DEF Settle, handleApproveTransaction
  <1>10. CASE d = "create_deposit"
    BY <1>0, <1>10 DEF Settle, handleCreateDeposit
  <1>11. CASE d = "invoices"
    BY <1>0, <1>11 DEF Settle, handleReceivableAction
  <1>12. CASE d = "settings"
    BY <1>0, <1>12 DEF Settle, handleSaveProfile
  <1> QED
    BY <1>1, <1>2, <1>3, <1>4, <1>5, <1>6, <1>7, <1>8, <1>9, <1>10, <1>11, <1>12 DEF Dialogs

\* A handler is started where its dialog lets it.
LEMMA SubmitKeeps ==
    ASSUME DialogIInv, NEW i \in Slot, Submit(i)
    PROVE  DialogIInv'
  <1> DEFINE new == [dialog |-> dialog, target |-> target, at |-> 1]
  <1>1. /\ page = "dashboard" /\ target # NoTarget /\ dialog \in Dialogs
        /\ calls[i] = Free /\ calls' = [calls EXCEPT ![i] = new]
        /\ page' = page /\ dialog' = dialog /\ target' = target /\ timers' = timers /\ done' = done
    BY DEF Submit, DialogIInv, DialogTypeOK, sessionVars
  <1>2. /\ new \in [dialog : Dialogs \cup {"free"}, target : Target \cup {NoTarget}, at : Nat]
        /\ new.dialog = dialog /\ new.target = target
    BY <1>1 DEF DialogIInv, DialogTypeOK
  <1>3. /\ calls'[i] = new
        /\ \A j \in Slot : j # i => calls'[j] = calls[j]
    BY <1>1 DEF DialogIInv, DialogTypeOK
  <1>4. DialogTypeOK'
    BY <1>1, <1>2, <1>3 DEF DialogIInv, DialogTypeOK
  <1>5. dialog \in guarded => \A j \in Slot : calls[j].dialog # dialog
    BY DEF Submit, submitEnabled, running, guarded
  <1>6. OneHandler'
    BY <1>1, <1>2, <1>3, <1>5 DEF DialogIInv, OneHandler
  <1>7. step' # "success" \/ step' = step
    BY DEF Submit
  <1>8. UploadIInv'
    <2> SUFFICES ASSUME dialog = "upload"
                 PROVE  UploadIInv'
      BY <1>1 DEF UploadIInv
    <2>1. component = UploadZone
      BY DEF component, Component
    <2>2. step' = "busy"
      BY <2>1 DEF Submit, UploadZone
    <2>3. dialog \in guarded
      BY DEF guarded, rowwise, Dialogs
    <2> QED
      BY <1>1, <1>2, <1>3, <1>5, <2>2, <2>3 DEF DialogIInv, UploadIInv
  <1> QED
    BY <1>1, <1>4, <1>6, <1>7, <1>8 DEF DialogIInv

\* The next call of a handler changes nothing that the dialog shows.
LEMMA NextCallKeeps ==
    ASSUME DialogIInv, NEW i \in Slot, NextCall(i)
    PROVE  DialogIInv'
  <1>1. /\ page' = page /\ dialog' = dialog /\ target' = target /\ timers' = timers /\ done' = done
        /\ calls[i].dialog \in Dialogs
    BY DEF NextCall, DialogIInv, DialogTypeOK, sessionVars
  <1>2. /\ calls' = [calls EXCEPT ![i] = [calls[i] EXCEPT !.at = calls[i].at + 1]]
        /\ calls[i] \in [dialog : Dialogs \cup {"free"}, target : Target \cup {NoTarget}, at : Nat]
    BY DEF NextCall, DialogIInv, DialogTypeOK
  <1>3. /\ calls' \in [Slot -> [dialog : Dialogs \cup {"free"}, target : Target \cup {NoTarget}, at : Nat]]
        /\ \A j \in Slot : calls'[j].dialog = calls[j].dialog /\ calls'[j].target = calls[j].target
        /\ \A j \in Slot : j # i => calls'[j] = calls[j]
    BY <1>2 DEF DialogIInv, DialogTypeOK
  <1>4. DialogTypeOK'
    BY <1>1, <1>3 DEF DialogIInv, DialogTypeOK
  <1>5. OneHandler'
    BY <1>3 DEF DialogIInv, OneHandler
  <1>6. step' # "success" \/ step' = step
    BY DEF NextCall
  <1>7. dialog = "upload" => step' = step
    BY <1>1 DEF NextCall, DialogIInv, UploadIInv, Dialogs
  <1>8. UploadIInv'
    BY <1>1, <1>3, <1>7 DEF DialogIInv, UploadIInv
  <1> QED
    BY <1>1, <1>4, <1>5, <1>6, <1>8 DEF DialogIInv

\* A handler ends, with success or without.
LEMMA SettleKeeps ==
    ASSUME DialogIInv, NEW i \in Slot, NEW ok \in BOOLEAN, calls[i] # Free, Settle(i, ok),
           calls' = [calls EXCEPT ![i] = Free], page' = page, dialog' = dialog,
           ok => done' = done \cup {calls[i].target}, ~ok => done' = done
    PROVE  DialogIInv'
  <1>1. /\ calls[i].dialog \in Dialogs
        /\ Free \in [dialog : Dialogs \cup {"free"}, target : Target \cup {NoTarget}, at : Nat]
        /\ Free.dialog = "free"
    BY DEF DialogIInv, DialogTypeOK, Free
  <1>2. /\ calls'[i] = Free
        /\ \A j \in Slot : j # i => calls'[j] = calls[j]
    BY DEF DialogIInv, DialogTypeOK
  <1>3. /\ calls[i].dialog = "upload" =>
              /\ step' = IF ok THEN "success" ELSE "error"
              /\ target' = target /\ timers' = timers
        /\ ~ok => step' # "success" \/ step' = step
        /\ target' \in Target \cup {NoTarget}
        /\ timers' \in Nat
    BY <1>1, SettleEffect DEF DialogIInv
  <1>4. DialogTypeOK'
    BY <1>1, <1>2, <1>3 DEF DialogIInv, DialogTypeOK
  <1>5. OneHandler'
    <2>1. "free" \notin guarded
      BY DEF guarded, Dialogs
    <2> QED
      BY <1>1, <1>2, <2>1 DEF DialogIInv, OneHandler
  <1>6. step' = "success" => done' # {}
    <2>1. CASE ok
      BY <2>1
    <2>2. CASE ~ok
      BY <1>3, <2>2 DEF DialogIInv
    <2> QED
      BY <2>1, <2>2
  <1>7. UploadIInv'
    <2> SUFFICES ASSUME dialog = "upload"
                 PROVE  UploadIInv'
      BY DEF UploadIInv
    <2>1. calls[i].dialog = "upload" /\ step = "busy" /\ calls[i].target = target
      BY <1>1 DEF DialogIInv, UploadIInv, Dialogs
    <2>2. "upload" \in guarded
      BY DEF guarded, rowwise, Dialogs
    <2>3. \A j \in Slot : calls'[j].dialog = "free"
      BY <1>1, <1>2, <2>1, <2>2 DEF DialogIInv, OneHandler, UploadIInv
    <2>4. target # NoTarget /\ timers = 0
      BY <2>1 DEF DialogIInv, UploadIInv
    <2>5. step' = "success" => target' \in done'
      BY <1>3, <2>1
    <2> QED
      BY <1>3, <2>1, <2>3, <2>4, <2>5 DEF UploadIInv
  <1> QED
    BY <1>4, <1>5, <1>6, <1>7 DEF DialogIInv

\* Leaving for the login page unmounts the dashboard.
LEMMA ToLoginKeeps ==
    ASSUME DialogIInv, ToLogin
    PROVE  DialogIInv'
  <1>1. CASE page = "login"
    BY <1>1, DialogsUntouched DEF ToLogin, dialogVars
  <1>2. CASE page # "login"
    BY <1>2, MountedFresh DEF ToLogin, Unmounted
  <1> QED
    BY <1>1, <1>2

\* Opening, closing and timers keep the upload form in order.
LEMMA WindowKeeps ==
    ASSUME DialogIInv, (\E x \in Target : Open(x)) \/ Close \/ TryAgain \/ TimerFires
    PROVE  DialogIInv'
  <1> USE DEF DialogIInv
  <1>1. ASSUME NEW x \in Target, Open(x)
        PROVE  DialogIInv'
    <2>1. /\ page' = page /\ target = NoTarget /\ target' = x /\ dialog' \in onPage(dialog)
          /\ UNCHANGED <<step, calls, timers, done>> /\ dialog \in Dialogs
      BY <1>1 DEF Open, DialogTypeOK, sessionVars
    <2>2. dialog' \in Dialogs /\ (dialog' = "upload" <=> dialog = "upload")
      BY <2>1 DEF onPage, Dialogs
    <2>3. DialogTypeOK'
      BY <2>1, <2>2 DEF DialogTypeOK
    <2>4. OneHandler'
      BY <2>1 DEF OneHandler
    <2>5. UploadIInv'
      BY <2>1, <2>2 DEF UploadIInv
    <2> QED
      BY <2>1, <2>3, <2>4, <2>5
  <1>2. CASE Close
    <2>1. /\ page' = page /\ target' = NoTarget /\ dialog \in Dialogs
          /\ step' = "form" \/ step' = step
          /\ UNCHANGED <<dialog, calls, timers, done>>
      BY <1>2 DEF Close, DialogTypeOK, sessionVars
    <2>2. ASSUME dialog = "upload"
          PROVE  step \in {"form", "error", "success"} /\ step' = "form"
      <3>1. component = UploadZone
        BY <2>2 DEF component, Component
      <3> QED
        BY <1>2, <2>2, <3>1 DEF Close, UploadZone, allowed
    <2>3. DialogTypeOK'
      BY <2>1 DEF DialogTypeOK
    <2>4. OneHandler'
      BY <2>1 DEF OneHandler
    <2>5. UploadIInv'
      BY <2>1, <2>2 DEF UploadIInv
    <2> QED
      BY <2>1, <2>3, <2>4, <2>5
  <1>3. CASE TryAgain
    <2>1. /\ page' = page /\ dialog = "withdraw" /\ step' = "form"
          /\ UNCHANGED <<dialog, target, calls, timers, done>>
      BY <1>3 DEF TryAgain, sessionVars
    <2> QED
      BY <2>1 DEF DialogTypeOK, OneHandler, UploadIInv
  <1>4. CASE TimerFires
    <2>1. /\ page' = page /\ timers > 0 /\ timers' = timers - 1 /\ target' = NoTarget
          /\ step' = "form" \/ step' = step
          /\ UNCHANGED <<dialog, calls, done>>
      BY <1>4 DEF TimerFires, sessionVars
    <2>2. DialogTypeOK'
      BY <2>1 DEF DialogTypeOK
    <2>3. dialog # "upload"
      BY <2>1 DEF UploadIInv
    <2> QED
      BY <2>1, <2>2, <2>3 DEF OneHandler, UploadIInv
  <1> QED
    BY <1>1, <1>2, <1>3, <1>4

\* Every step keeps the dialogs in order.
LEMMA DialogNext == DialogIInv /\ [Next]_vars => DialogIInv'
  <1> SUFFICES ASSUME DialogIInv, [Next]_vars
               PROVE  DialogIInv'
    OBVIOUS
  <1>1. ASSUME NEW account \in {"member", "other"},
               login(account) \/ continueWithPrivy \/ AutoBootstrap \/ ExchangeFails \/ RoleMismatch
               \/ restartLogin \/ ExpireToken \/ OtherTabSignsOut \/ apiFetch
        PROVE  DialogIInv'
    BY <1>1, DialogsUntouched
    DEF login, continueWithPrivy, AutoBootstrap, ExchangeFails, RoleMismatch, restartLogin,
        ExpireToken, OtherTabSignsOut, apiFetch, dialogVars
  <1>2. CASE privySession
    <2>1. CASE panel.account = "member"
      <3>1. PICK d \in Dialogs : Mounted(d)
        BY <1>2, <2>1 DEF privySession, Pages, Dialogs, Unmounted
      <3> QED
        BY <1>2, <2>1, <3>1, MountedFresh DEF privySession
    <2>2. CASE panel.account # "member"
      BY <1>2, <2>2, DialogsUntouched DEF privySession, dialogVars
    <2> QED
      BY <2>1, <2>2
  <1>3. CASE handleLogout \/ onUnauthorized
    BY <1>3, ToLoginKeeps DEF handleLogout, onUnauthorized
  <1>4. CASE Reload
    <2>1. page' \in {"login", "dashboard"} /\ Mounted(IF page' = "login" THEN "none" ELSE dialog)
      BY <1>4 DEF Reload, DialogIInv, DialogTypeOK
    <2>2. CASE page' = "login"
      BY <2>1, <2>2, MountedFresh
    <2>3. CASE page' # "login"
      <3>1. page = "dashboard" /\ dialog \in Dialogs
        BY <1>4, <2>1, <2>3 DEF Reload, DialogIInv, DialogTypeOK
      <3> QED
        BY <2>1, <2>3, <3>1, MountedFresh
    <2> QED
      BY <2>2, <2>3
  <1>5. CASE (\E x \in Target : Open(x)) \/ Close \/ TryAgain \/ TimerFires
    BY <1>5, WindowKeeps
  <1>6. ASSUME NEW i \in Slot, Submit(i) \/ NextCall(i)
        PROVE  DialogIInv'
    BY <1>6, SubmitKeeps, NextCallKeeps
  <1>7. ASSUME NEW i \in Slot, Succeed(i)
        PROVE  DialogIInv'
    BY <1>7, SettleKeeps DEF Succeed, sessionVars
  <1>8. ASSUME NEW i \in Slot, Fail(i)
        PROVE  DialogIInv'
    BY <1>8, SettleKeeps DEF Fail, sessionVars
  <1>9. CASE Navigate
    <2>1. PICK d \in Dialogs : Mounted(d)
      BY <1>9 DEF Navigate, Pages, Dialogs, Unmounted
    <2>2. page' = page /\ page = "dashboard"
      BY <1>9 DEF Navigate, sessionVars
    <2> QED
      BY <2>1, <2>2, MountedFresh
  <1>10. CASE LeftBehindEnds
    BY <1>10, DialogsUntouched DEF LeftBehindEnds, sessionVars
  <1>11. CASE UNCHANGED vars
    BY <1>11, DialogsUntouched DEF vars, dialogVars, sessionVars
  <1> QED
    BY <1>1, <1>2, <1>3, <1>4, <1>5, <1>6, <1>7, <1>8, <1>9, <1>10, <1>11
    DEF Next, ExchangeSettles, CallSettles

\* The invariant of the dialogs, for any number of targets, handlers and timers.
LEMMA DialogInvariant == Spec => []DialogIInv
  <1>1. Init => DialogIInv
    <2> SUFFICES ASSUME Init
                 PROVE  DialogIInv
      OBVIOUS
    <2>1. /\ Free \in [dialog : Dialogs \cup {"free"}, target : Target \cup {NoTarget}, at : Nat]
          /\ Free.dialog = "free"
      BY DEF Free
    <2>2. \A i \in Slot : calls[i] = Free
      BY DEF Init
    <2>3. DialogTypeOK
      BY <2>1, <2>2 DEF Init, DialogTypeOK
    <2>4. OneHandler
      BY <2>1, <2>2 DEF OneHandler, guarded, Dialogs
    <2>5. dialog = "none" /\ step = "form"
      BY DEF Init
    <2> QED
      BY <2>3, <2>4, <2>5 DEF DialogIInv, UploadIInv
  <1> QED
    BY <1>1, DialogNext, PTL DEF Spec

\* Closing a dialog and opening it again, for the same target or another, never
\* puts a second handler beside one that is still waiting for its answer, for as
\* long as the page stays; the router may take it away at any time, and what it
\* leaves in flight is beyond what any page's flags can say.
THEOREM NoDoubleSubmission == Spec => []OneSubmissionAtATime
  <1>1. ASSUME DialogIInv
        PROVE  OneSubmissionAtATime
    <2> SUFFICES ASSUME dialog \notin {"withdraw"} \cup rowwise
                 PROVE  Cardinality(running(dialog)) <= 1
      BY DEF OneSubmissionAtATime
    <2>1. CASE running(dialog) = {}
      BY <2>1, FS_EmptySet
    <2>2. CASE running(dialog) # {}
      <3>1. PICK i \in Slot : calls[i].dialog = dialog
        BY <2>2 DEF running
      <3>2. CASE dialog \in guarded
        <4>1. running(dialog) = {i}
          BY <1>1, <3>1, <3>2 DEF running, DialogIInv, OneHandler
        <4> QED
          BY <4>1, FS_Singleton
      <3>3. CASE dialog \notin guarded
        <4>1. dialog = "none"
          BY <1>1, <3>3 DEF guarded, DialogIInv, DialogTypeOK
        <4>2. calls[i].dialog \in Dialogs \cup {"free"}
          BY <1>1 DEF DialogIInv, DialogTypeOK
        <4> QED
          BY <3>1, <4>1, <4>2 DEF Dialogs
      <3> QED
        BY <3>2, <3>3
    <2> QED
      BY <2>1, <2>2
  <1> QED
    BY <1>1, DialogInvariant, PTL

\* Success is shown after a handler of the page ran to its end; by the upload
\* form, for the very file it was given.
THEOREM SuccessIsEarned == Spec => []SuccessWasEarned
  <1>1. DialogIInv => SuccessWasEarned
    BY DEF DialogIInv, UploadIInv, SuccessWasEarned
  <1> QED
    BY <1>1, DialogInvariant, PTL
=============================================================================
