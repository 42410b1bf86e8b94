------------------------- MODULE TransactionsProofs --------------------------
(***************************************************************************)
(* Theorems about Transactions, for any number of deposits, withdrawals,   *)
(* tabs, operators and transactions of the wallet.                         *)
(***************************************************************************)
EXTENDS Transactions, TotalsProofs

\* The tab has burned, and has yet to make the row of its withdrawal.
atOrder(t) == At(t, "withdraw", "confirmed")
atDuplicate(t) == At(t, "withdraw", "duplicate")

\* The dialogs, and their steps.
Dialog == {"notify", "finalize", "withdraw"}
Burnt == {"confirmed", "duplicate"}
Step == {"store", "approve", "deposit_build", "deposit_submit", "deposit",
         "completed_store", "burn"} \cup Burnt

Session == [dialog : Dialog, o : Transaction, pc : Step, seq : Nat]

\* The state the argument is about is well typed.
WalletTypeOK ==
    /\ seq \in Nat \ {0}
    /\ burned \subseteq Nat
    /\ burnOf \in [Withdrawal -> [tx : Nat, from : {"none", "confirmed", "duplicate", "caller"}]]
    /\ tab \in [Tab -> {Closed} \cup Session]

\* A burn in the history of the wallet is one of the burns.
AppliedOK == \A tx \in applied : tx.kind = "burn" => tx.seq \in burned

\* Each burn took a sequence number of its own, below the current one, and is
\* held by at most one of the tabs and rows it was confirmed to.
BurnIInv ==
    /\ WalletTypeOK /\ AppliedOK
    /\ \A n \in burned : 0 < n /\ n < seq
    /\ \A t \in Tab : atOrder(t) \/ atDuplicate(t) => tab[t].seq \in burned
    /\ \A t, u \in Tab : atOrder(t) /\ atOrder(u) /\ tab[t].seq = tab[u].seq => t = u
    /\ \A o \in Withdrawal : burnOf[o].tx \in {0} \cup burned
    /\ \A t \in Tab, o \in Withdrawal :
         atOrder(t) /\ burnOf[o].from = "confirmed" => tab[t].seq # burnOf[o].tx
    /\ BurnPerWithdrawal

\* What a transaction of the wallet does to its sequence number and the burns.
LEMMA ApplyEffect ==
    ASSUME NEW tx, Apply(tx)
    PROVE  /\ tx.seq = seq /\ seq' = seq + 1
           /\ burned' \in {burned, burned \cup {seq}}
           /\ tx.kind = "burn" => burned' = burned \cup {seq}
           /\ AppliedOK => AppliedOK'
  <1>1. /\ tx.seq = seq /\ seq' = seq + 1
        /\ burned' = IF tx.kind = "burn" THEN burned \cup {tx.seq} ELSE burned
        /\ applied' = applied \cup {tx}
    BY DEF Apply, applies
  <1> QED
    BY <1>1 DEF AppliedOK

\* A step after which a tab is at the order only if it was, or has the burn of
\* another request, and which takes nothing back from the chain, keeps the invariant.
LEMMA QuietStep ==
    ASSUME BurnIInv, WalletTypeOK', burnOf' = burnOf,
           NEW tx, UNCHANGED <<seq, burned, applied>> \/ Apply(tx),
           \A u \in Tab : tab'[u].dialog = "withdraw" /\ tab'[u].pc = "confirmed" => tab'[u] = tab[u],
           \A u \in Tab : tab'[u].dialog = "withdraw" /\ tab'[u].pc = "duplicate" =>
                             tab'[u] = tab[u] \/ tab'[u].seq \in burned
    PROVE  BurnIInv'
  <1>a. /\ seq' \in {seq, seq + 1} /\ AppliedOK'
        /\ \/ burned' = burned
           \/ seq' = seq + 1 /\ burned' = burned \cup {seq}
    BY ApplyEffect DEF BurnIInv, AppliedOK
  <1>0. \A u \in Tab : /\ atOrder(u)' => atOrder(u) /\ tab'[u] = tab[u]
                       /\ atDuplicate(u)' => (atDuplicate(u) /\ tab'[u] = tab[u]) \/ tab'[u].seq \in burned
    BY DEF atOrder, atDuplicate, At
  <1>1. \A n \in burned' : 0 < n /\ n < seq'
    BY <1>a DEF BurnIInv, WalletTypeOK
  <1>2. burned \subseteq burned'
    BY <1>a
  <1>3. \A t \in Tab : atOrder(t)' \/ atDuplicate(t)' => tab'[t].seq \in burned'
    BY <1>0, <1>2 DEF BurnIInv
  <1>4. \A t, u \in Tab : atOrder(t)' /\ atOrder(u)' /\ tab'[t].seq = tab'[u].seq => t = u
    BY <1>0 DEF BurnIInv
  <1>5. \A t \in Tab, o \in Withdrawal :
          atOrder(t)' /\ burnOf'[o].from = "confirmed" => tab'[t].seq # burnOf'[o].tx
    BY <1>0 DEF BurnIInv
  <1>6. BurnPerWithdrawal' /\ \A o \in Withdrawal : burnOf'[o].tx \in {0} \cup burned'
    BY <1>2 DEF BurnIInv, BurnPerWithdrawal
  <1> QED
    BY <1>a, <1>1, <1>3, <1>4, <1>5, <1>6 DEF BurnIInv

\* A tab that is closed.
LEMMA CloseMoves ==
    ASSUME WalletTypeOK, NEW t \in Tab, Close(t)
    PROVE  /\ tab' \in [Tab -> {Closed} \cup Session]
           /\ \A u \in Tab : u # t => tab'[u] = tab[u]
           /\ tab'[t].dialog = "closed"
  BY DEF Close, WalletTypeOK, Closed

\* A tab that goes to another step of its dialog.
LEMMA GotoMoves ==
    ASSUME WalletTypeOK, NEW t \in Tab, NEW pc \in Step,
           tab[t].dialog # "closed", Goto(t, pc)
    PROVE  /\ tab' \in [Tab -> {Closed} \cup Session]
           /\ \A u \in Tab : u # t => tab'[u] = tab[u]
           /\ tab'[t] = [tab[t] EXCEPT !.pc = pc]
           /\ tab'[t].dialog = tab[t].dialog /\ tab'[t].seq = tab[t].seq /\ tab'[t].pc = pc
  <1>1. tab[t] \in Session
    BY DEF WalletTypeOK, Closed
  <1>2. [tab[t] EXCEPT !.pc = pc] \in Session
    BY <1>1 DEF Session
  <1> QED
    BY <1>1, <1>2 DEF Goto, WalletTypeOK, Session

\* A dialog that is opened at a step other than the order.
LEMMA OpenMoves ==
    ASSUME WalletTypeOK, NEW t \in Tab, NEW d \in Dialog, NEW o \in Transaction,
           NEW pc \in Step, pc \notin Burnt, Open(t, d, o, pc)
    PROVE  /\ tab' \in [Tab -> {Closed} \cup Session]
           /\ \A u \in Tab : u # t => tab'[u] = tab[u]
           /\ tab'[t].pc \notin Burnt
           /\ tab'[t] = [dialog |-> d, o |-> o, pc |-> pc, seq |-> seq]
  <1>1. [dialog |-> d, o |-> o, pc |-> pc, seq |-> seq] \in Session
    BY DEF Session, WalletTypeOK
  <1> QED
    BY <1>1 DEF Open, WalletTypeOK

\* A step that moves one tab elsewhere than to the order, and nothing else of
\* what the invariant is about, keeps it.
LEMMA TabStep ==
    ASSUME BurnIInv, NEW t \in Tab, UNCHANGED <<seq, burned, applied, burnOf>>,
           tab' \in [Tab -> {Closed} \cup Session],
           \A u \in Tab : u # t => tab'[u] = tab[u],
           tab'[t].dialog # "withdraw" \/ tab'[t].pc \notin Burnt
    PROVE  BurnIInv'
  <1>1. WalletTypeOK'
    BY DEF BurnIInv, WalletTypeOK
  <1> QED
    BY <1>1, QuietStep DEF Burnt

\* A confirmed transaction of a dialog: the burn takes a fresh sequence number.
LEMMA SubmitStep ==
    ASSUME BurnIInv, NEW t \in Tab, NEW dialog \in Dialog, NEW kind, NEW next \in Step,
           dialog = "withdraw" => kind = "burn" /\ next = "confirmed",
           submitSignedTx(t, dialog, kind, next)
    PROVE  BurnIInv'
  <1>1. /\ WalletTypeOK /\ Goto(t, next) /\ burnOf' = burnOf
        /\ tab[t].dialog = dialog /\ dialog # "closed"
    BY DEF submitSignedTx, At, BurnIInv, Dialog
  <1>2. /\ tab' \in [Tab -> {Closed} \cup Session]
        /\ \A u \in Tab : u # t => tab'[u] = tab[u]
        /\ tab'[t].dialog = dialog /\ tab'[t].seq = tab[t].seq /\ tab'[t].pc = next
    BY <1>1, GotoMoves
  <1>3. /\ tab[t].seq = seq /\ seq' = seq + 1
        /\ burned' \in {burned, burned \cup {seq}}
        /\ kind = "burn" => burned' = burned \cup {seq}
        /\ AppliedOK' /\ Apply(Tx(t, kind))
    <2>1. Tx(t, kind).seq = tab[t].seq /\ Tx(t, kind).kind = kind
      BY DEF Tx
    <2>2. Apply(Tx(t, kind))
      BY DEF submitSignedTx
    <2> HIDE DEF Tx
    <2> QED
      BY <2>1, <2>2, ApplyEffect DEF BurnIInv
  <1>4. WalletTypeOK'
    BY <1>1, <1>2, <1>3 DEF WalletTypeOK
  <1>5. CASE dialog # "withdraw"
    BY <1>1, <1>2, <1>3, <1>4, <1>5, QuietStep
  <1>6. CASE dialog = "withdraw"
    <2>1. burned' = burned \cup {seq} /\ seq \notin burned /\ tab'[t].seq = seq
      BY <1>2, <1>3, <1>6 DEF BurnIInv, WalletTypeOK
    <2>2. \A u \in Tab : u # t => (atOrder(u)' <=> atOrder(u)) /\ (atDuplicate(u)' <=> atDuplicate(u))
      BY <1>2 DEF atOrder, atDuplicate, At
    <2>a. ~atDuplicate(t)'
      BY <1>2, <1>6 DEF atDuplicate, At
    <2>3. \A n \in burned' : 0 < n /\ n < seq'
      BY <2>1, <1>3 DEF BurnIInv, WalletTypeOK
    <2>4. \A u \in Tab : atOrder(u)' \/ atDuplicate(u)' => tab'[u].seq \in burned'
      BY <1>2, <2>1, <2>2, <2>a DEF BurnIInv
    <2>5. \A u \in Tab : u # t /\ atOrder(u)' => tab'[u].seq # seq
      BY <1>2, <2>1, <2>2 DEF BurnIInv
    <2>6. \A u, v \in Tab : atOrder(u)' /\ atOrder(v)' /\ tab'[u].seq = tab'[v].seq => u = v
      BY <1>2, <2>1, <2>2, <2>5 DEF BurnIInv
    <2>7. \A o \in Withdrawal : burnOf[o].tx # seq
      BY <2>1, <1>1 DEF BurnIInv, WalletTypeOK
    <2>8. \A u \in Tab, o \in Withdrawal :
            atOrder(u)' /\ burnOf'[o].from = "confirmed" => tab'[u].seq # burnOf'[o].tx
      BY <1>1, <1>2, <2>1, <2>2, <2>7 DEF BurnIInv
    <2>9. BurnPerWithdrawal' /\ \A o \in Withdrawal : burnOf'[o].tx \in {0} \cup burned'
      BY <1>1, <2>1 DEF BurnIInv, BurnPerWithdrawal
    <2> QED
      BY <1>3, <1>4, <2>3, <2>4, <2>6, <2>8, <2>9 DEF BurnIInv
  <1> QED
    BY <1>5, <1>6

\* A request whose transaction another request had applied.
LEMMA DuplicateStep ==
    ASSUME BurnIInv, NEW t \in Tab, NEW dialog \in Dialog, NEW kind, NEW next \in Step,
           dialog = "withdraw" => kind = "burn" /\ next = "duplicate",
           submitDuplicate(t, dialog, kind, next)
    PROVE  BurnIInv'
  <1>1. /\ WalletTypeOK /\ Goto(t, next) /\ UNCHANGED <<seq, burned, applied, burnOf>>
        /\ tab[t].dialog = dialog /\ dialog # "closed"
    BY DEF submitDuplicate, At, BurnIInv, Dialog, walletVars
  <1>2. /\ tab' \in [Tab -> {Closed} \cup Session]
        /\ \A u \in Tab : u # t => tab'[u] = tab[u]
        /\ tab'[t].dialog = dialog /\ tab'[t].seq = tab[t].seq /\ tab'[t].pc = next
    BY <1>1, GotoMoves
  <1>3. WalletTypeOK'
    BY <1>1, <1>2 DEF WalletTypeOK
  <1>4. dialog = "withdraw" => tab'[t].seq \in burned
    BY <1>2 DEF submitDuplicate, Tx, BurnIInv, AppliedOK
  <1> QED
    BY <1>1, <1>2, <1>3, <1>4, QuietStep

\* A row that names a burn that was applied, or none.  One that was confirmed to
\* its own request comes from a tab that now closes.
LEMMA RowStep ==
    ASSUME BurnIInv, NEW o \in Withdrawal, NEW n, NEW from \in {"confirmed", "duplicate", "caller"},
           withdrawalRow(o, n, from), UNCHANGED <<seq, burned, applied>>,
           n \in {0} \cup burned, from # "caller" => n \in burned,
           tab' \in [Tab -> {Closed} \cup Session],
           \A u \in Tab : atOrder(u)' \/ atDuplicate(u)' => tab'[u] = tab[u],
           from = "confirmed" =>
               /\ \A u \in Tab : atOrder(u)' => tab[u].seq # n
               /\ \A q \in Withdrawal : burnOf[q].from = "confirmed" => burnOf[q].tx # n
    PROVE  BurnIInv'
  <1>1. WalletTypeOK /\ n \in Nat
    BY DEF BurnIInv, WalletTypeOK
  <1>2. [tx |-> n, from |-> from] \in [tx : Nat, from : {"none", "confirmed", "duplicate", "caller"}]
    BY <1>1
  <1>3. /\ burnOf' \in [Withdrawal -> [tx : Nat, from : {"none", "confirmed", "duplicate", "caller"}]]
        /\ burnOf'[o].tx = n /\ burnOf'[o].from = from
        /\ \A q \in Withdrawal : q # o => burnOf'[q] = burnOf[q]
    BY <1>1, <1>2 DEF withdrawalRow, WalletTypeOK
  <1>4. WalletTypeOK' /\ AppliedOK'
    BY <1>1, <1>3 DEF WalletTypeOK, BurnIInv, AppliedOK
  <1>5. \A u \in Tab : /\ atOrder(u)' => atOrder(u) /\ tab'[u] = tab[u]
                       /\ atDuplicate(u)' => atDuplicate(u) /\ tab'[u] = tab[u]
    BY DEF atOrder, atDuplicate, At
  <1>6. \A u \in Tab, q \in Withdrawal :
          atOrder(u)' /\ burnOf'[q].from = "confirmed" => tab'[u].seq # burnOf'[q].tx
    BY <1>3, <1>5 DEF BurnIInv
  <1>7. BurnPerWithdrawal' /\ \A q \in Withdrawal : burnOf'[q].tx \in {0} \cup burned'
    BY <1>3 DEF BurnIInv, BurnPerWithdrawal
  <1>8. /\ \A u \in Tab : atOrder(u)' \/ atDuplicate(u)' => tab'[u].seq \in burned'
        /\ \A u, v \in Tab : atOrder(u)' /\ atOrder(v)' /\ tab'[u].seq = tab'[v].seq => u = v
        /\ \A m \in burned' : 0 < m /\ m < seq'
    BY <1>5 DEF BurnIInv
  <1> QED
    BY <1>4, <1>6, <1>7, <1>8 DEF BurnIInv

\* The row of a withdrawal takes the burn of its tab over.
LEMMA SubmittedRow ==
    ASSUME BurnIInv, NEW t \in Tab, NEW from \in Burnt, submitWithdrawal(t, from)
    PROVE  BurnIInv'
  <1>1. /\ WalletTypeOK /\ Close(t) /\ UNCHANGED <<seq, burned, applied>>
        /\ At(t, "withdraw", from) /\ withdrawalRow(tab[t].o, tab[t].seq, from)
    BY DEF submitWithdrawal, BurnIInv, walletVars
  <1>2. /\ tab' \in [Tab -> {Closed} \cup Session]
        /\ \A u \in Tab : u # t => tab'[u] = tab[u]
        /\ tab'[t].dialog = "closed"
    BY <1>1, CloseMoves
  <1>3. tab[t].seq \in burned /\ (from = "confirmed" => atOrder(t))
    BY <1>1 DEF BurnIInv, Burnt, atOrder, atDuplicate
  <1>4. \A u \in Tab : atOrder(u)' \/ atDuplicate(u)' => u # t /\ tab'[u] = tab[u]
    BY <1>2 DEF atOrder, atDuplicate, At
  <1>5. \A u \in Tab : atOrder(u)' => atOrder(u)
    BY <1>4 DEF atOrder, At
  <1>6. from = "confirmed" =>
          /\ \A u \in Tab : atOrder(u)' => tab[u].seq # tab[t].seq
          /\ \A q \in Withdrawal : burnOf[q].from = "confirmed" => burnOf[q].tx # tab[t].seq
    BY <1>3, <1>4, <1>5 DEF BurnIInv
  <1>7. tab[t].o \in Withdrawal
    BY <1>1 DEF withdrawalRow, createWithdrawalOrder
  <1> QED
    BY <1>1, <1>2, <1>3, <1>4, <1>6, <1>7, RowStep DEF Burnt

\* The row that the caller of POST /pix/withdrawals asks for.
LEMMA CallerRow ==
    ASSUME BurnIInv, NEW o \in Withdrawal, NEW n \in {0} \cup burned, createWithdrawal(o, n)
    PROVE  BurnIInv'
  <1>1. withdrawalRow(o, n, "caller") /\ UNCHANGED <<seq, burned, applied, tab>>
    BY DEF createWithdrawal, walletVars
  <1>2. tab' \in [Tab -> {Closed} \cup Session]
    BY <1>1 DEF BurnIInv, WalletTypeOK
  <1> QED
    BY <1>1, <1>2, RowStep

\* A transaction that was given up on and is applied later makes no row.
LEMMA LateStep ==
    ASSUME BurnIInv, NEW tx, LateTransaction(tx)
    PROVE  BurnIInv'
  <1>1. tab' = tab /\ burnOf' = burnOf
    BY DEF LateTransaction
  <1>2. CASE Apply(tx)
    <2>1. seq' = seq + 1 /\ burned' \in {burned, burned \cup {seq}}
      BY <1>2, ApplyEffect
    <2>2. WalletTypeOK'
      BY <1>1, <2>1 DEF BurnIInv, WalletTypeOK
    <2> QED
      BY <1>1, <1>2, <2>2, QuietStep
  <1>3. CASE UNCHANGED <<brlt, seq, pooled, burned, applied>>
    <2>1. WalletTypeOK'
      BY <1>1, <1>3 DEF BurnIInv, WalletTypeOK
    <2> QED
      BY <1>1, <1>3, <2>1, QuietStep
  <1> QED
    BY <1>2, <1>3 DEF LateTransaction

\* Callbacks and the back office touch neither the burns nor the tabs.
LEMMA UntouchedStep ==
    ASSUME BurnIInv, UNCHANGED <<seq, burned, applied, burnOf, tab>>
    PROVE  BurnIInv'
  <1>1. WalletTypeOK'
    BY DEF BurnIInv, WalletTypeOK
  <1> QED
    BY <1>1, QuietStep

\* The steps of a tab.
LEMMA DialogStep ==
    ASSUME BurnIInv, NEW t \in Tab,
           \/ \E o \in Deposit : markAsPaid(t, o) \/ handleFinalize(t, o)
           \/ \E o \in Withdrawal : handleWithdraw(t, o)
           \/ MarkAsPaidStore(t) \/ runOnChainDeposit(t) \/ withdraw(t) \/ DialogFails(t)
    PROVE  BurnIInv'
  <1>0. WalletTypeOK
    BY DEF BurnIInv
  <1>1. ASSUME Close(t), UNCHANGED <<seq, burned, applied, burnOf>> PROVE BurnIInv'
    BY <1>0, <1>1, CloseMoves, TabStep
  <1>2. ASSUME NEW o \in Deposit, markAsPaid(t, o) PROVE BurnIInv'
    <2>1. Open(t, "notify", o, "store") /\ UNCHANGED <<seq, burned, applied, burnOf>> /\ o \in Transaction
      BY <1>2 DEF markAsPaid, walletVars, Transaction
    <2>2. /\ tab' \in [Tab -> {Closed} \cup Session]
          /\ \A u \in Tab : u # t => tab'[u] = tab[u]
          /\ tab'[t].pc \notin Burnt
      BY <1>0, <2>1, OpenMoves DEF Dialog, Step, Burnt
    <2> QED
      BY <2>1, <2>2, TabStep
  <1>3. ASSUME NEW o \in Deposit, handleFinalize(t, o) PROVE BurnIInv'
    <2>1. Open(t, "finalize", o, "approve") /\ UNCHANGED <<seq, burned, applied, burnOf>> /\ o \in Transaction
      BY <1>3 DEF handleFinalize, walletVars, Transaction
    <2>2. /\ tab' \in [Tab -> {Closed} \cup Session]
          /\ \A u \in Tab : u # t => tab'[u] = tab[u]
          /\ tab'[t].pc \notin Burnt
      BY <1>0, <2>1, OpenMoves DEF Dialog, Step, Burnt
    <2> QED
      BY <2>1, <2>2, TabStep
  <1>4. ASSUME NEW o \in Withdrawal, handleWithdraw(t, o) PROVE BurnIInv'
    <2>1. Open(t, "withdraw", o, "burn") /\ UNCHANGED <<seq, burned, applied, burnOf>> /\ o \in Transaction
      BY <1>4 DEF handleWithdraw, walletVars, Transaction
    <2>2. /\ tab' \in [Tab -> {Closed} \cup Session]
          /\ \A u \in Tab : u # t => tab'[u] = tab[u]
          /\ tab'[t].pc \notin Burnt
      BY <1>0, <2>1, OpenMoves DEF Dialog, Step, Burnt
    <2> QED
      BY <2>1, <2>2, TabStep
  <1>5. CASE MarkAsPaidStore(t)
    BY <1>1, <1>5 DEF MarkAsPaidStore, walletVars
  <1>6. CASE DialogFails(t)
    BY <1>1, <1>6 DEF DialogFails, walletVars
  <1>7. ASSUME NEW kind, SubmitGivenUp(t, kind) PROVE BurnIInv'
    BY <1>1, <1>7 DEF SubmitGivenUp
  <1>8. CASE runOnChainDeposit(t)
    <2>1. CASE Stage(t, "finalize", "approve", "deposit_build", "deposit_build")
      <3>1. ASSUME submitSignedTx(t, "finalize", "approve", "deposit_build") PROVE BurnIInv'
        BY <3>1, SubmitStep DEF Dialog, Step
      <3>2. ASSUME submitDuplicate(t, "finalize", "approve", "deposit_build") PROVE BurnIInv'
        BY <3>2, DuplicateStep DEF Dialog, Step
      <3> QED
        BY <2>1, <3>1, <3>2, <1>7 DEF Stage
    <2>2. CASE Stage(t, "finalize", "deposit", "completed_store", "completed_store")
      <3>1. ASSUME submitSignedTx(t, "finalize", "deposit", "completed_store") PROVE BurnIInv'
        BY <3>1, SubmitStep DEF Dialog, Step
      <3>2. ASSUME submitDuplicate(t, "finalize", "deposit", "completed_store") PROVE BurnIInv'
        BY <3>2, DuplicateStep DEF Dialog, Step
      <3> QED
        BY <2>2, <3>1, <3>2, <1>7 DEF Stage
    <2>3. CASE CompletedStore(t)
      BY <1>1, <2>3 DEF CompletedStore, walletVars
    <2>4. CASE submitDepositStage(t)
      <3>1. tab[t].dialog # "closed" /\ Goto(t, "deposit") /\ UNCHANGED <<seq, burned, applied, burnOf>>
        BY <2>4 DEF submitDepositStage, At, walletVars
      <3>2. /\ tab' \in [Tab -> {Closed} \cup Session]
            /\ \A u \in Tab : u # t => tab'[u] = tab[u]
            /\ tab'[t].pc = "deposit"
        BY <1>0, <3>1, GotoMoves DEF Step
      <3> QED
        BY <3>1, <3>2, TabStep DEF Burnt
    <2>5. CASE buildDepositStage(t)
      <3>1. /\ tab[t].dialog = "finalize" /\ UNCHANGED <<seq, burned, applied, burnOf>>
            /\ tab' = [tab EXCEPT ![t].pc = "deposit_submit", ![t].seq = seq]
        BY <2>5 DEF buildDepositStage, At, walletVars
      <3>2. tab[t] \in Session
        BY <1>0, <3>1 DEF WalletTypeOK, Closed
      <3>3. [tab[t] EXCEPT !.pc = "deposit_submit", !.seq = seq] \in Session
        <4>1. [tab[t] EXCEPT !.pc = "deposit_submit"] \in Session
          BY <3>2 DEF Session, Step
        <4>2. seq \in Nat
          BY <1>0 DEF WalletTypeOK
        <4> QED
          BY <4>1, <4>2 DEF Session
      <3>4. /\ tab' \in [Tab -> {Closed} \cup Session]
            /\ \A u \in Tab : u # t => tab'[u] = tab[u]
            /\ tab'[t].pc \notin Burnt
        BY <1>0, <3>1, <3>2, <3>3 DEF WalletTypeOK, Session, Burnt
      <3> QED
        BY <3>1, <3>4, TabStep
    <2> QED
      BY <1>8, <2>1, <2>2, <2>3, <2>4, <2>5 DEF runOnChainDeposit
  <1>9. CASE withdraw(t)
    <2>1. CASE Stage(t, "withdraw", "burn", "confirmed", "duplicate")
      <3>1. ASSUME submitSignedTx(t, "withdraw", "burn", "confirmed") PROVE BurnIInv'
        BY <3>1, SubmitStep DEF Dialog, Step, Burnt
      <3>2. ASSUME submitDuplicate(t, "withdraw", "burn", "duplicate") PROVE BurnIInv'
        BY <3>2, DuplicateStep DEF Dialog, Step, Burnt
      <3> QED
        BY <2>1, <3>1, <3>2, <1>7 DEF Stage
    <2>2. CASE \E from \in Burnt : submitWithdrawal(t, from)
      BY <2>2, SubmittedRow
    <2> QED
      BY <1>9, <2>1, <2>2 DEF withdraw, Burnt
  <1> QED
    BY <1>2, <1>3, <1>4, <1>5, <1>6, <1>8, <1>9

\* Every step keeps the invariant.
LEMMA BurnNext ==
    ASSUME BurnIInv, [Next]_vars
    PROVE  BurnIInv'
  <1>1. ASSUME NEW o \in Deposit, NewDeposit(o) \/ \E s \in DepositOutcomes : Receive(o, s)
        PROVE  BurnIInv'
    BY <1>1, UntouchedStep DEF NewDeposit, Receive, walletVars
  <1>2. ASSUME NEW cb, Handle(cb) PROVE BurnIInv'
    BY <1>2, UntouchedStep DEF Handle
  <1>3. ASSUME NEW p \in Operator,
               \/ \E o \in Deposit, decision \in {"APPROVED", "REJECTED"} : approveTransaction(p, o, decision)
               \/ RejectStore(p) \/ ApproveMint(p) \/ ApproveStore(p) \/ ApproveFails(p)
        PROVE  BurnIInv'
    BY <1>3, UntouchedStep
       DEF approveTransaction, RejectStore, ApproveMint, ApproveStore, ApproveFails, walletVars
  <1>4. CASE UNCHANGED vars
    BY <1>4, UntouchedStep DEF vars, walletVars
  <1>5. CASE Next
    BY <1>1, <1>2, <1>3, <1>5, DialogStep, LateStep, CallerRow DEF Next
  <1> QED
    BY <1>4, <1>5

\* No burn confirmed to its own request pays for two withdrawals, and no withdrawal
\* of a dialog names a burn that was not applied (submitWithdrawal stores the hash
\* of the burn it waited for), whatever the tabs do, however often a request is
\* posted and however late the wallet's transactions are applied.
THEOREM BurnPaysOnce == Spec => []BurnPerWithdrawal
  <1>1. Init => BurnIInv
    BY DEF Init, BurnIInv, WalletTypeOK, AppliedOK, atOrder, atDuplicate, At, Closed, BurnPerWithdrawal
  <1>2. BurnIInv /\ [Next]_vars => BurnIInv'
    BY BurnNext
  <1>3. BurnIInv => BurnPerWithdrawal
    BY DEF BurnIInv
  <1> QED
    BY <1>1, <1>2, <1>3, PTL DEF Spec


----------------------------------------------------------------------------
(* Rows, mints and the balance of the wallet.                              *)

TransactionStatus == {"NONE", "PENDING_PAYMENT", "PAYMENT_SUBMITTED", "PROCESSING",
                      "APPROVED", "REJECTED", "COMPLETED", "FAILED", "EXPIRED"}

CallbackType == [id : Deposit \X DepositOutcomes \X Nat,
                 order : Deposit, status : DepositOutcomes]

\* A callback whose event is on record, under an id of its own.
Known(cb) == cb.id \in webhookEvent /\ cb.id[1] = cb.order /\ cb.id[2] = cb.status

logged(d) == {i \in DOMAIN mintLog : mintLog[i].order = d}

\* Each event is handled by one handler, which mints once; whoever waits for
\* the mint is not yet in the log, and whoever has minted is.
RecordsOK ==
    /\ IsFiniteSet(webhookEvent)
    /\ mintLog \in Seq(CallbackType)
    /\ handling \subseteq [callback : CallbackType, pc : {"persisted", "minted"}]
    /\ \A h \in handling : Known(h.callback) /\ (h.pc = "minted" => logged(h.callback.order) # {})
    /\ \A h, k \in handling : h.callback.id = k.callback.id => h = k
    /\ \A i \in DOMAIN mintLog : Known(mintLog[i]) /\ mintLog[i].status = "CONFIRMED"
    /\ \A h \in handling, i \in DOMAIN mintLog : h.pc = "persisted" => mintLog[i].id # h.callback.id
    /\ \A i, j \in DOMAIN mintLog : mintLog[i].id = mintLog[j].id => i = j

Approval == [op : {"mint", "store", "reject"}, o : Deposit]

\* Operators who have approved d and are about to mint for it.
minting(d) == {p \in Operator : operator[p].op = "mint" /\ operator[p].o = d}

\* Every approval is used once: by a mint, or by an operator who is to mint.
OperatorsOK ==
    /\ operator \in [Operator -> {Free} \cup Approval]
    /\ operatorMints \in [Deposit -> Nat] /\ approvals \in [Deposit -> Nat]
    /\ \A p \in Operator : operator[p].op = "store" => operatorMints[operator[p].o] > 0
    /\ \A d \in Deposit : /\ IsFiniteSet(minting(d))
                          /\ operatorMints[d] + Cardinality(minting(d)) <= approvals[d]

hasMint(d) == logged(d) # {} \/ operatorMints[d] > 0

\* A dialog that finalizes started from an approved row, and goes on to
\* COMPLETED only when the deposit was applied.
DialogOK(k) ==
    /\ k.dialog = "notify" => k.o \in Deposit
    /\ k.dialog = "finalize" => k.o \in Deposit /\ hasMint(k.o) /\ k.pc # "burn"
    /\ k.dialog = "finalize" /\ k.pc = "completed_store" => pooled[k.o] > 0
    /\ k.dialog = "withdraw" => k.o \in Withdrawal /\ k.pc \in {"burn", "confirmed", "duplicate"}
    /\ k.dialog = "notify" => k.pc = "store"

\* What the rows say is on the chain.
RowsOK ==
    /\ transaction \in [Transaction -> TransactionStatus]
    /\ pooled \in [Deposit -> Nat]
    /\ \A t \in Tab : DialogOK(tab[t])
    /\ \A tx \in late : tx.kind = "deposit" => tx.o \in Deposit
    /\ \A tx \in applied : tx.kind = "deposit" => tx.o \in Deposit /\ pooled[tx.o] > 0
    /\ \A d \in Deposit :
          /\ transaction[d] \in {"APPROVED", "COMPLETED"} => hasMint(d)
          /\ transaction[d] = "COMPLETED" => pooled[d] > 0

mints_of == [d \in Deposit |-> minted(d)]

\* The wallet holds what was minted less what was pooled and burned.
BalanceOK ==
    /\ brlt \in Nat /\ seq <= MaxSeq + 1
    /\ burned \subseteq 1..MaxSeq
    /\ brlt + total(pooled) + Cardinality(burned) = total(mints_of)

BooksOK == RecordsOK /\ OperatorsOK /\ RowsOK /\ BalanceOK

TransactionsInv == BurnIInv /\ BooksOK


----------------------------------------------------------------------------
(* Counting mints.                                                         *)

\* The mints of a deposit can be counted.
LEMMA LoggedFinite ==
    ASSUME mintLog \in Seq(CallbackType), NEW d
    PROVE  /\ IsFiniteSet(logged(d)) /\ Cardinality(logged(d)) \in Nat
           /\ logged(d) # {} <=> Cardinality(logged(d)) > 0
  <1>1. IsFiniteSet(1..Len(mintLog))
    BY FS_Interval
  <1>2. logged(d) \subseteq 1..Len(mintLog)
    BY DEF logged
  <1> HIDE DEF logged
  <1>3. IsFiniteSet(logged(d))
    BY <1>1, <1>2, FS_Subset
  <1> QED
    BY <1>3, FS_CardinalityType, FS_EmptySet

\* A mint is counted for the deposit it is for.
LEMMA LogGrows ==
    ASSUME mintLog \in Seq(CallbackType), NEW cb \in CallbackType, mintLog' = Append(mintLog, cb), NEW d
    PROVE  /\ logged(d) \subseteq logged(d)'
           /\ Cardinality(logged(d)') = Cardinality(logged(d)) + (IF cb.order = d THEN 1 ELSE 0)
  <1> DEFINE n == Len(mintLog) + 1
  <1>1. /\ DOMAIN mintLog' = DOMAIN mintLog \cup {n} /\ n \notin DOMAIN mintLog
        /\ mintLog'[n] = cb /\ \A i \in DOMAIN mintLog : mintLog'[i] = mintLog[i]
    OBVIOUS
  <1>2. n \notin logged(d)
    BY <1>1 DEF logged
  <1> HIDE DEF n
  <1>3. CASE cb.order = d
    <2>1. logged(d)' = logged(d) \cup {n}
      BY <1>1, <1>3 DEF logged
    <2> QED
      BY <1>2, <1>3, <2>1, LoggedFinite, FS_AddElement
  <1>4. CASE cb.order # d
    <2>1. logged(d)' = logged(d)
      BY <1>1, <1>4 DEF logged
    <2> QED
      BY <1>4, <2>1, LoggedFinite
  <1> QED
    BY <1>3, <1>4

\* What was minted for a deposit: by callbacks, and by operators.
LEMMA MintedType ==
    ASSUME mintLog \in Seq(CallbackType), operatorMints \in [Deposit -> Nat], NEW d \in Deposit
    PROVE  /\ minted(d) = Cardinality(logged(d)) + operatorMints[d] /\ minted(d) \in Nat
           /\ hasMint(d) <=> minted(d) > 0
  <1>1. minted(d) = Cardinality(logged(d)) + operatorMints[d]
    BY DEF minted, logged
  <1>2. /\ Cardinality(logged(d)) \in Nat /\ operatorMints[d] \in Nat
        /\ logged(d) # {} <=> Cardinality(logged(d)) > 0
    BY LoggedFinite
  <1> QED
    BY <1>1, <1>2 DEF hasMint

\* The mints of all deposits have a sum.
LEMMA MintsType ==
    ASSUME mintLog \in Seq(CallbackType), operatorMints \in [Deposit -> Nat]
    PROVE  mints_of \in [Deposit -> Nat] /\ total(mints_of) \in Nat
  <1>1. mints_of \in [Deposit -> Nat]
    BY MintedType DEF mints_of
  <1> QED
    BY <1>1, TotalType, TransactionsAssumption

\* One mint more, whoever made it.
LEMMA MintsGrow ==
    ASSUME mintLog \in Seq(CallbackType), operatorMints \in [Deposit -> Nat],
           NEW o \in Deposit, minted(o)' = minted(o) + 1,
           \A d \in Deposit : d # o => minted(d)' = minted(d)
    PROVE  total(mints_of') = total(mints_of) + 1
  <1>1. mints_of \in [Deposit -> Nat] /\ mints_of' \in [Deposit -> Nat]
    <2>1. \A d \in Deposit : minted(d) \in Nat
      BY MintedType
    <2>2. \A d \in Deposit : minted(d)' \in Nat
      <3>1. minted(o)' \in Nat
        BY <2>1
      <3>2. \A d \in Deposit : d # o => minted(d)' \in Nat
        BY <2>1
      <3> QED
        BY <3>1, <3>2
    <2> QED
      BY <2>1, <2>2 DEF mints_of
  <1>2. mints_of'[o] = mints_of[o] + 1 /\ \A d \in Deposit : d # o => mints_of'[d] = mints_of[d]
    BY DEF mints_of
  <1>3. PICK f \in [Deposit -> Nat] : f = mints_of
    BY <1>1
  <1>4. PICK g \in [Deposit -> Nat] : g = mints_of'
    BY <1>1
  <1>5. g = [f EXCEPT ![o] = @ + 1]
    BY <1>2, <1>3, <1>4
  <1>6. IsFiniteSet(Deposit)
    BY TransactionsAssumption
  <1>7. total([f EXCEPT ![o] = @ + 1]) = total(f) + 1
    BY <1>6, TotalAddOne
  <1> QED
    BY <1>3, <1>4, <1>5, <1>7

\* Nothing is minted.
LEMMA MintsKept ==
    ASSUME UNCHANGED <<mintLog, operatorMints>>
    PROVE  mints_of' = mints_of /\ \A d : hasMint(d)' <=> hasMint(d)
  BY DEF mints_of, minted, hasMint, logged


----------------------------------------------------------------------------
(* Callbacks and their mints.                                              *)

\* A new event is handled by one handler, which has not minted.
LEMMA ReceiveRecords ==
    ASSUME RecordsOK, NEW o \in Deposit, NEW s \in DepositOutcomes, Receive(o, s)
    PROVE  RecordsOK'
  <1>0. PICK n \in Nat : n = Cardinality(webhookEvent)
    BY FS_CardinalityType DEF RecordsOK
  <1> DEFINE cb == [id |-> <<o, s, n>>, order |-> o, status |-> s]
             new == [callback |-> cb, pc |-> "persisted"]
  <1>1. /\ cb \in CallbackType /\ cb.id = <<o, s, n>> /\ cb.order = o /\ cb.status = s
        /\ cb.id[1] = cb.order /\ cb.id[2] = cb.status
    BY DEF CallbackType
  <1>2. cb.id \notin webhookEvent /\ webhookEvent' = webhookEvent \cup {cb.id} /\ mintLog' = mintLog
    BY <1>0 DEF Receive, persistEvent, seen
  <1>3. handling' = handling \cup {new}
    BY <1>0 DEF Receive, persistEvent
  <1> HIDE DEF cb
  <1>4. new \in [callback : CallbackType, pc : {"persisted", "minted"}] /\ new.callback = cb /\ new.pc = "persisted"
    BY <1>1
  <1> HIDE DEF new
  <1>5. IsFiniteSet(webhookEvent')
    BY <1>2, FS_AddElement DEF RecordsOK
  <1>6. \A c : Known(c) => Known(c)'
    BY <1>2 DEF Known
  <1>7. Known(cb)'
    BY <1>1, <1>2 DEF Known
  <1>8. \A d : logged(d)' = logged(d)
    BY <1>2 DEF logged
  <1>9. \A h \in handling : h.callback.id # cb.id
    BY <1>2 DEF RecordsOK, Known
  <1>10. \A i \in DOMAIN mintLog : mintLog[i].id # cb.id
    BY <1>2 DEF RecordsOK, Known
  <1>11. handling' \subseteq [callback : CallbackType, pc : {"persisted", "minted"}]
    BY <1>3, <1>4 DEF RecordsOK
  <1>12. \A h \in handling' : Known(h.callback)' /\ (h.pc = "minted" => logged(h.callback.order)' # {})
    <2>1. \A h \in handling : Known(h.callback)' /\ (h.pc = "minted" => logged(h.callback.order)' # {})
      BY <1>6, <1>8 DEF RecordsOK
    <2> QED
      BY <1>3, <1>4, <1>7, <2>1
  <1>13. \A h, k \in handling' : h.callback.id = k.callback.id => h = k
    BY <1>3, <1>4, <1>9 DEF RecordsOK
  <1>14. \A i \in DOMAIN mintLog' : Known(mintLog[i])' /\ mintLog'[i].status = "CONFIRMED"
    BY <1>2 DEF RecordsOK, Known
  <1>15. \A h \in handling', i \in DOMAIN mintLog' : h.pc = "persisted" => mintLog'[i].id # h.callback.id
    BY <1>2, <1>3, <1>4, <1>10 DEF RecordsOK
  <1> QED
    BY <1>2, <1>5, <1>11, <1>12, <1>13, <1>14, <1>15 DEF RecordsOK

\* A handler ends.
LEMMA EndRecords ==
    ASSUME RecordsOK, handling' \subseteq handling, UNCHANGED <<webhookEvent, mintLog>>
    PROVE  RecordsOK'
  BY DEF RecordsOK, Known, logged

\* The mint of a callback, and what it adds to the log.
LEMMA MintRecords ==
    ASSUME RecordsOK, NEW cb, mintBrlt(cb)
    PROVE  /\ RecordsOK'
           /\ cb \in CallbackType /\ cb.order \in Deposit /\ mintLog' = Append(mintLog, cb)
  <1> DEFINE old == [callback |-> cb, pc |-> "persisted"]
             new == [callback |-> cb, pc |-> "minted"]
  <1>0. PICK n \in Nat : n = Len(mintLog) + 1
    BY DEF RecordsOK
  <1>1. old \in handling /\ cb.status = "CONFIRMED" /\ old.callback = cb /\ old.pc = "persisted"
    BY DEF mintBrlt, at, mints
  <1>2. /\ handling' = (handling \ {old}) \cup {new} /\ mintLog' = Append(mintLog, cb)
        /\ webhookEvent' = webhookEvent
    BY DEF mintBrlt
  <1>3. cb \in CallbackType /\ cb.order \in Deposit /\ Known(cb)
    <2>1. old.callback \in CallbackType /\ Known(old.callback)
      BY <1>1 DEF RecordsOK
    <2> QED
      BY <1>1, <2>1 DEF CallbackType
  <1>4. new \in [callback : CallbackType, pc : {"persisted", "minted"}] /\ new.callback = cb /\ new.pc = "minted"
    BY <1>3
  <1> HIDE DEF old, new
  <1>5. /\ DOMAIN mintLog' = DOMAIN mintLog \cup {n} /\ n \notin DOMAIN mintLog
        /\ mintLog'[n] = cb /\ \A i \in DOMAIN mintLog : mintLog'[i] = mintLog[i]
        /\ mintLog' \in Seq(CallbackType)
    BY <1>0, <1>2, <1>3 DEF RecordsOK
  <1>6. \A c : Known(c)' <=> Known(c)
    BY <1>2 DEF Known
  <1>7. \A d : logged(d) \subseteq logged(d)'
    BY <1>5 DEF logged
  <1>8. logged(cb.order)' # {}
    BY <1>5 DEF logged
  <1>9. \A i \in DOMAIN mintLog : mintLog[i].id # cb.id
    BY <1>1 DEF RecordsOK
  <1>10. \A h \in handling : h # old => h.callback.id # cb.id
    BY <1>1 DEF RecordsOK
  <1>11. handling' \subseteq [callback : CallbackType, pc : {"persisted", "minted"}]
    BY <1>2, <1>4 DEF RecordsOK
  <1>12. \A h \in handling' : Known(h.callback)' /\ (h.pc = "minted" => logged(h.callback.order)' # {})
    <2>1. \A h \in handling : Known(h.callback)' /\ (h.pc = "minted" => logged(h.callback.order)' # {})
      BY <1>6, <1>7 DEF RecordsOK
    <2>2. Known(new.callback)' /\ logged(new.callback.order)' # {}
      BY <1>3, <1>4, <1>6, <1>8
    <2> QED
      BY <1>2, <2>1, <2>2
  <1>13. \A h, k \in handling' : h.callback.id = k.callback.id => h = k
    BY <1>2, <1>4, <1>10 DEF RecordsOK
  <1>14. \A i \in DOMAIN mintLog' : Known(mintLog[i])' /\ mintLog'[i].status = "CONFIRMED"
    <2>1. \A i \in DOMAIN mintLog : Known(mintLog[i])' /\ mintLog'[i].status = "CONFIRMED"
      BY <1>2, <1>5 DEF RecordsOK, Known
    <2>2. Known(mintLog[n])' /\ mintLog'[n].status = "CONFIRMED"
      BY <1>1, <1>2, <1>3, <1>5 DEF Known
    <2> QED
      BY <1>5, <2>1, <2>2
  <1>15. \A h \in handling', i \in DOMAIN mintLog' : h.pc = "persisted" => mintLog'[i].id # h.callback.id
    BY <1>2, <1>4, <1>5, <1>10 DEF RecordsOK
  <1>16. \A i, j \in DOMAIN mintLog' : mintLog'[i].id = mintLog'[j].id => i = j
    BY <1>5, <1>9 DEF RecordsOK
  <1>17. RecordsOK'
    <2>1. IsFiniteSet(webhookEvent')
      BY <1>2 DEF RecordsOK
    <2> QED
      BY <2>1, <1>5, <1>11, <1>12, <1>13, <1>14, <1>15, <1>16 DEF RecordsOK
  <1> QED
    BY <1>2, <1>3, <1>17


----------------------------------------------------------------------------
(* Operators and their mints.                                              *)

\* One operator goes on to k: who is about to mint is counted anew.
LEMMA MintingCount ==
    ASSUME OperatorsOK, NEW p \in Operator, NEW k \in {Free} \cup Approval,
           operator' = [operator EXCEPT ![p] = k], NEW d \in Deposit
    PROVE  /\ IsFiniteSet(minting(d)') /\ Cardinality(minting(d)) \in Nat
           /\ Cardinality(minting(d)') =
                 Cardinality(minting(d)) - (IF p \in minting(d) THEN 1 ELSE 0)
                                         + (IF k.op = "mint" /\ k.o = d THEN 1 ELSE 0)
  <1>1. PICK M : M = minting(d)
    OBVIOUS
  <1>2. IsFiniteSet(M) /\ Cardinality(M) \in Nat
    BY <1>1, FS_CardinalityType DEF OperatorsOK
  <1>3. /\ operator'[p] = k /\ \A q \in Operator : q # p => operator'[q] = operator[q]
    BY DEF OperatorsOK
  <1>4. IsFiniteSet(M \ {p}) /\ Cardinality(M \ {p}) = Cardinality(M) - (IF p \in M THEN 1 ELSE 0)
    BY <1>2, FS_RemoveElement
  <1>5. CASE k.op = "mint" /\ k.o = d
    <2>1. minting(d)' = (M \ {p}) \cup {p}
      BY <1>1, <1>3, <1>5 DEF minting
    <2>2. IsFiniteSet((M \ {p}) \cup {p}) /\ Cardinality((M \ {p}) \cup {p}) = Cardinality(M \ {p}) + 1
      BY <1>4, FS_AddElement
    <2> QED
      BY <1>1, <1>2, <1>4, <1>5, <2>1, <2>2
  <1>6. CASE ~(k.op = "mint" /\ k.o = d)
    <2>1. minting(d)' = M \ {p}
      BY <1>1, <1>3, <1>6 DEF minting
    <2> QED
      BY <1>1, <1>2, <1>4, <1>6, <2>1
  <1> QED
    BY <1>5, <1>6

\* A step of one operator: what it takes from those about to mint, it mints.
LEMMA OperatorStep ==
    ASSUME OperatorsOK, NEW p \in Operator, NEW k \in {Free} \cup Approval,
           operator' = [operator EXCEPT ![p] = k],
           operatorMints' \in [Deposit -> Nat], approvals' \in [Deposit -> Nat],
           \A d \in Deposit : operatorMints[d] <= operatorMints'[d],
           k.op = "store" => operatorMints'[k.o] > 0,
           \A d \in Deposit :
              operatorMints'[d] - operatorMints[d] + (IF k.op = "mint" /\ k.o = d THEN 1 ELSE 0)
                 <= approvals'[d] - approvals[d] + (IF p \in minting(d) THEN 1 ELSE 0)
    PROVE  OperatorsOK'
  <1>1. /\ operator' \in [Operator -> {Free} \cup Approval]
        /\ operator'[p] = k /\ \A q \in Operator : q # p => operator'[q] = operator[q]
    BY DEF OperatorsOK
  <1>2. ASSUME NEW q \in Operator, operator'[q].op = "store" PROVE operatorMints'[operator'[q].o] > 0
    <2>1. CASE q = p
      BY <1>1, <1>2, <2>1
    <2>2. CASE q # p
      <3>1. operator'[q] = operator[q] /\ operator[q] \in {Free} \cup Approval
        BY <1>1, <2>2 DEF OperatorsOK
      <3>2. operator[q] \in Approval
        BY <1>2, <3>1 DEF Free
      <3>3. operator[q].o \in Deposit
        BY <3>2 DEF Approval
      <3>4. operatorMints[operator[q].o] > 0
        BY <1>2, <3>1 DEF OperatorsOK
      <3> QED
        BY <3>1, <3>3, <3>4 DEF OperatorsOK
    <2> QED
      BY <2>1, <2>2
  <1>3. ASSUME NEW d \in Deposit
        PROVE  IsFiniteSet(minting(d)') /\ operatorMints'[d] + Cardinality(minting(d)') <= approvals'[d]
    <2>1. /\ IsFiniteSet(minting(d)') /\ Cardinality(minting(d)) \in Nat
          /\ Cardinality(minting(d)') =
                Cardinality(minting(d)) - (IF p \in minting(d) THEN 1 ELSE 0)
                                        + (IF k.op = "mint" /\ k.o = d THEN 1 ELSE 0)
      BY MintingCount
    <2>2. /\ operatorMints[d] \in Nat /\ approvals[d] \in Nat
          /\ operatorMints'[d] \in Nat /\ approvals'[d] \in Nat
          /\ operatorMints[d] + Cardinality(minting(d)) <= approvals[d]
      BY DEF OperatorsOK
    <2>3. operatorMints'[d] - operatorMints[d] + (IF k.op = "mint" /\ k.o = d THEN 1 ELSE 0)
             <= approvals'[d] - approvals[d] + (IF p \in minting(d) THEN 1 ELSE 0)
      OBVIOUS
    <2> QED
      BY <2>1, <2>2, <2>3
  <1> QED
    BY <1>1, <1>2, <1>3 DEF OperatorsOK

\* An operator whose request ends.
LEMMA FreeOperators ==
    ASSUME OperatorsOK, NEW p \in Operator, operator' = [operator EXCEPT ![p] = Free],
           UNCHANGED <<operatorMints, approvals>>
    PROVE  OperatorsOK'
  <1>1. Free.op = "free"
    BY DEF Free
  <1>2. \A d \in Deposit :
           operatorMints'[d] - operatorMints[d] + (IF Free.op = "mint" /\ Free.o = d THEN 1 ELSE 0)
              <= approvals'[d] - approvals[d] + (IF p \in minting(d) THEN 1 ELSE 0)
    BY <1>1 DEF OperatorsOK
  <1>3. /\ operatorMints' \in [Deposit -> Nat] /\ approvals' \in [Deposit -> Nat]
        /\ \A d \in Deposit : operatorMints[d] <= operatorMints'[d]
    BY DEF OperatorsOK
  <1> QED
    BY <1>1, <1>2, <1>3, OperatorStep

\* An approval allows one mint more.
LEMMA ApproveOperators ==
    ASSUME OperatorsOK, NEW p \in Operator, NEW o \in Deposit, NEW decision \in {"APPROVED", "REJECTED"},
           approveTransaction(p, o, decision)
    PROVE  OperatorsOK'
  <1> DEFINE k == [op |-> IF decision = "APPROVED" THEN "mint" ELSE "reject", o |-> o]
  <1>1. /\ k \in Approval /\ k.o = o /\ k.op \in {"mint", "reject"}
        /\ k.op = "mint" <=> decision = "APPROVED"
    BY DEF Approval
  <1>2. /\ operator' = [operator EXCEPT ![p] = k] /\ operatorMints' = operatorMints
        /\ approvals' = [approvals EXCEPT ![o] = @ + (IF decision = "APPROVED" THEN 1 ELSE 0)]
        /\ operator[p] = Free
    BY DEF approveTransaction
  <1> HIDE DEF k
  <1>3. /\ operatorMints' \in [Deposit -> Nat] /\ approvals' \in [Deposit -> Nat]
        /\ \A d \in Deposit : operatorMints[d] <= operatorMints'[d]
    BY <1>2 DEF OperatorsOK
  <1>4. \A d \in Deposit : p \notin minting(d)
    BY <1>2 DEF minting, Free
  <1>5. ASSUME NEW d \in Deposit
        PROVE  operatorMints'[d] - operatorMints[d] + (IF k.op = "mint" /\ k.o = d THEN 1 ELSE 0)
                  <= approvals'[d] - approvals[d] + (IF p \in minting(d) THEN 1 ELSE 0)
    <2>1. approvals'[d] = approvals[d] + (IF decision = "APPROVED" /\ d = o THEN 1 ELSE 0)
      BY <1>2 DEF OperatorsOK
    <2>2. operatorMints[d] \in Nat /\ approvals[d] \in Nat
      BY DEF OperatorsOK
    <2> QED
      BY <1>1, <1>2, <1>4, <2>1, <2>2
  <1> QED
    BY <1>1, <1>2, <1>3, <1>5, OperatorStep

\* The mint of an operator uses up an approval.
LEMMA MintOperators ==
    ASSUME OperatorsOK, NEW p \in Operator, ApproveMint(p)
    PROVE  /\ OperatorsOK'
           /\ operator[p].o \in Deposit /\ operatorMints' = [operatorMints EXCEPT ![operator[p].o] = @ + 1]
  <1>1. /\ operator[p].op = "mint" /\ operator' = [operator EXCEPT ![p].op = "store"]
        /\ operatorMints' = [operatorMints EXCEPT ![operator[p].o] = @ + 1] /\ approvals' = approvals
    BY DEF ApproveMint
  <1>2. operator[p] \in Approval
    BY <1>1 DEF OperatorsOK, Free
  <1>3. PICK o \in Deposit : o = operator[p].o
    BY <1>2 DEF Approval
  <1>4. PICK k \in Approval : k = [op |-> "store", o |-> o]
    BY DEF Approval
  <1>5. operator' = [operator EXCEPT ![p] = k]
    <2>1. [operator[p] EXCEPT !.op = "store"] = k
      BY <1>2, <1>3, <1>4 DEF Approval
    <2> QED
      BY <1>1, <2>1
  <1>6. k.op = "store" /\ k.o = o
    BY <1>4
  <1>7. /\ operatorMints' \in [Deposit -> Nat] /\ approvals' \in [Deposit -> Nat]
        /\ \A d \in Deposit : operatorMints'[d] = operatorMints[d] + (IF d = o THEN 1 ELSE 0)
    BY <1>1, <1>3 DEF OperatorsOK
  <1>8. \A d \in Deposit : p \in minting(d) <=> d = o
    BY <1>1, <1>3 DEF minting
  <1>9. /\ \A d \in Deposit : operatorMints[d] <= operatorMints'[d]
        /\ operatorMints'[k.o] > 0
        /\ \A d \in Deposit :
              operatorMints'[d] - operatorMints[d] + (IF k.op = "mint" /\ k.o = d THEN 1 ELSE 0)
                 <= approvals'[d] - approvals[d] + (IF p \in minting(d) THEN 1 ELSE 0)
    BY <1>1, <1>6, <1>7, <1>8 DEF OperatorsOK
  <1>10. OperatorsOK'
    BY <1>5, <1>6, <1>7, <1>9, OperatorStep
  <1> QED
    BY <1>1, <1>3, <1>10


----------------------------------------------------------------------------
(* The wallet, the rows and the dialogs.                                   *)

\* Nothing happens to the wallet.
LEMMA BalanceKept ==
    ASSUME BalanceOK, UNCHANGED <<brlt, seq, pooled, burned, mintLog, operatorMints>>
    PROVE  BalanceOK'
  BY MintsKept DEF BalanceOK

\* One mint more is one unit more in the wallet.
LEMMA BalanceMinted ==
    ASSUME BalanceOK, RowsOK, mintLog \in Seq(CallbackType), operatorMints \in [Deposit -> Nat],
           NEW o \in Deposit, minted(o)' = minted(o) + 1,
           \A d \in Deposit : d # o => minted(d)' = minted(d),
           brlt' = brlt + 1, UNCHANGED <<seq, pooled, burned>>
    PROVE  BalanceOK'
  <1>1. total(mints_of') = total(mints_of) + 1
    BY MintsGrow
  <1>2. total(pooled) \in Nat /\ total(mints_of) \in Nat
    BY TotalType, MintsType, TransactionsAssumption DEF RowsOK
  <1>3. Cardinality(burned) \in Nat
    <2>1. MaxSeq \in Nat
      BY TransactionsAssumption
    <2>2. IsFiniteSet(1..MaxSeq)
      BY <2>1, FS_Interval
    <2> QED
      BY <2>2, FS_Subset, FS_CardinalityType DEF BalanceOK
  <1> QED
    BY <1>1, <1>2, <1>3 DEF BalanceOK

\* What a transaction of the wallet does to the balance and the pool.
LEMMA ApplyWallet ==
    ASSUME BurnIInv, RowsOK, BalanceOK, mintLog \in Seq(CallbackType), operatorMints \in [Deposit -> Nat],
           NEW tx, tx.kind = "deposit" => tx.o \in Deposit, Apply(tx), UNCHANGED <<mintLog, operatorMints>>
    PROVE  /\ BalanceOK'
           /\ pooled' \in [Deposit -> Nat] /\ \A d \in Deposit : pooled[d] <= pooled'[d]
           /\ tx.kind = "deposit" => pooled'[tx.o] > 0
  <1>0. MaxSeq \in Nat /\ IsFiniteSet(Deposit) /\ pooled \in [Deposit -> Nat]
    BY TransactionsAssumption DEF RowsOK
  <1>1. total(pooled) \in Nat /\ total(mints_of) \in Nat /\ total(mints_of') = total(mints_of)
    BY <1>0, TotalType, MintsType, MintsKept
  <1>2. IsFiniteSet(burned) /\ Cardinality(burned) \in Nat
    <2>1. IsFiniteSet(1..MaxSeq)
      BY <1>0, FS_Interval
    <2> QED
      BY <2>1, FS_Subset, FS_CardinalityType DEF BalanceOK
  <1>3. /\ tx.seq = seq /\ seq \in Nat \ {0} /\ seq <= MaxSeq /\ seq' = seq + 1 /\ seq \notin burned
    BY DEF Apply, applies, BurnIInv, WalletTypeOK
  <1>4. burned' \subseteq 1..MaxSeq /\ seq' <= MaxSeq + 1
    BY <1>0, <1>3 DEF Apply, BalanceOK
  <1>5. brlt \in Nat /\ brlt + total(pooled) + Cardinality(burned) = total(mints_of)
    BY DEF BalanceOK
  <1>6. CASE tx.kind = "deposit"
    <2>1. /\ brlt > 0 /\ brlt' = brlt - 1 /\ burned' = burned /\ tx.o \in Deposit
          /\ pooled' = [pooled EXCEPT ![tx.o] = @ + 1]
      BY <1>6 DEF Apply, applies, needsBalance
    <2>2. total([pooled EXCEPT ![tx.o] = @ + 1]) = total(pooled) + 1
      BY <1>0, <2>1, TotalAddOne
    <2>3. total(pooled') = total(pooled) + 1
      BY <2>1, <2>2
    <2>4. brlt' \in Nat /\ brlt' = brlt - 1 /\ Cardinality(burned') = Cardinality(burned)
      BY <1>5, <2>1
    <2>5. brlt' + total(pooled') + Cardinality(burned') = total(mints_of')
      BY <1>1, <1>2, <1>5, <2>3, <2>4
    <2>6. BalanceOK'
      BY <1>4, <2>4, <2>5 DEF BalanceOK
    <2> QED
      BY <1>0, <2>1, <2>6
  <1>7. CASE tx.kind = "burn"
    <2>1. brlt > 0 /\ brlt' = brlt - 1 /\ burned' = burned \cup {seq} /\ pooled' = pooled
      BY <1>3, <1>7 DEF Apply, applies, needsBalance
    <2>2. Cardinality(burned \cup {seq}) = Cardinality(burned) + 1
      BY <1>2, <1>3, FS_AddElement
    <2>3. BalanceOK'
      BY <1>1, <1>2, <1>4, <1>5, <2>1, <2>2 DEF BalanceOK
    <2> QED
      BY <1>0, <1>7, <2>1, <2>3
  <1>8. CASE tx.kind \notin {"deposit", "burn"}
    <2>1. brlt' = brlt /\ burned' = burned /\ pooled' = pooled
      BY <1>8 DEF Apply, needsBalance
    <2>2. BalanceOK'
      BY <1>1, <1>4, <1>5, <2>1 DEF BalanceOK
    <2> QED
      BY <1>0, <1>8, <2>1, <2>2
  <1> QED
    BY <1>6, <1>7, <1>8

\* Nothing that was minted or pooled is taken back, and what is new in the
\* rows, the dialogs and the transactions given up on is backed.
LEMMA RowsStep ==
    ASSUME RowsOK, \A d \in Deposit : hasMint(d) => hasMint(d)',
           pooled' \in [Deposit -> Nat], \A d \in Deposit : pooled[d] <= pooled'[d],
           transaction' \in [Transaction -> TransactionStatus],
           \A d \in Deposit :
              \/ transaction'[d] = transaction[d]
              \/ /\ transaction'[d] \in {"APPROVED", "COMPLETED"} => hasMint(d)'
                 /\ transaction'[d] = "COMPLETED" => pooled'[d] > 0,
           \A t \in Tab : tab'[t] = tab[t] \/ DialogOK(tab[t])',
           \A tx \in late' : tx \in late \/ (tx.kind = "deposit" => tx.o \in Deposit),
           \A tx \in applied' : tx \in applied
                              \/ (tx.kind = "deposit" => tx.o \in Deposit /\ pooled'[tx.o] > 0)
    PROVE  RowsOK'
  <1>1. ASSUME NEW d \in Deposit
        PROVE  /\ transaction'[d] \in {"APPROVED", "COMPLETED"} => hasMint(d)'
               /\ transaction'[d] = "COMPLETED" => pooled'[d] > 0
    BY DEF RowsOK
  <1>2. ASSUME NEW t \in Tab PROVE DialogOK(tab[t])'
    <2>1. CASE tab'[t] = tab[t]
      <3>1. DialogOK(tab[t])
        BY DEF RowsOK
      <3>2. PICK k : k = tab[t] /\ k = tab'[t]
        BY <2>1
      <3>3. k.dialog = "finalize" => k.o \in Deposit /\ hasMint(k.o)
        BY <3>1, <3>2 DEF DialogOK
      <3>4. k.dialog = "finalize" => hasMint(k.o)'
        BY <3>3
      <3>5. k.dialog = "finalize" /\ k.pc = "completed_store" => pooled'[k.o] > 0
        BY <3>1, <3>2, <3>3 DEF DialogOK, RowsOK
      <3>6. DialogOK(k)'
        BY <3>1, <3>2, <3>4, <3>5 DEF DialogOK
      <3> QED
        BY <3>2, <3>6
    <2> QED
      BY <2>1
  <1>3. \A tx \in late' : tx.kind = "deposit" => tx.o \in Deposit
    BY DEF RowsOK
  <1>4. \A tx \in applied' : tx.kind = "deposit" => tx.o \in Deposit /\ pooled'[tx.o] > 0
    BY DEF RowsOK
  <1> QED
    BY <1>1, <1>2, <1>3, <1>4 DEF RowsOK

\* Rows, dialogs, pool and late transactions are left alone.
LEMMA RowsKept ==
    ASSUME RowsOK, \A d \in Deposit : hasMint(d) => hasMint(d)', UNCHANGED <<transaction, pooled, tab, applied, late>>
    PROVE  RowsOK'
  <1>1. /\ pooled' \in [Deposit -> Nat] /\ \A d \in Deposit : pooled[d] <= pooled'[d]
        /\ transaction' \in [Transaction -> TransactionStatus]
    BY DEF RowsOK
  <1> QED
    BY <1>1, RowsStep

\* One row takes a status that the chain bears out.
LEMMA StatusRows ==
    ASSUME RowsOK, NEW o \in Transaction, NEW s \in TransactionStatus, setStatus(o, s),
           s \in {"APPROVED", "COMPLETED"} /\ o \in Deposit => hasMint(o),
           s = "COMPLETED" /\ o \in Deposit => pooled[o] > 0,
           UNCHANGED <<mintLog, operatorMints, pooled, applied, late>>,
           \A t \in Tab : tab'[t] = tab[t] \/ DialogOK(tab[t])'
    PROVE  RowsOK'
  <1>1. \A d \in Deposit : hasMint(d) <=> hasMint(d)'
    BY MintsKept
  <1>2. /\ pooled' \in [Deposit -> Nat] /\ \A d \in Deposit : pooled[d] <= pooled'[d]
        /\ transaction' \in [Transaction -> TransactionStatus]
        /\ transaction'[o] = s /\ \A q \in Transaction : q # o => transaction'[q] = transaction[q]
    BY DEF RowsOK, setStatus
  <1>3. \A d \in Deposit :
           \/ transaction'[d] = transaction[d]
           \/ /\ transaction'[d] \in {"APPROVED", "COMPLETED"} => hasMint(d)'
              /\ transaction'[d] = "COMPLETED" => pooled'[d] > 0
    BY <1>1, <1>2 DEF Transaction
  <1> QED
    BY <1>1, <1>2, <1>3, RowsStep

\* One dialog goes on, and may leave a transaction behind.
LEMMA TabRows ==
    ASSUME RowsOK, UNCHANGED <<transaction, mintLog, operatorMints, pooled, applied>>,
           \A t \in Tab : tab'[t] = tab[t] \/ DialogOK(tab[t])',
           \A tx \in late' : tx \in late \/ (tx.kind = "deposit" => tx.o \in Deposit)
    PROVE  RowsOK'
  <1>1. \A d \in Deposit : hasMint(d) <=> hasMint(d)'
    BY MintsKept
  <1>2. /\ pooled' \in [Deposit -> Nat] /\ \A d \in Deposit : pooled[d] <= pooled'[d]
        /\ transaction' \in [Transaction -> TransactionStatus]
    BY DEF RowsOK
  <1> QED
    BY <1>1, <1>2, RowsStep

\* A dialog that is closed.
LEMMA CloseDialog ==
    ASSUME WalletTypeOK, NEW t \in Tab, Close(t)
    PROVE  \A u \in Tab : tab'[u] = tab[u] \/ DialogOK(tab[u])'
  <1>1. tab'[t].dialog = "closed" /\ \A u \in Tab : u # t => tab'[u] = tab[u]
    BY CloseMoves
  <1>2. DialogOK(tab[t])'
    BY <1>1 DEF DialogOK
  <1> QED
    BY <1>1, <1>2


----------------------------------------------------------------------------
(* One lemma per actor: each of its steps keeps the books.                 *)

\* No callback is received or handled.
LEMMA RecordsKept ==
    ASSUME RecordsOK, UNCHANGED <<webhookEvent, handling, mintLog>>
    PROVE  RecordsOK'
  BY EndRecords

\* No operator does anything.
LEMMA OperatorsKept ==
    ASSUME OperatorsOK, UNCHANGED <<approvals, operatorMints, operator>>
    PROVE  OperatorsOK'
  BY DEF OperatorsOK, minting

\* A callback that is handled is about a deposit.
LEMMA HandledCallback ==
    ASSUME RecordsOK, NEW cb, NEW pc, at(cb, pc)
    PROVE  /\ cb \in CallbackType /\ cb.order \in Deposit /\ cb.status \in DepositOutcomes
           /\ pc = "minted" => logged(cb.order) # {}
  <1>1. PICK h \in handling : h = [callback |-> cb, pc |-> pc]
    BY DEF at
  <1>2. h.callback = cb /\ h.pc = pc
    BY <1>1
  <1>3. cb \in CallbackType /\ (pc = "minted" => logged(cb.order) # {})
    BY <1>2 DEF RecordsOK
  <1> QED
    BY <1>3 DEF CallbackType

\* New deposits, callbacks and their handlers.
LEMMA CallbackBooks ==
    ASSUME BooksOK,
           \/ \E o \in Deposit : NewDeposit(o) \/ \E s \in DepositOutcomes : Receive(o, s)
           \/ \E h \in handling : Handle(h.callback)
    PROVE  BooksOK'
  <1> USE DEF BooksOK
  <1>1. ASSUME NEW o \in Deposit, NewDeposit(o) PROVE BooksOK'
    <2>1. /\ setStatus(o, "PENDING_PAYMENT") /\ tab' = tab
          /\ UNCHANGED <<webhookEvent, handling, mintLog, brlt, seq, pooled, burned, applied, late>>
          /\ UNCHANGED <<approvals, operatorMints, operator>>
      BY <1>1 DEF NewDeposit, createDeposit, createDepositOrder, setStatus, walletVars, backOfficeVars
    <2>2. RowsOK'
      BY <2>1, StatusRows DEF Transaction, TransactionStatus
    <2> QED
      BY <2>1, <2>2, RecordsKept, OperatorsKept, BalanceKept
  <1>2. ASSUME NEW o \in Deposit, NEW s \in DepositOutcomes, Receive(o, s) PROVE BooksOK'
    <2>1. /\ UNCHANGED <<transaction, mintLog, tab, brlt, seq, pooled, burned, applied, late>>
          /\ UNCHANGED <<approvals, operatorMints, operator>>
      BY <1>2 DEF Receive, walletVars, backOfficeVars
    <2>2. RowsOK'
      BY <2>1, MintsKept, RowsKept
    <2> QED
      BY <1>2, <2>1, <2>2, ReceiveRecords, OperatorsKept, BalanceKept
  <1>3. ASSUME NEW cb, Handle(cb) PROVE BooksOK'
    <2>0. /\ UNCHANGED <<seq, pooled, burned, applied, late, tab>>
          /\ UNCHANGED <<approvals, operatorMints, operator>>
      BY <1>3 DEF Handle, backOfficeVars
    <2>1. CASE mintBrlt(cb) /\ brlt' = brlt + 1
      <3>1. RecordsOK' /\ cb \in CallbackType /\ cb.order \in Deposit /\ mintLog' = Append(mintLog, cb)
        BY <2>1, MintRecords
      <3>2. mintLog \in Seq(CallbackType) /\ operatorMints \in [Deposit -> Nat]
        BY DEF RecordsOK, OperatorsOK
      <3>3. \A d \in Deposit :
              /\ logged(d) \subseteq logged(d)'
              /\ Cardinality(logged(d)') = Cardinality(logged(d)) + (IF cb.order = d THEN 1 ELSE 0)
        BY <3>1, <3>2, LogGrows
      <3>4. \A d \in Deposit : minted(d)' = minted(d) + (IF cb.order = d THEN 1 ELSE 0)
        <4> SUFFICES ASSUME NEW d \in Deposit
                     PROVE  minted(d)' = minted(d) + (IF cb.order = d THEN 1 ELSE 0)
          OBVIOUS
        <4>1. minted(d) = Cardinality(logged(d)) + operatorMints[d] /\ operatorMints[d] \in Nat
          BY <3>2 DEF minted, logged
        <4>2. minted(d)' = Cardinality(logged(d)') + operatorMints[d]
          BY <2>0 DEF minted, logged
        <4>3. Cardinality(logged(d)) \in Nat
          BY <3>2, LoggedFinite
        <4> QED
          BY <3>3, <4>1, <4>2, <4>3
      <3>5. \A d \in Deposit : hasMint(d) => hasMint(d)'
        BY <2>0, <3>3 DEF hasMint
      <3>6. RowsOK'
        BY <2>0, <2>1, <3>5, RowsKept DEF mintBrlt
      <3>7. BalanceOK'
        <4>1. \A d \in Deposit : minted(d) \in Nat
          BY <3>2, MintedType
        <4>2. minted(cb.order)' = minted(cb.order) + 1
          <5>1. PICK o \in Deposit : o = cb.order
            BY <3>1
          <5>2. minted(o)' = minted(o) + 1
            BY <3>4, <5>1
          <5> QED
            BY <5>1, <5>2
        <4>3. \A d \in Deposit : d # cb.order => minted(d)' = minted(d)
          BY <3>4, <4>1
        <4> QED
          BY <2>0, <2>1, <3>1, <3>2, <4>2, <4>3, BalanceMinted
      <3> QED
        BY <2>0, <3>1, <3>6, <3>7, OperatorsKept
    <2>2. ASSUME UNCHANGED <<transaction, brlt, mintLog, webhookEvent>>, handling' \subseteq handling
          PROVE  BooksOK'
      <3>1. RowsOK'
        BY <2>0, <2>2, MintsKept, RowsKept
      <3> QED
        BY <2>0, <2>2, <3>1, EndRecords, OperatorsKept, BalanceKept
    <2>3. ASSUME NEW o \in Deposit, NEW s \in TransactionStatus \ {"COMPLETED"}, setStatus(o, s),
                 s = "APPROVED" => hasMint(o),
                 UNCHANGED <<brlt, mintLog, webhookEvent>>, handling' \subseteq handling
          PROVE  BooksOK'
      <3>1. RowsOK'
        BY <2>0, <2>3, StatusRows DEF Transaction
      <3> QED
        BY <2>0, <2>3, <3>1, EndRecords, OperatorsKept, BalanceKept
    <2>4. CASE handleStatus(cb) /\ UNCHANGED brlt
      <3>1. cb.order \in Deposit /\ cb.status \in {"EXPIRED", "CANCELED"}
        BY <2>4, HandledCallback DEF handleStatus, isDeposit, DepositOutcomes
      <3>2. UNCHANGED <<brlt, mintLog, webhookEvent>> /\ handling' \subseteq handling
        BY <2>4 DEF handleStatus, ends
      <3>3. CASE cb.status = "EXPIRED"
        <4>1. setStatus(cb.order, "EXPIRED")
          BY <2>4, <3>3 DEF handleStatus, statusAfter, setStatus
        <4> QED
          BY <3>1, <3>2, <4>1, <2>3 DEF TransactionStatus
      <3>4. CASE cb.status = "CANCELED"
        <4>1. transaction' = [transaction EXCEPT ![cb.order] = transaction[cb.order]]
          BY <2>4, <3>4 DEF handleStatus, statusAfter
        <4>2. transaction' = transaction
          BY <2>0, <4>1 DEF RowsOK
        <4> QED
          BY <3>2, <4>2, <2>2
      <3> QED
        BY <3>1, <3>3, <3>4
    <2>5. CASE failNoWallet(cb) /\ UNCHANGED brlt
      <3>1. cb.order \in Deposit
        BY <2>5, HandledCallback DEF failNoWallet
      <3>2. setStatus(cb.order, "FAILED")
        BY <2>5 DEF failNoWallet, setStatus
      <3>3. UNCHANGED <<brlt, mintLog, webhookEvent>> /\ handling' \subseteq handling
        BY <2>5 DEF failNoWallet, ends
      <3> QED
        BY <3>1, <3>2, <3>3, <2>3 DEF TransactionStatus
    <2>6. CASE approve(cb) /\ UNCHANGED brlt
      <3>1. cb.order \in Deposit /\ hasMint(cb.order)
        BY <2>6, HandledCallback DEF approve, hasMint
      <3>2. setStatus(cb.order, "APPROVED")
        BY <2>6 DEF approve, setStatus
      <3>3. UNCHANGED <<brlt, mintLog, webhookEvent>> /\ handling' \subseteq handling
        BY <2>6 DEF approve, ends
      <3> QED
        BY <3>1, <3>2, <3>3, <2>3 DEF TransactionStatus
    <2>7. CASE (\E pc \in {"persisted", "minted"} : mintError(cb, pc)) /\ UNCHANGED brlt
      BY <2>2, <2>7 DEF mintError, ends
    <2>8. CASE handlerCrash(cb) /\ UNCHANGED brlt
      BY <2>2, <2>8 DEF handlerCrash, ends
    <2> QED
      BY <1>3, <2>1, <2>4, <2>5, <2>6, <2>7, <2>8 DEF Handle, HandlerStep, HandlerReturn
  <1> QED
    BY <1>1, <1>2, <1>3

\* approveTransaction, up to its write.
LEMMA OperatorBooks ==
    ASSUME BooksOK, NEW p \in Operator,
           \/ \E o \in Deposit, decision \in {"APPROVED", "REJECTED"} : approveTransaction(p, o, decision)
           \/ RejectStore(p) \/ ApproveMint(p) \/ ApproveStore(p) \/ ApproveFails(p)
    PROVE  BooksOK'
  <1> USE DEF BooksOK
  <1>0. ASSUME operator[p].op # "free"
        PROVE  operator[p].o \in Deposit /\ (operator[p].op = "store" => hasMint(operator[p].o))
    <2>1. operator[p] \in Approval
      BY <1>0 DEF OperatorsOK, Free
    <2> QED
      BY <2>1 DEF Approval, OperatorsOK, hasMint
  <1>1. ASSUME UNCHANGED <<apiVars, walletVars, operatorMints, tab>>, OperatorsOK' PROVE BooksOK'
    <2>1. /\ UNCHANGED <<transaction, webhookEvent, handling, mintLog, tab>>
          /\ UNCHANGED <<brlt, seq, pooled, burned, applied, late, operatorMints>>
      BY <1>1 DEF apiVars, walletVars
    <2>2. RowsOK'
      BY <2>1, MintsKept, RowsKept
    <2> QED
      BY <1>1, <2>1, <2>2, RecordsKept, BalanceKept
  <1>2. ASSUME NEW o \in Deposit, NEW decision \in {"APPROVED", "REJECTED"}, approveTransaction(p, o, decision)
        PROVE  BooksOK'
    BY <1>1, <1>2, ApproveOperators DEF approveTransaction
  <1>3. CASE ApproveFails(p)
    BY <1>1, <1>3, FreeOperators DEF ApproveFails
  <1>4. ASSUME NEW s \in {"APPROVED", "REJECTED"}, setStatus(operator[p].o, s), operator[p].op # "free",
               s = "APPROVED" => operator[p].op = "store",
               operator' = [operator EXCEPT ![p] = Free],
               UNCHANGED <<webhookEvent, handling, mintLog, walletVars, approvals, operatorMints, tab>>
        PROVE  BooksOK'
    <2>1. UNCHANGED <<brlt, seq, pooled, burned, applied, late>>
      BY <1>4 DEF walletVars
    <2>2. RowsOK'
      BY <1>0, <1>4, <2>1, StatusRows DEF Transaction, TransactionStatus
    <2> QED
      BY <1>4, <2>1, <2>2, FreeOperators, RecordsKept, BalanceKept
  <1>5. CASE RejectStore(p)
    BY <1>4, <1>5 DEF RejectStore
  <1>6. CASE ApproveStore(p)
    BY <1>4, <1>6 DEF ApproveStore
  <1>7. CASE ApproveMint(p)
    <2>1. /\ OperatorsOK' /\ operator[p].o \in Deposit
          /\ operatorMints' = [operatorMints EXCEPT ![operator[p].o] = @ + 1]
      BY <1>7, MintOperators
    <2>2. /\ UNCHANGED <<transaction, webhookEvent, handling, mintLog, tab>>
          /\ brlt' = brlt + 1 /\ UNCHANGED <<seq, pooled, burned, applied, late>>
      BY <1>7 DEF ApproveMint, apiVars
    <2>3. PICK o \in Deposit : o = operator[p].o
      BY <2>1
    <2>4. mintLog \in Seq(CallbackType) /\ operatorMints \in [Deposit -> Nat]
      BY DEF RecordsOK, OperatorsOK
    <2>5. operatorMints'[o] = operatorMints[o] + 1 /\ \A d \in Deposit : d # o => operatorMints'[d] = operatorMints[d]
      BY <2>1, <2>3, <2>4
    <2>6. \A d : logged(d)' = logged(d)
      BY <2>2 DEF logged
    <2>7. \A d \in Deposit : hasMint(d) => hasMint(d)'
      BY <2>4, <2>5, <2>6 DEF hasMint
    <2>8. RowsOK'
      BY <2>2, <2>7, RowsKept
    <2>9. \A d \in Deposit : /\ minted(d) = Cardinality(logged(d)) + operatorMints[d]
                             /\ Cardinality(logged(d)) \in Nat
      BY <2>4, LoggedFinite, MintedType
    <2>10. \A d \in Deposit : minted(d)' = Cardinality(logged(d)) + operatorMints'[d]
      BY <2>2 DEF minted, logged
    <2>11. minted(o)' = minted(o) + 1 /\ \A d \in Deposit : d # o => minted(d)' = minted(d)
      <3>1. minted(o)' = minted(o) + 1
        BY <2>4, <2>5, <2>9, <2>10
      <3>2. ASSUME NEW d \in Deposit, d # o PROVE minted(d)' = minted(d)
        BY <2>5, <2>9, <2>10, <3>2
      <3> QED
        BY <3>1, <3>2
    <2>12. BalanceOK'
      BY <2>2, <2>4, <2>11, BalanceMinted
    <2> QED
      BY <2>1, <2>2, <2>8, <2>12, RecordsKept
  <1> QED
    BY <1>2, <1>3, <1>5, <1>6, <1>7


\* A dialog goes on to another of its steps.
LEMMA GotoDialog ==
    ASSUME WalletTypeOK, NEW t \in Tab, NEW pc \in Step, tab[t].dialog # "closed", Goto(t, pc),
           NEW o, o = tab[t].o,
           tab[t].dialog = "finalize" => o \in Deposit /\ hasMint(o)' /\ pc # "burn",
           tab[t].dialog = "finalize" /\ pc = "completed_store" => pooled'[o] > 0,
           tab[t].dialog = "withdraw" => o \in Withdrawal /\ pc \in {"burn", "confirmed", "duplicate"},
           tab[t].dialog # "notify"
    PROVE  \A u \in Tab : tab'[u] = tab[u] \/ DialogOK(tab[u])'
  <1>1. tab'[t] = [tab[t] EXCEPT !.pc = pc] /\ \A u \in Tab : u # t => tab'[u] = tab[u]
    BY GotoMoves
  <1>2. tab[t] \in Session
    BY DEF WalletTypeOK, Closed
  <1>3. tab'[t].dialog = tab[t].dialog /\ tab'[t].o = tab[t].o /\ tab'[t].pc = pc
    BY <1>1, <1>2 DEF Session
  <1>4. tab'[t].dialog = "finalize" => hasMint(tab[t].o)'
    BY <1>3
  <1>5. DialogOK(tab[t])'
    BY <1>3, <1>4 DEF DialogOK
  <1> QED
    BY <1>1, <1>5

\* A dialog is opened at its first step.
LEMMA OpenDialog ==
    ASSUME WalletTypeOK, NEW t \in Tab, NEW d \in Dialog, NEW o \in Transaction, NEW pc \in Step,
           pc \notin Burnt, Open(t, d, o, pc),
           d = "notify" => o \in Deposit /\ pc = "store",
           d = "finalize" => o \in Deposit /\ hasMint(o)' /\ pc \notin {"burn", "completed_store"},
           d = "withdraw" => o \in Withdrawal /\ pc = "burn"
    PROVE  \A u \in Tab : tab'[u] = tab[u] \/ DialogOK(tab[u])'
  <1>1. /\ tab'[t] = [dialog |-> d, o |-> o, pc |-> pc, seq |-> seq]
        /\ \A u \in Tab : u # t => tab'[u] = tab[u]
    BY OpenMoves
  <1>2. tab'[t].dialog = d /\ tab'[t].o = o /\ tab'[t].pc = pc
    BY <1>1
  <1>3. d = "finalize" => hasMint(tab[t].o)'
    BY <1>2
  <1>4. DialogOK(tab[t])'
    BY <1>2, <1>3 DEF DialogOK
  <1> QED
    BY <1>1, <1>4

\* A step of a dialog that leaves the chain and the rows alone.
LEMMA QuietBooks ==
    ASSUME BooksOK, UNCHANGED <<apiVars, brlt, seq, pooled, burned, applied, backOfficeVars>>,
           \A t \in Tab : tab'[t] = tab[t] \/ DialogOK(tab[t])',
           \A tx \in late' : tx \in late \/ (tx.kind = "deposit" => tx.o \in Deposit)
    PROVE  BooksOK'
  <1>1. /\ UNCHANGED <<transaction, webhookEvent, handling, mintLog>>
        /\ UNCHANGED <<approvals, operatorMints, operator>>
    BY DEF apiVars, backOfficeVars
  <1>2. RowsOK'
    BY <1>1, TabRows DEF BooksOK
  <1> QED
    BY <1>1, <1>2, RecordsKept, OperatorsKept, BalanceKept DEF BooksOK

\* The write that ends a dialog.
LEMMA StoreBooks ==
    ASSUME BooksOK, WalletTypeOK, NEW t \in Tab, Close(t),
           NEW o \in Transaction, NEW s \in TransactionStatus, setStatus(o, s),
           s \in {"APPROVED", "COMPLETED"} /\ o \in Deposit => hasMint(o),
           s = "COMPLETED" /\ o \in Deposit => pooled[o] > 0,
           UNCHANGED <<webhookEvent, handling, mintLog, walletVars, backOfficeVars>>
    PROVE  BooksOK'
  <1>1. /\ UNCHANGED <<brlt, seq, pooled, burned, applied, late>>
        /\ UNCHANGED <<approvals, operatorMints, operator>>
    BY DEF walletVars, backOfficeVars
  <1>2. RowsOK'
    BY <1>1, CloseDialog, StatusRows DEF BooksOK
  <1> QED
    BY <1>1, <1>2, RecordsKept, OperatorsKept, BalanceKept DEF BooksOK

\* A transaction of the wallet is applied, for a dialog or late.
LEMMA ApplyBooks ==
    ASSUME BooksOK, BurnIInv, NEW tx, tx.kind = "deposit" => tx.o \in Deposit, Apply(tx),
           UNCHANGED <<apiVars, backOfficeVars>>, late' \subseteq late,
           \A t \in Tab : tab'[t] = tab[t] \/ DialogOK(tab[t])'
    PROVE  BooksOK'
  <1>1. /\ UNCHANGED <<transaction, webhookEvent, handling, mintLog>>
        /\ UNCHANGED <<approvals, operatorMints, operator>>
    BY DEF apiVars, backOfficeVars
  <1>2. mintLog \in Seq(CallbackType) /\ operatorMints \in [Deposit -> Nat]
    BY DEF BooksOK, RecordsOK, OperatorsOK
  <1>3. BalanceOK' /\ pooled' \in [Deposit -> Nat] /\ \A d \in Deposit : pooled[d] <= pooled'[d]
    BY <1>1, <1>2, ApplyWallet DEF BooksOK
  <1>4. \A d \in Deposit : hasMint(d) <=> hasMint(d)'
    BY <1>1, MintsKept
  <1>5. transaction' \in [Transaction -> TransactionStatus]
    BY <1>1 DEF BooksOK, RowsOK
  <1>7. \A x \in applied' : x \in applied \/ (x.kind = "deposit" => x.o \in Deposit /\ pooled'[x.o] > 0)
    <2>1. applied' = applied \cup {tx}
      BY DEF Apply
    <2>2. tx.kind = "deposit" => pooled'[tx.o] > 0
      BY <1>1, <1>2, ApplyWallet DEF BooksOK
    <2> QED
      BY <2>1, <2>2
  <1>6. RowsOK'
    BY <1>1, <1>3, <1>4, <1>5, <1>7, RowsStep DEF BooksOK
  <1> QED
    BY <1>1, <1>3, <1>6, RecordsKept, OperatorsKept DEF BooksOK

\* A confirmed transaction of a dialog.
LEMMA SubmitBooks ==
    ASSUME BooksOK, BurnIInv, NEW t \in Tab, NEW dialog \in {"finalize", "withdraw"}, NEW kind, NEW next \in Step,
           dialog = "finalize" => kind \in {"approve", "deposit"} /\ next # "burn",
           dialog = "finalize" /\ next = "completed_store" => kind = "deposit",
           dialog = "withdraw" => kind = "burn" /\ next = "confirmed",
           submitSignedTx(t, dialog, kind, next)
    PROVE  BooksOK'
  <1>1. /\ tab[t].dialog = dialog /\ Apply(Tx(t, kind)) /\ Goto(t, next)
        /\ UNCHANGED <<apiVars, backOfficeVars>> /\ late' = late
    BY DEF submitSignedTx, At
  <1>2. DialogOK(tab[t])
    BY DEF BooksOK, RowsOK
  <1>3. PICK tx : tx = Tx(t, kind)
    OBVIOUS
  <1>4. tx.kind = kind /\ (kind = "deposit" => tx.o = tab[t].o)
    BY <1>3 DEF Tx
  <1>5. dialog = "finalize" => tab[t].o \in Deposit /\ hasMint(tab[t].o)
    BY <1>1, <1>2 DEF DialogOK
  <1>6. tx.kind = "deposit" => tx.o \in Deposit
    BY <1>4, <1>5
  <1>7. UNCHANGED <<mintLog, operatorMints>>
    BY <1>1 DEF apiVars, backOfficeVars
  <1>8. tx.kind = "deposit" => pooled'[tx.o] > 0
    <2>1. mintLog \in Seq(CallbackType) /\ operatorMints \in [Deposit -> Nat]
      BY DEF BooksOK, RecordsOK, OperatorsOK
    <2> QED
      BY <1>1, <1>3, <1>6, <1>7, <2>1, ApplyWallet DEF BooksOK
  <1>9. dialog = "withdraw" => tab[t].o \in Withdrawal
    BY <1>1, <1>2 DEF DialogOK
  <1>10. \A u \in Tab : tab'[u] = tab[u] \/ DialogOK(tab[u])'
    <2>1. PICK o : o = tab[t].o
      OBVIOUS
    <2>2. WalletTypeOK
      BY DEF BurnIInv
    <2>3. dialog = "finalize" => hasMint(o)'
      BY <1>5, <1>7, <2>1, MintsKept
    <2>4. /\ tab[t].dialog # "closed" /\ tab[t].dialog # "notify"
          /\ tab[t].dialog = "finalize" => o \in Deposit /\ next # "burn" /\ hasMint(o)'
          /\ tab[t].dialog = "finalize" /\ next = "completed_store" => pooled'[o] > 0
          /\ tab[t].dialog = "withdraw" => o \in Withdrawal /\ next \in {"burn", "confirmed", "duplicate"}
      BY <1>1, <1>4, <1>5, <1>8, <1>9, <2>1, <2>3
    <2> QED
      BY <1>1, <2>1, <2>2, <2>4, GotoDialog
  <1> QED
    BY <1>1, <1>3, <1>6, <1>10, ApplyBooks

\* A request that is answered by the transaction of another one: the deposit it
\* goes on from is in the pool.
LEMMA DuplicateBooks ==
    ASSUME BooksOK, BurnIInv, NEW t \in Tab, NEW dialog \in {"finalize", "withdraw"}, NEW kind, NEW next \in Step,
           dialog = "finalize" => next # "burn",
           dialog = "finalize" /\ next = "completed_store" => kind = "deposit",
           dialog = "withdraw" => next = "duplicate",
           submitDuplicate(t, dialog, kind, next)
    PROVE  BooksOK'
  <1>1. /\ tab[t].dialog = dialog /\ Tx(t, kind) \in applied /\ Goto(t, next)
        /\ UNCHANGED <<apiVars, brlt, seq, pooled, burned, applied, late, backOfficeVars>>
    BY DEF submitDuplicate, At, walletVars
  <1>2. DialogOK(tab[t]) /\ WalletTypeOK
    BY DEF BooksOK, RowsOK, BurnIInv
  <1>3. Tx(t, kind).kind = kind /\ (kind = "deposit" => Tx(t, kind).o = tab[t].o)
    BY DEF Tx
  <1>4. kind = "deposit" => pooled[tab[t].o] > 0
    BY <1>1, <1>3 DEF BooksOK, RowsOK
  <1>5. PICK o : o = tab[t].o
    OBVIOUS
  <1>6. dialog = "finalize" => o \in Deposit /\ hasMint(o)
    BY <1>1, <1>2, <1>5 DEF DialogOK
  <1>7. dialog = "finalize" => hasMint(o)'
    BY <1>1, <1>6, MintsKept DEF apiVars, backOfficeVars
  <1>8. /\ tab[t].dialog # "closed" /\ tab[t].dialog # "notify"
        /\ tab[t].dialog = "finalize" => o \in Deposit /\ next # "burn" /\ hasMint(o)'
        /\ tab[t].dialog = "finalize" /\ next = "completed_store" => pooled'[o] > 0
        /\ tab[t].dialog = "withdraw" => o \in Withdrawal /\ next \in {"burn", "confirmed", "duplicate"}
    BY <1>1, <1>2, <1>4, <1>5, <1>6, <1>7 DEF DialogOK
  <1>9. \A u \in Tab : tab'[u] = tab[u] \/ DialogOK(tab[u])'
    BY <1>1, <1>2, <1>5, <1>8, GotoDialog
  <1> QED
    BY <1>1, <1>9, QuietBooks


\* The dialogs of the investor.
LEMMA DialogBooks ==
    ASSUME TransactionsInv, NEW t \in Tab,
           \/ \E o \in Deposit : markAsPaid(t, o) \/ handleFinalize(t, o)
           \/ \E o \in Withdrawal : handleWithdraw(t, o)
           \/ MarkAsPaidStore(t) \/ runOnChainDeposit(t) \/ withdraw(t) \/ DialogFails(t)
    PROVE  BooksOK'
  <1>0. BooksOK /\ BurnIInv /\ WalletTypeOK /\ RowsOK /\ DialogOK(tab[t])
    BY DEF TransactionsInv, BooksOK, BurnIInv, RowsOK
  <1>1. ASSUME UNCHANGED <<apiVars, walletVars, backOfficeVars>>,
               \A u \in Tab : tab'[u] = tab[u] \/ DialogOK(tab[u])'
        PROVE  BooksOK'
    BY <1>0, <1>1, QuietBooks DEF walletVars
  <1>2. ASSUME UNCHANGED <<apiVars, backOfficeVars>> PROVE \A d \in Deposit : hasMint(d) => hasMint(d)'
    BY <1>2, MintsKept DEF apiVars, backOfficeVars
  <1>3. ASSUME NEW o \in Deposit, markAsPaid(t, o) PROVE BooksOK'
    <2>1. Open(t, "notify", o, "store") /\ UNCHANGED <<apiVars, walletVars, backOfficeVars>> /\ o \in Transaction
      BY <1>3 DEF markAsPaid, Transaction
    <2>2. \A u \in Tab : tab'[u] = tab[u] \/ DialogOK(tab[u])'
      BY <1>0, <2>1, OpenDialog DEF Dialog, Step, Burnt
    <2> QED
      BY <1>1, <2>1, <2>2
  <1>4. ASSUME NEW o \in Deposit, handleFinalize(t, o) PROVE BooksOK'
    <2>1. /\ Open(t, "finalize", o, "approve") /\ UNCHANGED <<apiVars, walletVars, backOfficeVars>>
          /\ o \in Transaction /\ transaction[o] = "APPROVED"
      BY <1>4 DEF handleFinalize, Transaction, loadApprovedDeposit
    <2>2. hasMint(o)'
      BY <1>0, <1>2, <2>1 DEF RowsOK
    <2>3. \A u \in Tab : tab'[u] = tab[u] \/ DialogOK(tab[u])'
      BY <1>0, <2>1, <2>2, OpenDialog DEF Dialog, Step, Burnt
    <2> QED
      BY <1>1, <2>1, <2>3
  <1>5. ASSUME NEW o \in Withdrawal, handleWithdraw(t, o) PROVE BooksOK'
    <2>1. Open(t, "withdraw", o, "burn") /\ UNCHANGED <<apiVars, walletVars, backOfficeVars>> /\ o \in Transaction
      BY <1>5 DEF handleWithdraw, Transaction
    <2>2. \A u \in Tab : tab'[u] = tab[u] \/ DialogOK(tab[u])'
      BY <1>0, <2>1, OpenDialog DEF Dialog, Step, Burnt
    <2> QED
      BY <1>1, <2>1, <2>2
  <1>6. CASE MarkAsPaidStore(t)
    <2>1. tab[t].o \in Deposit
      BY <1>0, <1>6 DEF MarkAsPaidStore, At, DialogOK
    <2> QED
      BY <1>0, <1>6, <2>1, StoreBooks DEF MarkAsPaidStore, Transaction, TransactionStatus
  <1>7. CASE DialogFails(t)
    BY <1>0, <1>1, <1>7, CloseDialog DEF DialogFails
  <1>8. ASSUME NEW kind, SubmitGivenUp(t, kind), kind \in {"approve", "deposit", "burn"} PROVE BooksOK'
    <2>1. /\ Close(t) /\ tab[t] # Closed /\ tab[t].pc = kind /\ late' = late \cup {Tx(t, kind)}
          /\ UNCHANGED <<apiVars, brlt, seq, pooled, burned, applied, backOfficeVars>>
      BY <1>8 DEF SubmitGivenUp
    <2>2. tab[t] \in Session
      BY <1>0, <2>1 DEF WalletTypeOK
    <2>3. kind = "deposit" => tab[t].o \in Deposit
      BY <1>0, <2>1, <2>2 DEF DialogOK, Session, Dialog
    <2>4. Tx(t, kind).kind = kind /\ (kind = "deposit" => Tx(t, kind).o = tab[t].o)
      BY DEF Tx
    <2>5. \A tx \in late' : tx \in late \/ (tx.kind = "deposit" => tx.o \in Deposit)
      BY <2>1, <2>3, <2>4
    <2> QED
      BY <1>0, <2>1, <2>5, CloseDialog, QuietBooks
  <1>9. CASE runOnChainDeposit(t)
    <2>1. ASSUME NEW kind \in {"approve", "deposit"}, NEW next \in {"deposit_build", "completed_store"},
                 next = "completed_store" => kind = "deposit", Stage(t, "finalize", kind, next, next)
          PROVE  BooksOK'
      <3>1. ASSUME submitSignedTx(t, "finalize", kind, next) PROVE BooksOK'
        BY <1>0, <2>1, <3>1, SubmitBooks DEF Step
      <3>2. ASSUME submitDuplicate(t, "finalize", kind, next) PROVE BooksOK'
        BY <1>0, <2>1, <3>2, DuplicateBooks DEF Step
      <3> QED
        BY <1>8, <2>1, <3>1, <3>2 DEF Stage
    <2>2. ASSUME tab[t].dialog = "finalize"
          PROVE  tab[t].o \in Deposit /\ hasMint(tab[t].o)
      BY <1>0, <2>2 DEF DialogOK
    <2>3. CASE CompletedStore(t)
      <3>1. /\ Close(t) /\ setStatus(tab[t].o, "COMPLETED") /\ tab[t].dialog = "finalize"
            /\ tab[t].pc = "completed_store"
            /\ UNCHANGED <<webhookEvent, handling, mintLog, walletVars, backOfficeVars>>
        BY <2>3 DEF CompletedStore, At
      <3>2. tab[t].o \in Deposit /\ hasMint(tab[t].o) /\ pooled[tab[t].o] > 0
        BY <1>0, <3>1 DEF DialogOK
      <3> QED
        BY <1>0, <3>1, <3>2, StoreBooks DEF Transaction, TransactionStatus
    <2>4. CASE submitDepositStage(t)
      <3>1. /\ tab[t].dialog = "finalize" /\ Goto(t, "deposit")
            /\ UNCHANGED <<apiVars, walletVars, backOfficeVars>>
        BY <2>4 DEF submitDepositStage, At
      <3>2. PICK o \in Deposit : o = tab[t].o /\ hasMint(o)
        BY <2>2, <3>1
      <3>3. hasMint(o)'
        BY <1>2, <3>1, <3>2
      <3>4. \A u \in Tab : tab'[u] = tab[u] \/ DialogOK(tab[u])'
        BY <1>0, <3>1, <3>2, <3>3, GotoDialog DEF Step
      <3> QED
        BY <1>1, <3>1, <3>4
    <2>5. CASE buildDepositStage(t)
      <3>1. /\ tab[t].dialog = "finalize" /\ UNCHANGED <<apiVars, walletVars, backOfficeVars>>
            /\ tab' = [tab EXCEPT ![t].pc = "deposit_submit", ![t].seq = seq]
        BY <2>5 DEF buildDepositStage, At
      <3>2. tab[t] \in Session
        BY <1>0, <3>1 DEF WalletTypeOK, Closed
      <3>3. PICK o \in Deposit : o = tab[t].o /\ hasMint(o)
        BY <2>2, <3>1
      <3>4. /\ tab'[t].dialog = "finalize" /\ tab'[t].o = o /\ tab'[t].pc = "deposit_submit"
            /\ \A u \in Tab : u # t => tab'[u] = tab[u]
        BY <1>0, <3>1, <3>2, <3>3 DEF WalletTypeOK, Session
      <3>5. hasMint(o)'
        BY <1>2, <3>1, <3>3
      <3>6. hasMint(tab[t].o)'
        BY <3>4, <3>5
      <3>7. DialogOK(tab[t])'
        BY <3>4, <3>6 DEF DialogOK
      <3> QED
        BY <1>1, <3>1, <3>4, <3>7
    <2> QED
      BY <1>9, <2>1, <2>3, <2>4, <2>5 DEF runOnChainDeposit
  <1>10. CASE withdraw(t)
    <2>1. CASE Stage(t, "withdraw", "burn", "confirmed", "duplicate")
      <3>1. ASSUME submitSignedTx(t, "withdraw", "burn", "confirmed") PROVE BooksOK'
        BY <1>0, <3>1, SubmitBooks DEF Step, Burnt
      <3>2. ASSUME submitDuplicate(t, "withdraw", "burn", "duplicate") PROVE BooksOK'
        BY <1>0, <3>2, DuplicateBooks DEF Step, Burnt
      <3> QED
        BY <1>8, <2>1, <3>1, <3>2 DEF Stage
    <2>2. ASSUME NEW from, submitWithdrawal(t, from) PROVE BooksOK'
      <3>1. /\ Close(t) /\ tab[t].o \in Withdrawal /\ setStatus(tab[t].o, "PROCESSING")
            /\ UNCHANGED <<webhookEvent, handling, mintLog, walletVars, backOfficeVars>>
        BY <2>2 DEF submitWithdrawal, withdrawalRow, createWithdrawalOrder, setStatus
      <3> QED
        BY <1>0, <3>1, StoreBooks DEF Transaction, TransactionStatus
    <2> QED
      BY <1>10, <2>1, <2>2 DEF withdraw
  <1> QED
    BY <1>3, <1>4, <1>5, <1>6, <1>7, <1>9, <1>10

\* The row of a withdrawal that the caller of POST /pix/withdrawals asks for.
LEMMA CallerBooks ==
    ASSUME TransactionsInv, NEW o \in Withdrawal, NEW n, createWithdrawal(o, n)
    PROVE  BooksOK'
  <1>1. /\ setStatus(o, "PROCESSING") /\ tab' = tab
        /\ UNCHANGED <<webhookEvent, handling, mintLog, brlt, seq, pooled, burned, applied, late>>
        /\ UNCHANGED <<approvals, operatorMints, operator>>
    BY DEF createWithdrawal, withdrawalRow, createWithdrawalOrder, setStatus, walletVars, backOfficeVars
  <1>2. BooksOK
    BY DEF TransactionsInv
  <1>3. RowsOK'
    BY <1>1, <1>2, StatusRows DEF BooksOK, OperatorsOK, Transaction, TransactionStatus
  <1> QED
    BY <1>1, <1>2, <1>3, RecordsKept, OperatorsKept, BalanceKept DEF BooksOK

\* Transactions that are applied, or expire, after they were given up on.
LEMMA LateBooks ==
    ASSUME TransactionsInv, NEW tx \in late, LateTransaction(tx)
    PROVE  BooksOK'
  <1>1. BooksOK /\ BurnIInv /\ (tx.kind = "deposit" => tx.o \in Deposit)
    BY DEF TransactionsInv, BooksOK, RowsOK
  <1>2. UNCHANGED <<apiVars, backOfficeVars, tab>> /\ late' \subseteq late
    BY DEF LateTransaction
  <1>3. CASE Apply(tx)
    BY <1>1, <1>2, <1>3, ApplyBooks
  <1>4. CASE UNCHANGED <<brlt, seq, pooled, burned, applied>>
    BY <1>1, <1>2, <1>4, QuietBooks
  <1> QED
    BY <1>3, <1>4 DEF LateTransaction

----------------------------------------------------------------------------
\* Empty tables and an empty wallet satisfy the invariant.
LEMMA TransactionsInit ==
    ASSUME Init
    PROVE  TransactionsInv
  <1> USE DEF Init, ApiInit
  <1>1. BurnIInv
    BY DEF BurnIInv, WalletTypeOK, AppliedOK, atOrder, atDuplicate, At, Closed, BurnPerWithdrawal
  <1>2. RecordsOK
    BY FS_EmptySet DEF RecordsOK
  <1>3. OperatorsOK
    <2>1. \A d \in Deposit : minting(d) = {}
      BY DEF minting, Free
    <2>2. \A p \in Operator : operator[p].op = "free"
      BY DEF Free
    <2> QED
      <3>1. \A d \in Deposit : IsFiniteSet(minting(d)) /\ Cardinality(minting(d)) = 0
        BY <2>1, FS_EmptySet
      <3>2. operator \in [Operator -> {Free} \cup Approval]
        OBVIOUS
      <3>3. operatorMints \in [Deposit -> Nat] /\ approvals \in [Deposit -> Nat]
        OBVIOUS
      <3>4. ASSUME NEW d \in Deposit PROVE operatorMints[d] + Cardinality(minting(d)) <= approvals[d]
        <4>1. operatorMints[d] = 0 /\ approvals[d] = 0
          OBVIOUS
        <4>2. Cardinality(minting(d)) = 0
          BY <3>1
        <4> HIDE DEF Init
        <4> QED
          BY <4>1, <4>2
      <3> QED
        BY <2>2, <3>1, <3>2, <3>3, <3>4 DEF OperatorsOK
  <1>4. RowsOK
    BY DEF RowsOK, DialogOK, Closed, Transaction, TransactionStatus
  <1>5. BalanceOK
    <2>0. mintLog = <<>> /\ DOMAIN mintLog = {}
      OBVIOUS
    <2>1. \A d \in Deposit : Cardinality(logged(d)) = 0 /\ operatorMints[d] = 0
      <3>1. \A d \in Deposit : logged(d) = {}
        BY <2>0 DEF logged
      <3> QED
        BY <3>1, FS_EmptySet
    <2>2. \A d \in Deposit : minted(d) = 0
      <3> SUFFICES ASSUME NEW d \in Deposit PROVE minted(d) = 0
        OBVIOUS
      <3>1. minted(d) = Cardinality(logged(d)) + operatorMints[d]
        BY DEF minted, logged
      <3>2. Cardinality(logged(d)) = 0 /\ operatorMints[d] = 0
        BY <2>1
      <3> HIDE DEF Init
      <3> QED
        BY <3>1, <3>2
    <2>3. mints_of = [d \in Deposit |-> 0]
      BY <2>2 DEF mints_of
    <2>4. total([d \in Deposit |-> 0]) = 0
      BY TotalOfZeros
    <2>5. total(mints_of) = 0 /\ total(pooled) = 0
      BY <2>3, <2>4
    <2>6. Cardinality(burned) = 0 /\ burned \subseteq 1..MaxSeq
      BY FS_EmptySet
    <2>7. seq <= MaxSeq + 1
      BY TransactionsAssumption
    <2> QED
      BY <2>5, <2>6, <2>7 DEF BalanceOK
  <1> QED
    BY <1>1, <1>2, <1>3, <1>4, <1>5 DEF TransactionsInv, BooksOK

\* Every step keeps the invariant.
LEMMA TransactionsStep ==
    ASSUME TransactionsInv, [Next]_vars
    PROVE  TransactionsInv'
  <1>1. BurnIInv'
    BY BurnNext DEF TransactionsInv
  <1>2. BooksOK'
    <2>1. CASE UNCHANGED vars
      <3>1. /\ UNCHANGED <<apiVars, brlt, seq, pooled, burned, applied, backOfficeVars>>
            /\ tab' = tab /\ late' = late
        BY <2>1 DEF vars, walletVars
      <3> QED
        BY <3>1, QuietBooks DEF TransactionsInv
    <2>2. CASE Next
      BY <2>2, CallbackBooks, OperatorBooks, DialogBooks, LateBooks, CallerBooks DEF Next, TransactionsInv
    <2> QED
      BY <2>1, <2>2
  <1> QED
    BY <1>1, <1>2 DEF TransactionsInv

\* Transactions, tabs and wallet keep their shape, and the wallet's balance is what
\* callbacks (handleDepositConfirmed) and operators (approveTransaction) minted,
\* less the pool deposits and burns that were applied, in time or late.
THEOREM BalanceExplained == Spec => []TransactionsTypeOK
  <1>1. Init => TransactionsInv
    BY TransactionsInit
  <1>2. TransactionsInv /\ [Next]_vars => TransactionsInv'
    BY TransactionsStep
  <1>3. ASSUME TransactionsInv PROVE TransactionsTypeOK
    <2>1. BurnIInv /\ RecordsOK /\ OperatorsOK /\ RowsOK /\ BalanceOK /\ WalletTypeOK
      BY <1>3 DEF TransactionsInv, BooksOK, BurnIInv
    <2>2. MaxSeq \in Nat /\ IsFiniteSet(Deposit)
      BY TransactionsAssumption
    <2>3. burned \subseteq 1..MaxSeq /\ brlt \in Nat /\ seq \in 1..(MaxSeq + 1)
      BY <2>1, <2>2 DEF BalanceOK, WalletTypeOK
    <2>4. burnOf \in [Withdrawal -> [tx : 0..MaxSeq, from : {"none", "confirmed", "duplicate", "caller"}]]
      <3>1. \A o \in Withdrawal : burnOf[o].tx \in {0} \cup burned
        BY <2>1 DEF BurnIInv
      <3>2. {0} \cup burned \subseteq 0..MaxSeq
        BY <2>2, <2>3
      <3> QED
        BY <2>1, <3>1, <3>2 DEF WalletTypeOK
    <2>5. total(pooled) \in Nat /\ total(mints_of) \in Nat
      BY <2>1, <2>2, TotalType, MintsType DEF RowsOK, RecordsOK, OperatorsOK
    <2>6. Cardinality(burned) \in Nat
      <3>1. IsFiniteSet(1..MaxSeq)
        BY <2>2, FS_Interval
      <3> QED
        BY <2>3, <3>1, FS_Subset, FS_CardinalityType
    <2>7. brlt = total(mints_of) - total(pooled) - Cardinality(burned)
      BY <2>1, <2>3, <2>5, <2>6 DEF BalanceOK
    <2>8. brlt = total([d \in Deposit |-> minted(d)]) - total(pooled) - Cardinality(burned)
      BY <2>7 DEF mints_of
    <2> QED
      BY <2>1, <2>3, <2>4, <2>8 DEF TransactionsTypeOK, RowsOK, TransactionStatus
  <1> QED
    BY <1>1, <1>2, <1>3, PTL DEF Spec

\* An APPROVED or COMPLETED deposit was minted, and a COMPLETED one is in the
\* pool, whoever wrote the row: a callback (approve), an operator
\* (approveTransaction) or a dialog (submitDepositStage).
THEOREM StatusesBacked == Spec => []LedgerBehindStatus
  <1>1. Init => TransactionsInv
    BY TransactionsInit
  <1>2. TransactionsInv /\ [Next]_vars => TransactionsInv'
    BY TransactionsStep
  <1>3. ASSUME TransactionsInv PROVE LedgerBehindStatus
    <2>1. mintLog \in Seq(CallbackType) /\ operatorMints \in [Deposit -> Nat] /\ RowsOK
      BY <1>3 DEF TransactionsInv, BooksOK, RecordsOK, OperatorsOK
    <2>2. \A d \in Deposit : hasMint(d) <=> minted(d) > 0
      BY <2>1, MintedType
    <2> QED
      BY <2>1, <2>2 DEF RowsOK, LedgerBehindStatus
  <1> QED
    BY <1>1, <1>2, <1>3, PTL DEF Spec

\* There are no more mints for a deposit than confirmations on record
\* (persistEvent, once per event) and approvals by operators.
THEOREM MintsDecided == Spec => []MintPerDecision
  <1>1. Init => TransactionsInv
    BY TransactionsInit
  <1>2. TransactionsInv /\ [Next]_vars => TransactionsInv'
    BY TransactionsStep
  <1>3. ASSUME TransactionsInv PROVE MintPerDecision
    <2>1. RecordsOK /\ OperatorsOK
      BY <1>3 DEF TransactionsInv, BooksOK
    <2>2. ASSUME NEW d \in Deposit PROVE minted(d) <= confirmed(d) + approvals[d]
      <3> DEFINE C == {e \in webhookEvent : e[1] = d /\ e[2] = "CONFIRMED"}
                 f == [i \in logged(d) |-> mintLog[i].id]
      <3>1. IsFiniteSet(C)
        <4>1. C \subseteq webhookEvent /\ IsFiniteSet(webhookEvent)
          BY <2>1 DEF RecordsOK
        <4> QED
          BY <4>1, FS_Subset
      <3>2. f \in Injection(logged(d), C)
        <4>1. \A i \in logged(d) : mintLog[i].id \in C
          BY <2>1 DEF RecordsOK, Known, logged
        <4>2. \A i, j \in logged(d) : f[i] = f[j] => i = j
          BY <2>1 DEF RecordsOK, logged
        <4>3. f \in [logged(d) -> C]
          BY <4>1
        <4> HIDE DEF f, C
        <4> QED
          BY <4>2, <4>3 DEF Injection, IsInjective
      <3> HIDE DEF f, C
      <3>3. Cardinality(logged(d)) <= Cardinality(C)
        BY <3>1, <3>2, FS_Injection
      <3>4. /\ Cardinality(logged(d)) \in Nat /\ minted(d) = Cardinality(logged(d)) + operatorMints[d]
        BY <2>1, LoggedFinite, MintedType DEF RecordsOK, OperatorsOK
      <3>5. /\ operatorMints[d] \in Nat /\ approvals[d] \in Nat /\ Cardinality(minting(d)) \in Nat
            /\ operatorMints[d] + Cardinality(minting(d)) <= approvals[d]
        BY <2>1, FS_CardinalityType DEF OperatorsOK
      <3>6. confirmed(d) = Cardinality(C) /\ Cardinality(C) \in Nat
        BY <3>1, FS_CardinalityType DEF C, confirmed
      <3> QED
        BY <3>3, <3>4, <3>5, <3>6
    <2> QED
      BY <2>2 DEF MintPerDecision
  <1> QED
    BY <1>1, <1>2, <1>3, PTL DEF Spec

----------------------------------------------------------------------------
(* Callbacks around the wallet implement MintLedger.                       *)

\* A callback is put on record: a new confirmation, or none.
LEMMA ReceiveLedger ==
    ASSUME RecordsOK, NEW o \in Deposit, NEW s \in DepositOutcomes, Receive(o, s)
    PROVE  [Ledger!Next]_(Ledger!ledgerVars)
  <1>1. PICK n : n = Cardinality(webhookEvent)
    OBVIOUS
  <1> DEFINE e == <<o, s, n>>
             cb == [id |-> e, order |-> e[1], status |-> e[2]]
  <1>2. e \notin webhookEvent /\ webhookEvent' = webhookEvent \cup {e} /\ mintLog' = mintLog
    BY <1>1 DEF Receive, persistEvent, seen
  <1>3. e[2] = s /\ cb.id = e
    OBVIOUS
  <1>4. CASE s = "CONFIRMED"
    <2>1. confirmations' = confirmations \cup {cb}
      BY <1>2, <1>3, <1>4 DEF confirmations
    <2>2. cb \notin confirmations
      BY <1>2, <1>3 DEF confirmations
    <2>3. Ledger!Confirm(cb)
      BY <1>2, <2>1, <2>2 DEF Ledger!Confirm
    <2> QED
      BY <2>1, <2>3 DEF Ledger!Next
  <1>5. CASE s # "CONFIRMED"
    <2>1. confirmations' = confirmations
      BY <1>2, <1>3, <1>5 DEF confirmations
    <2> QED
      BY <1>2, <2>1 DEF Ledger!ledgerVars
  <1> QED
    BY <1>4, <1>5

\* A callback mints for its own confirmation, which is on record.
LEMMA MintLedgerStep ==
    ASSUME RecordsOK, NEW cb, mintBrlt(cb)
    PROVE  Ledger!Next
  <1> DEFINE old == [callback |-> cb, pc |-> "persisted"]
  <1>1. /\ old \in handling /\ old.callback = cb /\ old.pc = "persisted" /\ cb.status = "CONFIRMED"
        /\ mintLog' = Append(mintLog, cb) /\ webhookEvent' = webhookEvent
    BY DEF mintBrlt, at, mints
  <1> HIDE DEF old
  <1>2. cb \in CallbackType /\ Known(cb)
    BY <1>1 DEF RecordsOK
  <1>3. cb = [id |-> cb.id, order |-> cb.id[1], status |-> cb.id[2]]
    BY <1>2 DEF CallbackType, Known
  <1>4. cb \in confirmations
    BY <1>1, <1>2, <1>3 DEF confirmations, Known
  <1>5. ~Ledger!minted(cb)
    BY <1>1 DEF RecordsOK, Ledger!minted
  <1>6. confirmations' = confirmations
    BY <1>1 DEF confirmations
  <1> QED
    BY <1>1, <1>4, <1>5, <1>6 DEF Ledger!Next, Ledger!Mint

\* Events are recorded by Receive, and BRLT is minted for a callback by
\* mintBrlt; nobody else touches the two.
LEMMA LedgerWrites ==
    ASSUME [Next]_vars
    PROVE  \/ UNCHANGED <<webhookEvent, mintLog>>
           \/ \E o \in Deposit, s \in DepositOutcomes : Receive(o, s)
           \/ \E h \in handling : mintBrlt(h.callback)
  <1>1. ASSUME NEW o \in Deposit, NewDeposit(o) PROVE UNCHANGED <<webhookEvent, mintLog>>
    BY <1>1 DEF NewDeposit, createDeposit, createDepositOrder
  <1>2. ASSUME NEW cb, Handle(cb) PROVE UNCHANGED <<webhookEvent, mintLog>> \/ mintBrlt(cb)
    BY <1>2 DEF Handle, HandlerStep, HandlerReturn, handleStatus, failNoWallet, approve, mintError,
                handlerCrash
  <1>3. ASSUME NEW p \in Operator,
               \/ \E o \in Deposit, decision \in {"APPROVED", "REJECTED"} : approveTransaction(p, o, decision)
               \/ RejectStore(p) \/ ApproveMint(p) \/ ApproveStore(p) \/ ApproveFails(p)
        PROVE  UNCHANGED <<webhookEvent, mintLog>>
    BY <1>3 DEF approveTransaction, RejectStore, ApproveMint, ApproveStore, ApproveFails, apiVars
  <1>4. ASSUME NEW t \in Tab,
               \/ \E o \in Deposit : markAsPaid(t, o) \/ handleFinalize(t, o)
               \/ \E o \in Withdrawal : handleWithdraw(t, o)
               \/ MarkAsPaidStore(t) \/ runOnChainDeposit(t) \/ withdraw(t) \/ DialogFails(t)
        PROVE  UNCHANGED <<webhookEvent, mintLog>>
    BY <1>4 DEF markAsPaid, handleFinalize, handleWithdraw, MarkAsPaidStore, runOnChainDeposit, withdraw,
                DialogFails, Stage, submitSignedTx, submitDuplicate, SubmitGivenUp, buildDepositStage,
                submitDepositStage, CompletedStore, submitWithdrawal, withdrawalRow,
                createWithdrawalOrder, apiVars
  <1>5. ASSUME NEW tx \in late, LateTransaction(tx) PROVE UNCHANGED <<webhookEvent, mintLog>>
    BY <1>5 DEF LateTransaction, apiVars
  <1>6. CASE UNCHANGED vars
    BY <1>6 DEF vars, apiVars
  <1>7. ASSUME NEW o, NEW tx, createWithdrawal(o, tx) PROVE UNCHANGED <<webhookEvent, mintLog>>
    BY <1>7 DEF createWithdrawal, withdrawalRow, createWithdrawalOrder
  <1> QED
    BY <1>1, <1>2, <1>3, <1>4, <1>5, <1>6, <1>7 DEF Next

\* With operators, dialogs and late transactions around them the callbacks
\* still mint once for each confirmation receivePixWebhook has recorded, and
\* for nothing else.
THEOREM WalletImplementsMintLedger == Spec => ImplementsMintLedger
  <1>1. Init => TransactionsInv
    BY TransactionsInit
  <1>2. TransactionsInv /\ [Next]_vars => TransactionsInv'
    BY TransactionsStep
  <1>3. Init => Ledger!Init
    BY DEF Init, ApiInit, Ledger!Init, confirmations
  <1>4. ASSUME TransactionsInv, [Next]_vars PROVE [Ledger!Next]_(Ledger!ledgerVars)
    <2>1. RecordsOK
      BY <1>4 DEF TransactionsInv, BooksOK
    <2>2. CASE UNCHANGED <<webhookEvent, mintLog>>
      BY <2>2 DEF Ledger!ledgerVars, confirmations
    <2> QED
      BY <1>4, <2>1, <2>2, LedgerWrites, ReceiveLedger, MintLedgerStep
  <1> QED
    BY <1>1, <1>2, <1>3, <1>4, PTL DEF Spec, ImplementsMintLedger, Ledger!Spec
=============================================================================
