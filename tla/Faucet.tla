------------------------------- MODULE Faucet -------------------------------
(***************************************************************************)
(* The faucet goroutine (internal/services/faucet.go, started by main.go): *)
(* it reads its wallet's nonce once, then for ever makes a sending pass    *)
(* over the unprocessed deposits and a checking pass over the drips that   *)
(* have no receipt yet.                                                    *)
(*                                                                         *)
(* Every call to the database and to the node is a step of its own when    *)
(* somebody else can act between it and the next one, and every one of     *)
(* them can fail: the answer is an error, the 5 s / 10 s / 5 min context   *)
(* expires, or the effect takes place and the answer is lost.  The process *)
(* may die at any point and is restarted by docker; the tables and the     *)
(* node survive it.                                                        *)
(***************************************************************************)
EXTENDS FaucetRepository

CONSTANTS
  Height,      \* Height[e]: the block of event e
  DripHeight,  \* deposits below this block get no drip (flag -height)
  Amount,      \* Amount[e]: the deposited amount in whole tokens
  Stable,      \* the events whose L2 token is USDT or USDC
  Price,       \* the USD prices the price service may quote
  Unpriceable, \* the events whose token has no pair or no decimals to read
  MinUSD,      \* the smallest deposit worth a drip, in USD (flag -minusd)
  Active,      \* bound: the accounts the outside world touches
  MaxRows,     \* bound: rows ever inserted into the deposits table
  MaxFaults    \* bound: crashes, failed calls, lost answers and evictions

ASSUME BoundsAssumption ==
  Unpriceable \subseteq Event /\ Active \subseteq Addr /\ MaxRows \in Nat /\ MaxFaults \in Nat

VARIABLES
  \* the node
  pool, mined, paid, walletNonce, account,
  \* the goroutine
  pc,            \* the call it is about to make
  nonce,         \* Faucet.nonce
  page,          \* rows of the current stream not yet consumed
  item,          \* the row being worked on
  recset,        \* recipients of this sending pass
  probe,         \* index in Probes of the next look at the recipient
  tx,            \* the signed transaction in hand
  \* history
  faults,        \* faults so far
  freshAtStart,  \* was the recipient fresh when its judgement began?
  nonceBehind    \* has the nonce counter ever fallen behind the drips table?

Node == INSTANCE L2Node

dbVars == <<deposits, drips>>
nodeVars == <<pool, mined, paid, walletNonce, account>>
localVars == <<nonce, page, item, recset, probe, tx>>
historyVars == <<faults, freshAtStart, nonceBehind>>
vars == <<dbVars, nodeVars, pc, localVars, historyVars>>

NoItem == 0
NoTx == [pid |-> 0]

(* Variant with a bug: the looks in the reverse order.                      *)
ProbesReversed == <<"nonce", "code", "balance">>

(* The three looks shouldTransfer takes at the recipient, in its order.     *)
Probes == <<"balance", "code", "nonce">>

SendCalls == {"idle", "send", "judge", "probe", "make", "save", "refuse"}
CheckCalls == {"settle", "check", "receipt", "confirm"}
PC == SendCalls \cup CheckCalls \cup {"down", "initial", "submit", "resend"}

Fault == faults < MaxFaults /\ faults' = faults + 1

Goto(label) == pc' = label

(* Leaving a pass drops its local variables; recset is local to one pass.   *)
LeaveTo(label) ==
  /\ Goto(label)
  /\ page' = {} /\ item' = NoItem /\ recset' = {} /\ probe' = 1 /\ tx' = NoTx
  /\ freshAtStart' = FALSE
  /\ UNCHANGED nonce

(* The loop's body is done with its item.                                   *)
NextItem(label) ==
  /\ Goto(label)
  /\ item' = NoItem /\ probe' = 1 /\ tx' = NoTx
  /\ freshAtStart' = FALSE
  /\ UNCHANGED <<nonce, page, recset>>

Init ==
  /\ deposits = <<>> /\ drips = {}
  /\ Node!NodeInit
  /\ pc = "initial"
  /\ nonce = 0 /\ page = {} /\ item = NoItem /\ recset = {} /\ probe = 1
  /\ tx = NoTx
  /\ faults = 0 /\ freshAtStart = FALSE /\ nonceBehind = FALSE

-----------------------------------------------------------------------------
(* Variant with a bug: the nonce of the last transaction, not the next one. *)
NonceAtLatestOffByOne == walletNonce - 1

(* NonceAt without a block number: a transaction that is persisted but not  *)
(* mined is not counted in it.                                              *)
NonceAtLatest == walletNonce

(* Faucet.Initial.                                                          *)
Initial ==
  /\ pc = "initial"
  /\ nonce' = NonceAtLatest
  /\ nonceBehind' = (nonceBehind \/ \E t \in drips : t.nonce >= NonceAtLatest)
  /\ Goto("idle")
  /\ UNCHANGED <<dbVars, nodeVars, page, item, recset, probe, tx,
                 faults, freshAtStart>>

(* The error of Initial ends the errgroup and, through logrus.Fatal, the    *)
(* process.                                                                 *)
InitialFails ==
  /\ pc = "initial"
  /\ Fault
  /\ Goto("down")
  /\ UNCHANGED <<dbVars, nodeVars, localVars, freshAtStart, nonceBehind>>

Crash ==
  /\ pc # "down"
  /\ Fault
  /\ Goto("down")
  /\ nonce' = 0
  /\ page' = {} /\ item' = NoItem /\ recset' = {} /\ probe' = 1 /\ tx' = NoTx
  /\ freshAtStart' = FALSE
  /\ UNCHANGED <<dbVars, nodeVars, nonceBehind>>

(* docker-compose: restart unless-stopped.                                  *)
Restart ==
  /\ pc = "down"
  /\ Goto("initial")
  /\ UNCHANGED <<dbVars, nodeVars, localVars, historyVars>>

-----------------------------------------------------------------------------
(* tryToSendDrip.                                                           *)

StartSending ==
  /\ pc = "idle"
  /\ page' \in GetDepositTxStream("unprocessed")
  /\ recset' = {}
  /\ Goto("send")
  /\ UNCHANGED <<dbVars, nodeVars, nonce, item, probe, tx, historyVars>>

TakeDeposit(i) ==
  /\ pc = "send" /\ i \in page
  /\ page' = page \ {i}
  /\ item' = i
  /\ freshAtStart' = Node!Fresh(Recipient(i))
  /\ Goto("judge")
  /\ UNCHANGED <<dbVars, nodeVars, nonce, recset, probe, tx,
                 faults, nonceBehind>>

EndSending ==
  /\ pc = "send" /\ page = {}
  /\ LeaveTo("settle")
  /\ UNCHANGED <<dbVars, nodeVars, faults, nonceBehind>>

(* The value test of shouldTransfer: a stable token counts as 1 USD.        *)
WorthADrip(e, price) ==
  (IF e \in Stable THEN 1 ELSE price) * Amount[e] >= MinUSD

(* The tests before the value is asked for: this pass has served the        *)
(* recipient already, or the deposit is old.                               *)
NoNeed(i) ==
  \/ Recipient(i) \in recset
  \/ Height[deposits[i].event] < DripHeight

CannotBeJudged ==
  pc = "judge" /\ ~NoNeed(item) /\ deposits[item].event \in Unpriceable

(* shouldTransfer up to the first look at the recipient's account.  What it *)
(* reads is written by this goroutine alone, or is external and unrelated,  *)
(* so these calls are one step.                                             *)
JudgePasses ==
  /\ pc = "judge" /\ ~NoNeed(item) /\ ~CannotBeJudged
  /\ \E p \in Price : WorthADrip(deposits[item].event, p)
  /\ HasGotDrip(Recipient(item))
  /\ Goto("probe")
  /\ UNCHANGED <<dbVars, nodeVars, localVars, historyVars>>

JudgeRefuses ==
  /\ pc = "judge" /\ ~CannotBeJudged
  /\ \/ NoNeed(item)
     \/ \E p \in Price : ~WorthADrip(deposits[item].event, p)
     \/ ~HasGotDrip(Recipient(item))
  /\ Goto("refuse")
  /\ UNCHANGED <<dbVars, nodeVars, localVars, historyVars>>

(* Variant with a bug: the nonce is spent although NewDrip failed.          *)
SendingFailsNonceSpent ==
  /\ \/ pc \in SendCalls /\ Fault
     \/ CannotBeJudged /\ UNCHANGED faults
  /\ Goto("settle")
  /\ nonce' = IF pc = "save" THEN nonce + 1 ELSE nonce
  /\ page' = {} /\ item' = NoItem /\ recset' = {} /\ probe' = 1 /\ tx' = NoTx
  /\ freshAtStart' = FALSE
  /\ UNCHANGED <<dbVars, nodeVars, nonceBehind>>

(* Every error in the pass before the transaction is handed to the node     *)
(* makes tryToSendDrip return: the rest of the page waits for the next pass.*)
(* A token whose value cannot be told is such an error, every time.         *)
SendingFails ==
  /\ \/ pc \in SendCalls /\ Fault
     \/ CannotBeJudged /\ UNCHANGED faults
  /\ LeaveTo("settle")
  /\ UNCHANGED <<dbVars, nodeVars, nonceBehind>>

(* BalanceAt, CodeAt, NonceAt: one look each, while the account lives on.   *)
ProbePasses ==
  /\ pc = "probe"
  /\ Probes[probe] \notin account[Recipient(item)]
  /\ IF probe < Len(Probes)
     THEN probe' = probe + 1 /\ Goto("probe")
     ELSE probe' = 1 /\ Goto("make")
  /\ UNCHANGED <<dbVars, nodeVars, nonce, page, item, recset, tx, historyVars>>

ProbeRefuses ==
  /\ pc = "probe"
  /\ Probes[probe] \in account[Recipient(item)]
  /\ probe' = 1
  /\ Goto("refuse")
  /\ UNCHANGED <<dbVars, nodeVars, nonce, page, item, recset, tx, historyVars>>

(* makeDripTx: the transaction signed for a deposit with the nonce in hand. *)
DripTx(i) == [pid |-> i, to |-> Recipient(i), nonce |-> nonce]

(* The transaction is made, and its recipient marked in recset.             *)
MakeDripTx ==
  /\ pc = "make"
  /\ tx' = DripTx(item)
  /\ recset' = recset \cup {Recipient(item)}
  /\ Goto("save")
  /\ UNCHANGED <<dbVars, nodeVars, nonce, page, item, probe, historyVars>>

(* NewDrip commits and says so: only then does the nonce advance.           *)
SaveDrip ==
  /\ pc = "save"
  /\ NewDrip(item, tx)
  /\ nonce' = nonce + 1
  /\ Goto("submit")
  /\ UNCHANGED <<nodeVars, page, item, recset, probe, tx, historyVars>>

(* NewDrip commits but its caller gets an error.                            *)
SaveDripUnacknowledged ==
  /\ pc = "save"
  /\ Fault
  /\ NewDrip(item, tx)
  /\ LeaveTo("settle")
  /\ nonceBehind' = TRUE
  /\ UNCHANGED nodeVars

(* The refusal is recorded: NewDrip with a nil drip.                        *)
IgnoreDeposit ==
  /\ pc = "refuse"
  /\ NewDripNil(item)
  /\ NextItem("send")
  /\ UNCHANGED <<nodeVars, faults, nonceBehind>>

IgnoreDepositUnacknowledged ==
  /\ pc = "refuse"
  /\ Fault
  /\ NewDripNil(item)
  /\ LeaveTo("settle")
  /\ UNCHANGED <<nodeVars, nonceBehind>>

SubmitDrip ==
  /\ pc = "submit"
  /\ Node!Accept(tx)
  /\ NextItem("send")
  /\ UNCHANGED <<dbVars, faults, nonceBehind>>

(* Variant with a bug: the nonce is given back when the node says no.       *)
SubmitDripFailsNonceReturned ==
  /\ pc = "submit"
  /\ Fault
  /\ Goto("settle")
  /\ nonce' = tx.nonce
  /\ page' = {} /\ item' = NoItem /\ recset' = {} /\ probe' = 1 /\ tx' = NoTx
  /\ freshAtStart' = FALSE
  /\ UNCHANGED <<dbVars, nodeVars, nonceBehind>>

(* SendTransaction returns an error, whether the node has the transaction   *)
(* or not: the pass ends, the drip stays in the table.                      *)
SubmitDripFails ==
  /\ pc = "submit"
  /\ \/ Fault /\ (Node!Accept(tx) \/ UNCHANGED nodeVars)
     \/ /\ tx.nonce < walletNonce \/ \E u \in pool : u.nonce = tx.nonce
        /\ UNCHANGED <<nodeVars, faults>>
  /\ LeaveTo("settle")
  /\ UNCHANGED <<dbVars, nonceBehind>>

-----------------------------------------------------------------------------
(* tryToCheckDrip, five seconds after the sending pass.                     *)

StartChecking ==
  /\ pc = "settle"
  /\ page' \in GetPendingDripsStream
  /\ Goto("check")
  /\ UNCHANGED <<dbVars, nodeVars, nonce, item, recset, probe, tx,
                 historyVars>>

TakeDrip(t) ==
  /\ pc = "check" /\ t \in drips /\ t.pid \in page
  /\ page' = page \ {t.pid}
  /\ item' = t.pid
  /\ tx' = t
  /\ Goto("receipt")
  /\ UNCHANGED <<dbVars, nodeVars, nonce, recset, probe, historyVars>>

EndChecking ==
  /\ pc = "check" /\ page = {}
  /\ LeaveTo("idle")
  /\ UNCHANGED <<dbVars, nodeVars, faults, nonceBehind>>

CheckingFails ==
  /\ pc \in CheckCalls
  /\ Fault
  /\ LeaveTo("idle")
  /\ UNCHANGED <<dbVars, nodeVars, nonceBehind>>

(* Variant with a bug: a transaction the node knows counts as done.         *)
GetTxStatusKnownIsDone ==
  /\ pc = "receipt"
  /\ Goto(IF tx \in pool \cup mined THEN "confirm" ELSE "resend")
  /\ UNCHANGED <<dbVars, nodeVars, localVars, historyVars>>

(* getTxStatus: done as soon as there is a receipt, whatever it says.       *)
GetTxStatus ==
  /\ pc = "receipt"
  /\ Goto(IF tx \in mined THEN "confirm" ELSE "resend")
  /\ UNCHANGED <<dbVars, nodeVars, localVars, historyVars>>

(* Variant with a bug: a drip without a receipt is only skipped.            *)
ResendDripSkipped ==
  /\ pc = "resend"
  /\ NextItem("check")
  /\ UNCHANGED <<dbVars, nodeVars, faults, nonceBehind>>

(* No receipt: the stored transaction is sent again and the result ignored. *)
ResendDrip ==
  /\ pc = "resend"
  /\ \/ Node!Accept(tx) /\ UNCHANGED faults
     \/ Fault /\ UNCHANGED nodeVars
     \/ /\ tx.nonce < walletNonce \/ \E u \in pool : u.nonce = tx.nonce
        /\ UNCHANGED <<nodeVars, faults>>
  /\ NextItem("check")
  /\ UNCHANGED <<dbVars, nonceBehind>>

ConfirmDrip ==
  /\ pc = "confirm"
  /\ UpdateDripStatus(item, "done")
  /\ NextItem("check")
  /\ UNCHANGED <<nodeVars, faults, nonceBehind>>

ConfirmDripUnacknowledged ==
  /\ pc = "confirm"
  /\ Fault
  /\ UpdateDripStatus(item, "done")
  /\ LeaveTo("idle")
  /\ UNCHANGED <<nodeVars, nonceBehind>>

-----------------------------------------------------------------------------
(* The environment: the syncer inserts the deposits of a range in one       *)
(* transaction, some of them born ignored and the same event again after a  *)
(* commit whose answer it lost; the chain moves.                           *)

DepositsSynced(rows) ==
  /\ Len(deposits) + Len(rows) <= MaxRows
  /\ deposits' = deposits \o rows
  /\ UNCHANGED <<drips, nodeVars, pc, localVars, historyVars>>

Synced ==
  \E n \in 1..(MaxRows - Len(deposits)) :
    \E rows \in [1..n -> NewRow] : DepositsSynced(rows)

MineDrip(t) ==
  /\ Node!Mine(t)
  /\ UNCHANGED <<dbVars, pc, localVars, historyVars>>

EvictDrip(t) ==
  /\ Fault
  /\ Node!Evict(t)
  /\ UNCHANGED <<dbVars, pc, localVars, freshAtStart, nonceBehind>>

AccountActivity(a) ==
  /\ Node!OutsideActivity(a)
  /\ UNCHANGED <<dbVars, pc, localVars, historyVars>>

-----------------------------------------------------------------------------
SendingPass ==
  \/ StartSending \/ EndSending \/ SendingFails
  \/ \E i \in DOMAIN deposits : TakeDeposit(i)
  \/ JudgePasses \/ JudgeRefuses \/ ProbePasses \/ ProbeRefuses
  \/ MakeDripTx \/ SaveDrip \/ SaveDripUnacknowledged
  \/ IgnoreDeposit \/ IgnoreDepositUnacknowledged
  \/ SubmitDrip \/ SubmitDripFails

CheckingPass ==
  \/ StartChecking \/ EndChecking \/ CheckingFails
  \/ \E t \in drips : TakeDrip(t)
  \/ GetTxStatus \/ ResendDrip \/ ConfirmDrip \/ ConfirmDripUnacknowledged

Process ==
  Initial \/ InitialFails \/ Restart \/ SendingPass \/ CheckingPass

NodeActivity ==
  \/ \E t \in pool : EvictDrip(t)
  \/ \E a \in Active : AccountActivity(a)

Environment == Synced \/ NodeActivity

MineNext == \E t \in pool : MineDrip(t)

Next == Process \/ Crash \/ Environment \/ MineNext

Spec == Init /\ [][Next]_vars

(* The goroutine's timers always fire and its calls have deadlines, so it   *)
(* never stops; a running chain mines what it can.  Nothing is assumed of   *)
(* faults except that there are finitely many.                              *)
FairSpec == Spec /\ WF_vars(Process) /\ WF_vars(MineNext)

-----------------------------------------------------------------------------
(* Properties.                                                              *)

TypeOK ==
  /\ deposits \in Seq(Row)
  /\ drips \subseteq Drip
  /\ pool \subseteq Drip /\ mined \subseteq Drip /\ paid \subseteq Drip
  /\ walletNonce \in Nat
  /\ account \in [Addr -> SUBSET Node!Marks]
  /\ pc \in PC
  /\ nonce \in Nat
  /\ page \subseteq DOMAIN deposits
  /\ item \in DOMAIN deposits \cup {NoItem}
  /\ recset \subseteq Addr
  /\ probe \in 1..Len(Probes)
  /\ tx \in Drip \cup {NoTx}
  /\ faults \in Nat
  /\ freshAtStart \in BOOLEAN /\ nonceBehind \in BOOLEAN

(* Write-ahead: a transaction the node has ever heard of is a row of drips, *)
(* so that no crash can make the faucet forget money it has spent           *)
(* (tryToSendDrip calls NewDrip before SendTransaction).                    *)
WriteAhead ==
  /\ pool \cup mined \subseteq drips
  /\ paid \subseteq mined

(* An address is granted at most one drip and a deposit carries at most     *)
(* one, across passes, crashes, lost answers and duplicated deposits        *)
(* (recset, HasGotDrip and the primary key of drips).                       *)
OneDripPerAddress ==
  \A t, u \in drips : t.to = u.to \/ t.pid = u.pid => t = u

(* The status column and the drips table tell the same story: a deposit has *)
(* a drip exactly when it is processing or done (NewDrip's transaction).    *)
StatusMatchesDrips ==
  \A i \in DOMAIN deposits :
    deposits[i].status \in {"processing", "done"}
      <=> \E t \in drips : t.pid = i

(* A done deposit has been executed on the chain, and has been paid unless  *)
(* its recipient has become a contract since it was judged to be an EOA.    *)
DoneMeansExecuted ==
  \A t \in drips :
    deposits[t.pid].status = "done" =>
      t \in mined /\ (t \in paid \/ "code" \in account[t.to])

(* Balance, code and nonce are read one after the other, but in an order in *)
(* which the answers amount to one consistent look: a recipient that passes *)
(* all three had been a fresh account when its judgement began.             *)
DripsGoToFreshAccounts ==
  pc \in {"make", "save", "submit"} => freshAtStart

(* The nonces of the drips leave no gap, whatever fails: a transaction      *)
(* behind a missing nonce would never be mined.                             *)
NoNonceGap ==
  \A t \in drips : \A n \in 0..t.nonce : \E u \in drips : u.nonce = n

(* A drip is dead when another one has used up its nonce.                   *)
Dead(t) == t \notin mined /\ t.nonce < walletNonce

(* Two drips share a nonce, and one of them dies, only if the counter had   *)
(* fallen behind the table: by a start that found unmined drips or by a     *)
(* NewDrip whose commit was not acknowledged.                               *)
NoncesUniqueUnlessBehind ==
  nonceBehind \/ \A t, u \in drips : ~Dead(t) /\ (t.nonce = u.nonce => t = u)

(* When shouldTransfer answers "transfered before" (faucet.go:146), the     *)
(* address has been, or still can be, paid.                                 *)
TransferedBefore ==
  pc = "judge" =>
    \A t \in drips : t.to = Recipient(item) => ~Dead(t)

(* The faucet implements the ledger.                                        *)
Ledger ==
  INSTANCE DripLedger WITH
    book <- deposits,
    granted <- {<<t.pid, t.to>> : t \in drips},
    executed <- {t.pid : t \in mined}

ImplementsLedger == Ledger!LedgerSpec

(* Every deposit is eventually judged, whatever happened to the nonces,     *)
(* unless the value of a waiting deposit cannot be told: the error ends     *)
(* every pass that meets it (faucet.go:124, 135).                          *)
EveryDepositIsJudged ==
  \A i \in 1..MaxRows :
    (i \in RowsWith("unprocessed")) ~>
      \/ i \notin RowsWith("unprocessed")
      \/ \E j \in RowsWith("unprocessed") : deposits[j].event \in Unpriceable

(* Every drip is eventually confirmed, even one that shares its nonce,      *)
(* unless it is dead or more drips are pending than a checking pass looks   *)
(* at (LIMIT 20).  A transaction lost before or after it reached the node   *)
(* is sent again by CheckDrips.                                            *)
EveryLiveDripIsConfirmed ==
  \A i \in 1..MaxRows :
    (i \in RowsWith("processing")) ~>
      \/ i \in RowsWith("done")
      \/ \E t \in drips : t.pid = i /\ Dead(t)
      \/ Cardinality(RowsWith("processing")) > PageLimit
=============================================================================
