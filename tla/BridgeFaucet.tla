---------------------------- MODULE BridgeFaucet ----------------------------
(***************************************************************************)
(* The whole process (main.go): the syncer and the faucet as goroutines of *)
(* one process over one `deposits` table, which the first appends to and   *)
(* the second updates, each on a repository value of its own               *)
(* (repository.NewMetis).  The faucet's variables and actions are those of *)
(* Faucet; the syncer joins them.                                          *)
(*                                                                         *)
(* Every step is one of the two components' steps; what they do together   *)
(* is to die and to be restarted.  The failure of one goroutine's start is *)
(* one step with the end of the process: whatever the other one still does *)
(* before the process is gone it might as well have done before            *)
(* (Supervisor has the details).                                           *)
(***************************************************************************)
EXTENDS Faucet, FiniteSets

CONSTANTS
  MetisEvents, RangeSync, Unstorable,
  MaxHead   \* bound

(* The assumptions of the syncer.                                           *)
ASSUME BridgeAssumption ==
  /\ IsFiniteSet(Event) /\ Height \in [Event -> Nat \ {0}]
  /\ RangeSync \in Nat /\ DripHeight \in Nat
  /\ Unstorable \subseteq Event
  /\ MaxHead \in Nat

VARIABLES
  number,   \* the database
  head,     \* the node
  \* the syncer
  syncPc, height, targetHeight, endHeight, found, syncFaults, lostAcks

Syncer == INSTANCE DataSync WITH pc <- syncPc, faults <- syncFaults

syncVars == <<number, head, syncPc, height, targetHeight, endHeight, found,
              syncFaults, lostAcks>>
faucetVars == <<drips, pool, mined, paid, walletNonce, account, pc,
                nonce, page, item, recset, probe, tx, faults,
                freshAtStart, nonceBehind>>
bridgeVars == <<deposits, syncVars, faucetVars>>

BridgeInit == Syncer!Init /\ Init

-----------------------------------------------------------------------------
Commit ==
  /\ Syncer!SaveRange \/ Syncer!SaveRangeUnacknowledged
  /\ Len(deposits) + Len(found) <= MaxRows
  /\ UNCHANGED faucetVars

(* The syncer's other steps.                                                *)
SyncLoop ==
  /\ \/ Syncer!Prefight \/ Syncer!BlockNumber \/ Syncer!StartRange
     \/ Syncer!EndRun \/ Syncer!FilterEvents \/ Syncer!RunFails
  /\ UNCHANGED faucetVars

DripLoop ==
  /\ Initial \/ SendingPass \/ CheckingPass
  /\ UNCHANGED syncVars

(* An error of either start ends the errgroup and the process.              *)
StartFails ==
  \/ Syncer!PrefightFails /\ Crash
  \/ Syncer!Crash /\ InitialFails

Die == Syncer!Crash /\ Crash

ComeBack == Syncer!Restart /\ Restart

Mine == MineNext /\ UNCHANGED syncVars

World ==
  \/ Syncer!NewBlock /\ UNCHANGED faucetVars
  \/ NodeActivity /\ UNCHANGED syncVars

BridgeNext ==
  SyncLoop \/ Commit \/ DripLoop \/ StartFails \/ Die \/ ComeBack \/ Mine \/ World

BridgeSpec == BridgeInit /\ [][BridgeNext]_bridgeVars

(* Each goroutine is scheduled and its calls have deadlines; a dead process *)
(* is restarted; the chain mines what it can.                               *)
FairBridgeSpec ==
  /\ BridgeSpec
  /\ WF_bridgeVars(SyncLoop \/ Commit) /\ WF_bridgeVars(DripLoop)
  /\ WF_bridgeVars(ComeBack) /\ WF_bridgeVars(Mine)

-----------------------------------------------------------------------------
(* Properties.                                                              *)

(* The rows as they were inserted, before the faucet moved their status.    *)
inserted ==
  [i \in DOMAIN deposits |-> Syncer!FormatEvent(deposits[i].event)]

Record ==
  INSTANCE DataSync WITH deposits <- inserted, pc <- syncPc, faults <- syncFaults

(* What the faucet does to the shared table, and when the process dies of   *)
(* it, does not disturb the syncer: all it promises on its own holds.       *)
ImplementsSync == Record!Spec

(* The rows a step appends to the table, read off rather than guessed.      *)
appended == SubSeq(deposits', Len(deposits) + 1, Len(deposits'))

FaucetStep ==
  \/ Process \/ Crash \/ MineNext
  \/ appended \in Seq(NewRow) /\ DepositsSynced(appended)
  \/ NodeActivity

(* What the syncer does to the shared table is what the faucet was said to  *)
(* expect of it, so that all the faucet promises on its own holds.          *)
ImplementsFaucet == Init /\ [][FaucetStep]_vars

(* From the bridge event to the drip: nobody gets a drip for depositing     *)
(* METIS itself, nor for a deposit below the drip height, and the deposit   *)
(* has really been seen on the chain (formatEvent, shouldTransfer).         *)
DripsAreDue ==
  \A t \in drips :
    LET e == deposits[t.pid].event
    IN  /\ e \notin MetisEvents
        /\ Height[e] \in DripHeight..head

(* From the bridge event to the money: a transfer the chain has executed    *)
(* pays the recipient of a deposit that is due, and nobody is paid twice,   *)
(* though the syncer may record an event again, the faucet send a drip      *)
(* again, and the process die between any two calls.                       *)
TransfersAreDue ==
  \A t \in mined :
    LET e == deposits[t.pid].event
    IN  /\ t.to = To[e]
        /\ e \notin MetisEvents /\ Height[e] \in DripHeight..head
        /\ \A u \in mined : u.to = t.to => u = t

Settled(e) ==
  \E i \in DOMAIN deposits :
    /\ deposits[i].event = e
    /\ \/ deposits[i].status \in {"done", "ignore"}
       \/ \E t \in drips : t.pid = i /\ Dead(t)

(* What keeps a deposit from being recorded or from being judged: an amount *)
(* too large for its column stops the syncer at its range, a token without  *)
(* a price or decimals ends every pass that meets it.                       *)
NeverRecorded(e) == \E u \in Unstorable : Height[u] <= Height[e] + RangeSync

JudgingBlocked(e) ==
  \E i, j \in RowsWith("unprocessed") :
    deposits[i].event = e /\ deposits[j].event \in Unpriceable

(* From the bridge event to the end of its story: every deposit below the   *)
(* latest block is recorded, judged and, when a drip is granted, executed   *)
(* on the chain, unless its drip is dead, an event that cannot be stored    *)
(* lies before it or in the same range, or it waits for its judgement       *)
(* together with a deposit whose value cannot be told.                      *)
EveryEventIsSettled ==
  \A e \in Event :
    Height[e] < head ~> Settled(e) \/ NeverRecorded(e) \/ JudgingBlocked(e)
=============================================================================
