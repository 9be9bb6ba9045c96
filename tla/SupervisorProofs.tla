-------------------------- MODULE SupervisorProofs --------------------------
(***************************************************************************)
(* Theorems about the end of the process, for any number of faults.        *)
(***************************************************************************)
EXTENDS Supervisor, TLAPS

(* A loop that began a run after the end was called has used up its timer,  *)
(* which fires no more.                                                     *)
LateOnce(loop) ==
  loop.late # 0 =>
    /\ loop.late = 1 /\ Done /\ ~loop.timer
    /\ loop.at \notin {"off", "prefight", "open"}

SupervisorInv ==
  TypeOK /\ ExitTellsWhy /\ LateOnce(sync) /\ LateOnce(faucet)

SyncLabels == {"off", "prefight", "select", "run", "returned"}
FaucetLabels == {"off", "open", "select", "send", "settle", "check", "returned"}

-----------------------------------------------------------------------------
(* The steps of the main goroutine and of the world outside.                *)

LEMMA IdleIsLoop ==
  /\ Idle \in Goroutine(SyncLabels) /\ Idle \in Goroutine(FaucetLabels)
  /\ Idle.late = 0 /\ Idle.at = "off"
BY DEF Idle, Goroutine, SyncLabels, FaucetLabels

LEMMA StartKeepsInv ==
  ASSUME SupervisorInv, Start
  PROVE  SupervisorInv'
<1> USE DEF SupervisorInv, Startup
<1>1. /\ main \in Startup /\ sync = Idle /\ faucet = Idle
      /\ UNCHANGED <<openFaucet, dockerStop, notified, stopped, failed, faults>>
  BY DEF Start, service, TypeOK
<1>2. CASE main = "connect"
  <2>1. /\ main' = "wait"
        /\ sync' = [at |-> "prefight", timer |-> FALSE, late |-> 0]
        /\ faucet' = [at |-> "open", timer |-> FALSE, late |-> 0]
    BY <1>1, <1>2 DEF Start, Idle
  <2>2. TypeOK'
    BY <1>1, <2>1 DEF TypeOK, Goroutine
  <2>3. QED
    BY <2>1, <2>2 DEF ExitTellsWhy, LateOnce
<1>3. CASE main # "connect"
  <2>1. main' \in Startup /\ sync' = sync /\ faucet' = faucet
    BY <1>1, <1>3 DEF Start, Idle
  <2>2. TypeOK'
    BY <1>1, <2>1 DEF TypeOK
  <2>3. QED
    BY <1>1, <2>1, <2>2, IdleIsLoop DEF ExitTellsWhy, LateOnce
<1>4. QED
  BY <1>2, <1>3

(* The process ends, or nothing but a context changes.                      *)
LEMMA MainKeepsInv ==
  ASSUME SupervisorInv,
         StartFails \/ Notify \/ Wait \/ Restart \/ Signal \/ Die
  PROVE  SupervisorInv'
<1> USE DEF SupervisorInv
<1>1. faults' \in Nat /\ UNCHANGED openFaucet
  <2>1. faults' = faults \/ faults' = faults + 1
    BY DEF StartFails, Notify, Wait, Restart, Boot, Signal, Die, Fault
  <2>2. UNCHANGED openFaucet
    BY DEF StartFails, Notify, Wait, Restart, Boot, Signal, Die, service
  <2>3. QED
    BY <2>1, <2>2 DEF TypeOK
<1>2. dockerStop' \in BOOLEAN /\ notified' \in BOOLEAN
  BY DEF StartFails, Notify, Wait, Restart, Boot, Signal, Die, TypeOK, service
<1>3. CASE Restart
  <2>1. /\ main' = "dial" /\ sync' = Idle /\ faucet' = Idle
        /\ notified' = FALSE /\ stopped' = FALSE /\ failed' = FALSE
    BY <1>3 DEF Restart, Boot
  <2>2. TypeOK'
    BY <1>1, <1>2, <2>1, IdleIsLoop DEF TypeOK, Startup, SyncLabels, FaucetLabels
  <2>3. QED
    BY <2>1, <2>2, IdleIsLoop DEF ExitTellsWhy, LateOnce
<1>4. CASE ~Restart
  <2>1. /\ UNCHANGED <<sync, faucet, failed>>
        /\ main' \in Startup => main \in Startup
        /\ main' \in Startup \cup {"wait"} \cup Ends
    BY <1>4
    DEF StartFails, Notify, Wait, Restart, Signal, Die, TypeOK, Startup, Ends
  <2>2. (stopped => stopped') /\ stopped' \in BOOLEAN
    BY <1>4 DEF StartFails, Notify, Wait, Signal, Die, TypeOK
  <2>3. TypeOK'
    BY <1>1, <1>2, <2>1, <2>2 DEF TypeOK
  <2>4. Done => Done'
    BY <2>1, <2>2 DEF Done
  <2>5. LateOnce(sync)' /\ LateOnce(faucet)'
    BY <2>1, <2>4 DEF LateOnce
  <2>6. /\ main' = "exit 0" => stopped' /\ ~failed'
        /\ main' = "exit 1" => failed' \/ sync' = Idle
    <3>1. CASE StartFails
      BY <2>1, <3>1 DEF StartFails, TypeOK
    <3>2. CASE Notify
      BY <2>1, <2>2, <3>2 DEF Notify
    <3>3. CASE Wait
      <4>1. Done /\ UNCHANGED <<stopped, failed>>
        BY <3>3 DEF Wait, ExitTellsWhy
      <4>2. CASE failed
        BY <3>3, <4>1, <4>2 DEF Wait
      <4>3. CASE ~failed
        <5>1. main' = "exit 0" /\ main' # "exit 1"
          BY <3>3, <4>3 DEF Wait
        <5>2. stopped' /\ ~failed'
          BY <4>1, <4>3 DEF Done
        <5>3. QED
          BY <5>1, <5>2
      <4>4. QED
        BY <4>2, <4>3
    <3>4. CASE Signal
      <4>1. main' = "killed" \/ main' = main
        BY <3>4 DEF Signal
      <4>2. main \notin {"exit 0", "exit 1"}
        BY <3>4 DEF Signal, Ends
      <4>3. QED
        BY <4>1, <4>2
    <3>5. CASE Die
      BY <3>5 DEF Die
    <3>6. QED
      BY <1>4, <3>1, <3>2, <3>3, <3>4, <3>5
  <2>7. ExitTellsWhy'
    BY <2>1, <2>4, <2>6 DEF ExitTellsWhy
  <2>8. QED
    BY <2>3, <2>5, <2>7
<1>5. QED
  BY <1>3, <1>4

(* A step of a goroutine that stays in its loop or leaves it.               *)
LEMMA LoopMoves ==
  ASSUME NEW labels, NEW loop \in Goroutine(labels), NEW label \in labels
  PROVE  /\ [loop EXCEPT !.at = label] \in Goroutine(labels)
         /\ [loop EXCEPT !.at = label].at = label
         /\ [loop EXCEPT !.at = label].timer = loop.timer
         /\ [loop EXCEPT !.at = label].late = loop.late
  BY DEF Goroutine

LEMMA LoopBegins ==
  ASSUME NEW labels, NEW loop \in Goroutine(labels), "select" \in labels
  PROVE  /\ Begin(loop) \in Goroutine(labels)
         /\ Begin(loop).at = "select" /\ Begin(loop).timer = TRUE
         /\ Begin(loop).late = loop.late
  BY DEF Goroutine, Begin

LEMMA LoopTakes ==
  ASSUME NEW labels, NEW loop \in Goroutine(labels), NEW label \in labels
  PROVE  /\ Take(loop, label) \in Goroutine(labels)
         /\ Take(loop, label).at = label /\ ~Take(loop, label).timer
         /\ ~Done => Take(loop, label).late = loop.late
         /\ Done => Take(loop, label).late = loop.late + 1
<1>1. CASE Done
  <2>1. Take(loop, label) =
          [loop EXCEPT !.at = label, !.timer = FALSE, !.late = loop.late + 1]
    BY <1>1 DEF Take
  <2>2. loop.late + 1 \in Nat
    BY DEF Goroutine
  <2>3. QED
    BY <1>1, <2>1, <2>2 DEF Goroutine
<1>2. CASE ~Done
  <2>1. Take(loop, label) =
          [loop EXCEPT !.at = label, !.timer = FALSE, !.late = loop.late]
    BY <1>2 DEF Take
  <2>2. QED
    BY <1>2, <2>1 DEF Goroutine
<1>3. QED
  BY <1>1, <1>2

LEMMA FailsTypes ==
  ASSUME TypeOK, Fails
  PROVE  failed' = TRUE /\ faults' \in Nat
  BY DEF TypeOK, Fails, Fault

LEMMA SyncKeepsInv ==
  ASSUME SupervisorInv, Sync
  PROVE  SupervisorInv'
<1> USE DEF SupervisorInv
<1>0. /\ main = "wait" /\ sync \in Goroutine(SyncLabels)
      /\ UNCHANGED <<openFaucet, dockerStop, main, notified, stopped, faucet>>
      /\ "select" \in SyncLabels /\ "returned" \in SyncLabels /\ "run" \in SyncLabels
      /\ faults \in Nat
  BY DEF Sync, Prefight, SyncStops, StartRun, EndRun, InSync, service, TypeOK, SyncLabels
<1>1. ASSUME failed => failed', failed' \in BOOLEAN, faults' \in Nat,
             sync' \in Goroutine(SyncLabels), LateOnce(sync)',
             sync'.at = "returned" => Done'
      PROVE  SupervisorInv'
  <2>1. TypeOK'
    BY <1>0, <1>1 DEF TypeOK, SyncLabels, Startup
  <2>2. LateOnce(faucet)'
    BY <1>0, <1>1 DEF LateOnce, Done
  <2>3. ExitTellsWhy'
    BY <1>0, <1>1 DEF ExitTellsWhy
  <2>4. QED
    BY <1>1, <2>1, <2>2, <2>3
<1>2. CASE Prefight
  <2>1. sync.late = 0
    BY <1>2 DEF Prefight, LateOnce
  <2>2. CASE sync' = Begin(sync) /\ Carry
    <3>1. sync' \in Goroutine(SyncLabels) /\ sync'.late = 0 /\ sync'.at = "select"
      BY <1>0, <2>1, <2>2, LoopBegins
    <3>2. QED
      BY <1>0, <1>1, <2>2, <3>1 DEF Carry, LateOnce, TypeOK
  <2>3. CASE sync' = Return(sync) /\ Fails
    <3>1. sync' \in Goroutine(SyncLabels) /\ sync'.late = 0
      BY <1>0, <2>1, <2>3, LoopMoves DEF Return
    <3>2. failed' = TRUE /\ faults' \in Nat
      BY <2>3, FailsTypes
    <3>3. QED
      BY <1>1, <3>1, <3>2 DEF LateOnce, Done
  <2>4. QED
    BY <1>2, <2>2, <2>3 DEF Prefight
<1>3. CASE SyncStops
  <2>1. /\ sync' \in Goroutine(SyncLabels) /\ sync'.at = "returned"
        /\ sync'.timer = sync.timer /\ sync'.late = sync.late
    BY <1>0, <1>3, LoopMoves DEF SyncStops, Return
  <2>2. Done /\ UNCHANGED <<failed, faults>>
    BY <1>3 DEF SyncStops, Carry
  <2>3. QED
    BY <1>0, <1>1, <2>1, <2>2 DEF LateOnce, Done, TypeOK
<1>4. CASE StartRun
  <2>1. /\ sync' \in Goroutine(SyncLabels) /\ sync'.at = "run" /\ ~sync'.timer
        /\ ~Done => sync'.late = sync.late
        /\ Done => sync'.late = sync.late + 1
    BY <1>0, <1>4, LoopTakes DEF StartRun
  <2>2. sync.late = 0 /\ UNCHANGED <<failed, faults>>
    BY <1>4 DEF StartRun, LateOnce, Carry
  <2>3. QED
    BY <1>0, <1>1, <2>1, <2>2 DEF LateOnce, Done, TypeOK
<1>5. CASE EndRun
  <2>1. /\ sync' \in Goroutine(SyncLabels) /\ sync'.at = "select"
        /\ sync'.timer = sync.timer /\ sync'.late = sync.late
    BY <1>0, <1>5, LoopMoves DEF EndRun
  <2>2. UNCHANGED <<failed, faults>>
    BY <1>5 DEF EndRun, Carry
  <2>3. QED
    BY <1>0, <1>1, <2>1, <2>2 DEF LateOnce, Done, TypeOK
<1>6. QED
  BY <1>2, <1>3, <1>4, <1>5 DEF Sync

LEMMA FaucetKeepsInv ==
  ASSUME SupervisorInv, Faucet
  PROVE  SupervisorInv'
<1> USE DEF SupervisorInv
<1>0. /\ main = "wait" /\ faucet \in Goroutine(FaucetLabels)
      /\ UNCHANGED <<openFaucet, dockerStop, main, notified, stopped, sync>>
      /\ faults \in Nat
  BY DEF Faucet, Open, FaucetStops, StartPass, EndPass, InFaucet, service, TypeOK, FaucetLabels
<1>1. ASSUME failed => failed', failed' \in BOOLEAN, faults' \in Nat,
             faucet' \in Goroutine(FaucetLabels), LateOnce(faucet)'
      PROVE  SupervisorInv'
  <2>1. TypeOK'
    BY <1>0, <1>1 DEF TypeOK, FaucetLabels, Startup
  <2>2. LateOnce(sync)'
    BY <1>0, <1>1 DEF LateOnce, Done
  <2>3. ExitTellsWhy'
    BY <1>0, <1>1 DEF ExitTellsWhy, Done
  <2>4. QED
    BY <1>1, <2>1, <2>2, <2>3
<1>2. CASE Open
  <2>1. faucet.late = 0 /\ "returned" \in FaucetLabels /\ "select" \in FaucetLabels
    BY <1>2 DEF Open, LateOnce, FaucetLabels
  <2>2. CASE faucet' = Begin(faucet) /\ Carry
    <3>1. faucet' \in Goroutine(FaucetLabels) /\ faucet'.late = 0
      BY <1>0, <2>1, <2>2, LoopBegins
    <3>2. QED
      BY <1>0, <1>1, <2>2, <3>1 DEF Carry, LateOnce, TypeOK
  <2>3. ASSUME faucet' = Return(faucet), Carry \/ Fails PROVE SupervisorInv'
    <3>1. faucet' \in Goroutine(FaucetLabels) /\ faucet'.late = 0
      BY <1>0, <2>1, <2>3, LoopMoves DEF Return
    <3>2. (failed => failed') /\ failed' \in BOOLEAN /\ faults' \in Nat
      BY <1>0, <2>3, FailsTypes DEF Carry, TypeOK
    <3>3. QED
      BY <1>1, <3>1, <3>2 DEF LateOnce
  <2>4. QED
    BY <1>2, <2>2, <2>3 DEF Open
<1>3. CASE FaucetStops
  <2>1. /\ faucet' \in Goroutine(FaucetLabels) /\ faucet'.at = "returned"
        /\ faucet'.timer = faucet.timer /\ faucet'.late = faucet.late
    BY <1>0, <1>3, LoopMoves DEF FaucetStops, Return, FaucetLabels
  <2>2. UNCHANGED <<failed, faults>>
    BY <1>3 DEF FaucetStops, Carry
  <2>3. QED
    BY <1>0, <1>1, <2>1, <2>2 DEF LateOnce, Done, TypeOK
<1>4. CASE StartPass
  <2> PICK label \in {"send", "check"} : faucet' = Take(faucet, label)
    BY <1>4 DEF StartPass
  <2>1. /\ faucet' \in Goroutine(FaucetLabels) /\ faucet'.at = label /\ ~faucet'.timer
        /\ ~Done => faucet'.late = faucet.late
        /\ Done => faucet'.late = faucet.late + 1
    BY <1>0, <1>4, LoopTakes DEF FaucetLabels
  <2>2. faucet.late = 0 /\ UNCHANGED <<failed, faults>>
    BY <1>4 DEF StartPass, LateOnce, Carry
  <2>3. QED
    BY <1>0, <1>1, <2>1, <2>2 DEF LateOnce, Done, TypeOK
<1>5. CASE EndPass
  <2> PICK label \in {"settle", "select"} : faucet' = [faucet EXCEPT !.at = label]
    BY <1>5 DEF EndPass
  <2>1. /\ faucet' \in Goroutine(FaucetLabels) /\ faucet'.at = label
        /\ faucet'.timer = faucet.timer /\ faucet'.late = faucet.late
    BY <1>0, <1>5, LoopMoves DEF FaucetLabels
  <2>2. UNCHANGED <<failed, faults>>
    BY <1>5 DEF EndPass, Carry
  <2>3. QED
    BY <1>0, <1>1, <2>1, <2>2 DEF LateOnce, Done, TypeOK
<1>6. QED
  BY <1>2, <1>3, <1>4, <1>5 DEF Faucet

LEMMA TimerKeepsInv ==
  ASSUME SupervisorInv, TimerFires
  PROVE  SupervisorInv'
<1> USE DEF SupervisorInv
<1>1. sync.late = 0 /\ faucet.late = 0 /\ UNCHANGED <<failed, faults>> /\ ~Done
  BY DEF TimerFires, LateOnce, Carry
<1>2. CASE InSync /\ sync.at = "select" /\ sync' = Begin(sync)
  <2>1. /\ sync' \in Goroutine(SyncLabels) /\ sync'.late = 0 /\ sync'.at = "select"
    <3>1. sync \in Goroutine(SyncLabels) /\ "select" \in SyncLabels
      BY DEF TypeOK, SyncLabels
    <3>2. QED
      BY <1>1, <1>2, <3>1, LoopBegins
  <2>2. UNCHANGED <<openFaucet, dockerStop, main, notified, stopped, faucet>> /\ main = "wait"
    BY <1>2 DEF InSync, service
  <2>3. TypeOK'
    BY <1>1, <2>1, <2>2 DEF TypeOK, SyncLabels, Startup
  <2>4. QED
    BY <1>1, <2>1, <2>2, <2>3 DEF ExitTellsWhy, LateOnce
<1>3. CASE /\ InFaucet /\ faucet.at \in {"select", "settle"}
           /\ faucet' = [faucet EXCEPT !.timer = TRUE]
  <2>1. faucet' \in Goroutine(FaucetLabels) /\ faucet'.late = 0
    BY <1>1, <1>3 DEF TypeOK, FaucetLabels, Goroutine
  <2>2. UNCHANGED <<openFaucet, dockerStop, main, notified, stopped, sync>> /\ main = "wait"
    BY <1>3 DEF InFaucet, service
  <2>3. TypeOK'
    BY <1>1, <2>1, <2>2 DEF TypeOK, FaucetLabels, Startup
  <2>4. QED
    BY <1>1, <2>1, <2>2, <2>3 DEF ExitTellsWhy, LateOnce, Done
<1>4. QED
  BY <1>2, <1>3 DEF TimerFires

LEMMA SupervisorInvInductive == SupervisorInv /\ [Next]_vars => SupervisorInv'
<1> SUFFICES ASSUME SupervisorInv, [Next]_vars PROVE SupervisorInv'
  OBVIOUS
<1>1. CASE Main \/ Signal \/ Die
  BY <1>1, StartKeepsInv, MainKeepsInv DEF Main
<1>2. CASE Sync
  BY <1>2, SyncKeepsInv
<1>3. CASE Faucet
  BY <1>3, FaucetKeepsInv
<1>4. CASE TimerFires
  BY <1>4, TimerKeepsInv
<1>5. CASE StaysDown \/ UNCHANGED vars
  <2>1. UNCHANGED <<openFaucet, dockerStop, main, notified, stopped, failed, sync, faucet, faults>>
    BY <1>5 DEF StaysDown, vars, service
  <2>2. QED
    BY <2>1 DEF SupervisorInv, TypeOK, ExitTellsWhy, LateOnce, Done
<1>6. QED
  BY <1>1, <1>2, <1>3, <1>4, <1>5 DEF Next

LEMMA SupervisorInvariant == Spec => []SupervisorInv
<1>1. Init => SupervisorInv
  <2> SUFFICES ASSUME Init PROVE SupervisorInv
    OBVIOUS
  <2>1. /\ openFaucet \in BOOLEAN /\ dockerStop \in BOOLEAN /\ notified \in BOOLEAN
        /\ stopped \in BOOLEAN /\ failed \in BOOLEAN
    BY DEF Init
  <2>2. TypeOK
    BY <2>1, IdleIsLoop DEF Init, TypeOK, Startup, SyncLabels, FaucetLabels
  <2>3. QED
    BY <2>2, IdleIsLoop DEF Init, SupervisorInv, ExitTellsWhy, LateOnce
<1>2. QED
  BY <1>1, SupervisorInvInductive, PTL DEF Spec

(* The types of the state, and that no goroutine runs before main started   *)
(* both.                                                                    *)
THEOREM TypeCorrect == Spec => []TypeOK
<1>1. SupervisorInv => TypeOK
  BY DEF SupervisorInv
<1>2. QED
  BY <1>1, SupervisorInvariant, PTL

(* The exit status tells why the process ended, and the syncer ends only    *)
(* after a signal or a failure (eg.Wait, logrus.Fatal).                     *)
THEOREM StatusIsTrue == Spec => []ExitTellsWhy
<1>1. SupervisorInv => ExitTellsWhy
  BY DEF SupervisorInv
<1>2. QED
  BY <1>1, SupervisorInvariant, PTL

(* However the selects of main.go choose, a loop begins at most one run or  *)
(* pass after its context was done.                                         *)
THEOREM NoSecondLateRun == Spec => []AtMostOneMore
<1>1. SupervisorInv => AtMostOneMore
  BY DEF SupervisorInv, LateOnce, AtMostOneMore
<1>2. QED
  BY <1>1, SupervisorInvariant, PTL
=============================================================================
