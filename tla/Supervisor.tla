----------------------------- MODULE Supervisor -----------------------------
(***************************************************************************)
(* main.go and the docker service around it: the start, the two goroutines *)
(* of the errgroup, the goroutine that waits for signals, the end of the   *)
(* process and its restart.                                                *)
(*                                                                         *)
(* Two contexts matter.  basectx is done once a signal came (`stopped`);   *)
(* egctx, its child, is also done once a goroutine has failed.  Both loops *)
(* select on egctx, but a run of the syncer works on basectx.              *)
(*                                                                         *)
(* A select whose context and timer are both ready may take either.  Time  *)
(* is left out but for this: a timer that was just set is not ready, and   *)
(* a goroutine with a ready case does not wait until its timer is.         *)
(***************************************************************************)
EXTENDS Naturals

CONSTANT MaxFaults   \* bound: failed calls, deaths of the process and signals

ASSUME SupervisorAssumption == MaxFaults \in Nat

VARIABLES
  openFaucet,  \* flag -faucet
  dockerStop,  \* docker was told to stop the service
  main,        \* the call main is about to make, or how the process ended
  notified,    \* are signals turned into cancel()?
  stopped,     \* basectx is done
  failed,      \* the errgroup has an error
  sync,        \* the goroutines: where they are, whether their timer is
  faucet,      \* ready, what they began after egctx was done (history)
  faults       \* history: faults so far

service == <<openFaucet, dockerStop>>
vars == <<service, main, notified, stopped, failed, sync, faucet, faults>>

Startup == {"dial", "chainId", "connect"}
Ends == {"exit 0", "exit 1", "killed"}

Idle == [at |-> "off", timer |-> FALSE, late |-> 0]

Fault == faults < MaxFaults /\ faults' = faults + 1

Done == stopped \/ failed

Init ==
  /\ openFaucet \in BOOLEAN /\ dockerStop = FALSE
  /\ main = "dial" /\ notified = FALSE /\ stopped = FALSE /\ failed = FALSE
  /\ sync = Idle /\ faucet = Idle
  /\ faults = 0

-----------------------------------------------------------------------------
(* The main goroutine.                                                      *)

(* Variant with a bug: the goroutines start before the tables are there.    *)
StartEarly ==
  /\ main \in Startup
  /\ main' = CASE main = "dial" -> "chainId" [] main = "chainId" -> "connect"
               [] main = "connect" -> "wait"
  /\ sync' = [sync EXCEPT !.at = IF main = "chainId" THEN "prefight" ELSE @]
  /\ faucet' = [faucet EXCEPT !.at = IF main = "chainId" THEN "open" ELSE @]
  /\ UNCHANGED <<service, notified, stopped, failed, faults>>

(* Dial, ChainID with the test of the network, Connect with its ping; then  *)
(* the two goroutines start.                                               *)
Start ==
  /\ main \in Startup
  /\ main' = CASE main = "dial" -> "chainId" [] main = "chainId" -> "connect"
               [] main = "connect" -> "wait"
  /\ sync' = [sync EXCEPT !.at = IF main = "connect" THEN "prefight" ELSE @]
  /\ faucet' = [faucet EXCEPT !.at = IF main = "connect" THEN "open" ELSE @]
  /\ UNCHANGED <<service, notified, stopped, failed, faults>>

(* logrus.Fatalf: no connection, no answer or the wrong network.            *)
StartFails ==
  /\ main \in Startup /\ Fault
  /\ main' = "exit 1"
  /\ UNCHANGED <<service, notified, stopped, failed, sync, faucet>>

(* The goroutine of signal.Notify.                                          *)
Notify ==
  /\ main = "wait" /\ ~notified
  /\ notified' = TRUE
  /\ UNCHANGED <<service, main, stopped, failed, sync, faucet, faults>>

(* Variant with a bug: the error of the errgroup is dropped.                *)
WaitQuietly ==
  /\ main = "wait" /\ sync.at = "returned" /\ faucet.at = "returned"
  /\ main' = "exit 0"
  /\ UNCHANGED <<service, notified, stopped, failed, sync, faucet, faults>>

(* eg.Wait: the first error, if any, is fatal.                              *)
Wait ==
  /\ main = "wait" /\ sync.at = "returned" /\ faucet.at = "returned"
  /\ main' = IF failed THEN "exit 1" ELSE "exit 0"
  /\ UNCHANGED <<service, notified, stopped, failed, sync, faucet, faults>>

(* SIGINT or SIGTERM, from `docker stop` or from elsewhere.                 *)
Signal ==
  /\ main \notin Ends /\ Fault
  /\ dockerStop' \in {dockerStop, TRUE}
  /\ IF notified THEN stopped' = TRUE /\ UNCHANGED main
                 ELSE main' = "killed" /\ UNCHANGED stopped
  /\ UNCHANGED <<openFaucet, notified, failed, sync, faucet>>

Die ==
  /\ main \notin Ends /\ Fault
  /\ main' = "killed"
  /\ UNCHANGED <<service, notified, stopped, failed, sync, faucet>>

Boot ==
  /\ main' = "dial" /\ notified' = FALSE /\ stopped' = FALSE /\ failed' = FALSE
  /\ sync' = Idle /\ faucet' = Idle
  /\ UNCHANGED <<service, faults>>

(* Variant with a bug: restart on-failure.                                  *)
RestartOnFailure == main \in Ends \ {"exit 0"} /\ ~dockerStop /\ Boot

(* docker-compose: restart unless-stopped.                                  *)
Restart == main \in Ends /\ ~dockerStop /\ Boot

StaysDown == main \in Ends /\ dockerStop /\ UNCHANGED vars

-----------------------------------------------------------------------------
(* The goroutines.                                                          *)

InSync ==
  /\ main = "wait"
  /\ UNCHANGED <<service, main, notified, stopped, faucet>>

InFaucet ==
  /\ main = "wait"
  /\ UNCHANGED <<service, main, notified, stopped, sync>>

(* A goroutine returns an error: a call failed, maybe because egctx is done.*)
Fails == failed' = TRUE /\ (Fault \/ (Done /\ UNCHANGED faults))

Carry == UNCHANGED <<failed, faults>>

(* Into the loop, with a timer of no duration; out of it.                   *)
Begin(loop) == [loop EXCEPT !.at = "select", !.timer = TRUE]
Return(loop) == [loop EXCEPT !.at = "returned"]

(* The timer's case is taken.                                               *)
Take(loop, label) ==
  [loop EXCEPT !.at = label, !.timer = FALSE, !.late = IF Done THEN @ + 1 ELSE @]

Prefight ==
  /\ InSync /\ sync.at = "prefight"
  /\ \/ sync' = Begin(sync) /\ Carry
     \/ sync' = Return(sync) /\ Fails

(* Variant with a bug: the loop selects on basectx.                         *)
SyncStopsOnSignalOnly ==
  /\ InSync /\ sync.at = "select" /\ stopped
  /\ sync' = Return(sync) /\ Carry

SyncStops ==
  /\ InSync /\ sync.at = "select" /\ Done
  /\ sync' = Return(sync) /\ Carry

StartRun ==
  /\ InSync /\ sync.at = "select" /\ sync.timer
  /\ sync' = Take(sync, "run") /\ Carry

(* A run ends, and its errors are only logged.  It need not notice that the *)
(* other goroutine has failed.                                             *)
EndRun ==
  /\ InSync /\ sync.at = "run"
  /\ sync' = [sync EXCEPT !.at = "select"] /\ Carry

(* The flag, the key file and Initial.                                      *)
Open ==
  /\ InFaucet /\ faucet.at = "open"
  /\ \/ ~openFaucet /\ faucet' = Return(faucet) /\ Carry
     \/ openFaucet /\ faucet' = Begin(faucet) /\ Carry
     \/ openFaucet /\ faucet' = Return(faucet) /\ Fails

FaucetStops ==
  /\ InFaucet /\ faucet.at \in {"select", "settle"} /\ Done
  /\ faucet' = Return(faucet) /\ Carry

(* SendDrips after the timer, CheckDrips five seconds after it.             *)
StartPass ==
  /\ InFaucet /\ faucet.at \in {"select", "settle"} /\ faucet.timer
  /\ faucet' = Take(faucet, IF faucet.at = "select" THEN "send" ELSE "check")
  /\ Carry

(* Variant with a bug: the timer is still ready after the pass.             *)
EndPassTimerReady ==
  /\ InFaucet /\ faucet.at \in {"send", "check"}
  /\ faucet' = [at |-> IF faucet.at = "send" THEN "settle" ELSE "select",
                timer |-> TRUE, late |-> faucet.late]
  /\ Carry

EndPass ==
  /\ InFaucet /\ faucet.at \in {"send", "check"}
  /\ faucet' = [faucet EXCEPT !.at = IF @ = "send" THEN "settle" ELSE "select"]
  /\ Carry

(* Half a minute, five seconds or a minute are over.                        *)
TimerFires ==
  /\ ~Done /\ Carry
  /\ \/ InSync /\ sync.at = "select" /\ sync' = Begin(sync)
     \/ /\ InFaucet /\ faucet.at \in {"select", "settle"}
        /\ faucet' = [faucet EXCEPT !.timer = TRUE]

-----------------------------------------------------------------------------
Main == Start \/ StartFails \/ Notify \/ Wait \/ Restart

Sync == Prefight \/ SyncStops \/ StartRun \/ EndRun

Faucet == Open \/ FaucetStops \/ StartPass \/ EndPass

Next == Main \/ Sync \/ Faucet \/ TimerFires \/ Signal \/ Die \/ StaysDown

Spec == Init /\ [][Next]_vars

(* Goroutines are scheduled, their calls have deadlines, docker restarts.   *)
(* Timers need not fire for the process to end.                             *)
FairSpec == Spec /\ WF_vars(Main) /\ WF_vars(Sync) /\ WF_vars(Faucet)

-----------------------------------------------------------------------------
(* Properties.                                                              *)

Goroutine(labels) == [at : labels, timer : BOOLEAN, late : Nat]

TypeOK ==
  /\ openFaucet \in BOOLEAN /\ dockerStop \in BOOLEAN
  /\ main \in Startup \cup {"wait"} \cup Ends
  /\ notified \in BOOLEAN /\ stopped \in BOOLEAN /\ failed \in BOOLEAN
  /\ sync \in Goroutine({"off", "prefight", "select", "run", "returned"})
  /\ faucet \in Goroutine({"off", "open", "select", "send", "settle", "check",
                           "returned"})
  /\ main \in Startup => sync = Idle /\ faucet = Idle
  /\ faults \in Nat

(* The process ends on its own only after a signal or a failure: a faucet   *)
(* that is switched off does not take the syncer down, and a failure is     *)
(* never reported as success (eg.Wait).                                     *)
ExitTellsWhy ==
  /\ sync.at = "returned" => Done
  /\ main = "exit 0" => stopped /\ ~failed
  /\ main = "exit 1" => failed \/ sync = Idle

(* Once the process is to stop, each loop begins at most one more run or    *)
(* pass, the one whose timer was ready when the context was done.           *)
AtMostOneMore == sync.late <= 1 /\ faucet.late <= 1

(* The process ends after a signal and after a failure, although the syncer *)
(* does not hear of the latter before its run is over (main.go:109).        *)
ProcessEnds == Done ~> main \in Ends

(* Unless docker stopped it, the program comes back and both loops work.    *)
ComesBack ==
  \/ <>dockerStop
  \/ <>[](/\ main = "wait" /\ sync.at \in {"select", "run"}
          /\ openFaucet => faucet.at # "returned")
=============================================================================
