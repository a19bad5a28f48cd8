---------------------------- MODULE WindowsObserver ----------------------------
(***************************************************************************)
(* The Windows observer (bridge/windows/observer.py): one asyncio thread   *)
(* on which the scan loop, the command loop, at most one pairing attempt   *)
(* and its heartbeat interleave.  The attempt delegates Bluetooth to a     *)
(* helper program that a scheduled task runs in the session of the user;   *)
(* helper and service share only files, and the helper outlives the        *)
(* service.                                                                *)
(*                                                                         *)
(* The pc of the attempt is the await it is suspended on.  A cancellation  *)
(* is delivered at once: task.cancel() and what the attempt does with the  *)
(* CancelledError up to its next await are one step.  Home Assistant, the  *)
(* helper and the radio are the environment.  A deadline is the time that  *)
(* is left.                                                                *)
(***************************************************************************)
EXTENDS Integers

CONSTANTS
  Sids,        \* sessions of Home Assistant
  NoSession,
  AttemptTTL   \* the longest deadline of an attempt (300 s)

ASSUME ObserverAssumption ==
  /\ NoSession \notin Sids
  /\ AttemptTTL \in Nat \ {0}

VARIABLES
  interactive,  \* config: the helper is installed
  loop,         \* what _pairing_command_loop is doing
  session,      \* _active_pairing_session_id
  task,         \* _active_pairing_task
  beating,      \* heartbeat_task is set
  shown,        \* the last status published for the attempt
  lease,        \* _app_attempt_expires_at
  offer,        \* the session of _bond_repair_offer
  committed,    \* _ha_pairing_committed
  paused,       \* _scanner_pause_requested
  scanner,      \* the scan loop; "stopped" is _scanner_stopped
  helper,       \* what the helper program runs
  ha            \* how far Home Assistant is with each session

attempt_vars == <<task, beating, shown, lease, offer>>
radio_vars   == <<paused, scanner, helper>>
vars == <<interactive, loop, session, attempt_vars, committed, radio_vars, ha>>

-----------------------------------------------------------------------------
(* Values                                                                  *)

Unset == -1

Receipts == {"completion", "failure"}
HelperPcs == {"end_old", "run", "poll", "end"}
Tasks ==
  [pc : {"none", "created", "pause", "baseline", "client", "capture", "stop_heartbeat",
         "confirm", "pause_again", "stop_failed", "offer", "final",
         "visible", "watch", "hide"} \cup HelperPcs,
   kind : {"app", "manual"},
   use : {"claim"} \cup Receipts,                          \* of the helper
   outcome : {"success", "gatt", "error", "cancelled"},     \* of the helper
   holds : BOOLEAN]                                         \* scanner_paused
NoTask == [pc |-> "none", kind |-> "app", use |-> "claim", outcome |-> "error",
           holds |-> FALSE]

Idle == [pc |-> "idle", sid |-> NoSession, kind |-> "app"]
NoHelper == [use |-> "none", sid |-> NoSession]

Active == task.pc # "none"
At(pc) == task.pc = pc
Using(use) == task.use = use
GoTo(pc) == task' = [task EXCEPT !.pc = pc]

-----------------------------------------------------------------------------
(* How an attempt ends                                                     *)

\* Mutant: the finally clause forgets the scan.
NeverReleased == task' = NoTask /\ UNCHANGED paused

\* The end of the finally clause: _resume_scanner_after_pairing, if scanner_paused.
Released ==
  /\ task' = NoTask
  /\ paused' = (paused /\ ~task.holds)

\* The finally clause of _run_app_pairing_session; it waits for the heartbeat.
Finally ==
  /\ beating' = FALSE
  /\ IF beating THEN GoTo("final") /\ UNCHANGED paused ELSE Released

\* except CancelledError, except Exception: the terminal status, then finally; the
\* one of _run_pairing_session first hides the radio again.
Terminal ==
  /\ shown' = "terminal"
  /\ IF task.kind = "manual"
     THEN GoTo("hide") /\ UNCHANGED <<paused, beating>>
     ELSE Finally

\* except ReverseGattError, once the heartbeat is gone: the terminal status, and the
\* phone is told if the helper is there and there is time.
Failed ==
  /\ shown' = "terminal"
  /\ IF interactive /\ lease > 0
     THEN /\ task' = [task EXCEPT !.pc = "end_old", !.use = "failure"]
          /\ UNCHANGED <<paused, beating>>
     ELSE Finally

\* Mutant: the heartbeat goes on while the failure is reported.
FailsBeating == Failed

\* except ReverseGattError: the heartbeat is stopped first.
Fails ==
  /\ beating' = FALSE
  /\ IF beating THEN GoTo("stop_failed") /\ UNCHANGED <<paused, shown>> ELSE Failed

\* What the attempt does when _run_interactive_app_pairing returns or raises.
HelperGives(outcome) ==
  CASE Using("failure") -> Finally /\ UNCHANGED shown
    [] ~Using("failure") /\ outcome = "gatt" -> Fails
    [] ~Using("failure") /\ outcome \in {"error", "cancelled"} -> Terminal
    [] Using("completion") /\ outcome = "success" -> Finally /\ UNCHANGED shown
    [] Using("claim") /\ outcome = "success" ->
         GoTo("capture") /\ UNCHANGED <<paused, beating, shown>>

-----------------------------------------------------------------------------
(* The attempt                                                             *)

Begin ==
  /\ At("created")
  /\ paused' = TRUE
  /\ GoTo("pause")
  /\ UNCHANGED <<interactive, loop, session, beating, shown, lease, offer, committed,
                 scanner, helper, ha>>

\* Mutant: the scan is not waited for.
PausesAtOnce ==
  /\ task.pc \in {"pause", "pause_again"}
  /\ task' = [task EXCEPT !.pc = IF At("pause") THEN "baseline" ELSE "end_old",
                          !.use = IF At("pause") THEN "claim" ELSE "completion",
                          !.holds = TRUE]
  /\ UNCHANGED <<interactive, loop, session, beating, shown, lease, offer, committed,
                 radio_vars, ha>>

\* _scanner_stopped.wait() returns.
ScanPaused ==
  /\ task.pc \in {"pause", "pause_again"}
  /\ scanner = "stopped"
  /\ task' = [task EXCEPT !.pc = IF At("pause") THEN "baseline" ELSE "end_old",
                          !.use = IF At("pause") THEN "claim" ELSE "completion",
                          !.holds = TRUE]
  /\ UNCHANGED <<interactive, loop, session, beating, shown, lease, offer, committed,
                 radio_vars, ha>>

\* _pause_scanner_for_pairing raises.
PauseGivenUp ==
  /\ paused' = FALSE
  /\ shown' = "terminal"
  /\ task' = IF task.kind = "manual" THEN [task EXCEPT !.pc = "hide"] ELSE NoTask
  /\ UNCHANGED beating

\* The scan did not stop in time.
PauseTimesOut ==
  /\ task.pc \in {"pause", "pause_again"}
  /\ scanner # "stopped"
  /\ PauseGivenUp
  /\ UNCHANGED <<interactive, loop, session, lease, offer, committed, scanner, helper, ha>>

\* read_windows_private_ble_irks before the pairing.
BaselineRead ==
  /\ At("baseline")
  /\ IF task.kind = "manual"
     THEN GoTo("visible") /\ UNCHANGED <<beating, shown>>
     ELSE /\ GoTo(IF interactive THEN "end_old" ELSE "client")
          /\ shown' = "progress"
          /\ beating' = TRUE
  /\ UNCHANGED <<interactive, loop, session, lease, offer, committed, radio_vars, ha>>

\* _pairing_heartbeat_loop publishes the progress once more.
Heartbeat ==
  /\ beating
  /\ shown' = "progress"
  /\ UNCHANGED <<interactive, loop, session, task, beating, lease, offer, committed,
                 radio_vars, ha>>

\* What a call of schtasks that is not waited for may have done.
MaybeCalled ==
  {helper} \cup IF At("run") THEN {[use |-> task.use, sid |-> session]} ELSE {NoHelper}

\* schtasks /End, then /Run, which may refuse; it does without a helper.
HelperCall ==
  /\ \/ /\ At("end_old")
        /\ helper' = NoHelper
        /\ GoTo("run")
        /\ UNCHANGED <<paused, beating, shown>>
     \/ /\ At("run")
        /\ interactive
        /\ helper' = [use |-> task.use, sid |-> session]
        /\ GoTo("poll")
        /\ UNCHANGED <<paused, beating, shown>>
     \/ /\ At("run")
        /\ HelperGives("gatt")
        /\ UNCHANGED helper
  /\ UNCHANGED <<interactive, loop, session, lease, offer, committed, scanner, ha>>

\* schtasks does not answer in time: nothing ends what it may have done.
CallTimesOut ==
  /\ task.pc \in {"end_old", "run", "end"}
  /\ helper' \in MaybeCalled
  /\ HelperGives("error")
  /\ UNCHANGED <<interactive, loop, session, lease, offer, committed, scanner, ha>>

\* Mutant: the last report sets the deadline.
LastReport(reported) == IF reported < AttemptTTL THEN reported ELSE AttemptTTL

\* The deadline after a report of the helper or of the client.
Bounded(reported) ==
  LET latest == IF reported < AttemptTTL THEN reported ELSE AttemptTTL
  IN  IF lease = Unset \/ latest < lease THEN latest ELSE lease

\* The result file, or the progress callback of the client, has news: a progress
\* that carries a deadline or one that starts the attempt's time.
Progress(reported) ==
  /\ At("client") \/ (At("poll") /\ helper = [use |-> task.use, sid |-> session])
  /\ lease' = Bounded(reported)
  /\ lease' > 0
  /\ shown' = IF Using("claim") THEN "progress" ELSE shown
  /\ UNCHANGED <<interactive, loop, session, task, beating, offer, committed, radio_vars,
                 ha>>

\* The helper finished or failed, or its time is over; the finally clause ends it.
Polled(outcome) ==
  /\ At("poll")
  /\ \/ outcome \in {"success", "gatt"} /\ lease # 0
     \/ outcome = "gatt" /\ lease <= 0
  /\ task' = [task EXCEPT !.pc = "end", !.outcome = outcome]
  /\ UNCHANGED <<interactive, loop, session, beating, shown, lease, offer, committed,
                 radio_vars, ha>>

HelperEnded ==
  /\ At("end")
  /\ helper' = NoHelper
  /\ HelperGives(task.outcome)
  /\ UNCHANGED <<interactive, loop, session, lease, offer, committed, scanner, ha>>

\* The client in this process, on a machine without the helper.
ClientEnded(outcome) ==
  /\ At("client")
  /\ HelperGives(outcome)
  /\ UNCHANGED <<interactive, loop, session, lease, offer, committed, scanner, helper, ha>>

\* The key of the phone is in the registry.
Captured ==
  /\ At("capture")
  /\ lease > 0
  /\ beating' = FALSE
  /\ GoTo("stop_heartbeat")
  /\ UNCHANGED <<interactive, loop, session, shown, lease, offer, committed, radio_vars,
                 ha>>

\* The heartbeat is gone: status, scan and result.
Reported ==
  /\ At("stop_heartbeat")
  /\ shown' = "captured"
  /\ paused' = FALSE
  /\ task' = [task EXCEPT !.pc = "confirm", !.holds = FALSE]
  /\ ha' = IF ha[session] = "open" THEN [ha EXCEPT ![session] = "reported"] ELSE ha
  /\ UNCHANGED <<interactive, loop, session, beating, lease, offer, committed, scanner,
                 helper>>

\* _ha_pairing_committed.wait() returns; the scan is paused once more.
Confirmed ==
  /\ At("confirm")
  /\ committed
  /\ paused' = TRUE
  /\ GoTo("pause_again")
  /\ UNCHANGED <<interactive, loop, session, beating, shown, lease, offer, committed,
                 scanner, helper, ha>>

\* Mutant: Home Assistant is waited for without a limit.
RaisesUnlessWaiting ==
  /\ task.pc \in {"baseline", "capture", "visible", "watch"}
  /\ Terminal
  /\ UNCHANGED <<interactive, loop, session, lease, offer, committed, scanner, helper, ha>>

\* The registry or the radio cannot be read or set, two keys appear, none appears in
\* time; or Home Assistant does not confirm before the deadline.
Raises ==
  /\ \/ task.pc \in {"baseline", "capture", "visible", "watch"}
     \/ At("confirm") /\ lease = 0
  /\ Terminal
  /\ UNCHANGED <<interactive, loop, session, lease, offer, committed, scanner, helper, ha>>

\* The manual pairing: the radio becomes visible, then one new key is reported.
ManualStep ==
  /\ \/ /\ At("visible")
        /\ shown' = "progress"
        /\ GoTo("watch")
        /\ UNCHANGED ha
     \/ /\ At("watch")
        /\ shown' = "captured"
        /\ GoTo("hide")
        /\ ha' = IF ha[session] = "open" THEN [ha EXCEPT ![session] = "reported"] ELSE ha
  /\ UNCHANGED <<interactive, loop, session, beating, lease, offer, committed, radio_vars>>

\* The heartbeat that Fails cancelled is gone; a saved bond that cannot be reached
\* is looked up, to offer its removal.
HeartbeatGone ==
  /\ At("stop_failed")
  /\ \/ GoTo("offer") /\ UNCHANGED <<paused, beating, shown>>
     \/ Failed
  /\ UNCHANGED <<interactive, loop, session, lease, offer, committed, scanner, helper, ha>>

\* _offer_bond_repair knows whose bond it is, or not.
Offered ==
  /\ At("offer")
  /\ offer' \in {offer, session}
  /\ Failed
  /\ UNCHANGED <<interactive, loop, session, lease, committed, scanner, helper, ha>>

\* The last await of a finally clause.
Ended ==
  /\ task.pc \in {"final", "hide"}
  /\ Released
  /\ UNCHANGED <<interactive, loop, session, beating, shown, lease, offer, committed,
                 scanner, helper, ha>>

\* task.cancel().  A task that has not begun never begins.  An await of the
\* cancelled heartbeat swallows it; one that hides the radio is left by it, and
\* with it the finally clause.
Cancelled ==
  CASE task.pc \in {"created", "hide"} ->
         task' = NoTask /\ UNCHANGED <<beating, shown, paused, helper>>
    [] task.pc \in {"pause", "pause_again"} -> PauseGivenUp /\ UNCHANGED helper
    [] task.pc \in {"baseline", "client", "capture", "confirm", "visible", "watch"} ->
         Terminal /\ UNCHANGED helper
    [] At("poll") ->
         /\ task' = [task EXCEPT !.pc = "end", !.outcome = "cancelled"]
         /\ UNCHANGED <<beating, shown, paused, helper>>
    [] task.pc \in {"end_old", "run", "end"} ->
         helper' \in MaybeCalled /\ HelperGives("cancelled")
    [] At("offer") -> Finally /\ UNCHANGED <<shown, helper>>
    [] task.pc \in {"none", "stop_heartbeat", "stop_failed", "final"} ->
         UNCHANGED <<task, beating, shown, paused, helper>>

-----------------------------------------------------------------------------
(* The command loop: one command at a time.  Any command may come late, and *)
(* once more than it was sent (QoS 1): the queue is not a variable, the    *)
(* loop takes any command that was ever sent.                              *)

Takes == loop.pc = "idle"

TakeComplete(sid) ==
  /\ Takes
  /\ ha[sid] = "committed"
  /\ committed' = (committed \/ (sid = session /\ Active))
  /\ UNCHANGED <<interactive, loop, session, attempt_vars, radio_vars, ha>>

\* A cancel of another session is ignored.
TakeCancel ==
  /\ Takes
  /\ Cancelled
  /\ UNCHANGED <<interactive, loop, session, lease, offer, committed, scanner, ha>>

\* A start that is invalid or has expired, of the running attempt too: the refusal is
\* published before the loop looks for a duplicate, and the attempt goes on.  After a
\* result or an end "shown" stays: what may follow those is the question.
TakeInvalidStart(sid) ==
  /\ Takes
  /\ shown' = IF sid = session /\ shown \in {"none", "progress"} THEN "refused" ELSE shown
  /\ UNCHANGED <<interactive, loop, session, task, beating, lease, offer, committed,
                 radio_vars, ha>>

\* A start that is valid and not one of the running attempt: that is cancelled and
\* waited for.
TakeStart(sid, kind) ==
  /\ Takes
  /\ ~(Active /\ kind = task.kind /\ sid = session)
  /\ Cancelled
  /\ loop' = [Idle EXCEPT !.pc = "start", !.sid = sid, !.kind = kind]
  /\ UNCHANGED <<interactive, session, lease, offer, committed, scanner, ha>>

NewAttempt ==
  /\ offer' = NoSession
  /\ session' = loop.sid
  /\ lease' = Unset
  /\ task' = [NoTask EXCEPT !.pc = "created", !.kind = loop.kind]
  /\ shown' = "none"

\* Mutant: the confirmation of the last session is kept.
StartedCommitted ==
  /\ loop.pc = "start"
  /\ ~Active
  /\ loop' = Idle
  /\ NewAttempt
  /\ UNCHANGED <<interactive, beating, committed, radio_vars, ha>>

\* The old attempt is over; the new one is created.
Started ==
  /\ loop.pc = "start"
  /\ ~Active
  /\ loop' = Idle
  /\ NewAttempt
  /\ committed' = FALSE
  /\ UNCHANGED <<interactive, beating, radio_vars, ha>>

\* _run_identity_removal of a request that was not answered before; while an attempt
\* runs it is refused.
TakeRemove ==
  /\ Takes
  /\ ~Active
  /\ loop' = [Idle EXCEPT !.pc = "remove_pause"]
  /\ paused' = TRUE
  /\ UNCHANGED <<interactive, session, attempt_vars, committed, scanner, helper, ha>>

\* The offer is the one of this attempt and has not expired.  The failed attempt
\* that made it is cancelled.
TakeRepair ==
  /\ Takes
  /\ offer # NoSession
  /\ offer = session
  /\ offer' = NoSession
  /\ loop' = [Idle EXCEPT !.pc = "repair"]
  /\ Cancelled
  /\ UNCHANGED <<interactive, session, lease, committed, scanner, ha>>

\* wait_for(task, 10) cancels the attempt once more and goes on waiting.
RepairWaitsTooLong ==
  /\ loop.pc = "repair"
  /\ Active
  /\ Cancelled
  /\ loop' = [loop EXCEPT !.pc = "repair_late"]
  /\ UNCHANGED <<interactive, session, lease, offer, committed, scanner, ha>>

\* The attempt is over.  If it took the second cancellation the repair fails.
RepairGoesOn ==
  /\ loop.pc \in {"repair", "repair_late"}
  /\ ~Active
  /\ \/ loop' = [loop EXCEPT !.pc = "remove_pause"] /\ paused' = TRUE
     \/ loop.pc = "repair_late" /\ loop' = Idle /\ UNCHANGED paused
  /\ UNCHANGED <<interactive, session, attempt_vars, committed, scanner, helper, ha>>

\* The scan has stopped, or did not in time.
RemovalPaused ==
  /\ loop.pc = "remove_pause"
  /\ IF scanner = "stopped"
     THEN loop' = [loop EXCEPT !.pc = "remove"] /\ UNCHANGED paused
     ELSE loop' = Idle /\ paused' = FALSE
  /\ UNCHANGED <<interactive, session, attempt_vars, committed, scanner, helper, ha>>

\* remove_identity_bonds returned or raised (RemovalJournal); a removal that needs
\* the helper ends what it ran.
RemovalDone ==
  /\ loop.pc = "remove"
  /\ loop' = Idle
  /\ paused' = FALSE
  /\ helper' \in {helper, NoHelper}
  /\ UNCHANGED <<interactive, session, attempt_vars, committed, scanner, ha>>

-----------------------------------------------------------------------------
(* The scan loop                                                           *)

\* A pass of run(): the scan starts, is interrupted by a pause, is refreshed, or
\* fails and waits for retry_interval with _scanner_stopped still clear.
ScanStep ==
  /\ \/ scanner = "stopped" /\ ~paused /\ scanner' = "scanning"
     \/ scanner = "scanning" /\ scanner' \in {"stopped", "failed"}
     \/ scanner = "failed" /\ scanner' = "stopped"
  /\ UNCHANGED <<interactive, loop, session, attempt_vars, committed, paused, helper, ha>>

-----------------------------------------------------------------------------
(* The environment                                                         *)

\* Home Assistant has verified and stored the identity.
HaCommits(sid) ==
  /\ ha[sid] = "reported"
  /\ ha' = [ha EXCEPT ![sid] = "committed"]
  /\ UNCHANGED <<interactive, loop, session, attempt_vars, committed, radio_vars>>

\* The helper program ends by its own deadline.
HelperExits ==
  /\ helper # NoHelper
  /\ helper' = NoHelper
  /\ UNCHANGED <<interactive, loop, session, attempt_vars, committed, paused, scanner, ha>>

Tick ==
  /\ lease > 0
  /\ lease' = lease - 1
  /\ UNCHANGED <<interactive, loop, session, task, beating, shown, offer, committed,
                 radio_vars, ha>>

Init ==
  /\ interactive \in BOOLEAN
  /\ loop = Idle
  /\ session = NoSession
  /\ task = NoTask
  /\ beating = FALSE
  /\ shown = "none"
  /\ lease = Unset
  /\ offer = NoSession
  /\ committed = FALSE
  /\ paused = FALSE
  /\ scanner = "stopped"
  /\ helper = NoHelper
  /\ ha = [sid \in Sids |-> "open"]

\* The service is killed and started again; the helper program runs on.
Restart ==
  /\ loop' = Idle
  /\ session' = NoSession
  /\ task' = NoTask
  /\ beating' = FALSE
  /\ shown' = "none"
  /\ lease' = Unset
  /\ offer' = NoSession
  /\ committed' = FALSE
  /\ paused' = FALSE
  /\ scanner' = "stopped"
  /\ UNCHANGED <<interactive, helper, ha>>

-----------------------------------------------------------------------------
(* The specification                                                       *)

\* The end of each await of the attempt.
TaskStep ==
  \/ Begin \/ ScanPaused \/ PauseTimesOut \/ BaselineRead \/ HelperCall \/ CallTimesOut
  \/ \E outcome \in {"success", "gatt", "error"} : Polled(outcome) \/ ClientEnded(outcome)
  \/ HelperEnded \/ Captured \/ Reported \/ Confirmed \/ Raises \/ ManualStep
  \/ HeartbeatGone \/ Offered \/ Ended

\* The end of each await of the command loop.
LoopStep ==
  \/ Started \/ RepairWaitsTooLong \/ RepairGoesOn \/ RemovalPaused \/ RemovalDone

\* The command loop takes a command.
Takings ==
  \/ \E sid \in Sids : TakeComplete(sid) \/ TakeStart(sid, "app") \/ TakeStart(sid, "manual")
                       \/ TakeInvalidStart(sid)
  \/ TakeCancel \/ TakeRemove \/ TakeRepair

Environment ==
  \/ \E sid \in Sids : HaCommits(sid)
  \/ \E reported \in 0 .. AttemptTTL + 1 : Progress(reported)
  \/ HelperExits \/ Restart

Next == TaskStep \/ LoopStep \/ Takings \/ Heartbeat \/ ScanStep \/ Environment \/ Tick

Spec == Init /\ [][Next]_vars

\* Every await of the attempt has a timeout or ends with its deadline, those of the
\* command loop have one or are for the end of a cancelled attempt, a failed scan
\* waits a bounded time, and time passes.
Fairness == WF_vars(TaskStep) /\ WF_vars(LoopStep) /\ WF_vars(ScanStep) /\ WF_vars(Tick)

FairSpec == Spec /\ Fairness

-----------------------------------------------------------------------------
(* Properties                                                              *)

\* The variables keep their types.
TypeOK ==
  /\ interactive \in BOOLEAN
  /\ loop \in [pc : {"idle", "start", "repair", "repair_late", "remove_pause", "remove"},
               sid : Sids \cup {NoSession}, kind : {"app", "manual"}]
  /\ session \in Sids \cup {NoSession}
  /\ task \in Tasks
  /\ beating \in BOOLEAN
  /\ shown \in {"none", "progress", "refused", "captured", "terminal"}
  /\ lease \in Unset .. AttemptTTL
  /\ offer \in Sids \cup {NoSession}
  /\ committed \in BOOLEAN
  /\ paused \in BOOLEAN
  /\ scanner \in {"stopped", "scanning", "failed"}
  /\ helper \in {NoHelper} \cup [use : {"claim"} \cup Receipts, sid : Sids]
  /\ ha \in [Sids -> {"open", "reported", "committed"}]

\* "leaving the adapter free": no scan runs while an attempt or a removal uses the
\* radio, although each pauses and resumes the scan for itself, more than once, and
\* may be interrupted in between.
UsesRadio ==
  \/ task.pc \in HelperPcs \cup {"baseline", "client", "capture", "stop_heartbeat", "visible",
                                 "watch"}
  \/ loop.pc = "remove"

AdapterIsFree == UsesRadio => scanner = "stopped"

\* What the panel is told never goes back: once an attempt has published its result
\* or its end, no heartbeat and no late report shows it in progress again.  The "error"
\* of a refused start of the same session is not the end of the attempt: its heartbeat
\* does show progress after it (TakeInvalidStart).
StatusNeverGoesBack ==
  [][ ~(shown \in {"captured", "terminal"} /\ shown' = "progress") ]_vars

\* The deadline of an attempt is never renewed, whatever the helper reports.
DeadlineNeverRenewed ==
  [][ (task.pc \notin {"none", "created"} /\ task'.pc \notin {"none", "created"} /\ lease # Unset)
        => lease' # Unset /\ lease' <= lease ]_vars

\* "Pause the ... scanner during pairing and resume it automatically": an attempt of the
\* app and a removal that use the radio give it back to the scan.  A manual attempt
\* does not always: a second cancel during the await of its cleanup skips the rest.
ScanResumes == UsesRadio /\ task.kind = "app" ~> ~paused

\* The command loop comes back to its queue.
CommandsServed == loop.pc # "idle" ~> loop.pc = "idle"

\* The attempt as Enrollment sees it.  A receipt of a failure, and every end of a
\* finally clause, are the end of the attempt.
Phase ==
  CASE ~Active -> "idle"
    [] task.pc \in {"final", "hide", "stop_failed", "offer"} -> "ending"
    [] task.pc \in HelperPcs /\ Using("failure") -> "ending"
    [] task.pc \in HelperPcs /\ Using("completion") -> "receipt"
    [] task.pc \in {"confirm", "pause_again"} -> "reported"
    [] OTHER -> "pairing"

Promise ==
  INSTANCE Enrollment WITH
    attempt <- IF Active THEN session ELSE NoSession,
    phase <- Phase,
    removing <- loop.pc = "remove",
    committed <- {sid \in Sids : ha[sid] = "committed"}

\* The observer does what Home Assistant relies on (Enrollment), liveness included.
ImplementsEnrollment == Promise!Spec

=============================================================================
