------------------------ MODULE WindowsObserverProofs ------------------------
(***************************************************************************)
(* Theorems about WindowsObserver, for every set of sessions and every     *)
(* deadline: who may use the radio, what the panel is told, how long an    *)
(* attempt may take, that the observer takes only the steps that           *)
(* Enrollment allows, and of which sessions its helper reports a success.  *)
(***************************************************************************)
EXTENDS WindowsObserver, TLAPS

\* Between two awaits of a failure the attempt does not use the radio, but keeps it.
HoldsRadio == UsesRadio \/ task.pc \in {"stop_failed", "offer"}

\* Whoever holds the radio has asked the scan to pause, and it has stopped.
RadioInv ==
  /\ HoldsRadio => paused /\ scanner = "stopped"
  /\ task.pc \in {"pause", "pause_again"} => paused
  /\ loop.pc = "remove_pause" => paused

\* A removal begins when no attempt runs, and none is started before it is done.
LoopInv ==
  /\ loop.pc \in {"remove_pause", "remove"} => ~Active
  /\ loop.pc = "start" => loop.sid \in Sids
  /\ Active => session \in Sids

\* The heartbeat beats only while the first part of an attempt goes on.
Claiming == task.pc \in {"client", "capture"} \/ (task.pc \in HelperPcs /\ Using("claim"))

ShownInv ==
  /\ beating => Claiming /\ task.kind = "app"
  /\ Claiming \/ task.pc \in {"stop_heartbeat", "watch"} => shown \in {"progress", "refused"}
  /\ task.pc \in {"created", "pause", "baseline", "visible"} => shown \in {"none", "refused"}
  /\ task.pc \in {"created", "pause", "baseline"} => Using("claim")

\* What Home Assistant has confirmed to the attempt is stored.
CommitInv ==
  /\ committed /\ Active => ha[session] = "committed"
  /\ At("pause_again") => committed

IInv == TypeOK /\ RadioInv /\ LoopInv /\ ShownInv /\ CommitInv

-----------------------------------------------------------------------------
(* How an attempt is left                                                  *)

\* An error, a cancellation or the end: the heartbeat is over, and the radio is kept
\* only to report the failure.
Leaving ==
  /\ task' \in Tasks
  /\ \/ task'.pc \in {"none", "final", "hide"}
     \/ /\ task'.pc = "stop_failed" \/ (task'.pc = "end_old" /\ task'.use = "failure")
        /\ HoldsRadio
        /\ paused' = paused
  /\ beating' = FALSE
  /\ paused' \in BOOLEAN
  /\ shown' \in {shown, "terminal"}

LEMMA TaskTypes ==
  ASSUME IInv
  PROVE  /\ NoTask \in Tasks /\ NoTask.pc = "none"
         /\ LET failure == [task EXCEPT !.pc = "end_old", !.use = "failure"]
            IN  failure \in Tasks /\ failure.pc = "end_old" /\ failure.use = "failure"
         /\ paused \in BOOLEAN
BY DEF IInv, TypeOK, Tasks, NoTask, HelperPcs, Receipts

AttemptPcs == {"capture", "final", "hide", "stop_failed", "offer", "visible", "watch", "client",
               "baseline", "pause", "pause_again", "stop_heartbeat"} \cup HelperPcs

LEMMA GoToTypes ==
  ASSUME IInv, NEW pc \in AttemptPcs, GoTo(pc)
  PROVE  /\ task' \in Tasks /\ task'.pc = pc
         /\ task'.use = task.use /\ task'.kind = task.kind
BY DEF GoTo, AttemptPcs, IInv, TypeOK, Tasks, HelperPcs

LEMMA FinallyLeaves ==
  ASSUME IInv, Finally, shown' \in {shown, "terminal"}
  PROVE  Leaving
<1>1. CASE beating
  BY <1>1, GoToTypes, TaskTypes DEF Finally, Leaving, AttemptPcs
<1>2. CASE ~beating
  <2>1. task' = NoTask /\ beating' = FALSE
    BY <1>2 DEF Finally, Released
  <2>2. paused' = (paused /\ ~task.holds)
    BY <1>2 DEF Finally, Released
  <2>3. paused' \in BOOLEAN
    BY <2>2, Zenon
  <2> QED
    BY <2>1, <2>3, TaskTypes DEF Leaving
<1> QED
  BY <1>1, <1>2

LEMMA TerminalLeaves ==
  ASSUME IInv, Terminal
  PROVE  Leaving
<1>1. CASE task.kind = "manual"
  <2>1. GoTo("hide") /\ shown' = "terminal" /\ UNCHANGED <<paused, beating>>
    BY <1>1 DEF Terminal
  <2>2. beating = FALSE
    BY <1>1 DEF IInv, TypeOK, ShownInv
  <2> QED
    BY <2>1, <2>2, GoToTypes, TaskTypes DEF Leaving, AttemptPcs
<1>2. CASE task.kind # "manual"
  BY <1>2, FinallyLeaves DEF Terminal
<1> QED
  BY <1>1, <1>2

LEMMA FailedLeaves ==
  ASSUME IInv, Failed, HoldsRadio, beating = FALSE
  PROVE  Leaving
<1>1. CASE interactive /\ lease > 0
  <2>1. task' = [task EXCEPT !.pc = "end_old", !.use = "failure"]
    BY <1>1 DEF Failed
  <2>2. task' \in Tasks /\ task'.pc = "end_old" /\ task'.use = "failure"
    BY <2>1, TaskTypes
  <2> QED
    BY <1>1, <2>2, TaskTypes DEF Failed, Leaving
<1>2. CASE ~(interactive /\ lease > 0)
  BY <1>2, FinallyLeaves DEF Failed
<1> QED
  BY <1>1, <1>2

LEMMA FailsLeaves ==
  ASSUME IInv, Fails, HoldsRadio
  PROVE  Leaving
<1>1. CASE beating
  BY <1>1, GoToTypes, TaskTypes DEF Fails, Leaving, AttemptPcs
<1>2. CASE ~beating
  BY <1>2, FailedLeaves DEF Fails, IInv, TypeOK
<1> QED
  BY <1>1, <1>2

LEMMA PauseGivenUpLeaves ==
  ASSUME IInv, task.pc \in {"pause", "pause_again"}, PauseGivenUp
  PROVE  Leaving
<1>1. beating' = FALSE /\ paused' = FALSE /\ shown' = "terminal"
  BY DEF PauseGivenUp, IInv, TypeOK, ShownInv, Claiming, HelperPcs
<1>2. task' = NoTask \/ GoTo("hide")
  BY DEF PauseGivenUp, GoTo
<1> QED
  BY <1>1, <1>2, GoToTypes, TaskTypes DEF Leaving, AttemptPcs

Outcomes == {"success", "gatt", "error", "cancelled"}

\* The helper or the client is done: the key of the phone is looked for, or the
\* attempt is left.
Captures ==
  /\ Using("claim")
  /\ task' = [task EXCEPT !.pc = "capture"]
  /\ UNCHANGED <<paused, beating, shown>>

LEMMA HelperGivesLeaves ==
  ASSUME IInv, task.pc \in HelperPcs \cup {"client"}, NEW outcome \in Outcomes,
         HelperGives(outcome)
  PROVE  Leaving \/ Captures
<1>1. HoldsRadio
  BY DEF HoldsRadio, UsesRadio
<1>2. task.use \in {"claim", "completion", "failure"}
  BY DEF IInv, TypeOK, Tasks, Receipts
<1>3. CASE Using("failure")
  <2>1. Finally /\ shown' = shown
    BY <1>3 DEF HelperGives, Using
  <2> QED
    BY <2>1, FinallyLeaves
<1>4. CASE ~Using("failure") /\ outcome = "gatt"
  <2>1. Fails
    BY <1>4 DEF HelperGives
  <2> QED
    BY <1>1, <2>1, FailsLeaves
<1>5. CASE ~Using("failure") /\ outcome \in {"error", "cancelled"}
  <2>1. Terminal
    BY <1>5 DEF HelperGives
  <2> QED
    BY <2>1, TerminalLeaves
<1>6. CASE Using("completion") /\ outcome = "success"
  <2>1. Finally /\ shown' = shown
    BY <1>6 DEF HelperGives, Using
  <2> QED
    BY <2>1, FinallyLeaves
<1>7. CASE Using("claim") /\ outcome = "success"
  BY <1>7 DEF HelperGives, Using, Captures, GoTo
<1> QED
  BY <1>2, <1>3, <1>4, <1>5, <1>6, <1>7 DEF Outcomes, Using

\* A cancelled wait for the helper ends it first.
EndsHelper ==
  /\ At("poll")
  /\ task' = [task EXCEPT !.pc = "end", !.outcome = "cancelled"]
  /\ UNCHANGED <<beating, shown, paused, helper>>

LEMMA MaybeCalledTypes ==
  ASSUME IInv, Active, helper' \in MaybeCalled
  PROVE  helper' \in {NoHelper} \cup [use : {"claim"} \cup Receipts, sid : Sids]
BY DEF IInv, TypeOK, LoopInv, MaybeCalled, Tasks

LEMMA CancelledLeaves ==
  ASSUME IInv, Cancelled
  PROVE  /\ \/ Leaving /\ Active
            \/ EndsHelper
            \/ UNCHANGED <<task, beating, shown, paused, helper>>
         /\ helper' \in {NoHelper} \cup [use : {"claim"} \cup Receipts, sid : Sids]
<1>0. helper \in {NoHelper} \cup [use : {"claim"} \cup Receipts, sid : Sids]
  BY DEF IInv, TypeOK
<1>1. CASE task.pc \in {"created", "hide"}
  <2>1. task' = NoTask /\ UNCHANGED <<beating, shown, paused, helper>>
    BY <1>1 DEF Cancelled, At
  <2>2. beating = FALSE
    BY <1>1 DEF IInv, TypeOK, ShownInv, Claiming, HelperPcs
  <2> QED
    BY <1>0, <1>1, <2>1, <2>2, TaskTypes DEF Leaving, Active
<1>2. CASE task.pc \in {"pause", "pause_again"}
  <2>1. PauseGivenUp /\ helper' = helper
    BY <1>2 DEF Cancelled, At
  <2> QED
    BY <1>0, <1>2, <2>1, PauseGivenUpLeaves DEF Active
<1>3. CASE task.pc \in {"baseline", "client", "capture", "confirm", "visible", "watch"}
  <2>1. Terminal /\ helper' = helper
    BY <1>3 DEF Cancelled, At
  <2> QED
    BY <1>0, <1>3, <2>1, TerminalLeaves DEF Active
<1>4. CASE At("poll")
  BY <1>0, <1>4 DEF Cancelled, At, EndsHelper
<1>5. CASE task.pc \in {"end_old", "run", "end"}
  <2>1. helper' \in MaybeCalled /\ HelperGives("cancelled")
    BY <1>5 DEF Cancelled, At
  <2>2. Active
    BY <1>5 DEF Active
  <2>3. (Using("failure") /\ Finally /\ shown' = shown) \/ (~Using("failure") /\ Terminal)
    BY <2>1 DEF HelperGives
  <2>4. Leaving
    BY <2>3, FinallyLeaves, TerminalLeaves
  <2> QED
    BY <2>1, <2>2, <2>4, MaybeCalledTypes
<1>6. CASE At("offer")
  <2>1. Finally /\ UNCHANGED <<shown, helper>>
    BY <1>6 DEF Cancelled, At
  <2> QED
    BY <1>0, <1>6, <2>1, FinallyLeaves DEF Active, At
<1>7. CASE task.pc \in {"none", "stop_heartbeat", "stop_failed", "final"}
  BY <1>0, <1>7 DEF Cancelled, At
<1> QED
  BY <1>1, <1>2, <1>3, <1>4, <1>5, <1>6, <1>7 DEF IInv, TypeOK, Tasks, HelperPcs, At

\* Who leaves an attempt does not use the radio, nor the heartbeat, nor the confirmation.
LEMMA LeavingInv ==
  ASSUME IInv, Leaving, Active,
         UNCHANGED <<scanner, session, committed, ha>>,
         loop' = loop \/ loop'.pc \notin {"remove_pause", "remove", "start"}
           \/ (loop'.pc = "start" /\ loop'.sid \in Sids)
  PROVE  RadioInv' /\ LoopInv' /\ ShownInv' /\ CommitInv'
<1> USE DEF IInv
<1>1. loop.pc \notin {"remove_pause", "remove"} /\ loop'.pc \notin {"remove_pause", "remove"}
  BY DEF LoopInv
<1>2. ~(Claiming')
  BY DEF Leaving, Claiming, Using, HelperPcs
<1>3. RadioInv'
  <2>1. CASE task'.pc \in {"none", "final", "hide"}
    BY <1>1, <2>1 DEF RadioInv, HoldsRadio, UsesRadio, HelperPcs
  <2>2. CASE HoldsRadio /\ paused' = paused /\ task'.pc \in {"stop_failed", "end_old"}
    BY <1>1, <2>2 DEF RadioInv
  <2> QED
    BY <2>1, <2>2 DEF Leaving
<1>4. LoopInv'
  BY <1>1 DEF LoopInv, Active
<1>5. ShownInv'
  BY <1>2 DEF ShownInv, Leaving, HelperPcs
<1>6. CommitInv'
  BY DEF CommitInv, Leaving, Active, At
<1> QED
  BY <1>3, <1>4, <1>5, <1>6

LEMMA LeavingTypes ==
  ASSUME IInv, Leaving
  PROVE  /\ task' \in Tasks /\ beating' \in BOOLEAN /\ paused' \in BOOLEAN
         /\ shown' \in {"none", "progress", "refused", "captured", "terminal"}
BY DEF Leaving, IInv, TypeOK

-----------------------------------------------------------------------------
(* The steps of the attempt                                                *)

LEMMA BeginInv ==
  ASSUME IInv, Begin
  PROVE  IInv'
<1> USE DEF IInv
<1>0. task' \in Tasks /\ task'.pc = "pause" /\ task'.use = task.use /\ task'.kind = task.kind
  BY GoToTypes DEF Begin, AttemptPcs
<1>1. TypeOK'
  BY <1>0 DEF Begin, TypeOK
<1>2. RadioInv'
  BY <1>0 DEF Begin, RadioInv, LoopInv, HoldsRadio, UsesRadio, Active, At, HelperPcs, radio_vars
<1>3. LoopInv'
  BY <1>0 DEF Begin, LoopInv, Active, At, HelperPcs
<1>4. ShownInv'
  BY <1>0 DEF Begin, ShownInv, Claiming, Using, At, HelperPcs
<1>5. CommitInv'
  BY <1>0 DEF Begin, CommitInv, LoopInv, Active, At, HelperPcs
<1> QED
  BY <1>1, <1>2, <1>3, <1>4, <1>5

LEMMA ScanPausedInv ==
  ASSUME IInv, ScanPaused
  PROVE  IInv'
<1> USE DEF IInv
<1>0. /\ task' \in Tasks /\ task'.kind = task.kind
      /\ \/ At("pause") /\ task'.pc = "baseline" /\ task'.use = "claim"
         \/ At("pause_again") /\ task'.pc = "end_old" /\ task'.use = "completion"
  BY DEF ScanPaused, TypeOK, Tasks, Receipts, HelperPcs, At
<1>1. TypeOK'
  BY <1>0 DEF ScanPaused, TypeOK, radio_vars
<1>2. RadioInv'
  BY <1>0 DEF ScanPaused, RadioInv, LoopInv, HoldsRadio, UsesRadio, Active, At, HelperPcs,
     radio_vars
<1>3. LoopInv'
  BY <1>0 DEF ScanPaused, LoopInv, Active, At, HelperPcs
<1>4. ShownInv'
  BY <1>0 DEF ScanPaused, ShownInv, Claiming, Using, At, HelperPcs
<1>5. CommitInv'
  BY <1>0 DEF ScanPaused, CommitInv, LoopInv, Active, At, HelperPcs
<1> QED
  BY <1>1, <1>2, <1>3, <1>4, <1>5

LEMMA PauseTimesOutInv ==
  ASSUME IInv, PauseTimesOut
  PROVE  IInv'
<1>1. Leaving /\ Active
  BY PauseGivenUpLeaves DEF PauseTimesOut, Active
<1>2. TypeOK'
  BY <1>1, LeavingTypes DEF PauseTimesOut, IInv, TypeOK
<1>3. RadioInv' /\ LoopInv' /\ ShownInv' /\ CommitInv'
  BY <1>1, LeavingInv DEF PauseTimesOut
<1> QED
  BY <1>2, <1>3 DEF IInv

LEMMA BaselineReadInv ==
  ASSUME IInv, BaselineRead
  PROVE  IInv'
<1> USE DEF IInv
<1>0. /\ At("baseline") /\ UNCHANGED <<loop, session, committed, radio_vars, ha>>
      /\ task' \in Tasks /\ task'.use = task.use /\ task'.kind = task.kind
      /\ \/ task'.pc = "visible" /\ UNCHANGED <<beating, shown>>
         \/ task.kind = "app" /\ task'.pc \in {"end_old", "client"} /\ beating' /\ shown' = "progress"
  BY GoToTypes DEF BaselineRead, AttemptPcs, HelperPcs, TypeOK, Tasks
<1>1. TypeOK'
  BY <1>0 DEF BaselineRead, TypeOK, radio_vars
<1>2. RadioInv'
  BY <1>0 DEF BaselineRead, RadioInv, LoopInv, HoldsRadio, UsesRadio, Active, At, HelperPcs,
     radio_vars
<1>3. LoopInv'
  BY <1>0 DEF BaselineRead, LoopInv, Active, At, HelperPcs
<1>4. ShownInv'
  BY <1>0 DEF BaselineRead, ShownInv, Claiming, Using, At, HelperPcs
<1>5. CommitInv'
  BY <1>0 DEF BaselineRead, CommitInv, LoopInv, Active, At, HelperPcs
<1> QED
  BY <1>1, <1>2, <1>3, <1>4, <1>5

LEMMA HeartbeatInv ==
  ASSUME IInv, Heartbeat
  PROVE  IInv'
<1> USE DEF IInv
<1>1. TypeOK'
  BY DEF Heartbeat, TypeOK, radio_vars
<1>2. RadioInv'
  BY DEF Heartbeat, RadioInv, LoopInv, HoldsRadio, UsesRadio, Active, At, HelperPcs, radio_vars
<1>3. LoopInv'
  BY DEF Heartbeat, LoopInv, Active, At, HelperPcs
<1>4. ShownInv'
  BY DEF Heartbeat, ShownInv, Claiming, Using, At, HelperPcs
<1>5. CommitInv'
  BY DEF Heartbeat, CommitInv, LoopInv, Active, At, HelperPcs
<1> QED
  BY <1>1, <1>2, <1>3, <1>4, <1>5

LEMMA CapturesFacts ==
  ASSUME IInv, Captures, task.pc \in HelperPcs \cup {"client"},
         UNCHANGED <<loop, scanner, session, committed, ha>>
  PROVE  task' \in Tasks /\ RadioInv' /\ LoopInv' /\ ShownInv' /\ CommitInv'
<1> USE DEF IInv
<1>1. task' \in Tasks /\ task'.pc = "capture" /\ task'.kind = task.kind
  BY DEF Captures, TypeOK, Tasks, HelperPcs
<1>2. RadioInv'
  BY <1>1 DEF Captures, RadioInv, LoopInv, HoldsRadio, UsesRadio, Active, HelperPcs
<1>3. LoopInv'
  BY <1>1 DEF LoopInv, Active, HelperPcs
<1>4. ShownInv'
  BY <1>1 DEF Captures, ShownInv, Claiming, Using, HelperPcs
<1>5. CommitInv'
  BY <1>1 DEF CommitInv, Active, At, HelperPcs
<1> QED
  BY <1>1, <1>2, <1>3, <1>4, <1>5

LEMMA HelperCallInv ==
  ASSUME IInv, HelperCall
  PROVE  IInv'
<1>0. Active /\ session \in Sids /\ UNCHANGED <<loop, scanner, session, committed, ha>>
  BY DEF HelperCall, Active, At, IInv, LoopInv
<1>1. \/ /\ At("end_old") /\ helper' = NoHelper /\ GoTo("run")
         /\ UNCHANGED <<paused, beating, shown>>
      \/ /\ At("run") /\ helper' = [use |-> task.use, sid |-> session] /\ GoTo("poll")
         /\ UNCHANGED <<paused, beating, shown>>
      \/ At("run") /\ HelperGives("gatt") /\ helper' = helper
  BY DEF HelperCall
<1>2. CASE UNCHANGED <<paused, beating, shown>> /\ task.pc \in {"end_old", "run"}
           /\ (GoTo("run") \/ GoTo("poll"))
           /\ helper' \in {NoHelper, [use |-> task.use, sid |-> session]}
  <2>1. /\ task' \in Tasks /\ task'.pc \in {"run", "poll"}
        /\ task'.use = task.use /\ task'.kind = task.kind
    BY <1>2, GoToTypes DEF AttemptPcs, HelperPcs
  <2>2. TypeOK'
    BY <1>0, <1>2, <2>1 DEF HelperCall, IInv, TypeOK, Tasks
  <2>3. RadioInv'
    BY <1>0, <1>2, <2>1 DEF IInv, RadioInv, LoopInv, HoldsRadio, UsesRadio, HelperPcs
  <2>4. LoopInv'
    BY <1>0, <1>2, <2>1 DEF IInv, LoopInv, Active
  <2>5. ShownInv'
    BY <1>0, <1>2, <2>1 DEF IInv, ShownInv, Claiming, Using, HelperPcs
  <2>6. CommitInv'
    BY <1>0, <1>2, <2>1 DEF IInv, CommitInv, Active, At
  <2> QED
    BY <2>2, <2>3, <2>4, <2>5, <2>6 DEF IInv
<1>3. CASE At("run") /\ HelperGives("gatt") /\ helper' = helper
  <2>1. (Using("failure") /\ Finally /\ shown' = shown) \/ (~Using("failure") /\ Fails)
    BY <1>3 DEF HelperGives
  <2>2. Leaving
    BY <1>3, <2>1, FinallyLeaves, FailsLeaves DEF At, HoldsRadio, UsesRadio, HelperPcs
  <2>3. TypeOK'
    BY <1>0, <1>3, <2>2, LeavingTypes DEF HelperCall, IInv, TypeOK
  <2> QED
    BY <1>0, <2>2, <2>3, LeavingInv DEF IInv
<1> QED
  BY <1>1, <1>2, <1>3 DEF At

LEMMA CallTimesOutInv ==
  ASSUME IInv, CallTimesOut
  PROVE  IInv'
<1>0. /\ Active /\ task.pc \in HelperPcs
      /\ helper' \in {NoHelper} \cup [use : {"claim"} \cup Receipts, sid : Sids]
  BY MaybeCalledTypes DEF CallTimesOut, Active, HelperPcs
<1>1. Leaving \/ Captures
  BY <1>0, HelperGivesLeaves DEF CallTimesOut, Outcomes
<1>2. CASE Leaving
  <2>1. TypeOK'
    BY <1>0, <1>2, LeavingTypes DEF CallTimesOut, IInv, TypeOK
  <2>2. RadioInv' /\ LoopInv' /\ ShownInv' /\ CommitInv'
    BY <1>0, <1>2, LeavingInv DEF CallTimesOut
  <2> QED
    BY <2>1, <2>2 DEF IInv
<1>3. CASE Captures
  <2>1. TypeOK'
    BY <1>0, <1>3, CapturesFacts DEF CallTimesOut, Captures, IInv, TypeOK
  <2>2. RadioInv' /\ LoopInv' /\ ShownInv' /\ CommitInv'
    BY <1>0, <1>3, CapturesFacts DEF CallTimesOut
  <2> QED
    BY <2>1, <2>2 DEF IInv
<1> QED
  BY <1>1, <1>2, <1>3

LEMMA HelperEndedInv ==
  ASSUME IInv, HelperEnded
  PROVE  IInv'
<1>0. Active /\ task.pc \in HelperPcs
  BY DEF HelperEnded, Active, At, HelperPcs
<1>1. Leaving \/ Captures
  BY <1>0, HelperGivesLeaves DEF HelperEnded, Outcomes, IInv, TypeOK, Tasks
<1>2. CASE Leaving
  <2>1. TypeOK'
    BY <1>0, <1>2, LeavingTypes DEF HelperEnded, IInv, TypeOK
  <2>2. RadioInv' /\ LoopInv' /\ ShownInv' /\ CommitInv'
    BY <1>0, <1>2, LeavingInv DEF HelperEnded
  <2> QED
    BY <2>1, <2>2 DEF IInv
<1>3. CASE Captures
  <2>1. TypeOK'
    BY <1>0, <1>3, CapturesFacts DEF HelperEnded, Captures, IInv, TypeOK
  <2>2. RadioInv' /\ LoopInv' /\ ShownInv' /\ CommitInv'
    BY <1>0, <1>3, CapturesFacts DEF HelperEnded
  <2> QED
    BY <2>1, <2>2 DEF IInv
<1> QED
  BY <1>1, <1>2, <1>3

LEMMA ClientEndedInv ==
  ASSUME IInv, NEW outcome \in {"success", "gatt", "error"}, ClientEnded(outcome)
  PROVE  IInv'
<1>0. Active /\ task.pc \in HelperPcs \cup {"client"}
  BY DEF ClientEnded, Active, At
<1>1. Leaving \/ Captures
  BY <1>0, HelperGivesLeaves DEF ClientEnded, Outcomes
<1>2. CASE Leaving
  <2>1. TypeOK'
    BY <1>0, <1>2, LeavingTypes DEF ClientEnded, IInv, TypeOK
  <2>2. RadioInv' /\ LoopInv' /\ ShownInv' /\ CommitInv'
    BY <1>0, <1>2, LeavingInv DEF ClientEnded
  <2> QED
    BY <2>1, <2>2 DEF IInv
<1>3. CASE Captures
  <2>1. TypeOK'
    BY <1>0, <1>3, CapturesFacts DEF ClientEnded, Captures, IInv, TypeOK
  <2>2. RadioInv' /\ LoopInv' /\ ShownInv' /\ CommitInv'
    BY <1>0, <1>3, CapturesFacts DEF ClientEnded
  <2> QED
    BY <2>1, <2>2 DEF IInv
<1> QED
  BY <1>1, <1>2, <1>3

LEMMA ProgressInv ==
  ASSUME IInv, NEW reported \in 0 .. AttemptTTL + 1, Progress(reported)
  PROVE  IInv'
<1> USE DEF IInv
<1>0. (At("client") \/ At("poll")) /\ UNCHANGED <<loop, session, task, beating, committed, radio_vars, ha>>
  BY DEF Progress
<1>1. TypeOK'
  BY <1>0, ObserverAssumption DEF Progress, TypeOK, Bounded, Unset, radio_vars
<1>2. RadioInv'
  BY <1>0 DEF Progress, RadioInv, LoopInv, HoldsRadio, UsesRadio, Active, At, HelperPcs,
     radio_vars
<1>3. LoopInv'
  BY <1>0 DEF Progress, LoopInv, Active, At, HelperPcs
<1>4. ShownInv'
  BY <1>0 DEF Progress, ShownInv, Claiming, Using, At, HelperPcs
<1>5. CommitInv'
  BY <1>0 DEF Progress, CommitInv, LoopInv, Active, At, HelperPcs
<1> QED
  BY <1>1, <1>2, <1>3, <1>4, <1>5

LEMMA PolledInv ==
  ASSUME IInv, NEW outcome \in {"success", "gatt", "error"}, Polled(outcome)
  PROVE  IInv'
<1> USE DEF IInv
<1>0. /\ At("poll") /\ task' \in Tasks /\ task'.pc = "end"
      /\ task'.use = task.use /\ task'.kind = task.kind
      /\ UNCHANGED <<loop, session, beating, shown, committed, radio_vars, ha>>
  BY DEF Polled, TypeOK, Tasks, HelperPcs, At
<1>1. TypeOK'
  BY <1>0 DEF Polled, TypeOK, radio_vars
<1>2. RadioInv'
  BY <1>0 DEF Polled, RadioInv, LoopInv, HoldsRadio, UsesRadio, Active, At, HelperPcs, radio_vars
<1>3. LoopInv'
  BY <1>0 DEF Polled, LoopInv, Active, At, HelperPcs
<1>4. ShownInv'
  BY <1>0 DEF Polled, ShownInv, Claiming, Using, At, HelperPcs
<1>5. CommitInv'
  BY <1>0 DEF Polled, CommitInv, LoopInv, Active, At, HelperPcs
<1> QED
  BY <1>1, <1>2, <1>3, <1>4, <1>5

LEMMA CapturedInv ==
  ASSUME IInv, Captured
  PROVE  IInv'
<1> USE DEF IInv
<1>0. /\ At("capture") /\ task' \in Tasks /\ task'.pc = "stop_heartbeat"
      /\ task'.use = task.use /\ task'.kind = task.kind /\ beating' = FALSE
      /\ UNCHANGED <<loop, session, shown, committed, radio_vars, ha>>
  BY GoToTypes DEF Captured, AttemptPcs
<1>1. TypeOK'
  BY <1>0 DEF Captured, TypeOK, radio_vars
<1>2. RadioInv'
  BY <1>0 DEF Captured, RadioInv, LoopInv, HoldsRadio, UsesRadio, Active, At, HelperPcs,
     radio_vars
<1>3. LoopInv'
  BY <1>0 DEF Captured, LoopInv, Active, At, HelperPcs
<1>4. ShownInv'
  BY <1>0 DEF Captured, ShownInv, Claiming, Using, At, HelperPcs
<1>5. CommitInv'
  BY <1>0 DEF Captured, CommitInv, LoopInv, Active, At, HelperPcs
<1> QED
  BY <1>1, <1>2, <1>3, <1>4, <1>5

LEMMA ReportedInv ==
  ASSUME IInv, Reported
  PROVE  IInv'
<1> USE DEF IInv
<1>0. /\ At("stop_heartbeat") /\ task' \in Tasks /\ task'.pc = "confirm" /\ task'.use = task.use
      /\ session \in Sids /\ shown' = "captured"
      /\ UNCHANGED <<loop, session, beating, committed, scanner>>
  BY DEF Reported, TypeOK, Tasks, LoopInv, Active, At
<1>h. ha' \in [Sids -> {"open", "reported", "committed"}]
      /\ (ha[session] = "committed" => ha'[session] = "committed")
  BY <1>0 DEF Reported, TypeOK
<1>1. TypeOK'
  BY <1>0, <1>h DEF Reported, TypeOK
<1>2. RadioInv'
  BY <1>0, <1>h DEF Reported, RadioInv, LoopInv, HoldsRadio, UsesRadio, Active, At, HelperPcs,
     radio_vars
<1>3. LoopInv'
  BY <1>0, <1>h DEF Reported, LoopInv, Active, At, HelperPcs
<1>4. ShownInv'
  BY <1>0, <1>h DEF Reported, ShownInv, Claiming, Using, At, HelperPcs
<1>5. CommitInv'
  BY <1>0, <1>h DEF Reported, CommitInv, LoopInv, Active, At, HelperPcs
<1> QED
  BY <1>1, <1>2, <1>3, <1>4, <1>5

LEMMA ConfirmedInv ==
  ASSUME IInv, Confirmed
  PROVE  IInv'
<1> USE DEF IInv
<1>0. /\ At("confirm") /\ committed /\ paused' = TRUE
      /\ task' \in Tasks /\ task'.pc = "pause_again" /\ task'.use = task.use
      /\ UNCHANGED <<loop, session, beating, shown, committed, scanner, ha>>
  BY GoToTypes DEF Confirmed, AttemptPcs
<1>1. TypeOK'
  BY <1>0 DEF Confirmed, TypeOK
<1>2. RadioInv'
  BY <1>0 DEF Confirmed, RadioInv, LoopInv, HoldsRadio, UsesRadio, Active, At, HelperPcs,
     radio_vars
<1>3. LoopInv'
  BY <1>0 DEF Confirmed, LoopInv, Active, At, HelperPcs
<1>4. ShownInv'
  BY <1>0 DEF Confirmed, ShownInv, Claiming, Using, At, HelperPcs
<1>5. CommitInv'
  BY <1>0 DEF Confirmed, CommitInv, LoopInv, Active, At, HelperPcs
<1> QED
  BY <1>1, <1>2, <1>3, <1>4, <1>5

LEMMA RaisesInv ==
  ASSUME IInv, Raises
  PROVE  IInv'
<1>1. Leaving /\ Active
  BY TerminalLeaves DEF Raises, Active, At
<1>2. TypeOK'
  BY <1>1, LeavingTypes DEF Raises, IInv, TypeOK
<1>3. RadioInv' /\ LoopInv' /\ ShownInv' /\ CommitInv'
  BY <1>1, LeavingInv DEF Raises
<1> QED
  BY <1>2, <1>3 DEF IInv

LEMMA ManualStepInv ==
  ASSUME IInv, ManualStep
  PROVE  IInv'
<1> USE DEF IInv
<1>0. /\ At("visible") \/ At("watch")
      /\ task' \in Tasks /\ task'.use = task.use /\ task'.kind = task.kind
      /\ \/ At("visible") /\ task'.pc = "watch" /\ shown' = "progress" /\ ha' = ha
         \/ At("watch") /\ task'.pc = "hide" /\ shown' = "captured"
      /\ UNCHANGED <<loop, session, beating, committed, radio_vars>>
  BY GoToTypes DEF ManualStep, AttemptPcs
<1>h. ha' \in [Sids -> {"open", "reported", "committed"}]
      /\ (ha[session] = "committed" => ha'[session] = "committed")
  BY DEF ManualStep, TypeOK, LoopInv, Active, At
<1>1. TypeOK'
  BY <1>0, <1>h DEF ManualStep, TypeOK, radio_vars
<1>2. RadioInv'
  BY <1>0 DEF RadioInv, LoopInv, HoldsRadio, UsesRadio, Active, At, HelperPcs, radio_vars
<1>3. LoopInv'
  BY <1>0 DEF LoopInv, Active, At
<1>4. ShownInv'
  BY <1>0 DEF ShownInv, Claiming, At, HelperPcs
<1>5. CommitInv'
  BY <1>0, <1>h DEF CommitInv, Active, At
<1> QED
  BY <1>1, <1>2, <1>3, <1>4, <1>5

LEMMA HeartbeatGoneInv ==
  ASSUME IInv, HeartbeatGone
  PROVE  IInv'
<1>0. /\ At("stop_failed") /\ beating = FALSE /\ HoldsRadio /\ Active
      /\ UNCHANGED <<loop, session, lease, offer, committed, scanner, helper, ha, interactive>>
  BY DEF HeartbeatGone, IInv, TypeOK, ShownInv, Claiming, HoldsRadio, Active, At, HelperPcs
<1>1. CASE GoTo("offer") /\ UNCHANGED <<paused, beating, shown>>
  <2>1. task' \in Tasks /\ task'.pc = "offer"
    BY <1>1, GoToTypes DEF AttemptPcs
  <2>2. TypeOK'
    BY <1>0, <1>1, <2>1 DEF IInv, TypeOK
  <2>3. RadioInv' /\ LoopInv' /\ ShownInv' /\ CommitInv'
    BY <1>0, <1>1, <2>1 DEF IInv, RadioInv, LoopInv, ShownInv, CommitInv, Claiming, HoldsRadio,
       UsesRadio,
       Active, At, HelperPcs
  <2> QED
    BY <2>2, <2>3 DEF IInv
<1>2. CASE Failed
  <2>1. Leaving
    BY <1>0, <1>2, FailedLeaves
  <2>2. TypeOK'
    BY <1>0, <2>1, LeavingTypes DEF IInv, TypeOK
  <2> QED
    BY <1>0, <2>1, <2>2, LeavingInv DEF IInv
<1> QED
  BY <1>1, <1>2 DEF HeartbeatGone

LEMMA OfferedInv ==
  ASSUME IInv, Offered
  PROVE  IInv'
<1>0. /\ At("offer") /\ beating = FALSE /\ HoldsRadio /\ Active /\ session \in Sids
      /\ UNCHANGED <<loop, session, lease, committed, scanner, helper, ha, interactive>>
  BY DEF Offered, IInv, TypeOK, LoopInv, ShownInv, Claiming, HoldsRadio, Active, At, HelperPcs
<1>1. Leaving
  BY <1>0, FailedLeaves DEF Offered
<1>2. TypeOK'
  BY <1>0, <1>1, LeavingTypes DEF Offered, IInv, TypeOK
<1> QED
  BY <1>0, <1>1, <1>2, LeavingInv DEF IInv

LEMMA EndedInv ==
  ASSUME IInv, Ended
  PROVE  IInv'
<1>0. /\ task.pc \in {"final", "hide"} /\ beating = FALSE /\ Active
      /\ UNCHANGED <<loop, session, lease, offer, committed, scanner, helper, ha, interactive, shown>>
      /\ beating' = beating /\ task' = NoTask
  BY DEF Ended, Released, IInv, TypeOK, ShownInv, Claiming, Active, At, HelperPcs
<1>1. paused' \in BOOLEAN
  <2>1. (paused /\ ~task.holds) \in BOOLEAN
    OBVIOUS
  <2> QED
    BY <2>1, Zenon DEF Ended, Released
<1>2. Leaving
  BY <1>0, <1>1, TaskTypes DEF Leaving
<1>3. TypeOK'
  BY <1>0, <1>2, LeavingTypes DEF IInv, TypeOK
<1> QED
  BY <1>0, <1>2, <1>3, LeavingInv DEF IInv

-----------------------------------------------------------------------------
(* The steps of the command loop                                           *)

Loops ==
  [pc : {"idle", "start", "repair", "repair_late", "remove_pause", "remove"},
   sid : Sids \cup {NoSession}, kind : {"app", "manual"}]

\* Whatever cancels the attempt, the invariant survives it.
LEMMA CancelledInv ==
  ASSUME IInv, Cancelled, loop' \in Loops, offer' \in Sids \cup {NoSession},
         UNCHANGED <<interactive, session, lease, committed, scanner, ha>>,
         loop' = loop \/ loop'.pc \in {"repair", "repair_late"}
           \/ (loop'.pc = "start" /\ loop'.sid \in Sids)
  PROVE  IInv'
<1>0. helper' \in {NoHelper} \cup [use : {"claim"} \cup Receipts, sid : Sids]
  BY CancelledLeaves
<1>1. CASE Leaving /\ Active
  <2>1. TypeOK'
    BY <1>0, <1>1, LeavingTypes DEF IInv, TypeOK, Loops
  <2>2. RadioInv' /\ LoopInv' /\ ShownInv' /\ CommitInv'
    BY <1>1, LeavingInv
  <2> QED
    BY <2>1, <2>2 DEF IInv
<1>2. CASE EndsHelper
  <2>1. /\ task' \in Tasks /\ task'.pc = "end" /\ task'.use = task.use /\ task'.kind = task.kind
        /\ task.pc = "poll" /\ UNCHANGED <<beating, shown, paused>>
    BY <1>2 DEF EndsHelper, At, IInv, TypeOK, Tasks, HelperPcs
  <2>2. TypeOK'
    BY <1>0, <2>1 DEF IInv, TypeOK, Loops
  <2>3. RadioInv'
    BY <2>1 DEF IInv, RadioInv, LoopInv, HoldsRadio, UsesRadio, Active, HelperPcs
  <2>4. LoopInv'
    BY <2>1 DEF IInv, LoopInv, Active
  <2>5. ShownInv'
    BY <2>1 DEF IInv, ShownInv, Claiming, Using, HelperPcs
  <2>6. CommitInv'
    BY <2>1 DEF IInv, CommitInv, Active, At
  <2> QED
    BY <2>2, <2>3, <2>4, <2>5, <2>6 DEF IInv
<1>3. CASE UNCHANGED <<task, beating, shown, paused, helper>>
  <2>1. TypeOK'
    BY <1>3 DEF IInv, TypeOK, Loops
  <2>2. RadioInv'
    BY <1>3 DEF IInv, RadioInv, HoldsRadio, UsesRadio
  <2>3. LoopInv'
    BY <1>3 DEF IInv, LoopInv, Active
  <2>4. ShownInv' /\ CommitInv'
    BY <1>3 DEF IInv, ShownInv, CommitInv, Claiming, Using, Active, At
  <2> QED
    BY <2>1, <2>2, <2>3, <2>4 DEF IInv
<1> QED
  BY <1>1, <1>2, <1>3, CancelledLeaves

LEMMA TakeCompleteInv ==
  ASSUME IInv, NEW sid \in Sids, TakeComplete(sid)
  PROVE  IInv'
<1>1. committed' \in BOOLEAN
  <2>1. (committed \/ (sid = session /\ Active)) \in BOOLEAN
    OBVIOUS
  <2> QED
    BY <2>1, Zenon DEF TakeComplete
<1>2. TypeOK'
  BY <1>1 DEF TakeComplete, IInv, TypeOK, attempt_vars, radio_vars
<1>3. RadioInv' /\ LoopInv' /\ ShownInv'
  BY DEF TakeComplete, IInv, RadioInv, LoopInv, ShownInv, HoldsRadio, UsesRadio, Claiming, Using,
     Active, At, attempt_vars, radio_vars
<1>4. CommitInv'
  <2>1. ha[sid] = "committed" /\ UNCHANGED <<task, session, ha>>
    BY DEF TakeComplete, attempt_vars
  <2>2. committed' <=> (committed \/ (sid = session /\ Active))
    BY DEF TakeComplete
  <2> QED
    BY <2>1, <2>2 DEF IInv, CommitInv, Active, At
<1> QED
  BY <1>2, <1>3, <1>4 DEF IInv

LEMMA TakeInvalidStartInv ==
  ASSUME IInv, NEW sid \in Sids, TakeInvalidStart(sid)
  PROVE  IInv'
<1>1. /\ UNCHANGED <<interactive, loop, session, task, beating, lease, offer, committed,
                     paused, scanner, helper, ha>>
      /\ shown' = shown \/ (shown \in {"none", "progress"} /\ shown' = "refused")
  BY DEF TakeInvalidStart, radio_vars
<1>2. TypeOK'
  BY <1>1 DEF IInv, TypeOK
<1>3. RadioInv' /\ LoopInv' /\ ShownInv' /\ CommitInv'
  BY <1>1 DEF IInv, RadioInv, LoopInv, ShownInv, CommitInv, HoldsRadio, UsesRadio, Claiming, Using,
     Active, At
<1> QED
  BY <1>2, <1>3 DEF IInv

LEMMA TakeCancelInv ==
  ASSUME IInv, TakeCancel
  PROVE  IInv'
BY CancelledInv DEF TakeCancel, IInv, TypeOK, Loops

LEMMA TakeStartInv ==
  ASSUME IInv, NEW sid \in Sids, NEW kind \in {"app", "manual"}, TakeStart(sid, kind)
  PROVE  IInv'
<1>1. loop' \in Loops /\ loop'.pc = "start" /\ loop'.sid = sid
  BY DEF TakeStart, Idle, Loops
<1> QED
  BY <1>1, CancelledInv DEF TakeStart, IInv, TypeOK

LEMMA FreshTypes ==
  Idle \in Loops /\ NoTask \in Tasks /\ Unset \in Unset .. AttemptTTL
<1>1. Idle \in Loops
  BY DEF Idle, Loops
<1>2. NoTask \in Tasks
  BY DEF NoTask, Tasks
<1>3. Unset \in Unset .. AttemptTTL
  BY ObserverAssumption DEF Unset
<1> QED
  BY <1>1, <1>2, <1>3

LEMMA StartedInv ==
  ASSUME IInv, Started
  PROVE  IInv'
<1> USE DEF IInv
<1>1. /\ loop.pc = "start" /\ loop.sid \in Sids /\ session' = loop.sid
      /\ loop' \in Loops /\ loop'.pc = "idle"
      /\ UNCHANGED <<interactive, beating, radio_vars, ha>>
      /\ lease' = Unset /\ offer' = NoSession /\ shown' = "none" /\ committed' = FALSE
  BY DEF Started, NewAttempt, LoopInv, Idle, Loops
<1>2. /\ task' \in Tasks /\ task'.pc = "created" /\ task'.use = "claim"
      /\ beating = FALSE
  <2>1. task' = [NoTask EXCEPT !.pc = "created", !.kind = loop.kind] /\ ~Active
    BY DEF Started, NewAttempt
  <2>2. beating = FALSE
    BY <2>1 DEF ShownInv, TypeOK, Claiming, Active, HelperPcs
  <2> QED
    BY <2>1, <2>2 DEF Tasks, NoTask, TypeOK, Loops
<1>3. TypeOK'
  BY <1>1, <1>2, FreshTypes DEF TypeOK, Loops, radio_vars
<1>4. RadioInv'
  BY <1>1, <1>2 DEF RadioInv, HoldsRadio, UsesRadio, HelperPcs
<1>5. LoopInv'
  BY <1>1, <1>2 DEF LoopInv
<1>6. ShownInv'
  BY <1>1, <1>2 DEF ShownInv, Claiming, Using, HelperPcs
<1>7. CommitInv'
  BY <1>1, <1>2 DEF CommitInv, At
<1> QED
  BY <1>3, <1>4, <1>5, <1>6, <1>7

\* Nothing of the attempt changes, and no removal begins while it runs.
LEMMA LoopMovesInv ==
  ASSUME IInv, UNCHANGED <<interactive, session, task, beating, shown, lease, offer, committed,
                           scanner, ha>>,
         ~Active, paused' \in BOOLEAN,
         loop' \in Loops, loop'.pc \in {"idle", "remove_pause", "remove"},
         loop'.pc = "remove_pause" => paused',
         loop'.pc = "remove" => paused' /\ scanner = "stopped",
         helper' \in {helper, NoHelper}
  PROVE  IInv'
<1>1. TypeOK'
  BY DEF IInv, TypeOK, Loops
<1>2. RadioInv'
  BY DEF IInv, RadioInv, HoldsRadio, UsesRadio, Active, HelperPcs
<1>3. LoopInv' /\ ShownInv' /\ CommitInv'
  BY DEF IInv, LoopInv, ShownInv, CommitInv, Claiming, Using, Active, At
<1> QED
  BY <1>1, <1>2, <1>3 DEF IInv

LEMMA LoopWaysTypes ==
  ASSUME IInv
  PROVE  /\ \A pc \in {"repair", "repair_late", "remove_pause", "remove"} :
              /\ [Idle EXCEPT !.pc = pc] \in Loops /\ [Idle EXCEPT !.pc = pc].pc = pc
              /\ [loop EXCEPT !.pc = pc] \in Loops /\ [loop EXCEPT !.pc = pc].pc = pc
         /\ Idle \in Loops /\ Idle.pc = "idle"
BY DEF IInv, TypeOK, Loops, Idle

LEMMA TakeRemoveInv ==
  ASSUME IInv, TakeRemove
  PROVE  IInv'
BY LoopWaysTypes, LoopMovesInv DEF TakeRemove, attempt_vars

LEMMA TakeRepairInv ==
  ASSUME IInv, TakeRepair
  PROVE  IInv'
BY LoopWaysTypes, CancelledInv DEF TakeRepair

LEMMA RepairWaitsTooLongInv ==
  ASSUME IInv, RepairWaitsTooLong
  PROVE  IInv'
<1>1. offer' \in Sids \cup {NoSession}
  BY DEF RepairWaitsTooLong, IInv, TypeOK
<1> QED
  BY <1>1, LoopWaysTypes, CancelledInv DEF RepairWaitsTooLong

LEMMA RepairGoesOnInv ==
  ASSUME IInv, RepairGoesOn
  PROVE  IInv'
<1>1. paused \in BOOLEAN
  BY DEF IInv, TypeOK
<1> QED
  BY <1>1, LoopWaysTypes, LoopMovesInv DEF RepairGoesOn, attempt_vars

LEMMA RemovalPausedInv ==
  ASSUME IInv, RemovalPaused
  PROVE  IInv'
<1>1. ~Active /\ paused /\ paused \in BOOLEAN
  BY DEF RemovalPaused, IInv, TypeOK, LoopInv, RadioInv
<1> QED
  BY <1>1, LoopWaysTypes, LoopMovesInv DEF RemovalPaused, attempt_vars

LEMMA RemovalDoneInv ==
  ASSUME IInv, RemovalDone
  PROVE  IInv'
<1>1. ~Active
  BY DEF RemovalDone, IInv, LoopInv
<1> QED
  BY <1>1, LoopWaysTypes, LoopMovesInv DEF RemovalDone, attempt_vars

-----------------------------------------------------------------------------
(* The scan loop and the environment                                       *)

LEMMA ScanStepInv ==
  ASSUME IInv, ScanStep
  PROVE  IInv'
<1>1. TypeOK'
  BY DEF ScanStep, IInv, TypeOK, attempt_vars
<1>2. RadioInv'
  BY DEF ScanStep, IInv, RadioInv, HoldsRadio, UsesRadio, attempt_vars
<1>3. LoopInv' /\ ShownInv' /\ CommitInv'
  BY DEF ScanStep, IInv, LoopInv, ShownInv, CommitInv, Claiming, Using, Active, At, attempt_vars
<1> QED
  BY <1>1, <1>2, <1>3 DEF IInv

LEMMA HaCommitsInv ==
  ASSUME IInv, NEW sid \in Sids, HaCommits(sid)
  PROVE  IInv'
<1>1. TypeOK'
  BY DEF HaCommits, IInv, TypeOK, attempt_vars, radio_vars
<1>2. RadioInv' /\ LoopInv' /\ ShownInv'
  BY DEF HaCommits, IInv, RadioInv, LoopInv, ShownInv, HoldsRadio, UsesRadio, Claiming, Using,
     Active, At, attempt_vars, radio_vars
<1>3. CommitInv'
  BY DEF HaCommits, IInv, TypeOK, LoopInv, CommitInv, Active, At, attempt_vars
<1> QED
  BY <1>1, <1>2, <1>3 DEF IInv

LEMMA HelperExitsInv ==
  ASSUME IInv, HelperExits
  PROVE  IInv'
<1>1. TypeOK'
  BY DEF HelperExits, IInv, TypeOK, attempt_vars
<1>2. RadioInv' /\ LoopInv' /\ ShownInv' /\ CommitInv'
  BY DEF HelperExits, IInv, RadioInv, LoopInv, ShownInv, CommitInv, HoldsRadio, UsesRadio,
     Claiming, Using, Active, At, attempt_vars
<1> QED
  BY <1>1, <1>2 DEF IInv

LEMMA TickInv ==
  ASSUME IInv, Tick
  PROVE  IInv'
<1>1. TypeOK'
  BY ObserverAssumption DEF Tick, IInv, TypeOK, Unset, radio_vars
<1>2. RadioInv' /\ LoopInv' /\ ShownInv' /\ CommitInv'
  BY DEF Tick, IInv, RadioInv, LoopInv, ShownInv, CommitInv, HoldsRadio, UsesRadio,
     Claiming, Using, Active, At, radio_vars
<1> QED
  BY <1>1, <1>2 DEF IInv

\* A service that has just started.
Fresh ==
  /\ loop = Idle /\ session = NoSession /\ task = NoTask /\ beating = FALSE /\ shown = "none"
  /\ lease = Unset /\ offer = NoSession /\ committed = FALSE /\ paused = FALSE
  /\ scanner = "stopped"

LEMMA FreshInv ==
  Fresh => RadioInv /\ LoopInv /\ ShownInv /\ CommitInv
BY DEF Fresh, Idle, NoTask, RadioInv, LoopInv, ShownInv, CommitInv, Claiming, Using, HoldsRadio,
   UsesRadio, Active, At, HelperPcs

LEMMA InitInv ==
  ASSUME Init
  PROVE  IInv
<1>1. TypeOK
  BY FreshTypes DEF Init, TypeOK, Loops
<1> QED
  BY <1>1, FreshInv DEF Init, Fresh, IInv

LEMMA RestartInv ==
  ASSUME IInv, Restart
  PROVE  IInv'
<1>1. TypeOK'
  BY FreshTypes DEF Restart, IInv, TypeOK, Loops
<1>2. Fresh'
  BY DEF Restart, Fresh
<1>3. RadioInv' /\ LoopInv' /\ ShownInv' /\ CommitInv'
  BY <1>2 DEF Fresh, Idle, NoTask, RadioInv, LoopInv, ShownInv, CommitInv, Claiming, Using,
     HoldsRadio, UsesRadio, Active, At, HelperPcs
<1> QED
  BY <1>1, <1>3 DEF IInv

LEMMA StutterInv ==
  ASSUME IInv, UNCHANGED vars
  PROVE  IInv'
BY DEF IInv, TypeOK, RadioInv, LoopInv, ShownInv, CommitInv, HoldsRadio, UsesRadio, Claiming,
   Using, Active, At, vars, attempt_vars, radio_vars

-----------------------------------------------------------------------------
(* The theorems                                                            *)

LEMMA StepInv ==
  ASSUME IInv, [Next]_vars
  PROVE  IInv'
<1>1. CASE TaskStep
  BY <1>1, BeginInv, ScanPausedInv, PauseTimesOutInv, BaselineReadInv, HelperCallInv,
     CallTimesOutInv, PolledInv, ClientEndedInv, HelperEndedInv, CapturedInv, ReportedInv,
     ConfirmedInv, RaisesInv, ManualStepInv, HeartbeatGoneInv, OfferedInv, EndedInv DEF TaskStep
<1>2. CASE LoopStep
  BY <1>2, StartedInv, RepairWaitsTooLongInv, RepairGoesOnInv, RemovalPausedInv, RemovalDoneInv
     DEF LoopStep
<1>3. CASE Takings
  BY <1>3, TakeCompleteInv, TakeInvalidStartInv, TakeStartInv, TakeCancelInv, TakeRemoveInv,
     TakeRepairInv DEF Takings
<1>4. CASE Environment
  BY <1>4, HaCommitsInv, ProgressInv, HelperExitsInv, RestartInv DEF Environment
<1> QED
  BY <1>1, <1>2, <1>3, <1>4, HeartbeatInv, ScanStepInv, TickInv, StutterInv DEF Next

\* The invariant holds in every reachable state.
THEOREM Invariance == Spec => []IInv
<1>1. Init => IInv
  BY InitInv
<1>2. IInv /\ [Next]_vars => IInv'
  BY StepInv
<1> QED
  BY <1>1, <1>2, PTL DEF Spec

\* The variables keep their types.
THEOREM TypeCorrect == Spec => []TypeOK
<1>1. IInv => TypeOK
  BY DEF IInv
<1> QED
  BY <1>1, Invariance, PTL

\* No scan runs while an attempt or a removal uses the radio.
THEOREM RadioIsReserved == Spec => []AdapterIsFree
<1>1. IInv => AdapterIsFree
  BY DEF IInv, RadioInv, HoldsRadio, AdapterIsFree
<1> QED
  BY <1>1, Invariance, PTL

-----------------------------------------------------------------------------
(* What a step may never do                                                *)

LEMMA DeadlineStep ==
  ASSUME IInv, [Next]_vars, task.pc \notin {"none", "created"},
         task'.pc \notin {"none", "created"}, lease # Unset
  PROVE  lease' # Unset /\ lease' <= lease
<1> USE DEF IInv
<1>0. lease \in 0 .. AttemptTTL
  BY ObserverAssumption DEF TypeOK, Unset
<1>1. CASE lease' = lease
  BY <1>0, <1>1, ObserverAssumption
<1>2. ASSUME NEW reported \in 0 .. AttemptTTL + 1, Progress(reported)
      PROVE  lease' # Unset /\ lease' <= lease
  BY <1>0, <1>2, ObserverAssumption DEF Progress, Bounded, Unset
<1>3. CASE Tick
  BY <1>0, <1>3, ObserverAssumption DEF Tick, Unset
<1>4. ~Started /\ ~Restart
  <2>1. Started => task' = [NoTask EXCEPT !.pc = "created", !.kind = loop.kind]
    BY DEF Started, NewAttempt
  <2>2. Restart => task' = NoTask
    BY DEF Restart
  <2>3. [NoTask EXCEPT !.pc = "created", !.kind = loop.kind].pc = "created" /\ NoTask.pc = "none"
    BY DEF NoTask
  <2> QED
    BY <2>1, <2>2, <2>3
<1>5. CASE TaskStep
  <2>1. lease' = lease
    BY <1>5 DEF TaskStep, Begin, ScanPaused, PauseTimesOut, BaselineRead, HelperCall,
       CallTimesOut, Polled, ClientEnded, HelperEnded, Captured, Reported, Confirmed, Raises,
       ManualStep, HeartbeatGone, Offered, Ended
  <2> QED
    BY <2>1, <1>1
<1>6. CASE LoopStep \/ Takings
  <2>1. lease' = lease
    BY <1>4, <1>6 DEF LoopStep, RepairWaitsTooLong, RepairGoesOn, RemovalPaused, RemovalDone,
       Takings, TakeComplete, TakeStart, TakeCancel, TakeRemove, TakeRepair,
       TakeInvalidStart, attempt_vars
  <2> QED
    BY <2>1, <1>1
<1>7. CASE Environment
  <2>1. lease' = lease \/ \E reported \in 0 .. AttemptTTL + 1 : Progress(reported)
    BY <1>4, <1>7 DEF Environment, HaCommits, HelperExits, attempt_vars
  <2> QED
    BY <2>1, <1>1, <1>2
<1>8. CASE Heartbeat \/ ScanStep \/ UNCHANGED vars
  <2>1. lease' = lease
    BY <1>8 DEF Heartbeat, ScanStep, vars, attempt_vars
  <2> QED
    BY <2>1, <1>1
<1> QED
  BY <1>3, <1>5, <1>6, <1>7, <1>8 DEF Next

\* The deadline of an attempt is never renewed, whatever the helper reports.
THEOREM DeadlineIsKept == Spec => DeadlineNeverRenewed
<1>1. IInv /\ [Next]_vars =>
        [ (task.pc \notin {"none", "created"} /\ task'.pc \notin {"none", "created"}
            /\ lease # Unset) => lease' # Unset /\ lease' <= lease ]_vars
  BY DeadlineStep
<1> QED
  BY <1>1, Invariance, PTL DEF Spec, DeadlineNeverRenewed

LEMMA GivesShown ==
  ASSUME IInv, NEW outcome \in Outcomes, HelperGives(outcome)
  PROVE  shown' \in {shown, "terminal"}
<1>1. Terminal => shown' = "terminal"
  BY DEF Terminal
<1>2. Fails => shown' \in {shown, "terminal"}
  BY DEF Fails, Failed
<1>3. task.use \in {"claim", "completion", "failure"}
  BY DEF IInv, TypeOK, Tasks, Receipts
<1>4. CASE Using("failure")
  BY <1>4 DEF HelperGives, Using
<1>5. CASE ~Using("failure") /\ outcome # "success"
  BY <1>1, <1>2, <1>5 DEF HelperGives, Outcomes
<1>6. CASE ~Using("failure") /\ outcome = "success"
  BY <1>3, <1>6 DEF HelperGives, Using
<1> QED
  BY <1>4, <1>5, <1>6

LEMMA CancelledShown ==
  ASSUME IInv, Cancelled
  PROVE  shown' \in {shown, "terminal"}
BY CancelledLeaves DEF Leaving, EndsHelper

LEMMA StatusStep ==
  ASSUME IInv, [Next]_vars
  PROVE  ~(shown \in {"captured", "terminal"} /\ shown' = "progress")
<1> DEFINE Forward == shown' \in {shown, "terminal", "captured", "none", "refused"}
<1> SUFFICES Forward \/ shown \in {"none", "progress", "refused"}
  OBVIOUS
<1>1. CASE BaselineRead \/ Heartbeat
  BY <1>1 DEF BaselineRead, Heartbeat, At, IInv, ShownInv
<1>2. CASE ManualStep
  BY <1>2 DEF ManualStep, At, IInv, ShownInv
<1>3. ASSUME NEW reported \in 0 .. AttemptTTL + 1, Progress(reported)
      PROVE  Forward \/ shown \in {"none", "progress", "refused"}
  BY <1>3 DEF Progress, At, IInv, ShownInv, Claiming, HelperPcs
<1>4. CASE HelperCall \/ CallTimesOut \/ HelperEnded
             \/ \E outcome \in {"success", "gatt", "error"} : ClientEnded(outcome)
  <2>1. \/ UNCHANGED shown
        \/ \E outcome \in Outcomes : HelperGives(outcome)
    BY <1>4 DEF HelperCall, CallTimesOut, HelperEnded, ClientEnded, Outcomes, IInv, TypeOK, Tasks
  <2> QED
    BY <2>1, GivesShown
<1>5. CASE PauseTimesOut \/ Raises \/ HeartbeatGone \/ Offered \/ Ended
  BY <1>5 DEF PauseTimesOut, PauseGivenUp, Raises, Terminal, HeartbeatGone, Offered, Failed, Ended
<1>6. CASE Begin \/ ScanPaused \/ Captured \/ Reported \/ Confirmed
             \/ \E outcome \in {"success", "gatt", "error"} : Polled(outcome)
  BY <1>6 DEF Begin, ScanPaused, Captured, Reported, Confirmed, Polled
<1>7. CASE LoopStep \/ Takings
  <2>1. Cancelled \/ shown' \in {shown, "none", "refused"}
    BY <1>7 DEF LoopStep, Started, NewAttempt, RepairWaitsTooLong, RepairGoesOn, RemovalPaused,
       RemovalDone, Takings, TakeComplete, TakeStart, TakeCancel, TakeRemove, TakeRepair,
       TakeInvalidStart, attempt_vars
  <2> QED
    BY <2>1, CancelledShown
<1>8. CASE ScanStep \/ Tick \/ UNCHANGED vars \/ HelperExits \/ Restart
             \/ \E sid \in Sids : HaCommits(sid)
  BY <1>8 DEF ScanStep, Tick, vars, HelperExits, Restart, HaCommits, attempt_vars
<1> QED
  BY <1>1, <1>2, <1>3, <1>4, <1>5, <1>6, <1>7, <1>8 DEF Next, TaskStep, Environment

\* What the panel is told never goes back.
THEOREM StatusIsMonotone == Spec => StatusNeverGoesBack
<1>1. IInv /\ [Next]_vars =>
        [ ~(shown \in {"captured", "terminal"} /\ shown' = "progress") ]_vars
  BY StatusStep
<1> QED
  BY <1>1, Invariance, PTL DEF Spec, StatusNeverGoesBack

-----------------------------------------------------------------------------
(* The observer takes only the steps of Enrollment                         *)

Promised == [Promise!Next]_(Promise!vars)

PhaseOf(t) ==
  CASE t.pc = "none" -> "idle"
    [] t.pc \in {"final", "hide", "stop_failed", "offer"} -> "ending"
    [] t.pc \in HelperPcs /\ t.use = "failure" -> "ending"
    [] t.pc \in HelperPcs /\ t.use = "completion" -> "receipt"
    [] t.pc \in {"confirm", "pause_again"} -> "reported"
    [] OTHER -> "pairing"

AttemptOf(t, s) == IF t.pc # "none" THEN s ELSE NoSession

Committed == {sid \in Sids : ha[sid] = "committed"}

\* The state of the attempt, as Enrollment names it.
LEMMA Phases ==
  ASSUME NEW t
  PROVE  /\ t.pc = "none" => PhaseOf(t) = "idle"
         /\ t.pc \in {"final", "hide", "stop_failed", "offer"} => PhaseOf(t) = "ending"
         /\ t.pc \in HelperPcs /\ t.use = "failure" => PhaseOf(t) = "ending"
         /\ t.pc \in HelperPcs /\ t.use = "completion" => PhaseOf(t) = "receipt"
         /\ t.pc \in HelperPcs /\ t.use = "claim" => PhaseOf(t) = "pairing"
         /\ t.pc \in {"confirm", "pause_again"} => PhaseOf(t) = "reported"
         /\ t.pc \in {"created", "pause", "baseline", "client", "capture", "stop_heartbeat",
                      "visible", "watch"} => PhaseOf(t) = "pairing"
         /\ t.pc # "none" => PhaseOf(t) \in {"pairing", "reported", "receipt", "ending"}
<1>1. CASE t.pc \in {"none", "final", "hide", "stop_failed", "offer"}
  BY <1>1 DEF PhaseOf, HelperPcs
<1>2. CASE t.pc \in HelperPcs
  BY <1>2 DEF PhaseOf, HelperPcs
<1>3. CASE t.pc \notin {"none", "final", "hide", "stop_failed", "offer"} \cup HelperPcs
  BY <1>3 DEF PhaseOf, HelperPcs
<1> QED
  BY <1>1, <1>2, <1>3

SameAttempt == AttemptOf(task, session)' = AttemptOf(task, session)
SamePhase == PhaseOf(task)' = PhaseOf(task)
SameLoop == loop'.pc = "remove" <=> loop.pc = "remove"
SameHa == Committed' = Committed

\* The steps of Enrollment, in the words of the observer.
LEMMA PromisedSteps ==
  ASSUME
    \/ SameAttempt /\ SamePhase /\ SameLoop /\ SameHa
    \/ /\ PhaseOf(task) = "idle" /\ PhaseOf(task)' = "pairing"
       /\ AttemptOf(task, session)' \in Sids
       /\ loop.pc # "remove" /\ SameLoop /\ SameHa
    \/ /\ SameAttempt /\ SameLoop /\ SameHa
       /\ \/ PhaseOf(task) = "pairing" /\ PhaseOf(task)' = "reported"
          \/ /\ PhaseOf(task) = "reported" /\ PhaseOf(task)' = "receipt"
             /\ AttemptOf(task, session) \in Committed
          \/ /\ PhaseOf(task) \in {"pairing", "reported", "receipt"}
             /\ PhaseOf(task)' = "ending"
    \/ /\ PhaseOf(task) # "idle" /\ PhaseOf(task)' = "idle"
       /\ AttemptOf(task, session)' = NoSession
       /\ SameLoop /\ SameHa
    \/ /\ SameAttempt /\ SamePhase
       /\ \/ SameLoop /\ \E sid \in Sids : Committed' = Committed \cup {sid}
          \/ PhaseOf(task) = "idle" /\ loop.pc # "remove" /\ loop'.pc = "remove" /\ SameHa
          \/ loop.pc = "remove" /\ loop'.pc # "remove" /\ SameHa
  PROVE Promised
<1>1. /\ Phase = PhaseOf(task) /\ Phase' = PhaseOf(task)'
  BY Zenon DEF Phase, PhaseOf, Active, At, Using
<1> QED
  BY <1>1 DEF Promised, Promise!Next, Promise!vars, Promise!Begin, Promise!Commit, Promise!Report,
     Promise!Confirm, Promise!Wind, Promise!End, Promise!Remove, Promise!Removed, AttemptOf,
     Active, Committed, SameAttempt, SamePhase, SameLoop, SameHa

LEMMA SameHaFacts ==
  ha' = ha => SameHa
BY DEF SameHa, Committed

\* A step that keeps the phase, or moves within it.
LEMMA StaysPromised ==
  ASSUME UNCHANGED <<session, ha>>, SameLoop, task.pc = "none" <=> task'.pc = "none", SamePhase
  PROVE  Promised
<1>1. SameAttempt
  BY DEF SameAttempt, AttemptOf
<1> QED
  BY <1>1, SameHaFacts, PromisedSteps

\* An attempt that is left ends, or winds down before it does.
LEMMA LeavingPromised ==
  ASSUME IInv, Leaving, Active, UNCHANGED <<session, ha>>, SameLoop
  PROVE  Promised
<1>1. PhaseOf(task) \in {"pairing", "reported", "receipt", "ending"}
  BY Phases DEF Active, At
<1>2. SameHa
  BY SameHaFacts
<1>3. CASE task'.pc = "none"
  <2>1. PhaseOf(task)' = "idle" /\ AttemptOf(task, session)' = NoSession
    BY <1>3, Phases DEF AttemptOf
  <2> QED
    BY <1>1, <1>2, <2>1, PromisedSteps
<1>4. CASE task'.pc # "none"
  <2>1. PhaseOf(task)' = "ending"
    BY <1>4, Phases DEF Leaving, HelperPcs
  <2>2. SameAttempt
    BY <1>4 DEF SameAttempt, AttemptOf, Active, At
  <2> QED
    BY <1>1, <1>2, <2>1, <2>2, PromisedSteps DEF SamePhase
<1> QED
  BY <1>3, <1>4

LEMMA CancelledPromised ==
  ASSUME IInv, Cancelled, UNCHANGED <<session, ha>>, SameLoop
  PROVE  Promised
<1>1. CASE Leaving /\ Active
  BY <1>1, LeavingPromised
<1>2. CASE EndsHelper
  <2>1. task.pc = "poll" /\ task'.pc = "end" /\ task'.use = task.use
        /\ task.use \in {"claim", "completion", "failure"}
    BY <1>2 DEF EndsHelper, At, IInv, TypeOK, Tasks, HelperPcs, Receipts
  <2>2. SamePhase
    BY <2>1, Phases DEF SamePhase, HelperPcs
  <2> QED
    BY <2>1, <2>2, StaysPromised
<1>3. CASE UNCHANGED <<task, beating, shown, paused, helper>>
  BY <1>3, StaysPromised DEF SamePhase, PhaseOf
<1> QED
  BY <1>1, <1>2, <1>3, CancelledLeaves

\* The helper or the client is done.
LEMMA GivesPromised ==
  ASSUME IInv, Leaving \/ Captures, Active, task.pc \in HelperPcs \cup {"client"},
         UNCHANGED <<loop, session, ha>>
  PROVE  Promised
<1>1. SameLoop
  BY DEF SameLoop
<1>2. CASE Captures
  <2>1. task.use = "claim" /\ task'.pc = "capture" /\ task.pc # "none"
    BY <1>2 DEF Captures, Using, IInv, TypeOK, Tasks, HelperPcs
  <2>2. SamePhase
    BY <2>1, Phases DEF SamePhase
  <2> QED
    BY <1>1, <2>1, <2>2, StaysPromised
<1> QED
  BY <1>1, <1>2, LeavingPromised

\* The steps that leave an attempt, or wait for the helper.
LEMMA LeavingSteps ==
  ASSUME IInv,
         \/ PauseTimesOut \/ CallTimesOut \/ HelperEnded \/ Raises \/ HeartbeatGone
         \/ Offered \/ Ended
         \/ \E outcome \in {"success", "gatt", "error"} : ClientEnded(outcome)
  PROVE  Promised
<1>1. CASE PauseTimesOut \/ Raises
  <2>1. Leaving /\ Active /\ UNCHANGED <<loop, session, ha>>
    BY <1>1, PauseGivenUpLeaves, TerminalLeaves DEF PauseTimesOut, Raises, Active, At
  <2> QED
    BY <2>1, LeavingPromised DEF SameLoop
<1>2. CASE CallTimesOut
  <2>1. Active /\ task.pc \in HelperPcs /\ UNCHANGED <<loop, session, ha>>
    BY <1>2 DEF CallTimesOut, Active, At, HelperPcs
  <2>2. Leaving \/ Captures
    BY <1>2, <2>1, HelperGivesLeaves DEF CallTimesOut, Outcomes
  <2> QED
    BY <2>1, <2>2, GivesPromised
<1>3. CASE HelperEnded
  <2>1. Active /\ task.pc \in HelperPcs /\ UNCHANGED <<loop, session, ha>>
    BY <1>3 DEF HelperEnded, Active, At, HelperPcs
  <2>2. Leaving \/ Captures
    BY <1>3, <2>1, HelperGivesLeaves DEF HelperEnded, Outcomes, IInv, TypeOK, Tasks
  <2> QED
    BY <2>1, <2>2, GivesPromised
<1>4. ASSUME NEW outcome \in {"success", "gatt", "error"}, ClientEnded(outcome)
      PROVE  Promised
  <2>1. Active /\ task.pc \in HelperPcs \cup {"client"} /\ UNCHANGED <<loop, session, ha>>
    BY <1>4 DEF ClientEnded, Active, At
  <2>2. Leaving \/ Captures
    BY <1>4, <2>1, HelperGivesLeaves DEF ClientEnded, Outcomes
  <2> QED
    BY <2>1, <2>2, GivesPromised
<1>5. CASE HeartbeatGone \/ Offered
  <2>1. /\ task.pc \in {"stop_failed", "offer"} /\ beating = FALSE /\ HoldsRadio /\ Active
        /\ UNCHANGED <<loop, session, ha>>
    BY <1>5 DEF HeartbeatGone, Offered, IInv, TypeOK, ShownInv, Claiming, HoldsRadio, Active, At,
       HelperPcs
  <2>2. CASE Failed
    BY <2>1, <2>2, FailedLeaves, LeavingPromised DEF SameLoop
  <2>3. CASE GoTo("offer")
    <3>1. task'.pc = "offer" /\ task.pc # "none"
      BY <2>1, <2>3, GoToTypes DEF AttemptPcs
    <3>2. SamePhase
      BY <2>1, <3>1, Phases DEF SamePhase
    <3> QED
      BY <2>1, <3>1, <3>2, StaysPromised DEF SameLoop
  <2> QED
    BY <1>5, <2>2, <2>3 DEF HeartbeatGone, Offered
<1>6. CASE Ended
  <2>1. task.pc \in {"final", "hide"} /\ task' = NoTask /\ UNCHANGED <<loop, session, ha>>
    BY <1>6 DEF Ended, Released
  <2>2. /\ PhaseOf(task) = "ending" /\ PhaseOf(task)' = "idle"
        /\ AttemptOf(task, session)' = NoSession
    BY <2>1, Phases, TaskTypes DEF AttemptOf
  <2> QED
    BY <2>1, <2>2, SameHaFacts, PromisedSteps DEF SameLoop
<1> QED
  BY <1>1, <1>2, <1>3, <1>4, <1>5, <1>6

LEMMA HelperCallPromised ==
  ASSUME IInv, HelperCall
  PROVE  Promised
<1>1. Active /\ task.pc \in HelperPcs /\ UNCHANGED <<loop, session, ha>>
  BY DEF HelperCall, Active, At, HelperPcs
<1>2. CASE GoTo("run") \/ GoTo("poll")
  <2>1. task'.pc \in HelperPcs /\ task'.use = task.use /\ task'.pc # "none"
    BY <1>2, GoToTypes DEF AttemptPcs, HelperPcs
  <2>2. task.use \in {"claim", "completion", "failure"}
    BY DEF IInv, TypeOK, Tasks, Receipts
  <2>3. SamePhase
    BY <1>1, <2>1, <2>2, Phases DEF SamePhase
  <2> QED
    BY <1>1, <2>1, <2>3, StaysPromised DEF SameLoop, Active, At
<1>3. CASE HelperGives("gatt")
  BY <1>1, <1>3, HelperGivesLeaves, GivesPromised DEF Outcomes
<1> QED
  BY <1>2, <1>3 DEF HelperCall

\* The steps of an attempt that goes on.
LEMMA GoingSteps ==
  ASSUME IInv,
         \/ Begin \/ BaselineRead \/ Captured \/ Confirmed \/ ManualStep \/ Reported \/ ScanPaused
         \/ \E outcome \in {"success", "gatt", "error"} : Polled(outcome)
  PROVE  Promised
<1>1. CASE Begin \/ BaselineRead \/ Captured
  <2>1. /\ task.pc \in {"created", "baseline", "capture"}
        /\ task'.pc \in {"pause", "visible", "client", "end_old", "stop_heartbeat"}
        /\ task'.use = task.use /\ UNCHANGED <<loop, session, ha>>
    BY <1>1, GoToTypes DEF Begin, BaselineRead, Captured, At, AttemptPcs, HelperPcs
  <2>2. task'.pc = "end_old" => task'.use = "claim"
    BY <1>1, <2>1 DEF Begin, BaselineRead, Captured, At, GoTo, IInv, TypeOK, Tasks, ShownInv,
       Using
  <2>3. SamePhase
    BY <2>1, <2>2, Phases DEF SamePhase, HelperPcs
  <2> QED
    BY <2>1, <2>3, StaysPromised DEF SameLoop
<1>2. CASE Confirmed
  <2>1. task.pc = "confirm" /\ task'.pc = "pause_again" /\ UNCHANGED <<loop, session, ha>>
    BY <1>2, GoToTypes DEF Confirmed, At, AttemptPcs
  <2>2. SamePhase
    BY <2>1, Phases DEF SamePhase
  <2> QED
    BY <2>1, <2>2, StaysPromised DEF SameLoop
<1>3. ASSUME NEW outcome \in {"success", "gatt", "error"}, Polled(outcome)
      PROVE  Promised
  <2>1. /\ task.pc = "poll" /\ task'.pc = "end" /\ task'.use = task.use
        /\ task.use \in {"claim", "completion", "failure"} /\ UNCHANGED <<loop, session, ha>>
    BY <1>3 DEF Polled, At, IInv, TypeOK, Tasks, HelperPcs, Receipts
  <2>2. SamePhase
    BY <2>1, Phases DEF SamePhase, HelperPcs
  <2> QED
    BY <2>1, <2>2, StaysPromised DEF SameLoop
<1>4. CASE ManualStep \/ Reported
  <2>1. /\ UNCHANGED <<loop, session>> /\ session \in Sids
        /\ \/ task.pc = "visible" /\ task'.pc = "watch"
           \/ task.pc = "watch" /\ task'.pc = "hide"
           \/ task.pc = "stop_heartbeat" /\ task'.pc = "confirm"
    <3>1. UNCHANGED <<loop, session>> /\ task.pc # "none"
      BY <1>4 DEF ManualStep, Reported, At
    <3>2. session \in Sids
      BY <3>1 DEF IInv, LoopInv, Active, At
    <3>3. CASE ManualStep
      BY <3>1, <3>2, <3>3, GoToTypes DEF ManualStep, At, AttemptPcs
    <3>4. CASE Reported
      BY <3>1, <3>2, <3>4 DEF Reported, At, IInv, TypeOK, Tasks
    <3> QED
      BY <1>4, <3>3, <3>4
  <2>2. SameHa
    BY <1>4, <2>1 DEF ManualStep, Reported, SameHa, Committed, IInv, TypeOK
  <2>3. SameAttempt /\ SameLoop
    BY <2>1 DEF SameAttempt, AttemptOf, SameLoop
  <2>4. CASE task.pc = "visible"
    <3>1. SamePhase
      BY <2>1, <2>4, Phases DEF SamePhase
    <3> QED
      BY <2>2, <2>3, <3>1, PromisedSteps
  <2>5. CASE task.pc # "visible"
    <3>1. PhaseOf(task) = "pairing" /\ PhaseOf(task)' \in {"ending", "reported"}
      BY <2>1, <2>5, Phases
    <3> QED
      BY <2>2, <2>3, <3>1, PromisedSteps
  <2> QED
    BY <2>4, <2>5
<1>5. CASE ScanPaused
  <2>1. /\ UNCHANGED <<loop, session, ha>>
        /\ \/ At("pause") /\ task'.pc = "baseline"
           \/ At("pause_again") /\ task'.pc = "end_old" /\ task'.use = "completion"
    BY <1>5 DEF ScanPaused, IInv, TypeOK, Tasks, Receipts, HelperPcs, At
  <2>2. SameAttempt /\ SameLoop /\ SameHa
    BY <2>1, SameHaFacts DEF SameAttempt, AttemptOf, SameLoop, At
  <2>3. CASE At("pause")
    <3>1. SamePhase
      BY <2>1, <2>3, Phases DEF SamePhase, At
    <3> QED
      BY <2>2, <3>1, PromisedSteps
  <2>4. CASE At("pause_again")
    <3>1. PhaseOf(task) = "reported" /\ PhaseOf(task)' = "receipt"
      BY <2>1, <2>4, Phases DEF At, HelperPcs
    <3>2. AttemptOf(task, session) \in Committed
      BY <2>4 DEF IInv, CommitInv, LoopInv, Active, At, AttemptOf, Committed
    <3> QED
      BY <2>2, <3>1, <3>2, PromisedSteps
  <2> QED
    BY <2>1, <2>3, <2>4
<1> QED
  BY <1>1, <1>2, <1>3, <1>4, <1>5

LEMMA StartedPromised ==
  ASSUME IInv, Started
  PROVE  Promised
<1>1. /\ task.pc = "none" /\ task'.pc = "created" /\ session' = loop.sid /\ loop.sid \in Sids
      /\ ha' = ha
  <2>1. task' = [NoTask EXCEPT !.pc = "created", !.kind = loop.kind]
    BY DEF Started, NewAttempt
  <2>2. [NoTask EXCEPT !.pc = "created", !.kind = loop.kind].pc = "created"
    BY DEF NoTask
  <2> QED
    BY <2>1, <2>2 DEF Started, NewAttempt, Active, At, IInv, LoopInv
<1>2. PhaseOf(task) = "idle" /\ PhaseOf(task)' = "pairing" /\ AttemptOf(task, session)' \in Sids
  BY <1>1, Phases DEF AttemptOf
<1>3. loop.pc # "remove" /\ SameLoop
  BY DEF Started, Idle, SameLoop
<1> QED
  BY <1>1, <1>2, <1>3, SameHaFacts, PromisedSteps

\* The steps of the command loop.
LEMMA LoopSteps ==
  ASSUME IInv, LoopStep \/ Takings
  PROVE  Promised
<1>1. CASE Started
  BY <1>1, StartedPromised
<1>2. CASE RepairWaitsTooLong \/ TakeCancel \/ TakeRepair
             \/ \E sid \in Sids, kind \in {"app", "manual"} : TakeStart(sid, kind)
  <2>1. Cancelled /\ UNCHANGED <<session, ha>>
    BY <1>2 DEF RepairWaitsTooLong, TakeCancel, TakeRepair, TakeStart
  <2>2. SameLoop
    BY <1>2, LoopWaysTypes DEF RepairWaitsTooLong, TakeCancel, TakeRepair, TakeStart, Takes,
       Idle, SameLoop
  <2> QED
    BY <2>1, <2>2, CancelledPromised
<1>3. CASE \E sid \in Sids : TakeComplete(sid) \/ TakeInvalidStart(sid)
  <2>1. UNCHANGED <<task, loop, session, ha>>
    BY <1>3 DEF TakeComplete, TakeInvalidStart, attempt_vars
  <2> QED
    BY <2>1, StaysPromised DEF SamePhase, SameLoop, PhaseOf
<1>4. CASE TakeRemove \/ RepairGoesOn \/ RemovalPaused \/ RemovalDone
  <2>1. task.pc = "none" /\ UNCHANGED <<task, session, ha>>
    BY <1>4 DEF TakeRemove, RepairGoesOn, RemovalPaused, RemovalDone, attempt_vars, IInv, LoopInv,
       Active, At
  <2>2. SameAttempt /\ SamePhase /\ SameHa /\ PhaseOf(task) = "idle"
    BY <2>1, SameHaFacts, Phases DEF SameAttempt, SamePhase, AttemptOf, PhaseOf
  <2>3. CASE TakeRemove \/ RepairGoesOn
    <3>1. loop.pc # "remove" /\ loop'.pc # "remove"
      BY <2>3, LoopWaysTypes DEF TakeRemove, RepairGoesOn, Takes
    <3> QED
      BY <2>2, <3>1, PromisedSteps DEF SameLoop
  <2>4. CASE RemovalPaused
    <3>1. loop.pc # "remove"
      BY <2>4 DEF RemovalPaused
    <3> QED
      BY <2>2, <3>1, PromisedSteps DEF SameLoop
  <2>5. CASE RemovalDone
    <3>1. loop.pc = "remove" /\ loop'.pc # "remove"
      BY <2>5, LoopWaysTypes DEF RemovalDone
    <3> QED
      BY <2>2, <3>1, PromisedSteps
  <2> QED
    BY <1>4, <2>3, <2>4, <2>5
<1> QED
  BY <1>1, <1>2, <1>3, <1>4 DEF LoopStep, Takings

LEMMA HaCommitsPromised ==
  ASSUME IInv, NEW sid \in Sids, HaCommits(sid)
  PROVE  Promised
<1>1. Committed' = Committed \cup {sid}
  BY DEF HaCommits, Committed, IInv, TypeOK
<1>2. SameAttempt /\ SamePhase /\ SameLoop
  BY DEF HaCommits, attempt_vars, SameAttempt, SamePhase, SameLoop, AttemptOf, PhaseOf
<1> QED
  BY <1>1, <1>2, PromisedSteps

LEMMA RestartPromised ==
  ASSUME IInv, Restart
  PROVE  Promised
<1>1. /\ task'.pc = "none" /\ loop'.pc # "remove" /\ ha' = ha
  BY DEF Restart, NoTask, Idle
<1>2. PhaseOf(task)' = "idle" /\ AttemptOf(task, session)' = NoSession /\ SameHa
  BY <1>1, Phases, SameHaFacts DEF AttemptOf
<1>3. CASE task.pc # "none"
  <2>1. PhaseOf(task) # "idle"
    BY <1>3, Phases
  <2>2. SameLoop
    BY <1>1, <1>3 DEF SameLoop, IInv, LoopInv, Active, At
  <2> QED
    BY <1>2, <2>1, <2>2, PromisedSteps
<1>4. CASE task.pc = "none"
  <2>1. SameAttempt /\ SamePhase
    BY <1>1, <1>2, <1>4, Phases DEF SameAttempt, SamePhase, AttemptOf
  <2> QED
    BY <1>1, <1>2, <2>1, PromisedSteps DEF SameLoop
<1> QED
  BY <1>3, <1>4

LEMMA StepPromised ==
  ASSUME IInv, [Next]_vars
  PROVE  Promised
<1>1. CASE TaskStep
  BY <1>1, LeavingSteps, GoingSteps, HelperCallPromised DEF TaskStep
<1>2. CASE LoopStep \/ Takings
  BY <1>2, LoopSteps
<1>3. CASE \/ Heartbeat \/ ScanStep \/ Tick \/ UNCHANGED vars \/ HelperExits
           \/ \E reported \in 0 .. AttemptTTL + 1 : Progress(reported)
  <2>1. UNCHANGED <<task, loop, session, ha>>
    BY <1>3 DEF Heartbeat, ScanStep, Tick, vars, HelperExits, Progress, attempt_vars
  <2> QED
    BY <2>1, StaysPromised DEF SamePhase, SameLoop, PhaseOf
<1> QED
  BY <1>1, <1>2, <1>3, HaCommitsPromised, RestartPromised DEF Next, Environment

\* The observer takes only steps that Enrollment allows: one attempt at a time, which
\* reports once and tells the phone of the success only when Home Assistant has
\* committed it, and no removal while it runs.
THEOREM ImplementsSafety == Spec => Promise!Safety
<1>1. Init => Promise!Init
  <2> SUFFICES ASSUME Init
               PROVE  Promise!Init
    OBVIOUS
  <2>1. task.pc = "none" /\ ~Active
    BY DEF Init, NoTask, Active, At
  <2>2. Phase = "idle"
    <3>1. Phase = PhaseOf(task)
      BY Zenon DEF Phase, PhaseOf, Active, At, Using
    <3> QED
      BY <2>1, <3>1, Phases
  <2>3. loop.pc # "remove"
    BY DEF Init, Idle
  <2>4. Committed = {}
    BY DEF Init, Committed
  <2> QED
    BY <2>1, <2>2, <2>3, <2>4 DEF Promise!Init, Committed
<1>2. IInv /\ [Next]_vars => [Promise!Next]_(Promise!vars)
  BY StepPromised DEF Promised
<1> QED
  BY <1>1, <1>2, Invariance, PTL DEF Spec, Promise!Safety

-----------------------------------------------------------------------------
(* What Home Assistant may conclude                                        *)

PromiseInv == Promise!ToldIsCommitted /\ Promise!RemovesAlone

\* Every step of Enrollment keeps its two invariants.
LEMMA PromiseStep ==
  ASSUME PromiseInv, Promised
  PROVE  PromiseInv'
<1> USE DEF PromiseInv, Promise!ToldIsCommitted, Promise!RemovesAlone
<1>1. CASE UNCHANGED Promise!vars
  BY <1>1 DEF Promise!vars
<1>2. CASE Promise!Next
  BY <1>2 DEF Promise!Next, Promise!Begin, Promise!Commit, Promise!Report, Promise!Confirm,
     Promise!Wind, Promise!End, Promise!Remove, Promise!Removed
<1> QED
  BY <1>1, <1>2 DEF Promised

\* The helper reports a success only of a session that is committed, at the await of
\* every receipt, and no bond is removed while an attempt runs or winds down.
THEOREM PromiseIsKept == Spec => []PromiseInv
<1>1. Promise!Init => PromiseInv
  BY DEF Promise!Init, PromiseInv, Promise!ToldIsCommitted, Promise!RemovesAlone
<1>2. PromiseInv /\ [Promise!Next]_(Promise!vars) => PromiseInv'
  BY PromiseStep DEF Promised
<1> QED
  BY <1>1, <1>2, ImplementsSafety, PTL DEF Promise!Safety

\* The helper program outlives its attempt, the timeout of the call that started it and
\* the service: whenever it reports a success, it is of a committed session.
HelperTold == helper.use = "completion" => ha[helper.sid] = "committed"

\* What a step may leave running.
LEMMA HelperSteps ==
  ASSUME IInv, [Next]_vars
  PROVE  \/ helper' = helper \/ helper' = NoHelper
         \/ At("run") /\ helper' = [use |-> task.use, sid |-> session]
<1>1. \A left \in {helper} \cup MaybeCalled :
        \/ left = helper \/ left = NoHelper
        \/ At("run") /\ left = [use |-> task.use, sid |-> session]
  BY DEF MaybeCalled
<1>2. Cancelled => helper' \in {helper} \cup MaybeCalled
  BY DEF Cancelled, IInv, TypeOK, Tasks, HelperPcs, At
<1>3. CASE TaskStep
  BY <1>1, <1>3 DEF TaskStep, Begin, ScanPaused, PauseTimesOut, BaselineRead, HelperCall,
     CallTimesOut, Polled, ClientEnded, HelperEnded, Captured, Reported, Confirmed, Raises,
     ManualStep, HeartbeatGone, Offered, Ended, radio_vars, At
<1>4. CASE LoopStep \/ Takings
  BY <1>1, <1>2, <1>4 DEF LoopStep, Started, RepairWaitsTooLong, RepairGoesOn, RemovalPaused,
     RemovalDone, Takings, TakeComplete, TakeStart, TakeCancel, TakeRemove, TakeRepair,
     TakeInvalidStart, radio_vars, At
<1>5. CASE Environment \/ Heartbeat \/ ScanStep \/ Tick \/ UNCHANGED vars
  BY <1>5 DEF Environment, HaCommits, Progress, HelperExits, Restart, Heartbeat, ScanStep, Tick,
     vars, radio_vars
<1> QED
  BY <1>3, <1>4, <1>5 DEF Next

\* Home Assistant does not take a commit back.
LEMMA CommitLasts ==
  ASSUME IInv, [Next]_vars, NEW sid \in Sids, ha[sid] = "committed"
  PROVE  ha'[sid] = "committed"
<1>1. ha \in [Sids -> {"open", "reported", "committed"}]
  BY DEF IInv, TypeOK
<1>2. CASE TaskStep
  <2>1. ha' = ha \/ (ha[session] = "open" /\ ha' = [ha EXCEPT ![session] = "reported"])
    BY <1>2 DEF TaskStep, Begin, ScanPaused, PauseTimesOut, BaselineRead, HelperCall,
       CallTimesOut, Polled, ClientEnded, HelperEnded, Captured, Reported, Confirmed, Raises,
       ManualStep, HeartbeatGone, Offered, Ended
  <2> QED
    BY <1>1, <2>1
<1>3. CASE LoopStep \/ Takings
  BY <1>3 DEF LoopStep, Started, RepairWaitsTooLong, RepairGoesOn, RemovalPaused,
     RemovalDone, Takings, TakeComplete, TakeStart, TakeCancel, TakeRemove, TakeRepair,
     TakeInvalidStart
<1>4. CASE Environment \/ Heartbeat \/ ScanStep \/ Tick \/ UNCHANGED vars
  BY <1>1, <1>4 DEF Environment, HaCommits, Progress, HelperExits, Restart, Heartbeat, ScanStep,
     Tick, vars
<1> QED
  BY <1>2, <1>3, <1>4 DEF Next

LEMMA ToldStep ==
  ASSUME IInv, PromiseInv, HelperTold, [Next]_vars
  PROVE  HelperTold'
<1>0. helper \in {NoHelper} \cup [use : {"claim"} \cup Receipts, sid : Sids]
  BY DEF IInv, TypeOK
<1>1. CASE helper' = helper
  <2>1. helper.use = "completion" => helper.sid \in Sids
    BY <1>0 DEF NoHelper
  <2> QED
    BY <1>1, <2>1, CommitLasts DEF HelperTold
<1>2. CASE helper' = NoHelper
  BY <1>2 DEF HelperTold, NoHelper
<1>3. CASE At("run") /\ helper' = [use |-> task.use, sid |-> session]
  <2>1. CASE task.use = "completion"
    <3>1. Phase = PhaseOf(task) /\ Active
      BY <1>3, Zenon DEF Phase, PhaseOf, Active, At, Using
    <3>2. Phase = "receipt"
      BY <1>3, <2>1, <3>1, Phases DEF At, HelperPcs
    <3>3. session \in Sids /\ ha[session] = "committed"
      BY <3>1, <3>2 DEF PromiseInv, Promise!ToldIsCommitted
    <3> QED
      BY <1>3, <3>3, CommitLasts DEF HelperTold
  <2> QED
    BY <1>3, <2>1 DEF HelperTold
<1> QED
  BY <1>1, <1>2, <1>3, HelperSteps

\* The helper tells a phone of a success only when Home Assistant has committed the
\* session it runs for, whatever has become of the attempt and of the service.
THEOREM HelperTellsTruth == Spec => []HelperTold
<1>1. Init => HelperTold
  BY DEF Init, HelperTold, NoHelper
<1>2. IInv /\ PromiseInv /\ HelperTold /\ [Next]_vars => HelperTold'
  BY ToldStep
<1> QED
  BY <1>1, <1>2, Invariance, PromiseIsKept, PTL DEF Spec

=============================================================================
