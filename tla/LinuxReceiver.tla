----------------------------- MODULE LinuxReceiver -----------------------------
(***************************************************************************)
(* The Linux receiver: the enrollment engine (receiver/engine.py) on its   *)
(* BlueZ transport (receiver/bluez.py), behind the command queue of the    *)
(* standalone program (bridge/linux/receiver.py).                          *)
(*                                                                         *)
(* Two coroutines interleave on one asyncio thread.  The worker takes one  *)
(* command at a time and may wait in it, for a cancelled attempt to clean  *)
(* up or for BlueZ to remove a bond.  The task _pair runs one attempt; its *)
(* pc is the await it is suspended on.  Home Assistant, the phones, BlueZ  *)
(* and the MQTT connection are the environment.  "out" holds the messages  *)
(* to Home Assistant that the last step published.                         *)
(*                                                                         *)
(* As in PairingCoordinator a deadline is the time that is left.           *)
(***************************************************************************)
EXTENDS Integers, Sequences, FiniteSets

CONSTANTS
  Sids,        \* sessions of Home Assistant, i.e. invitations
  Phones,      \* phones; one stands for its key, its fingerprint and its address
  NoSession, NoPhone,
  InviteTTL,   \* lifetime of an invitation (at most MAX_INVITATION_LIFETIME)
  AttemptTTL,  \* time an attempt has once its phone is near (300 s)
  RetiredMax,  \* sessions remembered as finished (256)
  InboxMax     \* length of the command queue (64)

ASSUME ReceiverAssumption ==
  /\ NoSession \notin Sids /\ NoPhone \notin Phones
  /\ {InviteTTL, AttemptTTL, RetiredMax, InboxMax} \subseteq Nat \ {0}

VARIABLES
  inbox,      \* the queue of commands
  mqtt,       \* connected.is_set()
  worker,     \* what the coroutine commands() is doing
  session,    \* self.session, the link of the last attempt
  task,       \* self.task: its await and the path of its phone
  deadline,   \* self.deadline
  sent,       \* self.result_sent
  completed,  \* self.completed.is_set()
  retired,    \* self.retired
  agent,      \* transport.agent.target
  advert,     \* what transport advertises
  peers,      \* self.peers
  saved,      \* the state file
  late,       \* writes of the state file whose attempt was cancelled meanwhile
  alive,      \* transport.owner: the BlueZ that the receiver connected to
  bonded,     \* phones BlueZ holds an authenticated bond of
  left,       \* time left of each invitation
  ha,         \* how far Home Assistant is with each session
  out         \* the messages published by the last step

attempt_vars == <<session, task, deadline, sent, completed, retired, agent, advert>>
file_vars    == <<peers, saved, late>>
bluez_vars   == <<alive, bonded>>
ha_vars      == <<left, ha>>
vars == <<inbox, mqtt, worker, attempt_vars, file_vars, bluez_vars, ha_vars, out>>

-----------------------------------------------------------------------------
(* Values                                                                  *)

Unset  == -1
Timers == Unset .. (InviteTTL + AttemptTTL)

Commands ==
  [action : {"start", "cancel", "complete"}, sid : Sids] \cup
  [action : {"forget"}, phone : Phones]

\* An attempt holds its phone's path from connect on.  In "stop" and "disconnect"
\* it is in its finally clause.
PhonePcs   == {"connect", "claim", "pair", "unpair", "bond", "write", "save", "wait",
               "clear_receipt", "register_receipt", "receipt"}
BodyPcs    == {"clear", "advertise", "find"} \cup PhonePcs
CleanupPcs == {"stop", "disconnect"}
Tasks == [pc : {"none", "created"} \cup BodyPcs \cup CleanupPcs, phone : Phones \cup {NoPhone},
          fate : {"error", "cancelled"}]
NoTask == [pc |-> "none", phone |-> NoPhone, fate |-> "error"]

Workers == [pc : {"idle", "cancelling", "removing"}, phone : Phones \cup {NoPhone}]
Idle == [pc |-> "idle", phone |-> NoPhone]

Status(state, code) ==
  [type |-> "status", sid |-> session, state |-> state, code |-> code]
Result(phone)        == [type |-> "result", sid |-> session, phone |-> phone]
Removed(phone, done) == [type |-> "removal", phone |-> phone, success |-> done]

Active == task.pc # "none"

-----------------------------------------------------------------------------
(* Parts of an attempt                                                     *)

\* Publications of an attempt raise while MQTT is down, answers to a removal are
\* dropped.
Publish(messages) == out' = IF mqtt THEN messages ELSE << >>
Silent == out' = << >>

At(pc) == task.pc = pc
GoTo(pc) == task' = [task EXCEPT !.pc = pc]

\* self.retired.add, bounded.
Retire(sid) ==
  IF Cardinality(retired \cup {sid}) > RetiredMax THEN {sid} ELSE retired \cup {sid}

\* The except clauses of _pair, then its finally up to the first await.
End(phone, fate) ==
  /\ Publish(<<Status(fate, "plain")>>)
  /\ retired' = Retire(session)
  /\ agent' = NoPhone
  /\ task' = [NoTask EXCEPT !.phone = phone,
                            !.pc = IF advert # "none" THEN "stop"
                                   ELSE IF phone # NoPhone THEN "disconnect" ELSE "none"]

\* progress(...), then on to the next await; without MQTT the attempt ends.
Report(phone, messages, pc) ==
  IF mqtt
  THEN /\ Publish(messages)
       /\ task' = [task EXCEPT !.pc = pc, !.phone = phone]
       /\ UNCHANGED <<retired, agent>>
  ELSE End(phone, "error")

-----------------------------------------------------------------------------
(* The attempt, one action per await                                       *)

Begin ==
  /\ At("created")
  /\ Report(NoPhone, <<Status("pairing", "plain")>>,
            IF advert = "none" THEN "advertise" ELSE "clear")
  /\ UNCHANGED <<inbox, mqtt, worker, session, deadline, sent, completed, advert,
                 file_vars, bluez_vars, ha_vars>>

\* advertise() stops the previous advertisement first.
AdvertStopped ==
  /\ task.pc \in {"clear", "clear_receipt"}
  /\ advert' = "none"
  /\ GoTo(IF At("clear") THEN "advertise" ELSE "register_receipt")
  /\ Silent
  /\ UNCHANGED <<inbox, mqtt, worker, session, deadline, sent, completed, retired, agent,
                 file_vars, bluez_vars, ha_vars>>

Advertised ==
  /\ task.pc \in {"advertise", "register_receipt"}
  /\ advert' = IF At("advertise") THEN "preflight" ELSE "completion"
  /\ GoTo(IF At("advertise") THEN "find" ELSE "receipt")
  /\ Silent
  /\ UNCHANGED <<inbox, mqtt, worker, session, deadline, sent, completed, retired, agent,
                 file_vars, bluez_vars, ha_vars>>

\* find_phone sees a near phone that advertises the service of this invitation.
Found(phone) ==
  /\ At("find")
  /\ alive
  /\ left[session] > 0
  /\ deadline' = AttemptTTL
  /\ Report(phone, <<Status("pairing", "handoff")>>, "connect")
  /\ UNCHANGED <<inbox, mqtt, worker, session, sent, completed, advert, file_vars,
                 bluez_vars, ha_vars>>

Connected ==
  /\ At("connect")
  /\ alive
  /\ GoTo("claim")
  /\ Silent
  /\ UNCHANGED <<inbox, mqtt, worker, session, deadline, sent, completed, retired, agent,
                 advert, file_vars, bluez_vars, ha_vars>>

\* The phone proved that it read this QR code; a phone that BlueZ knows as paired
\* is not paired again.
Claimed ==
  /\ At("claim")
  /\ alive
  /\ IF mqtt
     THEN /\ Publish(<<Status("pairing", "completion")>>)
          /\ GoTo(IF task.phone \in bonded THEN "bond" ELSE "pair")
          /\ agent' = IF task.phone \in bonded THEN NoPhone ELSE task.phone
          /\ UNCHANGED retired
     ELSE End(task.phone, "error")
  /\ UNCHANGED <<inbox, mqtt, worker, session, deadline, sent, completed, advert,
                 file_vars, bluez_vars, ha_vars>>

Paired ==
  /\ At("pair")
  /\ alive
  /\ bonded' = bonded \cup {task.phone}
  /\ agent' = NoPhone
  /\ GoTo("bond")
  /\ Silent
  /\ UNCHANGED <<inbox, mqtt, worker, session, deadline, sent, completed, retired, advert,
                 file_vars, alive, ha_vars>>

\* The authenticated keys of the phone have been read from the files of BlueZ.
BondRead ==
  /\ At("bond")
  /\ task.phone \in bonded
  /\ GoTo("write")
  /\ Silent
  /\ UNCHANGED <<inbox, mqtt, worker, session, deadline, sent, completed, retired, agent,
                 advert, file_vars, bluez_vars, ha_vars>>

\* Mutant: the identity is sent before the receiver can remove its bond again.
WrittenAndSent ==
  /\ At("write")
  /\ alive
  /\ Report(task.phone, <<Status("pairing", "completion"), Result(task.phone)>>, "save")
  /\ peers' = IF mqtt THEN peers \cup {task.phone} ELSE peers
  /\ UNCHANGED <<inbox, mqtt, worker, session, deadline, sent, completed, advert, saved,
                 late, bluez_vars, ha_vars>>

\* The phone took the encrypted acknowledgement.
Written ==
  /\ At("write")
  /\ alive
  /\ Report(task.phone, <<Status("pairing", "completion")>>, "save")
  /\ peers' = IF mqtt THEN peers \cup {task.phone} ELSE peers
  /\ UNCHANGED <<inbox, mqtt, worker, session, deadline, sent, completed, advert, saved,
                 late, bluez_vars, ha_vars>>

Saved ==
  /\ At("save")
  /\ saved' = peers
  /\ sent' = TRUE
  /\ Report(task.phone, <<Status("pairing", "completion"), Result(task.phone)>>, "wait")
  /\ ha' = IF mqtt /\ ha[session] = "issued" THEN [ha EXCEPT ![session] = "reported"] ELSE ha
  /\ UNCHANGED <<inbox, mqtt, worker, session, deadline, completed, advert, peers, late,
                 bluez_vars, left>>

Completed ==
  /\ At("wait")
  /\ completed
  /\ GoTo(IF advert = "none" THEN "register_receipt" ELSE "clear_receipt")
  /\ Silent
  /\ UNCHANGED <<inbox, mqtt, worker, session, deadline, sent, completed, retired, agent,
                 advert, file_vars, bluez_vars, ha_vars>>

\* The receipt was on the air for 20 s, or until the deadline.
ReceiptShown ==
  /\ At("receipt")
  /\ retired' = Retire(session)
  /\ GoTo("stop")
  /\ agent' = NoPhone
  /\ Silent
  /\ UNCHANGED <<inbox, mqtt, worker, session, deadline, sent, completed, advert, file_vars,
                 bluez_vars, ha_vars>>

-----------------------------------------------------------------------------
(* How an attempt fails                                                    *)

\* The attempt stops at its await, with an error or because it is cancelled.  A
\* pairing that was begun is taken back first, with the agent still in place; an
\* interrupted write of the state file goes on in its thread.
Stop(fate, interrupted) ==
  IF At("pair")
  THEN /\ task' = [task EXCEPT !.pc = "unpair", !.fate = fate]
       /\ Silent
       /\ UNCHANGED <<retired, agent, late>>
  ELSE /\ End(task.phone, fate)
       /\ late' = IF At("save") /\ interrupted THEN late \cup {peers} ELSE late

\* An exception of the await: BlueZ refuses, is gone or does not answer in time,
\* the claim is wrong, no authenticated bond appears, the file cannot be written.
Fails ==
  /\ task.pc \in BodyPcs \ {"find", "wait", "receipt", "unpair", "clear", "clear_receipt"}
  /\ Stop("error", FALSE)
  /\ UNCHANGED <<inbox, mqtt, worker, session, deadline, sent, completed, advert, peers,
                 saved, bluez_vars, ha_vars>>

\* asyncio.timeout_at(deadline), and the end of the invitation in find_phone.
Expires ==
  /\ \/ At("find") /\ left[session] <= 0
     \/ task.pc \in PhonePcs \ {"unpair"} /\ deadline = 0
  /\ Stop("error", TRUE)
  /\ UNCHANGED <<inbox, mqtt, worker, session, deadline, sent, completed, advert, peers,
                 saved, bluez_vars, ha_vars>>

\* Mutant: CancelPairing is called without a timeout and never answered.
UnpairedIfAlive ==
  /\ At("unpair")
  /\ alive
  /\ bonded' \in {bonded, bonded \cup {task.phone}}
  /\ End(task.phone, task.fate)
  /\ UNCHANGED <<inbox, mqtt, worker, session, deadline, sent, completed, advert, file_vars,
                 alive, ha_vars>>

\* CancelPairing has returned; BlueZ may have finished the pairing before.
Unpaired ==
  /\ At("unpair")
  /\ bonded' \in {bonded} \cup IF alive THEN {bonded \cup {task.phone}} ELSE {}
  /\ End(task.phone, task.fate)
  /\ UNCHANGED <<inbox, mqtt, worker, session, deadline, sent, completed, advert, file_vars,
                 alive, ha_vars>>

CleanedUp ==
  /\ \/ /\ At("stop")
        /\ advert' = "none"
        /\ task' = IF task.phone = NoPhone THEN NoTask ELSE [task EXCEPT !.pc = "disconnect"]
     \/ /\ At("disconnect")
        /\ task' = NoTask
        /\ UNCHANGED advert
  /\ Silent
  /\ UNCHANGED <<inbox, mqtt, worker, session, deadline, sent, completed, retired, agent,
                 file_vars, bluez_vars, ha_vars>>

-----------------------------------------------------------------------------
(* The worker: one command at a time                                       *)

Command == Head(inbox)
Takes(action) == worker.pc = "idle" /\ inbox # << >> /\ Command.action = action
Taken == inbox' = Tail(inbox)

\* Mutant: a finished session may be started again.
StartsAgain(sid) == left[sid] > 0 /\ ~Active

\* The link is valid, is not a replay, and no attempt is running.
Starts(sid) == left[sid] > 0 /\ sid \notin retired /\ ~Active

\* Mutant: the completion of the last session is not cleared.
AttemptKeepingCompletion(sid) ==
  /\ session' = sid
  /\ deadline' = Unset
  /\ sent' = FALSE
  /\ task' = [NoTask EXCEPT !.pc = "created"]
  /\ UNCHANGED completed

Attempt(sid) ==
  /\ session' = sid
  /\ deadline' = Unset
  /\ sent' = FALSE
  /\ completed' = FALSE
  /\ task' = [NoTask EXCEPT !.pc = "created"]

TakeStart ==
  /\ Takes("start")
  /\ Taken
  /\ IF Starts(Command.sid)
     THEN Attempt(Command.sid) /\ UNCHANGED <<retired, agent, advert>>
     ELSE UNCHANGED attempt_vars
  /\ Silent
  /\ UNCHANGED <<mqtt, worker, file_vars, bluez_vars, ha_vars>>

\* task.cancel(), and what the task does with it up to its next await.  A task
\* that has not begun never begins; one that is cleaning up stops doing so.
Cancelled ==
  IF task.pc \in BodyPcs \ {"unpair"}
  THEN Stop("cancelled", TRUE)
  ELSE IF At("unpair")
  THEN End(task.phone, "cancelled") /\ UNCHANGED late
  ELSE task' = NoTask /\ Silent /\ UNCHANGED <<retired, agent, late>>

TakeCancel ==
  /\ Takes("cancel")
  /\ Taken
  /\ IF session = Command.sid /\ Active
     THEN Cancelled /\ worker' = [Idle EXCEPT !.pc = "cancelling"]
     ELSE Silent /\ UNCHANGED <<worker, task, retired, agent, late>>
  /\ UNCHANGED <<mqtt, session, deadline, sent, completed, advert, peers, saved, bluez_vars,
                 ha_vars>>

\* The cancelled task is over; an exception of its last publication is logged.
CancelDone ==
  /\ worker.pc = "cancelling"
  /\ ~Active
  /\ worker' = Idle
  /\ Silent
  /\ UNCHANGED <<inbox, mqtt, attempt_vars, file_vars, bluez_vars, ha_vars>>

TakeComplete ==
  /\ Takes("complete")
  /\ Taken
  /\ completed' = (completed \/ (session = Command.sid /\ sent /\ deadline > 0))
  /\ Silent
  /\ UNCHANGED <<mqtt, worker, session, task, deadline, sent, retired, agent, advert,
                 file_vars, bluez_vars, ha_vars>>

Refuses(phone) == Active \/ phone \notin peers

TakeForget ==
  /\ Takes("forget")
  /\ Taken
  /\ IF Refuses(Command.phone)
     THEN Publish(<<Removed(Command.phone, FALSE)>>) /\ UNCHANGED worker
     ELSE Silent /\ worker' = [pc |-> "removing", phone |-> Command.phone]
  /\ UNCHANGED <<mqtt, attempt_vars, file_vars, bluez_vars, ha_vars>>

\* transport.remove(peer): the device objects of the phone are removed and BlueZ
\* confirms it.  A receiver that lost BlueZ knows no device objects any more.
RemovalDone ==
  /\ worker.pc = "removing"
  /\ worker' = Idle
  /\ bonded' = IF alive THEN bonded \ {worker.phone} ELSE bonded
  /\ Publish(<<Removed(worker.phone, TRUE)>>)
  /\ UNCHANGED <<inbox, mqtt, attempt_vars, file_vars, alive, ha_vars>>

\* The saved keys are not those of the phone, or BlueZ does not confirm in time.
RemovalFails ==
  /\ worker.pc = "removing"
  /\ worker' = Idle
  /\ bonded' \in {bonded} \cup IF alive THEN {bonded \ {worker.phone}} ELSE {}
  /\ Publish(<<Removed(worker.phone, FALSE)>>)
  /\ UNCHANGED <<inbox, mqtt, attempt_vars, file_vars, alive, ha_vars>>

-----------------------------------------------------------------------------
(* The environment                                                         *)

\* put_nowait unless the queue is full.
Enqueued(command) ==
  IF Len(inbox) >= InboxMax THEN inbox ELSE Append(inbox, command)

\* A command of Home Assistant arrives, possibly once more than it was sent (QoS 1).
Deliver(command) ==
  /\ mqtt
  /\ inbox' = Enqueued(command)
  /\ Silent
  /\ UNCHANGED <<mqtt, worker, attempt_vars, file_vars, bluez_vars>>

\* Home Assistant starts a session, may cancel it at any time, and completes it
\* after its result.
HaStarts(sid) ==
  /\ ha[sid] = "none"
  /\ ha' = [ha EXCEPT ![sid] = "issued"]
  /\ left' = [left EXCEPT ![sid] = InviteTTL]
  /\ Deliver([action |-> "start", sid |-> sid])

HaRepeats(sid, action) ==
  /\ ha[sid] # "none"
  /\ Deliver([action |-> action, sid |-> sid])
  /\ UNCHANGED ha_vars

HaCompletes(sid) ==
  /\ ha[sid] \in {"reported", "committed"}
  /\ ha' = [ha EXCEPT ![sid] = "committed"]
  /\ Deliver([action |-> "complete", sid |-> sid])
  /\ UNCHANGED left

HaForgets(phone) ==
  /\ Deliver([action |-> "forget", phone |-> phone])
  /\ UNCHANGED ha_vars

MqttChanges ==
  /\ mqtt' = ~mqtt
  /\ Silent
  /\ UNCHANGED <<inbox, worker, attempt_vars, file_vars, bluez_vars, ha_vars>>

\* NameOwnerChanged: bluetoothd stopped or restarted, its objects are forgotten.
BlueZLost ==
  /\ alive
  /\ alive' = FALSE
  /\ agent' = NoPhone
  /\ Silent
  /\ UNCHANGED <<inbox, mqtt, worker, session, task, deadline, sent, completed, retired,
                 advert, file_vars, bonded, ha_vars>>

\* The thread of a cancelled attempt writes the state file.
LateWrite ==
  /\ \E snapshot \in late : saved' = snapshot /\ late' = late \ {snapshot}
  /\ Silent
  /\ UNCHANGED <<inbox, mqtt, worker, attempt_vars, peers, bluez_vars, ha_vars>>

Less(t) == IF t > 0 THEN t - 1 ELSE t

Tick ==
  /\ deadline' = Less(deadline)
  /\ left' = [sid \in Sids |-> Less(left[sid])]
  /\ Silent
  /\ UNCHANGED <<inbox, mqtt, worker, session, task, sent, completed, retired, agent, advert,
                 file_vars, bluez_vars, ha>>

Stopped ==
  /\ inbox = << >>
  /\ worker = Idle
  /\ session = NoSession
  /\ task = NoTask
  /\ deadline = Unset
  /\ sent = FALSE /\ completed = FALSE
  /\ retired = {}
  /\ agent = NoPhone
  /\ advert = "none"
  /\ late = {}
  /\ alive = TRUE
  /\ out = << >>

Init ==
  /\ Stopped
  /\ mqtt = TRUE
  /\ peers = {} /\ saved = {}
  /\ bonded \in SUBSET Phones
  /\ left = [sid \in Sids |-> Unset]
  /\ ha = [sid \in Sids |-> "none"]

\* The receiver is killed and started again; it reads the state file.
Restart ==
  /\ inbox' = << >>
  /\ mqtt' = TRUE
  /\ worker' = Idle
  /\ session' = NoSession
  /\ task' = NoTask
  /\ deadline' = Unset
  /\ sent' = FALSE /\ completed' = FALSE
  /\ retired' = {}
  /\ agent' = NoPhone
  /\ advert' = "none"
  /\ late' = {}
  /\ alive' = TRUE
  /\ out' = << >>
  /\ peers' = saved
  /\ UNCHANGED <<saved, bonded, ha_vars>>

-----------------------------------------------------------------------------
(* The specification                                                       *)

\* The end of each await of an attempt, other than a phone coming near.
TaskStep ==
  \/ Begin \/ AdvertStopped \/ Advertised \/ Connected \/ Claimed \/ Paired \/ BondRead
  \/ Written \/ Saved \/ Completed \/ ReceiptShown
  \/ Fails \/ Expires \/ Unpaired \/ CleanedUp

WorkerStep ==
  \/ TakeStart \/ TakeCancel \/ CancelDone \/ TakeComplete \/ TakeForget
  \/ RemovalDone \/ RemovalFails

Environment ==
  \/ \E phone \in Phones : Found(phone) \/ HaForgets(phone)
  \/ \E sid \in Sids : HaStarts(sid) \/ HaRepeats(sid, "start") \/ HaRepeats(sid, "cancel")
                       \/ HaCompletes(sid)
  \/ MqttChanges \/ BlueZLost \/ LateWrite \/ Restart

Next == TaskStep \/ WorkerStep \/ Environment \/ Tick

Spec == Init /\ [][Next]_vars

\* Every await of an attempt but find_phone and completed.wait() has a timeout of
\* its own, those two end with the invitation and the deadline, and time passes.
Fairness == WF_vars(TaskStep) /\ WF_vars(WorkerStep) /\ WF_vars(Tick)

FairSpec == Spec /\ Fairness

-----------------------------------------------------------------------------
(* Properties                                                              *)

\* The variables keep their types; in particular the queue keeps its bound.
TypeOK ==
  /\ inbox \in Seq(Commands) /\ Len(inbox) <= InboxMax
  /\ mqtt \in BOOLEAN /\ alive \in BOOLEAN
  /\ worker \in Workers
  /\ session \in Sids \cup {NoSession}
  /\ task \in Tasks
  /\ deadline \in Timers
  /\ sent \in BOOLEAN /\ completed \in BOOLEAN
  /\ retired \subseteq Sids /\ Cardinality(retired) <= RetiredMax
  /\ agent \in Phones \cup {NoPhone}
  /\ advert \in {"none", "preflight", "completion"}
  /\ peers \subseteq Phones /\ saved \subseteq Phones /\ late \subseteq SUBSET Phones
  /\ bonded \subseteq Phones
  /\ left \in [Sids -> Timers]
  /\ ha \in [Sids -> {"none", "issued", "reported", "committed"}]

\* At the moment it is published an identity names a phone whose bond the receiver
\* can still find after a crash, to remove it.  (A write that the thread of an earlier,
\* cancelled attempt still has to do may drop the phone afterwards: LateWrite.)
ResultOnlyWhenSaved ==
  [][ \A phone \in Phones :
        (\E i \in 1 .. Len(out') : out'[i].type = "result" /\ out'[i].phone = phone)
          => phone \in saved' ]_vars

\* The worker comes back to its queue, from a cancelled attempt and from BlueZ.
CommandsServed == worker.pc # "idle" ~> worker.pc = "idle"

\* "Removal is confirmed by BlueZ, not by a local JSON edit": a removal is reported
\* as a success only when the bond is gone.
RemovalIsConfirmed ==
  [][ \A phone \in Phones :
        (\E i \in 1 .. Len(out') : out'[i] = Removed(phone, TRUE))
          => phone \notin bonded' ]_vars

\* The attempt as Enrollment sees it: in its cleanup, and while a pairing that was
\* begun is taken back, it is ending.
Phase ==
  CASE ~Active -> "idle"
    [] task.pc \in CleanupPcs \cup {"unpair"} -> "ending"
    [] task.pc \in {"clear_receipt", "register_receipt", "receipt"} -> "receipt"
    [] At("wait") -> "reported"
    [] OTHER -> "pairing"

Promise ==
  INSTANCE Enrollment WITH
    attempt <- IF Active THEN session ELSE NoSession,
    phase <- Phase,
    removing <- worker.pc = "removing",
    committed <- {sid \in Sids : ha[sid] = "committed"}

\* The receiver does what Home Assistant relies on (Enrollment): in particular the phone
\* sees the completion receipt only of a session that Home Assistant committed, whatever
\* completion of an earlier one came late or twice; no bond is removed while an attempt
\* runs or cleans up; and every attempt and removal ends without any help of the phone or
\* of Home Assistant.
ImplementsEnrollment == Promise!Spec

=============================================================================
