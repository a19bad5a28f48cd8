-------------------------- MODULE LinuxReceiverProofs --------------------------
(***************************************************************************)
(* Theorems about LinuxReceiver, for any invitations, phones, deadlines,   *)
(* and any length of the queue and of the memory of finished sessions: its *)
(* types, that an invitation is tried once, that a result follows its save, *)
(* that the receiver takes only the steps Enrollment allows, and that a    *)
(* receipt is shown only of a committed session.                           *)
(***************************************************************************)
EXTENDS LinuxAttempts, FiniteSetTheorems, TLAPS

ReceiptPcs == {"clear_receipt", "register_receipt", "receipt"}

\* What the locals of an attempt say: it runs an invitation that is not finished, it
\* knows its phone from "connect" on, and the phone it is about to report is a peer.
AttemptInv ==
  /\ Active => session \in Sids
  /\ task.pc \in BodyPcs \cup {"created"} => session \notin retired
  /\ task.pc \in PhonePcs => task.phone \in Phones
  /\ At("save") => task.phone \in peers

\* A completion that waits, or that was taken, is one of a committed session.
CommitInv ==
  /\ completed => session \in Sids /\ ha[session] = "committed"
  /\ \A i \in 1 .. Len(inbox) :
       inbox[i].action = "complete" => inbox[i].sid \in Sids /\ ha[inbox[i].sid] = "committed"

RemovalInv == worker.pc = "removing" => ~Active /\ worker.phone \in Phones

IInv ==
  /\ TypeOK
  /\ IsFiniteSet(retired)
  /\ AttemptInv
  /\ CommitInv
  /\ RemovalInv

-----------------------------------------------------------------------------
(* The parts of a step                                                     *)

AllPcs == {"none", "created"} \cup BodyPcs \cup CleanupPcs

LEMMA TaskTypes ==
  ASSUME IInv
  PROVE  /\ NoTask \in Tasks /\ NoTask.pc = "none" /\ NoTask.phone = NoPhone
         /\ task.phone \in Phones \cup {NoPhone} /\ task.fate \in {"error", "cancelled"}
         /\ task.pc \in AllPcs
         /\ \A pc \in AllPcs, phone \in Phones \cup {NoPhone} :
              /\ [task EXCEPT !.pc = pc] \in Tasks
              /\ [task EXCEPT !.pc = pc].pc = pc
              /\ [task EXCEPT !.pc = pc].phone = task.phone
              /\ [task EXCEPT !.pc = pc, !.phone = phone] \in Tasks
              /\ [task EXCEPT !.pc = pc, !.phone = phone].pc = pc
              /\ [task EXCEPT !.pc = pc, !.phone = phone].phone = phone
<1>1. NoTask \in Tasks /\ NoTask.pc = "none" /\ NoTask.phone = NoPhone
  BY DEF NoTask, Tasks
<1>2. task \in Tasks
  BY DEF IInv, TypeOK
<1> QED
  BY <1>1, <1>2 DEF Tasks, AllPcs

LEMMA GoToFacts ==
  ASSUME IInv, NEW pc \in AllPcs, GoTo(pc)
  PROVE  task' \in Tasks /\ task'.pc = pc /\ task'.phone = task.phone
BY TaskTypes DEF GoTo

LEMMA RetireFacts ==
  ASSUME IInv, NEW sid \in Sids
  PROVE  /\ Retire(sid) \subseteq Sids /\ IsFiniteSet(Retire(sid))
         /\ Cardinality(Retire(sid)) <= RetiredMax
<1>1. IsFiniteSet({sid}) /\ Cardinality({sid}) = 1
  BY FS_Singleton
<1>2. IsFiniteSet(retired \cup {sid}) /\ retired \subseteq Sids
  BY FS_AddElement DEF IInv, TypeOK
<1>3. Cardinality(retired \cup {sid}) \in Nat
  BY <1>2, FS_CardinalityType
<1>4. RetiredMax \in Nat \ {0}
  BY ReceiverAssumption
<1> QED
  BY <1>1, <1>2, <1>3, <1>4 DEF Retire

\* No message is a result.
NoResult == \A i \in 1 .. Len(out') : out'[i].type # "result"

LEMMA PublishedOne ==
  ASSUME NEW message, message.type # "result", Publish(<<message>>)
  PROVE  NoResult
<1>1. out' = <<message>> \/ out' = << >>
  BY DEF Publish
<1> QED
  BY <1>1 DEF NoResult

LEMMA SilentFacts ==
  ASSUME Silent
  PROVE  NoResult
BY DEF Silent, NoResult

\* An attempt is over but for its cleanup, and its invitation is retired.
Ends ==
  /\ retired' = Retire(session)
  /\ task' \in Tasks /\ task'.pc \in CleanupPcs \cup {"none"}
  /\ retired' \subseteq Sids /\ IsFiniteSet(retired') /\ Cardinality(retired') <= RetiredMax
  /\ agent' = NoPhone
  /\ NoResult

LEMMA EndFacts ==
  ASSUME IInv, Active, NEW phone \in Phones \cup {NoPhone}, NEW fate, End(phone, fate)
  PROVE  Ends
<1>1. session \in Sids
  BY DEF IInv, AttemptInv
<1>2. retired' \subseteq Sids /\ IsFiniteSet(retired') /\ Cardinality(retired') <= RetiredMax
  BY <1>1, RetireFacts DEF End
<1> DEFINE pc == IF advert # "none" THEN "stop"
                 ELSE IF phone # NoPhone THEN "disconnect" ELSE "none"
<1>3. pc \in CleanupPcs \cup {"none"} /\ task' = [NoTask EXCEPT !.phone = phone, !.pc = pc]
  BY DEF End, CleanupPcs
<1> HIDE DEF pc
<1>4. task' \in Tasks /\ task'.pc = pc
  BY <1>3 DEF NoTask, Tasks, CleanupPcs
<1>5. NoResult
  BY PublishedOne DEF End, Status
<1> QED
  BY <1>2, <1>3, <1>4, <1>5 DEF End, Ends

\* A published progress, or the end of the attempt because it cannot be published.
LEMMA ReportFacts ==
  ASSUME IInv, Active, NEW phone \in Phones \cup {NoPhone}, NEW messages, NEW pc \in AllPcs,
         Report(phone, messages, pc)
  PROVE  \/ /\ mqtt /\ Publish(messages) /\ UNCHANGED <<retired, agent>>
            /\ task' \in Tasks /\ task'.pc = pc /\ task'.phone = phone
         \/ ~mqtt /\ Ends
<1>1. CASE mqtt
  <2>1. /\ Publish(messages) /\ UNCHANGED <<retired, agent>>
        /\ task' = [task EXCEPT !.pc = pc, !.phone = phone]
    BY <1>1 DEF Report
  <2>2. task \in Tasks
    BY DEF IInv, TypeOK
  <2>3. task' \in Tasks /\ task'.pc = pc /\ task'.phone = phone
    BY <2>1, <2>2 DEF Tasks, AllPcs
  <2> QED
    BY <1>1, <2>1, <2>3
<1>2. CASE ~mqtt
  BY <1>2, EndFacts DEF Report
<1> QED
  BY <1>1, <1>2

LEMMA StopFacts ==
  ASSUME IInv, Active, NEW fate \in {"error", "cancelled"}, NEW interrupted \in BOOLEAN,
         Stop(fate, interrupted)
  PROVE  /\ \/ Ends /\ ~At("pair")
            \/ /\ At("pair") /\ task' \in Tasks /\ task'.pc = "unpair" /\ task'.phone = task.phone
               /\ NoResult /\ UNCHANGED <<retired, agent>>
         /\ late' \subseteq SUBSET Phones
<1>1. CASE At("pair")
  <2>1. task' = [task EXCEPT !.pc = "unpair", !.fate = fate] /\ Silent
        /\ UNCHANGED <<retired, agent, late>>
    BY <1>1 DEF Stop
  <2>2. task' \in Tasks /\ task'.pc = "unpair" /\ task'.phone = task.phone
    BY <2>1 DEF IInv, TypeOK, Tasks, BodyPcs, PhonePcs
  <2> QED
    BY <1>1, <2>1, <2>2, SilentFacts DEF IInv, TypeOK
<1>2. CASE ~At("pair")
  <2>1. End(task.phone, fate)
    BY <1>2 DEF Stop
  <2>2. late' \subseteq SUBSET Phones
    BY <1>2 DEF Stop, IInv, TypeOK
  <2> QED
    BY <1>2, <2>1, <2>2, TaskTypes, EndFacts
<1> QED
  BY <1>1, <1>2

-----------------------------------------------------------------------------
(* What the invariant needs of a step                                      *)

\* The attempt ends; whatever else it changes is of no account.
LEMMA EndsInv ==
  ASSUME IInv, Ends, Active,
         UNCHANGED <<inbox, mqtt, session, completed, peers, left, ha>>, saved' \subseteq Phones,
         worker' = worker \/ worker' = [Idle EXCEPT !.pc = "cancelling"],
         deadline' \in Timers, sent' \in BOOLEAN, late' \subseteq SUBSET Phones,
         alive' \in BOOLEAN, bonded' \subseteq Phones,
         advert' \in {"none", "preflight", "completion"}
  PROVE  IInv'
<1>0. worker.pc # "removing" /\ worker' \in Workers /\ worker'.pc # "removing"
  BY DEF IInv, TypeOK, RemovalInv, Workers, Idle
<1>1. TypeOK'
  BY <1>0 DEF IInv, TypeOK, Ends
<1>2. IsFiniteSet(retired)'
  BY DEF Ends
<1>3. AttemptInv'
  BY DEF IInv, AttemptInv, Ends, Active, At, BodyPcs, PhonePcs, CleanupPcs
<1>4. CommitInv'
  BY DEF IInv, CommitInv
<1>5. RemovalInv'
  BY <1>0 DEF RemovalInv
<1> QED
  BY <1>1, <1>2, <1>3, <1>4, <1>5 DEF IInv

\* The attempt goes on to its next await, with its phone; the worker is not involved.
LEMMA GoesOnInv ==
  ASSUME IInv, Active,
         task' \in Tasks, task'.pc \in BodyPcs \cup CleanupPcs \cup {"none"},
         task'.pc \in BodyPcs => task.pc \in BodyPcs \cup {"created"} /\ retired' = retired,
         task'.pc \in PhonePcs => task'.phone \in Phones,
         task'.pc = "save" => task'.phone \in peers',
         UNCHANGED <<inbox, mqtt, worker, session, completed, left>>,
         deadline' \in Timers, sent' \in BOOLEAN, agent' \in Phones \cup {NoPhone},
         retired' \subseteq Sids, IsFiniteSet(retired'), Cardinality(retired') <= RetiredMax,
         advert' \in {"none", "preflight", "completion"},
         peers' \subseteq Phones, saved' \subseteq Phones, late' \subseteq SUBSET Phones,
         alive' \in BOOLEAN, bonded' \subseteq Phones,
         ha' = ha \/ (ha[session] = "issued" /\ ha' = [ha EXCEPT ![session] = "reported"])
  PROVE  IInv'
<1>0. session \in Sids /\ worker.pc # "removing"
  BY DEF IInv, AttemptInv, RemovalInv
<1>1. TypeOK'
  BY <1>0 DEF IInv, TypeOK
<1>2. AttemptInv'
  BY <1>0 DEF IInv, AttemptInv, Active, At, BodyPcs, PhonePcs, CleanupPcs
<1>3. CommitInv'
  <2>1. \A sid \in Sids : ha[sid] = "committed" => ha'[sid] = "committed"
    BY DEF IInv, TypeOK
  <2> QED
    BY <2>1 DEF IInv, CommitInv
<1>4. RemovalInv'
  BY <1>0 DEF RemovalInv
<1> QED
  BY <1>1, <1>2, <1>3, <1>4 DEF IInv

LEMMA FiniteFacts ==
  ASSUME IInv
  PROVE  retired \subseteq Sids /\ IsFiniteSet(retired) /\ Cardinality(retired) <= RetiredMax
BY DEF IInv, TypeOK

-----------------------------------------------------------------------------
(* The steps of the attempt                                                *)

LEMMA BeginInv ==
  ASSUME IInv, Begin
  PROVE  IInv' /\ NoResult
<1>1. Active
  BY DEF Begin, Active, At
<1>2. \/ /\ task' \in Tasks /\ task'.pc \in {"advertise", "clear"}
         /\ UNCHANGED <<retired, agent>> /\ NoResult
      \/ Ends
  <2> DEFINE pc == IF advert = "none" THEN "advertise" ELSE "clear"
  <2>1. pc \in {"advertise", "clear"} /\ pc \in AllPcs
    BY DEF AllPcs, BodyPcs
  <2>2. Report(NoPhone, <<Status("pairing", "plain")>>, pc)
    BY DEF Begin
  <2> HIDE DEF pc
  <2>3. Status("pairing", "plain").type # "result"
    BY DEF Status
  <2> QED
    BY <1>1, <2>1, <2>2, <2>3, ReportFacts, PublishedOne
<1>3. CASE Ends
  BY <1>1, <1>3, EndsInv DEF Begin, file_vars, bluez_vars, ha_vars, IInv, TypeOK, Ends
<1>4. CASE /\ task' \in Tasks /\ task'.pc \in {"advertise", "clear"}
           /\ UNCHANGED <<retired, agent>> /\ NoResult
  <2>1. task'.pc \in BodyPcs /\ task'.pc \notin PhonePcs /\ task'.pc # "save"
    BY <1>4 DEF BodyPcs, PhonePcs
  <2> QED
    BY <1>1, <1>4, <2>1, GoesOnInv, FiniteFacts
       DEF Begin, file_vars, bluez_vars, ha_vars, IInv, TypeOK, At
<1> QED
  BY <1>2, <1>3, <1>4

LEMMA AdvertStepsInv ==
  ASSUME IInv, AdvertStopped \/ Advertised
  PROVE  IInv' /\ NoResult
<1>1. /\ Active /\ task.pc \in {"clear", "clear_receipt", "advertise", "register_receipt"}
      /\ advert' \in {"none", "preflight", "completion"} /\ Silent
      /\ UNCHANGED <<inbox, mqtt, worker, session, deadline, sent, completed, retired, agent,
                     file_vars, bluez_vars, ha_vars>>
  BY DEF AdvertStopped, Advertised, Active, At
<1>2. /\ task' \in Tasks /\ task'.phone = task.phone
      /\ \/ task.pc \in {"clear", "advertise"} /\ task'.pc \in {"advertise", "find"}
         \/ /\ task.pc \in {"clear_receipt", "register_receipt"}
            /\ task'.pc \in {"register_receipt", "receipt"}
  BY GoToFacts DEF AdvertStopped, Advertised, At, AllPcs, BodyPcs, PhonePcs
<1>3. /\ task.pc \in BodyPcs /\ task'.pc \in BodyPcs /\ task'.pc # "save"
      /\ task'.pc \in PhonePcs => task'.phone \in Phones
  BY <1>2 DEF BodyPcs, PhonePcs, IInv, AttemptInv
<1> QED
  BY <1>1, <1>2, <1>3, GoesOnInv, FiniteFacts, SilentFacts
     DEF file_vars, bluez_vars, ha_vars, IInv, TypeOK

\* A step that ends the attempt, or reports a status and goes on to its next await.
LEMMA ReportsOne ==
  ASSUME IInv, Active, NEW phone \in Phones \cup {NoPhone}, NEW state, NEW code,
         NEW pc \in AllPcs, Report(phone, <<Status(state, code)>>, pc)
  PROVE  \/ /\ mqtt /\ UNCHANGED <<retired, agent>> /\ NoResult
            /\ task' \in Tasks /\ task'.pc = pc /\ task'.phone = phone
         \/ ~mqtt /\ Ends
<1>1. Status(state, code).type # "result"
  BY DEF Status
<1> QED
  BY <1>1, ReportFacts, PublishedOne

LEMMA FoundInv ==
  ASSUME IInv, NEW phone \in Phones, Found(phone)
  PROVE  IInv' /\ NoResult
<1>1. Active /\ At("find") /\ deadline' = AttemptTTL /\ AttemptTTL \in Timers
  BY ReceiverAssumption DEF Found, Active, At, Timers, Unset
<1>2. "connect" \in AllPcs /\ "connect" \in BodyPcs /\ "find" \in BodyPcs
  BY DEF AllPcs, BodyPcs, PhonePcs
<1>3. \/ Ends
      \/ /\ UNCHANGED <<retired, agent>> /\ NoResult
         /\ task' \in Tasks /\ task'.pc = "connect" /\ task'.phone = phone
  BY <1>1, <1>2, ReportsOne DEF Found
<1>4. CASE Ends
  BY <1>1, <1>4, EndsInv DEF Found, file_vars, bluez_vars, ha_vars, IInv, TypeOK, Ends
<1>5. CASE /\ UNCHANGED <<retired, agent>> /\ NoResult
           /\ task' \in Tasks /\ task'.pc = "connect" /\ task'.phone = phone
  BY <1>1, <1>2, <1>5, GoesOnInv, FiniteFacts
     DEF Found, file_vars, bluez_vars, ha_vars, IInv, TypeOK, At
<1> QED
  BY <1>3, <1>4, <1>5

\* Steps between two awaits that hold the phone and publish nothing.
LEMMA QuietInv ==
  ASSUME IInv, Connected \/ Paired \/ BondRead \/ Completed
  PROVE  IInv' /\ NoResult
<1>1. /\ Active /\ task.pc \in {"connect", "pair", "bond", "wait"} /\ Silent
      /\ UNCHANGED <<inbox, mqtt, worker, session, deadline, sent, completed, retired, advert,
                     file_vars, alive, ha_vars>>
      /\ agent' \in {agent, NoPhone}
  BY DEF Connected, Paired, BondRead, Completed, Active, At, bluez_vars
<1>2. task.phone \in Phones /\ task.pc \in BodyPcs
  BY <1>1 DEF IInv, AttemptInv, PhonePcs, BodyPcs
<1>3. bonded' \subseteq Phones
  BY <1>2 DEF Connected, Paired, BondRead, Completed, bluez_vars, IInv, TypeOK
<1>4. /\ task' \in Tasks /\ task'.phone = task.phone
      /\ task'.pc \in {"claim", "bond", "write", "register_receipt", "clear_receipt"}
  BY GoToFacts DEF Connected, Paired, BondRead, Completed, AllPcs, BodyPcs, PhonePcs
<1>5. task'.pc \in BodyPcs /\ task'.pc # "save"
  BY <1>4 DEF BodyPcs, PhonePcs
<1> QED
  BY <1>1, <1>2, <1>3, <1>4, <1>5, GoesOnInv, FiniteFacts, SilentFacts
     DEF file_vars, ha_vars, IInv, TypeOK

LEMMA ClaimedInv ==
  ASSUME IInv, Claimed
  PROVE  IInv' /\ NoResult
<1>1. Active /\ task.pc = "claim" /\ task.phone \in Phones /\ task.pc \in BodyPcs
  BY DEF Claimed, Active, At, IInv, AttemptInv, PhonePcs, BodyPcs
<1>2. CASE mqtt
  <2>1. task' \in Tasks /\ task'.phone = task.phone /\ task'.pc \in {"bond", "pair"}
    BY <1>2, GoToFacts DEF Claimed, AllPcs, BodyPcs, PhonePcs
  <2>2. task'.pc \in BodyPcs /\ task'.pc # "save"
    BY <2>1 DEF BodyPcs, PhonePcs
  <2>3. NoResult
    BY <1>2, PublishedOne DEF Claimed, Status
  <2>4. retired' = retired /\ agent' \in Phones \cup {NoPhone}
    BY <1>1, <1>2 DEF Claimed
  <2> QED
    BY <1>1, <2>1, <2>2, <2>3, <2>4, GoesOnInv, FiniteFacts
       DEF Claimed, file_vars, bluez_vars, ha_vars, IInv, TypeOK
<1>3. CASE ~mqtt
  <2>1. Ends
    BY <1>1, <1>3, EndFacts DEF Claimed
  <2> QED
    BY <1>1, <2>1, EndsInv DEF Claimed, file_vars, bluez_vars, ha_vars, IInv, TypeOK, Ends
<1> QED
  BY <1>2, <1>3

LEMMA WrittenInv ==
  ASSUME IInv, Written
  PROVE  IInv' /\ NoResult
<1>1. Active /\ task.pc = "write" /\ task.phone \in Phones /\ task.pc \in BodyPcs
  BY DEF Written, Active, At, IInv, AttemptInv, PhonePcs, BodyPcs
<1>2. "save" \in AllPcs /\ "save" \in BodyPcs
  BY DEF AllPcs, BodyPcs, PhonePcs
<1>3. \/ ~mqtt /\ Ends
      \/ /\ mqtt /\ UNCHANGED <<retired, agent>> /\ NoResult
         /\ task' \in Tasks /\ task'.pc = "save" /\ task'.phone = task.phone
  BY <1>1, <1>2, ReportsOne DEF Written
<1>4. CASE ~mqtt /\ Ends
  BY <1>1, <1>4, EndsInv DEF Written, bluez_vars, ha_vars, IInv, TypeOK, Ends
<1>5. CASE /\ mqtt /\ UNCHANGED <<retired, agent>> /\ NoResult
           /\ task' \in Tasks /\ task'.pc = "save" /\ task'.phone = task.phone
  <2>1. peers' = peers \cup {task.phone}
    BY <1>5 DEF Written
  <2> QED
    BY <1>1, <1>2, <1>5, <2>1, GoesOnInv, FiniteFacts
       DEF Written, bluez_vars, ha_vars, IInv, TypeOK
<1> QED
  BY <1>3, <1>4, <1>5

\* A result that was published names a phone of the state file.
ResultSaved ==
  \A phone \in Phones :
    (\E i \in 1 .. Len(out') : out'[i].type = "result" /\ out'[i].phone = phone)
      => phone \in saved'

LEMMA SavedInv ==
  ASSUME IInv, Saved
  PROVE  IInv' /\ ResultSaved
<1>1. /\ Active /\ task.pc = "save" /\ task.phone \in Phones /\ task.pc \in BodyPcs
      /\ task.phone \in peers /\ saved' = peers
  BY DEF Saved, Active, At, IInv, AttemptInv, PhonePcs, BodyPcs
<1>2. "wait" \in AllPcs /\ "wait" \in BodyPcs
  BY DEF AllPcs, BodyPcs, PhonePcs
<1>3. \/ ~mqtt /\ Ends
      \/ /\ mqtt /\ UNCHANGED <<retired, agent>>
         /\ Publish(<<Status("pairing", "completion"), Result(task.phone)>>)
         /\ task' \in Tasks /\ task'.pc = "wait" /\ task'.phone = task.phone
  BY <1>1, <1>2, ReportFacts DEF Saved
<1>4. CASE ~mqtt /\ Ends
  <2>1. ha' = ha
    BY <1>4 DEF Saved
  <2>2. IInv' /\ NoResult
    BY <1>1, <1>4, <2>1, EndsInv DEF Saved, Ends, bluez_vars, IInv, TypeOK
  <2> QED
    BY <2>2 DEF NoResult, ResultSaved
<1>5. CASE /\ mqtt /\ UNCHANGED <<retired, agent>>
           /\ Publish(<<Status("pairing", "completion"), Result(task.phone)>>)
           /\ task' \in Tasks /\ task'.pc = "wait" /\ task'.phone = task.phone
  <2>1. ha' = ha \/ (ha[session] = "issued" /\ ha' = [ha EXCEPT ![session] = "reported"])
    BY DEF Saved
  <2>2. IInv'
    BY <1>1, <1>2, <1>5, <2>1, GoesOnInv, FiniteFacts DEF Saved, bluez_vars, IInv, TypeOK
  <2>3. ResultSaved
    <3>1. out' = <<Status("pairing", "completion"), Result(task.phone)>>
      BY <1>5 DEF Publish
    <3> QED
      BY <1>1, <3>1 DEF ResultSaved, Status, Result
  <2> QED
    BY <2>2, <2>3
<1> QED
  BY <1>3, <1>4, <1>5

LEMMA ReceiptShownInv ==
  ASSUME IInv, ReceiptShown
  PROVE  IInv' /\ NoResult
<1>1. Active /\ session \in Sids
  BY DEF ReceiptShown, Active, At, IInv, AttemptInv
<1>2. task' \in Tasks /\ task'.pc = "stop"
  BY GoToFacts DEF ReceiptShown, AllPcs, CleanupPcs
<1>3. Ends
  BY <1>1, <1>2, RetireFacts, SilentFacts DEF ReceiptShown, Ends, CleanupPcs
<1> QED
  BY <1>1, <1>3, EndsInv DEF ReceiptShown, file_vars, bluez_vars, ha_vars, IInv, TypeOK, Ends

LEMMA StopsInv ==
  ASSUME IInv, NEW fate \in {"error", "cancelled"}, NEW interrupted \in BOOLEAN,
         Stop(fate, interrupted), task.pc \in BodyPcs \cup {"created"},
         UNCHANGED <<inbox, mqtt, session, deadline, sent, completed, advert, peers,
                     saved, bluez_vars, ha_vars>>,
         worker' = worker \/ worker' = [Idle EXCEPT !.pc = "cancelling"]
  PROVE  IInv' /\ NoResult
<1>1. Active
  BY DEF Active, BodyPcs, PhonePcs
<1>2. CASE Ends
  BY <1>1, <1>2, StopFacts, EndsInv DEF bluez_vars, ha_vars, IInv, TypeOK, Ends
<1>3. CASE /\ At("pair") /\ task' \in Tasks /\ task'.pc = "unpair" /\ task'.phone = task.phone
           /\ NoResult /\ UNCHANGED <<retired, agent>>
  <2>1. task.pc \in BodyPcs /\ task'.pc \in BodyPcs /\ task'.pc # "save" /\ task.phone \in Phones
    BY <1>3 DEF At, BodyPcs, PhonePcs, IInv, AttemptInv
  <2>2. late' \subseteq SUBSET Phones
    BY <1>1, StopFacts
  <2>3. worker.pc # "removing" /\ worker' \in Workers /\ worker'.pc # "removing"
    BY <1>1 DEF IInv, TypeOK, RemovalInv, Workers, Idle
  <2>4. TypeOK'
    BY <1>3, <2>2, <2>3 DEF bluez_vars, ha_vars, IInv, TypeOK
  <2>5. AttemptInv' /\ CommitInv' /\ RemovalInv' /\ IsFiniteSet(retired')
    BY <1>1, <1>3, <2>1, <2>3 DEF bluez_vars, ha_vars, IInv, AttemptInv, CommitInv, RemovalInv,
       Active, At
  <2> QED
    BY <1>3, <2>4, <2>5 DEF IInv
<1> QED
  BY <1>1, <1>2, <1>3, StopFacts

LEMMA FailureInv ==
  ASSUME IInv, Fails \/ Expires
  PROVE  IInv' /\ NoResult
<1>1. task.pc \in BodyPcs
  BY DEF Fails, Expires, At, BodyPcs
<1> QED
  BY <1>1, StopsInv DEF Fails, Expires

LEMMA UnpairedInv ==
  ASSUME IInv, Unpaired
  PROVE  IInv' /\ NoResult
<1>1. Active /\ task.phone \in Phones /\ task.phone \in Phones \cup {NoPhone}
  BY DEF Unpaired, Active, At, IInv, AttemptInv, PhonePcs
<1>2. Ends
  BY <1>1, EndFacts DEF Unpaired
<1>3. bonded' \subseteq Phones
  BY <1>1 DEF Unpaired, IInv, TypeOK
<1> QED
  BY <1>1, <1>2, <1>3, EndsInv DEF Unpaired, file_vars, ha_vars, IInv, TypeOK, Ends

LEMMA CleanedUpInv ==
  ASSUME IInv, CleanedUp
  PROVE  IInv' /\ NoResult
<1>1. Active /\ task.pc \in CleanupPcs
  BY DEF CleanedUp, Active, At, CleanupPcs
<1>2. task' \in Tasks /\ task'.pc \in {"disconnect", "none"}
  <2>1. task' \in {NoTask, [task EXCEPT !.pc = "disconnect"]}
    BY DEF CleanedUp
  <2>2. task \in Tasks
    BY DEF IInv, TypeOK
  <2>3. LET disconnecting == [task EXCEPT !.pc = "disconnect"]
        IN  disconnecting \in Tasks /\ disconnecting.pc = "disconnect"
    BY <2>2 DEF Tasks, CleanupPcs
  <2> QED
    BY <2>1, <2>3, TaskTypes
<1>3. task'.pc \in CleanupPcs \cup {"none"} /\ task'.pc \notin BodyPcs
  BY <1>2 DEF CleanupPcs, BodyPcs, PhonePcs
<1>4. task'.pc \notin PhonePcs /\ task'.pc # "save"
  BY <1>3 DEF BodyPcs, PhonePcs
<1> QED
  BY <1>1, <1>2, <1>3, <1>4, GoesOnInv, FiniteFacts, SilentFacts
     DEF CleanedUp, file_vars, bluez_vars, ha_vars, IInv, TypeOK

-----------------------------------------------------------------------------
(* The steps of the worker                                                 *)

\* The command that is taken, and the queue without it.
LEMMA TakenFacts ==
  ASSUME IInv, inbox # << >>, Taken
  PROVE  /\ Command \in Commands
         /\ inbox' \in Seq(Commands) /\ Len(inbox') <= InboxMax
         /\ Command.action \in {"start", "cancel", "complete"} => Command.sid \in Sids
         /\ Command.action = "forget" => Command.phone \in Phones
         /\ Command.action = "complete" => ha[Command.sid] = "committed"
         /\ \A i \in 1 .. Len(inbox') : inbox'[i].action = "complete"
              => inbox'[i].sid \in Sids /\ ha[inbox'[i].sid] = "committed"
<1>1. inbox \in Seq(Commands) /\ Len(inbox) <= InboxMax /\ inbox' = Tail(inbox)
  BY DEF IInv, TypeOK, Taken
<1>2. Len(inbox) \in Nat /\ Len(inbox) >= 1 /\ Command = inbox[1]
  BY <1>1 DEF Command
<1>3. Command \in Commands
  BY <1>1, <1>2
<1>4. Len(inbox') = Len(inbox) - 1 /\ \A i \in 1 .. Len(inbox') : inbox'[i] = inbox[i + 1]
  BY <1>1, <1>2
<1>5. inbox' \in Seq(Commands) /\ Len(inbox') <= InboxMax
  BY <1>1, <1>2, <1>4, ReceiverAssumption
<1>6. /\ Command.action \in {"start", "cancel", "complete"} => Command.sid \in Sids
      /\ Command.action = "forget" => Command.phone \in Phones
  BY <1>3 DEF Commands
<1>7. Command.action = "complete" => ha[Command.sid] = "committed"
  BY <1>2 DEF IInv, CommitInv
<1>8. \A i \in 1 .. Len(inbox') : inbox'[i].action = "complete"
        => inbox'[i].sid \in Sids /\ ha[inbox'[i].sid] = "committed"
  BY <1>2, <1>4 DEF IInv, CommitInv
<1> QED
  BY <1>3, <1>5, <1>6, <1>7, <1>8

LEMMA TakeStartInv ==
  ASSUME IInv, TakeStart
  PROVE  IInv' /\ NoResult
<1>1. /\ Command.sid \in Sids /\ worker.pc = "idle"
      /\ inbox' \in Seq(Commands) /\ Len(inbox') <= InboxMax
      /\ UNCHANGED <<mqtt, worker, file_vars, bluez_vars, ha_vars>>
      /\ \A i \in 1 .. Len(inbox') : inbox'[i].action = "complete"
           => inbox'[i].sid \in Sids /\ ha[inbox'[i].sid] = "committed"
  BY TakenFacts DEF TakeStart, Takes
<1>2. NoResult
  BY SilentFacts DEF TakeStart
<1>3. CASE Starts(Command.sid)
  <2>1. /\ session' = Command.sid /\ deadline' = Unset /\ sent' = FALSE /\ completed' = FALSE
        /\ task' = [NoTask EXCEPT !.pc = "created"] /\ UNCHANGED <<retired, agent, advert>>
        /\ Command.sid \notin retired
    BY <1>3 DEF TakeStart, Attempt, Starts
  <2>2. task' \in Tasks /\ task'.pc = "created"
    BY <2>1, TaskTypes DEF Tasks
  <2>3. Unset \in Timers
    BY ReceiverAssumption DEF Timers, Unset
  <2>4. TypeOK'
    BY <1>1, <2>1, <2>2, <2>3 DEF IInv, TypeOK, file_vars, bluez_vars, ha_vars
  <2>5. AttemptInv'
    BY <1>1, <2>1, <2>2 DEF AttemptInv, Active, At, BodyPcs, PhonePcs
  <2>6. CommitInv' /\ RemovalInv' /\ IsFiniteSet(retired')
    BY <1>1, <2>1 DEF IInv, CommitInv, RemovalInv, ha_vars
  <2> QED
    BY <1>2, <2>4, <2>5, <2>6 DEF IInv
<1>4. CASE ~Starts(Command.sid)
  <2>1. UNCHANGED attempt_vars
    BY <1>4 DEF TakeStart
  <2>2. TypeOK'
    BY <1>1, <2>1 DEF IInv, TypeOK, file_vars, bluez_vars, ha_vars, attempt_vars
  <2>3. AttemptInv' /\ CommitInv' /\ RemovalInv' /\ IsFiniteSet(retired')
    BY <1>1, <2>1 DEF IInv, AttemptInv, CommitInv, RemovalInv, Active, At, file_vars, ha_vars,
       attempt_vars
  <2> QED
    BY <1>2, <2>2, <2>3 DEF IInv
<1> QED
  BY <1>3, <1>4

\* A step that takes a command and leaves the attempt as it is, or just ends it.
LEMMA TakesInv ==
  ASSUME IInv, inbox # << >>, Taken,
         UNCHANGED <<mqtt, session, deadline, sent, advert, peers, saved, bluez_vars, ha_vars>>,
         \/ UNCHANGED <<task, retired, agent>>
         \/ /\ task' \in Tasks /\ task'.pc \notin BodyPcs \cup {"created"}
            /\ task'.pc # "none" => Active
            /\ retired' \subseteq Sids /\ IsFiniteSet(retired') /\ Cardinality(retired') <= RetiredMax
            /\ agent' \in Phones \cup {NoPhone}
         \/ /\ At("pair") /\ task' \in Tasks /\ task'.pc = "unpair" /\ task'.phone = task.phone
            /\ UNCHANGED <<retired, agent>>,
         late' \subseteq SUBSET Phones,
         worker' \in Workers, worker'.pc = "removing" => task' = task /\ ~Active /\ worker'.phone \in Phones,
         completed' \in BOOLEAN,
         completed' => completed \/ (session \in Sids /\ ha[session] = "committed")
  PROVE  IInv'
<1>1. /\ inbox' \in Seq(Commands) /\ Len(inbox') <= InboxMax
      /\ \A i \in 1 .. Len(inbox') : inbox'[i].action = "complete"
           => inbox'[i].sid \in Sids /\ ha[inbox'[i].sid] = "committed"
  BY TakenFacts
<1>2. TypeOK' /\ IsFiniteSet(retired')
  BY <1>1 DEF IInv, TypeOK, bluez_vars, ha_vars
<1>3. AttemptInv'
  <2>1. CASE UNCHANGED <<task, retired, agent>>
    BY <2>1 DEF IInv, AttemptInv, Active, At
  <2>2. CASE task'.pc \notin BodyPcs \cup {"created"} /\ (task'.pc # "none" => Active)
    BY <2>2 DEF IInv, AttemptInv, Active, At, BodyPcs, PhonePcs
  <2>3. CASE /\ At("pair") /\ task'.pc = "unpair" /\ task'.phone = task.phone /\ retired' = retired
    BY <2>3 DEF IInv, AttemptInv, Active, At, BodyPcs, PhonePcs
  <2> QED
    BY <2>1, <2>2, <2>3
<1>4. CommitInv'
  BY <1>1 DEF IInv, CommitInv, ha_vars
<1>5. RemovalInv'
  BY DEF RemovalInv, Active
<1> QED
  BY <1>2, <1>3, <1>4, <1>5 DEF IInv

\* What a cancellation does to the attempt.
LEMMA CancelledFacts ==
  ASSUME IInv, Active, Cancelled
  PROVE  /\ \/ Ends
            \/ /\ At("pair") /\ task' \in Tasks /\ task'.pc = "unpair" /\ task'.phone = task.phone
               /\ NoResult /\ UNCHANGED <<retired, agent>>
            \/ /\ task' = NoTask /\ NoResult /\ UNCHANGED <<retired, agent>>
         /\ late' \subseteq SUBSET Phones
<1>1. CASE task.pc \in BodyPcs \ {"unpair"}
  <2>1. Stop("cancelled", TRUE)
    BY <1>1 DEF Cancelled
  <2> QED
    BY <2>1, StopFacts
<1>2. CASE At("unpair")
  <2>1. End(task.phone, "cancelled") /\ late' = late
    BY <1>2 DEF Cancelled, At
  <2> QED
    BY <2>1, EndFacts, TaskTypes DEF IInv, TypeOK
<1>3. CASE task.pc \notin BodyPcs \ {"unpair"} /\ ~At("unpair")
  BY <1>3, SilentFacts DEF Cancelled, IInv, TypeOK
<1> QED
  BY <1>1, <1>2, <1>3

LEMMA TakeCancelInv ==
  ASSUME IInv, TakeCancel
  PROVE  IInv' /\ NoResult
<1>1. /\ inbox # << >> /\ Taken /\ worker.pc = "idle"
      /\ UNCHANGED <<mqtt, session, deadline, sent, completed, advert, peers, saved, bluez_vars,
                     ha_vars>>
  BY DEF TakeCancel, Takes
<1>2. completed' \in BOOLEAN /\ worker \in Workers /\ [Idle EXCEPT !.pc = "cancelling"] \in Workers
      /\ [Idle EXCEPT !.pc = "cancelling"].pc = "cancelling"
  BY <1>1 DEF IInv, TypeOK, Workers, Idle
<1>3. CASE session = Command.sid /\ Active
  <2>1. Cancelled /\ worker' = [Idle EXCEPT !.pc = "cancelling"]
    BY <1>3 DEF TakeCancel
  <2>2. \/ /\ task' \in Tasks /\ task'.pc \notin BodyPcs \cup {"created"}
           /\ retired' \subseteq Sids /\ IsFiniteSet(retired')
           /\ Cardinality(retired') <= RetiredMax
           /\ agent' \in Phones \cup {NoPhone}
        \/ /\ At("pair") /\ task' \in Tasks /\ task'.pc = "unpair" /\ task'.phone = task.phone
           /\ UNCHANGED <<retired, agent>>
    <3>1. NoTask.pc \notin BodyPcs \cup {"created"}
      BY TaskTypes DEF BodyPcs, PhonePcs
    <3>2. agent \in Phones \cup {NoPhone}
      BY DEF IInv, TypeOK
    <3>3. Ends => /\ task' \in Tasks /\ task'.pc \notin BodyPcs \cup {"created"}
                  /\ agent' \in Phones \cup {NoPhone}
      BY DEF Ends, BodyPcs, PhonePcs, CleanupPcs
    <3> QED
      BY <1>3, <2>1, <3>1, <3>2, <3>3, CancelledFacts, TaskTypes, FiniteFacts DEF Ends
  <2>3. NoResult /\ late' \subseteq SUBSET Phones
    BY <1>3, <2>1, CancelledFacts DEF Ends
  <2> QED
    BY <1>1, <1>2, <1>3, <2>1, <2>2, <2>3, TakesInv
<1>4. CASE ~(session = Command.sid /\ Active)
  <2>1. UNCHANGED <<worker, task, retired, agent, late>> /\ NoResult
    BY <1>4, SilentFacts DEF TakeCancel
  <2>2. late' \subseteq SUBSET Phones
    BY <2>1 DEF IInv, TypeOK
  <2> QED
    BY <1>1, <1>2, <2>1, <2>2, TakesInv
<1> QED
  BY <1>3, <1>4

LEMMA TakeCompleteInv ==
  ASSUME IInv, TakeComplete
  PROVE  IInv' /\ NoResult
<1>1. /\ inbox # << >> /\ Taken /\ Command.action = "complete" /\ worker.pc = "idle"
      /\ UNCHANGED <<mqtt, worker, session, task, deadline, sent, retired, agent, advert,
                     file_vars, bluez_vars, ha_vars>>
  BY DEF TakeComplete, Takes
<1>2. completed' \in BOOLEAN
  <2>1. (completed \/ (session = Command.sid /\ sent /\ deadline > 0)) \in BOOLEAN
    OBVIOUS
  <2> QED
    BY <2>1, Zenon DEF TakeComplete
<1>3. completed' => completed \/ (session \in Sids /\ ha[session] = "committed")
  BY <1>1, TakenFacts DEF TakeComplete
<1>4. worker \in Workers /\ late \subseteq SUBSET Phones
  BY DEF IInv, TypeOK
<1>5. NoResult
  BY SilentFacts DEF TakeComplete
<1> QED
  BY <1>1, <1>2, <1>3, <1>4, <1>5, TakesInv DEF file_vars

LEMMA TakeForgetInv ==
  ASSUME IInv, TakeForget
  PROVE  IInv' /\ NoResult
<1>1. /\ inbox # << >> /\ Taken /\ Command.action = "forget" /\ worker.pc = "idle"
      /\ UNCHANGED <<mqtt, attempt_vars, file_vars, bluez_vars, ha_vars>>
  BY DEF TakeForget, Takes
<1>2. Command.phone \in Phones
  BY <1>1, TakenFacts
<1>3. worker' \in Workers /\ (worker'.pc = "removing" => ~Active /\ worker'.phone \in Phones)
  <2>1. CASE Refuses(Command.phone)
    BY <1>1, <2>1 DEF TakeForget, IInv, TypeOK
  <2>2. CASE ~Refuses(Command.phone)
    BY <1>2, <2>2 DEF TakeForget, Refuses, Workers
  <2> QED
    BY <2>1, <2>2
<1>4. NoResult
  BY PublishedOne, SilentFacts DEF TakeForget, Removed
<1>5. completed \in BOOLEAN /\ late \subseteq SUBSET Phones
  BY DEF IInv, TypeOK
<1> QED
  BY <1>1, <1>3, <1>4, <1>5, TakesInv DEF attempt_vars, file_vars

LEMMA WorkerDoneInv ==
  ASSUME IInv, CancelDone \/ RemovalDone \/ RemovalFails
  PROVE  IInv' /\ NoResult
<1>1. worker' = Idle /\ UNCHANGED <<inbox, mqtt, attempt_vars, file_vars, alive, ha_vars>>
  BY DEF CancelDone, RemovalDone, RemovalFails, bluez_vars
<1>2. Idle \in Workers /\ Idle.pc = "idle"
  BY DEF Idle, Workers
<1>3. bonded' \subseteq Phones
  BY DEF CancelDone, RemovalDone, RemovalFails, bluez_vars, IInv, TypeOK
<1>4. TypeOK'
  BY <1>1, <1>2, <1>3 DEF IInv, TypeOK, attempt_vars, file_vars, ha_vars
<1>5. AttemptInv' /\ CommitInv' /\ RemovalInv' /\ IsFiniteSet(retired')
  BY <1>1, <1>2 DEF IInv, AttemptInv, CommitInv, RemovalInv, Active, At, attempt_vars, file_vars,
     ha_vars
<1>6. NoResult
  BY PublishedOne, SilentFacts DEF CancelDone, RemovalDone, RemovalFails, Removed
<1> QED
  BY <1>4, <1>5, <1>6 DEF IInv

-----------------------------------------------------------------------------
(* The environment                                                         *)

\* A command that arrives: a completion only of a session that is committed.
LEMMA DeliverInv ==
  ASSUME IInv, NEW command \in Commands, Deliver(command),
         left' \in [Sids -> Timers],
         ha' \in [Sids -> {"none", "issued", "reported", "committed"}],
         \A sid \in Sids : ha[sid] = "committed" => ha'[sid] = "committed",
         command.action = "complete" => command.sid \in Sids /\ ha'[command.sid] = "committed"
  PROVE  IInv' /\ NoResult
<1>1. /\ inbox' = Enqueued(command)
      /\ UNCHANGED <<mqtt, worker, attempt_vars, file_vars, bluez_vars>>
  BY DEF Deliver
<1>2. inbox \in Seq(Commands) /\ Len(inbox) \in Nat /\ Len(inbox) <= InboxMax
      /\ InboxMax \in Nat \ {0}
  BY ReceiverAssumption DEF IInv, TypeOK
<1>3. /\ inbox' \in Seq(Commands) /\ Len(inbox') <= InboxMax
      /\ \A i \in 1 .. Len(inbox') :
           (i \in 1 .. Len(inbox) /\ inbox'[i] = inbox[i]) \/ inbox'[i] = command
  <2>1. CASE Len(inbox) >= InboxMax
    BY <1>1, <1>2, <2>1 DEF Enqueued
  <2>2. CASE ~(Len(inbox) >= InboxMax)
    BY <1>1, <1>2, <2>2 DEF Enqueued
  <2> QED
    BY <2>1, <2>2
<1>4. TypeOK'
  BY <1>1, <1>3 DEF IInv, TypeOK, attempt_vars, file_vars, bluez_vars
<1>5. AttemptInv' /\ RemovalInv' /\ IsFiniteSet(retired')
  BY <1>1 DEF IInv, AttemptInv, RemovalInv, Active, At, attempt_vars, file_vars
<1>6. CommitInv'
  BY <1>1, <1>3 DEF IInv, CommitInv, attempt_vars
<1>7. NoResult
  BY SilentFacts DEF Deliver
<1> QED
  BY <1>4, <1>5, <1>6, <1>7 DEF IInv

LEMMA HomeAssistantInv ==
  ASSUME IInv,
         \/ \E phone \in Phones : HaForgets(phone)
         \/ \E sid \in Sids :
              \/ HaStarts(sid) \/ HaCompletes(sid)
              \/ \E action \in {"start", "cancel"} : HaRepeats(sid, action)
  PROVE  IInv' /\ NoResult
<1>0. left \in [Sids -> Timers]
      /\ ha \in [Sids -> {"none", "issued", "reported", "committed"}]
  BY DEF IInv, TypeOK
<1>1. ASSUME NEW phone \in Phones, HaForgets(phone)
      PROVE  IInv' /\ NoResult
  <2>1. [action |-> "forget", phone |-> phone] \in Commands
    BY DEF Commands
  <2> QED
    BY <1>0, <1>1, <2>1, DeliverInv DEF HaForgets, ha_vars
<1>2. ASSUME NEW sid \in Sids, HaStarts(sid)
      PROVE  IInv' /\ NoResult
  <2>1. [action |-> "start", sid |-> sid] \in Commands
    BY DEF Commands
  <2>2. InviteTTL \in Timers
    BY ReceiverAssumption DEF Timers, Unset
  <2>3. left' \in [Sids -> Timers]
        /\ ha' \in [Sids -> {"none", "issued", "reported", "committed"}]
        /\ \A other \in Sids : ha[other] = "committed" => ha'[other] = "committed"
    BY <1>0, <1>2, <2>2 DEF HaStarts
  <2> QED
    BY <1>2, <2>1, <2>3, DeliverInv DEF HaStarts
<1>3. ASSUME NEW sid \in Sids, HaCompletes(sid)
      PROVE  IInv' /\ NoResult
  <2>1. [action |-> "complete", sid |-> sid] \in Commands
    BY DEF Commands
  <2>2. ha' \in [Sids -> {"none", "issued", "reported", "committed"}]
        /\ ha'[sid] = "committed" /\ left' = left
        /\ \A other \in Sids : ha[other] = "committed" => ha'[other] = "committed"
    BY <1>0, <1>3 DEF HaCompletes
  <2> QED
    BY <1>0, <1>3, <2>1, <2>2, DeliverInv DEF HaCompletes
<1>4. ASSUME NEW sid \in Sids, NEW action \in {"start", "cancel"}, HaRepeats(sid, action)
      PROVE  IInv' /\ NoResult
  <2>1. [action |-> action, sid |-> sid] \in Commands
    BY DEF Commands
  <2> QED
    BY <1>0, <1>4, <2>1, DeliverInv DEF HaRepeats, ha_vars
<1> QED
  BY <1>1, <1>2, <1>3, <1>4

LEMMA SystemInv ==
  ASSUME IInv, MqttChanges \/ BlueZLost \/ LateWrite
  PROVE  IInv' /\ NoResult
<1>1. /\ UNCHANGED <<inbox, worker, session, task, deadline, sent, completed, retired, advert,
                     peers, bonded, ha_vars>>
      /\ mqtt' \in BOOLEAN /\ alive' \in BOOLEAN /\ agent' \in Phones \cup {NoPhone}
      /\ saved' \subseteq Phones /\ late' \subseteq SUBSET Phones
  BY DEF MqttChanges, BlueZLost, LateWrite, attempt_vars, file_vars, bluez_vars, IInv, TypeOK
<1>2. TypeOK'
  BY <1>1 DEF IInv, TypeOK, ha_vars
<1>3. AttemptInv' /\ CommitInv' /\ RemovalInv' /\ IsFiniteSet(retired')
  BY <1>1 DEF IInv, AttemptInv, CommitInv, RemovalInv, Active, At, ha_vars
<1>4. NoResult
  BY SilentFacts DEF MqttChanges, BlueZLost, LateWrite
<1> QED
  BY <1>2, <1>3, <1>4 DEF IInv

LEMMA LessTypes ==
  ASSUME NEW t \in Timers
  PROVE  Less(t) \in Timers
BY ReceiverAssumption DEF Less, Timers, Unset

LEMMA TickInv ==
  ASSUME IInv, Tick
  PROVE  IInv' /\ NoResult
<1>1. deadline' \in Timers /\ left' \in [Sids -> Timers]
  BY LessTypes DEF Tick, IInv, TypeOK
<1>2. TypeOK'
  BY <1>1 DEF Tick, IInv, TypeOK, file_vars, bluez_vars
<1>3. AttemptInv' /\ CommitInv' /\ RemovalInv' /\ IsFiniteSet(retired')
  BY DEF Tick, IInv, AttemptInv, CommitInv, RemovalInv, Active, At, file_vars
<1>4. NoResult
  BY SilentFacts DEF Tick
<1> QED
  BY <1>2, <1>3, <1>4 DEF IInv

LEMMA FreshTypes ==
  /\ << >> \in Seq(Commands) /\ Len(<< >>) = 0 /\ 0 <= InboxMax
  /\ Idle \in Workers /\ Idle.pc = "idle" /\ NoTask \in Tasks /\ NoTask.pc = "none"
  /\ Unset \in Timers
  /\ IsFiniteSet({}) /\ Cardinality({}) = 0 /\ 0 <= RetiredMax
<1>1. Idle \in Workers /\ Idle.pc = "idle" /\ NoTask \in Tasks /\ NoTask.pc = "none"
  BY DEF Idle, Workers, NoTask, Tasks
<1>2. Unset \in Timers /\ 0 <= InboxMax /\ 0 <= RetiredMax
  BY ReceiverAssumption DEF Timers, Unset
<1>3. IsFiniteSet({}) /\ Cardinality({}) = 0
  BY FS_EmptySet
<1> QED
  BY <1>1, <1>2, <1>3

LEMMA InitInv ==
  ASSUME Init
  PROVE  IInv
<1>1. TypeOK /\ IsFiniteSet(retired)
  BY FreshTypes DEF Init, Stopped, TypeOK
<1>2. AttemptInv /\ CommitInv /\ RemovalInv
  BY FreshTypes DEF Init, Stopped, AttemptInv, CommitInv, RemovalInv, Active, At, BodyPcs, PhonePcs
<1> QED
  BY <1>1, <1>2 DEF IInv

LEMMA RestartInv ==
  ASSUME IInv, Restart
  PROVE  IInv' /\ NoResult
<1>1. TypeOK' /\ IsFiniteSet(retired')
  BY FreshTypes DEF Restart, IInv, TypeOK, ha_vars
<1>2. AttemptInv' /\ CommitInv' /\ RemovalInv'
  BY FreshTypes DEF Restart, AttemptInv, CommitInv, RemovalInv, Active, At, BodyPcs, PhonePcs
<1>3. NoResult
  BY DEF Restart, NoResult
<1> QED
  BY <1>1, <1>2, <1>3 DEF IInv

LEMMA StutterInv ==
  ASSUME IInv, UNCHANGED vars
  PROVE  IInv'
BY DEF IInv, TypeOK, AttemptInv, CommitInv, RemovalInv, Active, At, vars, attempt_vars, file_vars,
   bluez_vars, ha_vars

-----------------------------------------------------------------------------
(* The theorems                                                            *)

LEMMA StepInv ==
  ASSUME IInv, Next
  PROVE  IInv' /\ ResultSaved
<1>1. NoResult => ResultSaved
  BY DEF NoResult, ResultSaved
<1>2. CASE TaskStep
  BY <1>1, <1>2, BeginInv, AdvertStepsInv, QuietInv, ClaimedInv, WrittenInv, SavedInv,
     ReceiptShownInv, FailureInv, UnpairedInv, CleanedUpInv DEF TaskStep
<1>3. CASE WorkerStep
  BY <1>1, <1>3, TakeStartInv, TakeCancelInv, TakeCompleteInv, TakeForgetInv, WorkerDoneInv
     DEF WorkerStep
<1>4. CASE Environment
  BY <1>1, <1>4, FoundInv, HomeAssistantInv, SystemInv, RestartInv DEF Environment
<1>5. CASE Tick
  BY <1>1, <1>5, TickInv
<1> QED
  BY <1>2, <1>3, <1>4, <1>5 DEF Next

\* The invariant holds in every reachable state.
THEOREM Invariance == Spec => []IInv
<1>1. Init => IInv
  BY InitInv
<1>2. IInv /\ [Next]_vars => IInv'
  BY StepInv, StutterInv
<1> QED
  BY <1>1, <1>2, PTL DEF Spec

\* The variables keep their types; in particular the queue and the memory of finished
\* sessions keep their bounds.
THEOREM TypeCorrect == Spec => []TypeOK
<1>1. IInv => TypeOK
  BY DEF IInv
<1> QED
  BY <1>1, Invariance, PTL

-----------------------------------------------------------------------------
(* How often an invitation is tried                                        *)

\* What the code has instead of the count: until it forgets, an invitation that was
\* tried is remembered as finished from the moment its attempt leaves its body.
TriedIsRemembered ==
  Cardinality(Begun) <= RetiredMax =>
    \A sid \in Begun : sid \in retired \/ (sid = session /\ task.pc \in BodyPcs)

HistoryInv ==
  /\ attempts \in [Sids -> 0 .. 2]
  /\ IsFiniteSet(Begun) /\ retired \subseteq Begun
  /\ task.pc \in BodyPcs => session \in Begun
  /\ TriedOnce
  /\ TriedIsRemembered

\* The attempt leaves its body, and its invitation is retired.
Leaves == task.pc \in BodyPcs /\ task'.pc \notin BodyPcs /\ retired' = Retire(session)

\* An attempt that is in its body stays there, and none comes into it.
Stays ==
  /\ retired' = retired
  /\ task.pc \in BodyPcs \/ task'.pc \in BodyPcs
       => task.pc \in BodyPcs /\ task'.pc \in BodyPcs /\ session' = session

LEMMA EndsLeaves ==
  ASSUME Ends, task.pc \in BodyPcs
  PROVE  Leaves
BY DEF Ends, Leaves, BodyPcs, PhonePcs, CleanupPcs

\* The end of an attempt, or the next await of its body.
LEMMA ReportSteps ==
  ASSUME IInv, task.pc \in BodyPcs, session' = session,
         NEW phone \in Phones \cup {NoPhone}, NEW messages, NEW pc \in BodyPcs,
         Report(phone, messages, pc)
  PROVE  Leaves \/ Stays
<1>1. Active /\ pc \in AllPcs
  BY DEF Active, AllPcs, BodyPcs, PhonePcs
<1>2. Ends \/ (task'.pc = pc /\ retired' = retired)
  BY <1>1, ReportFacts
<1> QED
  BY <1>2, EndsLeaves DEF Stays

LEMMA AttemptSteps ==
  ASSUME IInv, TaskStep \/ (\E phone \in Phones : Found(phone)), ~Begin
  PROVE  Leaves \/ Stays
<1>0. task.phone \in Phones \cup {NoPhone}
  BY TaskTypes
<1>1. ASSUME NEW phone \in Phones, Found(phone)
      PROVE  Leaves \/ Stays
  <2>1. task.pc \in BodyPcs /\ "connect" \in BodyPcs /\ session' = session
    BY <1>1 DEF Found, At, BodyPcs, PhonePcs
  <2> QED
    BY <1>1, <2>1, ReportSteps DEF Found
<1>2. CASE AdvertStopped \/ Advertised \/ Connected \/ Paired \/ BondRead \/ Completed
  <2>1. task.pc \in BodyPcs /\ UNCHANGED <<session, retired>>
    BY <1>2 DEF AdvertStopped, Advertised, Connected, Paired, BondRead, Completed, At, BodyPcs,
       PhonePcs
  <2>2. task'.pc \in BodyPcs
    BY <1>2, GoToFacts DEF AdvertStopped, Advertised, Connected, Paired, BondRead, Completed,
       AllPcs, BodyPcs, PhonePcs
  <2> QED
    BY <2>1, <2>2 DEF Stays
<1>3. CASE Claimed
  <2>1. Active /\ task.pc \in BodyPcs /\ session' = session
    BY <1>3 DEF Claimed, At, Active, BodyPcs, PhonePcs
  <2>2. CASE mqtt
    <3>1. task'.pc \in BodyPcs /\ retired' = retired
      BY <1>3, <2>2, GoToFacts DEF Claimed, AllPcs, BodyPcs, PhonePcs
    <3> QED
      BY <2>1, <3>1 DEF Stays
  <2>3. CASE ~mqtt
    BY <1>0, <1>3, <2>1, <2>3, EndFacts, EndsLeaves DEF Claimed
  <2> QED
    BY <2>2, <2>3
<1>4. CASE Written \/ Saved
  <2>1. task.pc \in BodyPcs /\ session' = session /\ {"save", "wait"} \subseteq BodyPcs
    BY <1>4 DEF Written, Saved, At, BodyPcs, PhonePcs
  <2> QED
    BY <1>0, <1>4, <2>1, ReportSteps DEF Written, Saved
<1>5. CASE ReceiptShown
  <2>1. task.pc \in BodyPcs /\ retired' = Retire(session) /\ task'.pc = "stop"
    BY <1>5, GoToFacts DEF ReceiptShown, At, AllPcs, BodyPcs, PhonePcs, CleanupPcs
  <2> QED
    BY <2>1 DEF Leaves, BodyPcs, PhonePcs
<1>6. CASE Fails \/ Expires
  <2>1. Active /\ task.pc \in BodyPcs /\ session' = session
    BY <1>6 DEF Fails, Expires, At, Active, BodyPcs, PhonePcs
  <2>2. Ends \/ (task'.pc = "unpair" /\ retired' = retired)
    BY <1>6, <2>1, StopFacts DEF Fails, Expires
  <2> QED
    BY <2>1, <2>2, EndsLeaves DEF Stays, BodyPcs, PhonePcs
<1>7. CASE Unpaired
  <2>1. Active /\ task.pc \in BodyPcs
    BY <1>7 DEF Unpaired, At, Active, BodyPcs, PhonePcs
  <2> QED
    BY <1>0, <1>7, <2>1, EndFacts, EndsLeaves DEF Unpaired
<1>8. CASE CleanedUp
  <2>1. task.pc \notin BodyPcs /\ retired' = retired
    BY <1>8 DEF CleanedUp, At, BodyPcs, PhonePcs
  <2>2. task'.pc \in {"none", "disconnect"}
    BY <1>8, GoToFacts, TaskTypes DEF CleanedUp, GoTo, AllPcs, CleanupPcs
  <2> QED
    BY <2>1, <2>2 DEF Stays, BodyPcs, PhonePcs
<1> QED
  BY <1>1, <1>2, <1>3, <1>4, <1>5, <1>6, <1>7, <1>8 DEF TaskStep

LEMMA OtherSteps ==
  ASSUME IInv, [Next]_vars, ~Begin, ~Restart
  PROVE  Leaves \/ Stays
<1>1. CASE TakeStart
  <2>1. CASE Starts(Command.sid)
    <3>1. /\ task.pc = "none" /\ retired' = retired
          /\ task' = [NoTask EXCEPT !.pc = "created"]
      BY <1>1, <2>1 DEF TakeStart, Attempt, Starts, Active
    <3>2. task'.pc = "created"
      BY <3>1, TaskTypes DEF Tasks
    <3> QED
      BY <3>1, <3>2 DEF Stays, BodyPcs, PhonePcs
  <2>2. CASE ~Starts(Command.sid)
    BY <1>1, <2>2 DEF TakeStart, attempt_vars, Stays
  <2> QED
    BY <2>1, <2>2
<1>2. CASE TakeCancel
  <2>1. CASE session = Command.sid /\ Active
    <3>1. Cancelled /\ session' = session
      BY <1>2, <2>1 DEF TakeCancel
    <3>2. CASE task.pc \in BodyPcs
      <4>1. Ends \/ (task'.pc = "unpair" /\ retired' = retired)
        <5>1. CASE At("unpair")
          BY <1>2, <2>1, <3>1, <5>1, TaskTypes, EndFacts DEF Cancelled, At
        <5>2. CASE ~At("unpair")
          BY <2>1, <3>1, <3>2, <5>2, StopFacts DEF Cancelled, At
        <5> QED
          BY <5>1, <5>2
      <4> QED
        BY <3>1, <3>2, <4>1, EndsLeaves DEF Stays, BodyPcs, PhonePcs
    <3>3. CASE task.pc \notin BodyPcs
      <4>1. task' = NoTask /\ retired' = retired
        BY <3>1, <3>3 DEF Cancelled, At, BodyPcs, PhonePcs
      <4> QED
        BY <3>3, <4>1, TaskTypes DEF Stays, BodyPcs, PhonePcs
    <3> QED
      BY <3>2, <3>3
  <2>2. CASE ~(session = Command.sid /\ Active)
    BY <1>2, <2>2 DEF TakeCancel, Stays
  <2> QED
    BY <2>1, <2>2
<1>3. CASE CancelDone \/ TakeComplete \/ TakeForget \/ RemovalDone \/ RemovalFails
  BY <1>3 DEF CancelDone, TakeComplete, TakeForget, RemovalDone, RemovalFails, attempt_vars, Stays
<1>4. CASE \/ \E phone \in Phones : HaForgets(phone)
           \/ \E sid \in Sids : HaStarts(sid) \/ HaRepeats(sid, "start") \/ HaRepeats(sid, "cancel")
                                \/ HaCompletes(sid)
           \/ MqttChanges \/ BlueZLost \/ LateWrite
  BY <1>4 DEF HaForgets, HaStarts, HaRepeats, HaCompletes, Deliver, MqttChanges, BlueZLost,
     LateWrite, attempt_vars, Stays
<1>5. CASE Tick \/ UNCHANGED vars
  BY <1>5 DEF Tick, vars, attempt_vars, Stays
<1> QED
  BY <1>1, <1>2, <1>3, <1>4, <1>5, AttemptSteps DEF Next, WorkerStep, Environment

\* Until more than RetiredMax invitations were tried, nothing is forgotten.
LEMMA NothingForgotten ==
  ASSUME NEW B, IsFiniteSet(B), Cardinality(B) <= RetiredMax,
         NEW sid \in B, retired \subseteq B
  PROVE  Retire(sid) = retired \cup {sid}
<1>1. retired \cup {sid} \subseteq B
  OBVIOUS
<1>2. /\ Cardinality(retired \cup {sid}) <= Cardinality(B)
      /\ Cardinality(retired \cup {sid}) \in Nat /\ Cardinality(B) \in Nat
  BY <1>1, FS_Subset, FS_CardinalityType
<1>3. ~(Cardinality(retired \cup {sid}) > RetiredMax)
  BY <1>2, ReceiverAssumption
<1> QED
  BY <1>3 DEF Retire

\* A start that begins finds its invitation neither tried before nor forgotten.
LEMMA BeginCounted ==
  ASSUME IInv, HistoryInv, Begin, attempts' = Counted
  PROVE  HistoryInv'
<1>1. /\ Active /\ task.pc = "created" /\ task.pc \notin BodyPcs
      /\ session' = session /\ session \in Sids /\ session \notin retired
  BY DEF Begin, At, Active, BodyPcs, PhonePcs, IInv, AttemptInv
<1>2. /\ retired' = retired \/ retired' = Retire(session)
      /\ retired' = retired => task'.pc \in BodyPcs \/ session \in retired'
  <2> DEFINE pc == IF advert = "none" THEN "advertise" ELSE "clear"
  <2>1. pc \in AllPcs /\ pc \in BodyPcs
    BY DEF AllPcs, BodyPcs
  <2>2. Report(NoPhone, <<Status("pairing", "plain")>>, pc)
    BY DEF Begin
  <2> HIDE DEF pc
  <2>3. (task'.pc = pc /\ retired' = retired) \/ retired' = Retire(session)
    BY <1>1, <2>1, <2>2, ReportFacts DEF Ends
  <2>4. session \in Retire(session)
    BY DEF Retire
  <2> QED
    BY <2>1, <2>3, <2>4
<1>3. attempts' = [attempts EXCEPT ![session] = IF @ = 0 THEN 1 ELSE 2]
  BY DEF Counted
<1>4. attempts' \in [Sids -> 0 .. 2] /\ Begun' = Begun \cup {session}
  BY <1>1, <1>3 DEF HistoryInv, Begun
<1>5. IsFiniteSet(Begun') /\ retired' \subseteq Begun'
  BY <1>2, <1>4, FS_AddElement DEF HistoryInv, Retire
<1>6. task'.pc \in BodyPcs => session' \in Begun'
  BY <1>1, <1>4
<1>7. ASSUME Cardinality(Begun') <= RetiredMax
      PROVE  /\ \A sid \in Sids : attempts'[sid] <= 1
             /\ \A sid \in Begun' : sid \in retired' \/ (sid = session' /\ task'.pc \in BodyPcs)
  <2>1. Cardinality(Begun) <= RetiredMax
    <3>1. /\ Cardinality(Begun) <= Cardinality(Begun')
          /\ Cardinality(Begun) \in Nat /\ Cardinality(Begun') \in Nat
      BY <1>4, <1>5, FS_Subset, FS_CardinalityType DEF HistoryInv
    <3> QED
      BY <1>7, <3>1, ReceiverAssumption
  <2>2. Begun \subseteq retired /\ \A sid \in Sids : attempts[sid] <= 1
    BY <1>1, <2>1 DEF HistoryInv, TriedIsRemembered, TriedOnce
  <2>3. session \notin Begun /\ attempts[session] = 0
    BY <1>1, <2>2 DEF HistoryInv, Begun
  <2>4. \A sid \in Sids : attempts'[sid] <= 1
    BY <1>1, <1>3, <2>2, <2>3 DEF HistoryInv
  <2>5. Retire(session) = retired \cup {session}
    <3>1. retired \subseteq Begun' /\ session \in Begun'
      BY <1>4 DEF HistoryInv
    <3> QED
      BY <1>5, <1>7, <3>1, NothingForgotten
  <2> QED
    BY <1>1, <1>2, <1>4, <2>2, <2>4, <2>5
<1> QED
  BY <1>4, <1>5, <1>6, <1>7 DEF HistoryInv, TriedOnce, TriedIsRemembered

LEMMA OtherCounted ==
  ASSUME IInv, HistoryInv, Leaves \/ Stays, attempts' = attempts
  PROVE  HistoryInv'
<1>1. Begun' = Begun /\ IsFiniteSet(Begun) /\ retired \subseteq Begun
  BY DEF Begun, HistoryInv
<1>2. CASE Stays
  BY <1>1, <1>2 DEF Stays, HistoryInv, TriedOnce, TriedIsRemembered
<1>3. CASE Leaves
  <2>1. session \in Begun /\ retired' = Retire(session) /\ task'.pc \notin BodyPcs
    BY <1>3 DEF Leaves, HistoryInv
  <2>2. retired' \subseteq Begun
    BY <1>1, <2>1 DEF Retire
  <2>3. ASSUME Cardinality(Begun) <= RetiredMax
        PROVE  \A sid \in Begun : sid \in retired'
    <3>1. retired' = retired \cup {session}
      BY <1>1, <2>1, <2>3, NothingForgotten
    <3> QED
      BY <2>3, <3>1 DEF HistoryInv, TriedIsRemembered
  <2> QED
    BY <1>1, <2>1, <2>2, <2>3 DEF HistoryInv, TriedOnce, TriedIsRemembered
<1> QED
  BY <1>2, <1>3

\* The program starts.
LEMMA NothingCounted ==
  ASSUME attempts = NoAttempts, retired = {}, task.pc = "none"
  PROVE  HistoryInv
<1>1. Begun = {} /\ IsFiniteSet(Begun) /\ attempts \in [Sids -> 0 .. 2]
  BY FS_EmptySet DEF NoAttempts, Begun
<1> QED
  BY <1>1 DEF NoAttempts, HistoryInv, TriedOnce, TriedIsRemembered, BodyPcs, PhonePcs

LEMMA HistoryStep ==
  ASSUME IInv, HistoryInv, [HistoryNext]_history_vars
  PROVE  HistoryInv'
<1>1. CASE UNCHANGED history_vars
  <2>1. UNCHANGED <<task, session, retired, attempts>>
    BY <1>1 DEF history_vars, vars, attempt_vars
  <2> QED
    BY <2>1, OtherCounted DEF Stays
<1>2. CASE HistoryNext
  <2>1. Next /\ attempts' = Counted
    BY <1>2 DEF HistoryNext
  <2>2. CASE Begin
    BY <2>1, <2>2, BeginCounted
  <2>3. CASE ~Begin /\ Restart
    <3>1. attempts' = NoAttempts
      BY <2>1, <2>3 DEF Counted
    <3>2. retired' = {} /\ task'.pc = "none"
      BY <2>3, FreshTypes DEF Restart
    <3>3. Begun' = {} /\ IsFiniteSet(Begun') /\ attempts' \in [Sids -> 0 .. 2]
      BY <3>1, FS_EmptySet DEF NoAttempts, Begun
    <3> QED
      BY <3>1, <3>2, <3>3 DEF NoAttempts, HistoryInv, TriedOnce, TriedIsRemembered, BodyPcs,
         PhonePcs
  <2>4. CASE ~Begin /\ ~Restart
    BY <2>1, <2>4, OtherSteps, OtherCounted DEF Counted
  <2> QED
    BY <2>2, <2>3, <2>4
<1> QED
  BY <1>1, <1>2

\* One run of the program tries an invitation once, as long as it has not tried more than
\* RetiredMax of them: after a cancel, a failure or a success, during the cleanup and
\* whatever start is delivered again.
THEOREM InvitationTriedOnce == HistorySpec => []TriedOnce
<1>1. HistorySpec => Spec
  <2>1. [HistoryNext]_history_vars => [Next]_vars
    BY DEF HistoryNext, history_vars
  <2> QED
    BY <2>1, PTL DEF HistorySpec, HistoryInit, Spec
<1>2. HistoryInit => HistoryInv
  BY FreshTypes, NothingCounted DEF HistoryInit, Init, Stopped
<1>3. HistoryInv => TriedOnce
  BY DEF HistoryInv
<1> QED
  BY <1>1, <1>2, <1>3, Invariance, HistoryStep, PTL DEF HistorySpec

-----------------------------------------------------------------------------
(* A result follows its save                                               *)

\* Home Assistant gets an identity only once the receiver can still find its bond after
\* a crash.
THEOREM ResultFollowsSave == Spec => ResultOnlyWhenSaved
<1>1. IInv /\ [Next]_vars =>
        [ \A phone \in Phones :
            (\E i \in 1 .. Len(out') : out'[i].type = "result" /\ out'[i].phone = phone)
              => phone \in saved' ]_vars
  BY StepInv DEF ResultSaved
<1> QED
  BY <1>1, Invariance, PTL DEF Spec, ResultOnlyWhenSaved

-----------------------------------------------------------------------------
(* The receiver takes only the steps of Enrollment                         *)

Promised == [Promise!Next]_(Promise!vars)

PhaseOf(pc) ==
  CASE pc = "none" -> "idle"
    [] pc \in CleanupPcs \cup {"unpair"} -> "ending"
    [] pc \in {"clear_receipt", "register_receipt", "receipt"} -> "receipt"
    [] pc = "wait" -> "reported"
    [] OTHER -> "pairing"

AttemptOf(pc, sid) == IF pc # "none" THEN sid ELSE NoSession

Committed == {sid \in Sids : ha[sid] = "committed"}

PairingPcs == {"created"} \cup (BodyPcs \ (ReceiptPcs \cup {"unpair", "wait"}))

\* The state of the attempt, as Enrollment names it.
LEMMA Phases ==
  /\ PhaseOf("none") = "idle"
  /\ PhaseOf("wait") = "reported"
  /\ \A pc \in CleanupPcs \cup {"unpair"} : PhaseOf(pc) = "ending"
  /\ \A pc \in ReceiptPcs : PhaseOf(pc) = "receipt"
  /\ \A pc \in PairingPcs : PhaseOf(pc) = "pairing"
<1>1. PhaseOf("none") = "idle" /\ PhaseOf("wait") = "reported"
  BY DEF PhaseOf, CleanupPcs
<1>2. \A pc \in CleanupPcs \cup {"unpair"} : PhaseOf(pc) = "ending"
  BY DEF PhaseOf, CleanupPcs
<1>3. \A pc \in ReceiptPcs : PhaseOf(pc) = "receipt"
  BY DEF PhaseOf, CleanupPcs, ReceiptPcs
<1>4. \A pc \in PairingPcs : PhaseOf(pc) = "pairing"
  BY DEF PhaseOf, CleanupPcs, ReceiptPcs, PairingPcs, BodyPcs, PhonePcs
<1> QED
  BY <1>1, <1>2, <1>3, <1>4

SamePhase   == PhaseOf(task.pc)' = PhaseOf(task.pc)
SameAttempt == AttemptOf(task.pc, session)' = AttemptOf(task.pc, session)
SameWorker  == worker'.pc = "removing" <=> worker.pc = "removing"
SameHa      == Committed' = Committed

\* The steps of Enrollment, in the words of the receiver.
LEMMA PromisedSteps ==
  ASSUME
    \/ SameAttempt /\ SamePhase /\ SameWorker /\ SameHa
    \/ /\ PhaseOf(task.pc) = "idle" /\ PhaseOf(task.pc)' = "pairing"
       /\ AttemptOf(task.pc, session)' \in Sids
       /\ worker.pc # "removing" /\ SameWorker /\ SameHa
    \/ /\ SameAttempt /\ SameWorker /\ SameHa
       /\ \/ PhaseOf(task.pc) = "pairing" /\ PhaseOf(task.pc)' = "reported"
          \/ /\ PhaseOf(task.pc) = "reported" /\ PhaseOf(task.pc)' = "receipt"
             /\ AttemptOf(task.pc, session) \in Committed
          \/ /\ PhaseOf(task.pc) \in {"pairing", "reported", "receipt"}
             /\ PhaseOf(task.pc)' = "ending"
    \/ /\ PhaseOf(task.pc) # "idle" /\ PhaseOf(task.pc)' = "idle"
       /\ AttemptOf(task.pc, session)' = NoSession
       /\ SameWorker /\ SameHa
    \/ /\ SameAttempt /\ SamePhase
       /\ \/ SameWorker /\ \E sid \in Sids : Committed' = Committed \cup {sid}
          \/ PhaseOf(task.pc) = "idle" /\ worker.pc # "removing" /\ worker'.pc = "removing" /\ SameHa
          \/ worker.pc = "removing" /\ worker'.pc # "removing" /\ SameHa
  PROVE Promised
<1>1. Phase = PhaseOf(task.pc) /\ Phase' = PhaseOf(task.pc)'
  BY Zenon DEF Phase, PhaseOf, Active, At
<1> QED
  BY <1>1 DEF Promised, Promise!Next, Promise!vars, Promise!Begin, Promise!Commit, Promise!Report,
     Promise!Confirm, Promise!Wind, Promise!End, Promise!Remove, Promise!Removed, AttemptOf,
     Active, Committed, SameAttempt, SamePhase, SameWorker, SameHa

LEMMA SameHaFacts ==
  ASSUME IInv, ha' = ha \/ (ha[session] = "issued" /\ ha' = [ha EXCEPT ![session] = "reported"])
  PROVE  SameHa
BY DEF SameHa, Committed, IInv, TypeOK

\* A step within a phase.
LEMMA StaysPromised ==
  ASSUME IInv, UNCHANGED <<session, ha>>, SameWorker,
         \/ task' = task
         \/ task.pc \in PairingPcs /\ task'.pc \in PairingPcs
         \/ task.pc \in ReceiptPcs /\ task'.pc \in ReceiptPcs
  PROVE  Promised
<1>1. SamePhase
  BY Phases DEF SamePhase
<1>2. SameAttempt
  BY DEF SameAttempt, AttemptOf, PairingPcs, ReceiptPcs, BodyPcs, PhonePcs
<1> QED
  BY <1>1, <1>2, SameHaFacts, PromisedSteps

\* An attempt that ends, or begins to.
LEMMA EndingPromised ==
  ASSUME IInv, Active, task'.pc \in CleanupPcs \cup {"none", "unpair"},
         session' = session, SameWorker,
         ha' = ha \/ (ha[session] = "issued" /\ ha' = [ha EXCEPT ![session] = "reported"])
  PROVE  Promised
<1>1. PhaseOf(task.pc) \in {"pairing", "reported", "receipt", "ending"}
  <2>1. task.pc \in CleanupPcs \cup {"unpair", "wait"} \cup ReceiptPcs \cup PairingPcs
    BY TaskTypes DEF AllPcs, Active, PairingPcs
  <2> QED
    BY <2>1, Phases
<1>2. SameHa
  BY SameHaFacts
<1>3. CASE task'.pc = "none"
  <2>1. PhaseOf(task.pc)' = "idle" /\ AttemptOf(task.pc, session)' = NoSession
    BY <1>3, Phases DEF AttemptOf
  <2> QED
    BY <1>1, <1>2, <2>1, PromisedSteps
<1>4. CASE task'.pc # "none"
  <2>1. PhaseOf(task.pc)' = "ending" /\ SameAttempt
    BY <1>4, Phases DEF SameAttempt, AttemptOf, Active
  <2> QED
    BY <1>1, <1>2, <2>1, PromisedSteps DEF SamePhase
<1> QED
  BY <1>3, <1>4

LEMMA TaskSteps ==
  ASSUME IInv, TaskStep
  PROVE  Promised
<1> USE DEF SameWorker
<1>1. CASE Begin
  <2> DEFINE pc == IF advert = "none" THEN "advertise" ELSE "clear"
  <2>1. pc \in PairingPcs /\ pc \in AllPcs /\ task.pc \in PairingPcs /\ Active
    BY <1>1 DEF Begin, At, Active, PairingPcs, ReceiptPcs, AllPcs, BodyPcs, PhonePcs
  <2>2. Report(NoPhone, <<Status("pairing", "plain")>>, pc) /\ UNCHANGED <<worker, session, ha>>
    BY <1>1 DEF Begin, ha_vars
  <2> HIDE DEF pc
  <2>3. task'.pc = pc \/ Ends
    BY <2>1, <2>2, ReportFacts
  <2> QED
    BY <2>1, <2>2, <2>3, StaysPromised, EndingPromised DEF Ends
<1>2. CASE AdvertStopped \/ Advertised \/ Connected \/ Paired \/ BondRead
  <2>1. UNCHANGED <<worker, session, ha>>
    BY <1>2 DEF AdvertStopped, Advertised, Connected, Paired, BondRead, ha_vars
  <2>2. \/ task.pc \in PairingPcs /\ task'.pc \in PairingPcs
        \/ task.pc \in ReceiptPcs /\ task'.pc \in ReceiptPcs
    BY <1>2, GoToFacts DEF AdvertStopped, Advertised, Connected, Paired, BondRead, At, AllPcs,
       PairingPcs, ReceiptPcs, BodyPcs, PhonePcs
  <2> QED
    BY <2>1, <2>2, StaysPromised
<1>3. CASE Claimed
  <2>1. Active /\ task.pc \in PairingPcs /\ UNCHANGED <<worker, session, ha>>
        /\ task.phone \in Phones \cup {NoPhone}
    BY <1>3, TaskTypes DEF Claimed, At, Active, PairingPcs, ReceiptPcs, BodyPcs, PhonePcs, ha_vars
  <2>2. task'.pc \in PairingPcs \/ Ends
    BY <1>3, <2>1, GoToFacts, EndFacts DEF Claimed, AllPcs, PairingPcs, ReceiptPcs, BodyPcs, PhonePcs
  <2> QED
    BY <2>1, <2>2, StaysPromised, EndingPromised DEF Ends
<1>4. CASE Written
  <2>1. /\ Active /\ task.pc \in PairingPcs /\ UNCHANGED <<worker, session, ha>>
        /\ task.phone \in Phones \cup {NoPhone} /\ "save" \in AllPcs /\ "save" \in PairingPcs
    BY <1>4, TaskTypes DEF Written, At, Active, AllPcs, PairingPcs, ReceiptPcs, BodyPcs, PhonePcs,
       ha_vars
  <2>2. task'.pc = "save" \/ Ends
    BY <1>4, <2>1, ReportsOne DEF Written
  <2> QED
    BY <2>1, <2>2, StaysPromised, EndingPromised DEF Ends
<1>5. CASE Saved
  <2>1. /\ Active /\ task.pc \in PairingPcs /\ UNCHANGED <<worker, session>>
        /\ task.phone \in Phones \cup {NoPhone} /\ "wait" \in AllPcs
        /\ ha' = ha \/ (ha[session] = "issued" /\ ha' = [ha EXCEPT ![session] = "reported"])
    BY <1>5, TaskTypes DEF Saved, At, Active, AllPcs, PairingPcs, ReceiptPcs, BodyPcs, PhonePcs
  <2>2. task'.pc = "wait" \/ Ends
    BY <1>5, <2>1, ReportFacts DEF Saved
  <2>3. CASE task'.pc = "wait"
    <3>1. PhaseOf(task.pc) = "pairing" /\ PhaseOf(task.pc)' = "reported" /\ SameAttempt
      BY <2>1, <2>3, Phases DEF SameAttempt, AttemptOf, Active
    <3> QED
      BY <2>1, <3>1, SameHaFacts, PromisedSteps
  <2> QED
    BY <2>1, <2>2, <2>3, EndingPromised DEF Ends
<1>6. CASE Completed
  <2>1. /\ task.pc = "wait" /\ task'.pc \in ReceiptPcs /\ UNCHANGED <<worker, session, ha>>
        /\ session \in Sids /\ ha[session] = "committed"
    BY <1>6, GoToFacts DEF Completed, At, AllPcs, ReceiptPcs, BodyPcs, PhonePcs, ha_vars, IInv,
       CommitInv
  <2>2. /\ PhaseOf(task.pc) = "reported" /\ PhaseOf(task.pc)' = "receipt" /\ SameAttempt
        /\ AttemptOf(task.pc, session) \in Committed
    BY <2>1, Phases DEF SameAttempt, AttemptOf, ReceiptPcs, Committed
  <2> QED
    BY <2>1, <2>2, SameHaFacts, PromisedSteps
<1>7. CASE ReceiptShown
  <2>1. Active /\ task'.pc = "stop" /\ UNCHANGED <<worker, session, ha>>
    BY <1>7, GoToFacts DEF ReceiptShown, At, Active, AllPcs, CleanupPcs, ha_vars
  <2> QED
    BY <2>1, EndingPromised DEF CleanupPcs
<1>8. CASE Fails \/ Expires
  <2>1. Active /\ UNCHANGED <<worker, session, ha>>
    BY <1>8 DEF Fails, Expires, At, Active, BodyPcs, PhonePcs, ha_vars
  <2>2. Ends \/ task'.pc = "unpair"
    BY <1>8, <2>1, StopFacts DEF Fails, Expires
  <2> QED
    BY <2>1, <2>2, EndingPromised DEF Ends
<1>9. CASE Unpaired
  <2>1. Active /\ UNCHANGED <<worker, session, ha>> /\ task.phone \in Phones \cup {NoPhone}
    BY <1>9, TaskTypes DEF Unpaired, At, Active, ha_vars
  <2>2. Ends
    BY <1>9, <2>1, EndFacts DEF Unpaired
  <2> QED
    BY <2>1, <2>2, EndingPromised DEF Ends
<1>10. CASE CleanedUp
  <2>1. Active /\ UNCHANGED <<worker, session, ha>>
    BY <1>10 DEF CleanedUp, At, Active, ha_vars
  <2>2. task'.pc \in CleanupPcs \cup {"none"}
    <3>1. [task EXCEPT !.pc = "disconnect"].pc = "disconnect"
      BY DEF IInv, TypeOK, Tasks
    <3> QED
      BY <1>10, <3>1, TaskTypes DEF CleanedUp, CleanupPcs
  <2> QED
    BY <2>1, <2>2, EndingPromised
<1> QED
  BY <1>1, <1>2, <1>3, <1>4, <1>5, <1>6, <1>7, <1>8, <1>9, <1>10 DEF TaskStep

LEMMA WorkerSteps ==
  ASSUME IInv, WorkerStep
  PROVE  Promised
<1>1. CASE TakeStart
  <2>1. /\ Command.sid \in Sids /\ worker.pc = "idle" /\ UNCHANGED <<worker, ha>>
    BY <1>1, TakenFacts DEF TakeStart, Takes, ha_vars
  <2>2. CASE Starts(Command.sid)
    <3>1. /\ task.pc = "none" /\ session' = Command.sid
          /\ task' = [NoTask EXCEPT !.pc = "created"]
      BY <1>1, <2>2 DEF TakeStart, Attempt, Starts, Active
    <3>2. task'.pc = "created"
      BY <3>1, TaskTypes DEF Tasks
    <3>3. /\ PhaseOf(task.pc) = "idle" /\ PhaseOf(task.pc)' = "pairing"
          /\ AttemptOf(task.pc, session)' \in Sids
      BY <2>1, <3>1, <3>2, Phases DEF AttemptOf, PairingPcs
    <3> QED
      BY <2>1, <3>3, SameHaFacts, PromisedSteps DEF SameWorker
  <2>3. CASE ~Starts(Command.sid)
    <3>1. UNCHANGED <<session, task>>
      BY <1>1, <2>3 DEF TakeStart, attempt_vars
    <3> QED
      BY <2>1, <3>1, StaysPromised DEF SameWorker
  <2> QED
    BY <2>2, <2>3
<1>2. CASE TakeCancel
  <2>1. worker.pc = "idle" /\ UNCHANGED <<session, ha>>
    BY <1>2 DEF TakeCancel, Takes, ha_vars
  <2>2. [Idle EXCEPT !.pc = "cancelling"].pc = "cancelling"
    BY DEF Idle
  <2>3. SameWorker
    BY <1>2, <2>1, <2>2 DEF TakeCancel, SameWorker
  <2>4. CASE session = Command.sid /\ Active
    <3>1. Ends \/ task'.pc = "unpair" \/ task'.pc = "none"
      BY <1>2, <2>4, CancelledFacts, TaskTypes DEF TakeCancel
    <3> QED
      BY <2>1, <2>3, <2>4, <3>1, EndingPromised DEF Ends
  <2>5. CASE ~(session = Command.sid /\ Active)
    BY <1>2, <2>1, <2>3, <2>5, StaysPromised DEF TakeCancel
  <2> QED
    BY <2>4, <2>5
<1>3. CASE CancelDone \/ TakeComplete
  <2>1. UNCHANGED <<session, task, ha>> /\ SameWorker
    BY <1>3 DEF CancelDone, TakeComplete, attempt_vars, ha_vars, SameWorker, Idle
  <2> QED
    BY <2>1, StaysPromised
<1>4. CASE TakeForget
  <2>1. worker.pc = "idle" /\ UNCHANGED <<session, task, ha>>
    BY <1>4 DEF TakeForget, Takes, attempt_vars, ha_vars
  <2>2. CASE worker' = worker
    BY <2>1, <2>2, StaysPromised DEF SameWorker
  <2>3. CASE worker' = [pc |-> "removing", phone |-> Command.phone] /\ ~Active
    <3>1. SameAttempt /\ SamePhase /\ PhaseOf(task.pc) = "idle"
      BY <2>1, <2>3, Phases DEF SameAttempt, SamePhase, AttemptOf, PhaseOf, Active
    <3> QED
      BY <2>1, <2>3, <3>1, SameHaFacts, PromisedSteps
  <2> QED
    BY <1>4, <2>2, <2>3 DEF TakeForget, Refuses
<1>5. CASE RemovalDone \/ RemovalFails
  <2>1. worker.pc = "removing" /\ worker'.pc # "removing" /\ UNCHANGED <<session, task, ha>>
    BY <1>5 DEF RemovalDone, RemovalFails, Idle, attempt_vars, ha_vars
  <2>2. SameAttempt /\ SamePhase
    BY <2>1 DEF SameAttempt, SamePhase, AttemptOf, PhaseOf
  <2> QED
    BY <2>1, <2>2, SameHaFacts, PromisedSteps
<1> QED
  BY <1>1, <1>2, <1>3, <1>4, <1>5 DEF WorkerStep

LEMMA EnvironmentSteps ==
  ASSUME IInv, Environment
  PROVE  Promised
<1>1. ASSUME NEW phone \in Phones, Found(phone)
      PROVE  Promised
  <2>1. /\ Active /\ task.pc \in PairingPcs /\ UNCHANGED <<worker, session, ha>>
        /\ "connect" \in AllPcs /\ "connect" \in PairingPcs
    BY <1>1 DEF Found, At, Active, AllPcs, PairingPcs, ReceiptPcs, BodyPcs, PhonePcs, ha_vars
  <2>2. task'.pc = "connect" \/ Ends
    BY <1>1, <2>1, ReportsOne DEF Found
  <2> QED
    BY <2>1, <2>2, StaysPromised, EndingPromised DEF Ends, SameWorker
<1>2. ASSUME NEW sid \in Sids, HaCompletes(sid)
      PROVE  Promised
  <2>1. UNCHANGED <<worker, session, task>> /\ ha' = [ha EXCEPT ![sid] = "committed"]
    BY <1>2 DEF HaCompletes, Deliver, attempt_vars
  <2>2. Committed' = Committed \cup {sid}
    BY <2>1 DEF Committed, IInv, TypeOK
  <2>3. SameAttempt /\ SamePhase /\ SameWorker
    BY <2>1 DEF SameAttempt, SamePhase, SameWorker, AttemptOf, PhaseOf
  <2> QED
    BY <2>2, <2>3, PromisedSteps
<1>3. ASSUME NEW sid \in Sids, HaStarts(sid)
      PROVE  Promised
  <2>1. /\ UNCHANGED <<worker, session, task>> /\ ha[sid] = "none"
        /\ ha' = [ha EXCEPT ![sid] = "issued"]
    BY <1>3 DEF HaStarts, Deliver, attempt_vars
  <2>2. SameHa
    BY <2>1 DEF SameHa, Committed, IInv, TypeOK
  <2>3. SameAttempt /\ SamePhase /\ SameWorker
    BY <2>1 DEF SameAttempt, SamePhase, SameWorker, AttemptOf, PhaseOf
  <2> QED
    BY <2>2, <2>3, PromisedSteps
<1>4. CASE \/ MqttChanges \/ BlueZLost \/ LateWrite
           \/ \E phone \in Phones : HaForgets(phone)
           \/ \E sid \in Sids, action \in {"start", "cancel"} : HaRepeats(sid, action)
  <2>1. UNCHANGED <<worker, session, task, ha>>
    BY <1>4 DEF MqttChanges, BlueZLost, LateWrite, HaForgets, HaRepeats, Deliver, attempt_vars,
       ha_vars
  <2> QED
    BY <2>1, StaysPromised DEF SameWorker
<1>5. CASE Restart
  <2>1. task'.pc = "none" /\ worker'.pc # "removing" /\ ha' = ha
    BY <1>5, FreshTypes DEF Restart, ha_vars
  <2>2. PhaseOf(task.pc)' = "idle" /\ AttemptOf(task.pc, session)' = NoSession
    BY <2>1, Phases DEF AttemptOf
  <2>3. CASE task.pc # "none"
    <3>1. PhaseOf(task.pc) # "idle"
      <4>1. task.pc \in CleanupPcs \cup {"unpair", "wait"} \cup ReceiptPcs \cup PairingPcs
        BY <2>3, TaskTypes DEF AllPcs, PairingPcs
      <4> QED
        BY <4>1, Phases
    <3>2. SameWorker
      BY <2>1, <2>3 DEF SameWorker, IInv, RemovalInv, Active
    <3> QED
      BY <2>1, <2>2, <3>1, <3>2, SameHaFacts, PromisedSteps
  <2>4. CASE task.pc = "none"
    <3>1. SameAttempt /\ SamePhase
      BY <2>1, <2>2, <2>4, Phases DEF SameAttempt, SamePhase, AttemptOf
    <3> QED
      BY <2>1, <3>1, SameHaFacts, PromisedSteps DEF SameWorker
  <2> QED
    BY <2>3, <2>4
<1> QED
  BY <1>1, <1>2, <1>3, <1>4, <1>5 DEF Environment

LEMMA StepPromised ==
  ASSUME IInv, [Next]_vars
  PROVE  Promised
<1>1. CASE Tick \/ UNCHANGED vars
  <2>1. UNCHANGED <<worker, session, task, ha>>
    BY <1>1 DEF Tick, vars, attempt_vars, ha_vars
  <2> QED
    BY <2>1, StaysPromised DEF SameWorker
<1> QED
  BY <1>1, TaskSteps, WorkerSteps, EnvironmentSteps DEF Next

\* The receiver takes only steps that Enrollment allows: one attempt at a time, which
\* reports once and shows the receipt only when Home Assistant has committed it, and no
\* removal while it runs or cleans up.
THEOREM ImplementsSafety == Spec => Promise!Safety
<1>1. Init => Promise!Init
  <2> SUFFICES ASSUME Init
               PROVE  Promise!Init
    OBVIOUS
  <2>1. task.pc = "none" /\ ~Active /\ worker.pc # "removing"
    BY FreshTypes DEF Init, Stopped, Active
  <2>2. Phase = "idle"
    <3>1. Phase = PhaseOf(task.pc)
      BY Zenon DEF Phase, PhaseOf, Active, At
    <3> QED
      BY <2>1, <3>1, Phases
  <2>3. Committed = {}
    BY DEF Init, Committed
  <2> QED
    BY <2>1, <2>2, <2>3 DEF Promise!Init, Committed
<1>2. IInv /\ [Next]_vars => [Promise!Next]_(Promise!vars)
  BY StepPromised DEF Promised
<1> QED
  BY <1>1, <1>2, Invariance, PTL DEF Spec, Promise!Safety

-----------------------------------------------------------------------------
(* What Home Assistant may conclude                                        *)

PromiseInv == Promise!ToldIsCommitted /\ Promise!RemovesAlone

\* Every step of Enrollment keeps its two invariants.
LEMMA PromiseStep ==
  ASSUME PromiseInv, Promised
  PROVE  PromiseInv'
<1> USE DEF PromiseInv, Promise!ToldIsCommitted, Promise!RemovesAlone
<1>1. CASE UNCHANGED Promise!vars
  BY <1>1 DEF Promise!vars
<1>2. CASE Promise!Next
  BY <1>2 DEF Promise!Next, Promise!Begin, Promise!Commit, Promise!Report, Promise!Confirm,
     Promise!Wind, Promise!End, Promise!Remove, Promise!Removed
<1> QED
  BY <1>1, <1>2 DEF Promised

\* The receipt is prepared and shown only for a session that is committed, and no
\* bond is removed while an attempt runs or cleans up.
THEOREM PromiseIsKept == Spec => []PromiseInv
<1>1. Promise!Init => PromiseInv
  BY DEF Promise!Init, PromiseInv, Promise!ToldIsCommitted, Promise!RemovesAlone
<1>2. PromiseInv /\ [Promise!Next]_(Promise!vars) => PromiseInv'
  BY PromiseStep DEF Promised
<1> QED
  BY <1>1, <1>2, ImplementsSafety, PTL DEF Promise!Safety

\* A receipt goes on the air only for the session that runs, and that is committed.
LEMMA ReceiptStep ==
  ASSUME IInv, PromiseInv, [Next]_vars, advert # "completion", advert' = "completion"
  PROVE  session' = session /\ ha[session] = "committed"
<1>1. Advertised /\ task.pc = "register_receipt"
  <2>1. CASE TaskStep
    <3>1. ~(AdvertStopped \/ CleanedUp)
      BY DEF AdvertStopped, CleanedUp
    <3>2. ~(Begin \/ Connected \/ Claimed \/ Paired \/ BondRead \/ Written)
      BY DEF Begin, Connected, Claimed, Paired, BondRead, Written
    <3>3. ~(Saved \/ Completed \/ ReceiptShown \/ Fails \/ Expires \/ Unpaired)
      BY DEF Saved, Completed, ReceiptShown, Fails, Expires, Unpaired
    <3>4. Advertised
      BY <2>1, <3>1, <3>2, <3>3 DEF TaskStep
    <3> QED
      BY <3>4 DEF Advertised, At
  <2>2. CASE WorkerStep
    BY <2>2 DEF WorkerStep, TakeStart, TakeCancel, CancelDone, TakeComplete, TakeForget,
       RemovalDone, RemovalFails, attempt_vars
  <2>3. CASE Environment
    BY <2>3 DEF Environment, Found, HaForgets, HaStarts, HaRepeats, HaCompletes, MqttChanges,
       BlueZLost, LateWrite, Restart, Deliver, attempt_vars
  <2>4. CASE Tick \/ UNCHANGED vars
    BY <2>4 DEF Tick, vars, attempt_vars
  <2> QED
    BY <2>1, <2>2, <2>3, <2>4 DEF Next
<1>2. session' = session
  BY <1>1 DEF Advertised
<1>3. Phase = PhaseOf(task.pc) /\ Active
  BY <1>1, Zenon DEF Phase, PhaseOf, Active, At
<1>4. Phase = "receipt"
  BY <1>1, <1>3, Phases DEF ReceiptPcs
<1> QED
  BY <1>2, <1>3, <1>4 DEF PromiseInv, Promise!ToldIsCommitted

\* The phone sees a receipt only after Home Assistant has committed the session that
\* runs: no advertisement of an earlier attempt becomes one.
THEOREM ReceiptFollowsCommit ==
  Spec => [][advert # "completion" /\ advert' = "completion"
               => session' = session /\ ha[session] = "committed"]_vars
<1>1. IInv /\ PromiseInv /\ [Next]_vars =>
        [advert # "completion" /\ advert' = "completion"
           => session' = session /\ ha[session] = "committed"]_vars
  BY ReceiptStep
<1> QED
  BY <1>1, Invariance, PromiseIsKept, PTL DEF Spec

=============================================================================
