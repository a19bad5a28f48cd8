-------------------------- MODULE PairingStoreProofs --------------------------
(***************************************************************************)
(* Theorems about the identities that PairingCoordinator keeps in memory   *)
(* and in the store: the removals and the results that change them, and    *)
(* the failed saves and restarts in between.                               *)
(***************************************************************************)
EXTENDS PairingCoordinatorProofs

-----------------------------------------------------------------------------
(* The invariant                                                           *)

\* What a removal knows of the identity it removes.  Once the identity has left
\* the memory, the disk still holds it or holds nothing.
RowInv(c) ==
  /\ Pc(c) \in RemovalPcs => call[c].row \in {NoTarget, call[c].target}
  /\ Pc(c) \in {"request", "reset_save"} => call[c].row = ram.owner[call[c].irk]
  /\ Pc(c) \in {"reset_save", "forget_save"}
       => call[c].reply = "success" /\ call[c].target \in ram.resets
  /\ Pc(c) = "forget_save"
       => /\ call[c].row = call[c].target
          /\ ram.owner[call[c].irk] = NoTarget
          /\ disk.owner[call[c].irk] \in {NoTarget, call[c].row}

\* The disk lags behind the memory, but never names another person.
DiskInv ==
  \A irk \in Irks : disk.owner[irk] # NoTarget /\ ram.owner[irk] # NoTarget
                      => disk.owner[irk].person = ram.owner[irk].person

StoreInv == (\A c \in Clients : RowInv(c)) /\ NoResurrection /\ DiskInv

\* An offer outlives its session and is gone before the next one.
OfferInv ==
  /\ offer # NoOffer => session = NoSession
  /\ OfferStillApplies
  /\ \A c \in Clients :
       /\ Pc(c) = "start_key" => offer = NoOffer
       /\ Pc(c) = "forget_save" /\ offer # NoOffer /\ offer.irk = call[c].irk
            => call[c].row = offer.target

\* The result of the current session is processed once, and what it commits stays
\* committed as long as the session lasts.
TaskInv ==
  \A sid \in Sids : IsCurrent(sid) /\ result[sid].pc # "none" =>
    /\ session.processing
    /\ result[sid].pc \in {"save", "publish"} => ram.owner[result[sid].irk] = session.target

-----------------------------------------------------------------------------
(* The steps that change the store                                         *)

\* The coroutine of c stays where it is in a removal; only the answer may arrive.
SameRow(c) ==
  /\ call'[c].pc = call[c].pc /\ call'[c].irk = call[c].irk
  /\ call'[c].row = call[c].row /\ call'[c].target = call[c].target
  /\ Pc(c) # "request" => call'[c].reply = call[c].reply

\* The result of the current session commits the phone irk.
Committed(sid, irk) ==
  /\ IsCurrent(sid) /\ ~LinkedToOther(irk)
  /\ ram' = [owner  |-> [ram.owner EXCEPT ![irk] = session.target],
             resets |-> ram.resets \ {session.target}]
  /\ result' = [result EXCEPT ![sid] = [pc |-> "save", irk |-> irk, tries |-> 0]]
  /\ session' = [session EXCEPT !.processing = TRUE]
  /\ public' \in {public, Shown("verifying")}
  /\ UNCHANGED <<offer, disk, call>>

LEMMA VerifyCases ==
  ASSUME NEW sid \in Sids, NEW irk \in Irks, NEW tries, NEW found,
         NEW shown \in {public, Shown("verifying")}, IsCurrent(sid),
         Verify(sid, irk, tries, found, shown), UNCHANGED <<offer, disk, call>>
  PROVE  UNCHANGED ram \/ Committed(sid, irk)
BY DEF Verify, Commit, Committed, ResultFails

\* What becomes of the memory and the disk in one step.
LEMMA StoreStep ==
  ASSUME Inv, Next
  PROVE  \/ UNCHANGED <<ram, disk>>
         \/ \E sid \in Sids, irk \in Irks : Committed(sid, irk)
         \/ \E sid \in Sids : ResultSaved(sid)
         \/ \E c \in Clients : \/ RemovalConfirmed(c) \/ ResetSaved(c)
                              \/ ForgetSaved(c) \/ ForgetSaveFails(c)
         \/ Restart
<1>1. ASSUME NEW c \in Clients, ClientStep(c)
      PROVE  \/ UNCHANGED <<ram, disk>>
             \/ RemovalConfirmed(c) \/ ResetSaved(c) \/ ForgetSaved(c) \/ ForgetSaveFails(c)
  BY <1>1 DEF ClientStep, StartRefused, StartReplaces, StartCancelled, StartKeyReady,
              StartQrReady, StartPublished, PublishRaises, CancelPublished, RemovalRefused,
              RemoveRequests, RepairRequests, RemovalRaises, store_vars
<1>2. ASSUME NEW c \in Clients, NewCall(c)
      PROVE  UNCHANGED <<ram, disk>>
  BY <1>2 DEF NewCall, CallStart, CallRemove, CallRepair, CallLocked, CallCancel, store_vars
<1>3. RefreshStep => UNCHANGED <<ram, disk>>
  BY DEF RefreshStep, RefreshExpires, RefreshTimesOut, RefreshDies, store_vars
<1>4. ASSUME NEW sid \in Sids, ResultStep(sid)
      PROVE  \/ UNCHANGED <<ram, disk>> \/ ResultSaved(sid)
             \/ \E irk \in Irks : Committed(sid, irk)
  <2>1. ASSUME NEW found \in BOOLEAN, ResultWakes(sid, found)
        PROVE  UNCHANGED <<ram, disk>> \/ \E irk \in Irks : Committed(sid, irk)
    <3>1. result[sid].irk \in Irks /\ UNCHANGED <<offer, disk, call>>
      BY <2>1 DEF ResultWakes, call_vars, Inv, ResultInv
    <3>2. CASE ~IsCurrent(sid)
      BY <2>1, <3>1, <3>2 DEF ResultWakes
    <3>3. CASE IsCurrent(sid)
      BY <2>1, <3>1, <3>3, VerifyCases DEF ResultWakes
    <3> QED
      BY <3>2, <3>3
  <2>2. ResultPublished(sid) \/ ResultRaises(sid) => UNCHANGED <<ram, disk>>
    BY DEF ResultPublished, ResultRaises, store_vars
  <2> QED
    BY <1>4, <2>1, <2>2 DEF ResultStep
<1>5. ASSUME NEW sid \in Sids, NEW irk \in Irks \cup {NoIrk}, NEW found \in BOOLEAN,
             ResultMessage(sid, irk, found)
      PROVE  UNCHANGED <<ram, disk>> \/ \E key \in Irks : Committed(sid, key)
  <2>1. IsCurrent(sid) /\ UNCHANGED <<offer, disk, call>>
    BY <1>5 DEF ResultMessage, call_vars
  <2>2. CASE irk = NoIrk
    BY <1>5, <2>1, <2>2 DEF ResultMessage, ResultFails
  <2>3. CASE irk # NoIrk
    BY <1>5, <2>1, <2>3, VerifyCases DEF ResultMessage
  <2> QED
    BY <2>2, <2>3
<1>6. ASSUME \/ \E sid \in Sids : OrphanMessage(sid)
             \/ \E c \in Clients, reply \in {"success", "refused"} :
                  RemovalResultMessage(c, reply)
             \/ \E r \in Receivers : ObserverOnline(r) \/ ObserverOffline(r)
      PROVE  UNCHANGED <<ram, disk>>
  BY <1>6 DEF OrphanMessage, RemovalResultMessage, ObserverOnline, ObserverOffline, store_vars
<1>7. ASSUME NEW state, NEW code, NEW attempt, NEW completion, NEW irk, NEW left,
             StatusMessage(state, code, attempt, completion, irk, left)
      PROVE  UNCHANGED <<ram, disk>>
  BY <1>7 DEF StatusMessage, store_vars
<1>8. Tick => UNCHANGED <<ram, disk>>
  BY DEF Tick, store_vars
<1> QED
  BY <1>1, <1>2, <1>3, <1>4, <1>5, <1>6, <1>7, <1>8 DEF Next, ReceiverMessage

\* How a coroutine gets into a removal, through it, and out of it.
LEMMA RowStep ==
  ASSUME Inv, Next, NEW c \in Clients
  PROVE  /\ Pc(c)' \in RemovalPcs =>
              \/ SameRow(c)
              \/ RemoveRequests(c) \/ RepairRequests(c) \/ RemovalConfirmed(c) \/ ResetSaved(c)
         /\ Pc(c) = "forget_save" =>
              SameRow(c) \/ ForgetSaved(c) \/ ForgetSaveFails(c) \/ Restart
<1>0. call \in [Clients -> CallRecords]
  BY DEF Inv, TypeOK
<1> DEFINE Goal == /\ Pc(c)' \in RemovalPcs =>
                        \/ SameRow(c)
                        \/ RemoveRequests(c) \/ RepairRequests(c) \/ RemovalConfirmed(c)
                        \/ ResetSaved(c)
                   /\ Pc(c) = "forget_save" =>
                        SameRow(c) \/ ForgetSaved(c) \/ ForgetSaveFails(c) \/ Restart
<1>a. call'[c] = call[c] => SameRow(c)
  BY DEF SameRow
<1>b. ASSUME Pc(c)' \notin RemovalPcs, Pc(c) # "forget_save"
      PROVE  Goal
  BY <1>b
<1>1. CASE ClientStep(c)
  <2>1. ASSUME Return(c) PROVE Pc(c)' \notin RemovalPcs
    BY <1>0, <2>1 DEF Return, IdleCall, Pc, RemovalPcs
  <2>2. ASSUME NEW shown, PrepareSession(c, shown) PROVE Pc(c)' \notin RemovalPcs
    BY <1>0, <2>2 DEF PrepareSession, IdleCall, Pc, RemovalPcs
  <2>3. CASE StartRefused(c) \/ StartPublished(c) \/ PublishRaises(c) \/ RemovalRefused(c)
             \/ RemovalRaises(c)
    <3>1. Pc(c) # "forget_save" /\ Return(c)
      BY <2>3 DEF StartRefused, StartPublished, PublishRaises, RemovalRefused, RemovalRaises,
                  Raise, Entering
    <3> QED
      BY <1>b, <2>1, <3>1
  <2>4. CASE StartReplaces(c) \/ StartCancelled(c)
    <3>1. Pc(c) # "forget_save" /\ (Suspend(c, "start_cancel") \/ PrepareSession(c, ShownAfterCancel))
      BY <2>4 DEF StartReplaces, StartCancelled, Entering
    <3>2. Suspend(c, "start_cancel") => Pc(c)' = "start_cancel"
      BY <1>0 DEF Suspend, Pc, CallRecords
    <3> QED
      BY <1>b, <2>2, <3>1, <3>2 DEF RemovalPcs
  <2>5. CASE StartKeyReady(c) \/ StartQrReady(c) \/ CancelPublished(c)
    <3>1. StartKeyReady(c) => Pc(c)' = "start_qr" /\ Pc(c) = "start_key"
      BY <1>0 DEF StartKeyReady, Pc, CallRecords
    <3>2. StartQrReady(c) => Pc(c)' = "start_publish" /\ Pc(c) = "start_qr"
      BY <1>0 DEF StartQrReady, SuspendLast, IdleCall, Pc
    <3>3. CancelPublished(c) => Pc(c)' = "idle" /\ Pc(c) = "cancel_publish"
      BY <1>0 DEF CancelPublished, IdleCall, Pc
    <3> QED
      BY <1>b, <2>5, <3>1, <3>2, <3>3 DEF RemovalPcs
  <2>6. CASE RemoveRequests(c) \/ RepairRequests(c) \/ RemovalConfirmed(c) \/ ResetSaved(c)
    <3>1. Pc(c) # "forget_save"
      BY <2>6 DEF RemoveRequests, RepairRequests, RemovalConfirmed, ResetSaved, Entering
    <3> QED
      BY <2>6, <3>1
  <2>7. CASE ForgetSaved(c) \/ ForgetSaveFails(c)
    <3>1. \/ Return(c)
          \/ \E shown : PrepareSession(c, shown)
      BY <2>7 DEF ForgetSaved, ForgetSaveFails, Raise, StartAfterRepair
    <3> QED
      BY <2>1, <2>2, <2>7, <3>1
  <2> QED
    BY <1>1, <2>3, <2>4, <2>5, <2>6, <2>7 DEF ClientStep
<1>2. CASE NewCall(c)
  <2>1. ASSUME NEW request, CallLocked(c, request), request.pc = "queue"
        PROVE  Pc(c)' = "queue" /\ Pc(c) = "idle"
    BY <1>0, <2>1 DEF CallLocked, Pc
  <2>2. ASSUME CallCancel(c)
        PROVE  Pc(c)' \in {"idle", "cancel_publish"} /\ Pc(c) = "idle"
    <3>1. ASSUME SuspendLast(c, "cancel", session.sid, "cancel_publish")
          PROVE  Pc(c)' = "cancel_publish"
      BY <1>0, <3>1 DEF SuspendLast, IdleCall, Pc
    <3> QED
      BY <2>2, <3>1 DEF CallCancel, Pc
  <2>3. ASSUME NEW target, NEW force, CallStart(c, target, force)
        PROVE  Pc(c)' = "queue" /\ Pc(c) = "idle"
    BY <2>1, <2>3 DEF CallStart, IdleCall
  <2>4. ASSUME NEW irk, CallRemove(c, irk) PROVE Pc(c)' = "queue" /\ Pc(c) = "idle"
    BY <2>1, <2>4 DEF CallRemove, IdleCall
  <2>5. ASSUME NEW sid, CallRepair(c, sid) PROVE Pc(c)' = "queue" /\ Pc(c) = "idle"
    BY <2>1, <2>5 DEF CallRepair, IdleCall
  <2>6. Pc(c)' \in {"queue", "idle", "cancel_publish"} /\ Pc(c) = "idle"
    BY <1>2, <2>2, <2>3, <2>4, <2>5 DEF NewCall
  <2> QED
    BY <1>b, <2>6 DEF RemovalPcs
<1>3. ASSUME NEW d \in Clients \ {c}, ClientStep(d) \/ NewCall(d)
      PROVE  Goal
  BY <1>a, <1>3, ClientFrame
<1>4. ASSUME NEW d \in Clients, NEW reply \in {"success", "refused"}, RemovalResultMessage(d, reply)
      PROVE  Goal
  <2>1. CASE d = c
    BY <1>0, <1>4, <2>1 DEF RemovalResultMessage, SameRow, Pc, CallRecords
  <2>2. CASE d # c
    BY <1>0, <1>4, <1>a, <2>2 DEF RemovalResultMessage
  <2> QED
    BY <2>1, <2>2
<1>5. CASE Restart
  <2>1. Pc(c)' = "idle"
    BY <1>5 DEF Restart, Pc, IdleCall
  <2> QED
    BY <1>5, <2>1 DEF RemovalPcs
<1>6. CASE Tick
  BY <1>0, <1>6 DEF Tick, SameRow, Pc, CallRecords
<1>7. ASSUME \/ RefreshStep
             \/ \E sid \in Sids : ResultStep(sid) \/ OrphanMessage(sid)
             \/ \E sid \in Sids, irk \in Irks \cup {NoIrk}, found \in BOOLEAN :
                  ResultMessage(sid, irk, found)
             \/ \E r \in Receivers : ObserverOnline(r) \/ ObserverOffline(r)
      PROVE  call' = call
  BY <1>7 DEF RefreshStep, RefreshExpires, RefreshTimesOut, RefreshDies, ResultStep, ResultWakes,
              ResultSaved, ResultPublished, ResultRaises, OrphanMessage, ResultMessage,
              ObserverOnline, ObserverOffline, call_vars
<1>8. ASSUME NEW state, NEW code, NEW attempt, NEW completion, NEW irk, NEW left,
             StatusMessage(state, code, attempt, completion, irk, left)
      PROVE  call' = call
  BY <1>8 DEF StatusMessage, call_vars
<1> QED
  BY <1>a, <1>1, <1>2, <1>3, <1>4, <1>5, <1>6, <1>7, <1>8 DEF Next, ReceiverMessage

-----------------------------------------------------------------------------
(* The identities                                                          *)

\* A removal excludes the others, and every session.
LEMMA RemovalAlone ==
  ASSUME Inv, NEW c \in Clients, Pc(c) \in RemovalPcs
  PROVE  /\ session = NoSession
         /\ call[c].irk \in Irks /\ call[c].target \in Targets
         /\ \A d \in Clients \ {c} : Pc(d) \notin LockedPcs
BY DEF Inv, CallInv, LockInv, Holds, LockedPcs

\* While a removal waits, the memory does not change and the disk at most catches up.
LEMMA RemovalWaiting ==
  ASSUME Inv, Next, NEW c \in Clients, Pc(c) \in RemovalPcs, SameRow(c)
  PROVE  ram' = ram /\ disk' \in {disk, ram}
<1>0. call \in [Clients -> CallRecords]
  BY DEF Inv, TypeOK
<1>1. CASE UNCHANGED <<ram, disk>>
  BY <1>1
<1>2. ASSUME NEW sid \in Sids, NEW irk \in Irks, Committed(sid, irk)
      PROVE  FALSE
  BY <1>2, RemovalAlone DEF Committed, IsCurrent
<1>3. ASSUME NEW sid \in Sids, ResultSaved(sid)
      PROVE  ram' = ram /\ disk' = ram
  BY <1>3 DEF ResultSaved
<1>4. ASSUME NEW d \in Clients, RemovalConfirmed(d) \/ ResetSaved(d) \/ ForgetSaved(d)
                                \/ ForgetSaveFails(d)
      PROVE  ram' = ram /\ disk' \in {disk, ram}
  <2>1. d = c
    BY <1>4, RemovalAlone DEF RemovalConfirmed, ResetSaved, ForgetSaved, ForgetSaveFails,
                              RemovalPcs, LockedPcs
  <2>2. CASE RemovalConfirmed(c)
    BY <1>0, <2>2 DEF RemovalConfirmed, Suspend, SameRow, Pc, CallRecords
  <2>3. CASE ResetSaved(c) /\ call[c].row # NoTarget
    BY <1>0, <2>3 DEF ResetSaved, SameRow, Pc, CallRecords
  <2>4. CASE ResetSaved(c) /\ call[c].row = NoTarget
    BY <2>4 DEF ResetSaved
  <2>5. CASE ForgetSaved(c)
    BY <2>5 DEF ForgetSaved
  <2>6. CASE ForgetSaveFails(c)
    BY <1>0, <2>6 DEF ForgetSaveFails, Raise, Return, IdleCall, SameRow, Pc
  <2> QED
    BY <1>4, <2>1, <2>2, <2>3, <2>4, <2>5, <2>6
<1>5. CASE Restart
  BY <1>5 DEF Restart, SameRow, IdleCall, Pc, RemovalPcs
<1> QED
  BY <1>1, <1>2, <1>3, <1>4, <1>5, StoreStep

LEMMA RowInvStep ==
  ASSUME Inv, StoreInv, Next, NEW c \in Clients
  PROVE  RowInv(c)'
<1>0. /\ call \in [Clients -> CallRecords]
      /\ ram \in Stores /\ ram.owner \in [Irks -> Owners] /\ CallInv(c) /\ RowInv(c)
  BY DEF Inv, TypeOK, Stores, StoreInv
<1>1. CASE Pc(c)' \notin RemovalPcs
  BY <1>1 DEF RowInv, RemovalPcs
<1>2. CASE SameRow(c) /\ Pc(c) \in RemovalPcs
  <2>1. ram' = ram /\ disk' \in {disk, ram}
    BY <1>2, RemovalWaiting
  <2> QED
    BY <1>0, <1>2, <2>1 DEF RowInv, SameRow, Pc
<1>3. CASE RemoveRequests(c)
  <2>1. call'[c].pc = "request" /\ call'[c].irk = call[c].irk /\ ram' = ram
        /\ call'[c].row = ram.owner[call[c].irk] /\ call'[c].target = ram.owner[call[c].irk]
    BY <1>0, <1>3 DEF RemoveRequests, CallRecords, store_vars
  <2> QED
    BY <2>1 DEF RowInv, Pc
<1>4. CASE RepairRequests(c)
  <2>1. call'[c].pc = "request" /\ call'[c].irk = offer.irk /\ ram' = ram
        /\ call'[c].row = ram.owner[offer.irk] /\ call'[c].target = offer.target
    BY <1>0, <1>4 DEF RepairRequests, CallRecords, store_vars
  <2>2. ram.owner[offer.irk] \in {NoTarget, offer.target}
    BY <1>4 DEF RepairRequests, CanRepair
  <2> QED
    BY <2>1, <2>2 DEF RowInv, Pc
<1>5. CASE RemovalConfirmed(c)
  <2>1. /\ call'[c].pc = "reset_save" /\ call'[c].irk = call[c].irk
        /\ call'[c].row = call[c].row /\ call'[c].target = call[c].target
        /\ call'[c].reply = "success" /\ Pc(c) = "request"
    BY <1>0, <1>5 DEF RemovalConfirmed, Suspend, CallRecords
  <2>2. ram'.owner = ram.owner /\ call[c].target \in ram'.resets
    BY <1>0, <1>5 DEF RemovalConfirmed, Stores
  <2> QED
    BY <1>0, <2>1, <2>2 DEF RowInv, Pc, RemovalPcs
<1>6. CASE ResetSaved(c) /\ Pc(c)' \in RemovalPcs
  <2>1. call[c].row # NoTarget
    <3>1. ASSUME StartAfterRepair(c, public) PROVE Pc(c)' \notin RemovalPcs
      <4>1. Return(c) => Pc(c)' = "idle"
        BY <1>0 DEF Return, IdleCall, Pc
      <4>2. \A shown : PrepareSession(c, shown) => Pc(c)' = "start_key"
        BY <1>0 DEF PrepareSession, IdleCall, Pc
      <4> QED
        BY <3>1, <4>1, <4>2 DEF StartAfterRepair, RemovalPcs
    <3> QED
      BY <1>6, <3>1 DEF ResetSaved
  <2>2. /\ call'[c].pc = "forget_save" /\ call'[c].irk = call[c].irk
        /\ call'[c].row = ram.owner[call[c].irk] /\ call'[c].target = call[c].target
        /\ call'[c].reply = call[c].reply /\ Pc(c) = "reset_save"
    BY <1>0, <1>6, <2>1 DEF ResetSaved, CallRecords
  <2>3. call[c].irk \in Irks
    BY <1>6, RemovalAlone DEF ResetSaved, RemovalPcs
  <2>4. ram'.owner[call[c].irk] = NoTarget /\ ram'.resets = ram.resets /\ disk' = ram
    BY <1>0, <1>6, <2>1, <2>3 DEF ResetSaved, Stores
  <2> QED
    BY <1>0, <2>1, <2>2, <2>4 DEF RowInv, Pc, RemovalPcs
<1> QED
  BY <1>1, <1>2, <1>3, <1>4, <1>5, <1>6, RowStep DEF SameRow, Pc

LEMMA StoreInvStep ==
  ASSUME Inv, StoreInv, [Next]_vars
  PROVE  StoreInv'
<1>0. /\ call \in [Clients -> CallRecords] /\ ram \in Stores
      /\ ram.owner \in [Irks -> Owners] /\ disk.owner \in [Irks -> Owners]
  BY DEF Inv, TypeOK, Stores
<1>1. CASE UNCHANGED vars
  BY <1>1 DEF vars, store_vars, call_vars, StoreInv, RowInv, NoResurrection, DiskInv, Pc
<1> DEFINE Kept == NoResurrection' /\ DiskInv'
\* A removed identity is still being written, or it has left the disk or come back.
<1>2. ASSUME Next, UNCHANGED <<ram, disk>>
      PROVE  Kept
  <2>1. DiskInv'
    BY <1>2 DEF StoreInv, DiskInv
  <2>2. ASSUME NEW irk \in Irks, disk.owner[irk] # NoTarget, ram.owner[irk] = NoTarget
        PROVE  \E c \in Clients : Pc(c)' = "forget_save" /\ call'[c].irk = irk
    <3>1. PICK c \in Clients : Pc(c) = "forget_save" /\ call[c].irk = irk
      BY <2>2 DEF StoreInv, NoResurrection
    <3>2. CASE SameRow(c)
      BY <3>1, <3>2 DEF SameRow, Pc
    <3>3. CASE ForgetSaved(c) \/ Restart
      BY <1>2, <2>2, <3>3 DEF ForgetSaved, Restart
    <3>4. CASE ForgetSaveFails(c)
      <4>1. call[c].row \in Targets /\ NoTarget \notin Targets
        BY <3>1, RemovalAlone, AbsentAssumption DEF StoreInv, RowInv, RemovalPcs
      <4>2. ram'.owner[irk] = call[c].row
        BY <1>0, <3>1, <3>4 DEF ForgetSaveFails, Stores
      <4> QED
        BY <1>2, <2>2, <4>1, <4>2
    <3> QED
      BY <1>2, <3>1, <3>2, <3>3, <3>4, RowStep
  <2> QED
    BY <1>2, <2>1, <2>2 DEF NoResurrection
<1>3. ASSUME NEW sid \in Sids, NEW irk \in Irks, Committed(sid, irk)
      PROVE  Kept
  <2>1. /\ session # NoSession /\ session.target \in Targets /\ NoTarget \notin Targets
        /\ \A c \in Clients : Pc(c) # "forget_save"
    BY <1>3, RemovalAlone, AbsentAssumption
    DEF Committed, IsCurrent, RemovalPcs, Inv, TypeOK, SessionRecords
  <2>2. disk' = disk /\ ram'.owner = [ram.owner EXCEPT ![irk] = session.target]
    BY <1>3 DEF Committed
  <2>3. \A key \in Irks : disk.owner[key] = NoTarget \/ ram.owner[key] # NoTarget
    BY <2>1 DEF StoreInv, NoResurrection
  <2>4. ram.owner[irk] # NoTarget => ram.owner[irk].person = session.target.person
    BY <1>3 DEF Committed, LinkedToOther
  <2>5. \A key \in Irks : ram'.owner[key] = IF key = irk THEN session.target ELSE ram.owner[key]
    BY <1>0, <2>2
  <2>6. NoResurrection'
    BY <2>1, <2>2, <2>3, <2>5 DEF NoResurrection
  <2>7. DiskInv'
    BY <2>2, <2>3, <2>4, <2>5 DEF StoreInv, DiskInv
  <2> QED
    BY <2>6, <2>7
<1>4. ASSUME disk' = ram, ram' = ram
      PROVE  Kept
  BY <1>4 DEF NoResurrection, DiskInv
<1>5. ASSUME NEW c \in Clients, RemovalConfirmed(c)
      PROVE  Kept
  <2>1. ram'.owner = ram.owner /\ disk' = disk
    BY <1>0, <1>5 DEF RemovalConfirmed, Stores
  <2>2. \A d \in Clients : Pc(d) # "forget_save"
    BY <1>5, RemovalAlone DEF RemovalConfirmed, RemovalPcs, LockedPcs
  <2> QED
    BY <2>1, <2>2 DEF StoreInv, NoResurrection, DiskInv
<1>6. ASSUME NEW c \in Clients, ResetSaved(c), call[c].row # NoTarget
      PROVE  Kept
  <2>1. disk' = ram /\ ram'.owner = [ram.owner EXCEPT ![call[c].irk] = NoTarget]
    BY <1>0, <1>6 DEF ResetSaved, Stores
  <2>2. call'[c].pc = "forget_save" /\ call'[c].irk = call[c].irk
    BY <1>0, <1>6 DEF ResetSaved, CallRecords
  <2>3. \A key \in Irks : ram'.owner[key] = IF key = call[c].irk THEN NoTarget ELSE ram.owner[key]
    BY <1>0, <2>1
  <2> QED
    BY <2>1, <2>2, <2>3 DEF NoResurrection, DiskInv, Pc
<1>7. ASSUME NEW c \in Clients, ForgetSaveFails(c)
      PROVE  Kept
  <2>1. /\ call[c].irk \in Irks /\ call[c].row \in Targets /\ NoTarget \notin Targets
        /\ disk.owner[call[c].irk] \in {NoTarget, call[c].row}
    BY <1>7, RemovalAlone, AbsentAssumption DEF ForgetSaveFails, StoreInv, RowInv, RemovalPcs
  <2>2. \A d \in Clients : Pc(d) = "forget_save" => d = c
    BY <1>7, RemovalAlone DEF ForgetSaveFails, RemovalPcs, LockedPcs
  <2>3. disk' = disk /\ \A key \in Irks :
          ram'.owner[key] = IF key = call[c].irk THEN call[c].row ELSE ram.owner[key]
    BY <1>0, <1>7, <2>1 DEF ForgetSaveFails, Stores
  <2>4. NoResurrection'
    BY <2>1, <2>2, <2>3 DEF StoreInv, NoResurrection
  <2>5. DiskInv'
    BY <2>1, <2>3 DEF StoreInv, DiskInv
  <2> QED
    BY <2>4, <2>5
<1>8. ASSUME Restart PROVE Kept
  BY <1>8 DEF Restart, NoResurrection, DiskInv
<1>9. ASSUME Next
      PROVE  Kept
  <2>1. ASSUME NEW sid \in Sids, ResultSaved(sid)
        PROVE  disk' = ram /\ ram' = ram
    BY <2>1 DEF ResultSaved
  <2>2. ASSUME NEW c \in Clients, ForgetSaved(c) \/ (ResetSaved(c) /\ call[c].row = NoTarget)
        PROVE  disk' = ram /\ ram' = ram
    BY <2>2 DEF ForgetSaved, ResetSaved
  <2> QED
    BY <1>2, <1>3, <1>4, <1>5, <1>6, <1>7, <1>8, <1>9, <2>1, <2>2, StoreStep
<1> QED
  BY <1>1, <1>9, RowInvStep DEF StoreInv

LEMMA StoreInvariance == Spec => []StoreInv
<1>1. Init => StoreInv
  BY DEF Init, Fresh, StoreInv, RowInv, NoResurrection, DiskInv, Pc, IdleCall, RemovalPcs
<1>2. Inv /\ StoreInv /\ [Next]_vars => StoreInv'
  BY StoreInvStep
<1> QED
  BY <1>1, <1>2, Invariance, PTL DEF Spec

\* A removed identity does not come back with the next restart: whatever writes of
\* other coroutines overlap with the removal, and whichever of them fail, what is on
\* disk is in the memory or is being removed (_async_forget_identity).
THEOREM RemovedStaysRemoved == Spec => []NoResurrection
<1>1. StoreInv => NoResurrection
  BY DEF StoreInv
<1> QED
  BY <1>1, StoreInvariance, PTL

\* A phone is never handed from one person to another: not by a late result, a
\* failed removal that is undone, or a restart that finds an older store
\* (_async_process_pairing_result).
THEOREM PhonesNeverReassigned == Spec => NeverReassigned
<1>1. ASSUME Inv, StoreInv, [Next]_vars, NEW irk \in Irks,
             ram.owner[irk] # NoTarget, ram'.owner[irk] # NoTarget
      PROVE  ram'.owner[irk].person = ram.owner[irk].person
  <2>0. ram \in Stores /\ ram.owner \in [Irks -> Owners]
    BY <1>1 DEF Inv, TypeOK, Stores
  <2>1. CASE ram' = ram
    BY <2>1
  <2>2. ASSUME NEW sid \in Sids, NEW key \in Irks, Committed(sid, key)
        PROVE  ram'.owner[irk].person = ram.owner[irk].person
    BY <1>1, <2>0, <2>2 DEF Committed, LinkedToOther
  <2>3. ASSUME NEW c \in Clients, RemovalConfirmed(c)
        PROVE  ram'.owner[irk].person = ram.owner[irk].person
    BY <2>0, <2>3 DEF RemovalConfirmed, Stores
  <2>4. ASSUME NEW c \in Clients, ResetSaved(c), ram' # ram
        PROVE  ram'.owner[irk].person = ram.owner[irk].person
    <3>1. ram'.owner = [ram.owner EXCEPT ![call[c].irk] = NoTarget]
      BY <2>0, <2>4 DEF ResetSaved, Stores
    <3> QED
      BY <1>1, <2>0, <3>1
  <2>5. ASSUME NEW c \in Clients, ForgetSaveFails(c)
        PROVE  ram'.owner[irk].person = ram.owner[irk].person
    <3>1. ram'.owner = [ram.owner EXCEPT ![call[c].irk] = call[c].row]
      BY <2>0, <2>5 DEF ForgetSaveFails, Stores
    <3>2. ram.owner[call[c].irk] = NoTarget
      BY <1>1, <2>5 DEF ForgetSaveFails, StoreInv, RowInv
    <3> QED
      BY <1>1, <2>0, <3>1, <3>2
  <2>6. CASE Restart
    BY <1>1, <2>6 DEF Restart, StoreInv, DiskInv
  <2>7. ASSUME \/ \E sid \in Sids : ResultSaved(sid)
               \/ \E c \in Clients : ForgetSaved(c)
               \/ UNCHANGED vars
        PROVE  ram' = ram
    BY <2>7 DEF ResultSaved, ForgetSaved, vars, store_vars
  <2> QED
    BY <1>1, <2>1, <2>2, <2>3, <2>4, <2>5, <2>6, <2>7, StoreStep
<1>2. Inv /\ StoreInv /\ [Next]_vars =>
        [\A irk \in Irks :
           ram.owner[irk] # NoTarget /\ ram'.owner[irk] # NoTarget
             => ram'.owner[irk].person = ram.owner[irk].person]_vars
  BY <1>1
<1> QED
  BY <1>2, Invariance, StoreInvariance, PTL DEF Spec, NeverReassigned

\* An identity leaves the memory only after the receiver of exactly this enrollment
\* confirmed that the bond is gone (_async_remove_identity_locked).
THEOREM RemovalsConfirmed == Spec => RemovedOnlyWhenConfirmed
<1> DEFINE Confirmed(irk) ==
             \/ ram' = disk
             \/ \E c \in Clients : /\ call[c].irk = irk /\ call[c].reply = "success"
                                   /\ call[c].target = ram.owner[irk]
<1>1. ASSUME Inv, StoreInv, [Next]_vars, NEW irk \in Irks,
             ram.owner[irk] # NoTarget, ram'.owner[irk] = NoTarget
      PROVE  Confirmed(irk)
  <2>0. ram \in Stores /\ ram.owner \in [Irks -> Owners] /\ NoTarget \notin Targets
    BY <1>1, AbsentAssumption DEF Inv, TypeOK, Stores
  <2>1. ASSUME ram' = ram PROVE FALSE
    BY <1>1, <2>1
  <2>2. ASSUME NEW sid \in Sids, NEW key \in Irks, Committed(sid, key)
        PROVE  FALSE
    <3>1. session.target \in Targets
      BY <1>1, <2>2 DEF Committed, IsCurrent, Inv, TypeOK, SessionRecords
    <3> QED
      BY <1>1, <2>0, <2>2, <3>1 DEF Committed
  <2>3. ASSUME NEW c \in Clients, RemovalConfirmed(c)
        PROVE  FALSE
    BY <1>1, <2>0, <2>3 DEF RemovalConfirmed, Stores
  <2>4. ASSUME NEW c \in Clients, ResetSaved(c), ram' # ram
        PROVE  Confirmed(irk)
    <3>1. ram'.owner = [ram.owner EXCEPT ![call[c].irk] = NoTarget]
      BY <2>0, <2>4 DEF ResetSaved, Stores
    <3>2. irk = call[c].irk
      BY <1>1, <2>0, <3>1
    <3>3. call[c].reply = "success" /\ ram.owner[irk] = call[c].target
      BY <1>1, <2>4, <3>2 DEF ResetSaved, StoreInv, RowInv, RemovalPcs
    <3> QED
      BY <3>2, <3>3
  <2>5. ASSUME NEW c \in Clients, ForgetSaveFails(c)
        PROVE  FALSE
    <3>1. ram'.owner = [ram.owner EXCEPT ![call[c].irk] = call[c].row]
      BY <2>0, <2>5 DEF ForgetSaveFails, Stores
    <3>2. call[c].row \in Targets /\ call[c].irk \in Irks
      BY <1>1, <2>5, RemovalAlone DEF ForgetSaveFails, StoreInv, RowInv, RemovalPcs
    <3> QED
      BY <1>1, <2>0, <3>1, <3>2
  <2>6. ASSUME Restart PROVE ram' = disk
    BY <2>6 DEF Restart
  <2>7. ASSUME \/ \E sid \in Sids : ResultSaved(sid)
               \/ \E c \in Clients : ForgetSaved(c)
               \/ UNCHANGED vars
        PROVE  ram' = ram
    BY <2>7 DEF ResultSaved, ForgetSaved, vars, store_vars
  <2> QED
    BY <1>1, <2>1, <2>2, <2>3, <2>4, <2>5, <2>6, <2>7, StoreStep
<1>2. Inv /\ StoreInv /\ [Next]_vars =>
        [\A irk \in Irks :
           ram.owner[irk] # NoTarget /\ ram'.owner[irk] = NoTarget => Confirmed(irk)]_vars
  BY <1>1
<1> QED
  BY <1>2, Invariance, StoreInvariance, PTL DEF Spec, RemovedOnlyWhenConfirmed

\* The phone is not enrolled again before it has forgotten the receiver: what says so
\* is written before the identity is taken away, and only the enrollment of a phone
\* for the same person and receiver takes it back (_async_require_phone_reset).
THEOREM PhoneResetsKept == Spec => PhoneResetKept
<1> DEFINE Kept ==
             /\ \A target \in ram.resets \ ram'.resets :
                  ram' = disk \/ \E irk \in Irks : ram'.owner[irk] = target
             /\ \A irk \in Irks :
                  disk.owner[irk] # NoTarget /\ disk'.owner[irk] = NoTarget
                    => disk.owner[irk] \in disk'.resets
<1>1. ASSUME Inv, StoreInv, Next
      PROVE  Kept
  <2>0. /\ ram \in Stores /\ ram.owner \in [Irks -> Owners] /\ ram.resets \subseteq Targets
        /\ NoTarget \notin Targets
    BY <1>1, AbsentAssumption DEF Inv, TypeOK, Stores
  <2>1. ASSUME NEW irk \in Irks, disk.owner[irk] # NoTarget, ram.owner[irk] = NoTarget
        PROVE  disk.owner[irk] \in ram.resets
    <3>1. PICK c \in Clients : Pc(c) = "forget_save" /\ call[c].irk = irk
      BY <1>1, <2>1 DEF StoreInv, NoResurrection
    <3> QED
      BY <1>1, <2>1, <3>1 DEF StoreInv, RowInv
  <2>2. ASSUME disk' \in {disk, ram}, ram.resets \subseteq ram'.resets \/ ram' = disk
        PROVE  Kept
    BY <2>1, <2>2
  <2>3. ASSUME NEW sid \in Sids, NEW irk \in Irks, Committed(sid, irk)
        PROVE  Kept
    <3>1. disk' = disk /\ ram'.resets = ram.resets \ {session.target}
          /\ ram'.owner[irk] = session.target
      BY <2>0, <2>3 DEF Committed
    <3> QED
      BY <3>1
  <2>4. ASSUME NEW c \in Clients, RemovalConfirmed(c)
        PROVE  disk' = disk /\ ram.resets \subseteq ram'.resets
    BY <2>0, <2>4 DEF RemovalConfirmed, Stores
  <2>5. ASSUME NEW c \in Clients, ResetSaved(c)
        PROVE  disk' = ram /\ ram'.resets = ram.resets
    BY <2>0, <2>5 DEF ResetSaved, Stores
  <2>6. ASSUME NEW c \in Clients, ForgetSaved(c)
        PROVE  disk' = ram /\ ram' = ram
    BY <2>6 DEF ForgetSaved
  <2>7. ASSUME NEW c \in Clients, ForgetSaveFails(c)
        PROVE  disk' = disk /\ ram'.resets = ram.resets
    BY <2>0, <2>7 DEF ForgetSaveFails, Stores
  <2>8. ASSUME Restart PROVE disk' = disk /\ ram' = disk
    BY <2>8 DEF Restart
  <2>9. ASSUME NEW sid \in Sids, ResultSaved(sid)
        PROVE  disk' = ram /\ ram' = ram
    BY <2>9 DEF ResultSaved
  <2> HIDE DEF Kept
  <2> QED
    BY <1>1, <2>2, <2>3, <2>4, <2>5, <2>6, <2>7, <2>8, <2>9, StoreStep
<1>2. Inv /\ StoreInv /\ [Next]_vars => [Kept]_vars
  BY <1>1
<1> QED
  BY <1>2, Invariance, StoreInvariance, PTL DEF Spec, PhoneResetKept

-----------------------------------------------------------------------------
(* The repair offer                                                        *)

\* What becomes of the offer in one step.
LEMMA OfferStep ==
  ASSUME Inv, Next
  PROVE  \/ offer' = offer
         \/ offer' = NoOffer
         \/ Tick
         \/ /\ session # NoSession /\ session' = NoSession
            /\ UNCHANGED <<ram, call>>
            /\ offer'.target = session.target
            /\ ram.owner[offer'.irk] \in {NoTarget, offer'.target}
<1>1. ASSUME NEW c \in Clients, ClientStep(c) \/ NewCall(c)
      PROVE  offer' \in {offer, NoOffer}
  <2>1. CASE \/ StartRefused(c) \/ StartReplaces(c) \/ StartCancelled(c) \/ StartKeyReady(c)
             \/ StartQrReady(c) \/ StartPublished(c) \/ PublishRaises(c) \/ CancelPublished(c)
    BY <2>1 DEF StartRefused, StartReplaces, StartCancelled, StartKeyReady, StartQrReady,
                StartPublished, PublishRaises, Raise, CancelPublished, DropSession,
                PrepareSession, session_vars
  <2>2. CASE \/ RemovalRefused(c) \/ RemoveRequests(c) \/ RepairRequests(c)
             \/ RemovalConfirmed(c) \/ RemovalRaises(c) \/ ResetSaved(c)
             \/ ForgetSaved(c) \/ ForgetSaveFails(c)
    BY <2>2 DEF RemovalRefused, RemoveRequests, RepairRequests, RemovalConfirmed, RemovalRaises,
                ResetSaved, ForgetSaved, ForgetSaveFails, Raise, StartAfterRepair,
                PrepareSession, session_vars
  <2>3. CASE NewCall(c)
    BY <2>3 DEF NewCall, CallStart, CallRemove, CallRepair, CallLocked, CallCancel, DropSession,
                session_vars
  <2> QED
    BY <1>1, <2>1, <2>2, <2>3 DEF ClientStep
<1>2. RefreshStep => offer' = offer
  BY DEF RefreshStep, RefreshExpires, RefreshTimesOut, RefreshDies, DropSession, session_vars
<1>3. ASSUME \/ \E sid \in Sids : ResultStep(sid) \/ OrphanMessage(sid)
             \/ \E sid \in Sids, irk \in Irks \cup {NoIrk}, found \in BOOLEAN :
                  ResultMessage(sid, irk, found)
             \/ \E c \in Clients, reply \in {"success", "refused"} :
                  RemovalResultMessage(c, reply)
             \/ \E r \in Receivers : ObserverOnline(r) \/ ObserverOffline(r)
      PROVE  offer' = offer
  BY <1>3 DEF ResultStep, ResultWakes, ResultSaved, ResultPublished, ResultRaises, ResultMessage,
              OrphanMessage, RemovalResultMessage, ObserverOnline, ObserverOffline, session_vars
<1>4. Restart => offer' = NoOffer
  BY DEF Restart
<1>5. ASSUME NEW state, NEW code, NEW attempt, NEW completion, NEW irk, NEW left,
             StatusMessage(state, code, attempt, completion, irk, left)
      PROVE  \/ offer' = offer
             \/ /\ session # NoSession /\ session' = NoSession
                /\ UNCHANGED <<ram, call>>
                /\ offer'.target = session.target
                /\ ram.owner[offer'.irk] \in {NoTarget, offer'.target}
  BY <1>5 DEF StatusMessage, AcceptsOffer, TerminalStates, store_vars, call_vars
<1> QED
  BY <1>1, <1>2, <1>3, <1>4, <1>5 DEF Next, ReceiverMessage

LEMMA OfferInvStep ==
  ASSUME Inv, StoreInv, OfferInv, [Next]_vars
  PROVE  OfferInv'
<1>0. /\ call \in [Clients -> CallRecords] /\ ram.owner \in [Irks -> Owners]
      /\ offer \in OfferRecords \cup {NoOffer} /\ ram \in Stores
  BY DEF Inv, TypeOK, Stores
<1>1. CASE UNCHANGED vars
  BY <1>1 DEF vars, session_vars, store_vars, call_vars, OfferInv, OfferStillApplies, Pc
<1>2. CASE Next
  <2>1. CASE offer' = NoOffer
    BY <2>1 DEF OfferInv, OfferStillApplies
  <2>2. CASE /\ session # NoSession /\ session' = NoSession
             /\ UNCHANGED <<ram, call>>
             /\ offer'.target = session.target
             /\ ram.owner[offer'.irk] \in {NoTarget, offer'.target}
    <3>1. \A c \in Clients : Pc(c) \notin {"start_key", "forget_save"}
      BY <2>2 DEF Inv, CallInv, RemovalPcs
    <3> QED
      BY <2>2, <3>1 DEF OfferInv, OfferStillApplies, Pc
  <2>3. CASE /\ offer # NoOffer /\ offer' # NoOffer
             /\ offer'.irk = offer.irk /\ offer'.target = offer.target
    <3>1. session = NoSession /\ ram.owner[offer.irk] \in {NoTarget, offer.target}
          /\ offer.irk \in Irks /\ \A c \in Clients : Pc(c) # "start_key"
      BY <1>0, <2>3 DEF OfferInv, OfferStillApplies, OfferRecords
    <3>2. session' = NoSession
      <4>1. ASSUME session' # NoSession PROVE FALSE
        <5>1. PICK c \in Clients : StartKeyReady(c)
          BY <1>2, <3>1, <4>1, NewSession
        <5> QED
          BY <3>1, <5>1 DEF StartKeyReady
      <4> QED
        BY <4>1
    <3>3. ram'.owner[offer.irk] \in {NoTarget, offer.target}
      <4>1. ASSUME NEW c \in Clients, ResetSaved(c), call[c].row # NoTarget
            PROVE  ram'.owner[offer.irk] \in {NoTarget, offer.target}
        BY <1>0, <3>1, <4>1 DEF ResetSaved, Stores
      <4>2. ASSUME NEW c \in Clients, ForgetSaveFails(c)
            PROVE  ram'.owner[offer.irk] \in {NoTarget, offer.target}
        <5>1. offer.irk = call[c].irk => call[c].row = offer.target
          BY <2>3, <4>2 DEF OfferInv, ForgetSaveFails
        <5> QED
          BY <1>0, <3>1, <4>2, <5>1 DEF ForgetSaveFails, Stores
      <4>3. ASSUME NEW c \in Clients, RemovalConfirmed(c)
            PROVE  ram'.owner = ram.owner
        BY <1>0, <4>3 DEF RemovalConfirmed, Stores
      <4>4. ASSUME NEW sid \in Sids, NEW irk \in Irks, Committed(sid, irk)
            PROVE  FALSE
        BY <3>1, <4>4 DEF Committed, IsCurrent
      <4>5. ASSUME Restart PROVE FALSE
        BY <2>3, <4>5 DEF Restart
      <4>6. ASSUME \/ \E sid \in Sids : ResultSaved(sid)
                   \/ \E c \in Clients :
                        ForgetSaved(c) \/ (ResetSaved(c) /\ call[c].row = NoTarget)
            PROVE  ram' = ram
        BY <4>6 DEF ResultSaved, ForgetSaved, ResetSaved
      <4> QED
        BY <1>2, <3>1, <4>1, <4>2, <4>3, <4>4, <4>5, <4>6, StoreStep
    <3>4. ASSUME NEW c \in Clients, Pc(c)' = "start_key"
          PROVE  FALSE
      <4>1. CASE Tick \/ call'[c] = call[c]
        BY <1>0, <3>1, <3>4, <4>1 DEF Tick, Pc, CallRecords
      <4>2. CASE StartKeyReady(c)
        BY <3>1, <4>2 DEF StartKeyReady
      <4>3. CASE Prepared(c)
        BY <2>3, <4>3 DEF Prepared
      <4> QED
        BY <1>2, <3>4, <4>1, <4>2, <4>3, StartFrame
    <3>5. ASSUME NEW c \in Clients, Pc(c)' = "forget_save", offer.irk = call'[c].irk
          PROVE  call'[c].row = offer.target
      <4>1. CASE SameRow(c)
        BY <2>3, <3>5, <4>1 DEF SameRow, OfferInv, Pc
      <4>2. CASE ResetSaved(c)
        <5>1. call[c].row # NoTarget
          <6>1. ASSUME StartAfterRepair(c, public) PROVE Pc(c)' # "forget_save"
            <7>1. Return(c) => Pc(c)' = "idle"
              BY <1>0 DEF Return, IdleCall, Pc
            <7>2. \A shown : PrepareSession(c, shown) => Pc(c)' = "start_key"
              BY <1>0 DEF PrepareSession, IdleCall, Pc
            <7> QED
              BY <6>1, <7>1, <7>2 DEF StartAfterRepair
          <6> QED
            BY <3>5, <4>2, <6>1 DEF ResetSaved
        <5>2. call'[c].row = ram.owner[call[c].irk] /\ call'[c].irk = call[c].irk
          BY <1>0, <4>2, <5>1 DEF ResetSaved, CallRecords
        <5>3. call[c].row = ram.owner[call[c].irk]
          BY <4>2 DEF ResetSaved, StoreInv, RowInv
        <5> QED
          BY <3>1, <3>5, <5>1, <5>2, <5>3
      <4>3. RemoveRequests(c) \/ RepairRequests(c) => Pc(c)' = "request"
        <5>1. RemoveRequests(c) => Pc(c)' = "request"
          BY <1>0 DEF RemoveRequests, Pc, CallRecords
        <5>2. RepairRequests(c) => Pc(c)' = "request"
          BY <1>0 DEF RepairRequests, Pc, CallRecords
        <5> QED
          BY <5>1, <5>2
      <4>4. RemovalConfirmed(c) => Pc(c)' = "reset_save"
        BY <1>0 DEF RemovalConfirmed, Suspend, Pc, CallRecords
      <4> QED
        BY <1>2, <3>5, <4>1, <4>2, <4>3, <4>4, RowStep DEF RemovalPcs
    <3> QED
      BY <2>3, <3>2, <3>3, <3>4, <3>5 DEF OfferInv, OfferStillApplies
  <2>4. Tick => offer' = NoOffer \/ /\ offer # NoOffer /\ offer' # NoOffer
                                    /\ offer'.irk = offer.irk /\ offer'.target = offer.target
    <3>1. ASSUME offer \in OfferRecords
          PROVE  [offer EXCEPT !.left = Less(offer.left)] \in OfferRecords
      BY <3>1, TimersFacts DEF OfferRecords
    <3> QED
      BY <1>0, <3>1, AbsentAssumption DEF Tick, OfferRecords
  <2> QED
    BY <1>2, <2>1, <2>2, <2>3, <2>4, OfferStep
<1> QED
  BY <1>1, <1>2

\* The phone of a repair offer stays with the person and receiver of the session
\* that failed, or with nobody, whatever is removed, rolled back or started while
\* the offer is open (_accept_bond_repair_offer, async_repair_pairing).
THEOREM OffersStillApply == Spec => []OfferStillApplies
<1>1. Init => OfferInv
  BY DEF Init, Fresh, OfferInv, OfferStillApplies, Pc, IdleCall
<1>2. Inv /\ StoreInv /\ OfferInv /\ [Next]_vars => OfferInv'
  BY OfferInvStep
<1>3. OfferInv => OfferStillApplies
  BY DEF OfferInv
<1> QED
  BY <1>1, <1>2, <1>3, Invariance, StoreInvariance, PTL DEF Spec

-----------------------------------------------------------------------------
(* The results                                                             *)

\* What becomes of the task of one result in one step.
LEMMA ResultFrame ==
  ASSUME Inv, Next, NEW sid \in Sids
  PROVE  \/ result'[sid] = result[sid]
         \/ result'[sid].pc = "none"
         \/ /\ IsCurrent(sid) /\ session' = [session EXCEPT !.processing = TRUE]
            /\ result'[sid].pc = "verify"
            /\ result[sid].pc = "verify" \/ ~session.processing
         \/ /\ \E irk \in Irks : Committed(sid, irk)
            /\ result[sid].pc = "verify" \/ ~session.processing
         \/ /\ ResultSaved(sid) /\ IsCurrent(sid) /\ result[sid].pc = "save"
            /\ result'[sid].pc = "publish" /\ result'[sid].irk = result[sid].irk
<1>0. result \in [Sids -> ResultRecords]
  BY DEF Inv, TypeOK
<1>a. \A other \in Sids : FinishResult(other) =>
        result'[sid] = result[sid] \/ result'[sid].pc = "none"
  BY <1>0 DEF FinishResult, NoResult
<1> DEFINE Verified == \/ result'[sid].pc = "none"
                       \/ /\ session' = [session EXCEPT !.processing = TRUE]
                          /\ result'[sid].pc = "verify"
                       \/ \E irk \in Irks : Committed(sid, irk)
<1>b. ASSUME NEW irk \in Irks, NEW tries, NEW found, NEW shown \in {public, Shown("verifying")},
             IsCurrent(sid), Verify(sid, irk, tries, found, shown),
             UNCHANGED <<offer, disk, call>>
      PROVE  Verified
  <2>1. ResultFails(sid) => result'[sid].pc = "none"
    BY <1>0 DEF ResultFails, FinishResult, NoResult
  <2>2. Commit(sid, irk, shown) /\ ~LinkedToOther(irk) => Committed(sid, irk)
    BY <1>b DEF Commit, Committed
  <2>3. ASSUME result' = [result EXCEPT ![sid] = [pc |-> "verify", irk |-> irk,
                                                  tries |-> tries + 1]]
        PROVE  result'[sid].pc = "verify"
    BY <1>0, <2>3
  <2> QED
    BY <1>b, <2>1, <2>2, <2>3 DEF Verify
<1>1. ASSUME NEW other \in Sids \ {sid}, ResultStep(other) \/
               \E irk \in Irks \cup {NoIrk}, found \in BOOLEAN : ResultMessage(other, irk, found)
      PROVE  result'[sid] = result[sid]
  BY <1>0, <1>1 DEF ResultStep, ResultWakes, ResultSaved, ResultPublished, ResultRaises,
              ResultMessage, Verify, Commit, ResultFails, FinishResult
<1>2. ASSUME NEW found \in BOOLEAN, ResultWakes(sid, found)
      PROVE  \/ result'[sid].pc = "none"
             \/ IsCurrent(sid) /\ Verified /\ result[sid].pc = "verify"
  <2>1. result[sid].irk \in Irks /\ result[sid].pc = "verify" /\ UNCHANGED <<offer, disk, call>>
    BY <1>2 DEF ResultWakes, call_vars, Inv, ResultInv
  <2>2. CASE ~IsCurrent(sid)
    BY <1>0, <1>2, <2>2 DEF ResultWakes, FinishResult, NoResult
  <2>3. CASE IsCurrent(sid)
    BY <1>b, <1>2, <2>1, <2>3 DEF ResultWakes
  <2> QED
    BY <2>2, <2>3
<1>3. ASSUME NEW irk \in Irks \cup {NoIrk}, NEW found \in BOOLEAN, ResultMessage(sid, irk, found)
      PROVE  IsCurrent(sid) /\ Verified /\ ~session.processing
  <2>1. IsCurrent(sid) /\ ~session.processing /\ UNCHANGED <<offer, disk, call>>
    BY <1>3 DEF ResultMessage, call_vars
  <2>2. CASE irk = NoIrk
    BY <1>0, <1>3, <2>1, <2>2 DEF ResultMessage, ResultFails, FinishResult, NoResult
  <2>3. CASE irk # NoIrk
    BY <1>b, <1>3, <2>1, <2>3 DEF ResultMessage
  <2> QED
    BY <2>1, <2>2, <2>3
<1>4. ASSUME ResultSaved(sid)
      PROVE  \/ result'[sid].pc = "none"
             \/ /\ IsCurrent(sid) /\ result[sid].pc = "save"
                /\ result'[sid].pc = "publish" /\ result'[sid].irk = result[sid].irk
  BY <1>0, <1>4 DEF ResultSaved, FinishResult, NoResult, ResultRecords
<1>5. ResultPublished(sid) \/ ResultRaises(sid) => FinishResult(sid)
  BY DEF ResultPublished, ResultRaises
<1>6. ASSUME NEW c \in Clients, ClientStep(c) \/ NewCall(c)
      PROVE  result' = result
  BY <1>6, ClientFrame
<1>7. RefreshStep \/ Tick => result' = result
  BY DEF RefreshStep, RefreshExpires, RefreshTimesOut, RefreshDies, Tick
<1>8. ASSUME \/ \E other \in Sids : OrphanMessage(other)
             \/ \E c \in Clients, reply \in {"success", "refused"} :
                  RemovalResultMessage(c, reply)
             \/ \E r \in Receivers : ObserverOnline(r) \/ ObserverOffline(r)
      PROVE  result' = result
  BY <1>8 DEF OrphanMessage, RemovalResultMessage, ObserverOnline, ObserverOffline
<1>9. Restart => result'[sid].pc = "none"
  BY DEF Restart, NoResult
<1>10. ASSUME NEW state, NEW code, NEW attempt, NEW completion, NEW irk, NEW left,
              StatusMessage(state, code, attempt, completion, irk, left)
       PROVE  result' = result
  BY <1>10 DEF StatusMessage
<1>11. ASSUME ResultStep(sid)
       PROVE  \/ \E found \in BOOLEAN : ResultWakes(sid, found)
              \/ ResultSaved(sid)
              \/ FinishResult(sid)
  BY <1>5, <1>11 DEF ResultStep
<1> QED
  BY <1>a, <1>1, <1>2, <1>3, <1>4, <1>6, <1>7, <1>8, <1>9, <1>10, <1>11, StatusCases
  DEF Next, ReceiverMessage

LEMMA TaskInvStep ==
  ASSUME Inv, HistoryInv, TaskInv, [Next]_vars
  PROVE  TaskInv'
<1>0. /\ session \in SessionRecords \cup {NoSession} /\ result \in [Sids -> ResultRecords]
      /\ ram.owner \in [Irks -> Owners] /\ ram \in Stores
  BY DEF Inv, TypeOK, Stores
<1>1. CASE UNCHANGED vars
  BY <1>1 DEF vars, session_vars, store_vars, TaskInv, IsCurrent
<1>2. CASE Next
  <2> SUFFICES ASSUME NEW sid \in Sids, session' # NoSession, session'.sid = sid,
                      result'[sid].pc # "none"
               PROVE  /\ session'.processing
                      /\ result'[sid].pc \in {"save", "publish"}
                           => ram'.owner[result'[sid].irk] = session'.target
    BY DEF TaskInv, IsCurrent
  <2>1. session # NoSession
    <3>1. ASSUME session = NoSession PROVE FALSE
      <4>1. PICK c \in Clients : StartKeyReady(c)
        BY <1>2, <3>1, NewSession
      <4>2. result' = result /\ session'.sid = nextSid /\ nextSid \in Int
        BY <4>1 DEF StartKeyReady, Inv, TypeOK
      <4> QED
        BY <4>2 DEF HistoryInv
    <3> QED
      BY <3>1
  <2>2. /\ session.sid = sid /\ session'.target = session.target
        /\ session.processing => session'.processing
    BY <1>2, <2>1, SurvivingSession
  <2>3. CASE result'[sid] = result[sid]
    <3>1. session.processing
          /\ (result[sid].pc \in {"save", "publish"} =>
                /\ ram.owner[result[sid].irk] = session.target /\ result[sid].irk \in Irks)
      BY <2>1, <2>2, <2>3 DEF TaskInv, IsCurrent, Inv, ResultInv
    <3>2. CASE ram' = ram
      BY <2>2, <2>3, <3>1, <3>2
    <3>3. ASSUME NEW other \in Sids, NEW irk \in Irks, Committed(other, irk)
          PROVE  ram'.owner[result'[sid].irk] = session.target
      BY <1>0, <2>2, <3>3 DEF Committed, IsCurrent
    <3>4. ASSUME NEW c \in Clients, RemovalConfirmed(c) \/ ResetSaved(c) \/ ForgetSaved(c)
                                    \/ ForgetSaveFails(c)
          PROVE  FALSE
      BY <2>1, <3>4, RemovalAlone
      DEF RemovalConfirmed, ResetSaved, ForgetSaved, ForgetSaveFails, RemovalPcs
    <3>5. ASSUME Restart PROVE FALSE
      BY <3>5 DEF Restart
    <3>6. ASSUME NEW other \in Sids, ResultSaved(other) PROVE ram' = ram
      BY <3>6 DEF ResultSaved
    <3> QED
      BY <1>2, <2>2, <3>1, <3>2, <3>3, <3>4, <3>5, <3>6, StoreStep
  <2>4. CASE session' = [session EXCEPT !.processing = TRUE] /\ result'[sid].pc = "verify"
    BY <1>0, <2>1, <2>4 DEF SessionRecords
  <2>5. ASSUME NEW irk \in Irks, Committed(sid, irk)
        PROVE  session'.processing /\ ram'.owner[result'[sid].irk] = session'.target
    BY <1>0, <2>1, <2>2, <2>5 DEF Committed, SessionRecords
  <2>6. CASE ResultSaved(sid) /\ result'[sid].irk = result[sid].irk /\ result[sid].pc = "save"
    BY <2>1, <2>2, <2>6 DEF ResultSaved, TaskInv, IsCurrent
  <2> QED
    BY <1>2, <2>3, <2>4, <2>5, <2>6, ResultFrame
<1> QED
  BY <1>1, <1>2

LEMMA TaskInvariance == Spec => []TaskInv
<1>1. Init => TaskInv
  BY DEF Init, Fresh, TaskInv, IsCurrent
<1>2. Inv /\ HistoryInv /\ ShownInv /\ TaskInv /\ [Next]_vars => TaskInv'
  BY TaskInvStep
<1> QED
  BY <1>1, <1>2, Invariance, ShownInvariance, PTL DEF Spec

\* A session processes one result: however often the receiver repeats it, the
\* phone that is saved and acknowledged is the one that was verified
\* (_pairing_result_message, result_processing).
THEOREM ResultsProcessedOnce == Spec => OneResultPerSession
<1>1. ASSUME Inv, TaskInv, [Next]_vars, NEW sid \in Sids,
             result[sid].pc \in {"save", "publish"}, result'[sid].pc # "none"
      PROVE  result'[sid].pc # "verify" /\ result'[sid].irk = result[sid].irk
  <2>1. CASE UNCHANGED vars
    BY <1>1, <2>1 DEF vars
  <2>2. IsCurrent(sid) => session.processing
    BY <1>1 DEF TaskInv
  <2>3. \A irk \in Irks : Committed(sid, irk) => IsCurrent(sid)
    BY DEF Committed
  <2> QED
    BY <1>1, <2>1, <2>2, <2>3, ResultFrame
<1>2. Inv /\ TaskInv /\ [Next]_vars =>
        [\A sid \in Sids :
           result[sid].pc \in {"save", "publish"} /\ result'[sid].pc # "none"
             => result'[sid].pc # "verify" /\ result'[sid].irk = result[sid].irk]_vars
  BY <1>1
<1> QED
  BY <1>2, Invariance, TaskInvariance, PTL DEF Spec, OneResultPerSession

\* The receiver hears that an enrollment is complete only of an identity that a
\* crash would not lose, although other coroutines change and write the same store
\* (_async_process_pairing_result, _async_save_store).
THEOREM CompletionsSaved == Spec => CompleteOnlyWhenSaved
<1>1. ASSUME Inv, TaskInv, [Next]_vars, NEW sid \in Sids,
             result[sid].pc # "publish", result'[sid].pc = "publish"
      PROVE  disk'.owner[result'[sid].irk] = session.target
  <2>0. result \in [Sids -> ResultRecords]
    BY <1>1 DEF Inv, TypeOK
  <2>1. \A irk \in Irks : Committed(sid, irk) => result'[sid].pc = "save"
    BY <2>0 DEF Committed
  <2>2. ~UNCHANGED vars
    BY <1>1 DEF vars
  <2>3. ResultSaved(sid) /\ IsCurrent(sid) /\ result'[sid].irk = result[sid].irk
    BY <1>1, <2>1, <2>2, ResultFrame
  <2> QED
    BY <1>1, <2>3 DEF ResultSaved, TaskInv
<1>2. Inv /\ TaskInv /\ [Next]_vars =>
        [\A sid \in Sids :
           result[sid].pc # "publish" /\ result'[sid].pc = "publish"
             => disk'.owner[result'[sid].irk] = session.target]_vars
  BY <1>1
<1> QED
  BY <1>2, Invariance, TaskInvariance, PTL DEF Spec, CompleteOnlyWhenSaved

-----------------------------------------------------------------------------
(* The completed pairing on show                                           *)

SamePublic == public'.state = public.state /\ public'.identity = public.identity

\* A completed pairing is on show since a result was published.
LEMMA CompleteStep ==
  ASSUME Inv, Next, public'.state = "complete"
  PROVE  \/ /\ SamePublic
            /\ \A c \in Clients : ForgetSaved(c) => public.identity # call[c].irk
            /\ ~Restart
         \/ \E sid \in Sids : /\ IsCurrent(sid) /\ result[sid].pc = "publish"
                              /\ public'.identity = result[sid].irk
                              /\ UNCHANGED <<ram, call>>
<1>0. public \in PublicRecords
  BY DEF Inv, TypeOK
<1>a. \A state : public' = Shown(state) => state = "complete"
  BY DEF Shown
<1>b. public' = public => SamePublic
  BY DEF SamePublic
<1>c. public' = ShownAfterCancel => SamePublic
  BY <1>a, <1>b DEF ShownAfterCancel
<1>1. ASSUME NEW c \in Clients, ForgetSaved(c)
      PROVE  SamePublic /\ public.identity # call[c].irk
  <2>1. ASSUME NEW shown \in {public, Shown("idle")}, StartAfterRepair(c, shown)
        PROVE  FALSE
    <3>1. \/ public' = shown /\ shown.state = "idle"
          \/ public' = Shown("cancelled") \/ public' = Shown("error")
      BY <2>1 DEF StartAfterRepair, PrepareSession
    <3> QED
      BY <1>a, <3>1
  <2>2. ShownAfterForget(call[c].irk) \in {public, Shown("idle")}
    BY DEF ShownAfterForget
  <2>3. public' = ShownAfterForget(call[c].irk)
    BY <1>1, <2>1, <2>2 DEF ForgetSaved
  <2> QED
    BY <1>a, <1>b, <2>3 DEF ShownAfterForget
<1>2. ASSUME NEW c \in Clients, ClientStep(c) \/ NewCall(c)
      PROVE  SamePublic
  <2>1. CASE \/ StartRefused(c) \/ StartReplaces(c) \/ StartCancelled(c) \/ StartKeyReady(c)
             \/ StartPublished(c) \/ PublishRaises(c) \/ CancelPublished(c)
    BY <1>a, <1>b, <1>c, <2>1
    DEF StartRefused, StartReplaces, StartCancelled, StartKeyReady, StartPublished,
        PublishRaises, Raise, PrepareSession, CancelPublished, DropSession, session_vars
  <2>2. CASE StartQrReady(c)
    BY <2>2 DEF StartQrReady, Shown
  <2>3. CASE \/ RemovalRefused(c) \/ RemoveRequests(c) \/ RepairRequests(c)
             \/ RemovalConfirmed(c) \/ RemovalRaises(c) \/ ForgetSaveFails(c)
    BY <1>a, <1>b, <2>3
    DEF RemovalRefused, RemoveRequests, RepairRequests, RemovalConfirmed, RemovalRaises,
        ForgetSaveFails, Raise, session_vars
  <2>4. CASE ResetSaved(c)
    <3>1. \/ public' = public
          \/ public' = Shown("cancelled") \/ public' = Shown("error")
      BY <2>4 DEF ResetSaved, StartAfterRepair, PrepareSession, session_vars
    <3> QED
      BY <1>a, <1>b, <3>1
  <2>5. CASE NewCall(c)
    BY <1>b, <1>c, <2>5 DEF NewCall, CallStart, CallRemove, CallRepair, CallLocked, CallCancel,
                DropSession, session_vars
  <2> QED
    BY <1>1, <1>2, <2>1, <2>2, <2>3, <2>4, <2>5 DEF ClientStep
<1>3. RefreshStep => SamePublic
  BY <1>a, <1>b
  DEF RefreshStep, RefreshExpires, RefreshTimesOut, RefreshDies, DropSession, session_vars
<1>4. ASSUME NEW sid \in Sids, ResultPublished(sid)
      PROVE  \/ SamePublic
             \/ /\ IsCurrent(sid) /\ result[sid].pc = "publish"
                /\ public'.identity = result[sid].irk /\ UNCHANGED <<ram, call>>
  <2>1. Shown("complete") \in PublicRecords
    BY ShownType DEF Inv, TypeOK, PublicStates
  <2> QED
    BY <1>b, <1>4, <2>1 DEF ResultPublished, PublicRecords, store_vars, call_vars
<1>5. ASSUME NEW sid \in Sids, NEW irk, NEW tries, NEW found, NEW shown,
             Verify(sid, irk, tries, found, shown)
      PROVE  public' = shown \/ public' = Shown("error")
  BY <1>5 DEF Verify, Commit, ResultFails
<1>6. ASSUME NEW sid \in Sids,
             \/ \E found \in BOOLEAN : ResultWakes(sid, found)
             \/ ResultSaved(sid) \/ ResultRaises(sid)
      PROVE  SamePublic
  BY <1>a, <1>b, <1>5, <1>6 DEF ResultWakes, ResultSaved, ResultRaises, session_vars
<1>7. ASSUME NEW sid \in Sids, NEW irk \in Irks \cup {NoIrk}, NEW found \in BOOLEAN,
             ResultMessage(sid, irk, found)
      PROVE  FALSE
  BY <1>a, <1>5, <1>7 DEF ResultMessage, ResultFails
<1>8. ASSUME \/ \E sid \in Sids : OrphanMessage(sid)
             \/ \E c \in Clients, reply \in {"success", "refused"} :
                  RemovalResultMessage(c, reply)
             \/ \E r \in Receivers : ObserverOnline(r) \/ ObserverOffline(r)
      PROVE  SamePublic
  BY <1>b, <1>8 DEF OrphanMessage, RemovalResultMessage, ObserverOnline, ObserverOffline,
              session_vars
<1>9. ASSUME NEW state, NEW code, NEW attempt, NEW completion, NEW irk, NEW left,
             StatusMessage(state, code, attempt, completion, irk, left)
      PROVE  state = "complete"
  <2> DEFINE shown == ShownAfterStatus(state, Leased(session, code, attempt, completion))
  <2>1. shown.state = state
    BY DEF ShownAfterStatus, Shown
  <2>2. public' = shown \/ public' = [shown EXCEPT !.repair = session.sid]
    BY <1>9 DEF StatusMessage
  <2>3. [shown EXCEPT !.repair = session.sid].state = state
    BY DEF ShownAfterStatus, Shown
  <2> HIDE DEF shown
  <2> QED
    BY <2>1, <2>2, <2>3
<1>10. ~Restart
  BY DEF Restart, IdlePublic
<1>11. Tick => SamePublic
  BY <1>0 DEF Tick, SamePublic, PublicRecords
<1>12. \A c \in Clients : ForgetSaved(c) => public.identity # call[c].irk
  BY <1>1
<1> QED
  BY <1>2, <1>3, <1>4, <1>6, <1>7, <1>8, <1>9, <1>10, <1>11, <1>12
  DEF Next, ReceiverMessage, ResultStep, TerminalStates

CompleteInv ==
  /\ public.state = "complete" => public.identity \in Irks
  /\ CompleteIsEnrolled

LEMMA CompleteInvStep ==
  ASSUME Inv, StoreInv, TaskInv, CompleteInv, [Next]_vars
  PROVE  CompleteInv'
<1>0. /\ call \in [Clients -> CallRecords] /\ ram \in Stores
      /\ ram.owner \in [Irks -> Owners] /\ NoTarget \notin Targets
  BY AbsentAssumption DEF Inv, TypeOK, Stores
<1>1. CASE UNCHANGED vars
  BY <1>1 DEF vars, session_vars, store_vars, call_vars, CompleteInv, CompleteIsEnrolled, Pc
<1>2. CASE Next /\ public'.state # "complete"
  BY <1>2 DEF CompleteInv, CompleteIsEnrolled
<1>3. ASSUME NEW sid \in Sids, IsCurrent(sid), result[sid].pc = "publish",
             public'.identity = result[sid].irk, UNCHANGED <<ram, call>>
      PROVE  CompleteInv'
  <2>1. result[sid].irk \in Irks /\ ram.owner[result[sid].irk] = session.target
        /\ session.target \in Targets
    BY <1>3 DEF TaskInv, IsCurrent, Inv, ResultInv, TypeOK, SessionRecords
  <2> QED
    BY <1>0, <1>3, <2>1 DEF CompleteInv, CompleteIsEnrolled
<1>4. ASSUME Next, public.state = "complete", SamePublic, ~Restart,
             \A c \in Clients : ForgetSaved(c) => public.identity # call[c].irk
      PROVE  CompleteInv'
  <2> DEFINE irk == public.identity
             Gone(c) == Pc(c)' = "forget_save" /\ call'[c].irk = irk
  <2>1. irk \in Irks /\ public'.identity = irk
    BY <1>4 DEF CompleteInv, SamePublic
  <2>2. ram'.owner[irk] # NoTarget \/ \E c \in Clients : Gone(c)
    <3>1. ASSUME NEW c \in Clients, Pc(c) = "forget_save", call[c].irk = irk
          PROVE  ram'.owner[irk] # NoTarget \/ Gone(c)
      <4>1. CASE SameRow(c)
        BY <3>1, <4>1 DEF SameRow, Pc
      <4>2. CASE ForgetSaveFails(c)
        <5>1. call[c].row \in Targets
          BY <3>1, RemovalAlone DEF StoreInv, RowInv, RemovalPcs
        <5> QED
          BY <1>0, <2>1, <3>1, <4>2, <5>1 DEF ForgetSaveFails, Stores
      <4> QED
        BY <1>4, <3>1, <4>1, <4>2, RowStep
    <3>2. ASSUME ram.owner[irk] # NoTarget
          PROVE  ram'.owner[irk] # NoTarget \/ \E c \in Clients : Gone(c)
      <4>1. ASSUME NEW sid \in Sids, NEW key \in Irks, Committed(sid, key)
            PROVE  ram'.owner[irk] # NoTarget
        <5>1. session.target \in Targets
          BY <4>1 DEF Committed, IsCurrent, Inv, TypeOK, SessionRecords
        <5> QED
          BY <1>0, <2>1, <3>2, <4>1, <5>1 DEF Committed
      <4>2. ASSUME NEW c \in Clients, RemovalConfirmed(c)
            PROVE  ram'.owner = ram.owner
        BY <1>0, <4>2 DEF RemovalConfirmed, Stores
      <4>3. ASSUME NEW c \in Clients, ResetSaved(c), call[c].row # NoTarget
            PROVE  ram'.owner[irk] # NoTarget \/ Gone(c)
        <5>1. ram'.owner = [ram.owner EXCEPT ![call[c].irk] = NoTarget]
          BY <1>0, <4>3 DEF ResetSaved, Stores
        <5>2. Pc(c)' = "forget_save" /\ call'[c].irk = call[c].irk
          BY <1>0, <4>3 DEF ResetSaved, CallRecords, Pc
        <5> QED
          BY <1>0, <2>1, <3>2, <5>1, <5>2
      <4>4. ASSUME NEW c \in Clients, ForgetSaveFails(c)
            PROVE  ram'.owner[irk] # NoTarget
        <5>1. call[c].row \in Targets
          BY <4>4, RemovalAlone DEF ForgetSaveFails, StoreInv, RowInv, RemovalPcs
        <5> QED
          BY <1>0, <2>1, <3>2, <4>4, <5>1 DEF ForgetSaveFails, Stores
      <4>5. ASSUME \/ \E sid \in Sids : ResultSaved(sid)
                   \/ \E c \in Clients :
                        ForgetSaved(c) \/ (ResetSaved(c) /\ call[c].row = NoTarget)
            PROVE  ram' = ram
        BY <4>5 DEF ResultSaved, ForgetSaved, ResetSaved
      <4> HIDE DEF irk, Gone
      <4> QED
        BY <1>4, <3>2, <4>1, <4>2, <4>3, <4>4, <4>5, StoreStep
    <3> QED
      BY <1>4, <3>1, <3>2 DEF CompleteInv, CompleteIsEnrolled
  <2> QED
    BY <1>4, <2>1, <2>2 DEF CompleteInv, CompleteIsEnrolled, SamePublic
<1>5. ASSUME Next, public'.state = "complete", SamePublic
      PROVE  public.state = "complete"
  BY <1>5 DEF SamePublic
<1> QED
  BY <1>1, <1>2, <1>3, <1>4, <1>5, CompleteStep

\* "complete" on the panel is a phone that is enrolled, unless it is being removed
\* just now: a removal, its rollback and a restart take it off (_set_pairing_state,
\* _async_forget_identity).
THEOREM CompleteEnrolled == Spec => []CompleteIsEnrolled
<1>1. Init => CompleteInv
  BY DEF Init, Fresh, CompleteInv, CompleteIsEnrolled, IdlePublic
<1>2. Inv /\ StoreInv /\ TaskInv /\ CompleteInv /\ [Next]_vars => CompleteInv'
  BY CompleteInvStep
<1>3. CompleteInv => CompleteIsEnrolled
  BY DEF CompleteInv
<1> QED
  BY <1>1, <1>2, <1>3, Invariance, StoreInvariance, TaskInvariance, PTL DEF Spec

=============================================================================
