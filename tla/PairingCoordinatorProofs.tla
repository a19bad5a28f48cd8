----------------------- MODULE PairingCoordinatorProofs -----------------------
(***************************************************************************)
(* Theorems about PairingCoordinator, for every set of clients, people,    *)
(* receivers and phones and every value of the bounds: its types and lock, *)
(* the leases of its session, and what the panel shows of it.              *)
(***************************************************************************)
EXTENDS PairingCoordinator, TLAPS

\* A coroutine that works under the pairing lock is the one that holds it.
LockInv == \A c \in Clients : Pc(c) \in LockedPcs => Holds(c)

\* What a coroutine knows where it is suspended.
CallInv(c) ==
  /\ Pc(c) = "queue" /\ call[c].op = "start" => call[c].target \in Targets
  /\ Pc(c) = "queue" /\ call[c].op = "remove" => call[c].irk \in Irks
  /\ Pc(c) \in {"start_cancel", "start_key"}
       => call[c].target \in Targets /\ nextSid <= MaxSessions
  /\ Pc(c) = "start_key" => session = NoSession
  /\ Pc(c) \in {"start_qr", "start_publish"} => call[c].sid \in Sids
  /\ Pc(c) \in RemovalPcs
       => call[c].target \in Targets /\ call[c].irk \in Irks /\ session = NoSession

\* A result task works on the key of a phone.
ResultInv == \A sid \in Sids : result[sid].pc # "none" => result[sid].irk \in Irks

Inv == TypeOK /\ LockInv /\ (\A c \in Clients : CallInv(c)) /\ ResultInv

-----------------------------------------------------------------------------
(* Lemmas about the operators                                              *)

LEMMA TimersFacts ==
  /\ \A t \in Timers : Less(t) \in Timers
  /\ \A d \in Int : BoundedLease(d) \in Timers
  /\ \A x, y \in Timers : Earliest(x, y) \in Timers
  /\ {Unset, 0, InviteTTL, LeaseTTL} \subseteq Timers
  /\ 1 .. OfferTTL \subseteq Timers
BY CoordinatorAssumption DEF Timers, Less, BoundedLease, Earliest, Unset

LEMMA DeadlineType == \A s \in SessionRecords : Deadline(s) \in Timers
BY DEF SessionRecords, Deadline

LEMMA IdleCallType == IdleCall \in CallRecords
BY TimersFacts DEF IdleCall, CallRecords, ClientPcs, Owners

LEMMA LeasedType ==
  ASSUME NEW s \in SessionRecords, NEW code, NEW a \in Int, NEW b \in Int
  PROVE  Leased(s, code, a, b) \in SessionRecords
<1>1. AttemptAfter(s, code, a) \in Timers
  BY TimersFacts DEF AttemptAfter, SessionRecords
<1>2. \A t \in Timers : CompletionAfter(s, code, b, t) \in Timers
  BY TimersFacts DEF CompletionAfter, SessionRecords
<1> QED
  BY <1>1, <1>2 DEF Leased, SessionRecords

LEMMA ShownType ==
  ASSUME public \in PublicRecords, NEW state \in PublicStates
  PROVE  Shown(state) \in PublicRecords
BY TimersFacts DEF Shown, PublicRecords

-----------------------------------------------------------------------------
(* The invariant                                                           *)

LEMMA InitInv == Init => Inv
<1> SUFFICES ASSUME Init PROVE Inv
  OBVIOUS
<1> USE DEF Init, Fresh
<1>1. TypeOK
  <2>1. public \in PublicRecords
    BY TimersFacts DEF IdlePublic, PublicRecords, PublicStates
  <2>2. call \in [Clients -> CallRecords]
    BY IdleCallType
  <2>3. refresh \in RefreshRecords
    BY DEF Asleep, RefreshRecords
  <2>4. result \in [Sids -> ResultRecords]
    BY CoordinatorAssumption DEF NoResult, ResultRecords
  <2> QED
    BY <2>1, <2>2, <2>3, <2>4, StoreAssumption, CoordinatorAssumption DEF TypeOK
<1>2. LockInv /\ (\A c \in Clients : CallInv(c))
  BY DEF LockInv, CallInv, Pc, IdleCall, LockedPcs, StartPcs, RemovalPcs
<1>3. ResultInv
  BY DEF ResultInv, NoResult
<1> QED
  BY <1>1, <1>2, <1>3 DEF Inv

\* Whatever the holder of the lock does to the session, no other coroutine relies
\* on it: none of them is past the lock.
LEMMA HolderStep ==
  ASSUME Inv, NEW c \in Clients, Holds(c),
         \A d \in Clients \ {c} : call'[d] = call[d],
         CallInv(c)',
         \/ queue' = queue
         \/ queue' = Tail(queue) /\ Pc(c)' \notin LockedPcs
  PROVE  LockInv' /\ (\A d \in Clients : CallInv(d)')
<1>1. \A d \in Clients \ {c} : Pc(d) \notin LockedPcs
  BY DEF Inv, LockInv, Holds
<1>2. LockInv'
  BY <1>1 DEF LockInv, Pc, Holds
<1>3. \A d \in Clients \ {c} : CallInv(d)'
  BY <1>1 DEF Inv, CallInv, Pc, LockedPcs, StartPcs, RemovalPcs
<1> QED
  BY <1>2, <1>3

\* The holder of the lock ends its coroutine.
LEMMA ReturnStep ==
  ASSUME Inv, NEW c \in Clients, Holds(c), Return(c)
  PROVE  /\ call' \in [Clients -> CallRecords] /\ queue' \in Seq(Clients)
         /\ LockInv' /\ (\A d \in Clients : CallInv(d)')
<1>1. /\ call' \in [Clients -> CallRecords] /\ queue' \in Seq(Clients)
      /\ call'[c] = IdleCall
      /\ \A d \in Clients \ {c} : call'[d] = call[d]
      /\ queue' = Tail(queue)
  BY IdleCallType DEF Inv, TypeOK, Return, Holds
<1>2. CallInv(c)' /\ Pc(c)' \notin LockedPcs
  BY <1>1 DEF CallInv, Pc, IdleCall, LockedPcs, StartPcs, RemovalPcs
<1> QED
  BY <1>1, <1>2, HolderStep

\* The coroutine of a removal or a repair, and what its exception shows.
LEMMA RaiseStep ==
  ASSUME Inv, NEW c \in Clients, Holds(c), Raise(c)
  PROVE  /\ call' \in [Clients -> CallRecords] /\ queue' \in Seq(Clients)
         /\ public' \in PublicRecords /\ UNCHANGED <<session, offer, nextSid>>
         /\ LockInv' /\ (\A d \in Clients : CallInv(d)')
<1>1. Shown("error") \in PublicRecords
  BY ShownType DEF Inv, TypeOK, PublicStates, TerminalStates
<1> QED
  BY <1>1, ReturnStep DEF Raise, Inv, TypeOK

\* The holder of the lock is suspended at its next await.
LEMMA SuspendStep ==
  ASSUME Inv, NEW c \in Clients, Holds(c), NEW r \in CallRecords,
         call' = [call EXCEPT ![c] = r], queue' = queue,
         r.pc \in {"start_cancel", "start_key"}
           => r.target \in Targets /\ nextSid' <= MaxSessions,
         r.pc \in RemovalPcs \cup {"start_key"} => session' = NoSession,
         r.pc \in RemovalPcs => r.target \in Targets /\ r.irk \in Irks,
         r.pc \in {"start_qr", "start_publish"} => r.sid \in Sids,
         r.pc \in LockedPcs
  PROVE  /\ call' \in [Clients -> CallRecords] /\ queue' \in Seq(Clients)
         /\ LockInv' /\ (\A d \in Clients : CallInv(d)')
<1>1. /\ call' \in [Clients -> CallRecords]
      /\ call'[c] = r
      /\ \A d \in Clients \ {c} : call'[d] = call[d]
  BY DEF Inv, TypeOK
<1>2. CallInv(c)'
  BY <1>1 DEF CallInv, Pc, LockedPcs, StartPcs, RemovalPcs
<1> QED
  BY <1>1, <1>2, HolderStep DEF Inv, TypeOK

\* A start or a repair whose target is known prepares a session.
LEMMA PrepareStep ==
  ASSUME Inv, NEW c \in Clients, Holds(c), call[c].target \in Targets,
         nextSid <= MaxSessions, NEW shown \in PublicRecords, PrepareSession(c, shown)
  PROVE  /\ session' = NoSession /\ public' \in PublicRecords /\ offer' = NoOffer
         /\ nextSid' = nextSid
         /\ call' \in [Clients -> CallRecords] /\ queue' \in Seq(Clients)
         /\ LockInv' /\ (\A d \in Clients : CallInv(d)')
<1> DEFINE r == [IdleCall EXCEPT !.op = call[c].op, !.pc = "start_key",
                                !.target = call[c].target, !.left = InviteTTL]
<1>1. r \in CallRecords
  BY IdleCallType, TimersFacts DEF Inv, TypeOK, CallRecords, ClientPcs, LockedPcs, StartPcs, Owners
<1>2. r.pc = "start_key" /\ r.target = call[c].target
  BY DEF IdleCall
<1>3. call' = [call EXCEPT ![c] = r] /\ UNCHANGED <<nextSid, queue>>
      /\ session' = NoSession /\ public' = shown /\ offer' = NoOffer
  BY DEF PrepareSession
<1> HIDE DEF r
<1>4. /\ call' \in [Clients -> CallRecords] /\ queue' \in Seq(Clients)
      /\ LockInv' /\ (\A d \in Clients : CallInv(d)')
  BY <1>1, <1>2, <1>3, SuspendStep DEF LockedPcs, StartPcs, RemovalPcs
<1> QED
  BY <1>3, <1>4

\* A coroutine without the lock may end a session, never begin one.
LEMMA OutsiderStep ==
  ASSUME Inv, UNCHANGED <<queue, call, nextSid>>, session = NoSession => session' = NoSession
  PROVE  LockInv' /\ (\A d \in Clients : CallInv(d)')
BY DEF Inv, LockInv, Holds, CallInv, Pc

\* Nor does its own progress disturb the one that holds it.
LEMMA OutsiderCallStep ==
  ASSUME Inv, NEW c \in Clients, Pc(c) \notin LockedPcs, NEW r \in CallRecords,
         call' = [call EXCEPT ![c] = r], r.pc \in {"idle", "cancel_publish"},
         UNCHANGED <<queue, nextSid>>, session = NoSession => session' = NoSession
  PROVE  /\ call' \in [Clients -> CallRecords]
         /\ LockInv' /\ (\A d \in Clients : CallInv(d)')
<1>1. /\ call' \in [Clients -> CallRecords]
      /\ call'[c] = r
      /\ \A d \in Clients \ {c} : call'[d] = call[d]
  BY DEF Inv, TypeOK
<1>2. LockInv'
  BY <1>1 DEF Inv, LockInv, Pc, Holds, LockedPcs, StartPcs, RemovalPcs
<1>3. CallInv(c)'
  BY <1>1 DEF CallInv, Pc, RemovalPcs
<1>4. \A d \in Clients \ {c} : CallInv(d)'
  BY <1>1 DEF Inv, CallInv, Pc
<1> QED
  BY <1>1, <1>2, <1>3, <1>4

-----------------------------------------------------------------------------
(* Each step preserves the invariant                                       *)

LEMMA StartStep ==
  ASSUME Inv, NEW c \in Clients,
         \/ StartRefused(c) \/ StartReplaces(c) \/ StartCancelled(c) \/ StartKeyReady(c)
         \/ StartQrReady(c) \/ StartPublished(c) \/ PublishRaises(c)
  PROVE  Inv'
<1> USE DEF Inv, TypeOK
<1>0. /\ Pc(c) \in LockedPcs => Holds(c)
      /\ CallInv(c) /\ call[c] \in CallRecords
  BY DEF LockInv
<1>1. CASE StartRefused(c)
  <2>1. Holds(c) /\ Return(c)
    BY <1>1 DEF StartRefused, Entering
  <2> QED
    BY <1>1, <2>1, ReturnStep DEF StartRefused, session_vars, store_vars, ResultInv
<1>2. CASE StartReplaces(c)
  <2>1. Holds(c) /\ call[c].target \in Targets /\ nextSid <= MaxSessions
    BY <1>0, <1>2 DEF StartReplaces, Entering, CanStart, CallInv
  <2>2. CASE session = NoSession
    <3>1. ShownAfterCancel \in PublicRecords /\ PrepareSession(c, ShownAfterCancel)
      BY <1>2, <2>2, ShownType DEF StartReplaces, ShownAfterCancel, PublicStates, TerminalStates
    <3> QED
      BY <1>2, <2>1, <3>1, PrepareStep DEF StartReplaces, store_vars, ResultInv
  <2>3. CASE session # NoSession
    <3> DEFINE r == [call[c] EXCEPT !.pc = "start_cancel"]
    <3>1. call' = [call EXCEPT ![c] = r] /\ queue' = queue /\ UNCHANGED session_vars
      BY <1>2, <2>3 DEF StartReplaces, Suspend
    <3>2. r \in CallRecords /\ r.pc = "start_cancel" /\ r.target = call[c].target
      BY <1>0 DEF CallRecords, ClientPcs, LockedPcs, StartPcs
    <3> HIDE DEF r
    <3>3. /\ call' \in [Clients -> CallRecords] /\ queue' \in Seq(Clients)
          /\ LockInv' /\ (\A d \in Clients : CallInv(d)')
      BY <2>1, <3>1, <3>2, SuspendStep DEF LockedPcs, StartPcs, RemovalPcs, session_vars
    <3> QED
      BY <1>2, <3>1, <3>3 DEF StartReplaces, session_vars, store_vars, ResultInv
  <2> QED
    BY <2>2, <2>3
<1>3. CASE StartCancelled(c)
  <2>1. Holds(c) /\ call[c].target \in Targets /\ nextSid <= MaxSessions
    BY <1>0, <1>3 DEF StartCancelled, CallInv, LockedPcs, StartPcs
  <2>2. ShownAfterCancel \in PublicRecords /\ PrepareSession(c, ShownAfterCancel)
    BY <1>3, ShownType DEF StartCancelled, ShownAfterCancel, PublicStates, TerminalStates
  <2> QED
    BY <1>3, <2>1, <2>2, PrepareStep DEF StartCancelled, store_vars, ResultInv
<1>4. CASE StartKeyReady(c)
  <2> DEFINE r == [call[c] EXCEPT !.pc = "start_qr", !.sid = nextSid]
  <2>1. Holds(c) /\ call[c].target \in Targets /\ nextSid \in Sids
    BY <1>0, <1>4, CoordinatorAssumption DEF StartKeyReady, CallInv, LockedPcs, StartPcs, Sids
  <2>2. r \in CallRecords /\ r.pc = "start_qr" /\ r.sid = nextSid
    BY <1>0, <2>1 DEF CallRecords, ClientPcs, LockedPcs, StartPcs
  <2>3. call' = [call EXCEPT ![c] = r] /\ queue' = queue
    BY <1>4 DEF StartKeyReady
  <2>4. session' \in SessionRecords
    BY <1>0, <1>4, <2>1, TimersFacts, CoordinatorAssumption
    DEF StartKeyReady, SessionRecords, CallRecords
  <2>5. nextSid' \in 1 .. MaxSessions + 1
    BY <1>4, <2>1, CoordinatorAssumption DEF StartKeyReady, Sids
  <2> HIDE DEF r
  <2>6. /\ call' \in [Clients -> CallRecords] /\ queue' \in Seq(Clients)
        /\ LockInv' /\ (\A d \in Clients : CallInv(d)')
    BY <2>1, <2>2, <2>3, SuspendStep DEF LockedPcs, StartPcs, RemovalPcs
  <2> QED
    BY <1>4, <2>4, <2>5, <2>6 DEF StartKeyReady, store_vars, ResultInv
<1>5. CASE StartQrReady(c)
  <2> DEFINE r == [IdleCall EXCEPT !.op = call[c].op, !.sid = call[c].sid, !.pc = "start_publish"]
  <2>1. Holds(c) /\ call[c].sid \in Sids
    BY <1>0, <1>5 DEF StartQrReady, CallInv, LockedPcs, StartPcs
  <2>2. r \in CallRecords /\ r.pc = "start_publish" /\ r.sid = call[c].sid
    BY <1>0, <2>1, IdleCallType DEF CallRecords, ClientPcs, LockedPcs, StartPcs, IdleCall
  <2>3. call' = [call EXCEPT ![c] = r] /\ queue' = queue
    BY <1>5 DEF StartQrReady, SuspendLast
  <2>4. public' \in PublicRecords
    <3>1. Shown("preparing") \in PublicRecords
      BY ShownType DEF PublicStates, ActiveStates
    <3> QED
      BY <1>0, <1>5, <3>1 DEF StartQrReady, PublicRecords, CallRecords
  <2>5. started' \subseteq Sids
    BY <1>5, <2>1 DEF StartQrReady
  <2> HIDE DEF r
  <2>6. /\ call' \in [Clients -> CallRecords] /\ queue' \in Seq(Clients)
        /\ LockInv' /\ (\A d \in Clients : CallInv(d)')
    BY <2>1, <2>2, <2>3, SuspendStep DEF LockedPcs, StartPcs, RemovalPcs
  <2> QED
    BY <1>5, <2>4, <2>5, <2>6 DEF StartQrReady, store_vars, ResultInv
<1>6. CASE StartPublished(c)
  <2>1. Holds(c) /\ Return(c)
    BY <1>0, <1>6 DEF StartPublished, LockedPcs, StartPcs
  <2> QED
    BY <1>6, <2>1, ReturnStep DEF StartPublished, session_vars, store_vars, ResultInv
<1>7. CASE PublishRaises(c)
  <2>1. Holds(c) /\ Raise(c)
    BY <1>0, <1>7 DEF PublishRaises, LockedPcs, StartPcs
  <2> QED
    BY <1>7, <2>1, RaiseStep DEF PublishRaises, store_vars, ResultInv
<1> QED
  BY <1>1, <1>2, <1>3, <1>4, <1>5, <1>6, <1>7

LEMMA CallStep ==
  ASSUME Inv, NEW c \in Clients, NewCall(c)
  PROVE  Inv'
<1> USE DEF Inv, TypeOK
<1>1. ASSUME NEW request \in CallRecords, CallLocked(c, request), request.pc = "queue",
             request.op = "start" => request.target \in Targets,
             request.op = "remove" => request.irk \in Irks
      PROVE  Inv'
  <2>1. /\ call' \in [Clients -> CallRecords] /\ call'[c] = request
        /\ \A d \in Clients \ {c} : call'[d] = call[d]
        /\ queue' = Append(queue, c) /\ queue' \in Seq(Clients)
        /\ UNCHANGED <<session, nextSid>>
    BY <1>1 DEF CallLocked, session_vars
  <2>2. \A d \in Clients : Holds(d) => Holds(d)'
    BY <2>1 DEF Holds
  <2>3. LockInv'
    BY <1>1, <2>1, <2>2 DEF LockInv, Pc, LockedPcs, StartPcs, RemovalPcs
  <2>4. \A d \in Clients : CallInv(d)'
    BY <1>1, <2>1 DEF CallInv, Pc, RemovalPcs
  <2> QED
    BY <1>1, <2>1, <2>3, <2>4 DEF CallLocked, session_vars, store_vars, ResultInv
<1>2. CASE \E target \in Targets, force \in BOOLEAN : CallStart(c, target, force)
  <2>1. PICK target \in Targets, force \in BOOLEAN : CallStart(c, target, force)
    BY <1>2
  <2> DEFINE request == [IdleCall EXCEPT !.op = "start", !.pc = "queue", !.target = target,
                                         !.force = force]
  <2>2. request \in CallRecords
    BY IdleCallType DEF CallRecords, ClientPcs, Owners
  <2>3. request.op = "start" /\ request.target \in Targets /\ request.pc = "queue"
    BY DEF IdleCall
  <2>4. CallLocked(c, request)
    BY <2>1 DEF CallStart
  <2> HIDE DEF request
  <2> QED
    BY <1>1, <2>2, <2>3, <2>4
<1>3. CASE \E irk \in Irks : CallRemove(c, irk)
  <2>1. PICK irk \in Irks : CallRemove(c, irk)
    BY <1>3
  <2> DEFINE request == [IdleCall EXCEPT !.op = "remove", !.pc = "queue", !.irk = irk]
  <2>2. request \in CallRecords
    BY IdleCallType DEF CallRecords, ClientPcs, Owners
  <2>3. request.op = "remove" /\ request.irk \in Irks /\ request.pc = "queue"
    BY DEF IdleCall
  <2>4. CallLocked(c, request)
    BY <2>1 DEF CallRemove
  <2> HIDE DEF request
  <2> QED
    BY <1>1, <2>2, <2>3, <2>4
<1>4. CASE \E sid \in Sids : CallRepair(c, sid)
  <2>1. PICK sid \in Sids : CallRepair(c, sid)
    BY <1>4
  <2> DEFINE request == [IdleCall EXCEPT !.op = "repair", !.pc = "queue", !.sid = sid]
  <2>2. request \in CallRecords
    BY IdleCallType DEF CallRecords, ClientPcs, Owners
  <2>3. request.op = "repair" /\ request.pc = "queue"
    BY DEF IdleCall
  <2>4. CallLocked(c, request)
    BY <2>1 DEF CallRepair
  <2> HIDE DEF request
  <2> QED
    BY <1>1, <2>2, <2>3, <2>4
<1>5. CASE CallCancel(c)
  <2>1. Pc(c) \notin LockedPcs
    BY <1>5 DEF CallCancel, LockedPcs, StartPcs, RemovalPcs
  <2>2. CASE session = NoSession
    <3>1. ShownAfterCancel \in PublicRecords
      BY ShownType DEF ShownAfterCancel, PublicStates, TerminalStates
    <3>2. UNCHANGED <<queue, call, nextSid>> /\ session' = NoSession
      BY <1>5, <2>2 DEF CallCancel, DropSession
    <3> QED
      BY <1>5, <2>2, <3>1, <3>2, OutsiderStep DEF CallCancel, DropSession, store_vars, ResultInv
  <2>3. CASE session # NoSession
    <3> DEFINE r == [IdleCall EXCEPT !.op = "cancel", !.sid = session.sid,
                                     !.pc = "cancel_publish"]
    <3>1. r \in CallRecords /\ r.pc = "cancel_publish"
      BY <2>3, IdleCallType DEF CallRecords, ClientPcs, SessionRecords, IdleCall
    <3>2. call' = [call EXCEPT ![c] = r] /\ UNCHANGED <<queue, session_vars>>
      BY <1>5, <2>3 DEF CallCancel, SuspendLast
    <3> HIDE DEF r
    <3>3. /\ call' \in [Clients -> CallRecords]
          /\ LockInv' /\ (\A d \in Clients : CallInv(d)')
      BY <2>1, <3>1, <3>2, OutsiderCallStep DEF session_vars
    <3> QED
      BY <1>5, <3>2, <3>3 DEF CallCancel, session_vars, store_vars, ResultInv
  <2> QED
    BY <2>2, <2>3
<1> QED
  BY <1>2, <1>3, <1>4, <1>5 DEF NewCall

LEMMA CancelStep ==
  ASSUME Inv, NEW c \in Clients, CancelPublished(c)
  PROVE  Inv'
<1> USE DEF Inv, TypeOK
<1>1. Pc(c) \notin LockedPcs
  BY DEF CancelPublished, LockedPcs, StartPcs, RemovalPcs
<1>2. ShownAfterCancel \in PublicRecords
  BY ShownType DEF ShownAfterCancel, PublicStates, TerminalStates
<1>3. /\ call' = [call EXCEPT ![c] = IdleCall] /\ UNCHANGED <<queue, nextSid, offer>>
      /\ session' \in {session, NoSession} /\ public' \in {public, ShownAfterCancel}
  BY DEF CancelPublished, DropSession, session_vars
<1>4. IdleCall.pc = "idle"
  BY DEF IdleCall
<1>5. /\ call' \in [Clients -> CallRecords]
      /\ LockInv' /\ (\A d \in Clients : CallInv(d)')
  BY <1>1, <1>3, <1>4, IdleCallType, OutsiderCallStep
<1> QED
  BY <1>2, <1>3, <1>5 DEF CancelPublished, store_vars, ResultInv

LEMMA LoopStep ==
  ASSUME Inv, RefreshStep
  PROVE  Inv'
<1> USE DEF Inv, TypeOK
<1>1. UNCHANGED <<queue, call, nextSid, offer>> /\ session' \in {session, NoSession}
  BY DEF RefreshStep, RefreshExpires, RefreshTimesOut, RefreshDies, DropSession,
         session_vars, call_vars
<1>2. LockInv' /\ (\A d \in Clients : CallInv(d)')
  BY <1>1, OutsiderStep
<1>3. Shown("timeout") \in PublicRecords
  BY ShownType DEF PublicStates, TerminalStates
<1>4. public' \in PublicRecords /\ refresh' \in RefreshRecords
  BY <1>3 DEF RefreshStep, RefreshExpires, RefreshTimesOut, RefreshDies, DropSession,
              session_vars, RefreshRecords, Asleep, SessionRecords
<1> QED
  BY <1>1, <1>2, <1>4 DEF RefreshStep, RefreshExpires, RefreshTimesOut, RefreshDies,
                          store_vars, ResultInv

LEMMA StatusStep ==
  ASSUME Inv, NEW state \in PublicStates, NEW code, NEW attempt \in Int,
         NEW completion \in Int, NEW irk \in Irks \cup {NoIrk}, NEW left \in Timers,
         StatusMessage(state, code, attempt, completion, irk, left)
  PROVE  Inv'
<1> USE DEF Inv, TypeOK
<1> DEFINE leased == Leased(session, code, attempt, completion)
<1>1. session \in SessionRecords /\ UNCHANGED <<queue, call, nextSid>>
  BY DEF StatusMessage, call_vars
<1>2. leased \in SessionRecords
  BY <1>1, LeasedType
<1>3. session' \in {NoSession, leased}
  BY DEF StatusMessage
<1>4. LockInv' /\ (\A d \in Clients : CallInv(d)')
  BY <1>1, OutsiderStep DEF StatusMessage
<1>5. ShownAfterStatus(state, leased) \in PublicRecords
  <2>1. Shown(state) \in PublicRecords /\ Deadline(leased) \in Timers
    BY <1>2, ShownType, DeadlineType
  <2> HIDE DEF leased
  <2> QED
    BY <2>1 DEF ShownAfterStatus, PublicRecords
<1>6. session.sid \in Sids /\ session.target \in Targets
  BY <1>1 DEF SessionRecords
<1>7. public' \in PublicRecords
  <2> HIDE DEF leased
  <2>1. public' \in {ShownAfterStatus(state, leased),
                     [ShownAfterStatus(state, leased) EXCEPT !.repair = session.sid]}
    BY DEF StatusMessage, leased
  <2> QED
    BY <1>5, <1>6, <2>1 DEF PublicRecords
<1>8. offer' \in OfferRecords \cup {NoOffer}
  BY <1>6 DEF StatusMessage, OfferRecords, AcceptsOffer
<1>9. online' \subseteq Receivers
  BY <1>6 DEF StatusMessage, Targets
<1> QED
  BY <1>1, <1>2, <1>3, <1>4, <1>7, <1>8, <1>9 DEF StatusMessage, store_vars, ResultInv

LEMMA ObserverStep ==
  ASSUME Inv,
         \/ \E sid \in Sids : OrphanMessage(sid)
         \/ \E r \in Receivers : ObserverOnline(r) \/ ObserverOffline(r)
  PROVE  Inv'
<1> USE DEF Inv, TypeOK
<1>1. UNCHANGED <<session_vars, call_vars, store_vars, refresh, result, started>>
      /\ orphans' \subseteq Sids /\ online' \subseteq Receivers
  BY DEF OrphanMessage, ObserverOnline, ObserverOffline
<1>2. LockInv' /\ (\A d \in Clients : CallInv(d)')
  BY <1>1, OutsiderStep DEF session_vars, call_vars
<1> QED
  BY <1>1, <1>2 DEF session_vars, call_vars, store_vars, ResultInv

\* The task of one result moves on; the others do not.
LEMMA TaskUpdate ==
  ASSUME Inv, NEW sid \in Sids, NEW r \in ResultRecords, r.pc # "none" => r.irk \in Irks,
         result' = [result EXCEPT ![sid] = r]
  PROVE  result' \in [Sids -> ResultRecords] /\ ResultInv'
<1>1. result' \in [Sids -> ResultRecords]
  BY DEF Inv, TypeOK
<1>2. result'[sid] = r /\ \A other \in Sids \ {sid} : result'[other] = result[other]
  BY DEF Inv, TypeOK
<1> QED
  BY <1>1, <1>2 DEF Inv, ResultInv

LEMMA FinishStep ==
  ASSUME Inv, NEW sid \in Sids, FinishResult(sid)
  PROVE  result' \in [Sids -> ResultRecords] /\ ResultInv'
<1>1. NoResult \in ResultRecords /\ NoResult.pc = "none"
  BY CoordinatorAssumption DEF NoResult, ResultRecords
<1> QED
  BY <1>1, TaskUpdate DEF FinishResult

LEMMA VerifyStep ==
  ASSUME Inv, NEW sid \in Sids, NEW irk \in Irks, NEW tries \in 0 .. VerifyTries,
         NEW found \in BOOLEAN, NEW shown \in PublicRecords, session # NoSession,
         Verify(sid, irk, tries, found, shown)
  PROVE  /\ session' \in SessionRecords \cup {NoSession} /\ public' \in PublicRecords
         /\ ram' \in Stores
         /\ result' \in [Sids -> ResultRecords] /\ ResultInv'
<1>1. CASE ResultFails(sid)
  <2>1. Shown("error") \in PublicRecords
    BY ShownType DEF Inv, TypeOK, PublicStates, TerminalStates
  <2> QED
    BY <1>1, <2>1, FinishStep DEF ResultFails, Inv, TypeOK
<1>2. CASE Commit(sid, irk, shown)
  <2> DEFINE r == [pc |-> "save", irk |-> irk, tries |-> 0]
  <2>1. r \in ResultRecords /\ r.irk \in Irks
    BY CoordinatorAssumption DEF ResultRecords
  <2>2. result' = [result EXCEPT ![sid] = r]
    BY <1>2 DEF Commit
  <2> HIDE DEF r
  <2>3. result' \in [Sids -> ResultRecords] /\ ResultInv'
    BY <2>1, <2>2, TaskUpdate
  <2>4. session' \in SessionRecords /\ public' \in PublicRecords
    BY <1>2 DEF Commit, Inv, TypeOK, SessionRecords
  <2>5. ram' \in Stores
    <3>1. session.target \in Owners
      BY DEF Inv, TypeOK, SessionRecords, Owners
    <3>2. ram.owner \in [Irks -> Owners] /\ ram.resets \subseteq Targets
      BY DEF Inv, TypeOK, Stores
    <3> QED
      BY <1>2, <3>1, <3>2 DEF Commit, Stores
  <2> QED
    BY <2>3, <2>4, <2>5
<1>3. CASE /\ tries # VerifyTries
           /\ result' = [result EXCEPT ![sid] = [pc |-> "verify", irk |-> irk,
                                                 tries |-> tries + 1]]
           /\ session' = [session EXCEPT !.processing = TRUE]
           /\ public' = shown
           /\ UNCHANGED ram
  <2> DEFINE r == [pc |-> "verify", irk |-> irk, tries |-> tries + 1]
  <2>1. r \in ResultRecords /\ r.irk \in Irks
    BY <1>3, CoordinatorAssumption DEF ResultRecords
  <2>2. result' = [result EXCEPT ![sid] = r]
    BY <1>3
  <2> HIDE DEF r
  <2>3. result' \in [Sids -> ResultRecords] /\ ResultInv'
    BY <2>1, <2>2, TaskUpdate
  <2>4. session' \in SessionRecords /\ public' \in PublicRecords
    BY <1>3 DEF Inv, TypeOK, SessionRecords
  <2> QED
    BY <1>3, <2>3, <2>4 DEF Inv, TypeOK
<1> QED
  BY <1>1, <1>2, <1>3 DEF Verify

LEMMA ResultMessageStep ==
  ASSUME Inv, NEW sid \in Sids, NEW irk \in Irks \cup {NoIrk}, NEW found \in BOOLEAN,
         ResultMessage(sid, irk, found)
  PROVE  Inv'
<1>1. session # NoSession /\ UNCHANGED <<offer, nextSid, orphans, disk, online, queue, call,
                                         refresh, started>>
  BY DEF ResultMessage, IsCurrent, call_vars
<1>2. LockInv' /\ (\A d \in Clients : CallInv(d)')
  BY <1>1, OutsiderStep
<1>3. Shown("error") \in PublicRecords /\ Shown("verifying") \in PublicRecords
  BY ShownType DEF Inv, TypeOK, PublicStates, TerminalStates, ActiveStates
<1>4. /\ session' \in SessionRecords \cup {NoSession} /\ public' \in PublicRecords
      /\ ram' \in Stores
      /\ result' \in [Sids -> ResultRecords] /\ ResultInv'
  <2>1. CASE irk = NoIrk
    BY <1>3, <2>1, FinishStep DEF ResultMessage, ResultFails, Inv, TypeOK
  <2>2. CASE irk # NoIrk
    BY <1>1, <1>3, <2>2, VerifyStep, CoordinatorAssumption DEF ResultMessage
  <2> QED
    BY <2>1, <2>2
<1> QED
  BY <1>1, <1>2, <1>4 DEF Inv, TypeOK

LEMMA TaskStep ==
  ASSUME Inv, NEW sid \in Sids, ResultStep(sid)
  PROVE  Inv'
<1>0. result[sid] \in ResultRecords /\ (result[sid].pc # "none" => result[sid].irk \in Irks)
  BY DEF Inv, TypeOK, ResultInv
<1>1. CASE \E found \in BOOLEAN : ResultWakes(sid, found)
  <2>1. PICK found \in BOOLEAN : ResultWakes(sid, found)
    BY <1>1
  <2>2. UNCHANGED <<offer, nextSid, orphans, disk, online, queue, call, refresh, started>>
        /\ result[sid].irk \in Irks /\ result[sid].tries \in 0 .. VerifyTries
    BY <1>0, <2>1 DEF ResultWakes, call_vars, ResultRecords
  <2>3. CASE IsCurrent(sid)
    <3>1. session # NoSession
          /\ Verify(sid, result[sid].irk, result[sid].tries, found, public)
      BY <2>1, <2>3 DEF ResultWakes, IsCurrent
    <3>2. LockInv' /\ (\A d \in Clients : CallInv(d)')
      BY <2>2, <3>1, OutsiderStep
    <3>3. public \in PublicRecords
      BY DEF Inv, TypeOK
    <3>4. /\ session' \in SessionRecords \cup {NoSession} /\ public' \in PublicRecords
          /\ ram' \in Stores
          /\ result' \in [Sids -> ResultRecords] /\ ResultInv'
      BY <2>2, <3>1, <3>3, VerifyStep
    <3> QED
      BY <2>2, <3>2, <3>4 DEF Inv, TypeOK
  <2>4. CASE ~IsCurrent(sid)
    <3>1. FinishResult(sid) /\ UNCHANGED <<session, public, ram>>
      BY <2>1, <2>4 DEF ResultWakes
    <3> QED
      BY <2>2, <3>1, FinishStep, OutsiderStep DEF Inv, TypeOK
  <2> QED
    BY <2>3, <2>4
<1>2. CASE ResultSaved(sid)
  <2> DEFINE r == [result[sid] EXCEPT !.pc = "publish"]
  <2>1. r \in ResultRecords /\ r.irk \in Irks
    BY <1>0, <1>2 DEF ResultSaved, ResultRecords
  <2>2. \/ result' = [result EXCEPT ![sid] = r]
        \/ FinishResult(sid)
    BY <1>2 DEF ResultSaved
  <2> HIDE DEF r
  <2>3. result' \in [Sids -> ResultRecords] /\ ResultInv'
    BY <2>1, <2>2, TaskUpdate, FinishStep
  <2> QED
    BY <1>2, <2>3, OutsiderStep DEF ResultSaved, session_vars, call_vars, Inv, TypeOK
<1>3. CASE ResultPublished(sid)
  <2>1. Shown("complete") \in PublicRecords
    BY ShownType DEF Inv, TypeOK, PublicStates
  <2>2. public' \in PublicRecords /\ session' \in {session, NoSession}
    BY <1>0, <1>3, <2>1 DEF ResultPublished, PublicRecords, Inv, TypeOK
  <2>3. UNCHANGED <<queue, call, nextSid>> /\ FinishResult(sid)
    BY <1>3 DEF ResultPublished, call_vars
  <2> QED
    BY <1>3, <2>2, <2>3, FinishStep, OutsiderStep DEF ResultPublished, store_vars, Inv, TypeOK
<1>4. CASE ResultRaises(sid)
  BY <1>4, FinishStep, OutsiderStep
  DEF ResultRaises, session_vars, store_vars, call_vars, Inv, TypeOK
<1> QED
  BY <1>1, <1>2, <1>3, <1>4 DEF ResultStep

\* A coroutine that removes a bond is suspended again, with r for its record.
LEMMA RemovalSuspendStep ==
  ASSUME Inv, NEW c \in Clients, Holds(c), NEW r \in CallRecords, r.pc \in RemovalPcs,
         r.target \in Targets, r.irk \in Irks, session' = NoSession,
         call' = [call EXCEPT ![c] = r], queue' = queue
  PROVE  /\ call' \in [Clients -> CallRecords] /\ queue' \in Seq(Clients)
         /\ LockInv' /\ (\A d \in Clients : CallInv(d)')
<1>1. r.pc \in LockedPcs /\ r.pc \notin StartPcs
  BY DEF LockedPcs, RemovalPcs, StartPcs
<1> QED
  BY <1>1, SuspendStep DEF StartPcs

LEMMA AfterRepairStep ==
  ASSUME Inv, NEW c \in Clients, Holds(c), call[c].target \in Targets,
         NEW shown \in PublicRecords, session = NoSession, StartAfterRepair(c, shown)
  PROVE  /\ session' = NoSession /\ public' \in PublicRecords /\ offer' \in {offer, NoOffer}
         /\ nextSid' = nextSid
         /\ call' \in [Clients -> CallRecords] /\ queue' \in Seq(Clients)
         /\ LockInv' /\ (\A d \in Clients : CallInv(d)')
<1>1. Shown("cancelled") \in PublicRecords /\ Shown("error") \in PublicRecords
  BY ShownType DEF Inv, TypeOK, PublicStates, TerminalStates
<1>2. CASE CanStart(call[c].target)
  BY <1>1, <1>2, PrepareStep DEF StartAfterRepair, CanStart
<1>3. CASE ~CanStart(call[c].target)
  BY <1>1, <1>3, ReturnStep DEF StartAfterRepair
<1> QED
  BY <1>2, <1>3

LEMMA RemovalStep ==
  ASSUME Inv, NEW c \in Clients,
         \/ RemovalRefused(c) \/ RemoveRequests(c) \/ RepairRequests(c)
         \/ RemovalConfirmed(c) \/ RemovalRaises(c) \/ ResetSaved(c)
         \/ ForgetSaved(c) \/ ForgetSaveFails(c)
  PROVE  Inv'
<1> USE DEF Inv, TypeOK
<1>0. /\ Pc(c) \in LockedPcs => Holds(c)
      /\ CallInv(c) /\ call[c] \in CallRecords
      /\ RemovalPcs \subseteq LockedPcs /\ LockedPcs \subseteq ClientPcs
  BY DEF LockInv, LockedPcs, ClientPcs
<1>s. ram.owner \in [Irks -> Owners] /\ ram.resets \subseteq Targets
  BY DEF Stores
<1>1. CASE RemovalRefused(c)
  <2>1. Holds(c) /\ Return(c)
    BY <1>1 DEF RemovalRefused, Entering
  <2> QED
    BY <1>1, <2>1, ReturnStep DEF RemovalRefused, session_vars, store_vars, ResultInv
<1>2. CASE RemoveRequests(c)
  <2> DEFINE owner == ram.owner[call[c].irk]
             r == [call[c] EXCEPT !.pc = "request", !.target = owner, !.row = owner]
  <2>1. Holds(c) /\ session = NoSession /\ call[c].irk \in Irks
    BY <1>0, <1>2 DEF RemoveRequests, Entering, CanRemove, CallInv
  <2>2. owner \in Targets
    BY <1>2, <1>s, <2>1 DEF RemoveRequests, CanRemove, Owners
  <2>3. r \in CallRecords /\ r.pc \in RemovalPcs /\ r.target \in Targets /\ r.irk \in Irks
    <3> HIDE DEF owner
    <3> QED
      BY <1>0, <2>1, <2>2 DEF CallRecords, RemovalPcs, Owners
  <2>4. call' = [call EXCEPT ![c] = r] /\ UNCHANGED <<queue, session_vars>>
    BY <1>2 DEF RemoveRequests
  <2> HIDE DEF r
  <2>5. /\ call' \in [Clients -> CallRecords] /\ queue' \in Seq(Clients)
        /\ LockInv' /\ (\A d \in Clients : CallInv(d)')
    BY <2>1, <2>3, <2>4, RemovalSuspendStep DEF session_vars
  <2> QED
    BY <1>2, <2>5 DEF RemoveRequests, session_vars, store_vars, ResultInv
<1>3. CASE RepairRequests(c)
  <2> DEFINE r == [call[c] EXCEPT !.pc = "request", !.target = offer.target,
                                  !.irk = offer.irk, !.row = ram.owner[offer.irk]]
  <2>1. Holds(c) /\ session = NoSession /\ offer \in OfferRecords
    BY <1>0, <1>3 DEF RepairRequests, Entering, CanRepair
  <2>2. offer.target \in Targets /\ offer.irk \in Irks /\ ram.owner[offer.irk] \in Owners
    BY <1>s, <2>1 DEF OfferRecords
  <2>3. r \in CallRecords /\ r.pc \in RemovalPcs /\ r.target \in Targets /\ r.irk \in Irks
    BY <1>0, <2>2 DEF CallRecords, RemovalPcs, Owners
  <2>4. call' = [call EXCEPT ![c] = r] /\ UNCHANGED <<queue, session, nextSid>>
        /\ offer' = NoOffer /\ public' = Shown("repairing")
    BY <1>3 DEF RepairRequests
  <2> HIDE DEF r
  <2>5. /\ call' \in [Clients -> CallRecords] /\ queue' \in Seq(Clients)
        /\ LockInv' /\ (\A d \in Clients : CallInv(d)')
    BY <2>1, <2>3, <2>4, RemovalSuspendStep
  <2>6. Shown("repairing") \in PublicRecords
    BY ShownType DEF PublicStates
  <2> QED
    BY <1>3, <2>4, <2>5, <2>6 DEF RepairRequests, store_vars, ResultInv
<1>4. CASE RemovalConfirmed(c)
  <2> DEFINE r == [call[c] EXCEPT !.pc = "reset_save"]
  <2>1. Holds(c) /\ session = NoSession /\ call[c].target \in Targets /\ call[c].irk \in Irks
    BY <1>0, <1>4 DEF RemovalConfirmed, CallInv, RemovalPcs
  <2>2. r \in CallRecords /\ r.pc \in RemovalPcs /\ r.target \in Targets /\ r.irk \in Irks
    BY <1>0, <2>1 DEF CallRecords, RemovalPcs
  <2>3. call' = [call EXCEPT ![c] = r] /\ UNCHANGED <<queue, session_vars>>
    BY <1>4 DEF RemovalConfirmed, Suspend
  <2> HIDE DEF r
  <2>4. /\ call' \in [Clients -> CallRecords] /\ queue' \in Seq(Clients)
        /\ LockInv' /\ (\A d \in Clients : CallInv(d)')
    BY <2>1, <2>2, <2>3, RemovalSuspendStep DEF session_vars
  <2>5. ram' \in Stores
    BY <1>4, <1>s, <2>1 DEF RemovalConfirmed, Stores
  <2> QED
    BY <1>4, <2>4, <2>5 DEF RemovalConfirmed, session_vars, ResultInv
<1>5. CASE RemovalRaises(c)
  <2>1. Holds(c) /\ Raise(c)
    BY <1>0, <1>5 DEF RemovalRaises, RemovalPcs
  <2> QED
    BY <1>5, <2>1, RaiseStep DEF RemovalRaises, store_vars, ResultInv
<1>6. CASE ResetSaved(c)
  <2>1. Holds(c) /\ session = NoSession /\ call[c].target \in Targets /\ call[c].irk \in Irks
    BY <1>0, <1>6 DEF ResetSaved, CallInv, RemovalPcs
  <2>2. CASE call[c].row # NoTarget
    <3> DEFINE r == [call[c] EXCEPT !.pc = "forget_save", !.row = ram.owner[call[c].irk]]
    <3>1. r \in CallRecords /\ r.pc \in RemovalPcs /\ r.target \in Targets /\ r.irk \in Irks
      BY <1>0, <1>s, <2>1 DEF CallRecords, RemovalPcs
    <3>2. call' = [call EXCEPT ![c] = r] /\ UNCHANGED <<queue, session_vars>>
      BY <1>6, <2>2 DEF ResetSaved
    <3> HIDE DEF r
    <3>3. /\ call' \in [Clients -> CallRecords] /\ queue' \in Seq(Clients)
          /\ LockInv' /\ (\A d \in Clients : CallInv(d)')
      BY <2>1, <3>1, <3>2, RemovalSuspendStep DEF session_vars
    <3>4. ram' \in Stores
      BY <1>6, <1>s, <2>1, <2>2 DEF ResetSaved, Stores, Owners
    <3> QED
      BY <1>6, <3>2, <3>3, <3>4 DEF ResetSaved, session_vars, ResultInv
  <2>3. CASE call[c].row = NoTarget
    BY <1>6, <2>1, <2>3, AfterRepairStep DEF ResetSaved, ResultInv
  <2> QED
    BY <2>2, <2>3
<1>7. CASE ForgetSaved(c)
  <2>1. Holds(c) /\ session = NoSession /\ call[c].target \in Targets
    BY <1>0, <1>7 DEF ForgetSaved, CallInv, RemovalPcs
  <2>2. ShownAfterForget(call[c].irk) \in PublicRecords
    BY ShownType DEF ShownAfterForget, PublicStates
  <2>3. CASE call[c].op = "repair"
    BY <1>7, <2>1, <2>2, <2>3, AfterRepairStep DEF ForgetSaved, ResultInv
  <2>4. CASE call[c].op # "repair"
    BY <1>7, <2>1, <2>2, <2>4, ReturnStep DEF ForgetSaved, ResultInv
  <2> QED
    BY <2>3, <2>4
<1>8. CASE ForgetSaveFails(c)
  <2>1. Holds(c) /\ Raise(c) /\ call[c].irk \in Irks /\ call[c].row \in Owners
    BY <1>0, <1>8 DEF ForgetSaveFails, CallInv, RemovalPcs, CallRecords
  <2>2. ram' \in Stores
    BY <1>8, <1>s, <2>1 DEF ForgetSaveFails, Stores
  <2> QED
    BY <1>8, <2>1, <2>2, RaiseStep DEF ForgetSaveFails, ResultInv
<1> QED
  BY <1>1, <1>2, <1>3, <1>4, <1>5, <1>6, <1>7, <1>8

LEMMA RemovalResultStep ==
  ASSUME Inv, NEW c \in Clients, NEW reply \in {"success", "refused"},
         RemovalResultMessage(c, reply)
  PROVE  Inv'
<1> USE DEF Inv, TypeOK
<1> DEFINE r == [call[c] EXCEPT !.reply = reply]
<1>1. /\ Holds(c) /\ session = NoSession /\ call[c].target \in Targets /\ call[c].irk \in Irks
      /\ call[c] \in CallRecords
  BY DEF RemovalResultMessage, LockInv, CallInv, LockedPcs, RemovalPcs
<1>2. r \in CallRecords /\ r.pc \in RemovalPcs /\ r.target \in Targets /\ r.irk \in Irks
  BY <1>1 DEF CallRecords, RemovalResultMessage, Pc, RemovalPcs
<1>3. call' = [call EXCEPT ![c] = r] /\ UNCHANGED <<queue, session_vars>>
  BY DEF RemovalResultMessage
<1> HIDE DEF r
<1>4. /\ call' \in [Clients -> CallRecords] /\ queue' \in Seq(Clients)
      /\ LockInv' /\ (\A d \in Clients : CallInv(d)')
  BY <1>1, <1>2, <1>3, RemovalSuspendStep DEF session_vars
<1> QED
  BY <1>3, <1>4 DEF RemovalResultMessage, session_vars, store_vars, ResultInv

LEMMA MessageStep ==
  ASSUME Inv, ReceiverMessage
  PROVE  Inv'
<1>1. LeaseTTL \in Int /\ NoLease \in Int /\ LeasePayloads \subseteq Int
  BY CoordinatorAssumption DEF NoLease
<1>2. 0 \in Timers /\ 1 .. OfferTTL \subseteq Timers
  BY TimersFacts
<1>3. TerminalStates \subseteq PublicStates /\ {"pairing", "error"} \subseteq PublicStates
  BY DEF PublicStates, TerminalStates, ActiveStates
<1>4. ASSUME NEW state \in PublicStates, NEW code, NEW attempt \in Int, NEW completion \in Int,
             NEW irk \in Irks \cup {NoIrk}, NEW left \in Timers,
             StatusMessage(state, code, attempt, completion, irk, left)
      PROVE  Inv'
  BY <1>4, StatusStep
<1>5. CASE \E code \in Codes, attempt, completion \in LeasePayloads :
             StatusMessage("pairing", code, attempt, completion, NoIrk, 0)
  BY <1>1, <1>2, <1>3, <1>4, <1>5
<1>6. CASE \E state \in TerminalStates, attempt \in {NoLease, LeaseTTL} :
             StatusMessage(state, "plain", attempt, NoLease, NoIrk, 0)
  BY <1>1, <1>2, <1>3, <1>4, <1>6
<1>7. CASE \E irk \in Irks \cup {NoIrk}, left \in 1 .. OfferTTL :
             StatusMessage("error", "unreachable", LeaseTTL, NoLease, irk, left)
  BY <1>1, <1>2, <1>3, <1>4, <1>7
<1> QED
  BY <1>5, <1>6, <1>7, ObserverStep, ResultMessageStep, RemovalResultStep DEF ReceiverMessage

LEMMA TickStep ==
  ASSUME Inv, Tick
  PROVE  Inv'
<1> USE DEF Inv, TypeOK
<1>1. session' \in SessionRecords \cup {NoSession}
  <2>1. CASE session = NoSession
    BY <2>1 DEF Tick
  <2>2. CASE session # NoSession
    <3>1. session \in SessionRecords
      BY <2>2
    <3>2. /\ Less(session.invite) \in Timers /\ Less(session.attempt) \in Timers
          /\ Less(session.completion) \in Timers
      BY <3>1, TimersFacts DEF SessionRecords
    <3>3. (IF session.age < CoalesceAge THEN session.age + 1 ELSE session.age)
            \in 0 .. CoalesceAge
      BY <3>1, CoordinatorAssumption DEF SessionRecords
    <3> QED
      BY <2>2, <3>1, <3>2, <3>3 DEF Tick, SessionRecords
  <2> QED
    BY <2>1, <2>2
<1>2. public' \in PublicRecords
  BY TimersFacts DEF Tick, PublicRecords
<1>3. offer' \in OfferRecords \cup {NoOffer}
  BY TimersFacts DEF Tick, OfferRecords
<1>4. call' \in [Clients -> CallRecords]
  <2>1. ASSUME NEW c \in Clients
        PROVE  [call[c] EXCEPT !.left = Less(@)] \in CallRecords
    <3>1. call[c] \in CallRecords /\ Less(call[c].left) \in Timers
      BY TimersFacts DEF CallRecords
    <3> QED
      BY <3>1 DEF CallRecords
  <2> QED
    BY <2>1 DEF Tick
<1>5. /\ \A c \in Clients : /\ call'[c].pc = call[c].pc /\ call'[c].op = call[c].op
                            /\ call'[c].target = call[c].target /\ call'[c].irk = call[c].irk
                            /\ call'[c].sid = call[c].sid
      /\ session = NoSession => session' = NoSession
      /\ UNCHANGED <<queue, nextSid>>
  BY DEF Tick, CallRecords
<1>6. LockInv' /\ (\A c \in Clients : CallInv(c)')
  BY <1>5 DEF LockInv, CallInv, Pc, Holds
<1> QED
  BY <1>1, <1>2, <1>3, <1>4, <1>6 DEF Tick, store_vars, ResultInv

LEMMA RestartStep ==
  ASSUME Inv, Restart
  PROVE  Inv'
<1> USE DEF Inv, TypeOK, Restart
<1>1. IdlePublic \in PublicRecords
  BY TimersFacts DEF IdlePublic, PublicRecords, PublicStates
<1>2. Asleep \in RefreshRecords /\ NoResult \in ResultRecords
  BY CoordinatorAssumption DEF Asleep, RefreshRecords, NoResult, ResultRecords
<1>3. LockInv' /\ (\A c \in Clients : CallInv(c)')
  BY DEF LockInv, CallInv, Pc, IdleCall, LockedPcs, StartPcs, RemovalPcs
<1>4. ResultInv'
  BY DEF ResultInv, NoResult
<1> QED
  BY <1>1, <1>2, <1>3, <1>4, IdleCallType

LEMMA NextInv ==
  ASSUME Inv, [Next]_vars
  PROVE  Inv'
<1>1. ASSUME NEW c \in Clients, ClientStep(c)
      PROVE  Inv'
  BY <1>1, StartStep, CancelStep, RemovalStep DEF ClientStep
<1>2. CASE UNCHANGED vars
  BY <1>2 DEF vars, session_vars, store_vars, call_vars, Inv, TypeOK, LockInv, CallInv,
              ResultInv, Pc, Holds
<1> QED
  BY <1>1, <1>2, CallStep, LoopStep, TaskStep, MessageStep, TickStep, RestartStep DEF Next

\* The inductive invariant holds in every behaviour.
THEOREM Invariance == Spec => []Inv
<1> QED
  BY InitInv, NextInv, PTL DEF Spec

\* Every variable of the coordinator keeps its type, in particular the queue of
\* the pairing lock and the session ids of its coroutines.
THEOREM TypeCorrect == Spec => []TypeOK
<1>1. Inv => TypeOK
  BY DEF Inv
<1> QED
  BY <1>1, Invariance, PTL

\* Between two awaits under the pairing lock, no other client is past the lock.
MutualExclusion ==
  \A c, d \in Clients : Pc(c) \in LockedPcs /\ Pc(d) \in LockedPcs => c = d

\* _pairing_lock excludes: start_pairing, remove_identity and repair_pairing never
\* overlap, whichever of their awaits raise and however often they are called.
THEOREM LockExcludes == Spec => []MutualExclusion
<1>1. Inv => MutualExclusion
  BY DEF Inv, LockInv, MutualExclusion, Holds
<1> QED
  BY <1>1, Invariance, PTL

\* No pairing session exists from the request of a bond removal to the last save
\* that follows it, although cancellations, results, statuses and the refresh loop
\* do not take the lock (async_remove_identity, async_repair_pairing).
THEOREM RemovalExcludesPairing == Spec => []NoPairingDuringRemoval
<1>1. Inv => NoPairingDuringRemoval
  BY DEF Inv, CallInv, NoPairingDuringRemoval
<1> QED
  BY <1>1, Invariance, PTL

-----------------------------------------------------------------------------
(* The leases                                                              *)

\* What one status does to the leases of its session.
LEMMA LeasedFacts ==
  ASSUME NEW s \in SessionRecords, NEW code, NEW a \in Int, NEW b \in Int
  PROVE  LET t == Leased(s, code, a, b) IN
         /\ t.sid = s.sid /\ t.target = s.target /\ t.processing = s.processing
         /\ t.invite = s.invite
         /\ Claimed(s) => Claimed(t) /\ Deadline(t) <= Deadline(s)
         /\ (s.attempt # Unset /\ s.completion # Unset => s.completion <= s.attempt)
              => (t.attempt # Unset /\ t.completion # Unset => t.completion <= t.attempt)
<1> DEFINE at == AttemptAfter(s, code, a)
           ct == CompletionAfter(s, code, b, at)
           t  == Leased(s, code, a, b)
<1>1. t = [s EXCEPT !.attempt = at, !.completion = ct]
  BY DEF Leased
<1>2. t.sid = s.sid /\ t.target = s.target /\ t.processing = s.processing
      /\ t.invite = s.invite /\ t.attempt = at /\ t.completion = ct
  BY <1>1 DEF SessionRecords
<1>3. s.attempt \in Timers /\ s.completion \in Timers /\ s.invite \in Timers
  BY DEF SessionRecords
<1>4. BoundedLease(a) \in Timers /\ BoundedLease(b) \in Timers /\ LeaseTTL \in Nat \ {0}
  BY TimersFacts, CoordinatorAssumption
<1>5. at \in Timers /\ (s.attempt # Unset => at # Unset /\ at <= s.attempt)
      /\ (s.completion # Unset => at = s.attempt)
  BY <1>3, <1>4, TimersFacts DEF AttemptAfter, Earliest, Timers, Unset
<1>6. /\ ct \in Timers
      /\ s.completion # Unset => ct # Unset /\ ct <= s.completion
      /\ s.completion = Unset /\ at # Unset /\ ct # Unset => ct <= at
  <2> DEFINE offered == IF BoundedLease(b) = Unset /\ code = "completion" /\ s.completion = Unset
                        THEN IF at # Unset THEN at ELSE LeaseTTL
                        ELSE BoundedLease(b)
  <2>1. offered \in Timers
    BY <1>4, <1>5, TimersFacts
  <2>2. ct = IF offered # Unset THEN Earliest(Earliest(offered, at), s.completion)
             ELSE s.completion
    BY DEF CompletionAfter
  <2> HIDE DEF offered, at, ct
  <2>3. \A x, y \in Timers : /\ Earliest(x, y) \in Timers
                             /\ y # Unset => Earliest(x, y) <= y
                             /\ x # Unset => Earliest(x, y) # Unset
                             /\ Earliest(x, y) <= x
    BY CoordinatorAssumption DEF Earliest, Timers, Unset
  <2>4. \A x \in Timers : x <= x
    BY CoordinatorAssumption DEF Timers, Unset
  <2>5. \A x, y, z \in Timers : x <= y /\ y <= z => x <= z
    BY CoordinatorAssumption DEF Timers, Unset
  <2> QED
    BY <1>3, <1>5, <2>1, <2>2, <2>3, <2>4, <2>5
<1> HIDE DEF at, ct, t
<1>7. Claimed(s) => Claimed(t) /\ Deadline(t) <= Deadline(s)
  BY <1>2, <1>3, <1>5, <1>6 DEF Claimed, Deadline, Timers, Unset
<1>8. (s.attempt # Unset /\ s.completion # Unset => s.completion <= s.attempt)
        => (t.attempt # Unset /\ t.completion # Unset => t.completion <= t.attempt)
  BY <1>2, <1>3, <1>5, <1>6 DEF Timers, Unset
<1> QED
  BY <1>2, <1>7, <1>8 DEF t

\* The statuses that receivers send.
LEMMA StatusCases ==
  ASSUME \/ \E code \in Codes, attempt, completion \in LeasePayloads :
              StatusMessage("pairing", code, attempt, completion, NoIrk, 0)
         \/ \E state \in TerminalStates, attempt \in {NoLease, LeaseTTL} :
              StatusMessage(state, "plain", attempt, NoLease, NoIrk, 0)
         \/ \E irk \in Irks \cup {NoIrk}, left \in 1 .. OfferTTL :
              StatusMessage("error", "unreachable", LeaseTTL, NoLease, irk, left)
  PROVE  \E state \in PublicStates \ {"idle"}, code \in Codes \cup {"plain", "unreachable"},
           attempt, completion \in Int, irk \in Irks \cup {NoIrk}, left \in Timers :
           StatusMessage(state, code, attempt, completion, irk, left)
<1>1. /\ LeaseTTL \in Int /\ NoLease \in Int /\ LeasePayloads \subseteq Int
      /\ 0 \in Timers /\ 1 .. OfferTTL \subseteq Timers
      /\ TerminalStates \subseteq PublicStates \ {"idle"}
      /\ {"pairing", "error"} \subseteq PublicStates \ {"idle"}
  BY TimersFacts, CoordinatorAssumption
  DEF NoLease, PublicStates, TerminalStates, ActiveStates
<1> QED
  BY <1>1

\* What becomes of the session in one step.
LEMMA SessionStep ==
  ASSUME Inv, Next
  PROVE  \/ session' \in {session, NoSession}
         \/ session # NoSession /\ session' = [session EXCEPT !.processing = TRUE]
         \/ Tick
         \/ \E state \in PublicStates \ {"idle"}, code \in Codes \cup {"plain", "unreachable"},
               attempt, completion \in Int, irk \in Irks \cup {NoIrk}, left \in Timers :
              StatusMessage(state, code, attempt, completion, irk, left)
         \/ \E c \in Clients : StartKeyReady(c)
<1>1. ASSUME NEW c \in Clients, ClientStep(c)
      PROVE  session' \in {session, NoSession} \/ StartKeyReady(c)
  <2>1. CASE \/ StartRefused(c) \/ StartReplaces(c) \/ StartCancelled(c) \/ StartQrReady(c)
             \/ StartPublished(c) \/ PublishRaises(c) \/ CancelPublished(c)
    BY <2>1 DEF StartRefused, StartReplaces, StartCancelled, StartQrReady, StartPublished,
                PublishRaises, Raise, CancelPublished, DropSession, PrepareSession, session_vars
  <2>2. CASE \/ RemovalRefused(c) \/ RemoveRequests(c) \/ RepairRequests(c)
             \/ RemovalConfirmed(c) \/ RemovalRaises(c) \/ ResetSaved(c)
             \/ ForgetSaved(c) \/ ForgetSaveFails(c)
    BY <2>2 DEF RemovalRefused, RemoveRequests, RepairRequests, RemovalConfirmed, RemovalRaises,
                ResetSaved, ForgetSaved, ForgetSaveFails, Raise, StartAfterRepair,
                PrepareSession, session_vars
  <2> QED
    BY <1>1, <2>1, <2>2 DEF ClientStep
<1>2. ASSUME NEW c \in Clients, NewCall(c)
      PROVE  session' \in {session, NoSession}
  BY <1>2 DEF NewCall, CallStart, CallRemove, CallRepair, CallLocked, CallCancel, DropSession,
              session_vars
<1>3. RefreshStep => session' \in {session, NoSession}
  BY DEF RefreshStep, RefreshExpires, RefreshTimesOut, RefreshDies, DropSession, session_vars
<1>4. ASSUME NEW sid \in Sids, ResultStep(sid) \/
               \E irk \in Irks \cup {NoIrk}, found \in BOOLEAN : ResultMessage(sid, irk, found)
      PROVE  \/ session' \in {session, NoSession}
             \/ session # NoSession /\ session' = [session EXCEPT !.processing = TRUE]
  BY <1>4 DEF ResultStep, ResultWakes, ResultSaved, ResultPublished, ResultRaises, ResultMessage,
              Verify, Commit, ResultFails, IsCurrent, session_vars
<1>5. ASSUME \/ \E sid \in Sids : OrphanMessage(sid)
             \/ \E c \in Clients, reply \in {"success", "refused"} :
                  RemovalResultMessage(c, reply)
             \/ \E r \in Receivers : ObserverOnline(r) \/ ObserverOffline(r)
      PROVE  session' = session
  BY <1>5 DEF OrphanMessage, RemovalResultMessage, ObserverOnline, ObserverOffline, session_vars
<1>6. Restart => session' = NoSession
  BY DEF Restart
<1> QED
  BY <1>1, <1>2, <1>3, <1>4, <1>5, <1>6, StatusCases DEF Next, ReceiverMessage

\* A session that goes on keeps its identity, and its deadlines only come closer.
LEMMA SurvivingSession ==
  ASSUME Inv, Next, session # NoSession, session' # NoSession
  PROVE  /\ session'.sid = session.sid /\ session'.target = session.target
         /\ session.processing => session'.processing
         /\ Claimed(session) => Claimed(session') /\ Deadline(session') <= Deadline(session)
         /\ CompletionWithinAttempt => CompletionWithinAttempt'
<1>1. session \in SessionRecords
  BY DEF Inv, TypeOK
<1>2. /\ session.invite \in Timers /\ session.attempt \in Timers
      /\ session.completion \in Timers
  BY <1>1 DEF SessionRecords
<1>3. CASE session' = session
  BY <1>2, <1>3 DEF CompletionWithinAttempt, Claimed, Deadline, Timers, Unset
<1>4. CASE session' = [session EXCEPT !.processing = TRUE]
  <2>1. /\ session'.sid = session.sid /\ session'.target = session.target
        /\ session'.processing = TRUE /\ session'.invite = session.invite
        /\ session'.attempt = session.attempt /\ session'.completion = session.completion
    BY <1>1, <1>4 DEF SessionRecords
  <2> QED
    BY <1>2, <2>1 DEF CompletionWithinAttempt, Claimed, Deadline, Timers, Unset
<1>5. CASE Tick
  <2>1. /\ session'.sid = session.sid /\ session'.target = session.target
        /\ session'.processing = session.processing
        /\ session'.invite = Less(session.invite) /\ session'.attempt = Less(session.attempt)
        /\ session'.completion = Less(session.completion)
    BY <1>1, <1>5 DEF Tick, SessionRecords
  <2>2. /\ \A t \in Timers : Less(t) <= t /\ (Less(t) = Unset <=> t = Unset)
        /\ \A t, u \in Timers : t <= u => Less(t) <= Less(u)
    BY CoordinatorAssumption DEF Less, Timers, Unset
  <2> QED
    BY <1>2, <2>1, <2>2 DEF CompletionWithinAttempt, Claimed, Deadline
<1>6. ASSUME NEW state \in PublicStates, NEW code, NEW attempt \in Int, NEW completion \in Int,
             NEW irk \in Irks \cup {NoIrk}, NEW left \in Timers,
             StatusMessage(state, code, attempt, completion, irk, left)
      PROVE  /\ session'.sid = session.sid /\ session'.target = session.target
             /\ session.processing => session'.processing
             /\ Claimed(session) => Claimed(session') /\ Deadline(session') <= Deadline(session)
             /\ CompletionWithinAttempt => CompletionWithinAttempt'
  <2>1. session' = Leased(session, code, attempt, completion)
    BY <1>6 DEF StatusMessage
  <2> QED
    BY <1>1, <2>1, LeasedFacts DEF CompletionWithinAttempt
<1>7. ASSUME NEW c \in Clients, StartKeyReady(c)
      PROVE  FALSE
  BY <1>7 DEF StartKeyReady, Inv, CallInv
<1> QED
  BY <1>3, <1>4, <1>5, <1>6, <1>7, SessionStep

\* A new session has no lease.
LEMMA NewSession ==
  ASSUME Inv, Next, session = NoSession, session' # NoSession
  PROVE  \E c \in Clients : StartKeyReady(c)
BY SessionStep DEF StatusMessage, Tick

\* A status may carry any expiry, and the phases of an attempt may be reported in
\* any order: the lease of the completion phase stays within that of the attempt
\* (_pairing_status_message).
THEOREM LeasesOrdered == Spec => []CompletionWithinAttempt
<1>1. Init => CompletionWithinAttempt
  BY DEF Init, Fresh, CompletionWithinAttempt
<1>2. ASSUME Inv, CompletionWithinAttempt, [Next]_vars
      PROVE  CompletionWithinAttempt'
  <2>1. CASE UNCHANGED vars
    BY <1>2, <2>1 DEF vars, session_vars, CompletionWithinAttempt
  <2>2. CASE Next /\ session' = NoSession
    BY <2>2 DEF CompletionWithinAttempt
  <2>3. CASE Next /\ session # NoSession /\ session' # NoSession
    BY <1>2, <2>3, SurvivingSession
  <2>4. CASE Next /\ session = NoSession /\ session' # NoSession
    <3>1. PICK c \in Clients : StartKeyReady(c)
      BY <1>2, <2>4, NewSession
    <3> QED
      BY <3>1 DEF StartKeyReady, CompletionWithinAttempt
  <2> QED
    BY <1>2, <2>1, <2>2, <2>3, <2>4
<1> QED
  BY <1>1, <1>2, Invariance, PTL DEF Spec

\* Once a phone has claimed a session, no status, in any order and any number of
\* times, moves its deadline away (_pairing_status_message).
THEOREM LeasesNeverRenewed == Spec => LeaseNeverRenewed
<1>1. ASSUME Inv, [Next]_vars
      PROVE  [session # NoSession /\ Claimed(session) /\ session' # NoSession
                /\ session'.sid = session.sid
              => Claimed(session') /\ Deadline(session') <= Deadline(session)]_vars
  BY <1>1, SurvivingSession
<1> QED
  BY <1>1, Invariance, PTL DEF Spec, LeaseNeverRenewed

-----------------------------------------------------------------------------
(* What the panel shows of the session                                     *)

\* Sessions are numbered in the order of their creation; a claim and a result
\* follow the command that starts their session.
HistoryInv ==
  /\ started \subseteq 1 .. (nextSid - 1)
  /\ session # NoSession => session.sid < nextSid
  /\ session # NoSession /\ Claimed(session) => session.sid \in started
  /\ \A sid \in Sids : result[sid].pc # "none" => sid \in started
  /\ \A c \in Clients : Pc(c) = "start_qr" => call[c].sid \in (1 .. (nextSid - 1)) \ started

\* A session whose QR code is being drawn has shown nothing yet and is not claimed.
StartInv(c) ==
  /\ Pc(c) \in {"start_key", "start_qr"} => public.effective = Unset
  /\ Pc(c) = "start_qr" /\ session # NoSession
       => session.sid = call[c].sid /\ ~Claimed(session) /\ session.invite = call[c].left

ShownInv ==
  /\ public.state = "idle" => public.effective = Unset
  /\ \A c \in Clients : StartInv(c)
  /\ ConsumedInvitationHidden
  /\ ShownDeadlineIsReal

\* Nothing that HistoryInv speaks of moves, the session apart.
NoStart ==
  /\ UNCHANGED <<started, nextSid>>
  /\ \A c \in Clients : Pc(c)' = "start_qr" => Pc(c) = "start_qr" /\ call'[c].sid = call[c].sid
  /\ \A sid \in Sids : result'[sid].pc # "none" => result[sid].pc # "none" \/ sid \in started

\* A coroutine of a client moves only itself.
LEMMA ClientFrame ==
  ASSUME Inv, NEW c \in Clients, ClientStep(c) \/ NewCall(c)
  PROVE  /\ \A d \in Clients \ {c} : call'[d] = call[d]
         /\ UNCHANGED result
         /\ \/ StartKeyReady(c) \/ StartQrReady(c)
            \/ UNCHANGED <<started, nextSid>> /\ call'[c].pc # "start_qr"
<1>0. call \in [Clients -> CallRecords]
  BY DEF Inv, TypeOK
<1> DEFINE Frame == /\ \A d \in Clients \ {c} : call'[d] = call[d]
                    /\ UNCHANGED <<started, nextSid, result>>
                    /\ call'[c].pc # "start_qr"
<1>a. ASSUME Return(c) PROVE (\A d \in Clients \ {c} : call'[d] = call[d]) /\ call'[c].pc = "idle"
  BY <1>0, <1>a DEF Return, IdleCall
<1>b. ASSUME NEW shown, PrepareSession(c, shown)
      PROVE (\A d \in Clients \ {c} : call'[d] = call[d]) /\ call'[c].pc = "start_key"
            /\ nextSid' = nextSid
  BY <1>0, <1>b DEF PrepareSession, IdleCall
<1>1. ASSUME StartRefused(c) PROVE Frame
  BY <1>a, <1>1 DEF StartRefused, session_vars
<1>2. ASSUME StartReplaces(c) PROVE Frame
  BY <1>0, <1>b, <1>2 DEF StartReplaces, session_vars, Suspend, CallRecords
<1>3. ASSUME StartCancelled(c) PROVE Frame
  BY <1>b, <1>3 DEF StartCancelled
<1>4. ASSUME RemovalRefused(c) PROVE Frame
  BY <1>a, <1>4 DEF RemovalRefused, session_vars
<1>5. ASSUME RemoveRequests(c) PROVE Frame
  BY <1>0, <1>5 DEF RemoveRequests, session_vars, CallRecords
<1>6. ASSUME RepairRequests(c) PROVE Frame
  BY <1>0, <1>6 DEF RepairRequests, session_vars, CallRecords
<1>7. ASSUME RemovalConfirmed(c) PROVE Frame
  BY <1>0, <1>7 DEF RemovalConfirmed, session_vars, CallRecords, Suspend
<1>8. ASSUME RemovalRaises(c) PROVE Frame
  BY <1>a, <1>8 DEF RemovalRaises, Raise
<1>9. ASSUME ResetSaved(c) PROVE Frame
  BY <1>0, <1>a, <1>b, <1>9 DEF ResetSaved, StartAfterRepair, session_vars, CallRecords
<1>10. ASSUME ForgetSaved(c) PROVE Frame
  BY <1>a, <1>b, <1>10 DEF ForgetSaved, StartAfterRepair
<1>11. ASSUME ForgetSaveFails(c) PROVE Frame
  BY <1>a, <1>11 DEF ForgetSaveFails, Raise
<1>12. ASSUME StartPublished(c) \/ PublishRaises(c) PROVE Frame
  BY <1>a, <1>12 DEF StartPublished, PublishRaises, Raise, session_vars
<1>13. ASSUME CancelPublished(c) PROVE Frame
  BY <1>0, <1>13 DEF CancelPublished, DropSession, IdleCall, session_vars
<1>14. ASSUME CallCancel(c) PROVE Frame
  BY <1>0, <1>14 DEF CallCancel, DropSession, SuspendLast, IdleCall, session_vars, Pc
<1>15. ASSUME NEW r, CallLocked(c, r), r.pc = "queue" PROVE Frame
  BY <1>0, <1>15 DEF CallLocked, session_vars
<1>16. ASSUME NEW target, NEW force, CallStart(c, target, force) PROVE Frame
  BY <1>15, <1>16 DEF CallStart, IdleCall
<1>17. ASSUME NEW irk, CallRemove(c, irk) PROVE Frame
  BY <1>15, <1>17 DEF CallRemove, IdleCall
<1>18. ASSUME NEW sid, CallRepair(c, sid) PROVE Frame
  BY <1>15, <1>18 DEF CallRepair, IdleCall
<1>19. ASSUME StartKeyReady(c) \/ StartQrReady(c)
       PROVE  (\A d \in Clients \ {c} : call'[d] = call[d]) /\ UNCHANGED result
  BY <1>0, <1>19 DEF StartKeyReady, StartQrReady, SuspendLast
<1> QED
  BY <1>1, <1>2, <1>3, <1>4, <1>5, <1>6, <1>7, <1>8, <1>9, <1>10, <1>11, <1>12, <1>13, <1>14,
     <1>16, <1>17, <1>18, <1>19 DEF ClientStep, NewCall

LEMMA NoStartStep ==
  ASSUME Inv, Next
  PROVE  NoStart \/ \E c \in Clients : StartKeyReady(c) \/ StartQrReady(c)
<1>0. call \in [Clients -> CallRecords] /\ result \in [Sids -> ResultRecords]
  BY DEF Inv, TypeOK
<1>1. ASSUME NEW c \in Clients, ClientStep(c) \/ NewCall(c)
      PROVE  \A d \in Clients \ {c} : call'[d] = call[d]
  BY <1>0, <1>1, ClientFrame
<1>2. ASSUME NEW c \in Clients, ClientStep(c) \/ NewCall(c)
      PROVE  NoStart \/ StartKeyReady(c) \/ StartQrReady(c)
  BY <1>0, <1>2, ClientFrame DEF NoStart, Pc
<1> USE DEF NoStart, Pc
<1>3. RefreshStep => NoStart
  BY DEF RefreshStep, RefreshExpires, RefreshTimesOut, RefreshDies, DropSession, session_vars,
         call_vars
<1>4. ASSUME NEW sid \in Sids, ResultStep(sid) \/
               \E irk \in Irks \cup {NoIrk}, found \in BOOLEAN : ResultMessage(sid, irk, found)
      PROVE  NoStart
  BY <1>0, <1>4 DEF ResultStep, ResultWakes, ResultSaved, ResultPublished, ResultRaises,
              ResultMessage, Verify, Commit, ResultFails, FinishResult, NoResult, Known,
              session_vars, call_vars, ResultRecords
<1>5. ASSUME \/ \E sid \in Sids : OrphanMessage(sid)
             \/ \E c \in Clients, reply \in {"success", "refused"} :
                  RemovalResultMessage(c, reply)
             \/ \E r \in Receivers : ObserverOnline(r) \/ ObserverOffline(r)
      PROVE  NoStart
  BY <1>0, <1>5 DEF OrphanMessage, RemovalResultMessage, ObserverOnline, ObserverOffline,
              session_vars, call_vars, CallRecords
<1>6. Restart \/ Tick => NoStart
  BY <1>0 DEF Restart, Tick, IdleCall, NoResult, CallRecords
<1>7. ASSUME NEW state, NEW code, NEW attempt, NEW completion, NEW irk, NEW left,
             StatusMessage(state, code, attempt, completion, irk, left)
      PROVE  NoStart
  BY <1>7 DEF StatusMessage, call_vars
<1> QED
  BY <1>2, <1>3, <1>4, <1>5, <1>6, <1>7 DEF Next, ReceiverMessage

LEMMA HistoryStep ==
  ASSUME Inv, HistoryInv, Next
  PROVE  HistoryInv'
<1> USE DEF Inv, TypeOK
<1>1. nextSid \in Nat /\ nextSid <= MaxSessions + 1 /\ MaxSessions \in Nat
  BY CoordinatorAssumption
<1>2. CASE NoStart
  <2>1. /\ started' \subseteq 1 .. (nextSid' - 1)
        /\ \A sid \in Sids : result'[sid].pc # "none" => sid \in started'
        /\ \A c \in Clients :
             Pc(c)' = "start_qr" => call'[c].sid \in (1 .. (nextSid' - 1)) \ started'
    BY <1>2 DEF NoStart, HistoryInv
  <2>2. CASE session' = NoSession
    BY <2>1, <2>2 DEF HistoryInv, Pc
  <2>3. CASE session = NoSession /\ session' # NoSession
    <3>1. PICK c \in Clients : StartKeyReady(c)
      BY <2>3, NewSession
    <3> QED
      BY <1>1, <1>2, <3>1 DEF StartKeyReady, NoStart
  <2>4. CASE session # NoSession /\ session' # NoSession
    <3>1. session'.sid = session.sid
      BY <2>4, SurvivingSession
    <3>2. Claimed(session') => Claimed(session) \/ session.sid \in started
      <4>1. CASE session' \in {session, [session EXCEPT !.processing = TRUE]}
        BY <2>4, <4>1 DEF Claimed, SessionRecords
      <4>2. CASE Tick
        <5>1. \A t \in Timers : Less(t) # Unset => t # Unset
          BY DEF Less, Timers, Unset
        <5> QED
          BY <2>4, <4>2, <5>1 DEF Tick, Claimed, SessionRecords
      <4>3. ASSUME NEW state, NEW code, NEW attempt, NEW completion, NEW irk, NEW left,
                   StatusMessage(state, code, attempt, completion, irk, left)
            PROVE  session.sid \in started
        BY <4>3 DEF StatusMessage, Known
      <4>4. ASSUME NEW c \in Clients, StartKeyReady(c)
            PROVE  FALSE
        BY <2>4, <4>4 DEF StartKeyReady, CallInv
      <4> QED
        BY <2>4, <4>1, <4>2, <4>3, <4>4, SessionStep
    <3> QED
      BY <1>2, <2>1, <2>4, <3>1, <3>2 DEF HistoryInv, NoStart, Pc
  <2> QED
    BY <2>2, <2>3, <2>4
<1>3. ASSUME NEW c \in Clients, StartKeyReady(c)
      PROVE  HistoryInv'
  <2>1. \A d \in Clients \ {c} : Pc(d) \notin LockedPcs /\ call'[d] = call[d]
    BY <1>3 DEF StartKeyReady, LockInv, Holds, LockedPcs, StartPcs
  <2>2. /\ nextSid' = nextSid + 1 /\ started' = started /\ result' = result
        /\ call'[c].sid = nextSid /\ session'.sid = nextSid /\ ~Claimed(session')
    BY <1>3 DEF StartKeyReady, Claimed, CallRecords
  <2> QED
    BY <1>1, <2>1, <2>2 DEF HistoryInv, Pc, LockedPcs, StartPcs
<1>4. ASSUME NEW c \in Clients, StartQrReady(c)
      PROVE  HistoryInv'
  <2>1. \A d \in Clients \ {c} : Pc(d) \notin LockedPcs /\ call'[d] = call[d]
    BY <1>4 DEF StartQrReady, SuspendLast, LockInv, Holds, LockedPcs, StartPcs
  <2>2. /\ UNCHANGED <<nextSid, session, result>> /\ started' = started \cup {call[c].sid}
        /\ call[c].sid \in 1 .. (nextSid - 1) /\ call'[c].pc = "start_publish"
    BY <1>4 DEF StartQrReady, SuspendLast, IdleCall, HistoryInv, CallRecords
  <2> QED
    BY <1>1, <2>1, <2>2 DEF HistoryInv, Pc, LockedPcs, StartPcs
<1> QED
  BY <1>2, <1>3, <1>4, NoStartStep

\* The public state takes over the invitation and the deadline or drops them.
PublicKept ==
  /\ public'.invitation \in {public.invitation, 0}
  /\ public'.effective \in {public.effective, Unset}
  /\ (public.state = "idle" => public.effective = Unset)
       => (public'.state = "idle" => public'.effective = Unset)

LEMMA ShownKept ==
  ASSUME NEW state, public' = Shown(state)
  PROVE  PublicKept /\ (state \notin ActiveStates => public'.effective = Unset)
BY DEF Shown, PublicKept, ActiveStates

LEMMA PublicStep ==
  ASSUME Inv, Next
  PROVE  \/ PublicKept
         \/ Tick
         \/ \E state \in PublicStates \ {"idle"}, code \in Codes \cup {"plain", "unreachable"},
               attempt, completion \in Int, irk \in Irks \cup {NoIrk}, left \in Timers :
              StatusMessage(state, code, attempt, completion, irk, left)
         \/ \E c \in Clients : StartQrReady(c)
<1>0. ASSUME public' = public
      PROVE  PublicKept
  BY <1>0 DEF PublicKept
<1>1. ASSUME public' = ShownAfterCancel
      PROVE  PublicKept
  BY <1>0, <1>1, ShownKept DEF ShownAfterCancel
<1>2. ASSUME NEW c \in Clients, ClientStep(c) \/ NewCall(c)
      PROVE  PublicKept \/ StartQrReady(c)
  <2>1. CASE \/ StartRefused(c) \/ StartReplaces(c) \/ StartCancelled(c) \/ StartKeyReady(c)
             \/ StartPublished(c) \/ PublishRaises(c)
    BY <1>0, <1>1, <2>1, ShownKept
    DEF StartRefused, StartReplaces, StartCancelled, StartKeyReady, StartPublished,
        PublishRaises, Raise, PrepareSession, session_vars
  <2>2. CASE CancelPublished(c)
    BY <1>0, <1>1, <2>2 DEF CancelPublished, DropSession, session_vars
  <2>3. CASE \/ RemovalRefused(c) \/ RemoveRequests(c) \/ RepairRequests(c)
             \/ RemovalConfirmed(c) \/ RemovalRaises(c) \/ ForgetSaveFails(c)
    BY <1>0, <2>3, ShownKept
    DEF RemovalRefused, RemoveRequests, RepairRequests, RemovalConfirmed, RemovalRaises,
        ForgetSaveFails, Raise, session_vars
  <2>4. ASSUME NEW shown, shown \in {public, Shown("idle")}, StartAfterRepair(c, shown)
        PROVE  PublicKept
    BY <1>0, <2>4, ShownKept DEF StartAfterRepair, PrepareSession
  <2>5. CASE ResetSaved(c) \/ ForgetSaved(c)
    BY <1>0, <2>4, <2>5, ShownKept DEF ResetSaved, ForgetSaved, ShownAfterForget, session_vars
  <2>6. CASE NewCall(c)
    BY <1>0, <1>1, <2>6 DEF NewCall, CallStart, CallRemove, CallRepair, CallLocked, CallCancel,
                DropSession, session_vars
  <2> QED
    BY <1>2, <2>1, <2>2, <2>3, <2>5, <2>6 DEF ClientStep
<1>3. RefreshStep => PublicKept
  BY <1>0, ShownKept
  DEF RefreshStep, RefreshExpires, RefreshTimesOut, RefreshDies, DropSession, session_vars
<1>4. ASSUME NEW sid \in Sids, ResultStep(sid) \/
               \E irk \in Irks \cup {NoIrk}, found \in BOOLEAN : ResultMessage(sid, irk, found)
      PROVE  PublicKept
  <2>1. ASSUME Shown("complete") \in PublicRecords,
               public' = [Shown("complete") EXCEPT !.identity = result[sid].irk]
        PROVE  PublicKept
    BY <2>1 DEF PublicKept, Shown, ActiveStates
  <2>2. Shown("complete") \in PublicRecords
    BY ShownType DEF Inv, TypeOK, PublicStates
  <2> QED
    BY <1>0, <1>4, <2>1, <2>2, ShownKept
    DEF ResultStep, ResultWakes, ResultSaved, ResultPublished, ResultRaises, ResultMessage,
        Verify, Commit, ResultFails, session_vars
<1>5. ASSUME \/ \E sid \in Sids : OrphanMessage(sid)
             \/ \E c \in Clients, reply \in {"success", "refused"} :
                  RemovalResultMessage(c, reply)
             \/ \E r \in Receivers : ObserverOnline(r) \/ ObserverOffline(r)
      PROVE  PublicKept
  BY <1>0, <1>5 DEF OrphanMessage, RemovalResultMessage, ObserverOnline, ObserverOffline,
              session_vars
<1>6. Restart => PublicKept
  BY DEF Restart, IdlePublic, PublicKept
<1> QED
  BY <1>2, <1>3, <1>4, <1>5, <1>6, StatusCases DEF Next, ReceiverMessage

\* The coroutine of c has reached the generation of the key of a new session.
Prepared(c) ==
  /\ Pc(c)' = "start_key" /\ session' = NoSession /\ offer' = NoOffer
  /\ \/ public' \in {Shown("cancelled"), Shown("idle")}
     \/ public.state = "idle" /\ public' = public

\* How a coroutine gets to the start of a session.
LEMMA StartFrame ==
  ASSUME Inv, Next, NEW c \in Clients, Pc(c)' \in {"start_key", "start_qr"}
  PROVE  Tick \/ call'[c] = call[c] \/ StartKeyReady(c) \/ Prepared(c)
<1>0. call \in [Clients -> CallRecords]
  BY DEF Inv, TypeOK
<1>1. CASE ClientStep(c)
  <2>1. ASSUME NEW shown, PrepareSession(c, shown)
        PROVE  /\ session' = NoSession /\ public' = shown /\ offer' = NoOffer
               /\ call'[c].pc = "start_key"
    BY <1>0, <2>1 DEF PrepareSession, IdleCall
  <2>2. ASSUME Return(c)
        PROVE  Pc(c)' = "idle"
    BY <1>0, <2>2 DEF Return, Pc, IdleCall
  <2>3. CASE StartRefused(c) \/ StartPublished(c) \/ PublishRaises(c) \/ RemovalRefused(c)
             \/ RemovalRaises(c) \/ ForgetSaveFails(c)
    BY <2>2, <2>3 DEF StartRefused, StartPublished, PublishRaises, RemovalRefused,
                RemovalRaises, ForgetSaveFails, Raise
  <2>4. CASE StartReplaces(c) \/ StartCancelled(c)
    <3>1. PrepareSession(c, ShownAfterCancel) \/ Pc(c)' = "start_cancel"
      BY <1>0, <2>4 DEF StartReplaces, StartCancelled, Suspend, Pc, CallRecords
    <3>2. CASE PrepareSession(c, ShownAfterCancel)
      BY <2>1, <3>2 DEF ShownAfterCancel, Prepared, Pc
    <3> QED
      BY <3>1, <3>2
  <2>5. CASE StartQrReady(c) \/ CancelPublished(c)
    <3>1. ASSUME SuspendLast(c, call[c].op, call[c].sid, "start_publish")
          PROVE  call'[c].pc = "start_publish"
      BY <1>0, <3>1 DEF SuspendLast, IdleCall
    <3>2. CancelPublished(c) => call'[c].pc = "idle"
      BY <1>0 DEF CancelPublished, IdleCall
    <3> QED
      BY <2>5, <3>1, <3>2 DEF Pc, StartQrReady
  <2>6. CASE RemoveRequests(c) \/ RepairRequests(c) \/ RemovalConfirmed(c)
    <3>1. RemoveRequests(c) => call'[c].pc = "request"
      BY <1>0 DEF RemoveRequests, CallRecords
    <3>2. RepairRequests(c) => call'[c].pc = "request"
      BY <1>0 DEF RepairRequests, CallRecords
    <3>3. RemovalConfirmed(c) => call'[c].pc = "reset_save"
      BY <1>0 DEF RemovalConfirmed, Suspend, CallRecords
    <3> QED
      BY <2>6, <3>1, <3>2, <3>3 DEF Pc
  <2>7. ASSUME NEW shown, shown \in {public, Shown("idle")}, StartAfterRepair(c, shown)
        PROVE  Pc(c)' = "idle" \/ Prepared(c)
    <3>1. \/ Return(c)
          \/ /\ session' = NoSession /\ offer' = NoOffer /\ call'[c].pc = "start_key"
             /\ public' = IF shown.state = "idle" THEN shown ELSE Shown("cancelled")
      BY <1>0, <2>7 DEF StartAfterRepair, PrepareSession, IdleCall
    <3> QED
      BY <2>2, <2>7, <3>1 DEF Prepared, Pc
  <2>8. CASE ResetSaved(c) \/ ForgetSaved(c)
    <3>1. ResetSaved(c) => StartAfterRepair(c, public) \/ call'[c].pc = "forget_save"
      BY <1>0 DEF ResetSaved, CallRecords
    <3>2. ForgetSaved(c) => StartAfterRepair(c, ShownAfterForget(call[c].irk)) \/ Return(c)
      BY DEF ForgetSaved
    <3>3. ShownAfterForget(call[c].irk) \in {public, Shown("idle")}
      BY DEF ShownAfterForget
    <3> QED
      BY <2>2, <2>7, <2>8, <3>1, <3>2, <3>3 DEF Pc
  <2> QED
    BY <1>1, <2>3, <2>4, <2>5, <2>6, <2>8 DEF ClientStep
<1>2. CASE NewCall(c)
  <2>1. ASSUME NEW request, CallLocked(c, request), request.pc = "queue"
        PROVE  Pc(c)' = "queue"
    BY <1>0, <2>1 DEF CallLocked, Pc
  <2>2. ASSUME CallCancel(c)
        PROVE  call'[c] = call[c] \/ Pc(c)' = "cancel_publish"
    <3>1. ASSUME SuspendLast(c, "cancel", session.sid, "cancel_publish")
          PROVE  Pc(c)' = "cancel_publish"
      BY <1>0, <3>1 DEF SuspendLast, IdleCall, Pc
    <3> QED
      BY <2>2, <3>1 DEF CallCancel
  <2>3. ASSUME NEW target, NEW force, CallStart(c, target, force) PROVE Pc(c)' = "queue"
    BY <2>1, <2>3 DEF CallStart, IdleCall
  <2>4. ASSUME NEW irk, CallRemove(c, irk) PROVE Pc(c)' = "queue"
    BY <2>1, <2>4 DEF CallRemove, IdleCall
  <2>5. ASSUME NEW sid, CallRepair(c, sid) PROVE Pc(c)' = "queue"
    BY <2>1, <2>5 DEF CallRepair, IdleCall
  <2> QED
    BY <1>2, <2>2, <2>3, <2>4, <2>5 DEF NewCall
<1>3. ASSUME NEW d \in Clients \ {c}, ClientStep(d) \/ NewCall(d)
      PROVE  call'[c] = call[c]
  BY <1>3, ClientFrame
<1>4. ASSUME \E d \in Clients, reply \in {"success", "refused"} : RemovalResultMessage(d, reply)
      PROVE  call'[c] = call[c]
  BY <1>0, <1>4 DEF RemovalResultMessage, Pc, CallRecords
<1>5. Restart => Pc(c)' = "idle"
  BY DEF Restart, Pc, IdleCall
<1>6. ASSUME \/ RefreshStep
             \/ \E sid \in Sids : ResultStep(sid) \/ OrphanMessage(sid)
             \/ \E sid \in Sids, irk \in Irks \cup {NoIrk}, found \in BOOLEAN :
                  ResultMessage(sid, irk, found)
             \/ \E r \in Receivers : ObserverOnline(r) \/ ObserverOffline(r)
      PROVE  call' = call
  BY <1>6 DEF RefreshStep, RefreshExpires, RefreshTimesOut, RefreshDies, ResultStep, ResultWakes,
              ResultSaved, ResultPublished, ResultRaises, OrphanMessage, ResultMessage,
              ObserverOnline, ObserverOffline, call_vars
<1>7. ASSUME NEW state, NEW code, NEW attempt, NEW completion, NEW irk, NEW left,
             StatusMessage(state, code, attempt, completion, irk, left)
      PROVE  call' = call
  BY <1>7 DEF StatusMessage, call_vars
<1> QED
  BY <1>1, <1>2, <1>3, <1>4, <1>5, <1>6, <1>7 DEF Next, ReceiverMessage

LEMMA ShownTick ==
  ASSUME Inv, ShownInv, Tick
  PROVE  ShownInv'
<1>0. /\ call \in [Clients -> CallRecords] /\ public \in PublicRecords
      /\ session \in SessionRecords \cup {NoSession}
  BY DEF Inv, TypeOK
<1>1. /\ Less(Unset) = Unset
      /\ \A t \in Timers : Less(t) = Unset <=> t = Unset
  BY CoordinatorAssumption DEF Less, Timers, Unset
<1>2. /\ public'.effective = Less(public.effective) /\ public.effective \in Timers
      /\ public'.invitation = public.invitation /\ public'.state = public.state
  BY <1>0 DEF Tick, PublicRecords
<1>3. \A c \in Clients : /\ call'[c].pc = call[c].pc /\ call'[c].sid = call[c].sid
                         /\ call'[c].left = Less(call[c].left)
  BY <1>0 DEF Tick, CallRecords
<1>4. ASSUME session # NoSession
      PROVE  /\ session'.sid = session.sid /\ session'.invite = Less(session.invite)
             /\ Claimed(session') = Claimed(session)
             /\ Deadline(session') = Less(Deadline(session))
  <2>1. session' = [session EXCEPT !.invite = Less(@), !.attempt = Less(@),
                      !.completion = Less(@), !.age = IF @ < CoalesceAge THEN @ + 1 ELSE @]
    BY <1>4 DEF Tick
  <2>2. /\ session'.sid = session.sid /\ session'.invite = Less(session.invite)
        /\ session'.attempt = Less(session.attempt)
        /\ session'.completion = Less(session.completion)
        /\ session.attempt \in Timers /\ session.completion \in Timers
    BY <1>0, <1>4, <2>1 DEF SessionRecords
  <2> QED
    BY <1>1, <2>2 DEF Claimed, Deadline
<1>5. session = NoSession => session' = NoSession
  BY DEF Tick
<1>6. \A c \in Clients : StartInv(c)'
  BY <1>1, <1>2, <1>3, <1>4, <1>5 DEF ShownInv, StartInv, Pc
<1>7. ConsumedInvitationHidden' /\ ShownDeadlineIsReal'
  BY <1>1, <1>2, <1>4, <1>5 DEF ShownInv, ConsumedInvitationHidden, ShownDeadlineIsReal
<1> QED
  BY <1>1, <1>2, <1>6, <1>7 DEF ShownInv

LEMMA ShownStatus ==
  ASSUME Inv, HistoryInv, ShownInv,
         NEW state \in PublicStates \ {"idle"}, NEW code, NEW attempt \in Int,
         NEW completion \in Int, NEW irk, NEW left,
         StatusMessage(state, code, attempt, completion, irk, left)
  PROVE  ShownInv'
<1> DEFINE leased == Leased(session, code, attempt, completion)
<1>1. /\ session # NoSession /\ session \in SessionRecords /\ session.sid \in started
      /\ session' \in {leased, NoSession} /\ call' = call
  BY DEF StatusMessage, Known, call_vars, Inv, TypeOK
<1>2. leased.sid = session.sid /\ leased.invite = session.invite
      /\ (Claimed(session) => Claimed(leased))
  BY <1>1, LeasedFacts
<1>3. /\ public'.state = state
      /\ public'.invitation = IF Claimed(leased) THEN 0 ELSE Shown(state).invitation
      /\ public'.effective = IF Claimed(leased) THEN Deadline(leased)
                             ELSE Shown(state).effective
  <2>1. public' = ShownAfterStatus(state, leased)
        \/ public' = [ShownAfterStatus(state, leased) EXCEPT !.repair = session.sid]
    BY DEF StatusMessage
  <2> HIDE DEF leased
  <2> QED
    BY <2>1 DEF ShownAfterStatus, Shown
<1> HIDE DEF leased
<1>4. ConsumedInvitationHidden'
  BY <1>1, <1>2, <1>3 DEF ConsumedInvitationHidden, SessionRecords, Sids
<1>5. ShownDeadlineIsReal'
  <2>1. CASE Claimed(leased)
    BY <1>1, <1>3, <2>1 DEF ShownDeadlineIsReal
  <2>2. CASE ~Claimed(leased)
    <3>1. ~Claimed(session) /\ Deadline(leased) = Deadline(session)
      BY <1>2, <2>2 DEF Claimed, Deadline
    <3>2. public'.effective \in {public.effective, Unset}
      BY <1>3, <2>2 DEF Shown
    <3> QED
      BY <1>1, <3>1, <3>2 DEF ShownInv, ShownDeadlineIsReal
  <2> QED
    BY <2>1, <2>2
<1>6. \A c \in Clients : Pc(c) \notin {"start_key", "start_qr"}
  BY <1>1 DEF Inv, CallInv, ShownInv, StartInv, HistoryInv
<1> QED
  BY <1>1, <1>3, <1>4, <1>5, <1>6 DEF ShownInv, StartInv, Pc

LEMMA ShownStep ==
  ASSUME Inv, HistoryInv, ShownInv, [Next]_vars
  PROVE  ShownInv'
<1>0. session \in SessionRecords \cup {NoSession} /\ call \in [Clients -> CallRecords]
  BY DEF Inv, TypeOK
<1>1. CASE UNCHANGED vars
  BY <1>1 DEF vars, session_vars, call_vars, ShownInv, StartInv, ConsumedInvitationHidden,
              ShownDeadlineIsReal, Pc
<1>2. CASE Tick
  BY <1>2, ShownTick
<1>3. ASSUME NEW state \in PublicStates \ {"idle"}, NEW code, NEW attempt \in Int,
             NEW completion \in Int, NEW irk, NEW left,
             StatusMessage(state, code, attempt, completion, irk, left)
      PROVE  ShownInv'
  BY <1>3, ShownStatus
<1>4. ASSUME NEW c \in Clients, StartKeyReady(c)
      PROVE  ShownInv'
  <2>1. \A d \in Clients \ {c} : Pc(d) \notin LockedPcs /\ call'[d] = call[d]
    BY <1>4 DEF StartKeyReady, Inv, LockInv, Holds, LockedPcs, StartPcs
  <2>2. /\ session'.sid = nextSid /\ ~Claimed(session') /\ session'.invite = call[c].left
        /\ public' = public /\ public.effective = Unset
    BY <1>4 DEF StartKeyReady, Claimed, ShownInv, StartInv
  <2>3. call'[c].sid = nextSid /\ call'[c].left = call[c].left
    BY <1>0, <1>4 DEF StartKeyReady, CallRecords
  <2> QED
    BY <2>1, <2>2, <2>3 DEF ShownInv, StartInv, ConsumedInvitationHidden,
                            ShownDeadlineIsReal, Pc, LockedPcs, StartPcs
<1>5. ASSUME NEW c \in Clients, StartQrReady(c)
      PROVE  ShownInv'
  <2>1. \A d \in Clients \ {c} : Pc(d) \notin LockedPcs /\ call'[d] = call[d]
    BY <1>5 DEF StartQrReady, SuspendLast, Inv, LockInv, Holds, LockedPcs, StartPcs
  <2>2. public'.state = "preparing" /\ public'.effective = call[c].left
    BY <1>5 DEF StartQrReady, Shown
  <2>3. /\ session' = session
        /\ session # NoSession => ~Claimed(session) /\ session.invite = call[c].left
    BY <1>5 DEF StartQrReady, ShownInv, StartInv
  <2>4. call'[c].pc = "start_publish"
    BY <1>0, <1>5 DEF StartQrReady, SuspendLast, IdleCall
  <2>5. \A d \in Clients : StartInv(d)'
    BY <2>1, <2>4 DEF StartInv, Pc, LockedPcs, StartPcs
  <2> QED
    BY <2>2, <2>3, <2>5 DEF ShownInv, ConsumedInvitationHidden, ShownDeadlineIsReal,
                            Claimed, Deadline
<1>6. CASE /\ Next /\ PublicKept /\ ~Tick
           /\ \A c \in Clients : ~StartKeyReady(c)
           /\ \/ session' \in {session, NoSession}
              \/ session # NoSession /\ session' = [session EXCEPT !.processing = TRUE]
  <2>1. session' # NoSession =>
          /\ session # NoSession /\ session'.sid = session.sid
          /\ session'.invite = session.invite /\ Claimed(session') = Claimed(session)
          /\ Deadline(session') = Deadline(session) /\ session.sid # 0
    BY <1>0, <1>6 DEF SessionRecords, Sids, Claimed, Deadline
  <2>2. /\ public'.invitation \in {public.invitation, 0}
        /\ public'.effective \in {public.effective, Unset}
        /\ public'.state = "idle" => public'.effective = Unset
    BY <1>6 DEF PublicKept, ShownInv
  <2>3. ConsumedInvitationHidden' /\ ShownDeadlineIsReal'
    BY <2>1, <2>2 DEF ShownInv, ConsumedInvitationHidden, ShownDeadlineIsReal
  <2>4. ASSUME NEW c \in Clients
        PROVE  StartInv(c)'
    <3>1. CASE Pc(c)' \notin {"start_key", "start_qr"}
      BY <3>1 DEF StartInv
    <3>2. CASE call'[c] = call[c]
      BY <2>1, <2>2, <3>2 DEF ShownInv, StartInv, Pc
    <3>3. CASE Prepared(c)
      BY <2>2, <3>3 DEF Prepared, Shown, ActiveStates, StartInv, ShownInv
    <3> QED
      BY <1>6, <3>1, <3>2, <3>3, StartFrame
  <2> QED
    BY <2>2, <2>3, <2>4 DEF ShownInv
<1> QED
  BY <1>1, <1>2, <1>3, <1>4, <1>5, <1>6, SessionStep, PublicStep

LEMMA ShownInvariance == Spec => [](HistoryInv /\ ShownInv)
<1>1. Init => HistoryInv /\ ShownInv
  BY DEF Init, Fresh, HistoryInv, ShownInv, StartInv, ConsumedInvitationHidden,
         ShownDeadlineIsReal, Pc, IdleCall, IdlePublic, NoResult
<1>2. HistoryInv /\ UNCHANGED vars => HistoryInv'
  BY DEF vars, session_vars, call_vars, HistoryInv, Claimed, Pc
<1>3. Inv /\ HistoryInv /\ ShownInv /\ [Next]_vars => (HistoryInv /\ ShownInv)'
  BY <1>2, HistoryStep, ShownStep
<1> QED
  BY <1>1, <1>3, Invariance, PTL DEF Spec

\* No message and no interleaving puts the QR code of a session that a phone has
\* claimed back on the panel (_pairing_status_message, _set_pairing_state).
THEOREM ConsumedInvitationsHidden == Spec => []ConsumedInvitationHidden
<1>1. ShownInv => ConsumedInvitationHidden
  BY DEF ShownInv
<1> QED
  BY <1>1, ShownInvariance, PTL

\* The countdown of the panel is the deadline that the refresh loop enforces,
\* whatever was shown before and whoever changes the session meanwhile
\* (_pairing_status_message, _start_pairing_locked).
THEOREM ShownDeadlinesReal == Spec => []ShownDeadlineIsReal
<1>1. ShownInv => ShownDeadlineIsReal
  BY DEF ShownInv
<1> QED
  BY <1>1, ShownInvariance, PTL

=============================================================================
