------------------------- MODULE PairingCoordinator -------------------------
(***************************************************************************)
(* The pairing half of the Home Assistant coordinator                      *)
(* (custom_components/presence_bridge/coordinator.py).                     *)
(*                                                                         *)
(* Everything runs on one asyncio thread.  A coroutine runs without        *)
(* interruption from one await to the next, so an action below is exactly  *)
(* one such segment: the state a coroutine is suspended in is its pc, the  *)
(* await it is suspended on.  Three kinds of coroutine interleave:         *)
(*   - calls of services and WebSocket commands (start_pairing,            *)
(*     cancel_pairing, remove_identity, repair_pairing), one per client;   *)
(*   - the five second refresh loop, which ends an expired session;        *)
(*   - one task per pairing result, which verifies and saves an identity.  *)
(* MQTT messages of the receivers and restarts of Home Assistant come from *)
(* the environment.                                                        *)
(*                                                                         *)
(* Deadlines are kept as the time that is left until them.  Tick lets one  *)
(* unit of time pass; a deadline at 0 has been reached and Unset is the    *)
(* missing dictionary key of the code.  A deadline that is fixed in the    *)
(* code therefore only decreases here.                                     *)
(***************************************************************************)
EXTENDS Integers, Sequences, FiniteSets

CONSTANTS
  Clients,         \* concurrent callers of services and WebSocket commands
  People,          \* person entities of Home Assistant
  Receivers,       \* observers with the app_pairing and identity_removal capabilities
  Irks,            \* identity resolving keys, i.e. phones; the identity id is a hash of the key
  NoIrk, NoSession, NoTarget, NoOffer,   \* absent values
  InitialStores,   \* what the store may hold at first
  Ops,             \* the calls each client makes
  Codes,           \* classes of detail_code in the statuses of a running attempt
  LeasePayloads,   \* deadlines the receivers put in a status, as the time left
  InviteTTL,       \* timeout_seconds of start_pairing
  LeaseTTL,        \* PAIRING_HANDOFF_TIMEOUT = PAIRING_COMPLETION_TIMEOUT (300 s)
  Grace,           \* how far in the past a leased deadline may lie (5 s)
  Skew,            \* how far beyond the maximum a leased deadline may lie (30 s)
  RenewMargin,     \* validity a session needs to be reused (10 s)
  CoalesceAge,     \* _FORCED_RENEWAL_COALESCE_SECONDS (30 s)
  OfferTTL,        \* lifetime of a bond repair offer (610 s)
  VerifyTries,     \* searches for a live advertisement of the bonded phone (20)
  PublishMayFail,  \* whether _async_publish may raise
  SaveMayFail,     \* whether Store.async_save may raise
  MaxSessions      \* bound of the model: sessions created in a behaviour

ASSUME CoordinatorAssumption ==
  /\ NoIrk \notin Irks
  /\ Ops \in [Clients -> SUBSET {"start", "cancel", "remove", "repair"}]
  /\ {InviteTTL, LeaseTTL, OfferTTL, VerifyTries, CoalesceAge, Grace} \subseteq Nat \ {0}
  /\ LeasePayloads \subseteq Int
  /\ Codes \subseteq {"plain", "handoff", "completion"}
  /\ {Skew, RenewMargin, MaxSessions} \subseteq Nat
  /\ {PublishMayFail, SaveMayFail} \subseteq BOOLEAN

VARIABLES
  session,   \* _pairing_session
  public,    \* pairing_public
  offer,     \* _bond_repair_offer
  orphans,   \* _orphan_pairing_cancels
  nextSid,   \* the session id the next session gets (random tokens in the code)
  ram,       \* memory: the owner of each identity and phone_bond_resets
  disk,      \* what the last completed write of the store holds
  online,    \* receivers whose ObserverState is online
  queue,     \* _pairing_lock: its holder, then its waiters in FIFO order
  call,      \* the coroutine of each client
  refresh,   \* the coroutine _async_periodic_refresh
  result,    \* the task _async_process_pairing_result of each session
  started    \* sessions whose start_app_pairing command was published

session_vars == <<session, public, offer, nextSid>>
store_vars   == <<ram, disk>>
call_vars    == <<queue, call>>
vars == <<session_vars, orphans, store_vars, online, call_vars, refresh, result, started>>

-----------------------------------------------------------------------------
(* Values                                                                  *)

Sids    == 1 .. MaxSessions
Unset   == -1
Timers  == Unset .. (InviteTTL + LeaseTTL + OfferTTL)
\* A phone is enrolled for a person by a receiver (person_entity_id, paired_by).
Targets == [person : People, receiver : Receivers]
Owners  == Targets \cup {NoTarget}
Stores  == [owner : [Irks -> Owners], resets : SUBSET Targets]

\* The states of _ACTIVE_PAIRING_STATES that a receiver reports are told apart
\* by nothing in the coordinator; "pairing" stands for them.
ActiveStates   == {"preparing", "pairing", "verifying"}
TerminalStates == {"cancelled", "timeout", "error"}
PublicStates   == ActiveStates \cup TerminalStates \cup {"idle", "repairing", "complete"}

SessionRecords ==
  [sid : Sids, target : Targets, invite : Timers, attempt : Timers,
   completion : Timers, age : 0 .. CoalesceAge, processing : BOOLEAN]

PublicRecords ==
  [state : PublicStates, invitation : Sids \cup {0}, effective : Timers,
   identity : Irks \cup {NoIrk}, repair : Sids \cup {0}]

OfferRecords == [sid : Sids, irk : Irks, target : Targets, left : Timers]

\* The awaits of a client's coroutine.
StartPcs   == {"start_cancel", "start_key", "start_qr", "start_publish"}
RemovalPcs == {"request", "reset_save", "forget_save"}
LockedPcs  == StartPcs \cup RemovalPcs
ClientPcs  == LockedPcs \cup {"idle", "queue", "cancel_publish"}

\* "sid" is the session of a repair offer, then the session being started; "row"
\* the identity being removed; "left" the time left of a session being started.
CallRecords ==
  [op : {"none", "start", "cancel", "remove", "repair"}, pc : ClientPcs,
   target : Owners, force : BOOLEAN, irk : Irks \cup {NoIrk}, row : Owners,
   sid : Sids \cup {0}, left : Timers, reply : {"none", "success", "refused"}]

IdleCall ==
  [op |-> "none", pc |-> "idle", target |-> NoTarget, force |-> FALSE, irk |-> NoIrk,
   row |-> NoTarget, sid |-> 0, left |-> Unset, reply |-> "none"]

ResultRecords ==
  [pc : {"none", "verify", "save", "publish"}, irk : Irks \cup {NoIrk}, tries : 0 .. VerifyTries]
NoResult == [pc |-> "none", irk |-> NoIrk, tries |-> 0]

RefreshRecords == [pc : {"asleep", "cancelling", "dead"}, sid : Sids \cup {0}]
Asleep == [pc |-> "asleep", sid |-> 0]

ASSUME StoreAssumption == InitialStores \subseteq Stores

ASSUME AbsentAssumption ==
  NoSession \notin SessionRecords /\ NoOffer \notin OfferRecords /\ NoTarget \notin Targets

-----------------------------------------------------------------------------
(* Deadlines and the public state                                          *)

\* _pairing_deadline: the completion lease, else the attempt lease, else the
\* expiry of the invitation.
Deadline(s) ==
  IF s.completion # Unset THEN s.completion
  ELSE IF s.attempt # Unset THEN s.attempt
  ELSE s.invite

\* _bounded_lease_deadline of a deadline d units away; Unset stands for None.
BoundedLease(d) ==
  IF -Grace < d /\ d <= LeaseTTL + Skew
  THEN IF d < 0 THEN 0 ELSE IF d > LeaseTTL THEN LeaseTTL ELSE d
  ELSE Unset

\* Mutant: the later of two deadlines.
Latest(x, y) == IF y = Unset \/ x >= y THEN x ELSE y

\* min(x, y or x)
Earliest(x, y) == IF y = Unset \/ x <= y THEN x ELSE y

\* _set_pairing_state without extras: an active state keeps the invitation and
\* the deadlines on show, any other state drops them.
Shown(state) ==
  [state      |-> state,
   invitation |-> IF state \in ActiveStates THEN public.invitation ELSE 0,
   effective  |-> IF state \in ActiveStates THEN public.effective ELSE Unset,
   identity   |-> NoIrk,
   repair     |-> 0]

\* The public state async_cancel_pairing leaves.
ShownAfterCancel == IF public.state = "idle" THEN public ELSE Shown("cancelled")

-----------------------------------------------------------------------------
(* The pairing lock and the coroutines of the clients                      *)

Holds(c) == queue # << >> /\ Head(queue) = c
Pc(c)    == call[c].pc

\* The coroutine of c ends, with a value or an exception, and releases the lock.
Return(c) ==
  /\ call' = [call EXCEPT ![c] = IdleCall]
  /\ queue' = Tail(queue)

\* Suspends c for the last time: only its session id is used again.
SuspendLast(c, op, sid, pc) ==
  call' = [call EXCEPT ![c] = [IdleCall EXCEPT !.op = op, !.sid = sid, !.pc = pc]]

Suspend(c, pc) ==
  /\ call' = [call EXCEPT ![c].pc = pc]
  /\ UNCHANGED queue

\* "async with self._pairing_lock": c takes its place behind the holder.
CallLocked(c, request) ==
  /\ request.op \in Ops[c]
  /\ Pc(c) = "idle"
  /\ call' = [call EXCEPT ![c] = request]
  /\ queue' = Append(queue, c)
  /\ UNCHANGED <<session_vars, orphans, store_vars, online, refresh, result, started>>

CallStart(c, target, force) ==
  CallLocked(c, [IdleCall EXCEPT !.op = "start", !.pc = "queue", !.target = target,
                                 !.force = force])
CallRemove(c, irk) ==
  CallLocked(c, [IdleCall EXCEPT !.op = "remove", !.pc = "queue", !.irk = irk])
CallRepair(c, repair) ==
  CallLocked(c, [IdleCall EXCEPT !.op = "repair", !.pc = "queue", !.sid = repair])

Entering(c, op) == call[c].op = op /\ Pc(c) = "queue" /\ Holds(c)

-----------------------------------------------------------------------------
(* start_pairing                                                           *)

\* The receiver is online and the model has a session left: MaxSessions bounds
\* the sessions of a behaviour, a further start is refused as if offline.
CanStart(target) == target.receiver \in online /\ nextSid <= MaxSessions

\* The current session is returned instead of a new one: a repeated start of the
\* same target, or a forced renewal that follows another one at once.
Reusable(target, force) ==
  /\ session # NoSession
  /\ session.target = target
  /\ Deadline(session) > RenewMargin
  /\ force => session.age < CoalesceAge

\* Mutant: the offer of the failed session survives a new start.
PrepareKeepingOffer(c, shown) ==
  /\ session' = NoSession
  /\ public' = shown
  /\ call' = [call EXCEPT ![c].pc = "start_key", ![c].left = InviteTTL]
  /\ UNCHANGED <<offer, nextSid, queue>>

\* Nothing is left to cancel: the offer goes and the RSA key is generated.
PrepareSession(c, shown) ==
  /\ session' = NoSession
  /\ public' = shown
  /\ offer' = NoOffer
  /\ call' = [call EXCEPT ![c] = [IdleCall EXCEPT
                !.op = call[c].op, !.pc = "start_key", !.target = call[c].target,
                !.left = InviteTTL]]
  /\ UNCHANGED <<nextSid, queue>>

StartRefused(c) ==
  /\ Entering(c, "start")
  /\ \/ ~CanStart(call[c].target)
     \/ Reusable(call[c].target, call[c].force)
  /\ Return(c)
  /\ UNCHANGED <<session_vars, orphans, store_vars, online, refresh, result, started>>

StartReplaces(c) ==
  /\ Entering(c, "start")
  /\ CanStart(call[c].target)
  /\ ~Reusable(call[c].target, call[c].force)
  /\ IF session = NoSession
     THEN PrepareSession(c, ShownAfterCancel)
     ELSE Suspend(c, "start_cancel") /\ UNCHANGED session_vars
  /\ UNCHANGED <<orphans, store_vars, online, refresh, result, started>>

StartCancelled(c) ==
  /\ Pc(c) = "start_cancel"
  /\ PrepareSession(c, ShownAfterCancel)
  /\ UNCHANGED <<orphans, store_vars, online, refresh, result, started>>

StartKeyReady(c) ==
  /\ Pc(c) = "start_key"
  /\ session' = [sid |-> nextSid, target |-> call[c].target, invite |-> call[c].left,
                 attempt |-> Unset, completion |-> Unset, age |-> 0, processing |-> FALSE]
  /\ nextSid' = nextSid + 1
  /\ call' = [call EXCEPT ![c] = [@ EXCEPT !.pc = "start_qr", !.sid = nextSid]]
  /\ UNCHANGED <<public, offer, queue, orphans, store_vars, online, refresh, result, started>>

\* The session is not looked at again: the local variables of the coroutine
\* hold its id and its expiry.
StartQrReady(c) ==
  /\ Pc(c) = "start_qr"
  /\ public' = [Shown("preparing") EXCEPT !.invitation = call[c].sid,
                                          !.effective = call[c].left]
  /\ started' = started \cup {call[c].sid}
  /\ SuspendLast(c, call[c].op, call[c].sid, "start_publish")
  /\ UNCHANGED <<session, offer, nextSid, queue, orphans, store_vars, online, refresh, result>>

StartPublished(c) ==
  /\ Pc(c) = "start_publish"
  /\ Return(c)
  /\ UNCHANGED <<session_vars, orphans, store_vars, online, refresh, result, started>>

\* An exception leaves the coroutine; async_repair_pairing reports it.
Raise(c) ==
  /\ public' = IF call[c].op = "repair" THEN Shown("error") ELSE public
  /\ Return(c)
  /\ UNCHANGED <<session, offer, nextSid>>

PublishRaises(c) ==
  /\ PublishMayFail
  /\ Pc(c) \in {"start_cancel", "start_publish"}
  /\ Raise(c)
  /\ UNCHANGED <<orphans, store_vars, online, refresh, result, started>>

-----------------------------------------------------------------------------
(* cancel_pairing                                                          *)

\* What async_cancel_pairing does once its command is published: the session
\* that is current then is dropped, whichever it is.
DropSession(shown) ==
  /\ session' = NoSession
  /\ public' = shown
  /\ UNCHANGED <<offer, nextSid>>

CallCancel(c) ==
  /\ "cancel" \in Ops[c]
  /\ Pc(c) = "idle"
  /\ IF session = NoSession
     THEN DropSession(ShownAfterCancel) /\ UNCHANGED call
     ELSE /\ SuspendLast(c, "cancel", session.sid, "cancel_publish")
          /\ UNCHANGED session_vars
  /\ UNCHANGED <<queue, orphans, store_vars, online, refresh, result, started>>

CancelPublished(c) ==
  /\ Pc(c) = "cancel_publish"
  /\ \/ DropSession(ShownAfterCancel)
     \/ PublishMayFail /\ UNCHANGED session_vars
  /\ call' = [call EXCEPT ![c] = IdleCall]
  /\ UNCHANGED <<queue, orphans, store_vars, online, refresh, result, started>>

-----------------------------------------------------------------------------
(* The refresh loop                                                        *)

\* Mutant: a session whose result is being processed is not timed out.
RefreshSparesProcessing ==
  /\ refresh.pc = "asleep"
  /\ session # NoSession
  /\ Deadline(session) <= 0 /\ ~session.processing
  /\ refresh' = [pc |-> "cancelling", sid |-> session.sid]
  /\ UNCHANGED <<session_vars, orphans, store_vars, online, call_vars, result, started>>

RefreshExpires ==
  /\ refresh.pc = "asleep"
  /\ session # NoSession
  /\ Deadline(session) <= 0
  /\ refresh' = [pc |-> "cancelling", sid |-> session.sid]
  /\ UNCHANGED <<session_vars, orphans, store_vars, online, call_vars, result, started>>

RefreshTimesOut ==
  /\ refresh.pc = "cancelling"
  /\ DropSession(Shown("timeout"))
  /\ refresh' = Asleep
  /\ UNCHANGED <<orphans, store_vars, online, call_vars, result, started>>

\* No exception is caught in _async_periodic_refresh: the task ends for good.
RefreshDies ==
  /\ PublishMayFail
  /\ refresh.pc = "cancelling"
  /\ refresh' = [pc |-> "dead", sid |-> 0]
  /\ UNCHANGED <<session_vars, orphans, store_vars, online, call_vars, result, started>>

-----------------------------------------------------------------------------
(* Messages of the receivers                                               *)

\* A receiver speaks of a session only once it was told to start it.
Known(sid) == sid \in started

\* Mutant: a new lease replaces the previous one.
AttemptRenewed(s, code, lease) ==
  IF BoundedLease(lease) # Unset /\ s.completion = Unset
  THEN BoundedLease(lease) ELSE s.attempt

\* The attempt lease after a status whose attempt_expires_at is lease: the first
\* sign of the phone starts one, a later one can only shorten it, and the
\* completion phase no longer changes it.
AttemptAfter(s, code, lease) ==
  LET offered == IF BoundedLease(lease) = Unset /\ code = "handoff" /\ s.attempt = Unset
                 THEN LeaseTTL ELSE BoundedLease(lease)
  IN IF offered # Unset /\ s.completion = Unset
     THEN Earliest(offered, s.attempt) ELSE s.attempt

\* The completion lease after a status, attempt being the attempt lease after it.
CompletionAfter(s, code, lease, attempt) ==
  LET offered == IF BoundedLease(lease) = Unset /\ code = "completion" /\ s.completion = Unset
                 THEN IF attempt # Unset THEN attempt ELSE LeaseTTL
                 ELSE BoundedLease(lease)
  IN IF offered # Unset
     THEN Earliest(Earliest(offered, attempt), s.completion) ELSE s.completion

Leased(s, code, attempt, completion) ==
  LET after == AttemptAfter(s, code, attempt)
  IN [s EXCEPT !.attempt = after,
               !.completion = CompletionAfter(s, code, completion, after)]

Claimed(s) == s.attempt # Unset \/ s.completion # Unset

\* Mutant: the QR code stays on show when a lease replaces it.
ShownWithInvitation(state, s) ==
  [Shown(state) EXCEPT !.effective = IF Claimed(s) THEN Deadline(s) ELSE @]

\* Mutant: the attempt lease stays on show in the completion phase.
ShownWithAttempt(state, s) ==
  [Shown(state) EXCEPT !.invitation = IF Claimed(s) THEN 0 ELSE @,
                       !.effective  = IF s.attempt # Unset THEN s.attempt ELSE @]

\* A claimed session shows its lease instead of its invitation.
ShownAfterStatus(state, s) ==
  [Shown(state) EXCEPT !.invitation = IF Claimed(s) THEN 0 ELSE @,
                       !.effective  = IF Claimed(s) THEN Deadline(s) ELSE @]

\* _accept_bond_repair_offer: the receiver found the phone irk but cannot use its
\* bond, and the phone belongs to nobody else.
AcceptsOffer(state, code, irk) ==
  /\ state = "error" /\ code = "unreachable" /\ irk # NoIrk
  /\ ram.owner[irk] \in {NoTarget, session.target}

\* A status of the current session.  attempt and completion are the leases in
\* its payload, code is the class of its detail_code, irk the phone of its
\* bond_repair offer and left the time until that offer expires.
StatusMessage(state, code, attempt, completion, irk, left) ==
  /\ session # NoSession
  /\ Known(session.sid)
  /\ LET leased == Leased(session, code, attempt, completion)
     IN /\ session' = IF state \in TerminalStates THEN NoSession ELSE leased
        /\ IF AcceptsOffer(state, code, irk)
           THEN /\ public' = [ShownAfterStatus(state, leased) EXCEPT !.repair = session.sid]
                /\ offer' = [sid |-> session.sid, irk |-> irk, target |-> session.target,
                             left |-> left]
           ELSE /\ public' = ShownAfterStatus(state, leased)
                /\ UNCHANGED offer
  /\ online' = online \cup {session.target.receiver}
  /\ UNCHANGED <<nextSid, orphans, store_vars, call_vars, refresh, result, started>>

\* A receiver still runs a session that Home Assistant does not know: it is told
\* to cancel, once per session.
OrphanMessage(sid) ==
  /\ session = NoSession
  /\ Known(sid)
  /\ sid \notin orphans
  /\ orphans' = orphans \cup {sid}
  /\ UNCHANGED <<session_vars, store_vars, online, call_vars, refresh, result, started>>

ObserverOnline(r) ==
  /\ online' = online \cup {r}
  /\ UNCHANGED <<session_vars, orphans, store_vars, call_vars, refresh, result, started>>

ObserverOffline(r) ==
  /\ online' = online \ {r}
  /\ UNCHANGED <<session_vars, orphans, store_vars, call_vars, refresh, result, started>>

-----------------------------------------------------------------------------
(* The pairing result                                                      *)

IsCurrent(sid) == session # NoSession /\ session.sid = sid

FinishResult(sid) == result' = [result EXCEPT ![sid] = NoResult]

\* The session of sid fails: error on show, no session, nothing saved.
ResultFails(sid) ==
  /\ session' = NoSession
  /\ public' = Shown("error")
  /\ FinishResult(sid)
  /\ UNCHANGED ram

\* Mutant: the receiver is told before the identity is saved.
CommitUnsaved(sid, irk, shown) ==
  /\ ram' = [owner  |-> [ram.owner EXCEPT ![irk] = session.target],
             resets |-> ram.resets \ {session.target}]
  /\ result' = [result EXCEPT ![sid] = [pc |-> "publish", irk |-> irk, tries |-> 0]]
  /\ session' = [session EXCEPT !.processing = TRUE]
  /\ public' = shown

\* Mutant: the commit of one phone clears the requirements of all.
CommitClearingResets(sid, irk, shown) ==
  /\ ram' = [owner |-> [ram.owner EXCEPT ![irk] = session.target], resets |-> {}]
  /\ result' = [result EXCEPT ![sid] = [pc |-> "save", irk |-> irk, tries |-> 0]]
  /\ session' = [session EXCEPT !.processing = TRUE]
  /\ public' = shown

\* The identity enters the memory and its save begins.
Commit(sid, irk, shown) ==
  /\ ram' = [owner  |-> [ram.owner EXCEPT ![irk] = session.target],
             resets |-> ram.resets \ {session.target}]
  /\ result' = [result EXCEPT ![sid] = [pc |-> "save", irk |-> irk, tries |-> 0]]
  /\ session' = [session EXCEPT !.processing = TRUE]
  /\ public' = shown

\* Mutant: only an enrollment by another receiver is refused.
LinkedElsewhere(irk) ==
  ram.owner[irk] # NoTarget /\ ram.owner[irk].receiver # session.target.receiver

LinkedToOther(irk) ==
  ram.owner[irk] # NoTarget /\ ram.owner[irk].person # session.target.person

\* One turn of the loop that waits for a live advertisement of the phone; found
\* tells whether a receiver has one, shown is the public state while it goes on.
Verify(sid, irk, tries, found, shown) ==
  IF Deadline(session) <= 0 \/ tries = VerifyTries
  THEN ResultFails(sid)
  ELSE IF found
  THEN IF LinkedToOther(irk) THEN ResultFails(sid) ELSE Commit(sid, irk, shown)
  ELSE /\ result' = [result EXCEPT ![sid] = [pc |-> "verify", irk |-> irk,
                                             tries |-> tries + 1]]
       /\ session' = [session EXCEPT !.processing = TRUE]
       /\ public' = shown
       /\ UNCHANGED ram

\* Mutant: result_processing is not looked at.
ResultMessageTwice(sid, irk, found) ==
  /\ IsCurrent(sid)
  /\ Known(sid)
  /\ IF irk = NoIrk THEN ResultFails(sid) ELSE Verify(sid, irk, 0, found, Shown("verifying"))
  /\ UNCHANGED <<offer, nextSid, orphans, disk, online, call_vars, refresh, started>>

\* The first result of the current session is processed at once; irk is NoIrk
\* when the payload does not decrypt to a verified identity.
ResultMessage(sid, irk, found) ==
  /\ IsCurrent(sid)
  /\ Known(sid)
  /\ ~session.processing
  /\ IF irk = NoIrk THEN ResultFails(sid) ELSE Verify(sid, irk, 0, found, Shown("verifying"))
  /\ UNCHANGED <<offer, nextSid, orphans, disk, online, call_vars, refresh, started>>

ResultWakes(sid, found) ==
  /\ result[sid].pc = "verify"
  /\ IF IsCurrent(sid)
     THEN Verify(sid, result[sid].irk, result[sid].tries, found, public)
     ELSE FinishResult(sid) /\ UNCHANGED <<session, public, ram>>
  /\ UNCHANGED <<offer, nextSid, orphans, disk, online, call_vars, refresh, started>>

\* The write of the store puts the memory of this moment on disk.
ResultSaved(sid) ==
  /\ result[sid].pc = "save"
  /\ disk' = ram
  /\ IF IsCurrent(sid)
     THEN result' = [result EXCEPT ![sid].pc = "publish"]
     ELSE FinishResult(sid)
  /\ UNCHANGED <<session_vars, orphans, ram, online, call_vars, refresh, started>>

ResultPublished(sid) ==
  /\ result[sid].pc = "publish"
  /\ IF IsCurrent(sid)
     THEN /\ session' = NoSession
          /\ public' = [Shown("complete") EXCEPT !.identity = result[sid].irk]
     ELSE UNCHANGED <<session, public>>
  /\ FinishResult(sid)
  /\ UNCHANGED <<offer, nextSid, orphans, store_vars, online, call_vars, refresh, started>>

\* The exception ends the task: the session stays and ignores further results.
ResultRaises(sid) ==
  /\ \/ SaveMayFail /\ result[sid].pc = "save"
     \/ PublishMayFail /\ result[sid].pc = "publish"
  /\ FinishResult(sid)
  /\ UNCHANGED <<session_vars, orphans, store_vars, online, call_vars, refresh, started>>

-----------------------------------------------------------------------------
(* remove_identity and repair_pairing                                      *)

\* Mutant: a removal may start during an enrollment.
CanRemoveAnytime(irk) ==
  ram.owner[irk] # NoTarget /\ ram.owner[irk].receiver \in online

CanRemove(irk) ==
  /\ ram.owner[irk] # NoTarget
  /\ session = NoSession
  /\ ram.owner[irk].receiver \in online

CanRepair(sid) ==
  /\ session = NoSession
  /\ offer # NoOffer /\ offer.sid = sid /\ offer.left > 0
  /\ public.repair = sid
  /\ offer.target.receiver \in online
  /\ ram.owner[offer.irk] \in {NoTarget, offer.target}

RemovalRefused(c) ==
  /\ \/ Entering(c, "remove") /\ ~CanRemove(call[c].irk)
     \/ Entering(c, "repair") /\ ~CanRepair(call[c].sid)
  /\ Return(c)
  /\ UNCHANGED <<session_vars, orphans, store_vars, online, refresh, result, started>>

\* The receiver is asked to remove the bond; the coroutine waits for its answer.
RemoveRequests(c) ==
  /\ Entering(c, "remove")
  /\ CanRemove(call[c].irk)
  /\ call' = [call EXCEPT ![c] = [@ EXCEPT !.pc = "request",
                !.target = ram.owner[call[c].irk], !.row = ram.owner[call[c].irk]]]
  /\ UNCHANGED <<queue, session_vars, orphans, store_vars, online, refresh, result, started>>

RepairRequests(c) ==
  /\ Entering(c, "repair")
  /\ CanRepair(call[c].sid)
  /\ offer' = NoOffer
  /\ public' = Shown("repairing")
  /\ call' = [call EXCEPT ![c] = [@ EXCEPT !.pc = "request", !.target = offer.target,
                !.irk = offer.irk, !.row = ram.owner[offer.irk]]]
  /\ UNCHANGED <<session, nextSid, queue, orphans, store_vars, online, refresh, result, started>>

\* _identity_removal_result_message: the first answer to the pending request.
RemovalResultMessage(c, reply) ==
  /\ Pc(c) = "request"
  /\ call[c].reply = "none"
  /\ call' = [call EXCEPT ![c].reply = reply]
  /\ UNCHANGED <<queue, session_vars, orphans, store_vars, online, refresh, result, started>>

\* Mutant: an answer that did not come counts as a success.
RemovalAssumed(c) ==
  /\ Pc(c) = "request"
  /\ call[c].reply # "refused"
  /\ ram' = [ram EXCEPT !.resets = @ \cup {call[c].target}]
  /\ Suspend(c, "reset_save")
  /\ UNCHANGED <<session_vars, orphans, disk, online, refresh, result, started>>

\* _async_require_phone_reset: the receiver has removed the bond.
RemovalConfirmed(c) ==
  /\ Pc(c) = "request"
  /\ call[c].reply = "success"
  /\ ram' = [ram EXCEPT !.resets = @ \cup {call[c].target}]
  /\ Suspend(c, "reset_save")
  /\ UNCHANGED <<session_vars, orphans, disk, online, refresh, result, started>>

\* Mutant: the answer is waited for without a timeout.
RemovalWaits(c) ==
  /\ \/ Pc(c) = "request" /\ call[c].reply = "refused"
     \/ SaveMayFail /\ Pc(c) = "reset_save"
  /\ Raise(c)
  /\ UNCHANGED <<orphans, store_vars, online, refresh, result, started>>

\* A refusal, no answer for 70 s, a failed publish or a failed save.
RemovalRaises(c) ==
  /\ \/ Pc(c) = "request" /\ call[c].reply # "success"
     \/ SaveMayFail /\ Pc(c) = "reset_save"
  /\ Raise(c)
  /\ UNCHANGED <<orphans, store_vars, online, refresh, result, started>>

\* A repair goes on to a new session of the same target.
StartAfterRepair(c, shown) ==
  IF CanStart(call[c].target)
  THEN PrepareSession(c, IF shown.state = "idle" THEN shown ELSE Shown("cancelled"))
  ELSE /\ public' = Shown("error")
       /\ Return(c)
       /\ UNCHANGED <<session, offer, nextSid>>

\* The identity, if there is one, leaves the memory (_async_forget_identity).
ResetSaved(c) ==
  /\ Pc(c) = "reset_save"
  /\ disk' = ram
  /\ IF call[c].row # NoTarget
     THEN /\ ram' = [ram EXCEPT !.owner[call[c].irk] = NoTarget]
          /\ call' = [call EXCEPT ![c] = [@ EXCEPT !.pc = "forget_save",
                        !.row = ram.owner[call[c].irk]]]
          /\ UNCHANGED <<queue, session_vars>>
     ELSE /\ StartAfterRepair(c, public)
          /\ UNCHANGED ram
  /\ UNCHANGED <<orphans, online, refresh, result, started>>

\* Mutant: the panel keeps it.
ShownKeepingIdentity(irk) == public

\* The panel forgets a completed pairing of the removed identity.
ShownAfterForget(irk) == IF public.identity = irk THEN Shown("idle") ELSE public

ForgetSaved(c) ==
  /\ Pc(c) = "forget_save"
  /\ disk' = ram
  /\ IF call[c].op = "repair"
     THEN StartAfterRepair(c, ShownAfterForget(call[c].irk))
     ELSE /\ public' = ShownAfterForget(call[c].irk)
          /\ Return(c)
          /\ UNCHANGED <<session, offer, nextSid>>
  /\ UNCHANGED <<orphans, ram, online, refresh, result, started>>

\* Mutant: no rollback.
ForgetSaveLost(c) ==
  /\ SaveMayFail
  /\ Pc(c) = "forget_save"
  /\ Raise(c)
  /\ UNCHANGED <<orphans, store_vars, online, refresh, result, started>>

ForgetSaveFails(c) ==
  /\ SaveMayFail
  /\ Pc(c) = "forget_save"
  /\ ram' = [ram EXCEPT !.owner[call[c].irk] = call[c].row]
  /\ Raise(c)
  /\ UNCHANGED <<orphans, disk, online, refresh, result, started>>

-----------------------------------------------------------------------------
(* Time, restarts and the specification                                    *)

Less(t) == IF t > 0 THEN t - 1 ELSE t

Tick ==
  /\ session' = IF session = NoSession THEN NoSession
                ELSE [session EXCEPT !.invite = Less(@), !.attempt = Less(@),
                                     !.completion = Less(@),
                                     !.age = IF @ < CoalesceAge THEN @ + 1 ELSE @]
  /\ public' = [public EXCEPT !.effective = Less(@)]
  /\ offer' = IF offer = NoOffer THEN NoOffer ELSE [offer EXCEPT !.left = Less(@)]
  /\ call' = [c \in Clients |-> [call[c] EXCEPT !.left = Less(@)]]
  /\ UNCHANGED <<nextSid, queue, orphans, store_vars, online, refresh, result, started>>

IdlePublic ==
  [state |-> "idle", invitation |-> 0, effective |-> Unset, identity |-> NoIrk, repair |-> 0]

\* What a new coordinator object starts from, the store apart.
Fresh ==
  /\ session = NoSession
  /\ public = IdlePublic
  /\ offer = NoOffer
  /\ orphans = {}
  /\ online = {}
  /\ queue = << >>
  /\ call = [c \in Clients |-> IdleCall]
  /\ refresh = Asleep
  /\ result = [sid \in Sids |-> NoResult]

Init ==
  /\ Fresh
  /\ ram \in InitialStores
  /\ disk = ram
  /\ nextSid = 1
  /\ started = {}

\* Home Assistant stops without notice and loads the store again.
Restart ==
  /\ session' = NoSession
  /\ public' = IdlePublic
  /\ offer' = NoOffer
  /\ orphans' = {}
  /\ online' = {}
  /\ queue' = << >>
  /\ call' = [c \in Clients |-> IdleCall]
  /\ refresh' = Asleep
  /\ result' = [sid \in Sids |-> NoResult]
  /\ ram' = disk
  /\ UNCHANGED <<disk, nextSid, started>>

\* One segment of the coroutine of c, up to its next await.
ClientStep(c) ==
  \/ StartRefused(c) \/ StartReplaces(c) \/ StartCancelled(c) \/ StartKeyReady(c)
  \/ StartQrReady(c) \/ StartPublished(c) \/ PublishRaises(c)
  \/ CancelPublished(c)
  \/ RemovalRefused(c) \/ RemoveRequests(c) \/ RepairRequests(c)
  \/ RemovalConfirmed(c) \/ RemovalRaises(c) \/ ResetSaved(c)
  \/ ForgetSaved(c) \/ ForgetSaveFails(c)

RefreshStep == RefreshExpires \/ RefreshTimesOut \/ RefreshDies

ResultStep(sid) ==
  \/ \E found \in BOOLEAN : ResultWakes(sid, found)
  \/ ResultSaved(sid) \/ ResultPublished(sid) \/ ResultRaises(sid)

NewCall(c) ==
  \/ \E target \in Targets, force \in BOOLEAN : CallStart(c, target, force)
  \/ \E irk \in Irks : CallRemove(c, irk)
  \/ \E sid \in Sids : CallRepair(c, sid)
  \/ CallCancel(c)

\* A lease that is rejected, as one that is missing is.
NoLease == -Grace

ReceiverMessage ==
  \/ \E code \in Codes, attempt, completion \in LeasePayloads :
       StatusMessage("pairing", code, attempt, completion, NoIrk, 0)
  \/ \E state \in TerminalStates, attempt \in {NoLease, LeaseTTL} :
       StatusMessage(state, "plain", attempt, NoLease, NoIrk, 0)
  \/ \E irk \in Irks \cup {NoIrk}, left \in 1 .. OfferTTL :
       StatusMessage("error", "unreachable", LeaseTTL, NoLease, irk, left)
  \/ \E sid \in Sids : OrphanMessage(sid)
  \/ \E sid \in Sids, irk \in Irks \cup {NoIrk}, found \in BOOLEAN :
       ResultMessage(sid, irk, found)
  \/ \E c \in Clients, reply \in {"success", "refused"} : RemovalResultMessage(c, reply)
  \/ \E r \in Receivers : ObserverOnline(r) \/ ObserverOffline(r)

Next ==
  \/ \E c \in Clients : ClientStep(c) \/ NewCall(c)
  \/ RefreshStep
  \/ \E sid \in Sids : ResultStep(sid)
  \/ ReceiverMessage
  \/ Tick
  \/ Restart

Spec == Init /\ [][Next]_vars

\* asyncio resumes every coroutine whose await is over, each await ends (a publish,
\* a write or a computation returns or raises, a removal answer is waited for
\* 70 s at most) and time passes.  Nothing is assumed of clients and receivers.
Fairness ==
  /\ \A c \in Clients : WF_vars(ClientStep(c))
  /\ \A sid \in Sids : WF_vars(ResultStep(sid))
  /\ WF_vars(RefreshStep)
  /\ WF_vars(Tick)

FairSpec == Spec /\ Fairness

-----------------------------------------------------------------------------
(* Properties                                                              *)

\* The variables keep their types.
TypeOK ==
  /\ session \in SessionRecords \cup {NoSession}
  /\ public \in PublicRecords
  /\ offer \in OfferRecords \cup {NoOffer}
  /\ orphans \subseteq Sids
  /\ nextSid \in 1 .. MaxSessions + 1
  /\ ram \in Stores /\ disk \in Stores
  /\ online \subseteq Receivers
  /\ queue \in Seq(Clients)
  /\ call \in [Clients -> CallRecords]
  /\ refresh \in RefreshRecords
  /\ result \in [Sids -> ResultRecords]
  /\ started \subseteq Sids

\* "The completion phase inherits that deadline; it never renews it": whatever
\* statuses arrive, in any order and any number of times, the deadline of an
\* attempt that a phone has claimed never moves away (_pairing_status_message).
LeaseNeverRenewed ==
  [][ session # NoSession /\ Claimed(session) /\ session' # NoSession
        /\ session'.sid = session.sid
      => Claimed(session') /\ Deadline(session') <= Deadline(session) ]_vars

\* The completion lease never outlives the attempt it belongs to.
CompletionWithinAttempt ==
  session # NoSession /\ session.attempt # Unset /\ session.completion # Unset
    => session.completion <= session.attempt

\* A consumed invitation is not offered again: no later status, result or panel
\* update puts the QR code of a claimed session back on show.
ConsumedInvitationHidden ==
  session # NoSession /\ Claimed(session) => public.invitation # session.sid

\* A deadline on show is the deadline of the session that is running.
ShownDeadlineIsReal ==
  session # NoSession /\ public.effective # Unset
    => public.effective = Deadline(session)

\* remove_identity and repair_pairing never overlap an enrollment: from their
\* request to the receiver to the last save there is no pairing session, although
\* the refresh loop, cancellations, results and statuses go on without the lock.
NoPairingDuringRemoval ==
  \A c \in Clients : Pc(c) \in RemovalPcs => session = NoSession

\* A phone is never handed from one person to another, by a late result, by a
\* repair or by a rollback: it is removed first.
NeverReassigned ==
  [][ \A irk \in Irks :
        ram.owner[irk] # NoTarget /\ ram'.owner[irk] # NoTarget
          => ram'.owner[irk].person = ram.owner[irk].person ]_vars

\* An identity leaves the memory only after its receiver confirmed that the bond
\* is gone (a restart rereads the store instead).
RemovedOnlyWhenConfirmed ==
  [][ \A irk \in Irks :
        ram.owner[irk] # NoTarget /\ ram'.owner[irk] = NoTarget
          => \/ ram' = disk
             \/ \E c \in Clients : /\ call[c].irk = irk /\ call[c].reply = "success"
                                   /\ call[c].target = ram.owner[irk] ]_vars

\* A removed identity does not come back with the next restart: what is on disk
\* is in the memory, unless its removal is being written just now.
NoResurrection ==
  \A irk \in Irks :
    disk.owner[irk] # NoTarget /\ ram.owner[irk] = NoTarget
      => \E c \in Clients : Pc(c) = "forget_save" /\ call[c].irk = irk

\* A receiver is told that an enrollment is complete only when the identity
\* would survive a crash, whatever the write of the store overlapped with.
CompleteOnlyWhenSaved ==
  [][ \A sid \in Sids :
        result[sid].pc # "publish" /\ result'[sid].pc = "publish"
          => disk'.owner[result'[sid].irk] = session.target ]_vars

\* A completed pairing on show is a phone in the memory, while it is not being
\* removed.
CompleteIsEnrolled ==
  public.state = "complete" =>
    \/ ram.owner[public.identity] # NoTarget
    \/ \E c \in Clients : Pc(c) = "forget_save" /\ call[c].irk = public.identity

\* A session processes one result: a second message never starts another search
\* or another save, while the first is being saved or acknowledged.
OneResultPerSession ==
  [][ \A sid \in Sids :
        result[sid].pc \in {"save", "publish"} /\ result'[sid].pc # "none"
          => result'[sid].pc # "verify" /\ result'[sid].irk = result[sid].irk ]_vars

\* After a verified removal the phone has to forget the receiver first: that
\* requirement is cleared only by the commit of a phone for the same person and
\* receiver (a restart rereads the store), and no write of the store, whatever it
\* overlaps with, takes the identity away without putting the requirement there.
PhoneResetKept ==
  [][ /\ \A target \in ram.resets \ ram'.resets :
           ram' = disk \/ \E irk \in Irks : ram'.owner[irk] = target
      /\ \A irk \in Irks :
           disk.owner[irk] # NoTarget /\ disk'.owner[irk] = NoTarget
             => disk.owner[irk] \in disk'.resets ]_vars

\* The identity a repair offer is for still belongs to the person and receiver of
\* the failed session, or to nobody.
OfferStillApplies ==
  offer # NoOffer => ram.owner[offer.irk] \in {NoTarget, offer.target}

\* Every call returns: the lock is never lost, whatever raises.
CallsReturn == \A c \in Clients : Pc(c) # "idle" ~> Pc(c) = "idle"

\* "Attempt stops within its budget": a session ends, with or without a phone.
SessionsEnd ==
  \A sid \in Sids : IsCurrent(sid) ~> ~IsCurrent(sid)

\* "Cancel the current pairing session and stop Bluetooth enrollment": the
\* session a cancellation drops is the one whose receiver it told to stop.
CancelStopsEnrollment ==
  [][ session # NoSession /\ session' = NoSession
      => /\ \A c \in Clients : CancelPublished(c) => call[c].sid = session.sid
         /\ RefreshTimesOut => refresh.sid = session.sid ]_vars

=============================================================================
