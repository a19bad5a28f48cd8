----------------------------- MODULE SignalAccess -----------------------------
(***************************************************************************)
(* The access of the app to the signal of one phone: a code that an admin  *)
(* shows, which the app exchanges once for an access of 90 days            *)
(* (custom_components/presence_bridge/signal_api.py, signal_access.py, and *)
(* signal_monitor in __init__.py).  Both are kept in the row of the phone, *)
(* which enrollments replace and removals take out and, when the store     *)
(* cannot be written, put back (coordinator.py).                           *)
(*                                                                         *)
(* A call runs uninterrupted to its write of the store, the await at which *)
(* others run.  A token is the number of its creation; the digest that the *)
(* row keeps of it is the same number, as no two tokens share a digest.    *)
(***************************************************************************)
EXTENDS Naturals

CONSTANTS
  Ids,        \* identities
  Clients,    \* coroutines: websocket commands, HTTP requests, removals, results
  None,       \* no row, no identity
  CodeTTL,    \* 600 s
  AccessTTL,  \* 90 days
  MaxTokens   \* bounds the tokens of an instance

ASSUME SignalAssumption ==
  /\ CodeTTL \in Nat /\ AccessTTL \in Nat /\ MaxTokens \in Nat
  /\ None \notin Ids /\ None \notin [pending : Nat, access : Nat]

NoToken == 0
Tokens == 1 .. MaxTokens

VARIABLES
  ram,        \* memory["identities"], without what does not concern access
  disk,       \* what the last completed write of the store holds
  states,     \* the keys of identity_states
  last,       \* the token created last
  left,       \* how long each token is valid
  call,       \* the coroutines
  shown,      \* the codes an admin has been shown
  delivered,  \* the accesses that reached an app, each with the code it was for
  throttled,  \* last_reads: identities read within the last second
  ended       \* newest token of an identity that a revocation or a removal ended

vars == <<ram, disk, states, last, left, call, shown, delivered, throttled, ended>>

-----------------------------------------------------------------------------
(* Rows and tokens                                                         *)

Row == [pending : Tokens \cup {NoToken}, access : Tokens \cup {NoToken}]
NewRow == [pending |-> NoToken, access |-> NoToken]
Rows == Row \cup {None}

Held(row) == IF row = None THEN {} ELSE {row.pending, row.access} \ {NoToken}

\* authorized: the row with the token in this field, if it is still valid.
Authorized(id, field, token) ==
  /\ id \in states
  /\ ram[id] # None
  /\ ram[id][field] = token
  /\ left[token] > 0

\* new_access
NewAccess(lifetime) ==
  /\ last < MaxTokens
  /\ last' = last + 1
  /\ left' = [left EXCEPT ![last + 1] = lifetime]

-----------------------------------------------------------------------------
(* Calls: each changes the memory, then writes the store                   *)

\* token is the one that the call creates, or else the newest that it found; code
\* the one that a redemption uses up; row what a removal would restore.
Idle == [pc |-> "idle", id |-> None, token |-> NoToken, code |-> NoToken,
         row |-> None]
Writing == {"code_save", "revoke_save", "redeem_save", "forget_save", "enroll_save"}

InFlight(pc) == {c \in Clients : call[c].pc = pc}

Suspend(c, pc, id, token, code, row) == call' = [call EXCEPT
  ![c] = [pc |-> pc, id |-> id, token |-> token, code |-> code, row |-> row]]
Return(c) == call' = [call EXCEPT ![c] = Idle]

\* An admin asks for a code: the one before is replaced, the access stays.
CreateMonitor(c, id) ==
  /\ call[c].pc = "idle"
  /\ id \in states /\ ram[id] # None
  /\ NewAccess(CodeTTL)
  /\ ram' = [ram EXCEPT ![id].pending = last + 1]
  /\ Suspend(c, "code_save", id, last + 1, NoToken, None)
  /\ UNCHANGED <<disk, states, shown, delivered, throttled, ended>>

\* Mutant: a code that is on show can still be redeemed.
RevokeAccess(c, id) ==
  /\ call[c].pc = "idle"
  /\ id \in states /\ ram[id] # None
  /\ ram' = [ram EXCEPT ![id].access = NoToken]
  /\ Suspend(c, "revoke_save", id, last, NoToken, None)
  /\ UNCHANGED <<disk, states, last, left, shown, delivered, throttled, ended>>

\* An admin revokes: neither code nor access are left.
Revoke(c, id) ==
  /\ call[c].pc = "idle"
  /\ id \in states /\ ram[id] # None
  /\ ram' = [ram EXCEPT ![id] = NewRow]
  /\ Suspend(c, "revoke_save", id, last, NoToken, None)
  /\ UNCHANGED <<disk, states, last, left, shown, delivered, throttled, ended>>

\* The app redeems the code: it is used up, the access before is replaced.
Redeem(c, id) ==
  /\ call[c].pc = "idle"
  /\ \E code \in shown :
       /\ Authorized(id, "pending", code)
       /\ NewAccess(AccessTTL)
       /\ ram' = [ram EXCEPT ![id] = [pending |-> NoToken, access |-> last + 1]]
       /\ Suspend(c, "redeem_save", id, last + 1, code, None)
  /\ UNCHANGED <<disk, states, shown, delivered, throttled, ended>>

\* The receiver has confirmed a removal, which holds the pairing lock: the
\* identity leaves the memory.
Forget(c, id) ==
  /\ call[c].pc = "idle"
  /\ ram[id] # None
  /\ InFlight("forget_save") = {}
  /\ ram' = [ram EXCEPT ![id] = None]
  /\ Suspend(c, "forget_save", id, last, NoToken, ram[id])
  /\ UNCHANGED <<disk, states, last, left, shown, delivered, throttled, ended>>

\* A result has been verified: the row is written anew, also that of a phone
\* which was enrolled before.  No session exists while a removal holds the lock.
Enroll(c, id) ==
  /\ call[c].pc = "idle"
  /\ InFlight("forget_save") = {}
  /\ ram' = [ram EXCEPT ![id] = NewRow]
  /\ Suspend(c, "enroll_save", id, last, NoToken, None)
  /\ UNCHANGED <<disk, states, last, left, shown, delivered, throttled, ended>>

-----------------------------------------------------------------------------
(* The write of the store                                                  *)

\* The code is drawn and returned.
CodeSaved(c) ==
  /\ call[c].pc = "code_save"
  /\ disk' = ram
  /\ shown' = shown \cup {call[c].token}
  /\ Return(c)
  /\ UNCHANGED <<ram, states, last, left, delivered, throttled, ended>>

\* The caller is told that what the call found has ended.
AccessEnds(c) == ended' =
  [ended EXCEPT ![call[c].id] = IF @ > call[c].token THEN @ ELSE call[c].token]

RevokeSaved(c) ==
  /\ call[c].pc = "revoke_save"
  /\ disk' = ram
  /\ AccessEnds(c)
  /\ Return(c)
  /\ UNCHANGED <<ram, states, last, left, shown, delivered, throttled>>

\* Mutant: the access is returned while the store is being written.
RedeemAnswered(c) ==
  /\ call[c].pc = "redeem_save"
  /\ delivered' \in {delivered,
       delivered \cup {[access |-> call[c].token, code |-> call[c].code]}}
  /\ Return(c)
  /\ UNCHANGED <<ram, disk, states, last, left, shown, throttled, ended>>

\* The access is returned; the app gets it, or the answer is lost.
RedeemSaved(c) ==
  /\ call[c].pc = "redeem_save"
  /\ disk' = ram
  /\ delivered' \in {delivered,
       delivered \cup {[access |-> call[c].token, code |-> call[c].code]}}
  /\ Return(c)
  /\ UNCHANGED <<ram, states, last, left, shown, throttled, ended>>

\* _rebuild_identity_states
RebuildStates == states' = {id \in Ids : ram[id] # None}

ForgetSaved(c) ==
  /\ call[c].pc = "forget_save"
  /\ disk' = ram
  /\ RebuildStates
  /\ AccessEnds(c)
  /\ Return(c)
  /\ UNCHANGED <<ram, last, left, shown, delivered, throttled>>

\* The result goes no further when its session is over by then.
EnrollSaved(c) ==
  /\ call[c].pc = "enroll_save"
  /\ disk' = ram
  /\ RebuildStates \/ UNCHANGED states
  /\ Return(c)
  /\ UNCHANGED <<ram, last, left, shown, delivered, throttled, ended>>

\* Nothing is undone but a removal: what is in memory stays, the call raises.
SaveFails(c) ==
  /\ call[c].pc \in Writing
  /\ ram' = IF call[c].pc = "forget_save"
              THEN [ram EXCEPT ![call[c].id] = call[c].row] ELSE ram
  /\ Return(c)
  /\ UNCHANGED <<disk, states, last, left, shown, delivered, throttled, ended>>

\* The write of a call that is not resumed yet, or of another part of the store.
StoreWritten ==
  /\ disk' = ram
  /\ UNCHANGED <<ram, states, last, left, call, shown, delivered, throttled, ended>>

-----------------------------------------------------------------------------
(* Reads, time, restarts                                                   *)

\* A poll of the app: answered at most once in a second.
Read(id) ==
  /\ \E grant \in delivered : Authorized(id, "access", grant.access)
  /\ id \notin throttled
  /\ throttled' = throttled \cup {id}
  /\ UNCHANGED <<ram, disk, states, last, left, call, shown, delivered, ended>>

LimitLifts(id) ==
  /\ id \in throttled
  /\ throttled' = throttled \ {id}
  /\ UNCHANGED <<ram, disk, states, last, left, call, shown, delivered, ended>>

Tick ==
  /\ \E token \in Tokens : left[token] > 0
  /\ left' = [token \in Tokens |-> IF left[token] > 0 THEN left[token] - 1 ELSE 0]
  /\ UNCHANGED <<ram, disk, states, last, call, shown, delivered, throttled, ended>>

\* Home Assistant is killed; it loads the store when it starts.
Restart ==
  /\ ram' = disk
  /\ states' = {id \in Ids : disk[id] # None}
  /\ call' = [c \in Clients |-> Idle]
  /\ throttled' = {}
  /\ UNCHANGED <<disk, last, left, shown, delivered, ended>>

-----------------------------------------------------------------------------
Init ==
  /\ ram = [id \in Ids |-> None]
  /\ disk = ram
  /\ states = {}
  /\ last = NoToken
  /\ left = [token \in Tokens |-> 0]
  /\ call = [c \in Clients |-> Idle]
  /\ shown = {} /\ delivered = {} /\ throttled = {}
  /\ ended = [id \in Ids |-> NoToken]

CallStep(c) ==
  \/ \E id \in Ids : CreateMonitor(c, id) \/ Revoke(c, id) \/ Redeem(c, id)
                     \/ Forget(c, id) \/ Enroll(c, id)
  \/ CodeSaved(c) \/ RevokeSaved(c) \/ RedeemSaved(c) \/ ForgetSaved(c)
  \/ EnrollSaved(c) \/ SaveFails(c)

Next ==
  \/ \E c \in Clients : CallStep(c)
  \/ \E id \in Ids : Read(id) \/ LimitLifts(id)
  \/ StoreWritten \/ Tick \/ Restart

Spec == Init /\ [][Next]_vars

-----------------------------------------------------------------------------
(* Properties                                                              *)

Calls == [pc : Writing \cup {"idle"}, id : Ids \cup {None},
          token : Tokens \cup {NoToken}, code : Tokens \cup {NoToken}, row : Rows]

\* Values of the right kind.
TypeOK ==
  /\ ram \in [Ids -> Rows] /\ disk \in [Ids -> Rows]
  /\ states \subseteq Ids /\ throttled \subseteq Ids
  /\ last \in Tokens \cup {NoToken}
  /\ left \in [Tokens -> Nat]
  /\ call \in [Clients -> Calls]
  /\ \A c \in Clients :
       /\ call[c].pc \in Writing => call[c].id \in Ids
       /\ call[c].pc \in {"code_save", "redeem_save"} => call[c].token \in Tokens
       /\ call[c].pc = "redeem_save" => call[c].code \in Tokens
  /\ shown \subseteq Tokens
  /\ delivered \subseteq [access : Tokens, code : Tokens]
  /\ ended \in [Ids -> Tokens \cup {NoToken}]

\* "A separate, single-use signal QR": one code gives one app access, also when it
\* is sent twice, when the store cannot be written, and after a restart.
OneAccessPerCode ==
  \A first, second \in delivered : first.code = second.code => first = second

\* Once an admin has been told that the access is revoked, or the identity removed,
\* none of its tokens comes back: not with a write that was under way, nor with a
\* removal that is undone, nor from the store after a restart.
EndedStaysEnded ==
  \A id \in Ids : \A token \in Held(ram[id]) \cup Held(disk[id]) : token > ended[id]

=============================================================================
