------------------------------ MODULE ReverseGatt ------------------------------
(***************************************************************************)
(* One attempt of the Windows GATT client, in the helper program or in the *)
(* observer: bridge/windows/reverse_gatt_client.py with the authenticated  *)
(* ceremony of numeric_pairing_probe.py and the beacon that                *)
(* interactive_pairing_helper.py runs beside it.  Windows keeps one bond   *)
(* for a phone; a phone advertises under an address, and may change it.    *)
(* The pc is the await the client is suspended on; what a route of the     *)
(* discovery, a read, a write or a ceremony brings is up to the radio and  *)
(* the phone.  An address stands for what the client knows of it, the      *)
(* phone behind it for what is true.                                       *)
(***************************************************************************)
EXTENDS Integers, FiniteSets

CONSTANTS
  Phones,
  Mine,        \* the phone that scanned the QR code
  Addresses,
  NoAddress,
  Owner,       \* the phone behind an address
  InviteTTL,   \* the time until the code expires
  HandoffTTL   \* PAIRING_HANDOFF_GRACE_SECONDS (300 s)

ASSUME GattAssumption ==
  /\ Mine \in Phones
  /\ NoAddress \notin Addresses
  /\ Owner \in [Addresses -> Phones]
  /\ InviteTTL \in Nat \ {0}
  /\ HandoffTTL \in Nat \ {0}

MAX_ENCRYPTED_ACK_REJECTIONS == 3
MAX_POST_BOND_DISCOVERY_FAILURES == 2
MAX_INITIAL_DISCOVERY_FAILURES == 3
PROXIMITY_PROVIDER_START_ATTEMPTS == 3

VARIABLES
  probe,       \* pairing_probe: "none", QRSessionPairing, or that with an arm
  beacon,      \* the helper waits for a write to the proximity server, or no more
  starts,      \* its starts that failed
  pc,
  device,      \* the candidate
  scoped,      \* it advertises the service of this session
  reuse,       \* probe.reused_bond
  verified,    \* _qr_verified_addresses
  reused,      \* _reused_bond_addresses
  created,     \* _created_bond_addresses
  authed,      \* _authenticated_ack_addresses
  secure,      \* _secure_bond_confirmed
  repairUsed,  \* _bond_repair_used
  discovery,   \* _initial_discovery_failures
  rejections,  \* _ack_auth_failures
  postDiscovery,  \* post_bond_discovery_failures
  postWrites,  \* post_bond_write_failures
  invite,      \* what is left until invitation_deadline
  handoff,     \* until _handoff_deadline, which is also _completion_deadline
  bond         \* what Windows has saved of each phone

beacon_vars == <<beacon, starts>>
peer_vars   == <<device, scoped, reuse>>
known_vars  == <<verified, reused, created, authed, secure>>
count_vars  == <<discovery, rejections>>
post_vars   == <<repairUsed, postDiscovery, postWrites>>
time_vars   == <<invite, handoff>>
vars == <<probe, beacon_vars, pc, peer_vars, known_vars, count_vars, post_vars, time_vars, bond>>

-----------------------------------------------------------------------------
(* Values                                                                  *)

Unset == -1

Bonds == [level : {"none", "weak", "auth"}, made : Addresses \cup {NoAddress}]
NoBond == [level |-> "none", made |-> NoAddress]

\* A bond that this attempt makes, with the candidate it is made with.
Made(level) == [level |-> level, made |-> device]

phone == Owner[device]
Saved == bond[phone].level
Over == pc \in {"success", "failed"}

\* Mutant: the lease starts again.
LeasedAnew(ttl) == ttl

\* _start_handoff_lease
Leased(ttl) == IF handoff = Unset THEN ttl ELSE handoff

-----------------------------------------------------------------------------
(* How a candidate is left                                                 *)

Leave(result) ==
  /\ pc' = result
  /\ device' = NoAddress
  /\ scoped' = FALSE
  /\ reuse' = FALSE

\* The exception ends the attempt; the next advertisement is waited for.
Fail == Leave("failed") /\ UNCHANGED post_vars
Again == Leave("scan") /\ UNCHANGED post_vars

Succeed == pc' = "success" /\ UNCHANGED <<peer_vars, post_vars>>

Reconnecting == "iphone_bond_reconnecting"

\* Mutant: one failure too many.
LateFailure(detail) ==
  IF detail = Reconnecting
  THEN postWrites[device] >= MAX_ENCRYPTED_ACK_REJECTIONS
  ELSE postDiscovery >= MAX_POST_BOND_DISCOVERY_FAILURES

\* except Exception in async_pair: this failure reaches its limit.
LastFailure(detail) ==
  IF detail = Reconnecting
  THEN postWrites[device] + 1 >= MAX_ENCRYPTED_ACK_REJECTIONS
  ELSE postDiscovery + 1 >= MAX_POST_BOND_DISCOVERY_FAILURES

\* The checks of _repair_verified_bond; "lost" has no client.
StartRepair(await) ==
  /\ pc' = await
  /\ repairUsed' = TRUE
  /\ UNCHANGED <<peer_vars, postDiscovery, postWrites>>

\* A failure that does not end the attempt by itself: an old bond that failed to the
\* limit is repaired, another confirmed one ends the attempt at the limit.
RetryWith(detail, confirmed) ==
  LET old == device \in reused \cap verified /\ ~repairUsed
  IN  CASE LastFailure(detail) /\ old ->
             IF handoff > 0 THEN StartRepair("repair_lost") ELSE Fail
        [] LastFailure(detail) /\ ~old /\ confirmed -> Fail
        [] ~LastFailure(detail) \/ (~old /\ ~confirmed) ->
             /\ Leave("scan")
             /\ UNCHANGED repairUsed
             /\ postWrites' = IF confirmed /\ detail = Reconnecting
                              THEN [postWrites EXCEPT ![device] = @ + 1] ELSE postWrites
             /\ postDiscovery' = IF confirmed /\ detail # Reconnecting
                                 THEN postDiscovery + 1 ELSE postDiscovery

Retry(detail) == RetryWith(detail, secure)

\* _repair_verified_bond for a candidate that is connected.
Repair == IF handoff > 0 THEN StartRepair("repair") ELSE Retry("iphone_bond_repair_timeout")

-----------------------------------------------------------------------------
(* The search for the phone                                                *)

\* find_device_by_filter returns a phone; its lease starts, and
\* iphone_advertisement_seen ends the wait for the beacon.
Found(a) ==
  /\ pc = "scan"
  /\ handoff # 0
  /\ handoff # Unset \/ invite > 0
  /\ handoff' = Leased(HandoffTTL)
  /\ pc' = "open"
  /\ device' = a
  /\ scoped' \in IF Owner[a] = Mine THEN BOOLEAN ELSE {FALSE}
  /\ beacon' = "over"
  /\ UNCHANGED <<probe, starts, reuse, known_vars, count_vars, post_vars, invite, bond>>

\* It is too far away.
TooWeak ==
  /\ pc = "scan"
  /\ handoff = Unset
  /\ invite > 0
  /\ handoff' = Leased(HandoffTTL)
  /\ UNCHANGED <<probe, beacon_vars, pc, peer_vars, known_vars, count_vars, post_vars, invite,
                 bond>>

\* The loop ends: ReverseGattTimeoutError.
TimeIsUp ==
  /\ pc = "scan"
  /\ handoff = 0 \/ (handoff = Unset /\ invite = 0)
  /\ Fail
  /\ UNCHANGED <<probe, beacon_vars, known_vars, count_vars, time_vars, bond>>

\* wait_for ends _pair_candidate at the deadline.  A repair that it interrupts may
\* have removed the bond.
CandidateTimesOut ==
  /\ ~Over
  /\ pc \notin {"start", "scan", "repair_lost"}
  /\ handoff = 0
  /\ bond' \in {bond} \cup IF pc = "repair" THEN {[bond EXCEPT ![phone] = NoBond]} ELSE {}
  /\ Retry("timeout")
  /\ UNCHANGED <<probe, beacon_vars, known_vars, count_vars, time_vars>>

-----------------------------------------------------------------------------
(* A candidate: discovery, session, claim                                  *)

\* A route with pair_before_discovery, which a confirmed bond adds, pairs a phone
\* that is not paired.
PairsFirst ==
  {bond} \cup IF secure /\ Saved = "none" THEN {[bond EXCEPT ![phone] = Made("weak")]} ELSE {}

\* _open_candidate: a route finds the session, or none does.
Opened ==
  /\ pc = "open"
  /\ pc' = "session"
  /\ bond' \in PairsFirst
  /\ discovery' = [discovery EXCEPT ![device] = 0]
  /\ UNCHANGED <<probe, beacon_vars, peer_vars, known_vars, rejections, post_vars, time_vars>>

NotOpened ==
  /\ pc = "open"
  /\ bond' \in PairsFirst
  /\ IF ~secure /\ scoped
     THEN /\ discovery' = [discovery EXCEPT ![device] = @ + 1]
          /\ IF discovery[device] + 1 >= MAX_INITIAL_DISCOVERY_FAILURES
             THEN Fail ELSE Retry("unreachable")
     ELSE Retry("unreachable") /\ UNCHANGED discovery
  /\ UNCHANGED <<probe, beacon_vars, known_vars, rejections, time_vars>>

\* The session is read; it is not a secret.
SessionRead ==
  /\ pc = "session"
  /\ \/ pc' = "claim" /\ UNCHANGED <<peer_vars, post_vars>>
     \/ Again                 \* SessionMismatchError
     \/ Retry("unreadable")
  /\ UNCHANGED <<probe, beacon_vars, known_vars, count_vars, time_vars, bond>>

Checked(ok) ==
  /\ pc = "claim"
  /\ \/ /\ ok
        /\ verified' = verified \cup {device}
        /\ pc' = IF probe = "none" THEN "write" ELSE "probe"
        /\ UNCHANGED <<peer_vars, post_vars>>
     \/ Retry("iphone_claim_rejected") /\ UNCHANGED verified
  /\ UNCHANGED <<probe, beacon_vars, reused, created, authed, secure, count_vars, time_vars, bond>>

\* Mutant: the proof is not verified.
ClaimUnproved == Checked(TRUE)

\* The claim is read: only the phone with the QR code can prove it.
ClaimRead == Checked(phone = Mine)

-----------------------------------------------------------------------------
(* The ceremony of the probe                                               *)

\* Mutant: a bond of this attempt is taken for an old one.
AuthenticatedAsOld(again) ==
  /\ pc' = "write"
  /\ secure' = TRUE
  /\ reuse' = again
  /\ reused' = IF again THEN reused \cup {device} ELSE reused
  /\ created' = IF again THEN created \ {device} ELSE created \cup {device}
  /\ authed' = authed \cup {device}
  /\ UNCHANGED <<device, scoped, verified, post_vars>>

\* diagnostic_pairing: what the client notes of an authenticated bond.
Authenticated(again) ==
  /\ pc' = "write"
  /\ secure' = TRUE
  /\ reuse' = again
  /\ reused' = IF again /\ device \notin created THEN reused \cup {device} ELSE reused
  /\ created' = IF again THEN created ELSE created \cup {device}
  /\ authed' = authed \cup {device}
  /\ UNCHANGED <<device, scoped, verified, post_vars>>

\* The phone is paired with authenticated encryption; another ceremony may have
\* done it meanwhile (ALREADY_PAIRED).
Reuses ==
  /\ pc = "probe"
  /\ probe = "qr"
  /\ \/ Saved = "auth" /\ UNCHANGED bond
     \/ Saved = "none" /\ bond' = [bond EXCEPT ![phone] = [level |-> "auth", made |-> NoAddress]]
  /\ Authenticated(TRUE)
  /\ UNCHANGED <<probe, beacon_vars, count_vars, time_vars>>

\* The protected attribute is asked for, then Windows pairs, and says so when asked
\* once more.
Pairs ==
  /\ pc = "probe"
  /\ Saved = "none"
  /\ bond' = [bond EXCEPT ![phone] = Made("auth")]
  /\ Authenticated(FALSE)
  /\ UNCHANGED <<probe, beacon_vars, count_vars, time_vars>>

\* numeric_pairing_saved_bond_weak
TooWeakABond ==
  /\ pc = "probe"
  /\ probe = "qr"
  /\ Saved = "weak"
  /\ IF repairUsed THEN Fail ELSE Repair
  /\ UNCHANGED <<probe, beacon_vars, known_vars, count_vars, time_vars, bond>>

\* Any other PairingDiagnosticError; the ceremony may have left a bond.
ProbeFails ==
  /\ pc = "probe"
  /\ bond' \in {bond} \cup IF Saved = "none"
                           THEN {[bond EXCEPT ![phone] = Made(level)] : level \in {"weak", "auth"}}
                           ELSE {}
  /\ Fail
  /\ UNCHANGED <<probe, beacon_vars, known_vars, count_vars, time_vars>>

-----------------------------------------------------------------------------
(* The protected write                                                     *)

\* What the security of the link allows: encryption, or authentication as well.
Accepts == Saved = "auth" \/ (Saved = "weak" /\ device \notin authed)

Written ==
  /\ pc \in {"write", "settle"}
  /\ Accepts
  /\ Succeed
  /\ UNCHANGED <<probe, beacon_vars, known_vars, count_vars, time_vars, bond>>

\* The phone refuses (ATT 0x05, 0x0F) a bond that the probe has accepted.
Refused ==
  /\ pc = "write"
  /\ probe # "none"
  /\ IF ~repairUsed /\ reuse /\ device \notin created THEN Repair ELSE Fail
  /\ UNCHANGED <<probe, beacon_vars, known_vars, count_vars, time_vars, bond>>

\* The link closes, after a ceremony that allows to come back; or any other error.
Closed ==
  /\ pc = "write"
  /\ probe # "none"
  /\ \/ probe = "qr" /\ handoff > 0 /\ Retry(Reconnecting)
     \/ Fail
  /\ UNCHANGED <<probe, beacon_vars, known_vars, count_vars, time_vars, bond>>

\* Without a probe Windows says of a failed write that the phone is paired.  A
\* refusal (0x05) is answered with authentication, which may renew the bond.
Authenticates ==
  /\ device \notin authed
  /\ authed' = authed \cup {device}
  /\ UNCHANGED rejections
  /\ \/ Succeed /\ bond' = [bond EXCEPT ![phone] = IF Saved = "auth" THEN @ ELSE Made("auth")]
     \/ Fail /\ UNCHANGED bond

\* Otherwise the link is opened again, unless it was refused three times.
ComesBack ==
  /\ UNCHANGED <<authed, bond>>
  /\ \/ UNCHANGED rejections /\ RetryWith(Reconnecting, TRUE)
     \/ /\ rejections' = [rejections EXCEPT ![device] = @ + 1]
        /\ IF rejections[device] + 1 >= MAX_ENCRYPTED_ACK_REJECTIONS
           THEN Fail ELSE RetryWith(Reconnecting, TRUE)

NotWritten ==
  /\ \/ pc = "write" /\ probe = "none" /\ Saved # "none"
     \/ pc = "settle"
  /\ secure' = TRUE
  /\ Authenticates \/ ComesBack
  /\ UNCHANGED <<probe, beacon_vars, verified, reused, created, discovery, time_vars>>

\* Windows says that the phone is not paired, or cannot say: client.pair() follows.
NotPaired ==
  /\ pc = "write"
  /\ probe = "none"
  /\ pc' = "pair"
  /\ UNCHANGED <<probe, beacon_vars, peer_vars, known_vars, count_vars, post_vars, time_vars, bond>>

\* client.pair() finds or makes a bond, whatever it returns; the link settles, and
\* the write is tried again (Written, NotWritten) if it is still there.
PairedNow ==
  /\ pc = "pair"
  /\ bond' = [bond EXCEPT ![phone] = IF Saved = "none" THEN Made("weak") ELSE @]
  /\ secure' = TRUE
  /\ \/ pc' = "settle" /\ UNCHANGED <<peer_vars, post_vars>>
     \/ RetryWith(Reconnecting, TRUE)
  /\ UNCHANGED <<probe, beacon_vars, verified, reused, created, authed, count_vars, time_vars>>

\* It fails; an error that names a stale bond has it repaired.
PairFails ==
  /\ pc = "pair"
  /\ Saved = "none"
  /\ \/ ~repairUsed /\ Repair
     \/ Retry("pair")
  /\ UNCHANGED <<probe, beacon_vars, known_vars, count_vars, time_vars, bond>>

-----------------------------------------------------------------------------
(* The repair                                                              *)

\* Mutant: the saved bonds are picked by a name that phones share.
RepairedByName ==
  /\ pc \in {"repair", "repair_lost"}
  /\ Saved # "none"
  /\ bond' = [p \in Phones |-> NoBond]
  /\ secure' = FALSE
  /\ Leave("scan")
  /\ UNCHANGED <<probe, beacon_vars, verified, reused, created, authed, count_vars, post_vars,
                 time_vars>>

\* _remove_verified_peer_bonds found the bond of this phone, removed it and saw that
\* the others are still there: BondResetRequiredError.
Repaired ==
  /\ pc \in {"repair", "repair_lost"}
  /\ Saved # "none"
  /\ bond' = [bond EXCEPT ![phone] = NoBond]
  /\ secure' = FALSE
  /\ authed' = authed \ {device}
  /\ reused' = reused \ {device}
  /\ discovery' = [discovery EXCEPT ![device] = 0]
  /\ rejections' = [rejections EXCEPT ![device] = 0]
  /\ postDiscovery' = 0
  /\ postWrites' = [a \in Addresses |-> 0]
  /\ Leave("scan")
  /\ UNCHANGED <<probe, beacon_vars, verified, created, repairUsed, time_vars>>

\* It did not, or in doubt: "iphone_bond_reset_failed".
RepairFails ==
  /\ pc \in {"repair", "repair_lost"}
  /\ bond' \in {bond, [bond EXCEPT ![phone] = NoBond]}
  /\ Fail
  /\ UNCHANGED <<probe, beacon_vars, known_vars, count_vars, time_vars>>

-----------------------------------------------------------------------------
(* The helper program                                                      *)

\* The proximity server is on the air; without it there is no client.
BeaconStarts ==
  /\ pc = "start"
  /\ pc' = "scan"
  /\ beacon' = "waiting"
  /\ UNCHANGED <<probe, starts, peer_vars, known_vars, count_vars, post_vars, time_vars, bond>>

\* It is not, and is created anew, a few times.
BeaconStartFails ==
  /\ pc = "start"
  /\ starts' = starts + 1
  /\ IF starts + 1 >= PROXIMITY_PROVIDER_START_ATTEMPTS
     THEN Leave("failed") ELSE UNCHANGED <<pc, peer_vars>>
  /\ UNCHANGED <<probe, beacon, known_vars, count_vars, post_vars, time_vars, bond>>

\* The phone wrote to the beacon first: start_handoff_lease.
BeaconReady ==
  /\ beacon = "waiting"
  /\ beacon' = "over"
  /\ handoff' = Leased(HandoffTTL)
  /\ UNCHANGED <<probe, starts, pc, peer_vars, known_vars, count_vars, post_vars, invite, bond>>

\* Waiting for it fails, and with it the attempt: out of time, or off the air.
BeaconFails ==
  /\ beacon = "waiting"
  /\ pc = "scan"
  /\ beacon' = "over"
  /\ Fail
  /\ UNCHANGED <<probe, starts, known_vars, count_vars, time_vars, bond>>

\* The observer ends the helper, or cancels the client.
Cancelled ==
  /\ ~Over
  /\ bond' \in {bond} \cup IF pc \in {"repair", "repair_lost"}
                           THEN {[bond EXCEPT ![phone] = NoBond]} ELSE {}
  /\ Fail
  /\ UNCHANGED <<probe, beacon_vars, known_vars, count_vars, time_vars>>

Tick ==
  /\ ~Over
  /\ \/ invite > 0 /\ invite' = invite - 1 /\ handoff' = IF handoff > 0 THEN handoff - 1 ELSE handoff
     \/ invite = 0 /\ handoff > 0 /\ handoff' = handoff - 1 /\ UNCHANGED invite
  /\ UNCHANGED <<probe, beacon_vars, pc, peer_vars, known_vars, count_vars, post_vars, bond>>

-----------------------------------------------------------------------------
(* The specification                                                       *)

\* The helper always has the probe; the observer's own client has none, nor a beacon.
Init ==
  /\ probe \in {"none", "qr", "armed"}
  /\ beacon = "over"
  /\ starts = 0
  /\ pc = IF probe = "none" THEN "scan" ELSE "start"
  /\ device = NoAddress
  /\ scoped = FALSE
  /\ reuse = FALSE
  /\ verified = {} /\ reused = {} /\ created = {} /\ authed = {}
  /\ secure = FALSE
  /\ repairUsed = FALSE
  /\ discovery = [a \in Addresses |-> 0]
  /\ rejections = [a \in Addresses |-> 0]
  /\ postDiscovery = 0
  /\ postWrites = [a \in Addresses |-> 0]
  /\ invite = InviteTTL
  /\ handoff = Unset
  /\ bond \in [Phones -> {b \in Bonds : b.made = NoAddress}]

Candidate ==
  \/ Opened \/ NotOpened \/ SessionRead \/ ClaimRead
  \/ Reuses \/ Pairs \/ TooWeakABond \/ ProbeFails
  \/ Written \/ Refused \/ Closed \/ NotWritten \/ NotPaired \/ PairedNow \/ PairFails
  \/ CandidateTimesOut

Step == Candidate \/ TimeIsUp \/ Repaired \/ RepairFails \/ BeaconStarts \/ BeaconStartFails

Environment ==
  \/ \E a \in Addresses : Found(a)
  \/ TooWeak \/ BeaconReady \/ BeaconFails \/ Cancelled

Next == Step \/ Environment \/ Tick

Spec == Init /\ [][Next]_vars

\* Every await of a candidate has a timeout, the loop looks at its deadline after
\* each scan, the beacon starts or fails, and time passes.
FairSpec == Spec /\ WF_vars(Step) /\ WF_vars(Tick)

-----------------------------------------------------------------------------
(* Properties                                                              *)

\* The variables keep their types and the counters their limits.
TypeOK ==
  /\ probe \in {"none", "qr", "armed"}
  /\ beacon \in {"waiting", "over"}
  /\ starts \in 0 .. PROXIMITY_PROVIDER_START_ATTEMPTS
  /\ pc \in {"start", "scan", "open", "session", "claim", "probe", "write", "pair", "settle",
             "repair", "repair_lost", "success", "failed"}
  /\ device \in Addresses \cup {NoAddress}
  /\ {scoped, reuse, secure, repairUsed} \subseteq BOOLEAN
  /\ created \subseteq verified /\ reused \subseteq verified /\ verified \subseteq Addresses
  /\ authed \subseteq verified
  /\ discovery \in [Addresses -> 0 .. MAX_INITIAL_DISCOVERY_FAILURES]
  /\ rejections \in [Addresses -> 0 .. MAX_ENCRYPTED_ACK_REJECTIONS]
  /\ postDiscovery \in 0 .. MAX_POST_BOND_DISCOVERY_FAILURES - 1
  /\ postWrites \in [Addresses -> 0 .. MAX_ENCRYPTED_ACK_REJECTIONS - 1]
  /\ invite \in 0 .. InviteTTL
  /\ handoff \in Unset .. HandoffTTL
  /\ bond \in [Phones -> Bonds]

\* The attempt succeeds only with the phone that proved the QR code, with a bond that
\* Windows still has, and, where the ceremony is used, one with authentication.
SuccessIsSecured ==
  pc = "success" =>
    /\ device \in verified
    /\ phone = Mine
    /\ Saved # "none"
    /\ probe # "none" => Saved = "auth"

Removed(p) == bond[p].level # "none" /\ bond'[p].level = "none"

\* "At most one automatic bond repair per pairing attempt, including address changes",
\* "preserve all other bonded devices": a bond disappears only in the one repair, and only
\* of the phone that proved the QR code.
Repairing == pc \in {"repair", "repair_lost"}

OneRepairOfTheVerified ==
  [][ /\ \A p \in Phones : Removed(p) => Repairing /\ p = Mine /\ device \in verified
      /\ Repairing' /\ ~Repairing => ~repairUsed ]_vars

\* "Keep newly created bonds distinct from old bonds reused later in the attempt": a bond
\* of this attempt is not removed while the phone keeps the address it was made under.
NewBondKept ==
  [][ \A p \in Phones : Removed(p) => bond[p].made # device ]_vars

\* "No ... deadline extension": whatever is retried, the attempt ends.
AttemptEnds == <>Over

=============================================================================
