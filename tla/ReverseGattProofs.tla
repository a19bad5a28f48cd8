--------------------------- MODULE ReverseGattProofs ---------------------------
(***************************************************************************)
(* Theorems about ReverseGatt, for any phones, addresses and deadlines:    *)
(* with whom and with what bond an attempt succeeds, which bonds a repair  *)
(* may remove, and that no retry renews the time of the attempt.           *)
(***************************************************************************)
EXTENDS ReverseGatt, TLAPS

-----------------------------------------------------------------------------
(* The invariant                                                           *)

CandidatePcs == {"open", "session", "claim", "probe", "write", "pair", "settle",
                 "repair", "repair_lost", "success"}

\* After the claim: the candidate has proved that it scanned the QR code.
ClaimedPcs == {"probe", "write", "pair", "settle", "repair", "repair_lost", "success"}

PeerInv ==
  /\ pc \in CandidatePcs => device \in Addresses
  /\ pc \in ClaimedPcs => device \in verified
  /\ \A a \in verified : Owner[a] = Mine

\* A counter that reaches its limit ends the attempt.
CounterInv ==
  /\ pc = "start" => starts < PROXIMITY_PROVIDER_START_ATTEMPTS
  /\ ~Over => \A a \in Addresses : /\ discovery[a] < MAX_INITIAL_DISCOVERY_FAILURES
                                   /\ rejections[a] < MAX_ENCRYPTED_ACK_REJECTIONS

\* The ceremony leaves an authenticated bond; client.pair() is for attempts without it.
CeremonyInv ==
  /\ probe = "none" => reused = {}
  /\ pc = "probe" => probe # "none"
  /\ pc \in {"pair", "settle"} => probe = "none"
  /\ pc = "settle" => Saved # "none"
  /\ pc = "write" /\ probe # "none" => Saved = "auth"

\* A confirmed bond is there, unless a repair that ran out of time removed it: then no
\* other candidate is looked for.
SecureInv ==
  secure /\ ~Over /\ (pc = "scan" => handoff # 0) => bond[Mine].level # "none"

\* With the ceremony a bond that the attempt has made is known to be its own.
NewBondInv ==
  ~Over /\ probe # "none" /\ bond[Mine].made # NoAddress
    => bond[Mine].level = "auth" /\ bond[Mine].made \in created

\* Until the repair, the bond that was taken for an old one is still the same.
OldBondInv ==
  ~Over /\ ~repairUsed =>
    \A a \in reused : bond[Mine].level = "auth" /\ bond[Mine].made # a

\* The bond to be removed was not made under the address of the candidate.
RepairInv ==
  Repairing => /\ repairUsed
               /\ Saved # "none" => bond[Mine].made # device

BondInv == SecureInv /\ NewBondInv /\ OldBondInv /\ RepairInv

IInv == TypeOK /\ PeerInv /\ CounterInv /\ CeremonyInv /\ BondInv /\ SuccessIsSecured

-----------------------------------------------------------------------------
(* How a candidate is left                                                 *)

PostTyped ==
  /\ repairUsed' \in BOOLEAN
  /\ postDiscovery' \in 0 .. MAX_POST_BOND_DISCOVERY_FAILURES - 1
  /\ postWrites' \in [Addresses -> 0 .. MAX_ENCRYPTED_ACK_REJECTIONS - 1]

Left(result) ==
  /\ pc' = result
  /\ device' = NoAddress
  /\ scoped' = FALSE
  /\ reuse' = FALSE
  /\ repairUsed' = repairUsed

Repairs(await) ==
  /\ pc' = await
  /\ repairUsed' = TRUE
  /\ ~repairUsed
  /\ handoff > 0
  /\ device' = device /\ scoped' = scoped /\ reuse' = reuse

LEMMA FailFacts ==
  ASSUME TypeOK, Fail
  PROVE  Left("failed") /\ PostTyped
BY DEF TypeOK, Fail, Leave, Left, PostTyped, post_vars

LEMMA AgainFacts ==
  ASSUME TypeOK, Again
  PROVE  Left("scan") /\ PostTyped
BY DEF TypeOK, Again, Leave, Left, PostTyped, post_vars

\* A retry waits for the next candidate, is the last, or becomes the one repair of a
\* bond that was taken for an old one.
LEMMA RetryFacts ==
  ASSUME TypeOK, device \in Addresses, NEW detail, NEW confirmed \in BOOLEAN,
         RetryWith(detail, confirmed)
  PROVE  /\ PostTyped
         /\ \/ Left("scan") \/ Left("failed")
            \/ Repairs("repair_lost") /\ device \in reused
<1> DEFINE last == LastFailure(detail)
           old  == device \in reused \cap verified /\ ~repairUsed
<1>1. CASE last /\ old
  <2>1. IF handoff > 0 THEN StartRepair("repair_lost") ELSE Fail
    BY <1>1 DEF RetryWith
  <2>2. CASE handoff > 0
    BY <1>1, <2>1, <2>2 DEF TypeOK, StartRepair, Repairs, PostTyped, peer_vars
  <2> QED
    BY <2>1, <2>2, FailFacts
<1>2. CASE last /\ ~old /\ confirmed
  <2>1. Fail
    BY <1>2 DEF RetryWith
  <2> QED
    BY <2>1, FailFacts
<1>3. CASE ~last \/ (~old /\ ~confirmed)
  <2>1. /\ Leave("scan")
        /\ UNCHANGED repairUsed
        /\ postWrites' = IF confirmed /\ detail = Reconnecting
                         THEN [postWrites EXCEPT ![device] = @ + 1] ELSE postWrites
        /\ postDiscovery' = IF confirmed /\ detail # Reconnecting
                            THEN postDiscovery + 1 ELSE postDiscovery
    BY <1>3 DEF RetryWith
  <2>2. CASE confirmed /\ detail = Reconnecting
    <3>1. postWrites[device] + 1 < MAX_ENCRYPTED_ACK_REJECTIONS
      BY <1>3, <2>2 DEF TypeOK, LastFailure, MAX_ENCRYPTED_ACK_REJECTIONS
    <3> QED
      BY <2>1, <2>2, <3>1 DEF TypeOK, PostTyped, Left, Leave, MAX_ENCRYPTED_ACK_REJECTIONS
  <2>3. CASE confirmed /\ detail # Reconnecting
    BY <1>3, <2>1, <2>3
    DEF TypeOK, PostTyped, Left, Leave, LastFailure, MAX_POST_BOND_DISCOVERY_FAILURES
  <2>4. CASE ~confirmed
    BY <2>1, <2>4 DEF TypeOK, PostTyped, Left, Leave
  <2> QED
    BY <2>2, <2>3, <2>4
<1> QED
  BY <1>1, <1>2, <1>3

LEMMA RepairFacts ==
  ASSUME TypeOK, device \in Addresses, ~repairUsed, Repair
  PROVE  PostTyped /\ (Left("scan") \/ Left("failed") \/ Repairs("repair"))
<1>1. CASE handoff > 0
  BY <1>1 DEF TypeOK, Repair, StartRepair, Repairs, PostTyped, peer_vars
<1>2. CASE ~(handoff > 0)
  <2>1. RetryWith("iphone_bond_repair_timeout", secure) /\ secure \in BOOLEAN
    BY <1>2 DEF Repair, Retry, TypeOK
  <2> QED
    BY <1>2, <2>1, RetryFacts DEF Repairs
<1> QED
  BY <1>1, <1>2

\* Where an attempt fails, the types are all that is left to show.
LEMMA FailedInv ==
  ASSUME IInv, TypeOK', pc' = "failed", UNCHANGED <<probe, verified, reused>>
  PROVE  IInv'
BY DEF IInv, PeerInv, CounterInv, CeremonyInv, BondInv, SecureInv, NewBondInv, OldBondInv,
       RepairInv, SuccessIsSecured, CandidatePcs, ClaimedPcs, Over, Repairing

\* A step that leaves the candidate, or goes on to repair it.  It takes no bond of Mine
\* away; it makes one only without the ceremony.
LEMMA LeftInv ==
  ASSUME IInv, TypeOK', CounterInv',
         pc \in CandidatePcs \ {"success"},
         Left("scan") \/ Left("failed") \/ Repairs("repair") \/ Repairs("repair_lost"),
         pc' \in {"repair", "repair_lost"} =>
           /\ device \in verified
           /\ bond'[Mine].level # "none" => bond'[Mine].made # device,
         \/ bond'[Mine] = bond[Mine]
         \/ probe = "none" /\ bond'[Mine].level # "none",
         secure' => secure \/ bond'[Mine].level # "none",
         UNCHANGED <<probe, verified, reused, created, handoff>>
  PROVE  IInv'
<1>1. PeerInv'
  BY DEF IInv, PeerInv, CandidatePcs, ClaimedPcs, Left, Repairs
<1>2. CeremonyInv'
  BY DEF IInv, CeremonyInv, Left, Repairs
<1>3. SecureInv'
  BY DEF IInv, BondInv, SecureInv, CandidatePcs, Left, Repairs, Over
<1>4. NewBondInv' /\ OldBondInv'
  BY DEF IInv, BondInv, NewBondInv, OldBondInv, CeremonyInv, CandidatePcs, Left, Repairs, Over
<1>5. RepairInv'
  <2>1. CASE Left("scan") \/ Left("failed")
    BY <2>1 DEF RepairInv, Repairing, Left
  <2>2. CASE Repairs("repair") \/ Repairs("repair_lost")
    BY <2>2 DEF Repairs, IInv, PeerInv, RepairInv, Saved, phone
  <2> QED
    BY <2>1, <2>2
<1>6. SuccessIsSecured'
  BY DEF SuccessIsSecured, Left, Repairs
<1> QED
  BY <1>1, <1>2, <1>3, <1>4, <1>5, <1>6 DEF IInv, BondInv

\* A retry of a candidate, if the bond of Mine stays: the one that was taken for an old
\* bond was not made under this address.
LEMMA RetryInv ==
  ASSUME IInv, TypeOK', CounterInv',
         pc \in CandidatePcs \ {"success"},
         NEW detail, NEW confirmed \in BOOLEAN, RetryWith(detail, confirmed),
         bond'[Mine] = bond[Mine],
         secure' => secure \/ bond'[Mine].level # "none",
         UNCHANGED <<probe, verified, reused, created, handoff>>
  PROVE  IInv'
<1>1. device \in Addresses /\ TypeOK
  BY DEF IInv, PeerInv
<1>2. Left("scan") \/ Left("failed") \/ (Repairs("repair_lost") /\ device \in reused)
  BY <1>1, RetryFacts
<1>3. pc' \in {"repair", "repair_lost"} =>
        /\ device \in verified
        /\ bond'[Mine].level # "none" => bond'[Mine].made # device
  BY <1>1, <1>2 DEF Left, Repairs, IInv, TypeOK, BondInv, OldBondInv, CandidatePcs, Over
<1> QED
  BY <1>2, <1>3, LeftInv

-----------------------------------------------------------------------------
(* The types                                                               *)

\* What a step may make of the bond of the candidate.
LEMMA BondTypes ==
  ASSUME bond \in [Phones -> Bonds], device \in Addresses
  PROVE  /\ phone \in Phones /\ Saved \in {"none", "weak", "auth"}
         /\ \A b \in Bonds : [bond EXCEPT ![phone] = b] \in [Phones -> Bonds]
         /\ \A level \in {"none", "weak", "auth"} :
              Made(level) \in Bonds /\ [level |-> level, made |-> NoAddress] \in Bonds
         /\ NoBond \in Bonds
BY GattAssumption DEF phone, Saved, Made, Bonds, NoBond

\* A lease is started once.
LEMMA LeasedFacts ==
  ASSUME TypeOK
  PROVE  /\ Leased(HandoffTTL) \in Unset .. HandoffTTL
         /\ handoff # 0 <=> Leased(HandoffTTL) # 0
         /\ handoff # Unset => Leased(HandoffTTL) = handoff
BY GattAssumption DEF TypeOK, Leased, Unset

LEMMA TypeStep ==
  ASSUME IInv, [Next]_vars
  PROVE  TypeOK'
<1> USE DEF IInv
<1>0. pc \in CandidatePcs => device \in Addresses
  BY DEF PeerInv
<1>t. TypeOK
  OBVIOUS
<1>1. CASE UNCHANGED vars
  BY <1>1 DEF TypeOK, vars, beacon_vars, peer_vars, known_vars, count_vars, post_vars, time_vars
<1>2. ASSUME PostTyped, Left("scan") \/ Left("failed") \/ Repairs("repair") \/ Repairs("repair_lost"),
             bond' \in [Phones -> Bonds],
             UNCHANGED <<probe, beacon_vars, known_vars, count_vars, time_vars>>
      PROVE  TypeOK'
  BY <1>2 DEF TypeOK, PostTyped, Left, Repairs, beacon_vars, known_vars, count_vars, time_vars
<1>3. ASSUME NEW a \in Addresses, Found(a)
      PROVE  TypeOK'
  BY <1>3, LeasedFacts DEF Found, TypeOK, known_vars, count_vars, post_vars
<1>4. CASE TooWeak
  BY <1>4, LeasedFacts DEF TooWeak, TypeOK, beacon_vars, peer_vars, known_vars, count_vars, post_vars
<1>5. CASE TimeIsUp
  BY <1>2, <1>5, <1>t, FailFacts DEF TimeIsUp, TypeOK
<1>6. CASE CandidateTimesOut
  <2>1. device \in Addresses /\ RetryWith("timeout", secure) /\ secure \in BOOLEAN
    BY <1>0, <1>6 DEF CandidateTimesOut, Retry, TypeOK, Over, CandidatePcs
  <2>2. bond' \in [Phones -> Bonds]
    BY <1>6, <2>1, BondTypes DEF CandidateTimesOut, TypeOK
  <2> QED
    BY <1>2, <1>6, <1>t, <2>1, <2>2, RetryFacts DEF CandidateTimesOut
<1>a. ASSUME pc = "open"
      PROVE  device \in Addresses /\ \A b \in PairsFirst : b \in [Phones -> Bonds]
  BY <1>0, <1>a, BondTypes DEF PairsFirst, TypeOK, CandidatePcs
<1>7. CASE Opened
  BY <1>7, <1>a DEF Opened, TypeOK, beacon_vars, peer_vars, known_vars, post_vars, time_vars,
                   MAX_INITIAL_DISCOVERY_FAILURES
<1>8. CASE NotOpened
  <2>1. device \in Addresses /\ bond' \in [Phones -> Bonds] /\ secure \in BOOLEAN
        /\ UNCHANGED <<probe, beacon_vars, known_vars, rejections, time_vars>>
    BY <1>8, <1>a DEF NotOpened, TypeOK
  <2>2. Left("scan") \/ Left("failed") \/ Repairs("repair_lost")
    BY <1>8, <1>t, <2>1, RetryFacts, FailFacts DEF NotOpened, Retry
  <2>3. PostTyped
    BY <1>8, <1>t, <2>1, RetryFacts, FailFacts DEF NotOpened, Retry
  <2>4. discovery' \in [Addresses -> 0 .. MAX_INITIAL_DISCOVERY_FAILURES]
    <3>1. discovery[device] + 1 \in 0 .. MAX_INITIAL_DISCOVERY_FAILURES
      BY <1>8, <2>1
      DEF NotOpened, TypeOK, CounterInv, Over, MAX_INITIAL_DISCOVERY_FAILURES
    <3> QED
      BY <1>8, <2>1, <3>1 DEF NotOpened, TypeOK
  <2> QED
    BY <2>1, <2>2, <2>3, <2>4
    DEF TypeOK, PostTyped, Left, Repairs, beacon_vars, known_vars, time_vars
<1>9. CASE SessionRead
  <2>1. device \in Addresses /\ secure \in BOOLEAN
    BY <1>0, <1>9 DEF SessionRead, TypeOK, CandidatePcs
  <2>2. CASE pc' = "claim" /\ UNCHANGED <<peer_vars, post_vars>>
    BY <1>9, <2>2
    DEF SessionRead, TypeOK, beacon_vars, peer_vars, known_vars, count_vars, post_vars, time_vars
  <2>3. CASE Again \/ Retry("unreadable")
    BY <1>2, <1>9, <1>t, <2>1, <2>3, RetryFacts, AgainFacts DEF SessionRead, Retry, TypeOK
  <2> QED
    BY <1>9, <2>2, <2>3 DEF SessionRead
<1>10. CASE ClaimRead
  <2>1. device \in Addresses /\ secure \in BOOLEAN /\ Checked(phone = Mine)
    BY <1>0, <1>10 DEF ClaimRead, Checked, TypeOK, CandidatePcs
  <2>2. CASE Retry("iphone_claim_rejected") /\ UNCHANGED verified
    BY <1>2, <1>t, <2>1, <2>2, RetryFacts DEF Checked, Retry, TypeOK, known_vars
  <2>3. CASE verified' = verified \cup {device} /\ UNCHANGED <<peer_vars, post_vars>>
             /\ pc' = IF probe = "none" THEN "write" ELSE "probe"
    BY <2>1, <2>3
    DEF Checked, TypeOK, beacon_vars, peer_vars, count_vars, post_vars, time_vars
  <2> QED
    BY <2>1, <2>2, <2>3 DEF Checked
<1>b. ASSUME pc \in ClaimedPcs
      PROVE  device \in verified /\ device \in Addresses
  BY <1>b DEF PeerInv, TypeOK, ClaimedPcs
<1>11. ASSUME NEW again \in BOOLEAN, pc = "probe", Authenticated(again),
              bond' \in [Phones -> Bonds],
              UNCHANGED <<probe, beacon_vars, count_vars, time_vars>>
       PROVE  TypeOK'
  BY <1>11, <1>b
  DEF Authenticated, TypeOK, beacon_vars, count_vars, post_vars, time_vars, ClaimedPcs
<1>12. CASE Reuses
  BY <1>11, <1>12, <1>b, BondTypes DEF Reuses, TypeOK, ClaimedPcs
<1>13. CASE Pairs
  BY <1>11, <1>13, <1>b, BondTypes DEF Pairs, TypeOK, ClaimedPcs
<1>14. CASE TooWeakABond
  BY <1>2, <1>14, <1>b, <1>t, RepairFacts, FailFacts DEF TooWeakABond, TypeOK, ClaimedPcs
<1>15. CASE ProbeFails
  <2>1. bond' \in [Phones -> Bonds]
    BY <1>15, <1>b, BondTypes DEF ProbeFails, TypeOK, ClaimedPcs
  <2> QED
    BY <1>2, <1>15, <1>t, <2>1, FailFacts DEF ProbeFails
<1>16. CASE Written
  BY <1>16 DEF Written, Succeed, TypeOK, beacon_vars, peer_vars, known_vars, count_vars,
               post_vars, time_vars
<1>17. CASE Refused
  BY <1>2, <1>17, <1>b, <1>t, RepairFacts, FailFacts DEF Refused, TypeOK, ClaimedPcs
<1>18. CASE Closed
  <2>1. device \in Addresses /\ secure \in BOOLEAN /\ bond' \in [Phones -> Bonds]
    BY <1>18, <1>b DEF Closed, TypeOK, ClaimedPcs
  <2> QED
    BY <1>2, <1>18, <1>t, <2>1, RetryFacts, FailFacts DEF Closed, Retry
<1>19. CASE NotWritten
  <2>1. /\ device \in verified /\ device \in Addresses
        /\ secure' = TRUE
        /\ UNCHANGED <<probe, beacon_vars, verified, reused, created, discovery, time_vars>>
        /\ ~Over
    BY <1>19, <1>b DEF NotWritten, ClaimedPcs, Over
  <2>2. CASE Authenticates
    <3>1. /\ authed' = authed \cup {device} /\ rejections' = rejections
          /\ bond' \in [Phones -> Bonds]
      BY <2>1, <2>2, BondTypes DEF Authenticates, TypeOK
    <3>2. CASE Fail
      BY <1>t, <2>1, <3>1, <3>2, FailFacts
      DEF TypeOK, PostTyped, Left, beacon_vars, time_vars
    <3>3. CASE Succeed
      BY <2>1, <3>1, <3>3 DEF TypeOK, Succeed, peer_vars, post_vars, beacon_vars, time_vars
    <3> QED
      BY <2>2, <3>2, <3>3 DEF Authenticates
  <2>3. CASE ComesBack
    <3>1. authed' = authed /\ bond' = bond
      BY <2>3 DEF ComesBack
    <3>2. Fail \/ RetryWith(Reconnecting, TRUE)
      BY <2>3 DEF ComesBack
    <3>3. rejections' \in [Addresses -> 0 .. MAX_ENCRYPTED_ACK_REJECTIONS]
      <4>1. rejections[device] + 1 \in 0 .. MAX_ENCRYPTED_ACK_REJECTIONS
        BY <2>1 DEF TypeOK, CounterInv, MAX_ENCRYPTED_ACK_REJECTIONS
      <4> QED
        BY <2>1, <2>3, <4>1 DEF ComesBack, TypeOK
    <3>4. PostTyped /\ (Left("scan") \/ Left("failed") \/ Repairs("repair_lost"))
      BY <1>t, <2>1, <3>2, RetryFacts, FailFacts
    <3> QED
      BY <2>1, <3>1, <3>3, <3>4
      DEF TypeOK, PostTyped, Left, Repairs, beacon_vars, time_vars
  <2> QED
    BY <1>19, <2>2, <2>3 DEF NotWritten
<1>20. CASE NotPaired
  BY <1>20 DEF NotPaired, TypeOK, beacon_vars, peer_vars, known_vars, count_vars, post_vars,
               time_vars
<1>21. CASE PairedNow
  <2>1. /\ device \in Addresses /\ secure' = TRUE /\ bond' \in [Phones -> Bonds]
        /\ UNCHANGED <<probe, beacon_vars, verified, reused, created, authed, count_vars,
                       time_vars>>
    BY <1>21, <1>b, BondTypes DEF PairedNow, TypeOK, ClaimedPcs
  <2>2. CASE pc' = "settle" /\ UNCHANGED <<peer_vars, post_vars>>
    BY <2>1, <2>2 DEF TypeOK, beacon_vars, peer_vars, count_vars, post_vars, time_vars
  <2>3. CASE RetryWith(Reconnecting, TRUE)
    <3>1. PostTyped /\ (Left("scan") \/ Left("failed") \/ Repairs("repair_lost"))
      BY <1>t, <2>1, <2>3, RetryFacts
    <3> QED
      BY <2>1, <3>1
      DEF TypeOK, PostTyped, Left, Repairs, beacon_vars, count_vars, time_vars
  <2> QED
    BY <1>21, <2>2, <2>3 DEF PairedNow
<1>22. CASE PairFails
  <2>1. device \in Addresses /\ secure \in BOOLEAN /\ bond' \in [Phones -> Bonds]
    BY <1>22, <1>b DEF PairFails, TypeOK, ClaimedPcs
  <2> QED
    BY <1>2, <1>22, <1>t, <2>1, RetryFacts, RepairFacts DEF PairFails, Retry
<1>23. CASE Repaired
  <2>1. device \in Addresses /\ bond' \in [Phones -> Bonds]
    BY <1>23, <1>b, BondTypes DEF Repaired, TypeOK, ClaimedPcs
  <2>2. /\ discovery' \in [Addresses -> 0 .. MAX_INITIAL_DISCOVERY_FAILURES]
        /\ rejections' \in [Addresses -> 0 .. MAX_ENCRYPTED_ACK_REJECTIONS]
    BY <1>23, <2>1 DEF Repaired, TypeOK, MAX_INITIAL_DISCOVERY_FAILURES,
                       MAX_ENCRYPTED_ACK_REJECTIONS
  <2>3. /\ postDiscovery' \in 0 .. MAX_POST_BOND_DISCOVERY_FAILURES - 1
        /\ postWrites' \in [Addresses -> 0 .. MAX_ENCRYPTED_ACK_REJECTIONS - 1]
    BY <1>23 DEF Repaired, MAX_POST_BOND_DISCOVERY_FAILURES, MAX_ENCRYPTED_ACK_REJECTIONS
  <2>4. /\ pc' = "scan" /\ device' = NoAddress /\ scoped' = FALSE /\ reuse' = FALSE
        /\ secure' = FALSE /\ authed' \subseteq verified /\ reused' \subseteq verified
        /\ UNCHANGED <<probe, beacon_vars, verified, created, repairUsed, time_vars>>
    BY <1>23 DEF Repaired, Leave, TypeOK
  <2> QED
    BY <2>1, <2>2, <2>3, <2>4 DEF TypeOK, beacon_vars, time_vars
<1>24. CASE RepairFails
  <2>1. bond' \in [Phones -> Bonds]
    BY <1>24, <1>b, BondTypes DEF RepairFails, TypeOK, ClaimedPcs
  <2> QED
    BY <1>2, <1>24, <1>t, <2>1, FailFacts DEF RepairFails
<1>25. CASE BeaconStarts
  BY <1>25 DEF BeaconStarts, TypeOK, peer_vars, known_vars, count_vars, post_vars, time_vars
<1>26. CASE BeaconStartFails
  <2>1. starts' \in 0 .. PROXIMITY_PROVIDER_START_ATTEMPTS
    BY <1>26 DEF BeaconStartFails, TypeOK, CounterInv, PROXIMITY_PROVIDER_START_ATTEMPTS
  <2>2. /\ pc' = "failed" \/ pc' = pc
        /\ device' \in {device, NoAddress}
        /\ scoped' \in {scoped, FALSE} /\ reuse' \in {reuse, FALSE}
    BY <1>26 DEF BeaconStartFails, Leave, peer_vars
  <2>3. UNCHANGED <<probe, beacon, known_vars, count_vars, post_vars, time_vars, bond>>
    BY <1>26 DEF BeaconStartFails
  <2> QED
    BY <2>1, <2>2, <2>3 DEF TypeOK, known_vars, count_vars, post_vars, time_vars
<1>27. CASE BeaconReady
  BY <1>27, LeasedFacts DEF BeaconReady, TypeOK, peer_vars, known_vars, count_vars, post_vars
<1>28. CASE BeaconFails
  BY <1>28, <1>t, FailFacts
  DEF BeaconFails, TypeOK, Left, PostTyped, known_vars, count_vars, time_vars
<1>29. CASE Cancelled
  <2>1. bond' \in [Phones -> Bonds]
    BY <1>29, <1>b, BondTypes DEF Cancelled, TypeOK, ClaimedPcs
  <2> QED
    BY <1>2, <1>29, <1>t, <2>1, FailFacts DEF Cancelled
<1>30. CASE Tick
  BY <1>30, GattAssumption
  DEF Tick, TypeOK, Unset, beacon_vars, peer_vars, known_vars, count_vars, post_vars
<1> QED
  BY <1>1, <1>3, <1>4, <1>5, <1>6, <1>7, <1>8, <1>9, <1>10, <1>12, <1>13, <1>14, <1>15, <1>16,
     <1>17, <1>18, <1>19, <1>20, <1>21, <1>22, <1>23, <1>24, <1>25, <1>26, <1>27, <1>28, <1>29,
     <1>30
  DEF Next, Step, Candidate, Environment

-----------------------------------------------------------------------------
(* The counters                                                            *)

LEMMA CounterStep ==
  ASSUME IInv, [Next]_vars
  PROVE  CounterInv'
<1>0. TypeOK /\ TypeOK' /\ CounterInv /\ (pc \in CandidatePcs => device \in Addresses)
  BY TypeStep DEF IInv, PeerInv
<1>1. ASSUME UNCHANGED count_vars, ~Over, pc' = "start" => pc = "start" /\ starts' = starts
      PROVE  CounterInv'
  BY <1>0, <1>1 DEF CounterInv, count_vars
<1>2. ASSUME pc' = "failed"
      PROVE  CounterInv'
  BY <1>2 DEF CounterInv, Over
<1>3. CASE UNCHANGED vars
  BY <1>0, <1>3 DEF vars, CounterInv, Over, count_vars, beacon_vars
<1>4. CASE \/ \E a \in Addresses : Found(a)
           \/ TooWeak \/ TimeIsUp \/ BeaconStarts \/ BeaconReady \/ BeaconFails
           \/ Cancelled \/ Tick
  <2>1. CASE \/ \E a \in Addresses : Found(a)
             \/ TooWeak \/ BeaconStarts \/ Tick
    BY <1>1, <2>1 DEF Found, TooWeak, BeaconStarts, Tick, Over, beacon_vars
  <2>2. CASE TimeIsUp \/ BeaconFails \/ Cancelled
    BY <1>2, <2>2 DEF TimeIsUp, BeaconFails, Cancelled, Fail, Leave
  <2>3. CASE BeaconReady
    BY <1>0, <2>3 DEF BeaconReady, CounterInv, Over, count_vars
  <2> QED
    BY <1>4, <2>1, <2>2, <2>3
<1>5. CASE BeaconStartFails
  BY <1>0, <1>5 DEF BeaconStartFails, CounterInv, TypeOK, Over, Leave, count_vars,
                    PROXIMITY_PROVIDER_START_ATTEMPTS
<1>6. CASE Repaired
  BY <1>0, <1>6 DEF Repaired, Leave, CounterInv, TypeOK, Over, CandidatePcs,
                    MAX_INITIAL_DISCOVERY_FAILURES, MAX_ENCRYPTED_ACK_REJECTIONS
<1>7. CASE RepairFails \/ ProbeFails
  BY <1>2, <1>7 DEF RepairFails, ProbeFails, Fail, Leave
<1>8. CASE \/ CandidateTimesOut \/ SessionRead \/ ClaimRead \/ Reuses \/ Pairs
           \/ TooWeakABond \/ Written \/ Refused \/ Closed \/ NotPaired \/ PairedNow
           \/ PairFails
  <2>1. pc \in CandidatePcs \ {"success"} /\ device \in Addresses /\ secure \in BOOLEAN
    BY <1>0, <1>8 DEF CandidateTimesOut, SessionRead, ClaimRead, Checked, Reuses, Pairs,
       TooWeakABond, Written, Refused, Closed, NotPaired, PairedNow, PairFails, CandidatePcs,
       Over, TypeOK
  <2>2. \A detail : \A confirmed \in BOOLEAN : RetryWith(detail, confirmed) => pc' # "start"
    BY <1>0, <2>1, RetryFacts DEF Left, Repairs
  <2>3. Repair /\ ~repairUsed => pc' # "start"
    BY <1>0, <2>1, RepairFacts DEF Left, Repairs
  <2>4. pc' # "start"
    BY <1>8, <2>1, <2>2, <2>3
    DEF CandidateTimesOut, SessionRead, ClaimRead, Checked, Reuses, Pairs, Authenticated,
        TooWeakABond, Written, Refused, Closed, NotPaired, PairedNow, PairFails, Succeed, Fail,
        Again, Leave, Retry
  <2>5. UNCHANGED count_vars
    BY <1>8 DEF CandidateTimesOut, SessionRead, ClaimRead, Checked, Reuses, Pairs,
       TooWeakABond, Written, Refused, Closed, NotPaired, PairedNow, PairFails
  <2> QED
    BY <1>1, <2>1, <2>4, <2>5 DEF CandidatePcs, Over
<1>9. CASE Opened
  BY <1>0, <1>9 DEF Opened, CounterInv, TypeOK, Over, CandidatePcs,
                    MAX_INITIAL_DISCOVERY_FAILURES
<1>10. CASE NotOpened
  <2>1. /\ device \in Addresses /\ secure \in BOOLEAN /\ ~Over
        /\ rejections' = rejections
    BY <1>0, <1>10 DEF NotOpened, CandidatePcs, TypeOK, Over
  <2>2. CASE discovery' = discovery /\ Retry("unreachable")
    BY <1>0, <1>1, <2>1, <2>2, RetryFacts DEF Retry, Left, Repairs, count_vars
  <2>3. CASE /\ discovery' = [discovery EXCEPT ![device] = @ + 1]
             /\ discovery[device] + 1 >= MAX_INITIAL_DISCOVERY_FAILURES
             /\ Fail
    BY <1>2, <2>3 DEF Fail, Leave
  <2>4. CASE /\ discovery' = [discovery EXCEPT ![device] = @ + 1]
             /\ ~(discovery[device] + 1 >= MAX_INITIAL_DISCOVERY_FAILURES)
             /\ Retry("unreachable")
    <3>1. pc' # "start"
      BY <1>0, <2>1, <2>4, RetryFacts DEF Retry, Left, Repairs
    <3>2. \A a \in Addresses : discovery'[a] < MAX_INITIAL_DISCOVERY_FAILURES
      BY <1>0, <2>1, <2>4 DEF CounterInv, TypeOK, MAX_INITIAL_DISCOVERY_FAILURES
    <3> QED
      BY <1>0, <2>1, <3>1, <3>2 DEF CounterInv
  <2> QED
    BY <1>10, <2>2, <2>3, <2>4 DEF NotOpened
<1>11. CASE NotWritten
  <2>1. /\ device \in Addresses /\ ~Over /\ discovery' = discovery
    BY <1>0, <1>11 DEF NotWritten, CandidatePcs, Over
  <2>2. CASE Authenticates
    BY <1>1, <2>1, <2>2 DEF Authenticates, Succeed, Fail, Leave, count_vars
  <2>3. CASE rejections' = rejections /\ RetryWith(Reconnecting, TRUE)
    BY <1>0, <1>1, <2>1, <2>3, RetryFacts DEF Left, Repairs, count_vars
  <2>4. CASE Fail
    BY <1>2, <2>4 DEF Fail, Leave
  <2>5. CASE /\ rejections' = [rejections EXCEPT ![device] = @ + 1]
             /\ ~(rejections[device] + 1 >= MAX_ENCRYPTED_ACK_REJECTIONS)
             /\ RetryWith(Reconnecting, TRUE)
    <3>1. pc' # "start"
      BY <1>0, <2>1, <2>5, RetryFacts DEF Left, Repairs
    <3>2. \A a \in Addresses : rejections'[a] < MAX_ENCRYPTED_ACK_REJECTIONS
      BY <1>0, <2>1, <2>5 DEF CounterInv, TypeOK, MAX_ENCRYPTED_ACK_REJECTIONS
    <3> QED
      BY <1>0, <2>1, <3>1, <3>2 DEF CounterInv
  <2> QED
    BY <1>11, <2>2, <2>3, <2>4, <2>5 DEF NotWritten, ComesBack
<1> QED
  BY <1>3, <1>4, <1>5, <1>6, <1>7, <1>8, <1>9, <1>10, <1>11
  DEF Next, Step, Candidate, Environment

-----------------------------------------------------------------------------
(* The invariant is inductive                                              *)

LEMMA InitInv == Init => IInv
<1> SUFFICES ASSUME Init PROVE IInv
  OBVIOUS
<1>1. TypeOK
  <2>1. bond \in [Phones -> Bonds] /\ invite \in 0 .. InviteTTL /\ handoff \in Unset .. HandoffTTL
    BY GattAssumption DEF Init, Unset
  <2>2. /\ starts \in 0 .. PROXIMITY_PROVIDER_START_ATTEMPTS
        /\ discovery \in [Addresses -> 0 .. MAX_INITIAL_DISCOVERY_FAILURES]
        /\ rejections \in [Addresses -> 0 .. MAX_ENCRYPTED_ACK_REJECTIONS]
        /\ postDiscovery \in 0 .. MAX_POST_BOND_DISCOVERY_FAILURES - 1
        /\ postWrites \in [Addresses -> 0 .. MAX_ENCRYPTED_ACK_REJECTIONS - 1]
    BY DEF Init, PROXIMITY_PROVIDER_START_ATTEMPTS, MAX_INITIAL_DISCOVERY_FAILURES,
           MAX_ENCRYPTED_ACK_REJECTIONS, MAX_POST_BOND_DISCOVERY_FAILURES
  <2> QED
    BY <2>1, <2>2 DEF Init, TypeOK
<1>2. PeerInv /\ CeremonyInv /\ SuccessIsSecured
  BY DEF Init, PeerInv, CeremonyInv, SuccessIsSecured, CandidatePcs, ClaimedPcs
<1>3. CounterInv
  BY DEF Init, CounterInv, PROXIMITY_PROVIDER_START_ATTEMPTS, MAX_INITIAL_DISCOVERY_FAILURES,
         MAX_ENCRYPTED_ACK_REJECTIONS
<1>4. bond[Mine].made = NoAddress
  BY GattAssumption DEF Init
<1>5. BondInv
  BY <1>4 DEF Init, BondInv, SecureInv, NewBondInv, OldBondInv, RepairInv, Repairing
<1> QED
  BY <1>1, <1>2, <1>3, <1>5 DEF IInv

\* Steps that look for a candidate, wait or end.
LEMMA SearchInv ==
  ASSUME IInv, TypeOK', CounterInv',
         \/ UNCHANGED vars \/ (\E a \in Addresses : Found(a))
         \/ TooWeak \/ TimeIsUp \/ RepairFails \/ ProbeFails
         \/ BeaconStarts \/ BeaconStartFails \/ BeaconReady \/ BeaconFails \/ Cancelled \/ Tick
  PROVE  IInv'
<1>0. TypeOK /\ PeerInv /\ CeremonyInv /\ BondInv /\ SuccessIsSecured
  BY DEF IInv
<1>1. ASSUME UNCHANGED <<probe, pc, peer_vars, verified, reused, created, secure, repairUsed,
                         bond>>,
             handoff' # 0 => handoff # 0
      PROVE  IInv'
  <2>1. PeerInv' /\ CeremonyInv' /\ SuccessIsSecured'
    BY <1>0, <1>1 DEF PeerInv, CeremonyInv, SuccessIsSecured, Saved, phone, peer_vars
  <2>2. BondInv'
    BY <1>0, <1>1 DEF BondInv, SecureInv, NewBondInv, OldBondInv, RepairInv, Repairing, Saved,
                      phone, Over, peer_vars
  <2> QED
    BY <2>1, <2>2 DEF IInv
<1>2. CASE UNCHANGED vars
  BY <1>1, <1>2 DEF vars, known_vars, post_vars, time_vars
<1>3. ASSUME NEW a \in Addresses, Found(a)
      PROVE  IInv'
  <2>1. /\ pc = "scan" /\ pc' = "open" /\ device' = a /\ handoff # 0
        /\ UNCHANGED <<probe, verified, reused, created, secure, repairUsed, bond>>
    BY <1>3 DEF Found, known_vars, post_vars
  <2>2. PeerInv' /\ CeremonyInv' /\ SuccessIsSecured'
    BY <1>0, <2>1 DEF PeerInv, CeremonyInv, SuccessIsSecured, ClaimedPcs
  <2>3. BondInv'
    BY <1>0, <2>1 DEF BondInv, SecureInv, NewBondInv, OldBondInv, RepairInv, Repairing, Over
  <2> QED
    BY <2>2, <2>3 DEF IInv
<1>4. CASE TooWeak
  BY <1>1, <1>4 DEF TooWeak, Unset, known_vars, post_vars
<1>5. CASE TimeIsUp \/ RepairFails \/ ProbeFails \/ BeaconFails \/ Cancelled
  BY <1>5, FailedInv
  DEF TimeIsUp, RepairFails, ProbeFails, BeaconFails, Cancelled, Fail, Leave, known_vars
<1>6. CASE BeaconStarts
  <2>1. /\ pc = "start" /\ pc' = "scan"
        /\ UNCHANGED <<probe, verified, reused, created, secure, repairUsed, bond>>
    BY <1>6 DEF BeaconStarts, known_vars, post_vars
  <2>2. PeerInv' /\ CeremonyInv' /\ SuccessIsSecured'
    BY <1>0, <2>1 DEF PeerInv, CeremonyInv, SuccessIsSecured, CandidatePcs, ClaimedPcs
  <2>3. BondInv'
    BY <1>0, <2>1 DEF BondInv, SecureInv, NewBondInv, OldBondInv, RepairInv, Repairing, Over
  <2> QED
    BY <2>2, <2>3 DEF IInv
<1>7. CASE BeaconStartFails
  BY <1>1, <1>7, FailedInv
  DEF BeaconStartFails, Leave, known_vars, post_vars, time_vars
<1>8. CASE BeaconReady
  BY <1>0, <1>1, <1>8, LeasedFacts DEF BeaconReady, known_vars, post_vars
<1>9. CASE Tick
  BY <1>0, <1>1, <1>9 DEF Tick, TypeOK, Unset, known_vars, post_vars
<1> QED
  BY <1>2, <1>3, <1>4, <1>5, <1>6, <1>7, <1>8, <1>9

\* Windows has the bond of a confirmed candidate: a route pairs no other phone than one
\* that is not Mine.
LEMMA PairsFirstFacts ==
  ASSUME IInv, pc = "open", bond' \in PairsFirst
  PROVE  bond'[Mine] = bond[Mine]
BY GattAssumption
DEF IInv, TypeOK, PeerInv, BondInv, SecureInv, PairsFirst, Saved, phone, CandidatePcs, Over

\* The candidate from its advertisement to the ceremony.
LEMMA CandidateInv ==
  ASSUME IInv, TypeOK', CounterInv',
         Opened \/ NotOpened \/ SessionRead \/ ClaimRead \/ CandidateTimesOut
  PROVE  IInv'
<1>0. TypeOK /\ PeerInv /\ CeremonyInv /\ BondInv /\ SuccessIsSecured /\ secure \in BOOLEAN
  BY DEF IInv, TypeOK
<1>1. CASE Opened
  <2>1. /\ pc = "open" /\ pc' = "session" /\ bond'[Mine] = bond[Mine]
        /\ UNCHANGED <<probe, device, verified, reused, created, secure, repairUsed>>
    BY <1>1, PairsFirstFacts DEF Opened, peer_vars, known_vars, post_vars
  <2>2. PeerInv' /\ CeremonyInv' /\ SuccessIsSecured'
    BY <1>0, <2>1 DEF PeerInv, CeremonyInv, SuccessIsSecured, CandidatePcs, ClaimedPcs
  <2>3. BondInv'
    BY <1>0, <2>1 DEF BondInv, SecureInv, NewBondInv, OldBondInv, RepairInv, Repairing, Over
  <2> QED
    BY <2>2, <2>3 DEF IInv
<1>2. CASE NotOpened
  <2>1. /\ pc = "open" /\ bond'[Mine] = bond[Mine]
        /\ UNCHANGED <<probe, verified, reused, created, secure, handoff>>
    BY <1>2, PairsFirstFacts DEF NotOpened, known_vars, time_vars
  <2>2. CASE Fail
    BY <2>1, <2>2, FailedInv DEF Fail, Leave
  <2>3. CASE RetryWith("unreachable", secure)
    BY <1>0, <2>1, <2>3, RetryInv DEF CandidatePcs
  <2> QED
    BY <1>2, <2>2, <2>3 DEF NotOpened, Retry
<1>3. CASE SessionRead
  <2>1. /\ pc = "session" /\ bond' = bond
        /\ UNCHANGED <<probe, verified, reused, created, secure, handoff>>
    BY <1>3 DEF SessionRead, known_vars, time_vars
  <2>2. CASE pc' = "claim" /\ UNCHANGED <<peer_vars, post_vars>>
    <3>1. PeerInv' /\ CeremonyInv' /\ SuccessIsSecured'
      BY <1>0, <2>1, <2>2
      DEF PeerInv, CeremonyInv, SuccessIsSecured, CandidatePcs, ClaimedPcs, peer_vars
    <3>2. BondInv'
      BY <1>0, <2>1, <2>2
      DEF BondInv, SecureInv, NewBondInv, OldBondInv, RepairInv, Repairing, Over, post_vars
    <3> QED
      BY <3>1, <3>2 DEF IInv
  <2>3. CASE Again
    BY <1>0, <2>1, <2>3, AgainFacts, LeftInv DEF CandidatePcs, Left
  <2>4. CASE RetryWith("unreadable", secure)
    BY <1>0, <2>1, <2>4, RetryInv DEF CandidatePcs
  <2> QED
    BY <1>3, <2>2, <2>3, <2>4 DEF SessionRead, Retry
<1>4. CASE ClaimRead
  <2>1. /\ pc = "claim" /\ bond' = bond
        /\ UNCHANGED <<probe, reused, created, secure, handoff>>
    BY <1>4 DEF ClaimRead, Checked, time_vars
  <2>2. CASE RetryWith("iphone_claim_rejected", secure) /\ UNCHANGED verified
    BY <1>0, <2>1, <2>2, RetryInv DEF CandidatePcs
  <2>3. CASE /\ phone = Mine
             /\ verified' = verified \cup {device}
             /\ pc' = IF probe = "none" THEN "write" ELSE "probe"
             /\ UNCHANGED <<peer_vars, post_vars>>
    <3>1. PeerInv' /\ CeremonyInv' /\ SuccessIsSecured'
      BY <1>0, <2>1, <2>3
      DEF PeerInv, CeremonyInv, SuccessIsSecured, CandidatePcs, ClaimedPcs, phone, peer_vars
    <3>2. BondInv'
      BY <1>0, <2>1, <2>3
      DEF BondInv, SecureInv, NewBondInv, OldBondInv, RepairInv, Repairing, Over, post_vars
    <3> QED
      BY <3>1, <3>2 DEF IInv
  <2> QED
    BY <1>4, <2>2, <2>3 DEF ClaimRead, Checked, Retry
<1>5. CASE CandidateTimesOut
  <2>1. /\ pc \in CandidatePcs \ {"success"} /\ pc # "repair_lost" /\ handoff = 0
        /\ device \in Addresses
        /\ RetryWith("timeout", secure)
        /\ UNCHANGED <<probe, verified, reused, created, secure, handoff>>
    BY <1>0, <1>5
    DEF CandidateTimesOut, TypeOK, PeerInv, Over, Retry, CandidatePcs, known_vars, time_vars
  <2>2. CASE bond' = bond
    BY <1>0, <2>1, <2>2, RetryInv
  <2>3. CASE pc = "repair" /\ bond' = [bond EXCEPT ![phone] = NoBond]
    <3>1. bond'[Mine] = NoBond \/ bond'[Mine] = bond[Mine]
      BY <1>0, <2>3, GattAssumption DEF TypeOK
    <3>2. Left("scan") \/ Left("failed")
      BY <1>0, <2>1, RetryFacts DEF Repairs
    <3>3. repairUsed' = TRUE
      BY <1>0, <2>3, <3>2 DEF BondInv, RepairInv, Repairing, Left, TypeOK
    <3>4. PeerInv' /\ CeremonyInv' /\ SuccessIsSecured'
      BY <1>0, <2>1, <3>2
      DEF PeerInv, CeremonyInv, SuccessIsSecured, Left, CandidatePcs, ClaimedPcs
    <3>5. BondInv'
      BY <1>0, <2>1, <2>3, <3>1, <3>2, <3>3
      DEF BondInv, SecureInv, NewBondInv, OldBondInv, RepairInv, Repairing, Left, Over, NoBond
    <3> QED
      BY <3>4, <3>5 DEF IInv
  <2> QED
    BY <1>5, <2>2, <2>3 DEF CandidateTimesOut
<1> QED
  BY <1>1, <1>2, <1>3, <1>4, <1>5

\* The ceremony.
LEMMA CeremonyStepInv ==
  ASSUME IInv, TypeOK', CounterInv',
         Reuses \/ Pairs \/ TooWeakABond
  PROVE  IInv'
<1>0. TypeOK /\ PeerInv /\ CeremonyInv /\ BondInv /\ SuccessIsSecured /\ secure \in BOOLEAN
  BY DEF IInv, TypeOK
<1>1. /\ pc = "probe" /\ probe # "none" /\ probe' = probe
      /\ device \in verified /\ device \in Addresses /\ phone = Mine
      /\ bond[Mine] \in Bonds
  BY <1>0, GattAssumption
  DEF Reuses, Pairs, TooWeakABond, TypeOK, PeerInv, CeremonyInv, ClaimedPcs, phone
<1>2. NewBondInv /\ OldBondInv
  BY <1>0 DEF BondInv
<1>3. ASSUME NEW again \in BOOLEAN, Authenticated(again),
             bond'[Mine].level = "auth", NewBondInv', OldBondInv'
      PROVE  IInv'
  <2>1. PeerInv' /\ CeremonyInv' /\ SuccessIsSecured'
    BY <1>0, <1>1, <1>3
    DEF PeerInv, CeremonyInv, SuccessIsSecured, Authenticated, CandidatePcs, ClaimedPcs, phone,
        Saved
  <2>2. SecureInv' /\ RepairInv'
    BY <1>3 DEF SecureInv, RepairInv, Repairing, Authenticated
  <2> QED
    BY <1>3, <2>1, <2>2 DEF IInv, BondInv
<1>4. CASE Reuses
  <2>1. Authenticated(TRUE) /\ reused' \subseteq reused \cup {device}
        /\ created' = created /\ repairUsed' = repairUsed
    BY <1>4 DEF Reuses, Authenticated, post_vars
  <2>2. CASE Saved = "auth" /\ UNCHANGED bond
    <3>1. bond'[Mine].level = "auth" /\ bond'[Mine] = bond[Mine]
      BY <1>1, <2>2 DEF Saved
    <3>2. NewBondInv'
      BY <1>1, <1>2, <2>1, <3>1 DEF NewBondInv, Over
    <3>3. device \in reused' /\ device \notin reused => bond[Mine].made # device
      BY <1>1, <1>2, <2>1, GattAssumption DEF Authenticated, NewBondInv, Over
    <3>4. OldBondInv'
      BY <1>1, <1>2, <2>1, <3>1, <3>3 DEF OldBondInv, Over
    <3> QED
      BY <1>3, <2>1, <3>1, <3>2, <3>4
  <2>3. CASE Saved = "none" /\ bond' = [bond EXCEPT ![phone] = [level |-> "auth", made |-> NoAddress]]
    <3>1. bond[Mine].level = "none" /\ bond'[Mine] = [level |-> "auth", made |-> NoAddress]
      BY <1>0, <1>1, <2>3, GattAssumption DEF Saved, TypeOK
    <3>2. ~repairUsed => reused = {}
      BY <1>1, <1>2, <3>1 DEF OldBondInv, Over
    <3>3. NewBondInv' /\ OldBondInv'
      BY <1>1, <2>1, <3>1, <3>2, GattAssumption DEF NewBondInv, OldBondInv
    <3>4. bond'[Mine].level = "auth"
      BY <3>1
    <3> QED
      BY <1>3, <2>1, <3>3, <3>4
  <2> QED
    BY <1>4, <2>2, <2>3 DEF Reuses
<1>5. CASE Pairs
  <2>1. /\ Authenticated(FALSE) /\ reused' = reused /\ created' = created \cup {device}
        /\ repairUsed' = repairUsed
    BY <1>5 DEF Pairs, Authenticated, post_vars
  <2>2. bond[Mine].level = "none" /\ bond'[Mine] = [level |-> "auth", made |-> device]
    BY <1>0, <1>1, <1>5, GattAssumption DEF Pairs, Made, Saved, TypeOK
  <2>3. ~repairUsed => reused = {}
    BY <1>1, <1>2, <2>2 DEF OldBondInv, Over
  <2>4. NewBondInv' /\ OldBondInv'
    BY <2>1, <2>2, <2>3 DEF NewBondInv, OldBondInv
  <2>5. bond'[Mine].level = "auth"
    BY <2>2
  <2> QED
    BY <1>3, <2>1, <2>4, <2>5
<1>6. CASE TooWeakABond
  <2>1. /\ bond' = bond /\ bond[Mine].level = "weak"
        /\ UNCHANGED <<probe, verified, reused, created, secure, handoff>>
    BY <1>1, <1>6 DEF TooWeakABond, Saved, known_vars, time_vars
  <2>2. bond[Mine].made # device
    BY <1>1, <1>2, <2>1, GattAssumption DEF NewBondInv, Over
  <2>3. CASE Fail
    BY <2>1, <2>3, FailedInv DEF Fail, Leave
  <2>4. CASE ~repairUsed /\ Repair
    BY <1>0, <1>1, <2>1, <2>2, <2>4, RepairFacts, LeftInv DEF CandidatePcs
  <2> QED
    BY <1>0, <1>6, <2>3, <2>4 DEF TooWeakABond
<1> QED
  BY <1>4, <1>5, <1>6

\* The protected write.
LEMMA WriteInv ==
  ASSUME IInv, TypeOK', CounterInv',
         Written \/ Refused \/ Closed \/ NotWritten \/ NotPaired \/ PairedNow \/ PairFails
  PROVE  IInv'
<1>0. TypeOK /\ PeerInv /\ CeremonyInv /\ BondInv /\ SuccessIsSecured /\ secure \in BOOLEAN
  BY DEF IInv, TypeOK
<1>1. /\ pc \in {"write", "settle", "pair"} /\ pc \in CandidatePcs \ {"success"}
      /\ device \in verified /\ device \in Addresses /\ phone = Mine
      /\ UNCHANGED <<probe, verified, reused, created, handoff>>
      /\ bond[Mine] \in Bonds /\ Saved = bond[Mine].level
  BY <1>0, GattAssumption
  DEF Written, Refused, Closed, NotWritten, NotPaired, PairedNow, PairFails, TypeOK, PeerInv,
      CandidatePcs, ClaimedPcs, phone, Saved, known_vars, time_vars
<1>2. ASSUME pc' = "success", device' = device, bond'[Mine].level # "none",
             probe # "none" => bond'[Mine].level = "auth"
      PROVE  IInv'
  <2>1. PeerInv' /\ CeremonyInv' /\ SuccessIsSecured'
    BY <1>0, <1>1, <1>2
    DEF PeerInv, CeremonyInv, SuccessIsSecured, CandidatePcs, ClaimedPcs, phone, Saved
  <2>2. BondInv'
    BY <1>2 DEF BondInv, SecureInv, NewBondInv, OldBondInv, RepairInv, Repairing, Over
  <2> QED
    BY <2>1, <2>2 DEF IInv
<1>3. CASE Fail
  BY <1>1, <1>3, FailedInv DEF Fail, Leave
<1>4. CASE Written
  BY <1>0, <1>1, <1>2, <1>4 DEF Written, Accepts, Succeed, CeremonyInv, peer_vars
<1>5. CASE Refused
  <2>1. CASE ~repairUsed /\ device \notin created /\ Repair
    <3>1. bond[Mine].made # device
      BY <1>0, <1>1, <1>5, <2>1, GattAssumption DEF Refused, BondInv, NewBondInv, Over
    <3>2. bond' = bond /\ secure' = secure
      BY <1>5 DEF Refused, known_vars
    <3> QED
      BY <1>0, <1>1, <2>1, <3>1, <3>2, RepairFacts, LeftInv
  <2> QED
    BY <1>0, <1>3, <1>5, <2>1 DEF Refused
<1>6. CASE Closed
  <2>1. CASE RetryWith(Reconnecting, secure)
    <3>1. bond' = bond /\ secure' = secure
      BY <1>6 DEF Closed, known_vars
    <3> QED
      BY <1>0, <1>1, <2>1, <3>1, RetryInv
  <2> QED
    BY <1>3, <1>6, <2>1 DEF Closed, Retry
<1>7. CASE NotWritten
  <2>1. probe = "none" /\ bond[Mine].level # "none"
    BY <1>0, <1>1, <1>7 DEF NotWritten, CeremonyInv
  <2>2. CASE Authenticates
    <3>1. CASE Succeed /\ bond' = [bond EXCEPT ![phone] = IF Saved = "auth" THEN @ ELSE Made("auth")]
      <4>1. bond'[Mine].level = "auth"
        BY <1>0, <1>1, <3>1, GattAssumption DEF TypeOK, Made
      <4> QED
        BY <1>2, <2>1, <3>1, <4>1 DEF Succeed, peer_vars
    <3> QED
      BY <1>3, <2>2, <3>1 DEF Authenticates
  <2>3. CASE ComesBack
    <3>1. bond' = bond /\ (Fail \/ RetryWith(Reconnecting, TRUE))
      BY <2>3 DEF ComesBack
    <3> QED
      BY <1>1, <1>3, <2>1, <3>1, RetryInv
  <2> QED
    BY <1>7, <2>2, <2>3 DEF NotWritten
<1>8. CASE NotPaired
  <2>1. /\ pc' = "pair" /\ probe = "none" /\ pc = "write"
        /\ UNCHANGED <<device, bond, secure, repairUsed>>
    BY <1>8 DEF NotPaired, peer_vars, known_vars, post_vars
  <2>2. PeerInv' /\ CeremonyInv' /\ SuccessIsSecured'
    BY <1>0, <1>1, <2>1
    DEF PeerInv, CeremonyInv, SuccessIsSecured, CandidatePcs, ClaimedPcs
  <2>3. BondInv'
    BY <1>0, <1>1, <2>1
    DEF BondInv, SecureInv, NewBondInv, OldBondInv, RepairInv, Repairing, Over
  <2> QED
    BY <2>2, <2>3 DEF IInv
<1>9. CASE PairedNow
  <2>1. probe = "none" /\ reused = {} /\ pc = "pair"
    BY <1>0, <1>9 DEF PairedNow, CeremonyInv
  <2>2. bond'[Mine].level # "none" /\ secure' = TRUE
    BY <1>0, <1>1, <1>9, GattAssumption DEF PairedNow, Made, TypeOK
  <2>3. CASE pc' = "settle" /\ UNCHANGED <<peer_vars, post_vars>>
    <3>1. PeerInv' /\ CeremonyInv' /\ SuccessIsSecured'
      BY <1>0, <1>1, <2>1, <2>2, <2>3
      DEF PeerInv, CeremonyInv, SuccessIsSecured, CandidatePcs, ClaimedPcs, phone, Saved,
          peer_vars
    <3>2. BondInv'
      BY <1>1, <2>1, <2>2, <2>3
      DEF BondInv, SecureInv, NewBondInv, OldBondInv, RepairInv, Repairing
    <3> QED
      BY <3>1, <3>2 DEF IInv
  <2>4. CASE RetryWith(Reconnecting, TRUE)
    <3>1. Left("scan") \/ Left("failed")
      BY <1>0, <1>1, <2>1, <2>4, RetryFacts
    <3>2. pc' \notin {"repair", "repair_lost"}
      BY <3>1 DEF Left
    <3> QED
      BY <1>1, <2>1, <2>2, <3>1, <3>2, LeftInv
  <2> QED
    BY <1>9, <2>3, <2>4 DEF PairedNow
<1>10. CASE PairFails
  <2>1. /\ bond' = bond /\ secure' = secure /\ bond[Mine].level = "none"
    BY <1>1, <1>10 DEF PairFails, known_vars
  <2>2. CASE ~repairUsed /\ Repair
    BY <1>0, <1>1, <2>1, <2>2, RepairFacts, LeftInv
  <2>3. CASE RetryWith("pair", secure)
    BY <1>0, <1>1, <2>1, <2>3, RetryInv
  <2> QED
    BY <1>10, <2>2, <2>3 DEF PairFails, Retry
<1> QED
  BY <1>4, <1>5, <1>6, <1>7, <1>8, <1>9, <1>10

\* The repair has removed the bond of the candidate, and no other.
LEMMA RepairedInv ==
  ASSUME IInv, TypeOK', CounterInv', Repaired
  PROVE  IInv'
<1>1. /\ pc' = "scan" /\ secure' = FALSE /\ probe' = probe /\ verified' = verified
      /\ reused' \subseteq reused /\ created' = created /\ repairUsed' = repairUsed
  BY DEF Repaired, Leave
<1>2. repairUsed /\ device \in verified /\ phone = Mine
  BY DEF Repaired, IInv, BondInv, RepairInv, Repairing, PeerInv, ClaimedPcs, phone
<1>3. bond'[Mine] = NoBond
  BY <1>2, GattAssumption DEF Repaired, IInv, TypeOK
<1>4. PeerInv' /\ CeremonyInv' /\ SuccessIsSecured'
  BY <1>1 DEF IInv, PeerInv, CeremonyInv, SuccessIsSecured, CandidatePcs, ClaimedPcs
<1>5. BondInv'
  BY <1>1, <1>2, <1>3
  DEF BondInv, SecureInv, NewBondInv, OldBondInv, RepairInv, Repairing, NoBond
<1> QED
  BY <1>4, <1>5 DEF IInv

LEMMA StepInv == IInv /\ [Next]_vars => IInv'
<1> SUFFICES ASSUME IInv, [Next]_vars PROVE IInv'
  OBVIOUS
<1>1. TypeOK' /\ CounterInv'
  BY TypeStep, CounterStep
<1>2. CASE \/ UNCHANGED vars \/ (\E a \in Addresses : Found(a))
           \/ TooWeak \/ TimeIsUp \/ RepairFails \/ ProbeFails
           \/ BeaconStarts \/ BeaconStartFails \/ BeaconReady \/ BeaconFails \/ Cancelled \/ Tick
  BY <1>1, <1>2, SearchInv
<1>3. CASE Opened \/ NotOpened \/ SessionRead \/ ClaimRead \/ CandidateTimesOut
  BY <1>1, <1>3, CandidateInv
<1>4. CASE Reuses \/ Pairs \/ TooWeakABond
  BY <1>1, <1>4, CeremonyStepInv
<1>5. CASE Written \/ Refused \/ Closed \/ NotWritten \/ NotPaired \/ PairedNow \/ PairFails
  BY <1>1, <1>5, WriteInv
<1>6. CASE Repaired
  BY <1>1, <1>6, RepairedInv
<1> QED
  BY <1>2, <1>3, <1>4, <1>5, <1>6 DEF Next, Step, Candidate, Environment

-----------------------------------------------------------------------------
(* The theorems                                                            *)

\* The invariant holds in every state of an attempt.
THEOREM Invariance == Spec => []IInv
BY InitInv, StepInv, PTL DEF Spec

\* The variables keep their types, and every counter of async_pair the limit at which it
\* ends the attempt.
THEOREM TypeCorrect == Spec => []TypeOK
BY Invariance, PTL DEF IInv

\* An attempt succeeds only with the phone that proved the QR code and a bond that Windows
\* still has, authenticated where the ceremony is used, whatever addresses, refusals,
\* closed links and repairs came before.
THEOREM SuccessSecured == Spec => []SuccessIsSecured
BY Invariance, PTL DEF IInv

\* What may happen to the bond of a phone in a step: only a step of the repair, which is
\* of Mine, takes it away.
LEMMA RemovedOnlyInRepair ==
  ASSUME IInv, [Next]_vars, NEW p \in Phones, Removed(p)
  PROVE  Repairing /\ p = Mine /\ device \in verified /\ bond[Mine].made # device
<1>0. TypeOK /\ PeerInv /\ BondInv /\ bond[p].level # "none"
  BY DEF IInv, Removed
<1>1. ASSUME Repairing, bond' \in {bond, [bond EXCEPT ![phone] = NoBond]}
      PROVE  p = Mine /\ device \in verified /\ bond[Mine].made # device
  <2>1. device \in verified /\ phone = Mine
    BY <1>0, <1>1 DEF Repairing, PeerInv, ClaimedPcs, phone
  <2>2. p = Mine
    BY <1>0, <1>1, <2>1 DEF Removed, TypeOK
  <2> QED
    BY <1>0, <1>1, <2>1, <2>2 DEF BondInv, RepairInv, Saved
<1>2. ASSUME \/ bond' = bond
             \/ /\ phone \in Phones => Saved = "none"
                /\ \E b : bond' = [bond EXCEPT ![phone] = b]
             \/ \E b : bond' = [bond EXCEPT ![phone] = b] /\ b.level # "none"
      PROVE  FALSE
  BY <1>0, <1>2 DEF Removed, TypeOK, Saved
<1>3. CASE Repaired \/ RepairFails \/ Cancelled \/ CandidateTimesOut
  BY <1>1, <1>2, <1>3 DEF Repaired, RepairFails, Cancelled, CandidateTimesOut, Repairing
<1>4. CASE Opened \/ NotOpened
  BY <1>2, <1>4 DEF Opened, NotOpened, PairsFirst
<1>5. CASE Reuses \/ Pairs \/ ProbeFails
  BY <1>2, <1>5 DEF Reuses, Pairs, ProbeFails
<1>6. CASE NotWritten
  BY <1>0, <1>2, <1>6 DEF NotWritten, Authenticates, ComesBack, Made, Saved, TypeOK, Removed
<1>7. CASE PairedNow
  BY <1>0, <1>2, <1>7 DEF PairedNow, Made, Saved, TypeOK, Removed
<1>8. CASE \/ UNCHANGED vars \/ (\E a \in Addresses : Found(a))
           \/ TooWeak \/ TimeIsUp \/ SessionRead \/ ClaimRead \/ TooWeakABond \/ Written
           \/ Refused \/ Closed \/ NotPaired \/ PairFails
           \/ BeaconStarts \/ BeaconStartFails \/ BeaconReady \/ BeaconFails \/ Tick
  BY <1>2, <1>8
  DEF vars, Found, TooWeak, TimeIsUp, SessionRead, ClaimRead, Checked, TooWeakABond, Written,
      Refused, Closed, NotPaired, PairFails, BeaconStarts, BeaconStartFails, BeaconReady,
      BeaconFails, Tick
<1> QED
  BY <1>1, <1>3, <1>4, <1>5, <1>6, <1>7, <1>8 DEF Next, Step, Candidate, Environment

\* A repair begins only where none has been used.
LEMMA RepairBeginsOnce ==
  ASSUME IInv, [Next]_vars, Repairing', ~Repairing
  PROVE  ~repairUsed
<1>0. TypeOK /\ (pc \in CandidatePcs => device \in Addresses) /\ secure \in BOOLEAN
  BY DEF IInv, PeerInv, TypeOK
<1>1. pc' \in {"repair", "repair_lost"} /\ pc \notin {"repair", "repair_lost"}
  BY DEF Repairing
<1>2. ASSUME device \in Addresses,
             (\E detail : \E confirmed \in BOOLEAN : RetryWith(detail, confirmed))
      PROVE  ~repairUsed
  BY <1>0, <1>1, <1>2, RetryFacts DEF Left, Repairs
<1>3. CASE \/ UNCHANGED vars \/ (\E a \in Addresses : Found(a))
           \/ TooWeak \/ TimeIsUp \/ Opened \/ Reuses \/ Pairs \/ ProbeFails \/ Written \/ NotPaired
           \/ Repaired \/ RepairFails \/ BeaconStarts \/ BeaconStartFails \/ BeaconReady
           \/ BeaconFails \/ Cancelled \/ Tick
  BY <1>1, <1>3
  DEF vars, Found, TooWeak, TimeIsUp, Opened, Reuses, Pairs, Authenticated, ProbeFails, Written,
      NotPaired, Repaired, RepairFails, BeaconStarts, BeaconStartFails, BeaconReady,
      BeaconFails, Cancelled, Tick, Succeed, Fail, Leave
<1>4. CASE CandidateTimesOut \/ NotOpened \/ SessionRead \/ ClaimRead \/ Closed
  <2>1. device \in Addresses
    BY <1>0, <1>4 DEF CandidateTimesOut, NotOpened, SessionRead, ClaimRead, Checked, Closed,
                      CandidatePcs, Over, TypeOK
  <2>2. (\E detail : RetryWith(detail, secure)) \/ pc' \notin {"repair", "repair_lost"}
    BY <1>4 DEF CandidateTimesOut, NotOpened, SessionRead, ClaimRead, Checked, Closed, Retry,
                Again, Fail, Leave
  <2> QED
    BY <1>0, <1>1, <1>2, <2>1, <2>2
<1>5. CASE NotWritten \/ PairedNow
  <2>1. device \in Addresses
    BY <1>0, <1>5 DEF NotWritten, PairedNow, CandidatePcs
  <2>2. RetryWith(Reconnecting, TRUE) \/ pc' \notin {"repair", "repair_lost"}
    BY <1>5 DEF NotWritten, PairedNow, Authenticates, ComesBack, Succeed, Fail, Leave
  <2> QED
    BY <1>1, <1>2, <2>1, <2>2
<1>6. CASE TooWeakABond \/ Refused
  BY <1>1, <1>6 DEF TooWeakABond, Refused, Fail, Leave
<1>7. CASE PairFails
  <2>1. device \in Addresses
    BY <1>0, <1>7 DEF PairFails, CandidatePcs
  <2> QED
    BY <1>0, <1>2, <1>7, <2>1 DEF PairFails, Retry
<1> QED
  BY <1>3, <1>4, <1>5, <1>6, <1>7 DEF Next, Step, Candidate, Environment

\* In a whole attempt, address changes included, at most one repair begins, and it takes
\* away no bond but the one of the phone that proved the QR code.
THEOREM OneRepair == Spec => OneRepairOfTheVerified
<1>1. ASSUME IInv, [Next]_vars
      PROVE  [ /\ \A p \in Phones : Removed(p) => Repairing /\ p = Mine /\ device \in verified
               /\ Repairing' /\ ~Repairing => ~repairUsed ]_vars
  BY <1>1, RemovedOnlyInRepair, RepairBeginsOnce
<1> QED
  BY <1>1, Invariance, PTL DEF Spec, OneRepairOfTheVerified

\* The repair takes away no bond that this attempt has made under the address of the
\* candidate: such a bond is never mistaken for an old one.
THEOREM NewBondNeverRemoved == Spec => NewBondKept
<1>1. ASSUME IInv, [Next]_vars
      PROVE  [\A p \in Phones : Removed(p) => bond[p].made # device]_vars
  BY <1>1, RemovedOnlyInRepair
<1> QED
  BY <1>1, Invariance, PTL DEF Spec, NewBondKept

\* The lease of an attempt starts once and is never renewed, whichever retry, repair or
\* beacon comes after: the deadline of the attempt does not move.
THEOREM LeaseNeverRenewed ==
  Spec => [][handoff # Unset => handoff' # Unset /\ handoff' <= handoff]_vars
<1>1. ASSUME IInv, [Next]_vars
      PROVE  [handoff # Unset => handoff' # Unset /\ handoff' <= handoff]_vars
  <2>1. TypeOK /\ handoff \in Int
    BY <1>1 DEF IInv, TypeOK, Unset
  <2>2. ASSUME handoff' = handoff
        PROVE  [handoff # Unset => handoff' # Unset /\ handoff' <= handoff]_vars
    BY <2>1, <2>2
  <2>3. CASE (\E a \in Addresses : Found(a)) \/ TooWeak \/ BeaconReady
    BY <2>1, <2>2, <2>3, LeasedFacts DEF Found, TooWeak, BeaconReady
  <2>4. CASE Tick
    BY <2>1, <2>4 DEF Tick, Unset, TypeOK
  <2>5. CASE \/ UNCHANGED vars \/ Candidate \/ TimeIsUp \/ Repaired \/ RepairFails
             \/ BeaconStarts \/ BeaconStartFails \/ BeaconFails \/ Cancelled
    BY <2>2, <2>5
    DEF Candidate, vars, time_vars, Opened, NotOpened, SessionRead, ClaimRead, Checked, Reuses,
        Pairs, TooWeakABond, ProbeFails, Written, Refused, Closed, NotWritten, NotPaired,
        PairedNow, PairFails, CandidateTimesOut, TimeIsUp, Repaired, RepairFails, BeaconStarts,
        BeaconStartFails, BeaconFails, Cancelled
  <2> QED
    BY <1>1, <2>3, <2>4, <2>5 DEF Next, Step, Environment
<1> QED
  BY <1>1, Invariance, PTL DEF Spec

=============================================================================
