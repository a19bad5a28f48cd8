------------------------------- MODULE Presence -------------------------------
(***************************************************************************)
(* From advertisements to "home" and a room: the receivers that hear one   *)
(* paired phone, their snapshots over MQTT, the scanners of Home Assistant *)
(* that are read every five seconds, and what the coordinator makes of     *)
(* them (custom_components/presence_bridge/coordinator.py,                 *)
(* native_bluetooth.py, and the end of bridge/windows/observer.py).        *)
(*                                                                         *)
(* A time stamp is its age, in ticks of the refresh interval, until it is  *)
(* older than what the code compares it with; a receiver whose clock       *)
(* differs makes it younger or older than it is.                           *)
(***************************************************************************)
EXTENDS Integers, FiniteSets

CONSTANTS
  Bridges,          \* receivers that publish over MQTT
  Scanners,         \* receivers of Home Assistant itself
  NoReceiver,
  Rssi,             \* what a receiver may measure: a set of dBm of each
  Away,             \* away_timeout
  ObserverTimeout,  \* observer_timeout
  ObservationTTL,   \* observation_ttl of a bridge
  RoomFresh,        \* 45 s
  Window,           \* 30 s
  Skew              \* the largest difference of two clocks

Receivers == Bridges \cup Scanners

ASSUME PresenceAssumption ==
  /\ NoReceiver \notin Receivers
  /\ Bridges \cap Scanners = {}
  /\ Rssi \in [Receivers -> SUBSET Int]
  /\ {Away, ObserverTimeout, ObservationTTL, RoomFresh, Window, Skew} \subseteq Nat

VARIABLES
  ahead,     \* how much the clock of a receiver is ahead
  table,     \* what a receiver heard last: its observations, HA's Bluetooth cache
  wire,      \* the last snapshot of a bridge
  online,    \* ObserverState.online
  lastSeen,  \* ObserverState.last_seen
  obs,       \* ObserverState.observations
  state,     \* IdentityState
  refreshed  \* the refresh task ran in this tick

receiver_vars == <<ahead, table, wire>>
observer_vars == <<online, lastSeen, obs>>
vars == <<receiver_vars, observer_vars, state, refreshed>>

-----------------------------------------------------------------------------
(* Ages                                                                    *)

\* None, or too old to matter.
Unknown == Away + ObserverTimeout + ObservationTTL + RoomFresh + Skew + 2
Ages == -Skew .. Unknown

\* Until this age a sighting is remembered.
Remembered == (IF RoomFresh > Away THEN RoomFresh ELSE Away) + Skew + 1

Aged(age, limit) == IF age >= limit THEN Unknown ELSE age + 1

Nothing == [age |-> Unknown, rssi |-> 0]
Sample(age, rssi) == IF age = Unknown THEN Nothing ELSE [age |-> age, rssi |-> rssi]
AgedSample(sample, limit) == Sample(Aged(sample.age, limit), sample.rssi)

\* 0 <= now - seen_at <= limit: neither old nor of the future.
Within(age, limit) == 0 <= age /\ age <= limit

Strengths == {0} \cup UNION {Rssi[r] : r \in Receivers}
Samples == [age : Ages, rssi : Strengths]
States == [home : BOOLEAN, receiver : Receivers \cup {NoReceiver}, rssi : Strengths,
           signal : Ages, seen : Ages]

NotHome == [home |-> FALSE, receiver |-> NoReceiver, rssi |-> 0, signal |-> Unknown,
            seen |-> Unknown]

-----------------------------------------------------------------------------
(* The identity                                                            *)

\* _matches_for_irk
Matches == {r \in Receivers : online'[r] /\ Within(obs'[r].age, Away)}

\* Mutant: the time at which it was resolved.
ResolvedNow(before) ==
  \/ Matches = {} /\ state' = before
  \/ \E r \in Matches :
       state' = [home |-> TRUE, receiver |-> r, rssi |-> obs'[r].rssi, signal |-> 0, seen |-> 0]

\* _resolve_identities: of the receivers that heard the phone lately the present one,
\* unless another is more than 6 dB stronger; the last sighting is the newest of all.
Resolved(before) ==
  \/ Matches = {} /\ state' = before
  \/ \E newest \in Matches :
       LET seen == obs'[newest].age
           recent == {r \in Matches : obs'[r].age - seen <= Window}
           strongest == {r \in recent : \A other \in recent : obs'[other].rssi <= obs'[r].rssi}
           keeps == /\ before.receiver \in recent
                    /\ \A r \in strongest : obs'[before.receiver].rssi + 6 >= obs'[r].rssi
       IN  /\ \A r \in Matches : seen <= obs'[r].age
           /\ \E r \in IF keeps THEN {before.receiver} ELSE strongest :
                state' = [home |-> TRUE, receiver |-> r, rssi |-> obs'[r].rssi,
                          signal |-> obs'[r].age, seen |-> seen]

\* Mutant: only the observers expire.
ExpiredNever == state

\* _expire_runtime_state, of the identity.
Expired == [state EXCEPT !.home = state.seen <= Away]

-----------------------------------------------------------------------------
(* The receivers                                                           *)

\* detection_callback; the cache of Home Assistant.
Hear(r) ==
  /\ \E rssi \in Rssi[r] : table' = [table EXCEPT ![r] = [age |-> 0, rssi |-> rssi]]
  /\ UNCHANGED <<ahead, wire, observer_vars, state, refreshed>>

\* The time stamp of what happened age ticks ago, on the clock of the receiver.
Stamped(r, age) == age - ahead[r]

\* publish_snapshot: the observations within observation_ttl, and a status.
Publish(r) ==
  /\ wire' = [wire EXCEPT ![r] =
       [stamp |-> Stamped(r, 0),
        sample |-> IF table[r].age <= ObservationTTL
                   THEN Sample(Stamped(r, table[r].age), table[r].rssi) ELSE Nothing]]
  /\ UNCHANGED <<ahead, table, observer_vars, state, refreshed>>

-----------------------------------------------------------------------------
(* The coordinator                                                         *)

\* Mutant: the timer alone resolves.
DeliveredOnly(r) ==
  /\ online' = [online EXCEPT ![r] = TRUE]
  /\ lastSeen' = [lastSeen EXCEPT ![r] = wire[r].stamp]
  /\ obs' = [obs EXCEPT ![r] = wire[r].sample]
  /\ UNCHANGED <<receiver_vars, state, refreshed>>

\* _observations_message: the snapshot, however late, and maybe not for the first time.
Delivered(r) ==
  /\ online' = [online EXCEPT ![r] = TRUE]
  /\ lastSeen' = [lastSeen EXCEPT ![r] = wire[r].stamp]
  /\ obs' = [obs EXCEPT ![r] = wire[r].sample]
  /\ Resolved(state)
  /\ UNCHANGED <<receiver_vars, refreshed>>

\* _status_message: the receiver is there, or its connection is lost (the last will).
Status(r, up) ==
  /\ online' = [online EXCEPT ![r] = up]
  /\ lastSeen' = [lastSeen EXCEPT ![r] = IF up THEN Stamped(r, 0) ELSE Unknown]
  /\ obs' = IF up THEN obs ELSE [obs EXCEPT ![r] = Nothing]
  /\ UNCHANGED <<receiver_vars, state, refreshed>>

\* Mutant: polling makes old packets fresh.
PolledNow(r) == IF table[r] # Nothing THEN Sample(0, table[r].rssi) ELSE Nothing

\* refresh_native_observations, of a scanner that scans.
Polled(r) == IF table[r].age <= Away THEN table[r] ELSE Nothing

\* _async_periodic_refresh: the scanners that scan are read, the rest of them and
\* the silent bridges go offline, the identity expires and is resolved.
Refresh(scanning) ==
  /\ online' = [r \in Receivers |-> IF r \in Scanners THEN r \in scanning
                                    ELSE lastSeen[r] <= ObserverTimeout]
  /\ lastSeen' = [r \in Receivers |-> IF r \in Bridges THEN lastSeen[r]
                                      ELSE IF r \in scanning THEN 0 ELSE Unknown]
  /\ obs' = [r \in Receivers |-> CASE ~online'[r] -> Nothing
                                   [] online'[r] /\ r \in Scanners -> Polled(r)
                                   [] online'[r] /\ r \in Bridges -> obs[r]]
  /\ Resolved(Expired)
  /\ refreshed' = TRUE
  /\ UNCHANGED receiver_vars

\* Home Assistant restarts: what is not stored is lost.
Restart ==
  /\ online' = [r \in Receivers |-> FALSE]
  /\ lastSeen' = [r \in Receivers |-> Unknown]
  /\ obs' = [r \in Receivers |-> Nothing]
  /\ state' = NotHome
  /\ UNCHANGED <<receiver_vars, refreshed>>

-----------------------------------------------------------------------------
(* The environment                                                         *)

\* Time passes, one refresh interval, in which the refresh task ran.
Tick ==
  /\ refreshed
  /\ refreshed' = FALSE
  /\ table' = [r \in Receivers |-> AgedSample(table[r], Remembered)]
  /\ wire' = [r \in Bridges |-> [stamp |-> Aged(wire[r].stamp, ObserverTimeout),
                                 sample |-> AgedSample(wire[r].sample, Away)]]
  /\ lastSeen' = [r \in Receivers |-> Aged(lastSeen[r], ObserverTimeout)]
  /\ obs' = [r \in Receivers |-> AgedSample(obs[r], Away)]
  /\ state' = [state EXCEPT !.signal = Aged(@, RoomFresh), !.seen = Aged(@, Away)]
  /\ UNCHANGED <<ahead, online>>

Init ==
  /\ ahead \in {skew \in [Receivers -> -Skew .. Skew] : \A r \in Scanners : skew[r] = 0}
  /\ table = [r \in Receivers |-> Nothing]
  /\ wire = [r \in Bridges |-> [stamp |-> Unknown, sample |-> Nothing]]
  /\ online = [r \in Receivers |-> FALSE]
  /\ lastSeen = [r \in Receivers |-> Unknown]
  /\ obs = [r \in Receivers |-> Nothing]
  /\ state = NotHome
  /\ refreshed = FALSE

-----------------------------------------------------------------------------
(* The specification                                                       *)

Refreshes == \E scanning \in SUBSET Scanners : Refresh(scanning)

Next ==
  \/ \E r \in Receivers : Hear(r)
  \/ \E r \in Bridges : Publish(r) \/ Delivered(r) \/ \E up \in BOOLEAN : Status(r, up)
  \/ Refreshes \/ Restart \/ Tick

Spec == Init /\ [][Next]_vars

\* The refresh task sleeps five seconds between its passes; time passes.
FairSpec == Spec /\ WF_vars(Refreshes) /\ WF_vars(Tick)

-----------------------------------------------------------------------------
(* Properties                                                              *)

\* The variables keep their types.
TypeOK ==
  /\ refreshed \in BOOLEAN
  /\ ahead \in [Receivers -> -Skew .. Skew]
  /\ table \in [Receivers -> Samples]
  /\ wire \in [Bridges -> [stamp : Ages, sample : Samples]]
  /\ online \in [Receivers -> BOOLEAN]
  /\ lastSeen \in [Receivers -> Ages]
  /\ obs \in [Receivers -> Samples]
  /\ state \in States

\* "Polling never makes old packets fresh": the phone is home only if a receiver has really
\* heard it within the time-out, and what the clocks and the refresh interval add,
\* whatever is late, repeated, lost or restarted.
HomeWasHeard ==
  state.home => \E r \in Receivers : table[r].age <= Away + Skew + 1

\* identity_payload: room_fresh
RoomShown == state.home /\ Within(state.signal, RoomFresh)

\* "A room estimate requires a sample no older than 45 seconds": a sample of the receiver
\* whose room it is.
RoomWasHeard ==
  RoomShown => table[state.receiver].age <= RoomFresh + Skew

\* signal_payload: the receiver of the room has a sample that counts.
SignalFresh ==
  LET r == state.receiver
  IN  r # NoReceiver /\ online[r] /\ Within(obs[r].age, Away) /\ obs[r].age <= RoomFresh

\* "Signal uses its own timestamp": the strength that signal_payload reads from the
\* observations and the time it takes from the identity are of the same sample, unless
\* the clock of the receiver is ahead: its samples become valid between two passes.
SampleMatchesTime ==
  LET r == state.receiver
  IN  SignalFresh /\ ahead[r] <= 0
        => obs[r].age = state.signal /\ obs[r].rssi = state.rssi

\* A phone that is heard no more is away in the end, whatever snapshot still arrives.
GoneIsAway ==
  <>[](\A r \in Receivers : table[r] = Nothing) => <>[]~state.home

=============================================================================
