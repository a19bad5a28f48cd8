---------------------------- MODULE PresenceProofs ----------------------------
(***************************************************************************)
(* Theorems about Presence, for every set of receivers, every clock        *)
(* difference and every choice of the time-outs.                           *)
(***************************************************************************)
EXTENDS Presence, TLAPS

\* A time stamp that is known is not younger than what the receiver really heard, but
\* for the difference of the clocks.
Truthful(age, r) == age # Unknown => table[r].age <= age + Skew

SamplesInv ==
  /\ \A r \in Receivers : table[r].age >= 0
  /\ \A r \in Bridges : Truthful(wire[r].sample.age, r)
  /\ \A r \in Receivers : Truthful(obs[r].age, r)

\* The same of what the identity remembers.
StateInv ==
  /\ state.seen # Unknown => \E r \in Receivers : Truthful(state.seen, r)
  /\ state.signal # Unknown => state.receiver \in Receivers /\ Truthful(state.signal, state.receiver)
  /\ state.seen >= 0 /\ state.signal >= 0

\* A phone is home by a sighting that counts, or by one that stopped to count after the
\* last pass of the refresh task.
HomeInv ==
  state.home => \/ state.seen <= Away
                \/ ~refreshed /\ \E r \in Receivers : table[r].age <= Away + Skew + 1

IInv == TypeOK /\ SamplesInv /\ StateInv /\ HomeInv

-----------------------------------------------------------------------------
(* Ages                                                                    *)

LEMMA Limits ==
  /\ Away \in Nat /\ ObserverTimeout \in Nat /\ ObservationTTL \in Nat /\ RoomFresh \in Nat
  /\ Skew \in Nat /\ Window \in Nat
  /\ Unknown \in Nat /\ Remembered \in Nat
  /\ Remembered > Away + Skew /\ Remembered > RoomFresh + Skew
  /\ Remembered < Unknown
BY PresenceAssumption DEF Unknown, Remembered

LEMMA AgedFacts ==
  ASSUME NEW age \in Ages, NEW limit \in Nat, limit < Unknown
  PROVE  /\ Aged(age, limit) \in Ages
         /\ Aged(age, limit) # Unknown => age < limit /\ Aged(age, limit) = age + 1
         /\ age >= 0 => Aged(age, limit) >= 0
BY Limits DEF Aged, Ages

LEMMA LimitsOfAges ==
  /\ Away < Unknown /\ ObserverTimeout < Unknown /\ RoomFresh < Unknown
  /\ ObservationTTL + Skew < Unknown /\ Skew < Unknown /\ 0 < Unknown
BY Limits DEF Unknown

LEMMA SampleTypes ==
  /\ Nothing \in Samples
  /\ \A sample \in Samples, age \in Ages : Sample(age, sample.rssi) \in Samples
  /\ \A sample \in Samples, age \in Ages : Sample(age, sample.rssi).age = age
  /\ \A sample \in Samples, limit \in Nat : limit < Unknown => AgedSample(sample, limit) \in Samples
<1>1. Nothing \in Samples
  BY Limits DEF Nothing, Samples, Strengths, Ages
<1>2. ASSUME NEW sample \in Samples, NEW age \in Ages
      PROVE  Sample(age, sample.rssi) \in Samples /\ Sample(age, sample.rssi).age = age
  BY <1>1, <1>2 DEF Sample, Samples, Nothing
<1>3. ASSUME NEW sample \in Samples, NEW limit \in Nat, limit < Unknown
      PROVE  AgedSample(sample, limit) \in Samples
  <2>1. sample.age \in Ages
    BY DEF Samples
  <2>2. Aged(sample.age, limit) \in Ages
    BY <1>3, <2>1, AgedFacts
  <2> QED
    BY <1>2, <2>2 DEF AgedSample
<1> QED
  BY <1>1, <1>2, <1>3

-----------------------------------------------------------------------------
(* Resolving                                                               *)

\* What resolving makes of the identity.
LEMMA ResolvedFacts ==
  ASSUME NEW before, Resolved(before)
  PROVE  \/ state' = before
         \/ \E newest, r \in Matches :
              state' = [home |-> TRUE, receiver |-> r, rssi |-> obs'[r].rssi,
                        signal |-> obs'[r].age, seen |-> obs'[newest].age]
BY DEF Resolved

\* A pass that keeps what the identity remembers is as truthful as the samples are.
LEMMA ResolvedInv ==
  ASSUME table' = table, table \in [Receivers -> Samples],
         obs' \in [Receivers -> Samples],
         \A r \in Receivers : Truthful(obs'[r].age, r),
         StateInv,
         NEW before \in States,
         before.seen = state.seen, before.signal = state.signal,
         before.receiver = state.receiver,
         Resolved(before)
  PROVE  /\ state' \in States
         /\ StateInv'
         /\ state' = before \/ state'.seen <= Away
<1>1. CASE state' = before
  BY <1>1 DEF StateInv, Truthful
<1>2. ASSUME NEW newest \in Matches, NEW r \in Matches,
             state' = [home |-> TRUE, receiver |-> r, rssi |-> obs'[r].rssi,
                       signal |-> obs'[r].age, seen |-> obs'[newest].age]
      PROVE  /\ state' \in States
             /\ StateInv'
             /\ state'.seen <= Away
  <2>1. /\ newest \in Receivers /\ Within(obs'[newest].age, Away)
        /\ r \in Receivers /\ Within(obs'[r].age, Away)
    BY DEF Matches
  <2>2. obs'[r] \in Samples /\ obs'[newest] \in Samples
    BY <2>1
  <2>3. state' \in States
    BY <1>2, <2>1, <2>2 DEF States, Samples
  <2>4. Truthful(obs'[r].age, r) /\ Truthful(obs'[newest].age, newest)
    BY <2>1
  <2>5. StateInv'
    BY <1>2, <2>1, <2>4 DEF StateInv, Truthful, Within
  <2> QED
    BY <1>2, <2>1, <2>3, <2>5 DEF Within
<1> QED
  BY <1>1, <1>2, ResolvedFacts

-----------------------------------------------------------------------------
(* The invariant                                                           *)

LEMMA InitInv == Init => IInv
<1> SUFFICES ASSUME Init PROVE IInv
  OBVIOUS
<1>1. Nothing \in Samples /\ Nothing.age = Unknown /\ Unknown \in Ages /\ Unknown >= 0
  BY Limits, SampleTypes DEF Nothing, Ages
<1>2. TypeOK
  BY <1>1 DEF Init, TypeOK, States, Strengths, NotHome
<1>3. SamplesInv
  BY <1>1 DEF Init, SamplesInv, Truthful
<1>4. StateInv /\ HomeInv
  BY <1>1 DEF Init, NotHome, StateInv, HomeInv
<1> QED
  BY <1>2, <1>3, <1>4 DEF IInv

\* A receiver hears the phone.
LEMMA HearInv ==
  ASSUME IInv, NEW r \in Receivers, Hear(r)
  PROVE  IInv'
<1> USE DEF IInv
<1>1. PICK rssi \in Rssi[r] : table' = [table EXCEPT ![r] = [age |-> 0, rssi |-> rssi]]
  BY DEF Hear
<1>2. [age |-> 0, rssi |-> rssi] \in Samples
  BY Limits DEF Samples, Strengths, Ages
<1>3. table' \in [Receivers -> Samples]
  BY <1>1, <1>2 DEF TypeOK
<1>4. TypeOK'
  BY <1>3 DEF TypeOK, Hear, observer_vars
<1>5. \A age \in Ages, q \in Receivers : table[q].age <= age + Skew => table'[q].age <= age + Skew
  BY <1>1, Limits DEF TypeOK, Ages
<1>6. SamplesInv'
  <2>1. \A q \in Bridges : wire[q].sample.age \in Ages /\ q \in Receivers
    BY DEF TypeOK, Receivers, Samples
  <2>2. \A q \in Receivers : obs[q].age \in Ages
    BY DEF TypeOK, Samples
  <2>3. \A q \in Receivers : table'[q].age >= 0
    BY <1>1 DEF TypeOK, SamplesInv
  <2> QED
    BY <1>5, <2>1, <2>2, <2>3 DEF SamplesInv, Hear, Truthful, observer_vars
<1>7. StateInv'
  BY <1>5 DEF StateInv, Hear, TypeOK, States, Truthful
<1>8. HomeInv'
  BY <1>1, Limits DEF HomeInv, Hear, TypeOK
<1> QED
  BY <1>4, <1>6, <1>7, <1>8

LEMMA PublishInv ==
  ASSUME IInv, NEW r \in Bridges, Publish(r)
  PROVE  IInv'
<1> USE DEF IInv
<1> DEFINE sample == IF table[r].age <= ObservationTTL
                     THEN Sample(Stamped(r, table[r].age), table[r].rssi) ELSE Nothing
<1>1. /\ r \in Receivers /\ table[r] \in Samples /\ table[r].age \in Ages /\ table[r].age >= 0
      /\ ahead[r] \in -Skew .. Skew
  BY DEF TypeOK, Receivers, Samples, SamplesInv
<1>2. Stamped(r, 0) \in Ages
  BY <1>1, Limits, LimitsOfAges DEF Stamped, Ages
<1>3. sample \in Samples /\ Truthful(sample.age, r)
  <2>1. CASE table[r].age <= ObservationTTL
    <3>1. Stamped(r, table[r].age) \in Ages
      BY <1>1, <2>1, Limits, LimitsOfAges DEF Stamped, Ages
    <3>2. table[r].age <= Stamped(r, table[r].age) + Skew
      BY <1>1, Limits DEF Stamped, Ages
    <3> QED
      BY <1>1, <2>1, <3>1, <3>2, SampleTypes DEF Truthful
  <2>2. CASE ~(table[r].age <= ObservationTTL)
    BY <2>2, SampleTypes DEF Truthful, Nothing
  <2> QED
    BY <2>1, <2>2
<1>4. wire' = [wire EXCEPT ![r] = [stamp |-> Stamped(r, 0), sample |-> sample]]
  BY DEF Publish
<1> HIDE DEF sample
<1>5. TypeOK'
  BY <1>2, <1>3, <1>4 DEF TypeOK, Publish, observer_vars
<1>6. SamplesInv'
  BY <1>3, <1>4 DEF TypeOK, SamplesInv, Truthful, Publish, observer_vars
<1>7. StateInv' /\ HomeInv'
  BY DEF StateInv, HomeInv, Truthful, Publish, observer_vars
<1> QED
  BY <1>5, <1>6, <1>7

\* A snapshot arrives.
LEMMA DeliveredInv ==
  ASSUME IInv, NEW r \in Bridges, Delivered(r)
  PROVE  IInv'
<1> USE DEF IInv
<1>1. r \in Receivers /\ wire[r].sample \in Samples /\ wire[r].stamp \in Ages
  BY DEF TypeOK, Receivers
<1>2. obs' = [obs EXCEPT ![r] = wire[r].sample] /\ obs' \in [Receivers -> Samples]
  BY <1>1 DEF Delivered, TypeOK
<1>3. \A q \in Receivers : Truthful(obs'[q].age, q)
  BY <1>2 DEF TypeOK, SamplesInv
<1>4. state' \in States /\ StateInv' /\ (state' = state \/ state'.seen <= Away)
  BY <1>2, <1>3, ResolvedInv DEF Delivered, TypeOK, receiver_vars
<1>5. TypeOK'
  BY <1>1, <1>2, <1>4 DEF TypeOK, Delivered, receiver_vars
<1>6. SamplesInv'
  BY <1>3 DEF SamplesInv, Truthful, Delivered, receiver_vars
<1>7. HomeInv'
  BY <1>4 DEF HomeInv, Delivered, receiver_vars
<1> QED
  BY <1>4, <1>5, <1>6, <1>7

\* A receiver is there, or it is gone.
LEMMA StatusInv ==
  ASSUME IInv, NEW r \in Bridges, NEW up \in BOOLEAN, Status(r, up)
  PROVE  IInv'
<1> USE DEF IInv
<1>1. r \in Receivers /\ Stamped(r, 0) \in Ages /\ Unknown \in Ages
  BY Limits, LimitsOfAges DEF TypeOK, Receivers, Stamped, Ages
<1>2. TypeOK'
  BY <1>1, SampleTypes DEF TypeOK, Status, receiver_vars
<1>3. SamplesInv'
  BY <1>1 DEF TypeOK, SamplesInv, Truthful, Nothing, Status, receiver_vars
<1>4. StateInv' /\ HomeInv'
  BY DEF StateInv, HomeInv, Truthful, Status, receiver_vars
<1> QED
  BY <1>2, <1>3, <1>4

\* A pass of the refresh task.
LEMMA RefreshInv ==
  ASSUME IInv, NEW scanning \in SUBSET Scanners, Refresh(scanning)
  PROVE  IInv'
<1> USE DEF IInv
<1>1. online' \in [Receivers -> BOOLEAN]
  <2>1. \A r \in Receivers : (r \in scanning) \in BOOLEAN
    OBVIOUS
  <2>2. \A r \in Receivers : (lastSeen[r] <= ObserverTimeout) \in BOOLEAN
    OBVIOUS
  <2> QED
    BY <2>1, <2>2, Zenon DEF Refresh
<1>2. lastSeen' \in [Receivers -> Ages]
  <2>1. 0 \in Ages /\ Unknown \in Ages
    BY Limits DEF Ages
  <2> QED
    BY <2>1 DEF Refresh, TypeOK
<1>3. ASSUME NEW r \in Receivers
      PROVE  obs'[r] \in {Nothing, table[r], obs[r]}
  <2>1. r \in Scanners \/ r \in Bridges
    BY DEF Receivers
  <2>2. obs'[r] = CASE ~online'[r] -> Nothing
                     [] online'[r] /\ r \in Scanners -> Polled(r)
                     [] online'[r] /\ r \in Bridges -> obs[r]
    BY DEF Refresh
  <2>3. CASE ~online'[r]
    BY <2>2, <2>3
  <2>4. CASE online'[r] /\ r \in Scanners
    BY <2>2, <2>4, PresenceAssumption DEF Polled
  <2>5. CASE online'[r] /\ r \in Bridges
    BY <2>2, <2>5, PresenceAssumption
  <2> QED
    BY <2>1, <2>3, <2>4, <2>5
<1>4. obs' \in [Receivers -> Samples]
  <2> DEFINE next(r) == CASE ~online'[r] -> Nothing
                          [] online'[r] /\ r \in Scanners -> Polled(r)
                          [] online'[r] /\ r \in Bridges -> obs[r]
  <2>1. obs' = [r \in Receivers |-> next(r)]
    BY DEF Refresh
  <2> HIDE DEF next
  <2> QED
    BY <1>3, <2>1, SampleTypes DEF TypeOK
<1>5. \A r \in Receivers : Truthful(obs'[r].age, r)
  <2>1. \A r \in Receivers : Truthful(table[r].age, r) /\ Truthful(Nothing.age, r)
    BY Limits DEF Truthful, Nothing, TypeOK, Samples, Ages
  <2> QED
    BY <1>3, <2>1 DEF SamplesInv
<1>6. /\ Expired.home \in BOOLEAN
      /\ Expired \in States
      /\ Expired.seen = state.seen /\ Expired.signal = state.signal
      /\ Expired.receiver = state.receiver
      /\ Expired.home => state.seen <= Away
  <2>1. (state.seen <= Away) \in BOOLEAN
    OBVIOUS
  <2>2. \A home \in BOOLEAN :
          /\ [state EXCEPT !.home = home] \in States
          /\ [state EXCEPT !.home = home].home = home
          /\ [state EXCEPT !.home = home].seen = state.seen
          /\ [state EXCEPT !.home = home].signal = state.signal
          /\ [state EXCEPT !.home = home].receiver = state.receiver
    BY DEF TypeOK, States
  <2> QED
    BY <2>1, <2>2, Zenon DEF Expired
<1>7. state' \in States /\ StateInv' /\ (state' = Expired \/ state'.seen <= Away)
  BY <1>4, <1>5, <1>6, ResolvedInv DEF Refresh, TypeOK, receiver_vars
<1>8. TypeOK'
  BY <1>1, <1>2, <1>4, <1>7 DEF TypeOK, Refresh, receiver_vars
<1>9. SamplesInv'
  BY <1>5 DEF SamplesInv, Truthful, Refresh, receiver_vars
<1>10. HomeInv'
  BY <1>6, <1>7 DEF HomeInv
<1> QED
  BY <1>7, <1>8, <1>9, <1>10

LEMMA RestartInv ==
  ASSUME IInv, Restart
  PROVE  IInv'
<1> USE DEF IInv
<1>1. Nothing \in Samples /\ Unknown \in Ages /\ Unknown >= 0
  BY Limits, SampleTypes DEF Ages
<1>2. TypeOK'
  BY <1>1 DEF TypeOK, Restart, receiver_vars, NotHome, States, Strengths
<1>3. SamplesInv'
  BY DEF SamplesInv, Truthful, Nothing, Restart, receiver_vars
<1>4. StateInv' /\ HomeInv'
  BY <1>1 DEF StateInv, HomeInv, Restart, NotHome
<1> QED
  BY <1>2, <1>3, <1>4

\* Time passes: every age grows, or it does not count any more.
LEMMA TickInv ==
  ASSUME IInv, Tick
  PROVE  IInv'
<1> USE DEF IInv
<1>1. Remembered < Unknown /\ ObserverTimeout < Unknown /\ Away < Unknown /\ RoomFresh < Unknown
  BY Limits, LimitsOfAges
<1>2. /\ table' = [r \in Receivers |-> AgedSample(table[r], Remembered)]
      /\ wire' = [r \in Bridges |-> [stamp |-> Aged(wire[r].stamp, ObserverTimeout),
                                     sample |-> AgedSample(wire[r].sample, Away)]]
      /\ lastSeen' = [r \in Receivers |-> Aged(lastSeen[r], ObserverTimeout)]
      /\ obs' = [r \in Receivers |-> AgedSample(obs[r], Away)]
      /\ state' = [state EXCEPT !.signal = Aged(@, RoomFresh), !.seen = Aged(@, Away)]
      /\ refreshed /\ ~refreshed'
      /\ ahead' = ahead /\ online' = online
  BY DEF Tick
<1>3. TypeOK'
  <2>1. table' \in [Receivers -> Samples] /\ obs' \in [Receivers -> Samples]
    BY <1>1, <1>2, Limits, SampleTypes DEF TypeOK
  <2>2. wire' \in [Bridges -> [stamp : Ages, sample : Samples]]
    BY <1>1, <1>2, Limits, SampleTypes, AgedFacts DEF TypeOK
  <2>3. lastSeen' \in [Receivers -> Ages]
    BY <1>1, <1>2, Limits, AgedFacts DEF TypeOK
  <2>4. state' \in States
    BY <1>1, <1>2, Limits, AgedFacts DEF TypeOK, States
  <2> QED
    BY <1>2, <2>1, <2>2, <2>3, <2>4 DEF TypeOK, Tick
<1>4. ASSUME NEW r \in Receivers, table[r].age < Remembered
      PROVE  table'[r].age = table[r].age + 1
  <2>1. table[r] \in Samples /\ table[r].age \in Ages
    BY DEF TypeOK, Samples
  <2>2. Aged(table[r].age, Remembered) \in Ages /\ Aged(table[r].age,
  Remembered) = table[r].age + 1
    BY <1>1, <1>4, <2>1, Limits, AgedFacts DEF Aged, Ages
  <2> QED
    BY <1>2, <2>1, <2>2, SampleTypes DEF AgedSample
\* A time stamp that still counts after the tick stays truthful.
<1>5. ASSUME NEW r \in Receivers, NEW age \in Ages, NEW limit \in {Away, RoomFresh},
             Truthful(age, r), Aged(age, limit) # Unknown
      PROVE  table'[r].age <= Aged(age, limit) + Skew
  <2>1. age < limit /\ Aged(age, limit) = age + 1 /\ age # Unknown
    BY <1>1, <1>5, AgedFacts, Limits DEF Ages
  <2>2. table[r].age <= age + Skew /\ table[r].age \in Ages
    BY <1>5, <2>1 DEF Truthful, TypeOK, Samples
  <2>3. table[r].age < Remembered
    BY <2>1, <2>2, Limits DEF Ages
  <2> QED
    BY <1>4, <2>1, <2>2, <2>3, Limits DEF Ages
<1>6. \A sample \in Samples : AgedSample(sample, Away).age = Aged(sample.age, Away)
  BY <1>1, Limits, SampleTypes, AgedFacts DEF AgedSample, Samples
<1>7. SamplesInv'
  <2>1. \A r \in Receivers : table'[r].age >= 0
    <3>1. ASSUME NEW r \in Receivers
          PROVE  table'[r].age >= 0
      <4>1. table[r] \in Samples /\ table[r].age \in Ages /\ table[r].age >= 0
        BY DEF TypeOK, Samples, SamplesInv
      <4>2. table'[r].age = Aged(table[r].age, Remembered)
        BY <1>1, <1>2, <4>1, Limits, SampleTypes, AgedFacts DEF AgedSample
      <4> QED
        BY <1>1, <4>1, <4>2, Limits, AgedFacts
    <3> QED
      BY <3>1
  <2>2. ASSUME NEW r \in Bridges, wire'[r].sample.age # Unknown
        PROVE  table'[r].age <= wire'[r].sample.age + Skew
    <3>1. r \in Receivers /\ wire[r].sample \in Samples /\ wire[r].sample.age \in Ages
      BY DEF TypeOK, Receivers, Samples
    <3>2. wire'[r].sample.age = Aged(wire[r].sample.age, Away)
      BY <1>2, <1>6, <3>1
    <3> QED
      BY <1>5, <2>2, <3>1, <3>2 DEF SamplesInv
  <2>3. ASSUME NEW r \in Receivers, obs'[r].age # Unknown
        PROVE  table'[r].age <= obs'[r].age + Skew
    <3>1. obs[r] \in Samples /\ obs[r].age \in Ages
      BY DEF TypeOK, Samples
    <3>2. obs'[r].age = Aged(obs[r].age, Away)
      BY <1>2, <1>6, <3>1
    <3> QED
      BY <1>5, <2>3, <3>1, <3>2 DEF SamplesInv
  <2> QED
    BY <2>1, <2>2, <2>3 DEF SamplesInv, Truthful
<1>8. /\ state'.seen = Aged(state.seen, Away) /\ state'.signal = Aged(state.signal, RoomFresh)
      /\ state'.receiver = state.receiver /\ state'.home = state.home
      /\ state.seen \in Ages /\ state.signal \in Ages
  BY <1>2 DEF TypeOK, States
<1>9. state'.seen # Unknown => state.seen # Unknown /\ state.seen < Away
  BY <1>1, <1>8, AgedFacts, Limits DEF Ages
<1>10. state'.signal # Unknown => state.signal # Unknown
  BY <1>1, <1>8, AgedFacts, Limits DEF Ages
<1>11. StateInv'
  <2>1. state'.seen # Unknown => \E r \in Receivers : table'[r].age <= state'.seen + Skew
    BY <1>5, <1>8, <1>9 DEF StateInv
  <2>2. state'.signal # Unknown => /\ state'.receiver \in Receivers
                                   /\ table'[state'.receiver].age <= state'.signal + Skew
    BY <1>5, <1>8, <1>10 DEF StateInv
  <2>3. state'.seen >= 0 /\ state'.signal >= 0
    BY <1>1, <1>8, AgedFacts, Limits DEF StateInv
  <2> QED
    BY <2>1, <2>2, <2>3 DEF StateInv, Truthful
<1>12. HomeInv'
  <2> SUFFICES ASSUME state'.home
               PROVE  \E r \in Receivers : table'[r].age <= Away + Skew + 1
    BY <1>2 DEF HomeInv
  <2>1. state.seen <= Away /\ state.seen # Unknown
    BY <1>1, <1>2, <1>8, Limits DEF HomeInv, Ages
  <2>2. PICK r \in Receivers : table[r].age <= state.seen + Skew
    BY <2>1 DEF StateInv, Truthful
  <2>3. table[r].age \in Ages /\ table[r].age <= Away + Skew
    BY <1>8, <2>1, <2>2, Limits DEF TypeOK, Samples, Ages
  <2>4. table'[r].age = table[r].age + 1
    BY <1>4, <2>3, Limits DEF Ages
  <2> QED
    BY <2>3, <2>4, Limits DEF Ages
<1> QED
  BY <1>3, <1>7, <1>11, <1>12

\* Every step keeps the invariant.
LEMMA StepInv == IInv /\ [Next]_vars => IInv'
<1> SUFFICES ASSUME IInv, [Next]_vars PROVE IInv'
  OBVIOUS
<1>1. CASE UNCHANGED vars
  BY <1>1 DEF vars, receiver_vars, observer_vars, IInv, TypeOK, SamplesInv, StateInv, HomeInv,
              Truthful
<1>2. CASE \E r \in Receivers : Hear(r)
  BY <1>2, HearInv
<1>3. CASE \E r \in Bridges : Publish(r)
  BY <1>3, PublishInv
<1>4. CASE \E r \in Bridges : Delivered(r)
  BY <1>4, DeliveredInv
<1>5. CASE \E r \in Bridges : \E up \in BOOLEAN : Status(r, up)
  BY <1>5, StatusInv
<1>6. CASE Refreshes
  BY <1>6, RefreshInv DEF Refreshes
<1>7. CASE Restart
  BY <1>7, RestartInv
<1>8. CASE Tick
  BY <1>8, TickInv
<1> QED
  BY <1>1, <1>2, <1>3, <1>4, <1>5, <1>6, <1>7, <1>8 DEF Next

\* What every state satisfies: the types, how old a time stamp may pretend to be, and
\* which sighting the presence rests on.
THEOREM Invariance == Spec => []IInv
BY InitInv, StepInv, PTL DEF Spec

-----------------------------------------------------------------------------
(* The theorems                                                            *)

\* The variables keep their types.
THEOREM TypeCorrect == Spec => []TypeOK
<1>1. IInv => TypeOK
  BY DEF IInv
<1> QED
  BY Invariance, <1>1, PTL

\* A phone is home only if a receiver has really heard it within the time-out and what
\* the clocks and the refresh interval add.
THEOREM PresenceIsEvidence == Spec => []HomeWasHeard
<1>1. IInv => HomeWasHeard
  <2> SUFFICES ASSUME IInv, state.home
               PROVE  \E r \in Receivers : table[r].age <= Away + Skew + 1
    BY DEF HomeWasHeard
  <2>1. CASE state.seen <= Away
    <3>1. state.seen # Unknown /\ state.seen \in Ages
      BY <2>1, Limits, LimitsOfAges DEF IInv, TypeOK, States, Ages
    <3>2. PICK r \in Receivers : table[r].age <= state.seen + Skew
      BY <3>1 DEF IInv, StateInv, Truthful
    <3> QED
      BY <2>1, <3>1, <3>2, Limits DEF IInv, TypeOK, Samples, Ages
  <2>2. CASE \E r \in Receivers : table[r].age <= Away + Skew + 1
    BY <2>2
  <2> QED
    BY <2>1, <2>2 DEF IInv, HomeInv
<1> QED
  BY Invariance, <1>1, PTL

\* A room is shown only of a receiver that has really heard the phone while a sample
\* counts for a room, but for the difference of the clocks.
THEOREM RoomIsEvidence == Spec => []RoomWasHeard
<1>1. IInv => RoomWasHeard
  <2> SUFFICES ASSUME IInv, RoomShown
               PROVE  table[state.receiver].age <= RoomFresh + Skew
    BY DEF RoomWasHeard
  <2>1. state.signal <= RoomFresh /\ state.signal \in Ages /\ state.signal # Unknown
    BY Limits, LimitsOfAges DEF RoomShown, Within, IInv, TypeOK, States, Ages
  <2>2. state.receiver \in Receivers /\ table[state.receiver].age <= state.signal + Skew
    BY <2>1 DEF IInv, StateInv, Truthful
  <2> QED
    BY <2>1, <2>2, Limits DEF IInv, TypeOK, Samples, Ages
<1> QED
  BY Invariance, <1>1, PTL

-----------------------------------------------------------------------------
(* The strength and its time                                               *)

\* Nothing is kept of a receiver that is gone.
OfflineInv == \A r \in Receivers : ~online[r] => obs[r] = Nothing

\* Where the clock of the receiver is not ahead, no sample is of the future: it counts at
\* once, or never again.
ClockInv ==
  \A r \in Receivers :
    ahead[r] <= 0 => /\ obs[r].age >= 0
                     /\ r \in Bridges => wire[r].sample.age >= 0

SignalInv == OfflineInv /\ ClockInv /\ SampleMatchesTime

\* Once the identity is resolved, the strength and the time are of the sample that the
\* receiver of the room has.
LEMMA ResolvedMatches ==
  ASSUME NEW before, Resolved(before), before.receiver \in Receivers \cup {NoReceiver}
  PROVE  SampleMatchesTime'
<1>1. CASE Matches = {}
  <2>1. state' = before
    BY <1>1 DEF Resolved, Matches
  <2> QED
    BY <1>1, <2>1 DEF SampleMatchesTime, SignalFresh, Matches
<1>2. ASSUME NEW newest \in Matches, NEW r \in Matches,
             state' = [home |-> TRUE, receiver |-> r, rssi |-> obs'[r].rssi,
                       signal |-> obs'[r].age, seen |-> obs'[newest].age]
      PROVE  SampleMatchesTime'
  BY <1>2 DEF SampleMatchesTime
<1> QED
  BY <1>1, <1>2 DEF Resolved

LEMMA SignalInit == Init => SignalInv
<1> SUFFICES ASSUME Init PROVE SignalInv
  OBVIOUS
<1>1. OfflineInv
  BY DEF Init, OfflineInv
<1>2. ClockInv
  BY Limits DEF Init, ClockInv, Nothing
<1>3. SampleMatchesTime
  BY DEF Init, SampleMatchesTime, SignalFresh, NotHome
<1> QED
  BY <1>1, <1>2, <1>3 DEF SignalInv

\* The sample of a receiver stays, or is lost.
SampleKept(r) ==
  \/ obs'[r] = obs[r] /\ (online'[r] = online[r] \/ obs[r] = Nothing)
  \/ ~online'[r] /\ obs'[r] = Nothing

\* A step that resolves nothing keeps the samples or loses them.
LEMMA SignalKept ==
  ASSUME SignalInv, TypeOK, state' = state \/ state' = NotHome, ahead' = ahead,
         wire' = wire, \A r \in Receivers : SampleKept(r)
  PROVE  SignalInv'
<1>1. Nothing.age = Unknown /\ Unknown > Away /\ Unknown >= 0
  BY Limits, LimitsOfAges DEF Nothing
<1>2. OfflineInv'
  BY DEF SignalInv, OfflineInv, SampleKept
<1>3. ClockInv'
  BY <1>1 DEF SignalInv, ClockInv, SampleKept
<1>4. SampleMatchesTime'
  <2>1. CASE state' = NotHome
    BY <2>1 DEF SampleMatchesTime, SignalFresh, NotHome
  <2>2. CASE state' = state
    <3> DEFINE r == state.receiver
    <3> SUFFICES ASSUME SignalFresh', ahead[r] <= 0
                 PROVE  obs'[r].age = state.signal /\ obs'[r].rssi = state.rssi
      BY <2>2 DEF SampleMatchesTime
    <3>1. r \in Receivers /\ online'[r] /\ obs'[r].age <= Away /\ r # NoReceiver
          /\ SampleKept(r)
      BY <2>2 DEF SignalFresh, Within, TypeOK, States
    <3>2. obs'[r] # Nothing
      BY <1>1, <3>1, Limits
    <3>3. obs'[r] = obs[r] /\ online'[r] = online[r]
      BY <3>1, <3>2 DEF SampleKept
    <3>4. SignalFresh
      BY <2>2, <3>1, <3>3 DEF SignalFresh
    <3> QED
      BY <3>3, <3>4 DEF SignalInv, SampleMatchesTime
  <2> QED
    BY <2>1, <2>2
<1> QED
  BY <1>2, <1>3, <1>4 DEF SignalInv

LEMMA SignalTick ==
  ASSUME IInv, SignalInv, Tick
  PROVE  SignalInv'
<1>1. TypeOK /\ Away < Unknown /\ RoomFresh < Unknown /\ Away \in Nat /\ RoomFresh \in Nat
      /\ Unknown \in Nat
  BY Limits, LimitsOfAges DEF IInv
<1>2. /\ \A r \in Receivers : obs'[r] = AgedSample(obs[r], Away)
      /\ \A r \in Bridges : wire'[r].sample = AgedSample(wire[r].sample, Away)
      /\ state' = [state EXCEPT !.signal = Aged(@, RoomFresh), !.seen = Aged(@, Away)]
      /\ ahead' = ahead /\ online' = online
  BY DEF Tick
\* A sample with an age that counts grows older by one and keeps its strength.
<1>3. ASSUME NEW sample \in Samples
      PROVE  LET aged == AgedSample(sample, Away)
             IN  /\ sample.age \in Ages
                 /\ sample.age >= 0 => aged.age >= 0
                 /\ aged.age # Unknown =>
                      sample.age < Away /\ aged.age = sample.age + 1 /\ aged.rssi = sample.rssi
  <2>1. sample.age \in Ages /\ Aged(sample.age, Away) \in Ages
    BY <1>1, AgedFacts DEF Samples
  <2>2. AgedSample(sample, Away).age = Aged(sample.age, Away)
    BY <2>1, SampleTypes DEF AgedSample
  <2>3. Aged(sample.age, Away) # Unknown => AgedSample(sample, Away).rssi = sample.rssi
    BY DEF AgedSample, Sample
  <2> QED
    BY <1>1, <2>1, <2>2, <2>3, AgedFacts
<1>4. OfflineInv'
  <2>1. AgedSample(Nothing, Away) = Nothing
    BY <1>1 DEF AgedSample, Aged, Sample, Nothing
  <2> QED
    BY <1>2, <2>1 DEF SignalInv, OfflineInv
<1>5. ClockInv'
  <2>1. \A r \in Receivers : obs[r] \in Samples
    BY <1>1 DEF TypeOK
  <2>2. \A r \in Bridges : wire[r].sample \in Samples
    BY <1>1 DEF TypeOK
  <2> QED
    BY <1>2, <1>3, <2>1, <2>2 DEF SignalInv, ClockInv
<1>6. SampleMatchesTime'
  <2> DEFINE r == state.receiver
  <2>1. /\ state'.receiver = r /\ state'.rssi = state.rssi
        /\ state'.signal = Aged(state.signal, RoomFresh)
    BY <1>1, <1>2 DEF TypeOK, States
  <2> SUFFICES ASSUME SignalFresh', ahead[r] <= 0
               PROVE  obs'[r].age = state'.signal /\ obs'[r].rssi = state'.rssi
    BY <1>2, <2>1 DEF SampleMatchesTime
  <2>2. /\ r \in Receivers /\ online[r] /\ obs[r] \in Samples
        /\ obs'[r].age <= Away /\ obs'[r].age <= RoomFresh
    BY <1>1, <1>2, <2>1 DEF SignalFresh, Within, TypeOK, States
  <2>3. obs[r].age >= 0 /\ obs[r].age \in Ages
    BY <1>3, <2>2 DEF SignalInv, ClockInv
  <2>4. /\ obs[r].age < Away /\ obs'[r].age = obs[r].age + 1 /\ obs'[r].rssi = obs[r].rssi
    BY <1>1, <1>2, <1>3, <2>2
  <2>5. obs[r].age < RoomFresh
    BY <1>1, <2>2, <2>3, <2>4 DEF Ages
  <2>6. obs[r].age = state.signal /\ obs[r].rssi = state.rssi
    <3>1. SignalFresh
      BY <1>1, <2>2, <2>3, <2>4, <2>5, PresenceAssumption DEF SignalFresh, Within, Ages
    <3> QED
      BY <3>1 DEF SignalInv, SampleMatchesTime
  <2> QED
    BY <1>1, <2>1, <2>3, <2>4, <2>5, <2>6, PresenceAssumption DEF Aged, Ages
<1> QED
  BY <1>4, <1>5, <1>6 DEF SignalInv

LEMMA SignalStep == IInv /\ SignalInv /\ [Next]_vars => SignalInv'
<1> SUFFICES ASSUME IInv, SignalInv, [Next]_vars PROVE SignalInv'
  OBVIOUS
<1>1. /\ TypeOK /\ OfflineInv /\ ClockInv /\ SampleMatchesTime
      /\ \A r \in Receivers : table[r].age >= 0
  BY DEF IInv, SignalInv, SamplesInv
<1>2. CASE UNCHANGED vars
  BY <1>1, <1>2, SignalKept DEF SampleKept, vars, receiver_vars, observer_vars
<1>3. CASE \E r \in Receivers : Hear(r)
  BY <1>1, <1>3, SignalKept DEF SampleKept, Hear, observer_vars
<1>4. ASSUME NEW r \in Bridges, Publish(r)
      PROVE  SignalInv'
  <2>1. /\ obs' = obs /\ online' = online /\ state' = state /\ ahead' = ahead
    BY <1>4 DEF Publish, observer_vars
  <2>2. OfflineInv' /\ SampleMatchesTime'
    BY <1>1, <2>1 DEF OfflineInv, SampleMatchesTime, SignalFresh
  <2>3. ahead[r] <= 0 => wire'[r].sample.age >= 0
    <3>1. r \in Receivers /\ table[r] \in Samples /\ table[r].age \in Ages
      BY <1>1 DEF TypeOK, Receivers, Samples
    <3>2. ahead[r] \in Int /\ table[r].age >= 0
      BY <1>1, <3>1 DEF TypeOK
    <3>3. wire'[r].sample = IF table[r].age <= ObservationTTL
                            THEN Sample(Stamped(r, table[r].age), table[r].rssi) ELSE Nothing
      BY <1>1, <1>4 DEF Publish, TypeOK
    <3>4. Sample(Stamped(r, table[r].age), table[r].rssi).age = Stamped(r, table[r].age)
      BY DEF Sample, Nothing
    <3> QED
      BY <3>1, <3>2, <3>3, <3>4, Limits DEF Stamped, Nothing, Ages
  <2>4. \A q \in Bridges : q # r => wire'[q] = wire[q]
    BY <1>1, <1>4 DEF Publish, TypeOK
  <2>5. ClockInv'
    BY <1>1, <2>1, <2>3, <2>4 DEF ClockInv
  <2> QED
    BY <2>2, <2>5 DEF SignalInv
<1>5. ASSUME NEW r \in Bridges, Delivered(r)
      PROVE  SignalInv'
  <2>1. /\ online' = [online EXCEPT ![r] = TRUE] /\ obs' = [obs EXCEPT ![r] = wire[r].sample]
        /\ wire' = wire /\ ahead' = ahead /\ r \in Receivers
    BY <1>5 DEF Delivered, receiver_vars, Receivers
  <2>2. SampleMatchesTime'
    BY <1>1, <1>5, ResolvedMatches DEF Delivered, TypeOK, States
  <2>3. OfflineInv'
    BY <1>1, <2>1 DEF OfflineInv, TypeOK
  <2>4. ClockInv'
    BY <1>1, <2>1 DEF ClockInv, TypeOK
  <2> QED
    BY <2>2, <2>3, <2>4 DEF SignalInv
<1>6. ASSUME NEW r \in Bridges, NEW up \in BOOLEAN, Status(r, up)
      PROVE  SignalInv'
  <2>1. r \in Receivers /\ state' = state /\ ahead' = ahead /\ wire' = wire
    BY <1>6 DEF Status, receiver_vars, Receivers
  <2>2. ASSUME NEW q \in Receivers
        PROVE  SampleKept(q)
    BY <1>1, <1>6, <2>1 DEF Status, TypeOK, OfflineInv, SampleKept
  <2> QED
    BY <1>1, <2>1, <2>2, SignalKept
<1>7. ASSUME NEW scanning \in SUBSET Scanners, Refresh(scanning)
      PROVE  SignalInv'
  <2>1. Expired.receiver = state.receiver
    BY <1>1 DEF Expired, TypeOK, States
  <2>2. SampleMatchesTime'
    BY <1>1, <1>7, <2>1, ResolvedMatches DEF Refresh, TypeOK, States
  <2>3. ASSUME NEW r \in Receivers
        PROVE  /\ ~online'[r] => obs'[r] = Nothing
               /\ obs'[r] \in {Nothing, table[r], obs[r]}
    <3>1. r \in Scanners \/ r \in Bridges
      BY DEF Receivers
    <3>2. obs'[r] = CASE ~online'[r] -> Nothing
                       [] online'[r] /\ r \in Scanners -> Polled(r)
                       [] online'[r] /\ r \in Bridges -> obs[r]
      BY <1>7 DEF Refresh
    <3>3. CASE ~online'[r]
      BY <3>2, <3>3
    <3>4. CASE online'[r] /\ r \in Scanners
      BY <3>2, <3>4, PresenceAssumption DEF Polled
    <3>5. CASE online'[r] /\ r \in Bridges
      BY <3>2, <3>5, PresenceAssumption
    <3> QED
      BY <3>1, <3>3, <3>4, <3>5
  <2>4. OfflineInv'
    BY <2>3 DEF OfflineInv
  <2>5. ClockInv'
    <3>1. ahead' = ahead /\ wire' = wire
      BY <1>7 DEF Refresh, receiver_vars
    <3>2. \A r \in Receivers : ahead[r] <= 0 => obs'[r].age >= 0
      BY <1>1, <2>3, Limits DEF ClockInv, Nothing
    <3> QED
      BY <1>1, <3>1, <3>2 DEF ClockInv
  <2> QED
    BY <2>2, <2>4, <2>5 DEF SignalInv
<1>8. CASE Restart
  BY <1>1, <1>8, SignalKept DEF Restart, SampleKept, receiver_vars
<1>9. CASE Tick
  BY <1>9, SignalTick
<1> QED
  BY <1>2, <1>3, <1>4, <1>5, <1>6, <1>7, <1>8, <1>9 DEF Next, Refreshes

\* The strength that is shown of a phone and the time of the sample belong together, in
\* whatever order snapshots, statuses, passes of the refresh task and restarts come, where
\* the clock of the receiver is not ahead.
THEOREM SamplesMatch == Spec => []SampleMatchesTime
<1>1. Init => IInv /\ SignalInv
  BY InitInv, SignalInit
<1>2. (IInv /\ SignalInv) /\ [Next]_vars => (IInv /\ SignalInv)'
  BY StepInv, SignalStep
<1>3. IInv /\ SignalInv => SampleMatchesTime
  BY DEF SignalInv
<1> QED
  BY <1>1, <1>2, <1>3, PTL DEF Spec

=============================================================================
