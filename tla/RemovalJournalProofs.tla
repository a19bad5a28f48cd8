------------------------- MODULE RemovalJournalProofs -------------------------
(***************************************************************************)
(* Theorems about RemovalJournal, for every set of phones and endpoints.   *)
(***************************************************************************)
EXTENDS RemovalJournal, TLAPS

\* The journal holds all endpoints of a phone or none.  A phone that is not in it
\* is bonded completely, with its key, or not at all.
JournalInv ==
  \A p \in Phones :
    /\ journal[p] \in {{}, Endpoints(p)}
    /\ journal[p] = {} => \/ Endpoints(p) \subseteq bonded /\ p \in keys
                          \/ Endpoints(p) \cap bonded = {} /\ p \notin keys

\* What the coroutine knows at each await.
RunInv ==
  /\ run.pc \in WorkPcs \cup {"success", "failure"} => run.phone \in Phones
  /\ run.pc \in WorkPcs => run.tries < VerifyTries
  /\ run.pc = "list" /\ ~run.known => run.phone \notin keys
  /\ run.pc \in {"helper_start", "unpair", "helper", "verify", "verify_keys"}
       => /\ run.targets = journal[run.phone]
          /\ run.todo \subseteq run.targets
          /\ run.targets = {} => run.phone \notin keys
  /\ run.pc = "verify_keys" /\ ~run.still => bonded \cap Endpoints(run.phone) = {}
  /\ SuccessMeansGone

\* Whatever is still being unpaired is in the journal.
PendingInv ==
  /\ \A d \in late : journal[d.phone] # {}
  /\ helper.pc = "running" => \A d \in helper.todo \cap bonded : journal[d.phone] # {}

IInv == TypeOK /\ JournalInv /\ RunInv /\ PendingInv

-----------------------------------------------------------------------------
(* The selection                                                           *)

LEMMA PhoneOf == \A d \in Devices : d.phone \in Phones /\ d \in Endpoints(d.phone)
BY RemovalAssumption DEF Endpoints

LEMMA SameAddress ==
  \A d, e \in Devices : d.address = e.address => d.phone = e.phone
BY EndpointsAssumption

\* select_bond_devices finds no endpoint of another phone, and all of a phone that
\* is bonded completely.
LEMMA SelectFacts ==
  ASSUME TypeOK, NEW p \in Phones, NEW known \in BOOLEAN
  PROVE  /\ Select(p, known) \subseteq Endpoints(p) \cap bonded
         /\ known /\ Endpoints(p) \subseteq bonded => Select(p, known) = Endpoints(p)
         /\ ~known => Select(p, known) = {}
<1> DEFINE direct     == {d \in bonded : known /\ d.address \in KeyAddresses(p)}
           containers == {d.container : d \in direct} \ {NoContainer}
<1>0. bonded \subseteq Devices
  BY DEF TypeOK
<1>1. Select(p, known) = {d \in bonded : d \in direct \/ d.container \in containers}
  BY DEF Select
<1>2. ASSUME NEW d \in direct
      PROVE  d \in Endpoints(p)
  <2>1. PICK e \in Endpoints(p) : e.address = d.address
    BY DEF KeyAddresses
  <2> QED
    BY <1>0, <2>1, SameAddress DEF Endpoints
<1>3. ASSUME NEW d \in bonded, d.container \in containers
      PROVE  d \in Endpoints(p)
  <2>1. PICK e \in direct : e.container = d.container /\ e.container # NoContainer
    BY <1>3
  <2> QED
    BY <1>0, <1>2, <2>1, EndpointsAssumption DEF Endpoints
<1>4. ASSUME known, Endpoints(p) \subseteq bonded, NEW d \in Endpoints(p)
      PROVE  d \in direct \/ d.container \in containers
  <2>1. PICK e \in Endpoints(p) : e.transport = "ble"
    BY EndpointsAssumption DEF Endpoints
  <2>2. e \in direct
    BY <1>4, <2>1 DEF KeyAddresses
  <2>3. \/ d.address = e.address
        \/ d.container = e.container /\ d.container # NoContainer
    BY <2>1, EndpointsAssumption DEF Endpoints
  <2>4. CASE d.address = e.address
    BY <1>4, <2>2, <2>4
  <2>5. CASE d.container = e.container /\ d.container # NoContainer
    BY <2>2, <2>5
  <2> QED
    BY <2>3, <2>4, <2>5
<1> QED
  BY <1>1, <1>2, <1>3, <1>4

LEMMA UnpairedFacts ==
  ASSUME TypeOK, NEW d \in Devices, bonded' \in Unpaired(d)
  PROVE  /\ bonded' \subseteq bonded
         /\ \A e \in bonded \ bonded' : e.phone = d.phone
BY SameAddress DEF Unpaired, TypeOK

\* Giving up an unpairing leaves only endpoints that are in the journal.
LEMMA AbandonedFacts ==
  ASSUME IInv, late' \in Abandoned
  PROVE  late' \subseteq bonded /\ \A d \in late' : journal[d.phone] # {}
<1>1. ASSUME NEW d \in InFlight
      PROVE  d \in bonded /\ journal[d.phone] # {}
  <2>1. CASE run.pc = "unpair" /\ d \in run.todo
    BY <1>1, <2>1 DEF InFlight, IInv, RunInv, JournalInv, TypeOK, WorkPcs, Endpoints
  <2>2. CASE helper.pc = "running" /\ d \in helper.todo
    BY <1>1, <2>2 DEF InFlight, IInv, PendingInv
  <2> QED
    BY <1>1, <2>1, <2>2 DEF InFlight
<1>2. late \subseteq bonded /\ \A d \in late : journal[d.phone] # {}
  BY DEF IInv, TypeOK, PendingInv
<1> QED
  BY <1>1, <1>2 DEF Abandoned

-----------------------------------------------------------------------------
(* The invariant                                                           *)

LEMMA InitInv == Init => IInv
<1> SUFFICES ASSUME Init PROVE IInv
  OBVIOUS
<1> USE DEF Init
<1>1. TypeOK
  BY RemovalAssumption DEF TypeOK, NoRun, RunRecords, HelperOff, HelperRecords
<1>2. JournalInv
  BY DEF JournalInv, Endpoints
<1>3. RunInv /\ PendingInv
  BY DEF RunInv, PendingInv, SuccessMeansGone, NoRun, HelperOff, WorkPcs
<1> QED
  BY <1>1, <1>2, <1>3 DEF IInv

\* Endpoints of a journaled phone may go at any time.
LEMMA ShrinkStep ==
  ASSUME IInv, UNCHANGED <<journal, keys>>, bonded' \subseteq bonded,
         \A d \in bonded \ bonded' : journal[d.phone] # {}
  PROVE  JournalInv'
BY DEF IInv, TypeOK, JournalInv, Endpoints

\* The coroutine's knowledge survives what happens to bonds, helper and Windows.
LEMMA RunKept ==
  ASSUME IInv, UNCHANGED <<journal, run>>, bonded' \subseteq bonded, keys' \subseteq keys
  PROVE  RunInv'
BY DEF IInv, RunInv, SuccessMeansGone

LEMMA UnpairStep ==
  ASSUME IInv, UnpairNext
  PROVE  IInv'
<1>1. PICK d \in run.todo : /\ bonded' \in Unpaired(d)
                           /\ run' = [run EXCEPT !.todo = @ \ {d},
                                !.pc = IF run.todo = {d} THEN "verify" ELSE "unpair"]
  BY DEF UnpairNext
<1>2. /\ run \in RunRecords /\ run.phone \in Phones /\ run.targets = journal[run.phone]
      /\ d \in run.targets /\ d \in Devices /\ d.phone = run.phone
      /\ journal[run.phone] # {}
  BY DEF UnpairNext, IInv, TypeOK, RunInv, JournalInv, WorkPcs, Endpoints, RunRecords
<1>3. bonded' \subseteq bonded /\ \A e \in bonded \ bonded' : journal[e.phone] # {}
  BY <1>1, <1>2, UnpairedFacts DEF IInv
<1>4. /\ run' \in RunRecords /\ run'.phone = run.phone /\ run'.targets = run.targets
      /\ run'.todo \subseteq run.targets /\ run'.pc \in {"verify", "unpair"}
      /\ run'.tries = run.tries
  BY <1>1, <1>2 DEF RunRecords, WorkPcs, IInv, RunInv, UnpairNext
<1>5. TypeOK'
  BY <1>3, <1>4 DEF UnpairNext, IInv, TypeOK
<1>6. JournalInv'
  BY <1>3, ShrinkStep DEF UnpairNext
<1>7. RunInv'
  BY <1>2, <1>4 DEF IInv, RunInv, SuccessMeansGone, UnpairNext, WorkPcs
<1>8. PendingInv'
  BY <1>3 DEF PendingInv, IInv, UnpairNext
<1> QED
  BY <1>5, <1>6, <1>7, <1>8 DEF IInv

LEMMA ListStep ==
  ASSUME IInv, List
  PROVE  IInv'
<1> DEFINE p == run.phone
<1>0. /\ run \in RunRecords /\ p \in Phones /\ run.known \in BOOLEAN /\ TypeOK
      /\ journal \in [Phones -> SUBSET Devices]
  BY DEF List, IInv, TypeOK, RunInv, RunRecords, WorkPcs
<1>1. Targets \in {{}, Endpoints(p)} /\ (Targets = {} => journal[p] = {} /\ p \notin keys)
  <2>1. /\ Select(p, run.known) \subseteq Endpoints(p) \cap bonded
        /\ run.known /\ Endpoints(p) \subseteq bonded => Select(p, run.known) = Endpoints(p)
        /\ ~run.known => Select(p, run.known) = {}
    BY <1>0, SelectFacts
  <2>2. CASE journal[p] = Endpoints(p)
    BY <2>1, <2>2, EndpointsAssumption, <1>0 DEF Targets, Endpoints
  <2>3. CASE journal[p] = {} /\ run.known
    BY <1>0, <2>1, <2>3 DEF List, Targets, IInv, JournalInv
  <2>4. CASE journal[p] = {} /\ ~run.known
    BY <1>0, <2>1, <2>4 DEF List, Targets, IInv, RunInv
  <2> QED
    BY <1>0, <2>2, <2>3, <2>4 DEF IInv, JournalInv
<1>2. PICK pc \in AfterList :
        run' = [run EXCEPT !.targets = Targets, !.todo = Targets, !.pc = pc]
  BY DEF List
<1>3. pc \in {"verify", "helper_start", "unpair"}
  BY <1>2 DEF AfterList
<1>4. Targets \subseteq Devices
  BY <1>1 DEF Endpoints
<1>5. /\ run' \in RunRecords /\ run'.phone = p /\ run'.pc = pc /\ run'.targets = Targets
      /\ run'.todo = Targets /\ run'.tries = run.tries
  BY <1>0, <1>2, <1>3, <1>4 DEF RunRecords, WorkPcs
<1>6. /\ journal' \in [Phones -> SUBSET Devices] /\ journal'[p] = Targets
      /\ \A q \in Phones \ {p} : journal'[q] = journal[q]
      /\ journal[p] # {} => journal'[p] # {}
  BY <1>0, <1>1, <1>4 DEF List
<1> HIDE DEF p
<1>7. TypeOK'
  BY <1>5, <1>6 DEF List, IInv, TypeOK
<1>8. JournalInv'
  BY <1>1, <1>6 DEF List, IInv, JournalInv
<1>9. RunInv'
  BY <1>0, <1>1, <1>3, <1>5, <1>6 DEF List, IInv, RunInv, SuccessMeansGone, WorkPcs
<1>10. PendingInv'
  <2>1. \A q \in Phones : journal[q] # {} => journal'[q] # {}
    BY <1>6
  <2> QED
    BY <2>1, PhoneOf DEF List, IInv, TypeOK, PendingInv
<1> QED
  BY <1>7, <1>8, <1>9, <1>10 DEF IInv

LEMMA VerifyStep ==
  ASSUME IInv, VerifyKeys
  PROVE  IInv'
<1>0. /\ run \in RunRecords /\ run.phone \in Phones /\ journal \in [Phones -> SUBSET Devices]
      /\ run.tries \in 0 .. VerifyTries
  BY DEF VerifyKeys, IInv, TypeOK, RunInv, RunRecords, WorkPcs
<1>1. CASE ~run.still /\ run.phone \notin keys
  <2>1. /\ run' \in RunRecords /\ run'.phone = run.phone /\ run'.pc = "success"
        /\ journal' = [journal EXCEPT ![run.phone] = {}]
    BY <1>0, <1>1 DEF VerifyKeys, RunRecords, WorkPcs
  <2>2. bonded \cap Endpoints(run.phone) = {}
    BY <1>1 DEF VerifyKeys, IInv, RunInv
  <2>3. TypeOK'
    BY <1>0, <2>1 DEF VerifyKeys, IInv, TypeOK
  <2>4. JournalInv'
    BY <1>0, <1>1, <2>1, <2>2 DEF VerifyKeys, IInv, JournalInv
  <2>5. RunInv'
    BY <1>0, <1>1, <2>1, <2>2 DEF VerifyKeys, RunInv, SuccessMeansGone, WorkPcs
  <2>6. \A d \in bonded : journal'[d.phone] = journal[d.phone]
    BY <1>0, <2>1, <2>2, PhoneOf DEF IInv, TypeOK, Endpoints
  <2>7. PendingInv'
    BY <2>6 DEF VerifyKeys, IInv, TypeOK, PendingInv
  <2> QED
    BY <2>3, <2>4, <2>5, <2>7 DEF IInv
<1>2. CASE ~(~run.still /\ run.phone \notin keys)
  <2>1. UNCHANGED <<bonded, keys, journal, helper, late>>
    BY <1>2 DEF VerifyKeys
  <2>2. /\ run'.phone = run.phone /\ run'.targets = run.targets /\ run'.todo = run.todo
        /\ run'.pc \in {"failure", "verify"} /\ run' \in RunRecords
        /\ run'.pc = "verify" => run'.tries < VerifyTries
    <3>1. run.tries < VerifyTries /\ run.tries + 1 \in 0 .. VerifyTries
      BY <1>0, RemovalAssumption DEF VerifyKeys, IInv, RunInv, WorkPcs
    <3>2. PICK pc \in {"failure", "verify"} :
            /\ run' = [run EXCEPT !.tries = @ + 1, !.pc = pc]
            /\ pc = "verify" => run.tries + 1 # VerifyTries
      BY <1>2 DEF VerifyKeys
    <3>3. run' \in RunRecords /\ run'.tries = run.tries + 1 /\ run'.pc = pc
      BY <1>0, <3>1, <3>2 DEF RunRecords, WorkPcs
    <3>4. pc = "verify" => run.tries + 1 < VerifyTries
      BY <1>0, <3>1, <3>2, RemovalAssumption
    <3> QED
      BY <1>0, <3>2, <3>3, <3>4 DEF RunRecords
  <2>3. TypeOK'
    BY <2>1, <2>2 DEF VerifyKeys, IInv, TypeOK
  <2>4. RunInv'
    BY <1>0, <2>1, <2>2 DEF VerifyKeys, IInv, RunInv, SuccessMeansGone, WorkPcs
  <2> QED
    BY <2>1, <2>3, <2>4 DEF IInv, JournalInv, PendingInv
<1> QED
  BY <1>1, <1>2

LEMMA FailsStep ==
  ASSUME IInv, Fails
  PROVE  IInv'
<1>1. late' \subseteq bonded /\ \A d \in late' : journal[d.phone] # {}
  BY AbandonedFacts DEF Fails
<1>2. run' \in RunRecords /\ run'.pc = "failure" /\ run'.phone \in Phones
  BY DEF Fails, IInv, TypeOK, RunInv, RunRecords
<1>3. helper' \in HelperRecords /\ (helper' = helper \/ helper'.pc = "off")
  BY DEF Fails, IInv, TypeOK, HelperOff, HelperRecords
<1>4. TypeOK'
  BY <1>1, <1>2, <1>3 DEF Fails, IInv, TypeOK
<1>5. RunInv'
  BY <1>2 DEF RunInv, SuccessMeansGone, WorkPcs
<1>6. PendingInv'
  BY <1>1, <1>3 DEF Fails, IInv, PendingInv
<1> QED
  BY <1>4, <1>5, <1>6 DEF Fails, IInv, JournalInv

\* The other steps of the coroutine, and of the helper and Windows.
LEMMA RunStepInv ==
  ASSUME IInv, RunStep
  PROVE  IInv'
<1>0. run \in RunRecords
  BY DEF IInv, TypeOK
<1>1. CASE ReadKeys
  <2>1. /\ run' \in RunRecords /\ run'.pc = "list" /\ run'.phone = run.phone
        /\ (run'.known <=> run.phone \in keys) /\ run'.tries = run.tries
    <3>1. PICK known \in BOOLEAN : known <=> run.phone \in keys
      OBVIOUS
    <3>2. run' = [run EXCEPT !.pc = "list", !.known = known]
      BY <1>1, <3>1 DEF ReadKeys
    <3> QED
      BY <1>0, <3>1, <3>2 DEF ReadKeys, RunRecords, WorkPcs
  <2>2. RunInv'
    BY <1>1, <2>1 DEF ReadKeys, IInv, RunInv, SuccessMeansGone, WorkPcs
  <2> QED
    BY <1>1, <2>1, <2>2 DEF ReadKeys, IInv, TypeOK, JournalInv, PendingInv
<1>2. CASE HelperStarts
  <2>1. late' \subseteq bonded /\ \A d \in late' : journal[d.phone] # {}
    BY <1>2, AbandonedFacts DEF HelperStarts
  <2>2. /\ run' \in RunRecords /\ run'.pc = "helper" /\ run'.phone = run.phone
        /\ run'.targets = run.targets /\ run'.todo = run.todo /\ run'.tries = run.tries
    BY <1>0, <1>2 DEF HelperStarts, RunRecords, WorkPcs
  <2>3. helper' \in HelperRecords /\ helper'.todo = run.todo
    BY <1>0, <1>2 DEF HelperStarts, HelperRecords, RunRecords
  <2>4. RunInv'
    BY <1>2, <2>2 DEF HelperStarts, IInv, RunInv, SuccessMeansGone, WorkPcs
  <2>5. \A d \in run.todo : journal[d.phone] # {}
    BY <1>2 DEF HelperStarts, IInv, RunInv, TypeOK, JournalInv, Endpoints, WorkPcs
  <2> QED
    BY <1>2, <2>1, <2>2, <2>3, <2>4, <2>5
    DEF HelperStarts, IInv, TypeOK, JournalInv, PendingInv
<1>3. CASE HelperAnswered
  <2>1. /\ run' \in RunRecords /\ run'.pc = "verify" /\ run'.phone = run.phone
        /\ run'.targets = run.targets /\ run'.todo = run.todo /\ run'.tries = run.tries
    BY <1>0, <1>3 DEF HelperAnswered, RunRecords, WorkPcs
  <2>2. helper' \in HelperRecords /\ helper'.pc = "off"
    BY <1>3 DEF HelperAnswered, HelperOff, HelperRecords
  <2>3. RunInv'
    BY <1>3, <2>1 DEF HelperAnswered, IInv, RunInv, SuccessMeansGone, WorkPcs
  <2> QED
    BY <1>3, <2>1, <2>2, <2>3 DEF HelperAnswered, IInv, TypeOK, JournalInv, PendingInv
<1>4. CASE VerifyBonds
  <2>1. /\ run' \in RunRecords /\ run'.pc = "verify_keys" /\ run'.phone = run.phone
        /\ run'.targets = run.targets /\ run'.todo = run.todo /\ run'.tries = run.tries
        /\ run'.still = StillPaired
    BY <1>0, <1>4 DEF VerifyBonds, RunRecords, WorkPcs, StillPaired
  <2>2. ASSUME ~StillPaired
        PROVE  bonded \cap Endpoints(run.phone) = {}
    <3>1. /\ run.phone \in Phones /\ run.targets = journal[run.phone]
          /\ run.targets = {} => run.phone \notin keys
      BY <1>4 DEF VerifyBonds, IInv, RunInv, WorkPcs
    <3>2. CASE run.targets = {}
      BY <3>1, <3>2 DEF IInv, JournalInv
    <3>3. CASE run.targets = Endpoints(run.phone)
      BY <2>2, <3>3 DEF StillPaired
    <3> QED
      BY <3>1, <3>2, <3>3 DEF IInv, JournalInv
  <2>3. RunInv'
    BY <1>4, <2>1, <2>2 DEF VerifyBonds, IInv, RunInv, SuccessMeansGone, WorkPcs
  <2> QED
    BY <1>4, <2>1, <2>3 DEF VerifyBonds, IInv, TypeOK, JournalInv, PendingInv
<1>5. CASE Answer
  <2>1. run' \in RunRecords /\ run'.pc = "idle"
    BY <1>5, RemovalAssumption DEF Answer, NoRun, RunRecords
  <2>2. RunInv'
    BY <2>1 DEF RunInv, SuccessMeansGone, WorkPcs
  <2> QED
    BY <1>5, <2>1, <2>2 DEF Answer, IInv, TypeOK, JournalInv, PendingInv
<1> QED
  BY <1>1, <1>2, <1>3, <1>4, <1>5, ListStep, UnpairStep, VerifyStep, FailsStep DEF RunStep

LEMMA HelperUnpairsStep ==
  ASSUME IInv, HelperUnpairs
  PROVE  IInv'
<1>1. PICK d \in helper.todo :
        /\ bonded' \in Unpaired(d)
        /\ helper' = [pc |-> IF helper.todo = {d} THEN "success" ELSE "running",
                      todo |-> helper.todo \ {d}]
  BY DEF HelperUnpairs
<1>2. d \in Devices /\ helper \in HelperRecords
  BY DEF IInv, TypeOK, HelperRecords
<1>3. bonded' \subseteq bonded /\ \A e \in bonded \ bonded' : e.phone = d.phone
  BY <1>1, <1>2, UnpairedFacts DEF IInv
<1>4. helper' \in HelperRecords /\ helper'.todo \subseteq helper.todo
  BY <1>1, <1>2 DEF HelperRecords
<1>5. TypeOK'
  BY <1>3, <1>4 DEF HelperUnpairs, IInv, TypeOK
<1>6. ASSUME NEW e \in bonded \ bonded'
      PROVE  journal[e.phone] # {}
  <2>1. e \in Devices /\ e.phone = d.phone /\ d.phone \in Phones
    BY <1>2, <1>3, PhoneOf DEF IInv, TypeOK
  <2>2. CASE d \in bonded
    BY <1>1, <2>1, <2>2 DEF HelperUnpairs, IInv, PendingInv
  <2>3. CASE d \notin bonded
    BY <1>2, <2>1, <2>3 DEF IInv, JournalInv, Endpoints
  <2> QED
    BY <2>2, <2>3
<1>7. JournalInv'
  BY <1>3, <1>6, ShrinkStep DEF HelperUnpairs
<1>8. RunInv'
  BY <1>3, RunKept DEF HelperUnpairs
<1>9. PendingInv'
  BY <1>3, <1>4 DEF HelperUnpairs, IInv, PendingInv
<1> QED
  BY <1>5, <1>7, <1>8, <1>9 DEF IInv

LEMMA EnvironmentStep ==
  ASSUME IInv,
         \/ HelperFails \/ Crash
         \/ \E p \in Phones : Begin(p) \/ Pair(p) \/ WindowsDropsKey(p)
         \/ \E d \in Devices : WindowsUnpairs(d)
  PROVE  IInv'
<1>1. CASE HelperFails
  <2>1. late' \subseteq bonded /\ \A d \in late' : journal[d.phone] # {}
    BY <1>1, AbandonedFacts DEF HelperFails
  <2>2. helper' \in HelperRecords /\ helper'.pc # "running"
    BY <1>1 DEF HelperFails, HelperOff, HelperRecords
  <2>3. RunInv'
    BY <1>1, RunKept DEF HelperFails
  <2> QED
    BY <1>1, <2>1, <2>2, <2>3 DEF HelperFails, IInv, TypeOK, JournalInv, PendingInv
<1>2. CASE Crash
  <2>1. late' \subseteq bonded /\ \A d \in late' : journal[d.phone] # {}
    BY <1>2, AbandonedFacts DEF Crash, Abandoned
  <2>2. run' \in RunRecords /\ run'.pc = "idle"
    BY <1>2, RemovalAssumption DEF Crash, NoRun, RunRecords
  <2>3. RunInv'
    BY <2>2 DEF RunInv, SuccessMeansGone, WorkPcs
  <2> QED
    BY <1>2, <2>1, <2>2, <2>3 DEF Crash, IInv, TypeOK, JournalInv, PendingInv
<1>3. ASSUME NEW p \in Phones, Begin(p)
      PROVE  IInv'
  <2>1. run' = [pc |-> "keys", phone |-> p, known |-> FALSE, targets |-> {}, todo |-> {},
                still |-> FALSE, tries |-> 0]
    BY <1>3 DEF Begin, NoRun
  <2>2. 0 \in 0 .. VerifyTries /\ 0 < VerifyTries
    BY RemovalAssumption
  <2>3. run' \in RunRecords
    BY <2>1, <2>2 DEF RunRecords, WorkPcs
  <2>4. RunInv'
    BY <2>1, <2>2 DEF RunInv, SuccessMeansGone, WorkPcs
  <2> QED
    BY <1>3, <2>3, <2>4 DEF Begin, IInv, TypeOK, JournalInv, PendingInv
<1>4. ASSUME NEW p \in Phones, Pair(p)
      PROVE  IInv'
  <2>1. late' \subseteq bonded /\ \A d \in late' : journal[d.phone] # {}
    BY <1>4, AbandonedFacts DEF Pair
  <2>2. helper' \in HelperRecords /\ helper'.pc = "off"
    BY <1>4 DEF Pair, HelperOff, HelperRecords
  <2>3. TypeOK'
    BY <1>4, <2>1, <2>2 DEF Pair, IInv, TypeOK, Endpoints
  <2>4. JournalInv'
    BY <1>4 DEF Pair, IInv, TypeOK, JournalInv, Endpoints
  <2>5. RunInv'
    BY <1>4 DEF Pair, RunInv, SuccessMeansGone, WorkPcs
  <2> QED
    BY <1>4, <2>1, <2>2, <2>3, <2>4, <2>5 DEF Pair, IInv, PendingInv
<1>5. ASSUME NEW p \in Phones, WindowsDropsKey(p)
      PROVE  IInv'
  <2>1. PICK e \in Endpoints(p) : e.transport = "ble"
    BY EndpointsAssumption DEF Endpoints
  <2>2. journal[p] # {}
    BY <1>5, <2>1 DEF WindowsDropsKey, IInv, JournalInv
  <2>3. JournalInv'
    BY <1>5, <2>2 DEF WindowsDropsKey, IInv, JournalInv
  <2>4. RunInv'
    BY <1>5, RunKept DEF WindowsDropsKey
  <2> QED
    BY <1>5, <2>3, <2>4 DEF WindowsDropsKey, IInv, TypeOK, PendingInv
<1>6. ASSUME NEW d \in Devices, WindowsUnpairs(d)
      PROVE  IInv'
  <2>1. journal[d.phone] # {}
    BY <1>6 DEF WindowsUnpairs, IInv, PendingInv
  <2>2. JournalInv'
    BY <1>6, <2>1, ShrinkStep DEF WindowsUnpairs
  <2>3. RunInv'
    BY <1>6, RunKept DEF WindowsUnpairs
  <2> QED
    BY <1>6, <2>2, <2>3 DEF WindowsUnpairs, IInv, TypeOK, PendingInv
<1> QED
  BY <1>1, <1>2, <1>3, <1>4, <1>5, <1>6

LEMMA NextInv == IInv /\ [Next]_vars => IInv'
<1>1. IInv /\ UNCHANGED vars => IInv'
  BY DEF vars, IInv, TypeOK, JournalInv, RunInv, PendingInv, SuccessMeansGone
<1> QED
  BY <1>1, RunStepInv, HelperUnpairsStep, EnvironmentStep DEF Next

-----------------------------------------------------------------------------
(* The theorems                                                            *)

\* The strengthened invariant: the journal holds all endpoints of a phone or none,
\* what the removal knows at each await, and what is still being unpaired.
THEOREM Invariance == Spec => []IInv
BY InitInv, NextInv, PTL DEF Spec

\* Every state has the types of TypeOK: no removal takes more than VerifyTries
\* inventories, and only bonds are being unpaired.
THEOREM TypeCorrect == Spec => []TypeOK
<1>1. IInv => TypeOK
  BY DEF IInv
<1> QED
  BY <1>1, Invariance, PTL

\* A removal that is reported as done left neither an endpoint of the phone nor its
\* key, whatever earlier removals failed or were killed (remove_identity_bonds).
THEOREM RemovalVerified == Spec => []SuccessMeansGone
<1>1. IInv => SuccessMeansGone
  BY DEF IInv, RunInv
<1> QED
  BY <1>1, Invariance, PTL

\* A removal can always be resumed: what its key no longer identifies is in the
\* journal (remove_identity_bonds).
THEOREM RemovalResumable == Spec => []UnfinishedIsJournaled
<1>1. IInv => UnfinishedIsJournaled
  BY PhoneOf DEF IInv, TypeOK, JournalInv, UnfinishedIsJournaled
<1> QED
  BY <1>1, Invariance, PTL

\* Nothing is unpaired that is not in the journal of its own phone, whoever
\* unpairs it (unpair_device, _remove_bonds).
THEOREM UnpairsAreJournaled == Spec => UnpairsOnlyJournaled
<1>1. ASSUME IInv, [Next]_vars, NEW d \in bonded \ bonded'
      PROVE  d \in journal[d.phone]
  <2>0. d \in Devices /\ d.phone \in Phones /\ d \in Endpoints(d.phone)
    BY <1>1, PhoneOf DEF IInv, TypeOK
  <2>1. UnpairNext \/ HelperUnpairs \/ WindowsUnpairs(d)
    BY <1>1 DEF Next, RunStep, ReadKeys, List, HelperStarts, HelperAnswered, VerifyBonds,
                VerifyKeys, Fails, Answer, HelperFails, Crash, Begin, Pair, WindowsDropsKey,
                WindowsUnpairs, vars
  <2>2. SUFFICES journal[d.phone] # {}
    BY <1>1, <2>0 DEF IInv, JournalInv
  <2>3. CASE UnpairNext
    <3>1. PICK e \in run.todo : bonded' \in Unpaired(e)
      BY <2>3 DEF UnpairNext
    <3>2. e \in Devices /\ journal[e.phone] # {}
      BY <1>1, <2>3 DEF UnpairNext, IInv, TypeOK, RunInv, JournalInv, WorkPcs, Endpoints
    <3> QED
      BY <1>1, <3>1, <3>2, UnpairedFacts DEF IInv
  <2>4. CASE HelperUnpairs
    <3>1. PICK e \in helper.todo : bonded' \in Unpaired(e)
      BY <2>4 DEF HelperUnpairs
    <3>2. e \in Devices /\ e.phone = d.phone
      BY <1>1, <3>1, UnpairedFacts DEF IInv, TypeOK, HelperRecords
    <3>3. CASE e \in bonded
      BY <1>1, <2>4, <3>1, <3>2, <3>3 DEF HelperUnpairs, IInv, PendingInv
    <3>4. CASE e \notin bonded
      BY <1>1, <2>0, <3>2, <3>4 DEF IInv, JournalInv, Endpoints
    <3> QED
      BY <3>3, <3>4
  <2>5. CASE WindowsUnpairs(d)
    BY <1>1, <2>5 DEF WindowsUnpairs, IInv, PendingInv
  <2> QED
    BY <2>1, <2>3, <2>4, <2>5
<1>2. ASSUME IInv, [Next]_vars
      PROVE  [\A d \in bonded \ bonded' : d \in journal[d.phone]]_vars
  BY <1>1, <1>2
<1> QED
  BY <1>2, Invariance, PTL DEF Spec, UnpairsOnlyJournaled

=============================================================================
