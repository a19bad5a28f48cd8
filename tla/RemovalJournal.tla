---------------------------- MODULE RemovalJournal ----------------------------
(***************************************************************************)
(* The removal of a phone's bonds by the Windows receiver                  *)
(* (bridge/windows/identity_removal.py, with _run_identity_removal of      *)
(* observer.py and _remove_bonds of interactive_pairing_helper.py).        *)
(*                                                                         *)
(* A phone has several endpoints in Windows, a classic and a BLE one, and  *)
(* its private key is in the registry as long as the BLE endpoint is       *)
(* bonded.  The key is what identifies the endpoints: once it is gone only *)
(* the journal, a file, tells what is left to remove.  Unpairing is done   *)
(* by the service or, in its place, by a helper process of the signed-in   *)
(* user, which goes on when the service is killed.                         *)
(***************************************************************************)
EXTENDS Integers, FiniteSets

CONSTANTS
  Phones,       \* phones, told apart by the fingerprint of their key
  Devices,      \* endpoints of phones: phone, address, container, transport
  NoContainer,  \* an endpoint whose physical container Windows does not tell
  NoPhone,      \* no removal runs
  Paired,       \* phones that are bonded at first
  Interactive,  \* whether a helper task is installed: a new installation may change it
  VerifyTries   \* inventories taken to verify the removal (8)

ASSUME RemovalAssumption ==
  /\ \A d \in Devices : d.phone \in Phones /\ d.transport \in {"classic", "ble"}
  /\ NoPhone \notin Phones
  /\ Paired \subseteq Phones
  /\ Interactive \subseteq BOOLEAN
  /\ VerifyTries \in Nat \ {0}

\* An endpoint belongs to one phone, by its address and by its container, and is
\* found from the address under which the key of the phone is registered.
ASSUME EndpointsAssumption ==
  /\ \A d, e \in Devices :
       \/ d.address = e.address
       \/ d.container = e.container /\ d.container # NoContainer
       => d.phone = e.phone
  /\ \A p \in Phones : \E d \in Devices : d.phone = p /\ d.transport = "ble"
  /\ \A d, e \in Devices :
       d.phone = e.phone /\ d.transport = "ble"
         => d.address = e.address \/ (d.container = e.container /\ d.container # NoContainer)

VARIABLES
  bonded,   \* endpoints Windows is paired with
  keys,     \* phones whose private key is in the registry
  journal,  \* the file: endpoints of each phone whose removal is not verified
  run,      \* the coroutine remove_identity_bonds
  helper,   \* the helper process
  late      \* endpoints whose unpairing Windows still carries out for nobody

vars == <<bonded, keys, journal, run, helper, late>>

Endpoints(p) == {d \in Devices : d.phone = p}

WorkPcs == {"keys", "list", "helper_start", "unpair", "helper", "verify", "verify_keys"}

RunRecords ==
  [pc : WorkPcs \cup {"idle", "success", "failure"}, phone : Phones \cup {NoPhone},
   known : BOOLEAN, targets : SUBSET Devices, todo : SUBSET Devices, still : BOOLEAN,
   tries : 0 .. VerifyTries]

NoRun == [pc |-> "idle", phone |-> NoPhone, known |-> FALSE, targets |-> {}, todo |-> {},
          still |-> FALSE, tries |-> 0]

HelperRecords == [pc : {"off", "running", "success", "error"}, todo : SUBSET Devices]
HelperOff     == [pc |-> "off", todo |-> {}]

-----------------------------------------------------------------------------
(* Selection of the endpoints                                              *)

\* Addresses under which Windows registers the key of p.
KeyAddresses(p) == {d.address : d \in {e \in Endpoints(p) : e.transport = "ble"}}

\* Mutant: the endpoints at the address of the key only.
SelectByAddress(p, known) == {d \in bonded : known /\ d.address \in KeyAddresses(p)}

\* select_bond_devices: the endpoints at an address of the key, and those in the
\* same physical container.
Select(p, known) ==
  LET direct     == {d \in bonded : known /\ d.address \in KeyAddresses(p)}
      containers == {d.container : d \in direct} \ {NoContainer}
  IN {d \in bonded : d \in direct \/ d.container \in containers}

-----------------------------------------------------------------------------
(* The coroutine                                                           *)

\* What the unpairing of d may leave: WinRT finds no peer and does nothing,
\* unpairs it, or fails, and the desktop API then removes the address of d.
\* Only the inventory that follows proves anything.
Unpaired(d) == {bonded, bonded \ {d}, {e \in bonded : e.address # d.address}}

\* Endpoints whose unpairing may be in progress.
InFlight ==
  bonded \cap ((IF run.pc = "unpair" THEN run.todo ELSE {})
               \cup (IF helper.pc = "running" THEN helper.todo ELSE {}))

\* Whoever waits for an unpairing gives up; Windows may complete it later.
Abandoned == {late} \cup {late \cup {d} : d \in InFlight}

\* A forget_identity or repair_pairing command that is admitted, the scanner being
\* paused; the command loop is serial.
Begin(p) ==
  /\ run.pc = "idle"
  /\ run' = [NoRun EXCEPT !.pc = "keys", !.phone = p]
  /\ UNCHANGED <<bonded, keys, journal, helper, late>>

ReadKeys ==
  /\ run.pc = "keys"
  /\ run' = [run EXCEPT !.pc = "list", !.known = run.phone \in keys]
  /\ UNCHANGED <<bonded, keys, journal, helper, late>>

Targets == journal[run.phone] \cup Select(run.phone, run.known)

AfterList ==
  IF Targets = {} THEN {"verify"}
  ELSE {IF interactive THEN "helper_start" ELSE "unpair" : interactive \in Interactive}

\* Mutant: the journal is written only when the key is already gone.
ListKeepsJournal ==
  /\ run.pc = "list"
  /\ ~(run.known /\ Targets = {})
  /\ journal' = IF run.known THEN journal ELSE [journal EXCEPT ![run.phone] = Targets]
  /\ \E pc \in AfterList :
       run' = [run EXCEPT !.targets = Targets, !.todo = Targets, !.pc = pc]
  /\ UNCHANGED <<bonded, keys, helper, late>>

\* The inventory of the bonds, and the journal before the first unpairing.  The
\* order in which the targets are unpaired is left open.
List ==
  /\ run.pc = "list"
  /\ ~(run.known /\ Targets = {})
  /\ journal' = [journal EXCEPT ![run.phone] = Targets]
  /\ \E pc \in AfterList :
       run' = [run EXCEPT !.targets = Targets, !.todo = Targets, !.pc = pc]
  /\ UNCHANGED <<bonded, keys, helper, late>>

UnpairNext ==
  /\ run.pc = "unpair"
  /\ \E d \in run.todo :
       /\ bonded' \in Unpaired(d)
       /\ run' = [run EXCEPT !.todo = @ \ {d},
                             !.pc = IF run.todo = {d} THEN "verify" ELSE "unpair"]
  /\ late' = late \cap bonded'
  /\ UNCHANGED <<keys, journal, helper>>

\* A helper that still runs is ended and a new one started.
HelperStarts ==
  /\ run.pc = "helper_start"
  /\ late' \in Abandoned
  /\ helper' = [pc |-> "running", todo |-> run.todo]
  /\ run' = [run EXCEPT !.pc = "helper"]
  /\ UNCHANGED <<bonded, keys, journal>>

HelperAnswered ==
  /\ run.pc = "helper"
  /\ helper.pc = "success"
  /\ helper' = HelperOff
  /\ run' = [run EXCEPT !.pc = "verify"]
  /\ UNCHANGED <<bonded, keys, journal, late>>

\* Any target, or another endpoint at its address.
StillPaired ==
  \E d \in bonded : d \in run.targets \/ \E e \in run.targets : d.address = e.address

VerifyBonds ==
  /\ run.pc = "verify"
  /\ run' = [run EXCEPT !.pc = "verify_keys", !.still = StillPaired]
  /\ UNCHANGED <<bonded, keys, journal, helper, late>>

\* Mutant: the key alone decides.
VerifyKeyOnly ==
  /\ run.pc = "verify_keys"
  /\ IF run.phone \notin keys
     THEN /\ journal' = [journal EXCEPT ![run.phone] = {}]
          /\ run' = [run EXCEPT !.pc = "success"]
     ELSE /\ run' = [run EXCEPT !.tries = @ + 1,
                       !.pc = IF run.tries + 1 = VerifyTries THEN "failure" ELSE "verify"]
          /\ UNCHANGED journal
  /\ UNCHANGED <<bonded, keys, helper, late>>

\* Neither bonds nor key: the entry leaves the journal.
VerifyKeys ==
  /\ run.pc = "verify_keys"
  /\ IF ~run.still /\ run.phone \notin keys
     THEN /\ journal' = [journal EXCEPT ![run.phone] = {}]
          /\ run' = [run EXCEPT !.pc = "success"]
     ELSE /\ run' = [run EXCEPT !.tries = @ + 1,
                       !.pc = IF run.tries + 1 = VerifyTries THEN "failure" ELSE "verify"]
          /\ UNCHANGED journal
  /\ UNCHANGED <<bonded, keys, helper, late>>

\* Mutant: the wait for the helper has no limit of its own.
FailsUnlessHelped ==
  /\ run.pc \in WorkPcs
  /\ run.pc = "helper" => helper.pc = "error"
  /\ late' \in Abandoned
  /\ run' = [run EXCEPT !.pc = "failure"]
  /\ helper' = IF run.pc = "helper" THEN HelperOff ELSE helper
  /\ UNCHANGED <<bonded, keys, journal>>

\* An exception, or the timeout of 55 s (40 s for the helper), at any await: the
\* registry, Windows or the disk refuses, or no endpoint is known for a key.  A
\* helper is ended.
Fails ==
  /\ run.pc \in WorkPcs
  /\ late' \in Abandoned
  /\ run' = [run EXCEPT !.pc = "failure"]
  /\ \/ helper' = HelperOff /\ run.pc \in {"helper_start", "helper"}
     \/ UNCHANGED helper /\ run.pc # "helper"
  /\ UNCHANGED <<bonded, keys, journal>>

\* The result is published.
Answer ==
  /\ run.pc \in {"success", "failure"}
  /\ run' = NoRun
  /\ UNCHANGED <<bonded, keys, journal, helper, late>>

\* The service is killed; the helper is not.
Crash ==
  /\ run.pc # "idle"
  /\ late' \in IF helper.pc = "running" THEN {late} ELSE Abandoned
  /\ run' = NoRun
  /\ UNCHANGED <<bonded, keys, journal, helper>>

-----------------------------------------------------------------------------
(* The helper process, Windows and pairings                                *)

HelperUnpairs ==
  /\ helper.pc = "running"
  /\ \E d \in helper.todo :
       /\ bonded' \in Unpaired(d)
       /\ helper' = [pc |-> IF helper.todo = {d} THEN "success" ELSE "running",
                     todo |-> helper.todo \ {d}]
  /\ late' = late \cap bonded'
  /\ UNCHANGED <<keys, journal, run>>

\* It reports an error, or ends without a word when its user signs out.
HelperFails ==
  /\ helper.pc = "running"
  /\ late' \in Abandoned
  /\ helper' \in {HelperOff, [pc |-> "error", todo |-> {}]}
  /\ UNCHANGED <<bonded, keys, journal, run>>

WindowsUnpairs(d) ==
  /\ d \in late
  /\ bonded' = bonded \ {d}
  /\ late' = late \ {d}
  /\ UNCHANGED <<keys, journal, run, helper>>

\* Windows deletes the key of a phone whose BLE endpoint is gone.
WindowsDropsKey(p) ==
  /\ p \in keys
  /\ \A d \in bonded \cap Endpoints(p) : d.transport # "ble"
  /\ keys' = keys \ {p}
  /\ UNCHANGED <<bonded, journal, run, helper, late>>

\* The enrollment of p between two removals.  It ends the helper first.
Pair(p) ==
  /\ run.pc = "idle"
  /\ bonded' = bonded \cup Endpoints(p)
  /\ keys' = keys \cup {p}
  /\ late' \in Abandoned
  /\ helper' = HelperOff
  /\ UNCHANGED <<journal, run>>

Init ==
  /\ bonded = {d \in Devices : d.phone \in Paired}
  /\ keys = Paired
  /\ journal = [p \in Phones |-> {}]
  /\ run = NoRun
  /\ helper = HelperOff
  /\ late = {}

RunStep ==
  \/ ReadKeys \/ List \/ UnpairNext \/ HelperStarts \/ HelperAnswered
  \/ VerifyBonds \/ VerifyKeys \/ Fails \/ Answer

Next ==
  \/ RunStep
  \/ HelperUnpairs \/ HelperFails \/ Crash
  \/ \E p \in Phones : Begin(p) \/ Pair(p) \/ WindowsDropsKey(p)
  \/ \E d \in Devices : WindowsUnpairs(d)

Spec == Init /\ [][Next]_vars

\* Every await of the coroutine has a timeout; nothing is assumed of the helper.
FairSpec == Spec /\ WF_vars(RunStep)

-----------------------------------------------------------------------------
(* Properties                                                              *)

\* The variables keep their types.
TypeOK ==
  /\ bonded \subseteq Devices
  /\ keys \subseteq Phones
  /\ journal \in [Phones -> SUBSET Devices]
  /\ run \in RunRecords
  /\ helper \in HelperRecords
  /\ late \subseteq bonded

\* "A successful result verifies both Windows endpoints and private-key absence":
\* of the phone, not only of the endpoints this removal knew of, whatever earlier
\* removals of it left behind when they failed or were killed.
SuccessMeansGone ==
  run.pc = "success" => bonded \cap Endpoints(run.phone) = {} /\ run.phone \notin keys

\* What was begun can be finished: an endpoint whose phone has lost its key, so
\* that it can no longer be found, is in the journal.
UnfinishedIsJournaled ==
  \A d \in bonded : d.phone \notin keys => d \in journal[d.phone]

\* No endpoint is unpaired, by the service, the helper or a late completion, that
\* is not in the journal of its own phone: no other phone is touched.
UnpairsOnlyJournaled ==
  [][ \A d \in bonded \ bonded' : d \in journal[d.phone] ]_vars

\* Every removal is answered, unless the service is killed.
RemovalsEnd == run.pc # "idle" ~> run.pc = "idle"

=============================================================================
