# Presence Bridge in TLA+

Presence Bridge is a Home Assistant integration that knows who is home by the
rotating Bluetooth addresses of their phones. A phone is *enrolled* once: Home
Assistant shows a QR code, a receiver near the phone bonds with it, sends the
phone's identity resolving key (IRK) to Home Assistant, and is told that the
enrollment is complete when the key has been stored. Later the receiver can be
asked to remove the bond. From then on receivers report which enrolled phones
they hear, and Home Assistant decides who is home and in which room.

These modules model that system as the code runs it: coroutines that interleave
at their awaits, helper processes, messages that are lost, late, repeated and
reordered, clocks that differ, timeouts, failing saves and publishes, and
restarts.

## Contents

| File | What it is |
| --- | --- |
| `Enrollment.tla` | what Home Assistant relies on in any receiver: the abstract specification that both receivers implement |
| `PairingCoordinator.tla` | Home Assistant's side: pairing, cancellation, result, removal, repair |
| `PairingCoordinatorProofs.tla` | its inductive invariant, types, mutual exclusion, leases, and what the panel shows |
| `PairingStoreProofs.tla` | theorems about the identities in memory and in the store |
| `MCPairingCoordinator.tla`, `Pairing.cfg`, `Removal.cfg`, `PairingLive.cfg` | passing runs |
| `RefreshDies.cfg`, `CancelOverlap.cfg` | runs that show a disagreement of code and documentation |
| `LinuxReceiver.tla` | the Linux receiver: enrollment engine, BlueZ transport, command queue |
| `LinuxAttempts.tla` | `LinuxReceiver` with a history variable: how often each invitation was tried |
| `LinuxReceiverProofs.tla` | its theorems, that it takes only the steps of `Enrollment`, and what follows from that |
| `MCLinuxReceiver.tla`, `Linux.cfg`, `LinuxRemoval.cfg` | a passing run and a disagreement |
| `WindowsObserver.tla` | the Windows observer: command loop, attempts, helper, pause of the scan |
| `WindowsObserverProofs.tla` | its theorems, that it takes only the steps of `Enrollment`, and what follows from that |
| `MCWindowsObserver.tla`, `Windows.cfg` | a passing run |
| `ReverseGatt.tla` | one attempt of the Windows GATT client, its retries and its repair |
| `ReverseGattProofs.tla` | its theorems: with whom an attempt succeeds, which bonds it may remove |
| `MCReverseGatt.tla`, `Gatt.cfg` | a passing run |
| `RemovalJournal.tla` | the removal of a phone's bonds by the Windows receiver |
| `RemovalJournalProofs.tla` | its theorems: a removal can be resumed, and its success is real |
| `MCRemovalJournal.tla`, `Journal.cfg` | a passing run |
| `Presence.tla` | from what receivers hear to "home" and a room |
| `PresenceProofs.tla` | its theorems: presence, room and signal rest on something that was heard |
| `MCPresence.tla`, `Presence.cfg` | a passing run |
| `SignalAccess.tla` | codes and accesses of the signal API |
| `SignalAccessProofs.tla` | its theorems: a code is used once, a revocation is final |
| `MCSignalAccess.tla`, `Signal.cfg` | a passing run |
| `PROJECT.json` | components, runs, hazards, theorems, and the source lines of each definition |

`tlc -config Pairing.cfg MCPairingCoordinator` checks a run,
`tlapm PairingCoordinatorProofs.tla` the proofs of a module. The eight modules
with theorems are those whose names end in `Proofs`; `PairingStoreProofs` extends
`PairingCoordinatorProofs`.

In `PROJECT.json`, `map` gives the lines each definition stands for. Below, `C`
is `custom_components/presence_bridge/coordinator.py`, `N` is
`native_bluetooth.py` next to it, `E` is `receiver/engine.py` and `B` is
`receiver/bluez.py`, `L` is `bridge/linux/receiver.py`; in `bridge/windows`, `O`
is `observer.py`, `G` is `reverse_gatt_client.py`, `P` is
`numeric_pairing_probe.py`, `H` is `interactive_pairing_helper.py` and `J` is
`identity_removal.py`.

# The system

## Components

**Pairing and removal coordinator** (`C`). *State:* `_pairing_session` (at most
one session: target, invitation expiry, attempt and completion leases, whether a
result is being processed), `pairing_public` (what panel and websocket show,
with the QR code), `_bond_repair_offer`, `_removal_requests`,
`_orphan_pairing_cancels`, `memory` (identities, `phone_bond_resets`) and the
store file. *Operations:* `async_start_pairing`, `async_cancel_pairing`,
`async_remove_identity`, `async_repair_pairing`, the five second refresh loop,
the handlers of pairing status, pairing result, observer status and removal
result, setup and unload. *Hard:* everything is one asyncio thread, but only
start, removal and repair take `_pairing_lock`; cancellation, refresh, statuses
and results do not, and every one of them may be suspended at a publish, a save
or an executor job while the others run. *Correct when:* leases are never
renewed; a consumed, cancelled or completed invitation is not offered; a receiver
hears "complete" only of a stored identity; each session ends; removal and
enrollment exclude each other; an identity is forgotten only after the receiver
confirmed it, is never handed to another person, and does not come back.

**Presence tracker** (`C`, `N`, `models.py`). *State:* observers with their
observations and liveness, identity states (home, room, RSSI, last seen, time of
the signal). *Operations:* observations and statuses of receivers, Home
Assistant's own Bluetooth scanners, the refresh every five seconds. *Hard:*
snapshots that are late, repeated or retained, clocks that differ, several
receivers, two time stamps of one identity (the last sighting and the sample of
the room), handlers that interleave with the refresh. *Correct when:* a phone
is home only within the away delay of a real sighting, the room is one where a
fresh sample was taken, strength and time belong together, and a phone that left is
away in the end.

**Linux receiver** (`E`, `B`, `receiver/keys.py`, `L`, `local_receiver.py`).
*State:* the current attempt (task, link, deadline, completion event, "result
sent"), finished sessions, fingerprints with their Bluetooth addresses in memory
and in a file, BlueZ (agent, advertisement, device objects, bonds), the queue of
commands. *Operations:* start, cancel, complete, forget; the awaits of an
attempt. *Hard:* cancellation at every await, MQTT QoS 1 redelivery, loss of
MQTT or bluetoothd in the middle, kill and restart, a bounded queue. *Correct
when:* one run of the program tries an invitation once, the agent confirms only the phone that proved
its claim, the result follows the save, the receipt follows Home Assistant's
completion, every attempt and command ends, and a removal is what it says.

**Windows observer** (`O`). *State:* the command loop, the active attempt (task,
session, heartbeat, deadline), the confirmation event, the repair offer, the pause
handshake with the scanner, the result files of the helper. *Operations:* start
(by the app or by hand), cancel, complete, `repair_pairing`,
`forget_identity`; the scan loop and the heartbeat. *Hard:* cancellation at
every await, also inside the cleanup; the adapter shared by scan, attempt and
removal; a helper in another process that shares only files and a scheduled
task with the service and outlives it; a confirmation event shared by all attempts.
*Correct when:* scan and attempt never hold the adapter together, the
scan resumes, what the panel is told does not go back, a deadline is not
renewed, and all that Home Assistant relies on (below).

**Windows identity removal** (`J`). *State:* the journal of unfinished removals, the
bonds and keys of Windows. *Operations:* `remove_identity_bonds`, by the
service or by the helper. *Hard:* a crash between two unpairings destroys what the
removal is guided by. *Correct when:* the journal is cleared only when every bond
is gone, and no other phone is touched.

**Windows GATT client and pairing helpers** (`G`, `P`, `H`). *State:* what the
client knows of addresses (verified, reused, created, authenticated), counters of
failures by address, two deadlines, whether the one repair was used, the bonds of
Windows. *Operations:* discovery, reading the session, claim, ceremony or plain pairing,
acknowledgement, reconnection, repair; the proximity beacon beside it. *Hard:* five
failures may ask for the one repair, each after other retries; a phone that
changes its address in the middle; a bond of unknown strength from an earlier
attempt. *Correct when:* success needs the phone that proved the QR code and a secured
bond, at most one repair removes that phone's bond only, a bond of this attempt is
not taken for an old one, and the attempt ends.

**Signal monitoring API** (`signal_api.py`, `signal_access.py`, `__init__.py`). A QR
code carries a one-time token (10 min) that the app exchanges for access (90
days). *State:* two tokens in the row of each identity. *Operations:* show a code,
redeem it, revoke, read; enrollment and removal replace or take out the row.
*Hard:* each of these changes memory and then awaits a write that may fail, while
the others run; a removal that fails puts the row back. *Correct when:* a code gives
one access, and an access that ended does not come back.

**Local receiver** (`local_receiver.py`) runs the Linux engine in Home
Assistant's process. **App-link protocol** (`protocol.py`, two equal copies): links,
expiry, HMAC proofs; pure functions. **Services, websocket, entities, config flow,
diagnostics, panel, installers, recovery tools**: registration, rendering, set-up
and manual tools around the above.

## Interaction

```
 panel, services           MQTT topics, or a call in the same process
      |  start/cancel/remove/repair                     |
      v                                                 v
  PairingCoordinator --- start_app_pairing, cancel ---> receiver --- Bluetooth --- phone
      |   ^         ---  complete, forget_identity -->     |
    store |                                                |
          +------ status, pairing status, result, <--------+
                  removal result, observations
```

The order that matters is: claim verified, bond made, acknowledgement taken by
the phone, receiver's file saved, result published, sighting verified, store
saved, `complete` published, receipt shown.

# The models

## Enrollment

What Home Assistant relies on in any receiver, in four variables: the session of the
`attempt` that runs, its `phase` (`idle`, `pairing`, `reported`, `receipt`,
`ending`), whether bonds are being removed (`removing`), and what Home Assistant has
`committed`. `Begin`, `Report`, `Confirm`, `Wind` and `End` are the life of an
attempt, `Remove` and `Removed` a removal, `Commit` is Home Assistant. It promises
that there is one attempt at a time and no removal beside it, that an identity is
reported once, that the phone hears of success only after the commit, and that
every attempt and every removal ends (`WF` of `End` and `Removed`).

`LinuxReceiver` and `WindowsObserver` each instantiate it as `Promise`, with
`Phase` computed from the await the attempt is suspended on; `ImplementsEnrollment`
is its specification, liveness included. `ToldIsCommitted` and `RemovesAlone` are what
follows for every receiver; they are proved of both.

## PairingCoordinator

A coroutine runs uninterrupted from one await to the next. An action is one such
segment and the coroutine's `pc` is the await it is suspended on.

| Variable | Code |
| --- | --- |
| `session`, `public`, `offer`, `orphans` | `_pairing_session`, `pairing_public`, `_bond_repair_offer`, `_orphan_pairing_cancels` |
| `ram`, `disk` | `memory` and the last completed write of `Store`: owner (person and receiver) of each key, `phone_bond_resets` |
| `queue` | `_pairing_lock`: holder first, then the waiters in FIFO order |
| `call[c]` | coroutine of client `c`: start, cancel, remove or repair, with its local variables; a pending removal request and its answer |
| `refresh`, `result[sid]` | `_async_periodic_refresh`; the task of `_async_process_pairing_result` |
| `online` | receivers whose `ObserverState.online` is true |
| `nextSid`, `started` | the id of the next session; sessions whose start was published |

Actions: `Call*` enter a service; `StartRefused`, `StartReplaces`,
`StartCancelled`, `StartKeyReady`, `StartQrReady`, `StartPublished` are the
segments of a start; `CancelPublished` and the `Refresh*` actions end a session;
`StatusMessage`, `OrphanMessage`, `ResultMessage`, `RemovalResultMessage` are
MQTT handlers; `ResultWakes` to `ResultRaises` the segments after a result;
`RemoveRequests` to `ForgetSaveFails` those of a removal or repair. `Restart`
kills Home Assistant at any point and reloads the store.

Deadlines are kept as the time left, `Tick` decreases them, so a fixed
deadline needs no clock and the state space is finite. A status may carry any
lease of `LeasePayloads`; `BoundedLease` accepts, cuts or rejects it as
`_bounded_lease_deadline` does. The eight states a running attempt reports
through are one (`"pairing"`), as the coordinator does not distinguish them;
detail codes are the two it acts upon and the rest. Encrypted results that do
not decrypt are `NoIrk`.

## LinuxReceiver

| Variable | Code |
| --- | --- |
| `inbox`, `worker` | the queue and `commands()` in `L`: idle, waiting for a cancelled attempt, or waiting for BlueZ |
| `task`, `session`, `deadline`, `sent`, `completed`, `retired` | the fields of `LinuxReceiver`; `task.pc` is the await of `_pair` |
| `peers`, `saved`, `late` | `self.peers`, its file, and writes that go on in a thread after their attempt was cancelled |
| `agent`, `advert`, `alive`, `bonded` | `agent.target`, the advertisement, `transport.owner`, the bonds BlueZ holds |
| `mqtt` | whether the MQTT client is connected: publications of an attempt raise if not |
| `left`, `ha` | expiry of each invitation, and what Home Assistant has done with the session |
| `out` | the messages that the last step published |
| `attempts` (`LinuxAttempts`) | history, not in the code: attempts of each invitation that began since the program was started, none, one or more |

The history is conjoined to each step in a module of its own and guards none, so
`LinuxReceiver` is the receiver and `LinuxAttempts` the same behaviours with a record.
`retired` alone cannot tell whether an invitation was tried twice: a restart and its
bound empty it.

`Begin` to `ReceiptShown` are the awaits of an attempt in their order; `Fails`,
`Expires` and `Cancelled` end it at any of them through `Stop` and `End`, the
`except` and `finally` clauses; `Take*` are the commands. Home Assistant is an
environment that starts each session once, repeats starts and cancels at any
time and completes a session after its result, possibly repeatedly. A phone
stands for its key, fingerprint and address.

## WindowsObserver

| Variable | Code |
| --- | --- |
| `loop` | `_pairing_command_loop`: idle, or waiting for a cancelled attempt before a start or a repair, for the scan before a removal, or for the removal |
| `session`, `task` | `_active_pairing_session_id`, `_active_pairing_task`; `task.pc` is the await, `task.holds` its local `scanner_paused` |
| `beating`, `shown` | `heartbeat_task`; the last status that was published |
| `lease`, `offer`, `committed` | `_app_attempt_expires_at`, `_bond_repair_offer`, `_ha_pairing_committed` |
| `paused`, `scanner` | `_scanner_pause_requested`; the scan loop, where `"stopped"` is `_scanner_stopped` |
| `interactive`, `helper` | whether the helper is installed, and which session and purpose it runs for |
| `ha` | what Home Assistant has done with each session |

`Begin` to `Ended` are the awaits of an attempt of the app: pause of the scan,
baseline of the bonds, the helper (`end_old`, `run`, `poll`, `end`: the
`schtasks` calls and the polling of its files) or the client in the process, the
capture of the key, the end of the heartbeat, the wait for Home Assistant, the
receipt through the helper again, and the `finally` clause. `ManualStep` is the older
attempt by hand. `Take*` and `Started`, `Repair*`, `Removal*` are the command
loop, `ScanStep` the scan. A cancellation is delivered at once: `task.cancel()`
and what the attempt does up to its next await are one step. The helper reports
what it likes, when it likes, also about an expiry (`LastReport`, `Bounded`);
`HelperExits` is independent of the service. `Restart` kills the service and leaves
the helper running. A removal is one await here, which `RemovalJournal` opens.

## ReverseGatt

One attempt of the client in `G`, with the ceremony of `P` and the beacon that
`H` runs beside it.

| Variable | Code |
| --- | --- |
| `pc`, `device`, `scoped` | the await; the candidate and whether it advertises this session |
| `probe`, `reuse` | the ceremony (`QRSessionPairing`, armed or not); `reused_bond` |
| `beacon`, `starts` | the helper waits for a write to the proximity server; its failed starts |
| `verified`, `reused`, `created`, `authed`, `secure` | `_qr_verified_addresses`, `_reused_bond_addresses`, `_created_bond_addresses`, `_authenticated_ack_addresses`, `_secure_bond_confirmed` |
| `repairUsed`, `discovery`, `rejections`, `postDiscovery`, `postWrites` | `_bond_repair_used` and the counters of failures |
| `invite`, `handoff` | what is left until `invitation_deadline` and `_handoff_deadline` |
| `bond` | what Windows has saved of each phone, its strength and the address it was made under |

The limits of the counters are those of the code. What a route of the
discovery, a read, a write or a ceremony brings is open; the phone behind an
address is known to the model (`Owner`), not to the client. `LateFailure`,
`LastFailure` and `Retry` are the ends of a failed step, in the order in which
the code asks for a repair, a retry or the end; `Repair*` is the one automatic repair.

## RemovalJournal

Windows identifies the endpoints of a phone, a classic and a BLE one, by its
private key in the registry, and deletes that key together with the BLE bond.
So a removal that stops half-way destroys what it was guided by.
`remove_identity_bonds` (`J`) therefore writes its targets to a journal before
the first unpairing and takes them out after it has verified that bonds and key
are gone. Unpairing is done by the service, or by a scheduled task of the
signed-in user, another process that survives the service.

| Variable | Code |
| --- | --- |
| `bonded`, `keys` | Windows: paired endpoints, phones with a private key in the registry |
| `journal` | `identity-removals.json`, targets by fingerprint; its replacement is atomic |
| `run` | the coroutine at its awaits, with its locals `records`, `targets`, `still_paired` and the attempt number |
| `helper` | the helper process and its result file |
| `late` | unpairings nobody waits for any more and that Windows may still complete |

`ReadKeys`, `List`, `UnpairNext` or `HelperStarts` and `HelperAnswered`,
`VerifyBonds`, `VerifyKeys` and `Answer` are the segments of the coroutine,
`Fails` any exception or timeout at an await, `Crash` the end of the service,
`HelperUnpairs` and `HelperFails` the helper. `Unpaired` gives what one call of
`unpair_device` may leave behind: nothing done, the endpoint gone, or its whole
address gone; its failure is `Fails`. The order of the targets is left open, which
allows more than the code does. `WindowsDropsKey`, `WindowsUnpairs` and `Pair` are the
environment: `Pair` stands for an enrollment that bonds both endpoints.

`EndpointsAssumption` is what `select_bond_devices` relies on: an address, or a
container that Windows tells, belongs to one phone, and the address of the key
is that of the BLE endpoint, from which the other endpoints are reached by
address or container. Before a removal the command loop checks its cache and
the repair offer and pauses the scanner; that is left to `WindowsObserver`.

An enrollment may also reset bonds itself (`_remove_verified_peer_bonds`,
`G` line 346), endpoint by endpoint and without a journal. That is not a step of this
module, so its properties are about receivers on which no such reset stops half-way;
they would not survive one. `ReverseGatt` has the reset, for the bond of a phone as
a whole.

## Presence

One phone, so that an observation is an age and a strength. A time stamp is kept as
its age in ticks of the refresh, until it is older than anything the code compares it
with (`Remembered`, `Unknown`); a receiver's clock may be `ahead`, or behind, by
`Skew`. `table` is what each receiver really heard last, `wire` the last snapshot of a
bridge, which `Delivered` may bring late, repeatedly or never; `online`,
`lastSeen`, `obs` and `state` are the fields of `ObserverState` and
`IdentityState`.

`Hear` and `Publish` are a receiver, `Delivered` and `Status` the MQTT handlers,
`Refresh` one pass of `_async_periodic_refresh` with the poll of Home
Assistant's scanners (`Polled`), `Restart` drops what is not stored. A
snapshot and a pass end with the resolution of the identity (`Resolved`: which sample
wins, whether the room changes), a pass after its expiry (`Expired`), as in the code.

## SignalAccess

A token is the number of its creation, so that "newer" means something; the row of an
identity holds a pending code and an access. A call changes `ram`, suspends at
the write of the store and goes on with `CodeSaved`, `RedeemSaved`, `RevokeSaved`,
`ForgetSaved` or `EnrollSaved`, or with `SaveFails`. `StoreWritten` is the write of
a call that has not resumed yet, or of another part of the integration. `Read` and
`LimitLifts` are the reading of the signal and its limit of one read a second
(`throttled`); they change no row, and no property is about the limit. `shown`, `delivered` and `ended` only record what an admin, an app and a
revocation were told.

# What the runs show

| Run | Instance | Properties |
| --- | --- | --- |
| `pairing` | 2 clients who start and cancel, 1 person, 1 receiver, 1 phone, 2 sessions, saves and publishes may fail, leases absent, short or too long | `CompletionWithinAttempt`, `ConsumedInvitationHidden`, `ShownDeadlineIsReal`, `LeaseNeverRenewed`, `CompleteOnlyWhenSaved`, `OneResultPerSession` |
| `removal` | one client pairs, one removes and repairs, 2 people, 1 phone, saves may fail | `NoPairingDuringRemoval`, `NoResurrection`, `CompleteIsEnrolled`, `OfferStillApplies`, `NeverReassigned`, `RemovedOnlyWhenConfirmed`, `PhoneResetKept` |
| `pairing_live` | one client pairs and cancels, one removes; publishes do not raise; fair | `SessionsEnd`, `CallsReturn` |
| `linux` | 2 sessions, 1 phone, queue of 1; fair | `TriedOnce`, `ResultOnlyWhenSaved`, `ImplementsEnrollment`, `CommandsServed` |
| `windows` | 2 sessions, deadline of 2, with and without the helper; fair | `AdapterIsFree`, `StatusNeverGoesBack`, `DeadlineNeverRenewed`, `ScanResumes`, `CommandsServed`, `ImplementsEnrollment` |
| `gatt` | the phone with two addresses, another phone, code 1 and lease 2 ticks; fair | `TypeOK`, `SuccessIsSecured`, `OneRepairOfTheVerified`, `NewBondKept`, `AttemptEnds` |
| `journal` | 2 phones, one with 2 addresses in a container, one with both endpoints at an address; the helper may be installed or not; fair | `SuccessMeansGone`, `UnfinishedIsJournaled`, `UnpairsOnlyJournaled`, `RemovalsEnd` |
| `presence` | a bridge (-64 dBm) with a clock that is off, a scanner (-60 or -71 dBm); away delay 2, other delays 1; fair | `HomeWasHeard`, `RoomWasHeard`, `SampleMatchesTime`, `GoneIsAway` |
| `signal` | 1 identity, 2 coroutines, 4 tokens, code 1 and access 2 ticks | `OneAccessPerCode`, `EndedStaysEnded` |

Each property is stated in words above its definition. Each is violated by a
one-definition mutant that is kept next to the original, marked `Mutant`. Types are
proved for every module (below); `gatt` checks them too, because its counters are limits
of the code.
The instances are explored completely: about 2.9 million distinct states in `removal`,
720,000 in `gatt`, 530,000 in `linux`, 360,000 in `signal`, 150,000 in `presence`,
82,000 in `journal`, 76,000 in `windows`.

Three runs end in a violation, each a disagreement between the code and what the
repository says of it (quoted in `PROJECT.json`):

- `refresh_dies`: a cancel command that raises (a `ReceiverError` of a receiver
  in the same process, or MQTT being unavailable) ends the refresh loop; no
  later session times out.
- `cancel_overlap`: `async_cancel_pairing` drops whichever session is current
  after its publish; if a start overlapped it, the new session is gone and its
  receiver goes on enrolling.
- `linux_removal`: after bluetoothd restarted, the receiver reports a removal it
  never asked BlueZ for.

## Observed behaviours that have no run

The models also contain these behaviours of the code; the properties are worded so
that they hold of it.

- A Linux receiver may try an invitation again. It remembers finished ones in memory
  only (`E` line 59), drops them when there are more than 256 (`E` line 323), and does not
  remember one whose task was cancelled before its first statement, as the `finally`
  clause is then never reached (`E` line 321). A start that is redelivered after a
  restart, after those 256, or after such a cancel runs an invitation that has not
  expired, although Home Assistant may have cancelled it. `TriedOnce` counts the attempts
  of one run of the program and names these cases; the restart is a reset of the count,
  the bound its hypothesis, the early cancel no attempt.
- A cancelled attempt leaves its write of the state file to a thread (`E` line 268). If
  that thread is late, it writes an older snapshot over one that a later attempt saved
  and reported; a receiver that is killed then does not know that phone any more.
  `ResultOnlyWhenSaved` is about the moment at which the result is published.
- A command that meets a full queue is dropped (`L` line 103). No property forbids that;
  what is checked is that an attempt ends although its cancel or its completion was
  dropped.
- A start of the running session that is delivered again after the invitation expired is
  answered with the status `error` before the Windows observer sees that it is a duplicate
  (`O` line 763), while the attempt and its heartbeat go on (`TakeInvalidStart`).
  `StatusNeverGoesBack` is about the results and ends of the attempt itself.
- A cancellation while the QR code is being drawn: the start then shows a code that
  belongs to no session (`C` line 604, `StartQrReady`).
- The cleanup of a manual Windows pairing awaits a thread before it resumes the
  scan; a second cancellation in that await leaves the scan paused for good (`O` line
  1523). That is why `ScanResumes` speaks of attempts of the app.
- A phone that is enrolled again gets a new row, so the app loses its access with no
  revocation (`C` line 965, `Enroll`).
- A removal whose save fails puts the identity back into memory, not into the store
  (`C` line 1246). If another write overlapped, the store has it no more, and a
  restart loses an identity whose removal was reported as failed.
- After a change of address the Windows client takes the bond of this attempt for an
  old one, because it remembers bonds by address (`G` line 1081); `NewBondKept` is
  therefore about the address under which the bond was made.
- A reset of bonds in an enrollment is not journaled (`G` line 346, see
  `RemovalJournal`).

## Bounds, and why they are enough

- *Two sessions* (`MaxSessions`, `Sids`): every hazard is between a session and
  the one before it: late status, result, completion or cancel of the old one
  while the new one runs. `pairing_live` uses one session (liveness of a session
  does not depend on its number), the two-session liveness question is the run
  `refresh_dies`.
- *Two clients*: the lock has a holder and a waiter, and a cancellation may
  overlap a start. *Two people* in `removal` make reassignment possible. Two
  coroutines in `signal` are one suspended at its write and one that overtakes it.
- *Deadlines of 1 or 2*, `LeasePayloads` of none, 1 and 2: before, at and after the
  deadline; a lease shorter than, equal to and cut down to the maximum.
  `Grace`, `Skew`, `CoalesceAge`, `OfferTTL` and `VerifyTries` are 1,
  `RenewMargin` 0: they are thresholds, and each side of each is reached. In
  `windows` the deadline is 2, so that a report can shorten it; in `gatt` the
  lease outlives the code, as it does in the code.
- *Queue of 1* in `linux`: the queue is full as soon as a command waits. *`RetiredMax` 2*
  is the number of sessions: `TriedOnce` then speaks of every invitation of the run, and
  a memory that forgets one of two too early violates it. Nothing is evicted in the run;
  the theorems are about every `RetiredMax`, and the model has been explored once with 1
  as well (1.1 million states, no violation), which evicts.
- *Three addresses* in `gatt`: the phone before and after a change of address, and a phone
  that is not meant. All failures and retries are unbounded but for the code's limits.
- *Two phones with two endpoints* in `journal`: one to stop half-way in, one that
  must not be touched, and both ways of finding an endpoint. Failures, kills and
  retries are unbounded. `VerifyTries` 2 is a first and a last inventory.
- *Presence:* the scanner is within 6 dB of the bridge or beyond, so the hysteresis both
  keeps and changes the room. Ages are counted up to where they stop to matter; a
  clock is a tick behind, right or a tick ahead.
- *Four tokens* in `signal`: two codes and their accesses, so a code and an
  access can be replaced.
- `SYMMETRY` is used in runs without liveness only, over clients where no
  definition singles one out, and over people.
- `CHECK_DEADLOCK FALSE`: once all sessions or tokens are used, all timers ran out or the
  attempt is over, a bounded instance may stop.

## Fairness

`FairSpec` is weakly fair to what the code runs by itself, and to `Tick`:

- `PairingCoordinator`: each coroutine. asyncio resumes a coroutine whose await is
  over, and each await in the code ends: it is a write, a computation, a
  publish, or a wait with a timeout. Nothing is assumed of clients, phones,
  receivers, MQTT or restarts: a session ends although its receiver is silent.
  `SessionsEnd` is checked where publishes do not raise; `refresh_dies` is the same
  property where they may.
- `LinuxReceiver`: the attempt and the worker. Finding a phone and Home Assistant's
  completion are not fair: an attempt ends without them.
- `WindowsObserver`: the attempt (`TaskStep`), the command loop (`LoopStep`) and the
  scan (`ScanStep`). The helper and Home Assistant are not fair: each wait for them
  has a deadline.
- `ReverseGatt`: the next step of the client, whatever it is. Each await is inside a
  timeout, so it ends, well or badly.
- `RemovalJournal`: the coroutine only, each of its awaits being inside a timeout;
  neither the helper nor Windows need ever do anything.
- `Presence`: the refresh task, which sleeps five seconds between its passes.
  `GoneIsAway` thus assumes that this task is alive; `refresh_dies` shows how it may
  end.
- `Enrollment` promises `End` and `Removed`; the receivers' fairness is shown to
  imply it.

# What is proved

Every theorem is about all values of the constants that satisfy the assumptions
named in its module, that is for any number of clients, people, receivers, keys,
sessions, phones, addresses or tokens and any timeouts.

## The coordinator

The assumptions are `CoordinatorAssumption`, `StoreAssumption` and
`AbsentAssumption` (the absent values are none of the present ones).

| Theorem | Statement |
| --- | --- |
| `Invariance` | `Spec => []Inv` |
| `TypeCorrect` | `Spec => []TypeOK` |
| `LockExcludes` | `Spec => []MutualExclusion`: at most one call is inside the lock |
| `RemovalExcludesPairing` | `Spec => []NoPairingDuringRemoval` |
| `LeasesOrdered` | `Spec => []CompletionWithinAttempt` |
| `LeasesNeverRenewed` | `Spec => LeaseNeverRenewed` |
| `ConsumedInvitationsHidden` | `Spec => []ConsumedInvitationHidden` |
| `ShownDeadlinesReal` | `Spec => []ShownDeadlineIsReal` |
| `RemovedStaysRemoved` | `Spec => []NoResurrection` |
| `PhonesNeverReassigned` | `Spec => NeverReassigned` |
| `RemovalsConfirmed` | `Spec => RemovedOnlyWhenConfirmed` |
| `PhoneResetsKept` | `Spec => PhoneResetKept` |
| `OffersStillApply` | `Spec => []OfferStillApplies` |
| `ResultsProcessedOnce` | `Spec => OneResultPerSession` |
| `CompletionsSaved` | `Spec => CompleteOnlyWhenSaved` |
| `CompleteEnrolled` | `Spec => []CompleteIsEnrolled` |

The first eight are in `PairingCoordinatorProofs`, the last eight in
`PairingStoreProofs`: all safety properties of the coordinator's runs. `NoPairingDuringRemoval` is
not inductive: a status, a result or a start of another client could create or
keep a session as far as it says. `Inv` adds what makes it so:

- `LockInv`: a call is in a locked segment only as head of `queue`; so while one
  call is in `RemovalPcs` no other is in `StartPcs`, the only segments that
  create a session.
- `CallInv(c)`: what the local variables of a call hold at each await, and that
  there is no session in `start_key` and in `RemovalPcs`.
- `ResultInv`: a result task works on the key of a phone, so that the segment
  after it keeps the types.

There is one lemma per action or group of actions (`StartStep` and its like),
each showing that the step preserves each conjunct of `Inv`; facts on deadlines
(`TimersFacts`) and on the lock (`HolderStep`, `ReturnStep`) are lemmas of their
own. The temporal step is `PTL`.

Two more invariants of `PairingCoordinatorProofs` build on `Inv`.

- *Leases.* `LeasedFacts` says what one status does to them; `SessionStep`, that
  a session is otherwise kept, dropped, created without a lease, marked as
  processing or aged. Hence `SurvivingSession`, from which both theorems follow.
- *The panel.* A claimed session must not have a coroutine that still draws its
  QR code: that coroutine would put the code back. `HistoryInv` rules it out:
  a claim follows the start command (`started`), and that command follows the
  drawing. `ShownInv` says in addition that before the drawing ends nothing of an
  earlier session is on show and that the expiry the coroutine holds is that of
  the session, if there is still one. `StartFrame` says how a coroutine gets
  there, `PublicStep` who may put an invitation or a deadline on show: nobody
  but a status, the passing of time and the end of the drawing.

`PairingStoreProofs` builds on all of these. None of its properties is inductive, because each
relates the store or the panel to what a suspended coroutine holds in its locals.

- *The store.* `StoreInv` says what a removal knows: the row it removes is the row
  in memory until it takes it out (nobody else changes it, as no session can complete
  while the lock is held), and from then on the disk holds that row or nothing
  (`RowInv`); apart from that the disk lags behind memory but never names another
  person (`DiskInv`). `StoreStep` shows it preserved; `RowStep`, `RemovalAlone` and
  `RemovalWaiting` say that at most one removal is in its segments and what the others
  know meanwhile. Resurrection, reassignment, confirmation and the reset flag follow.
- *The offer.* `OfferInv`: while there is an offer there is no session, a start has
  dropped it before it creates one, and a removal that took its identity out of memory
  still holds the same row (`OfferStep`).
- *The result.* `TaskInv`: while a task works on the result of the current session,
  that session is marked as processing, and from the change of memory on its identity
  stays there. So there is one task per session, and one that publishes `complete` finds
  the identity saved (`ResultFrame`).
- *The panel.* `CompleteInv` adds to `CompleteIsEnrolled` that what is shown as complete
  names an identity; `CompleteStep` tells the only step that shows `complete` from
  those that take its identity away.

## The receivers

| Theorem | Statement |
| --- | --- |
| `LinuxReceiverProofs!Invariance`, `TypeCorrect` | `Spec => []IInv`, `Spec => []TypeOK` |
| `InvitationTriedOnce` | `HistorySpec => []TriedOnce` |
| `ResultFollowsSave` | `Spec => ResultOnlyWhenSaved` |
| `ImplementsSafety` | `Spec => Promise!Safety` |
| `PromiseIsKept` | `Spec => [](Promise!ToldIsCommitted /\ Promise!RemovesAlone)` |
| `ReceiptFollowsCommit` | when a receipt goes on the air, it is for the running session, and that is committed |
| `WindowsObserverProofs!Invariance`, `TypeCorrect` | `Spec => []IInv`, `Spec => []TypeOK` |
| `RadioIsReserved` | `Spec => []AdapterIsFree` |
| `DeadlineIsKept` | `Spec => DeadlineNeverRenewed` |
| `StatusIsMonotone` | `Spec => StatusNeverGoesBack` |
| `ImplementsSafety` | `Spec => Promise!Safety` |
| `PromiseIsKept` | `Spec => [](Promise!ToldIsCommitted /\ Promise!RemovesAlone)` |
| `HelperTellsTruth` | `Spec => []HelperTold`: a helper that reports a success does so of a committed session |

`ImplementsSafety` is the refinement of `Enrollment` without its fairness: initial
states map to initial states and each step to a step or a stutter. Its proofs restate
the refinement mapping as operators of the await (`PhaseOf`, `AttemptOf`), so that a
step of the receiver needs only the pair of awaits between which it goes; the lemmas
named `Promised...` list the pairs `Enrollment` allows.

What `Enrollment` promises is then an invariant of each receiver, proved from the
steps of `Enrollment` alone (`PromiseStep`, `PromiseIsKept`): in the phase of the
receipt the session is a committed one, and a removal runs only when no attempt does.
Two theorems carry this to the radio, where it outlives the attempt. The advertisement of
a receipt may stay on the air after its attempt, so `ReceiptFollowsCommit` speaks of
the step that puts it there. The helper on Windows goes on after a cancellation, a
call of `schtasks` that timed out, or a restart of the service; `HelperSteps` says that
only a run of the current session starts one and `CommitLasts` that Home Assistant
does not take a commit back.

- *Linux, the history.* `TriedOnce` rests on `HistoryInv`: until more than `RetiredMax`
  invitations were tried, each that was tried is in `retired` or is the one whose attempt
  is in its body (`TriedIsRemembered`). `OtherSteps` shows that every step but the first
  of an attempt and a restart either stays in the body of the attempt (`Stays`) or leaves it and
  retires its invitation (`Leaves`), whichever of the errors, timeouts and cancels it is;
  `NothingForgotten` that the bound does not bite before. `HistorySpec` implies `Spec`,
  so `IInv` is used as it is.
- *Linux.* `AttemptInv`: an attempt runs an invitation that is not retired, knows its
  phone from the connection on, and reports only a peer it has in memory. `CommitInv`:
  a completion that waits in the queue, or was taken, is one of a session that Home
  Assistant committed. `RemovalInv`: no attempt runs beside a removal.
- *Windows.* `AdapterIsFree` is not inductive: between two uses of the radio an
  attempt must not have given it back. `HoldsRadio` adds those awaits and
  `RadioInv` says that whoever holds the radio has paused the scan and it stopped.
  `LoopInv`: a removal begins when no attempt runs, and none is started beside it.
  `ShownInv`: the heartbeat beats only while a claim is running, and then nothing
  but progress, or the refusal of a start, has been shown. `CommitInv`: the confirmation event, once it is set for
  the current attempt, is that of a committed session.

## The Windows client

`ReverseGattProofs` assumes `GattAssumption` only; the limits of the counters are
definitions, those of the code.

| Theorem | Statement |
| --- | --- |
| `Invariance`, `TypeCorrect` | `Spec => []IInv`, `Spec => []TypeOK` |
| `SuccessSecured` | `Spec => []SuccessIsSecured` |
| `OneRepair` | `Spec => OneRepairOfTheVerified` |
| `NewBondNeverRemoved` | `Spec => NewBondKept` |
| `LeaseNeverRenewed` | once the handoff lease runs it only runs down |

The client keeps what it knows by address, in sets that survive the candidate;
a bond is that of a phone, and a phone changes its address. `IInv` relates the two:

- `PeerInv`: whoever is past the claim is in `verified`, and whoever is in `verified`
  is the phone that scanned the code.
- `CounterInv`: while the attempt goes on, no counter has reached its limit; so each
  failure still has a place in its type.
- `CeremonyInv`: with the ceremony the acknowledgement is written over an
  authenticated bond, without it a bond exists before it is waited for.
- `SecureInv`: `_secure_bond_confirmed`, which is set for one address and read for all,
  means that the phone has a bond. A repair that runs out of time is the exception: it
  has removed the bond, but then the lease is over too and no other candidate follows.
- `NewBondInv`, `OldBondInv`: with the ceremony, a bond made in this attempt is
  authenticated and its address is in `created`; a bond that was taken for an old one is,
  until the repair, not one made under that address.
- `RepairInv`: the bond a repair is about to remove was not made under the address of
  its candidate. This is `NewBondKept` one step ahead.

Most actions of a candidate end in a retry, a failure or the repair. `RetryFacts` and
`RepairFacts` say what those may be, and `LeftInv` and `RetryInv` that they preserve
`IInv` when the step takes no bond away; the proofs of the actions are left with
the ways that go on. `RemovedOnlyInRepair` finds the only action that removes a bond,
`RepairBeginsOnce` that a repair begins only while `repairUsed` is false.

## Presence and signal access

| Theorem | Statement |
| --- | --- |
| `PresenceProofs!Invariance`, `TypeCorrect` | `Spec => []IInv`, `Spec => []TypeOK` |
| `PresenceIsEvidence` | `Spec => []HomeWasHeard` |
| `RoomIsEvidence` | `Spec => []RoomWasHeard` |
| `SamplesMatch` | `Spec => []SampleMatchesTime` |
| `SignalAccessProofs!Invariance`, `TypeCorrect` | `Spec => []Inv`, `Spec => []TypeOK` |
| `CodeUsedOnce` | `Spec => []OneAccessPerCode` |
| `RevocationIsFinal` | `Spec => []EndedStaysEnded` |

`Truthful` is the heart of `PresenceProofs`: a time stamp, wherever it is kept, is not
younger than what its receiver heard, but for the difference of the clocks.
`SamplesInv` says so of snapshots and observations, `StateInv` of the identity, and
`HomeInv` that a phone is home by a sighting that counts or by one that stopped to count
after the last pass, which is the one tick in `HomeWasHeard`.

`SampleMatchesTime` relates two fields that are read together and written by different
handlers: strength and receivers come from the observations, the time from the
identity. `SignalInv` says that while the sample of the chosen receiver counts
(`SignalFresh`) both are of one sample. Three facts make it inductive. Every step that
brings new observations ends with the resolution of the identity, which copies strength
and time of the sample it chooses (`ResolvedMatches`, `SampleKept`). A receiver that is
offline has no sample that counts, and coming online does not bring one back
(`OfflineInv`). And a tick ages both stamps alike, unless a clock is ahead; a
clock that is not ahead never dates a sample in the future (`ClockInv`, `SignalTick`).

In `SignalAccessProofs` a row may live in memory, in the locals of a removal that may
put it back (`LiveRow`), or on the disk (`KeptRow`). `EndedInv` says of all three that
they hold no token that ended, except where the call that ends it is not through;
`ForgetInv` what a suspended removal holds; `CodeInv` that a code for which an access was
delivered, or is about to be, is in no row that is live; `TokenInv` that no token is
newer than the last.

## The removal journal

Assuming `RemovalAssumption` and `EndpointsAssumption`, `RemovalJournalProofs` proves:

| Theorem | Statement |
| --- | --- |
| `Invariance` | `Spec => []IInv` |
| `TypeCorrect` | `Spec => []TypeOK` |
| `RemovalVerified` | `Spec => []SuccessMeansGone` |
| `RemovalResumable` | `Spec => []UnfinishedIsJournaled` |
| `UnpairsAreJournaled` | `Spec => UnpairsOnlyJournaled` |

`SuccessMeansGone` speaks of all endpoints of the phone, the coroutine only looks
for those it lists. The invariant closes the gap:

- `JournalInv`: the journal holds all endpoints of a phone or none, and a phone that
  is not in it is bonded completely, with its key, or not at all. So what `Select`
  cannot find any more is in the journal. (It holds because nobody else unpairs:
  a reset in an enrollment, or a user in the settings of Windows, would break it.)
- `RunInv`: at each await, what the coroutine's locals say of the store: its
  targets are the journal's, a key once seen absent stays absent, and an inventory
  that saw no target means that nothing of the phone is bonded.
- `PendingInv`: everything that may still be unpaired, by the helper, by a late
  completion or by the coroutine, is in the journal; an entry therefore leaves it
  only when its phone has no endpoint left for them to touch.

`SelectFacts` is the lemma on `select_bond_devices`: it returns no endpoint of another
phone, and every endpoint of a phone that has its key and all of its bonds.
`ShrinkStep` covers each way in which an
endpoint disappears.

## Only model-checked

Only what needs fairness, which the prover does not handle (nor ENABLED): `SessionsEnd`,
`CallsReturn`, `CommandsServed`, `ScanResumes`, `RemovalsEnd`, `AttemptEnds`, `GoneIsAway`
and the liveness half of `ImplementsEnrollment`. What makes some of them true is
safety, and proved: `LeasesNeverRenewed`, `DeadlineIsKept` and `LeaseNeverRenewed` for the
sessions and attempts that end with their leases, `PresenceIsEvidence` for `GoneIsAway`,
`ImplementsSafety` for the refinement. Every safety property of a passing run is a theorem.

# What is not modelled

*Contents and formats* everywhere: encryption, HMACs, IRK resolution, validation of
payloads (an invalid payload is dropped, or is a `NoIrk` result), texts, logging.

*Coordinator:* `set_observer_area`, which changes a label; unloading; retained
messages. *Linux program:* orderly shutdown, the MQTT client library, the `doctor`
command; the heartbeat changes no state.

*Windows observer:* the orderly shutdown, configuration and the registry reader.
Commands are not kept in a queue: any command that was sent may be taken at any time
and repeatedly, which includes every order a queue gives. A start that is invalid or
expired is `TakeInvalidStart`: it only publishes its refusal. The cache of answered removals only repeats
an answer. A cancellation may leave a helper running (during `schtasks /Run`, or when
it interrupts the last `/End`), and one is swallowed while the attempt awaits its
cancelled heartbeat; both are in the model. Without the helper the completion
receipt fails, as in the code.

*Windows client:* the older `GattPairingServer` transport, the beacon of a receipt,
and the choice among the discovery routes (`_fresh_discovery_addresses` only selects
one). `reset_bond_addresses` adds nothing to `_bond_repair_used`. The completion lease is
the handoff lease. "At most five seconds left" is no time left.

*Removal journal:* the contents of the helper's files.

*Presence:* one phone, since phones do not interact; ages are counted in ticks and
stop to grow when they are older than anything they are compared with. A snapshot may be an
old one from the start.

*Signal access:* other fields of a row, certificate, origin and payload. A failing save
raises, as `C` line 1246 expects. An enrollment does not overlap a removal
(`NoPairingDuringRemoval`, proved above). A reload of the integration during a write
and changes of the clock are left out.

*Not begun, having no state machine of their own:* the local receiver (the same engine as
on Linux, restarted after a failure), entities, config flow, diagnostics, the panel's
rendering, the app-link protocol (pure functions), installers, and the one-shot
Windows recovery tools.

## Hazards without a property

`PROJECT.json` lists the hazards, four of them without a property, with the reason. These
others are known and have no property either: unload publishes first and stops half-way
if that raises (`C` line 232); the cancel for an orphaned pairing is sent once (`C` line
723); the publish of `complete` may fail after the save (`C` line 990); a
cancellation of the Linux receiver during its cleanup, before its first step, or while a
thread writes its state file (`E` lines 326, 187, 268), and a progress message that
raises in the `except` clause (`E` line 311); the agent that outlives its attempt (`B` line
389); a helper that outlives its attempt (`O` line 1305); `_secure_bond_confirmed`, which
one address sets and the connection to any address reads (`G` line 618). Of the last two a
part is proved: `HelperTellsTruth`, and `SecureInv` in `ReverseGattProofs`.

# Plan

1. **PairingSystem**: coordinator and an `Enrollment` joined by lossy, duplicating
   channels, so that "the phone sees success only after the store holds its identity"
   is stated end to end. Today it is two halves: `CompleteOnlyWhenSaved` on the side of
   Home Assistant, `Confirm` in `Enrollment` on that of the receivers.
2. Unload and shutdown in the existing modules, with their hazards.
3. Proofs for `PairingSystem`: that a composed step is a step of each half, so that the
   theorems of both halves (`CompletionsSaved`, `PromiseIsKept`) join to one end to end.
