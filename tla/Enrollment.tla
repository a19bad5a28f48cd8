------------------------------ MODULE Enrollment ------------------------------
(***************************************************************************)
(* What Home Assistant relies on in any receiver, whatever its Bluetooth   *)
(* stack: one attempt at a time; the identity is reported once, and the    *)
(* phone is told of the success only when Home Assistant has committed the *)
(* enrollment; bonds are not removed while an attempt runs; whatever was   *)
(* begun ends.  LinuxReceiver and WindowsObserver implement this module.   *)
(***************************************************************************)
CONSTANTS Sids, NoSession

VARIABLES
  attempt,    \* the session of the attempt that runs
  phase,      \* how far it is
  removing,   \* bonds are being removed
  committed   \* the sessions Home Assistant has committed

vars == <<attempt, phase, removing, committed>>

Phases == {"idle", "pairing", "reported", "receipt", "ending"}

TypeOK ==
  /\ attempt \in Sids \cup {NoSession}
  /\ phase \in Phases
  /\ removing \in BOOLEAN
  /\ committed \subseteq Sids

Init ==
  /\ attempt = NoSession
  /\ phase = "idle"
  /\ removing = FALSE
  /\ committed = {}

Begin(sid) ==
  /\ phase = "idle"
  /\ ~removing
  /\ attempt' = sid
  /\ phase' = "pairing"
  /\ UNCHANGED <<removing, committed>>

\* The identity goes to Home Assistant.
Report ==
  /\ phase = "pairing"
  /\ phase' = "reported"
  /\ UNCHANGED <<attempt, removing, committed>>

Commit(sid) ==
  /\ committed' = committed \cup {sid}
  /\ UNCHANGED <<attempt, phase, removing>>

\* The phone is told that the enrollment is complete.
Confirm ==
  /\ phase = "reported"
  /\ attempt \in committed
  /\ phase' = "receipt"
  /\ UNCHANGED <<attempt, removing, committed>>

\* The attempt is over, by its end, an error, a cancellation or a deadline; it may
\* still have something to clean up.
Wind ==
  /\ phase \in {"pairing", "reported", "receipt"}
  /\ phase' = "ending"
  /\ UNCHANGED <<attempt, removing, committed>>

End ==
  /\ phase # "idle"
  /\ phase' = "idle"
  /\ attempt' = NoSession
  /\ UNCHANGED <<removing, committed>>

Remove ==
  /\ phase = "idle"
  /\ ~removing
  /\ removing' = TRUE
  /\ UNCHANGED <<attempt, phase, committed>>

Removed ==
  /\ removing
  /\ removing' = FALSE
  /\ UNCHANGED <<attempt, phase, committed>>

Next ==
  \/ \E sid \in Sids : Begin(sid) \/ Commit(sid)
  \/ Report \/ Confirm \/ Wind \/ End \/ Remove \/ Removed

Safety == Init /\ [][Next]_vars

Spec == Safety /\ WF_vars(End) /\ WF_vars(Removed)

-----------------------------------------------------------------------------
(* What follows for every receiver that implements this module             *)

\* The phone is told of the success of a session only while Home Assistant has it
\* committed, although the attempt may be interrupted and the commit comes from afar.
ToldIsCommitted == phase = "receipt" => attempt \in committed

\* Bonds are removed only while no attempt runs, from the first step of the removal
\* to its last.
RemovesAlone == removing => phase = "idle"

=============================================================================
