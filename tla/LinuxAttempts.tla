---------------------------- MODULE LinuxAttempts ----------------------------
(***************************************************************************)
(* LinuxReceiver with a history variable: how often each invitation has    *)
(* been tried since the receiver program was started.  The code keeps no   *)
(* such count; it relies on self.retired, which is emptied by a restart,   *)
(* bounded, and not written for a task that never began.  The history      *)
(* never guards a step, so every behaviour of LinuxReceiver has one.       *)
(***************************************************************************)
EXTENDS LinuxReceiver

VARIABLE attempts   \* attempts of each invitation that began; 2 stands for more

history_vars == <<vars, attempts>>

NoAttempts == [sid \in Sids |-> 0]

\* The count of the program run that the step leaves: _pair executes its first
\* statement, or the program starts anew.
Counted ==
  IF Begin THEN [attempts EXCEPT ![session] = IF @ = 0 THEN 1 ELSE 2]
  ELSE IF Restart THEN NoAttempts
  ELSE attempts

HistoryInit == Init /\ attempts = NoAttempts
HistoryNext == Next /\ attempts' = Counted

HistorySpec     == HistoryInit /\ [][HistoryNext]_history_vars
FairHistorySpec == HistorySpec /\ Fairness

-----------------------------------------------------------------------------
(* Properties                                                              *)

\* The invitations that were tried.
Begun == {sid \in Sids : attempts[sid] > 0}

\* An invitation is tried once, however often its start is delivered and whenever:
\* while the attempt runs, is cancelled, cleans up, or is over.  The code promises this
\* of one run of the program and of its first RetiredMax invitations only: a restart
\* empties self.retired (engine.py:59) and so does the invitation after them
\* (engine.py:323), and a start that is redelivered then runs its invitation again.  A
\* task cancelled before its first statement is not an attempt: it never reaches the
\* finally clause that retires its invitation, which may be tried afterwards.
TriedOnce ==
  Cardinality(Begun) <= RetiredMax => \A sid \in Sids : attempts[sid] <= 1

=============================================================================
