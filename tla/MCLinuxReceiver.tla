--------------------------- MODULE MCLinuxReceiver ---------------------------
(* LinuxReceiver, with its history, on a small instance, whose constants are in the cfg files. *)
EXTENDS LinuxAttempts

=============================================================================
