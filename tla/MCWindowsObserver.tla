------------------------- MODULE MCWindowsObserver -------------------------
(* WindowsObserver on a small instance, whose constants are in the cfg files. *)
EXTENDS WindowsObserver

=============================================================================
