------------------------ MODULE MCPairingCoordinator ------------------------
(* PairingCoordinator on small instances.                                  *)
EXTENDS PairingCoordinator, TLC

\* An empty store.
EmptyStore == {[owner |-> [irk \in Irks |-> NoTarget], resets |-> {}]}

\* No lease at all.
NoLeases == {-1}

\* No lease, one that a tick ends, and one that is cut to LeaseTTL.
Leases == {-1, 1, 2}

\* Everyone pairs and cancels, or one client pairs and the others remove.
Panel      == CHOOSE c \in Clients : TRUE
PairingOps == [c \in Clients |-> {"start", "cancel"}]
RemovalOps == [c \in Clients |-> IF c = Panel THEN {"start"} ELSE {"remove", "repair"}]
MixedOps   == [c \in Clients |-> IF c = Panel THEN {"start", "cancel"} ELSE {"remove"}]

\* Interchangeable where no definition names one of them.
PeopleSymmetry == Permutations(People)
Symmetry == Permutations(Clients) \cup Permutations(People)

=============================================================================
