------------------------------ MODULE MCPresence ------------------------------
(* A bridge, and a scanner that hears the phone 4 dB stronger or 7 dB weaker. *)
EXTENDS Presence

CONSTANTS bridge, scanner

MCBridges == {bridge}
MCScanners == {scanner}
MCRssi == [r \in {bridge, scanner} |-> IF r = bridge THEN {-64} ELSE {-60, -71}]

=============================================================================
