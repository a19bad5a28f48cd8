--------------------------- MODULE MCRemovalJournal ---------------------------
(* RemovalJournal with a phone of two addresses and one of a single address. *)
EXTENDS RemovalJournal

CONSTANTS Iphone, Other

\* The addresses of the phone differ and its container joins them.  The endpoints
\* of the other one share an address; Windows does not tell their container.
Classic      == [phone |-> Iphone, address |-> "A", container |-> "box", transport |-> "classic"]
Ble          == [phone |-> Iphone, address |-> "B", container |-> "box", transport |-> "ble"]
OtherClassic == [phone |-> Other, address |-> "C", container |-> NoContainer,
                 transport |-> "classic"]
OtherBle     == [phone |-> Other, address |-> "C", container |-> NoContainer,
                 transport |-> "ble"]

ThePhones  == {Iphone, Other}
TheDevices == {Classic, Ble, OtherClassic, OtherBle}

=============================================================================
