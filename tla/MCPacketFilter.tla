--------------------------- MODULE MCPacketFilter ---------------------------
(* Small instances of PacketFilter for TLC. *)
EXTENDS PacketFilter

CONSTANTS k1, k2

TwoKinds == {k1, k2}
TwoFilters == {{k1}, {k2}}
\* A kernel that runs every filter, one that runs only one of them, and none.
AllOneOrNone == {TwoFilters, {{k1}}, {}}
TwoCPUs == {1, 2}
=============================================================================
