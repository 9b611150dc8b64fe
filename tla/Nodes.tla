-------------------------------- MODULE Nodes --------------------------------
(***************************************************************************)
(* The other nodes on the wire and what they may be called, which both the *)
(* backend's neighbor table and the contact list of the user interface     *)
(* are about.                                                              *)
(***************************************************************************)
EXTENDS Integers

CONSTANTS
    Peers,          \* the other nodes, by MAC
    Names           \* their aliases, as ranks in the order of name.lower()

ASSUME NodesAssumption == Names \subseteq Int
=============================================================================
