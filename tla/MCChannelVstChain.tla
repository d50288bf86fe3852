------------------------- MODULE MCChannelVstChain -------------------------
(* Two of the rack's slots and three plug-ins: enough to insert in front,    *)
(* to move, to remove one while another stays, and to load after a removal. *)
EXTENDS ChannelVstChain
=============================================================================
