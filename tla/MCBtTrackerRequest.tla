------------------------ MODULE MCBtTrackerRequest ------------------------
(***************************************************************************)
(* Byte strings with a byte that stands for itself, '%', a byte below 16   *)
(* and one above 127; one value more than the default for the parameters   *)
(* that are sent only when set.                                            *)
(***************************************************************************)
EXTENDS BtTrackerRequest

MCHashes == {<<37>>, <<2, 53>>, <<200>>}
MCPeerIds == {<<65>>}

=============================================================================
