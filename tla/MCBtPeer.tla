------------------------------ MODULE MCBtPeer ------------------------------
(***************************************************************************)
(* Two objects of the caller's, one of them perhaps never loaded (piece    *)
(* length 0), a local and a remote peer on the same object or on two.      *)
(***************************************************************************)
EXTENDS BtPeer

CONSTANTS hashA, hashB, none

Value(hash, length) == [info_hash |-> hash, pieceLength |-> length]

MCValues == {Value(hashA, 2), Value(hashB, 1), Value(none, 0)}

=============================================================================
