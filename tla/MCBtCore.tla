------------------------------ MODULE MCBtCore ------------------------------
(***************************************************************************)
(* BtCore over the torrents A and B of MCBtTorrent, A with unsorted keys,  *)
(* a file that breaks off behind its "announce" and one without "info",    *)
(* and a tracker that accepts or refuses.                                  *)
(***************************************************************************)
EXTENDS BtCore, MCBtTorrent

CoreDocuments == {FileA, FileB, FileUnsorted, FileNoInfo, FileBroken}

CoreInputs == {AssignedB}

CoreBodies == {<<[key |-> "interval", val |-> 900]>>,
               <<[key |-> "failure reason", val |-> "gone"]>>}

CoreEndInE == {}

=============================================================================
