--------------------------- MODULE MCTrackerPeers ---------------------------
(***************************************************************************)
(* Lists of up to two peers in the three ways they can be written.  The    *)
(* ids and addresses have the letters and digits in them that the parser   *)
(* looks for.                                                              *)
(***************************************************************************)
EXTENDS TrackerPeers

\* the bytes of a string
B(s) == [n \in 1..Len(s) |-> SubSeq(s, n, n)]

Ids == {B("7:e2:ip4:porti20:eee"), B("-BT0001-270417042017")}
Ips == {B("1.2.3.4"), B("e4:7"), B("tracker2.example")}
Ports == {B("6881"), B("4")}

Peers(ids) == [id : ids, ip : Ips, port : Ports]

Lists(ids) == {<<>>} \cup {<<p>> : p \in Peers(ids)}
                \cup {<<p, q>> : p \in Peers(ids), q \in Peers(ids)}

AsBare(list) == [form |-> "bare", sent |-> list, bytes |-> Bare(list)]

\* bencoded, the dictionary model
Bencoded(list) ==
  [form |-> "list", sent |-> list,
   bytes |-> <<"l">> \o Join([n \in DOMAIN list |-> <<"d">> \o Fields(list[n]) \o <<"e">>])
                    \o <<"e", "e">>]

\* a string of six bytes per peer, the binary model
Compact(bytes) == [form |-> "compact", bytes |-> String(bytes) \o <<"e">>]

\* Strings that are thrown away; that are taken for one peer, for two, for one
\* with an address of its own length, and for a length below zero; one that is read
\* for ever; and one taken for a peer with an id.
SomeCompact ==
  {Compact(B(s)) : s \in
     {"", "wxyz:1", "wxyz:1wxyz:4",
      "w:4xyzabcdeewxyzabwxyzab", "w:4xxxxxe2abc:4xxxxxeeyy", "w9:abcdfghjk4xxxxxx1eeyy",
      "w-6:xeexyzabwxyzabwxyzab", "w-99:xyzeewxyzabwxyzabwx",
      "wxyz:4wxyzabwxyzabwxyzab",
      "xxxxxxxxxxxxxxxxxxxxxxxxxxxxx2xxx:4xxxxxxeexxxxxxxxxxxxxxxxxxxxxxxxxxxxx"}}

MCReplies ==
  {AsBare(list) : list \in Lists({NoId}) \cup Lists(Ids)}
    \cup {Bencoded(list) : list \in Lists({NoId}) \cup Lists({B("-BT0001-270417042017")})}
    \cup SomeCompact

Bencodeds == {Bencoded(list) : list \in Lists({NoId})}

=============================================================================
