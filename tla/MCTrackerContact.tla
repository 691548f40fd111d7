-------------------------- MODULE MCTrackerContact --------------------------
(***************************************************************************)
(* Replies with and without peers, refusals with other keys around them,   *)
(* texts that do and do not end in an 'e', or hold "5:peers" with or       *)
(* without their length, the empty text and the number -1, which mean      *)
(* "none" to BtTrackerResponse.                                            *)
(***************************************************************************)
EXTENDS TrackerContact

Entry(key, val) == [key |-> key, val |-> val]

Refused(reason) == Entry("failure reason", reason)

MCBodies ==
  { <<>>,
    <<Entry("complete", 5), Entry("incomplete", 0), Entry("interval", 1800)>>,
    <<Entry("interval", 900), Entry("tracker id", "one"), Entry("warning message", "slow")>>,
    <<Entry("complete", 5), Refused("gone"), Entry("interval", 900)>>,
    <<Refused("banned")>>,
    <<Refused(""), Entry("interval", 900)>>,
    <<Entry("interval", -1), Entry("min interval", 60)>>,
    <<Refused("peers"), Entry("interval", 900)>>,
    <<Entry("interval", 900), Entry("tracker id", "5:peers!"), Entry("warning message", "slow")>>,
    <<Entry("interval", 900), Entry("peers", "compact"), Entry("tracker id", "5:peers!")>>,
    <<Entry("complete", 5), Entry("interval", 900), Entry("peers", "list"),
      Entry("tracker id", "one")>>,
    <<Entry("peers", "list")>>,
    <<Entry("interval", 900), Entry("peers", "bare"), Entry("tracker id", "one")>> }

MCEndInE == {"gone", "one"}

MCMisleading == {"peers", "5:peers!"}

=============================================================================
