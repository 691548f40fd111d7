--------------------------- MODULE TrackerContact ---------------------------
(***************************************************************************)
(* An announce from end to end: BtCore::start (src/src/BtCore.cpp) calls   *)
(* sendTrackerRequest, parseTrackerResponse and the constructor of         *)
(* BtTrackerResponse (src/src/BtTracker.cpp) and keeps the response.       *)
(* The client blocks in waits of one second; the tracker and the network   *)
(* go on meanwhile: the connection may not come about, the reply may not   *)
(* come, or come in pieces, of which the client reads, once, what is there *)
(* when it wakes up.                                                       *)
(*                                                                         *)
(* A reply is a sequence of tokens: the status line with the headers, the  *)
(* blank line, the entries of the bencoded dictionary in the order of      *)
(* their keys, and its 'e'.                                                *)
(*                                                                         *)
(* This is the release build, where the decoder does not assert that it is *)
(* given any bytes.                                                        *)
(***************************************************************************)
EXTENDS Integers, Sequences, FiniteSetsExt

CONSTANTS
  Bodies,        \* the dictionaries trackers send, as sequences of entries
  EndInE,        \* the texts among their values whose last byte is an 'e',
  Misleading,    \* and those whose encoding holds the bytes "5:peers"
  MaxContacts    \* bound: how often start is called

VARIABLES
  phase,         \* how far the client has got in start
  reply,         \* what the tracker has sent on this connection
  buffer,        \* what the socket holds of it
  received,      \* what the client has read
  parsed,        \* the map handed to the constructor of BtTrackerResponse
  trackerState,  \* BtCore's list of responses
  contacts,      \* how often start was called
  sources        \* history: for each response, the reply it was made from

vars == <<phase, reply, buffer, received, parsed, trackerState, contacts, sources>>

NumberKeys == {"complete", "incomplete", "interval", "min interval"}
TextKeys == {"failure reason", "tracker id", "warning message"}
Keys == NumberKeys \cup TextKeys \cup {"peers"}

Token(key) == [key |-> key, val |-> ""]
Headers == Token("headers")
BlankLine == Token("blank line")
End == Token("end")
NoToken == Token("none")

ASSUME BodiesAssumption ==
  \A body \in Bodies :
    /\ body \in Seq({body[n] : n \in DOMAIN body})
    /\ \A n \in DOMAIN body : /\ DOMAIN body[n] = {"key", "val"}
                              /\ body[n].key \in Keys
    /\ \A n \in DOMAIN body : body[n].key = "peers" => body[n].val \in {"list", "compact", "bare"}
    /\ \A n, k \in DOMAIN body : body[n].key = body[k].key => n = k

\* the keys of a bencoded dictionary are sorted
ASSUME RefusalComesFirst ==
  \A body \in Bodies : \A n, k \in DOMAIN body :
    (body[n].key = "failure reason" /\ body[k].key = "interval") => n < k

ASSUME BoundsAssumption == MaxContacts \in Nat

ReplyWith(body) == <<Headers, BlankLine>> \o body \o <<End>>

\* the first n tokens of the reply and, if torn, some bytes of the next one
Chunk(n, torn) ==
  [tokens |-> SubSeq(reply, 1, n), part |-> IF torn THEN reply[n + 1] ELSE NoToken]

NoBytes == [tokens |-> <<>>, part |-> NoToken]

EmptyMap == [k \in {} |-> 0]

MapOf(entries) ==
  [k \in {entries[n].key : n \in DOMAIN entries} |->
     entries[CHOOSE n \in DOMAIN entries : entries[n].key = k].val]

-----------------------------------------------------------------------------
(* parseTrackerResponse *)

\* A string of six bytes per peer that the loop of TrackerPeers takes for
\* entries and gets to the end of makes peers that nobody sent.
AsRead(map) ==
  [k \in DOMAIN map |-> IF k = "peers" /\ map[k] = "compact" THEN "invented" ELSE map[k]]

Returns(entries) == [phase |-> "parsed", map |-> AsRead(MapOf(entries))]
Throws == [phase |-> "failed", map |-> EmptyMap]
Loops == [phase |-> "looping", map |-> EmptyMap]

HasKey(tokens, key) == \E n \in DOMAIN tokens : tokens[n].key = key

\* where the search for "5:peers" stops: a key, or any text that has it
Stops(token) == token.key = "peers" \/ (token.key \in TextKeys /\ token.val \in Misleading)

\* The search stopped at the n-th of the tokens.  The decoder gets what stands
\* before: a text that was divided there, or that has lost its key, makes it
\* throw.  What stands behind the key is for the loop of TrackerPeers, less the
\* last byte.  It throws at the 'l' of a list; it reads peers without the
\* brackets, and nothing behind them, provided that there is something behind
\* them; a compact string it usually throws at, but it may go round for ever, or
\* come to an end.
PeersOutcomes(tokens, n) ==
  LET found == tokens[n]
      leading == SubSeq(tokens, 3, n)
  IN  CASE found.key # "peers" \/ found.val = "list" -> {Throws}
        [] found.key = "peers" /\ found.val = "compact" -> {Throws, Loops, Returns(leading)}
        [] OTHER -> IF n < Len(tokens) THEN {Returns(leading)} ELSE {Throws, Loops}

\* The decoder reads up to the 'e' at the end; any last byte 'e' will do.
IsClosed(entries) ==
  LET last == entries[Len(entries)]
  IN  last.key = "end" \/ last.key \in NumberKeys
        \/ (last.key \in TextKeys /\ last.val \in EndInE)

\* what follows the blank line, without the 'e'
Entries(tokens) ==
  SubSeq(tokens, 3, IF HasKey(tokens, "end") THEN Len(tokens) - 1 ELSE Len(tokens))

\* No bytes at all, headers cut so short that nothing is left of them, the
\* headers themselves, a dictionary without entries and one that is not
\* closed are errors to the decoder.
Outcomes(r) ==
  LET entries == Entries(r.tokens)
      tokens == IF r.part = NoToken THEN r.tokens ELSE Append(r.tokens, r.part)
      stops == {n \in DOMAIN tokens : Stops(tokens[n])}
  IN  IF entries = <<>> \/ Head(entries).key = "peers" THEN {Throws}
      ELSE IF stops # {} THEN PeersOutcomes(tokens, Min(stops))
      ELSE IF r.part = NoToken /\ IsClosed(r.tokens) THEN {Returns(entries)}
      ELSE {Throws}

-----------------------------------------------------------------------------
(* BtTrackerResponse; the branch for the binary model is never taken, since *)
(* parseTrackerResponse makes a list of all peers *)

Field(map, key, default) == IF key \in DOMAIN map THEN map[key] ELSE default

\* a failure reason excludes every other key
Response(map) ==
  LET seen == IF "failure reason" \in DOMAIN map THEN EmptyMap ELSE map IN
  [failureReason |-> Field(map, "failure reason", ""),
   warningMessage |-> Field(seen, "warning message", ""),
   TrackerId |-> Field(seen, "tracker id", ""),
   Interval |-> Field(seen, "interval", -1),
   MinInterval |-> Field(seen, "min interval", -1),
   Complete |-> Field(seen, "complete", -1),
   InComplete |-> Field(seen, "incomplete", -1),
   Peers |-> Field(seen, "peers", "none")]

\* mutant: any number makes a response
isEmpty_AnyNumber(response) ==
  /\ response.Interval = -1 /\ response.Complete = -1
  /\ response.failureReason = ""

isEmpty(response) == response.Interval = -1 /\ response.failureReason = ""

-----------------------------------------------------------------------------
Init ==
  /\ phase = "idle"
  /\ reply = <<>>
  /\ buffer = NoBytes /\ received = NoBytes
  /\ parsed = EmptyMap
  /\ trackerState = <<>> /\ sources = <<>>
  /\ contacts = 0

\* a new socket; a URL that is not "http" is answered with no bytes at all
start(scheme) ==
  /\ phase = "idle"
  /\ contacts < MaxContacts
  /\ contacts' = contacts + 1
  /\ reply' = <<>>
  /\ buffer' = NoBytes
  /\ received' = NoBytes
  /\ phase' = IF scheme = "http" THEN "connecting" ELSE "read"
  /\ UNCHANGED <<parsed, trackerState, sources>>

WaitForConnected ==
  /\ phase = "connecting"
  /\ phase' \in {"waiting", "failed"}
  /\ UNCHANGED <<reply, buffer, received, parsed, trackerState, contacts, sources>>

\* the tracker
Answer ==
  /\ phase = "waiting"
  /\ reply = <<>>
  /\ \E body \in Bodies : reply' = ReplyWith(body)
  /\ UNCHANGED <<phase, buffer, received, parsed, trackerState, contacts, sources>>

\* the network: more of the reply, up to any byte of it
Deliver ==
  /\ phase = "waiting"
  /\ \E n \in Len(buffer.tokens)..Len(reply), torn \in BOOLEAN :
       /\ torn => n < Len(reply)
       /\ n > Len(buffer.tokens) \/ (torn /\ buffer.part = NoToken)
       /\ buffer' = Chunk(n, torn)
  /\ UNCHANGED <<phase, reply, received, parsed, trackerState, contacts, sources>>

\* what arrives later is lost with the socket
WaitForReadyRead ==
  /\ phase = "waiting"
  /\ buffer # NoBytes
  /\ received' = buffer
  /\ phase' = "read"
  /\ UNCHANGED <<reply, buffer, parsed, trackerState, contacts, sources>>

\* mutant: a wait without end
ReadFails_NoTimeout ==
  /\ phase = "waiting"
  /\ buffer = NoBytes
  /\ UNCHANGED vars

\* a second without an answer, or the tracker closed the connection
ReadFails ==
  /\ phase = "waiting"
  /\ buffer = NoBytes
  /\ phase' = "failed"
  /\ UNCHANGED <<reply, buffer, received, parsed, trackerState, contacts, sources>>

Parse ==
  /\ phase = "read"
  /\ \E outcome \in Outcomes(received) :
       /\ phase' = outcome.phase
       /\ parsed' = IF outcome.phase = "parsed" THEN outcome.map ELSE parsed
  /\ UNCHANGED <<reply, buffer, received, trackerState, contacts, sources>>

\* mutant: the last map is used again
Catch_KeepsMap ==
  /\ phase = "failed"
  /\ phase' = "parsed"
  /\ UNCHANGED <<reply, buffer, received, parsed, trackerState, contacts, sources>>

Catch ==
  /\ phase = "failed"
  /\ parsed' = EmptyMap
  /\ phase' = "parsed"
  /\ UNCHANGED <<reply, buffer, received, trackerState, contacts, sources>>

\* mutant: start goes round again with the same response
Record_Again ==
  /\ phase = "parsed"
  /\ trackerState' = Append(trackerState, Response(parsed))
  /\ sources' = Append(sources, Entries(reply))
  /\ UNCHANGED <<phase, contacts, reply, buffer, received, parsed>>

\* startDownload, called when there is a response, has no body
Record ==
  /\ phase = "parsed"
  /\ phase' = "idle"
  /\ IF isEmpty(Response(parsed))
     THEN UNCHANGED <<trackerState, sources>>
     ELSE /\ trackerState' = Append(trackerState, Response(parsed))
          /\ sources' = Append(sources, Entries(reply))
  /\ UNCHANGED <<reply, buffer, received, parsed, contacts>>

Client == WaitForConnected \/ WaitForReadyRead \/ ReadFails \/ Parse \/ Catch \/ Record

Next == (\E scheme \in {"http", "udp"} : start(scheme)) \/ Answer \/ Deliver \/ Client

\* Both waits give up after a second and the rest does not wait, so the client
\* goes on whatever the tracker does.
Spec == Init /\ [][Next]_vars /\ WF_vars(Client)

-----------------------------------------------------------------------------
(* Properties *)

Phases == {"idle", "connecting", "waiting", "read", "failed", "parsed", "looping"}

TypeOK ==
  /\ phase \in Phases
  /\ contacts \in 0..MaxContacts
  /\ Len(trackerState) <= contacts
  /\ Len(sources) = Len(trackerState)
  /\ reply = <<>> \/ reply \in {ReplyWith(body) : body \in Bodies}

FirstEntries(n, k) == SubSeq(sources[n], 1, k)

\* A response on record was made of entries of one reply, the reply of that
\* very announce: of the first ones, up to where the reply was cut, or to its
\* peers, and nothing is left of earlier announces.  Only peers in the compact
\* form are not those of the reply, if the announce comes to an end with them.
RecordedIsLeadingPart ==
  \A n \in DOMAIN trackerState :
    \E k \in 1..Len(sources[n]) :
      trackerState[n] = Response(AsRead(MapOf(FirstEntries(n, k))))

\* An announce that the tracker refused with a reason is never recorded as a
\* successful one, wherever the reply was cut.
RefusalIsNotSuccess ==
  \A n \in DOMAIN trackerState :
    (\E k \in DOMAIN sources[n] :
        sources[n][k].key = "failure reason" /\ sources[n][k].val # "") =>
      trackerState[n].failureReason # ""

\* Whatever the tracker and the network do, start returns, unless the reply has
\* peers in another form than the list the documentation asks for
\* (TrackerPeers shows what becomes of those).
EveryContactEnds ==
  (phase # "idle") ~>
    (phase = "idle" \/ \E n \in DOMAIN reply :
                          reply[n].key = "peers" /\ reply[n].val # "list")

=============================================================================
