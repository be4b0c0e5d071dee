---------------------------- MODULE OperatorTunnel ----------------------------
(***************************************************************************)
(* The operator's end of a tunnel (crates/relaykit-tunnel,                 *)
(* run_operator_tunnel and bridge_operator_stream): one task accepts local *)
(* connections and spawns a bridge for each; a bridge opens a websocket of *)
(* its own and polls two futures with select!, to_relay and from_relay.    *)
(*                                                                         *)
(* A chunk is what one read returns.  The chunks of a direction are        *)
(* numbered: the n-th read of to_relay, the n-th StreamData of the relay.  *)
(* After its end the relay sends no more (Relay: NoDataAfterClose).        *)
(***************************************************************************)
EXTENDS Integers, Sequences, RelayAddress

CONSTANTS
    Bridges,        \* local connections
    Server,         \* --server
    Pinned,         \* a relay fingerprint is configured
    MaxUp,          \* bound: chunks the local program writes
    MaxDown,        \* bound: chunks the relay sends
    WireCapacity,   \* frames the websocket holds before send waits
    LocalCapacity   \* chunks the local socket holds before write_all waits

ASSUME ServerIsUrl        == Server \in Urls
ASSUME PinnedIsBoolean    == Pinned \in BOOLEAN
ASSUME BoundsAreNat       == MaxUp \in Nat /\ MaxDown \in Nat
ASSUME CapacitiesPositive == WireCapacity \in Nat \ {0} /\ LocalCapacity \in Nat \ {0}

VARIABLES
    listener,   \* run_operator_tunnel
    bridge,     \* bridge_operator_stream: where its task is, or how it ended
    toRelay,    \* the future to_relay
    fromRelay,  \* the future from_relay
    local,      \* the local program's end of the connection
    typed,      \* number of chunks it has written
    read,       \* number of them to_relay has read
    up,         \* the websocket towards the relay: frames in flight
    heard,      \* the data frames the relay has received
    heardClose, \* it has received StreamClose
    link,       \* the websocket's connection
    said,       \* the frames the relay has sent
    seen,       \* number of them from_relay has read
    got,        \* the chunks written to the local socket
    consumed    \* number of them the local program has read

upVars   == <<toRelay, read, up>>
peerVars == <<heard, heardClose>>
downVars == <<fromRelay, seen, got>>
vars == <<listener, bridge, upVars, peerVars, downVars, local, typed, link,
          said, consumed>>

Listening  == {"listening", "ended"}
BridgePc   == {"none", "backlog", "connecting", "both", "draining",
               "ok", "failed", "dropped"}
ToRelayPc  == {"reading", "data", "close", "done"}
LocalState == {"none", "open", "eof", "gone"}

\* What the relay sends on an operator's websocket; a frame of any other
\* kind is ignored
Ends   == {"StreamClose", "StreamError", "Error", "Close"}
Data(n)  == [kind |-> "StreamData", n |-> n]
End(k)   == [kind |-> k, n |-> 0]
Downs  == [kind : {"StreamData"}, n : 1 .. MaxDown] \cup {End(k) : k \in Ends}
Ups    == [kind : {"StreamData"}, n : 1 .. MaxUp] \cup {End("StreamClose")}

Init ==
    /\ listener = "listening"
    /\ bridge = [b \in Bridges |-> "none"]
    /\ toRelay = [b \in Bridges |-> "reading"]
    /\ fromRelay = [b \in Bridges |-> "reading"]
    /\ local = [b \in Bridges |-> "none"]
    /\ typed = [b \in Bridges |-> 0]
    /\ read = [b \in Bridges |-> 0]
    /\ up = [b \in Bridges |-> <<>>]
    /\ heard = [b \in Bridges |-> <<>>]
    /\ heardClose = [b \in Bridges |-> FALSE]
    /\ link = [b \in Bridges |-> "none"]
    /\ said = [b \in Bridges |-> <<>>]
    /\ seen = [b \in Bridges |-> 0]
    /\ got = [b \in Bridges |-> <<>>]
    /\ consumed = [b \in Bridges |-> 0]

\* to_relay is polled, from_relay is polled
PollsUp(b)   == bridge[b] = "both"
PollsDown(b) == bridge[b] \in {"both", "draining"}

\* The relay has said it sends no more
RelayEnded(b) == said[b] # <<>> /\ said[b][Len(said[b])].kind \in Ends

\* Number of data frames among those the relay has sent: the end is the last
Given(b) == IF RelayEnded(b) THEN Len(said[b]) - 1 ELSE Len(said[b])

\* The bridge returns: both futures and both sockets are dropped
Returns(b, result) ==
    /\ bridge' = [bridge EXCEPT ![b] = result]
    /\ UNCHANGED <<listener, toRelay, read>>

-----------------------------------------------------------------------------
(* The accept loop.                                                        *)

LocalConnects(b) ==
    /\ listener = "listening"
    /\ bridge[b] = "none"
    /\ bridge' = [bridge EXCEPT ![b] = "backlog"]
    /\ local' = [local EXCEPT ![b] = "open"]
    /\ UNCHANGED <<listener, upVars, peerVars, downVars, typed, link, said, consumed>>

Accept(b) ==
    /\ listener = "listening"
    /\ bridge[b] = "backlog"
    /\ bridge' = [bridge EXCEPT ![b] = "connecting"]
    /\ UNCHANGED <<listener, upVars, peerVars, downVars, local, typed, link, said, consumed>>

\* listener.accept().await? returns an error: run_operator_tunnel returns,
\* the process ends and every bridge with it
AcceptFails ==
    /\ listener = "listening"
    /\ listener' = "ended"
    /\ bridge' = [b \in Bridges |->
                    IF bridge[b] \in {"backlog", "connecting", "both", "draining"}
                      THEN "dropped" ELSE bridge[b]]
    /\ UNCHANGED <<upVars, peerVars, downVars, local, typed, link, said, consumed>>

\* operator_ws_request and connect_relay_websocket
Connect(b) ==
    /\ bridge[b] = "connecting"
    /\ Dialable(Server, Pinned)
    /\ bridge' = [bridge EXCEPT ![b] = "both"]
    /\ link' = [link EXCEPT ![b] = "up"]
    /\ UNCHANGED <<listener, upVars, peerVars, downVars, local, typed, said, consumed>>

ConnectFails(b) ==
    /\ bridge[b] = "connecting"
    /\ Returns(b, "failed")
    /\ UNCHANGED <<up, peerVars, downVars, local, typed, link, said, consumed>>

-----------------------------------------------------------------------------
(* to_relay: read, then send and wait until the websocket has taken it.    *)

ReadLocal(b) ==
    /\ PollsUp(b) /\ toRelay[b] = "reading"
    /\ read[b] < typed[b]
    /\ read' = [read EXCEPT ![b] = @ + 1]
    /\ toRelay' = [toRelay EXCEPT ![b] = "data"]
    /\ UNCHANGED <<listener, bridge, up, peerVars, downVars, local, typed, link, said, consumed>>

\* Mutant: the end is seen before what was written
ReadEofEarly(b) ==
    /\ PollsUp(b) /\ toRelay[b] = "reading"
    /\ local[b] \in {"eof", "gone"}
    /\ toRelay' = [toRelay EXCEPT ![b] = "close"]
    /\ UNCHANGED <<listener, bridge, read, up, peerVars, downVars, local, typed, link, said,
                   consumed>>

\* Mutant: to_relay is done without StreamClose
ReadEofQuiet(b) ==
    /\ PollsUp(b) /\ toRelay[b] = "reading"
    /\ local[b] \in {"eof", "gone"} /\ read[b] = typed[b]
    /\ toRelay' = [toRelay EXCEPT ![b] = "done"]
    /\ bridge' = [bridge EXCEPT ![b] = "draining"]
    /\ UNCHANGED <<listener, read, up, peerVars, downVars, local, typed, link, said, consumed>>

\* read returns 0
ReadEof(b) ==
    /\ PollsUp(b) /\ toRelay[b] = "reading"
    /\ local[b] \in {"eof", "gone"} /\ read[b] = typed[b]
    /\ toRelay' = [toRelay EXCEPT ![b] = "close"]
    /\ UNCHANGED <<listener, bridge, read, up, peerVars, downVars, local, typed, link, said,
                   consumed>>

\* read fails: the local program has reset the connection
ReadLocalFails(b) ==
    /\ PollsUp(b) /\ toRelay[b] = "reading"
    /\ local[b] = "gone"
    /\ Returns(b, "failed")
    /\ UNCHANGED <<up, peerVars, downVars, local, typed, link, said, consumed>>

\* Mutant: send does not wait for room
SendDataAnyRoom(b) ==
    /\ PollsUp(b) /\ toRelay[b] = "data"
    /\ link[b] = "up"
    /\ up' = [up EXCEPT ![b] = Append(@, Data(read[b]))]
    /\ toRelay' = [toRelay EXCEPT ![b] = "reading"]
    /\ UNCHANGED <<listener, bridge, read, peerVars, downVars, local, typed, link, said, consumed>>

SendData(b) ==
    /\ PollsUp(b) /\ toRelay[b] = "data"
    /\ link[b] = "up" /\ Len(up[b]) < WireCapacity
    /\ up' = [up EXCEPT ![b] = Append(@, Data(read[b]))]
    /\ toRelay' = [toRelay EXCEPT ![b] = "reading"]
    /\ UNCHANGED <<listener, bridge, read, peerVars, downVars, local, typed, link, said, consumed>>

\* Mutant: whichever future is done first ends the bridge
SendCloseReturns(b) ==
    /\ PollsUp(b) /\ toRelay[b] = "close"
    /\ link[b] = "up" /\ Len(up[b]) < WireCapacity
    /\ up' = [up EXCEPT ![b] = Append(@, End("StreamClose"))]
    /\ toRelay' = [toRelay EXCEPT ![b] = "done"]
    /\ bridge' = [bridge EXCEPT ![b] = "ok"]
    /\ UNCHANGED <<listener, read, peerVars, downVars, local, typed, link, said, consumed>>

\* ... and to_relay is done: select! goes on with from_relay alone
SendClose(b) ==
    /\ PollsUp(b) /\ toRelay[b] = "close"
    /\ link[b] = "up" /\ Len(up[b]) < WireCapacity
    /\ up' = [up EXCEPT ![b] = Append(@, End("StreamClose"))]
    /\ toRelay' = [toRelay EXCEPT ![b] = "done"]
    /\ bridge' = [bridge EXCEPT ![b] = "draining"]
    /\ UNCHANGED <<listener, read, peerVars, downVars, local, typed, link, said, consumed>>

SendFails(b) ==
    /\ PollsUp(b) /\ toRelay[b] \in {"data", "close"}
    /\ link[b] = "down"
    /\ Returns(b, "failed")
    /\ UNCHANGED <<up, peerVars, downVars, local, typed, link, said, consumed>>

-----------------------------------------------------------------------------
(* from_relay.  A frame that has arrived can still be read when the        *)
(* connection is lost.                                                     *)

HasFrame(b)  == PollsDown(b) /\ fromRelay[b] = "reading" /\ seen[b] < Len(said[b])
NextFrame(b) == said[b][seen[b] + 1]

ReadFrame(b) ==
    /\ HasFrame(b)
    /\ NextFrame(b).kind = "StreamData"
    /\ seen' = [seen EXCEPT ![b] = @ + 1]
    /\ fromRelay' = [fromRelay EXCEPT ![b] = "writing"]
    /\ UNCHANGED <<listener, bridge, upVars, peerVars, got, local, typed, link, said, consumed>>

\* The chunk being written is the one of the frame read last
WriteLocal(b) ==
    /\ PollsDown(b) /\ fromRelay[b] = "writing"
    /\ local[b] # "gone" /\ Len(got[b]) - consumed[b] < LocalCapacity
    /\ got' = [got EXCEPT ![b] = Append(@, said[b][seen[b]].n)]
    /\ fromRelay' = [fromRelay EXCEPT ![b] = "reading"]
    /\ UNCHANGED <<listener, bridge, upVars, peerVars, seen, local, typed, link, said, consumed>>

WriteLocalFails(b) ==
    /\ PollsDown(b) /\ fromRelay[b] = "writing"
    /\ local[b] = "gone"
    /\ Returns(b, "failed")
    /\ UNCHANGED <<up, peerVars, downVars, local, typed, link, said, consumed>>

\* Mutant: a send under way is finished first
ReadCloseAfterSend(b) ==
    /\ HasFrame(b) /\ toRelay[b] \notin {"data", "close"}
    /\ NextFrame(b).kind \in {"StreamClose", "Close"}
    /\ seen' = [seen EXCEPT ![b] = @ + 1]
    /\ Returns(b, "ok")
    /\ UNCHANGED <<up, peerVars, fromRelay, got, local, typed, link, said, consumed>>

\* StreamClose or a close frame: the local socket is shut down and the bridge
\* returns, whatever to_relay is doing
ReadClose(b) ==
    /\ HasFrame(b)
    /\ NextFrame(b).kind \in {"StreamClose", "Close"}
    /\ seen' = [seen EXCEPT ![b] = @ + 1]
    /\ \/ Returns(b, "ok")
       \/ local[b] = "gone" /\ Returns(b, "failed")
    /\ UNCHANGED <<up, peerVars, fromRelay, got, local, typed, link, said, consumed>>

ReadError(b) ==
    /\ HasFrame(b)
    /\ NextFrame(b).kind \in {"StreamError", "Error"}
    /\ seen' = [seen EXCEPT ![b] = @ + 1]
    /\ Returns(b, "failed")
    /\ UNCHANGED <<up, peerVars, fromRelay, got, local, typed, link, said, consumed>>

\* Mutant: a websocket that fails is taken for one that is closed
ReadFailsIsEnd(b) ==
    /\ PollsDown(b) /\ fromRelay[b] = "reading"
    /\ link[b] = "down"
    /\ Returns(b, "ok")
    /\ UNCHANGED <<up, peerVars, downVars, local, typed, link, said, consumed>>

\* The websocket ends without a close frame; frames that had arrived may be
\* lost with it
ReadFails(b) ==
    /\ PollsDown(b) /\ fromRelay[b] = "reading"
    /\ link[b] = "down"
    /\ Returns(b, "failed")
    /\ UNCHANGED <<up, peerVars, downVars, local, typed, link, said, consumed>>

-----------------------------------------------------------------------------
(* The local program, the relay and the network.                           *)

LocalWrites(b) ==
    /\ local[b] = "open" /\ typed[b] < MaxUp
    /\ bridge[b] \in {"backlog", "connecting", "both"}
    /\ typed' = [typed EXCEPT ![b] = @ + 1]
    /\ UNCHANGED <<listener, bridge, upVars, peerVars, downVars, local, link, said, consumed>>

LocalShutsDown(b) ==
    /\ local[b] = "open"
    /\ local' = [local EXCEPT ![b] = "eof"]
    /\ UNCHANGED <<listener, bridge, upVars, peerVars, downVars, typed, link, said, consumed>>

LocalGone(b) ==
    /\ local[b] \in {"open", "eof"}
    /\ local' = [local EXCEPT ![b] = "gone"]
    /\ UNCHANGED <<listener, bridge, upVars, peerVars, downVars, typed, link, said, consumed>>

LocalReads(b) ==
    /\ local[b] \in {"open", "eof"} /\ consumed[b] < Len(got[b])
    /\ consumed' = [consumed EXCEPT ![b] = @ + 1]
    /\ UNCHANGED <<listener, bridge, upVars, peerVars, downVars, local, typed, link, said>>

\* The relay reads a frame: also one sent before the bridge returned
RelayReads(b) ==
    /\ link[b] = "up" /\ up[b] # <<>>
    /\ LET frame == Head(up[b]) IN
         IF frame.kind = "StreamData"
           THEN heard' = [heard EXCEPT ![b] = Append(@, frame.n)] /\ UNCHANGED heardClose
           ELSE heardClose' = [heardClose EXCEPT ![b] = TRUE] /\ UNCHANGED heard
    /\ up' = [up EXCEPT ![b] = Tail(@)]
    /\ UNCHANGED <<listener, bridge, toRelay, read, downVars, local, typed, link, said, consumed>>

RelaySends(b) ==
    /\ PollsDown(b) /\ link[b] = "up" /\ ~RelayEnded(b)
    /\ Len(said[b]) < MaxDown
    /\ said' = [said EXCEPT ![b] = Append(@, Data(Len(@) + 1))]
    /\ UNCHANGED <<listener, bridge, upVars, peerVars, downVars, local, typed, link, consumed>>

RelayEnds(b) ==
    /\ PollsDown(b) /\ link[b] = "up" /\ ~RelayEnded(b)
    /\ \E k \in Ends : said' = [said EXCEPT ![b] = Append(@, End(k))]
    /\ UNCHANGED <<listener, bridge, upVars, peerVars, downVars, local, typed, link, consumed>>

\* What was in flight towards the relay is lost
LinkLost(b) ==
    /\ link[b] = "up"
    /\ link' = [link EXCEPT ![b] = "down"]
    /\ up' = [up EXCEPT ![b] = <<>>]
    /\ UNCHANGED <<listener, bridge, toRelay, read, peerVars, downVars, local, typed, said,
                   consumed>>

-----------------------------------------------------------------------------
ToRelayStep(b) ==
    \/ ReadLocal(b) \/ ReadEof(b) \/ ReadLocalFails(b)
    \/ SendData(b) \/ SendClose(b) \/ SendFails(b)

FromRelayStep(b) ==
    \/ ReadFrame(b) \/ WriteLocal(b) \/ WriteLocalFails(b)
    \/ ReadClose(b) \/ ReadError(b) \/ ReadFails(b)

Environment(b) ==
    \/ LocalConnects(b) \/ LocalWrites(b) \/ LocalShutsDown(b) \/ LocalGone(b)
    \/ LocalReads(b) \/ RelayReads(b) \/ RelaySends(b) \/ RelayEnds(b) \/ LinkLost(b)

Next ==
    \/ AcceptFails
    \/ \E b \in Bridges : \/ Accept(b) \/ Connect(b) \/ ConnectFails(b)
                          \/ ToRelayStep(b) \/ FromRelayStep(b) \/ Environment(b)

Spec == Init /\ [][Next]_vars

\* tokio runs a task that can go on; a connection attempt is answered or
\* times out.  Nothing is assumed of the local program, the relay, the
\* network
FairSpec ==
    /\ Spec
    /\ \A b \in Bridges : /\ WF_vars(Accept(b))
                          /\ WF_vars(Connect(b) \/ ConnectFails(b))
                          /\ WF_vars(ToRelayStep(b))
                          /\ WF_vars(FromRelayStep(b))

-----------------------------------------------------------------------------
(* Properties                                                              *)

PlacesOK ==
    /\ listener \in Listening
    /\ bridge \in [Bridges -> BridgePc]
    /\ toRelay \in [Bridges -> ToRelayPc]
    /\ fromRelay \in [Bridges -> {"reading", "writing"}]
    /\ local \in [Bridges -> LocalState]
    /\ link \in [Bridges -> {"none", "up", "down"}]

UpwardOK ==
    /\ typed \in [Bridges -> 0 .. MaxUp]
    /\ read \in [Bridges -> 0 .. MaxUp]
    /\ up \in [Bridges -> Seq(Ups)]
    /\ heard \in [Bridges -> Seq(1 .. MaxUp)]
    /\ heardClose \in [Bridges -> BOOLEAN]
    /\ \A b \in Bridges : Len(up[b]) <= WireCapacity

DownwardOK ==
    /\ said \in [Bridges -> Seq(Downs)]
    /\ seen \in [Bridges -> 0 .. MaxDown + 1]
    /\ got \in [Bridges -> Seq(1 .. MaxDown)]
    /\ consumed \in [Bridges -> 0 .. MaxDown]
    /\ \A b \in Bridges : Len(got[b]) - consumed[b] <= LocalCapacity

\* The types of the variables, and the limits of the two buffers a send waits
\* for (ws_writer.send, write_all).
TypeOK == PlacesOK /\ UpwardOK /\ DownwardOK

\* The two directions of a bridge as pipes.  Towards the relay: what the local
\* program writes reaches the relay in order, and the relay is told StreamClose
\* only when the program has ended its side and all it wrote has arrived.
\* Towards the local program: what the relay sends is written in order, and the
\* bridge returns Ok only when the relay has closed and all of it is written.
UpPipe == INSTANCE BytePipe WITH
    Pipes     <- Bridges,
    given     <- typed,
    ended     <- [b \in Bridges |-> local[b] \in {"eof", "gone"}],
    delivered <- heard,
    finished  <- heardClose

DownPipe == INSTANCE BytePipe WITH
    Pipes     <- Bridges,
    given     <- [b \in Bridges |-> Given(b)],
    ended     <- [b \in Bridges |-> RelayEnded(b)],
    delivered <- got,
    finished  <- [b \in Bridges |-> bridge[b] = "ok"]

\* The to_relay future implements the pipe (lib.rs: read, then send).
UpIsPipe == UpPipe!Spec

\* The from_relay future implements the pipe: no error path returns Ok.
DownIsPipe == DownPipe!Spec

\* A bridge returns only when it has read the relay's end, or the websocket or
\* the local program is gone, or the process ends: a local program that has only
\* shut down its side keeps getting replies (select! goes on with from_relay).
EndsForACause ==
    [][\A b \in Bridges :
          PollsDown(b) /\ ~PollsDown(b)' =>
              \/ RelayEnded(b) /\ seen'[b] = Len(said[b])
              \/ link[b] = "down"
              \/ local[b] = "gone"
              \/ listener' = "ended"]_vars

\* A bridge to which the relay has sent its end returns, provided the local
\* program reads, and even when a send to the relay is waiting for room: select!
\* polls from_relay while to_relay waits.
RelayEndEndsBridge ==
    \A b \in Bridges :
        WF_vars(LocalReads(b)) => (PollsDown(b) /\ RelayEnded(b) ~> ~PollsDown(b))

\* When the local program ends its side the relay gets StreamClose, provided the
\* relay reads, unless the bridge ends first.
LocalEofReachesRelay ==
    \A b \in Bridges :
        WF_vars(RelayReads(b)) =>
            (PollsUp(b) /\ local[b] = "eof" ~> heardClose[b] \/ ~PollsDown(b) \/ link[b] = "down")
=============================================================================
