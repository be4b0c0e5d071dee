-------------------------------- MODULE Relay --------------------------------
(***************************************************************************)
(* The relay server (crates/relaykit-server): the session store, one task  *)
(* per agent websocket, one task per operator websocket, the bounded       *)
(* channel each task gives to the others, and the outbound task that       *)
(* drains each channel to its socket.                                      *)
(*                                                                         *)
(* Everything the code does under one lock of the session store is one     *)
(* action; every await and every unlock is a place where other tasks run.  *)
(* A websocket connection is a member of Agents or Operators and is used   *)
(* once.  A payload is abstracted to the kind of its wire frame.           *)
(***************************************************************************)
EXTENDS Integers, Sequences, FiniteSets

CONSTANTS
    Sessions,    \* the sessions the operator may create (uuids: never reused)
    Agents,      \* agent websocket connections
    Operators,   \* operator websocket connections, one per tunnelled TCP stream
    Targets,     \* names of tunnels an operator may ask for
    Allowed,     \* Allowed[s]: the tunnel names session s was created with
    Capacity,    \* RELAY_CHANNEL_CAPACITY
    MaxStreams,  \* stream ids handed out: one per operator connection
    FrameKinds,  \* the stream frames the two peers send
    Expiring,    \* the sessions whose ttl runs out during the behaviour
    None

StreamIds   == 1 .. MaxStreams
StreamKinds == {"StreamData", "StreamClose", "StreamError"}

ASSUME NoneAssumption       == None \notin Sessions \cup Agents \cup Operators
ASSUME CapacityAssumption   == Capacity \in Nat \ {0}
ASSUME MaxStreamsAssumption == MaxStreams \in Nat
ASSUME FrameKindsAssumption == FrameKinds \subseteq StreamKinds
\* validate_allowed_tunnels: a session is never created without a tunnel
ASSUME AllowedAssumption    == Allowed \in [Sessions -> (SUBSET Targets) \ {{}}]

-----------------------------------------------------------------------------
(* The wire messages that travel through the channels.  stream is 0 in the *)
(* two messages about the whole session (StreamId::new refuses 0).         *)

Messages == [kind : StreamKinds \cup {"OpenStream"}, stream : StreamIds]
              \cup [kind : {"AgentReady", "Error"}, stream : {0}]
Msg(kind, id) == [kind |-> kind, stream |-> id]

\* Mutant: an unbounded channel
OfferUnbounded(queue, alive, m) == IF alive THEN Append(queue, m) ELSE queue

\* mpsc::Sender::try_send: the message is dropped when the channel is full or
\* its receiver is gone
Offer(queue, alive, m) ==
    IF alive /\ Len(queue) < Capacity THEN Append(queue, m) ELSE queue

-----------------------------------------------------------------------------
VARIABLES
    \* the session store (RelayState, SessionState)
    status,          \* absent, live (in the HashMap), ended (removed from it)
    expired,         \* expires_at has passed
    consumed,        \* code_consumed
    slot,            \* agent: the connection whose sender the session holds
    streams,         \* streams: whose sender each stream id leads to
    nextStream,      \* next_stream
    closingAgent,    \* a removed SessionState that notify_session_closed is
    closingStreams,  \*   still working on: its agent, its operators
    \* the agent connections
    apc, asess,      \* where the task is, the session it registered for
    aframe, ato,     \* the frame it is handling, the operator it sends it to
    aq, arx,         \* its channel, and whether the receiver still exists
    apeer,           \* the peer: up, told (it received Error), gone
    known,           \* stream ids the peer has been told to open
    strays,          \* history: operators an agent of another session has sent
                     \*   frames to (nothing in the relay depends on it)
    \* the operator connections
    opc, osess, osid, oagent, oframe,
    oq, orx,
    opeer            \* ... told: it received StreamClose or StreamError

storeVars   == <<status, expired, consumed, slot, streams, nextStream>>
closingVars == <<closingAgent, closingStreams>>
agentTask   == <<apc, asess, aframe, ato>>
agentChan   == <<aq, arx>>
agentPeer   == <<apeer, known, strays>>
operTask    == <<opc, osess, osid, oagent, oframe>>
operChan    == <<oq, orx>>
agentVars   == <<agentTask, agentChan, agentPeer>>
operVars    == <<operTask, operChan, opeer>>
vars        == <<storeVars, closingVars, agentVars, operVars>>

NoStreams == [id \in StreamIds |-> None]

AgentPc == {"idle",        \* hello not read
            "registered",  \* register_agent_session done, sender not stored
            "running",     \* waiting for a frame
            "sending",     \* awaiting room in an operator's channel
            "removing",    \* about to remove_stream
            "leaving",     \* the loop is over, outbound.abort() called
            "done"}
OperPc  == {"idle",
            "checked",     \* has a clone of the agent's sender
            "inserted",    \* in the stream table, awaiting room for OpenStream
            "running",
            "forwarding",  \* awaiting room in the agent's channel
            "leaving",     \* the loop is over, outbound.abort() called
            "removing",    \* StreamClose offered, about to remove_stream
            "failed",      \* OpenStream could not be sent
            "done"}

\* A peer that was told its connection is over still sends until it leaves
PeerStates == {"up", "told", "gone"}

\* The handlers whose outbound task has been spawned
Serving == {"running", "sending", "removing", "leaving"}

Init ==
    /\ status = [s \in Sessions |-> "absent"]
    /\ expired = [s \in Sessions |-> FALSE]
    /\ consumed = [s \in Sessions |-> FALSE]
    /\ slot = [s \in Sessions |-> None]
    /\ streams = [s \in Sessions |-> NoStreams]
    /\ nextStream = 1
    /\ closingAgent = [s \in Sessions |-> None]
    /\ closingStreams = [s \in Sessions |-> {}]
    /\ apc = [a \in Agents |-> "idle"]
    /\ asess = [a \in Agents |-> None]
    /\ aframe = [a \in Agents |-> None]
    /\ ato = [a \in Agents |-> None]
    /\ aq = [a \in Agents |-> <<>>]
    /\ arx = [a \in Agents |-> FALSE]
    /\ apeer = [a \in Agents |-> "up"]
    /\ known = [a \in Agents |-> {}]
    /\ strays = {}
    /\ opc = [o \in Operators |-> "idle"]
    /\ osess = [o \in Operators |-> None]
    /\ osid = [o \in Operators |-> 0]
    /\ oagent = [o \in Operators |-> None]
    /\ oframe = [o \in Operators |-> None]
    /\ oq = [o \in Operators |-> <<>>]
    /\ orx = [o \in Operators |-> FALSE]
    /\ opeer = [o \in Operators |-> "up"]

-----------------------------------------------------------------------------
(* The HTTP API.                                                           *)

\* The operators a session's table leads to
OperatorsOf(table) == {table[id] : id \in StreamIds} \ {None}

CreateSession(s) ==
    /\ status[s] = "absent"
    /\ status' = [status EXCEPT ![s] = "live"]
    /\ UNCHANGED <<expired, consumed, slot, streams, nextStream>>
    /\ UNCHANGED <<closingVars, agentVars, operVars>>

\* Not an operation: the clock passes expires_at.  Nothing in the relay is
\* scheduled for that moment.
Expire(s) ==
    /\ s \in Expiring
    /\ status[s] = "live"
    /\ ~expired[s]
    /\ expired' = [expired EXCEPT ![s] = TRUE]
    /\ UNCHANGED <<status, consumed, slot, streams, nextStream>>
    /\ UNCHANGED <<closingVars, agentVars, operVars>>

\* end_session: the SessionState leaves the store under the lock; its agent
\* and operators are notified after the lock is released
EndSession(s) ==
    /\ status[s] = "live"
    /\ status' = [status EXCEPT ![s] = "ended"]
    /\ expired' = [expired EXCEPT ![s] = FALSE]
    /\ consumed' = [consumed EXCEPT ![s] = FALSE]
    /\ slot' = [slot EXCEPT ![s] = None]
    /\ streams' = [streams EXCEPT ![s] = NoStreams]
    /\ closingAgent' = [closingAgent EXCEPT ![s] = slot[s]]
    /\ closingStreams' = [closingStreams EXCEPT ![s] = OperatorsOf(streams[s])]
    /\ UNCHANGED <<nextStream, agentVars, operVars>>

\* notify_session_closed, its first half
NotifyAgent(s) ==
    /\ closingAgent[s] # None
    /\ LET a == closingAgent[s] IN
         aq' = [aq EXCEPT ![a] = Offer(@, arx[a], Msg("Error", 0))]
    /\ closingAgent' = [closingAgent EXCEPT ![s] = None]
    /\ UNCHANGED <<storeVars, closingStreams, agentTask, arx, agentPeer, operVars>>

\* ... and its loop over the streams, in the order of the HashMap
NotifyOperator(s, o) ==
    /\ closingAgent[s] = None
    /\ o \in closingStreams[s]
    /\ oq' = [oq EXCEPT ![o] = Offer(@, orx[o], Msg("StreamError", osid[o]))]
    /\ closingStreams' = [closingStreams EXCEPT ![s] = @ \ {o}]
    /\ UNCHANGED <<storeVars, closingAgent, agentVars, operTask, orx, opeer>>

-----------------------------------------------------------------------------
(* handle_agent_socket_inner                                               *)

\* Mutant: code_consumed is not tested
CodeUsableAgain(s) == status[s] = "live" /\ ~expired[s]

\* The conditions of register_agent_session, tested and acted on under one lock
CodeUsable(s) == status[s] = "live" /\ ~expired[s] /\ ~consumed[s]

AgentRegister(a, s, offers) ==
    /\ apc[a] = "idle"
    /\ CodeUsable(s)
    /\ offers \subseteq Allowed[s]
    /\ consumed' = [consumed EXCEPT ![s] = TRUE]
    /\ asess' = [asess EXCEPT ![a] = s]
    /\ apc' = [apc EXCEPT ![a] = "registered"]
    /\ UNCHANGED <<status, expired, slot, streams, nextStream, closingVars>>
    /\ UNCHANGED <<aframe, ato, agentChan, agentPeer, operVars>>

\* The peer is sent Error and the socket is closed; no channel was made
AgentReject(a, s, offers) ==
    /\ apc[a] = "idle"
    /\ ~(CodeUsable(s) /\ offers \subseteq Allowed[s])
    /\ apc' = [apc EXCEPT ![a] = "done"]
    /\ apeer' = [apeer EXCEPT ![a] = "told"]
    /\ UNCHANGED <<storeVars, closingVars, asess, aframe, ato, agentChan>>
    /\ UNCHANGED <<known, strays, operVars>>

\* The channel is made with AgentReady in it, then the sender is stored
AgentAttach(a) ==
    /\ apc[a] = "registered"
    /\ status[asess[a]] = "live"
    /\ slot' = [slot EXCEPT ![asess[a]] = a]
    /\ aq' = [aq EXCEPT ![a] = <<Msg("AgentReady", 0)>>]
    /\ arx' = [arx EXCEPT ![a] = TRUE]
    /\ apc' = [apc EXCEPT ![a] = "running"]
    /\ UNCHANGED <<status, expired, consumed, streams, nextStream, closingVars>>
    /\ UNCHANGED <<asess, aframe, ato, agentPeer, operVars>>

\* "session not found after agent registration"
AgentAttachFails(a) ==
    /\ apc[a] = "registered"
    /\ status[asess[a]] # "live"
    /\ apc' = [apc EXCEPT ![a] = "done"]
    /\ UNCHANGED <<storeVars, closingVars, asess, aframe, ato, agentChan>>
    /\ UNCHANGED <<agentPeer, operVars>>

\* send_to_operator searches the streams of every session for the id
Receivers(id) == {streams[s][id] : s \in Sessions} \ {None}

\* The peer's next frame, on a stream of any session, or of none: the relay
\* compares neither the session nor what the peer was told to open.
AgentFrame(a, id, kind) ==
    /\ apc[a] = "running"
    /\ apeer[a] # "gone"
    /\ \E o \in Receivers(id) :
         /\ ato' = [ato EXCEPT ![a] = o]
         /\ strays' = IF osess[o] = asess[a] THEN strays ELSE strays \cup {o}
    /\ apc' = [apc EXCEPT ![a] = "sending"]
    /\ aframe' = [aframe EXCEPT ![a] = Msg(kind, id)]
    /\ UNCHANGED <<storeVars, closingVars, asess, agentChan, apeer, known, operVars>>

\* No such stream: send_to_operator returns Ok, and remove_stream still runs
\* (StreamData is then simply ignored, which changes nothing)
AgentFrameUnrouted(a, id, kind) ==
    /\ apc[a] = "running"
    /\ apeer[a] # "gone"
    /\ Receivers(id) = {}
    /\ kind # "StreamData"
    /\ apc' = [apc EXCEPT ![a] = "removing"]
    /\ aframe' = [aframe EXCEPT ![a] = Msg(kind, id)]
    /\ UNCHANGED <<storeVars, closingVars, asess, ato, agentChan>>
    /\ UNCHANGED <<agentPeer, operVars>>

\* operator.tx.send(message).await finds room
AgentForward(a) ==
    /\ apc[a] = "sending"
    /\ orx[ato[a]]
    /\ Len(oq[ato[a]]) < Capacity
    /\ oq' = [oq EXCEPT ![ato[a]] = Append(@, aframe[a])]
    /\ ato' = [ato EXCEPT ![a] = None]
    /\ IF aframe[a].kind = "StreamData"
         THEN /\ apc' = [apc EXCEPT ![a] = "running"]
              /\ aframe' = [aframe EXCEPT ![a] = None]
         ELSE /\ apc' = [apc EXCEPT ![a] = "removing"]
              /\ UNCHANGED aframe
    /\ UNCHANGED <<storeVars, closingVars, asess, agentChan, agentPeer>>
    /\ UNCHANGED <<operTask, orx, opeer>>

\* ... or the operator's receiver is gone: `?` ends the loop of the agent
AgentForwardFails(a) ==
    /\ apc[a] = "sending"
    /\ ~orx[ato[a]]
    /\ apc' = [apc EXCEPT ![a] = "leaving"]
    /\ ato' = [ato EXCEPT ![a] = None]
    /\ aframe' = [aframe EXCEPT ![a] = None]
    /\ UNCHANGED <<storeVars, closingVars, asess, agentChan, agentPeer, operVars>>

\* Mutant: the stream is looked up but not removed
StreamKept(id) == streams

\* remove_stream: from whichever session has it
WithoutStream(id) ==
    [s \in Sessions |->
        IF status[s] = "live" THEN [streams[s] EXCEPT ![id] = None]
                              ELSE streams[s]]

AgentRemove(a) ==
    /\ apc[a] = "removing"
    /\ streams' = WithoutStream(aframe[a].stream)
    /\ apc' = [apc EXCEPT ![a] = "running"]
    /\ aframe' = [aframe EXCEPT ![a] = None]
    /\ UNCHANGED <<status, expired, consumed, slot, nextStream, closingVars>>
    /\ UNCHANGED <<asess, ato, agentChan, agentPeer, operVars>>

\* Mutant: an error of the reader returns at once, past clear_agent
AgentSocketEndsEarly(a) ==
    /\ apc[a] = "running"
    /\ apeer[a] = "gone"
    /\ apc' = [apc EXCEPT ![a] = "done"]
    /\ UNCHANGED <<storeVars, closingVars, asess, aframe, ato, agentChan>>
    /\ UNCHANGED <<agentPeer, operVars>>

\* reader.next() yields Close, an error or None; outbound.abort() follows
AgentSocketEnds(a) ==
    /\ apc[a] = "running"
    /\ apeer[a] = "gone"
    /\ apc' = [apc EXCEPT ![a] = "leaving"]
    /\ UNCHANGED <<storeVars, closingVars, asess, aframe, ato, agentChan>>
    /\ UNCHANGED <<agentPeer, operVars>>

\* clear_agent, all of it under one lock
AgentClear(a) ==
    /\ apc[a] = "leaving"
    /\ apc' = [apc EXCEPT ![a] = "done"]
    /\ IF status[asess[a]] = "live"
         THEN LET s == asess[a]
                  cut == OperatorsOf(streams[s])
              IN /\ slot' = [slot EXCEPT ![s] = None]
                 /\ oq' = [o \in Operators |->
                             IF o \in cut
                               THEN Offer(oq[o], orx[o], Msg("StreamError", osid[o]))
                               ELSE oq[o]]
                 /\ streams' = [streams EXCEPT ![s] = NoStreams]
         ELSE UNCHANGED <<slot, oq, streams>>
    /\ UNCHANGED <<status, expired, consumed, nextStream, closingVars>>
    /\ UNCHANGED <<asess, aframe, ato, agentChan, agentPeer>>
    /\ UNCHANGED <<operTask, orx, opeer>>

\* The outbound task: rx.recv() then writer.send().  The write reaches the
\* peer, or is lost with the connection.
AgentOutboundSend(a) ==
    /\ arx[a]
    /\ aq[a] # <<>>
    /\ aq' = [aq EXCEPT ![a] = Tail(@)]
    /\ LET m == Head(aq[a]) IN
         /\ known' = IF apeer[a] # "gone" /\ m.kind = "OpenStream"
                       THEN [known EXCEPT ![a] = @ \cup {m.stream}] ELSE known
         /\ apeer' = IF apeer[a] # "gone" /\ m.kind = "Error"
                       THEN [apeer EXCEPT ![a] = "told"] ELSE apeer
    /\ UNCHANGED <<storeVars, closingVars, agentTask, arx, strays, operVars>>

\* The outbound task ends, and with it the receiver: a write failed, or the
\* abort took effect
AgentOutboundStop(a) ==
    /\ arx[a]
    /\ \/ apeer[a] = "gone" /\ aq[a] # <<>>
       \/ apc[a] \in {"leaving", "done"}
    /\ arx' = [arx EXCEPT ![a] = FALSE]
    /\ aq' = [aq EXCEPT ![a] = <<>>]
    /\ UNCHANGED <<storeVars, closingVars, agentTask, agentPeer, operVars>>

\* Environment: the peer exits, or the network drops it
AgentHangup(a) ==
    /\ apc[a] \notin {"idle", "done"}
    /\ apeer[a] # "gone"
    /\ apeer' = [apeer EXCEPT ![a] = "gone"]
    /\ UNCHANGED <<storeVars, closingVars, agentTask, agentChan>>
    /\ UNCHANGED <<known, strays, operVars>>

-----------------------------------------------------------------------------
(* handle_operator_socket_inner                                            *)

\* Mutant: a load without the increment
DrawSameStream ==
    /\ nextStream \in StreamIds
    /\ UNCHANGED nextStream

\* next_stream.fetch_add(1): before anything is checked, so a refused
\* operator uses up an id
DrawStream ==
    /\ nextStream \in StreamIds
    /\ nextStream' = nextStream + 1

\* Mutant: expires_at is not tested
MayOpenLate(s, target) ==
    /\ status[s] = "live"
    /\ target \in Allowed[s]
    /\ slot[s] # None

MayOpen(s, target) ==
    /\ status[s] = "live"
    /\ ~expired[s]
    /\ target \in Allowed[s]
    /\ slot[s] # None

OperatorOpen(o, s, target) ==
    /\ opc[o] = "idle"
    /\ MayOpen(s, target)
    /\ DrawStream
    /\ osid' = [osid EXCEPT ![o] = nextStream]
    /\ osess' = [osess EXCEPT ![o] = s]
    /\ oagent' = [oagent EXCEPT ![o] = slot[s]]
    /\ opc' = [opc EXCEPT ![o] = "checked"]
    /\ UNCHANGED <<status, expired, consumed, slot, streams, closingVars>>
    /\ UNCHANGED <<agentVars, oframe, operChan, opeer>>

OperatorRefused(o, s, target) ==
    /\ opc[o] = "idle"
    /\ ~MayOpen(s, target)
    /\ DrawStream
    /\ opc' = [opc EXCEPT ![o] = "done"]
    /\ UNCHANGED <<status, expired, consumed, slot, streams, closingVars>>
    /\ UNCHANGED <<agentVars, osess, osid, oagent, oframe, operChan, opeer>>

\* The second lock: only the session's presence is tested again
OperatorInsert(o) ==
    /\ opc[o] = "checked"
    /\ status[osess[o]] = "live"
    /\ streams' = [streams EXCEPT ![osess[o]][osid[o]] = o]
    /\ orx' = [orx EXCEPT ![o] = TRUE]
    /\ opc' = [opc EXCEPT ![o] = "inserted"]
    /\ UNCHANGED <<status, expired, consumed, slot, nextStream, closingVars>>
    /\ UNCHANGED <<agentVars, osess, osid, oagent, oframe, oq, opeer>>

\* "session disappeared"
OperatorInsertFails(o) ==
    /\ opc[o] = "checked"
    /\ status[osess[o]] # "live"
    /\ opc' = [opc EXCEPT ![o] = "done"]
    /\ oagent' = [oagent EXCEPT ![o] = None]
    /\ UNCHANGED <<storeVars, closingVars, agentVars>>
    /\ UNCHANGED <<osess, osid, oframe, operChan, opeer>>

\* agent.tx.send(message).await by operator o finds room
HasRoom(a) == arx[a] /\ Len(aq[a]) < Capacity

\* Mutant: OpenStream goes out with try_send
OperatorAnnounceOffered(o) ==
    /\ opc[o] = "inserted"
    /\ LET a == oagent[o] IN
         aq' = [aq EXCEPT ![a] = Offer(@, arx[a], Msg("OpenStream", osid[o]))]
    /\ opc' = [opc EXCEPT ![o] = "running"]
    /\ UNCHANGED <<storeVars, closingVars, agentTask, arx, agentPeer>>
    /\ UNCHANGED <<osess, osid, oagent, oframe, operChan, opeer>>

OperatorAnnounce(o) ==
    /\ opc[o] = "inserted"
    /\ HasRoom(oagent[o])
    /\ aq' = [aq EXCEPT ![oagent[o]] = Append(@, Msg("OpenStream", osid[o]))]
    /\ opc' = [opc EXCEPT ![o] = "running"]
    /\ UNCHANGED <<storeVars, closingVars, agentTask, arx, agentPeer>>
    /\ UNCHANGED <<osess, osid, oagent, oframe, operChan, opeer>>

\* The agent's receiver is gone: `?` returns, dropping the operator's own
\* receiver; the entry made by OperatorInsert stays
OperatorAnnounceFails(o) ==
    /\ opc[o] = "inserted"
    /\ ~arx[oagent[o]]
    /\ opc' = [opc EXCEPT ![o] = "failed"]
    /\ oagent' = [oagent EXCEPT ![o] = None]
    /\ orx' = [orx EXCEPT ![o] = FALSE]
    /\ oq' = [oq EXCEPT ![o] = <<>>]
    /\ UNCHANGED <<storeVars, closingVars, agentVars>>
    /\ UNCHANGED <<osess, osid, oframe, opeer>>

\* The peer's next frame.  Its stream id is replaced by the task's own.
OperatorFrame(o, kind) ==
    /\ opc[o] = "running"
    /\ opeer[o] # "gone"
    /\ opc' = [opc EXCEPT ![o] = "forwarding"]
    /\ oframe' = [oframe EXCEPT ![o] = Msg(kind, osid[o])]
    /\ UNCHANGED <<storeVars, closingVars, agentVars>>
    /\ UNCHANGED <<osess, osid, oagent, operChan, opeer>>

OperatorForward(o) ==
    /\ opc[o] = "forwarding"
    /\ HasRoom(oagent[o])
    /\ aq' = [aq EXCEPT ![oagent[o]] = Append(@, oframe[o])]
    /\ opc' = [opc EXCEPT ![o] =
                 IF oframe[o].kind = "StreamError" THEN "leaving" ELSE "running"]
    /\ oframe' = [oframe EXCEPT ![o] = None]
    /\ UNCHANGED <<storeVars, closingVars, agentTask, arx, agentPeer>>
    /\ UNCHANGED <<osess, osid, oagent, operChan, opeer>>

OperatorForwardFails(o) ==
    /\ opc[o] = "forwarding"
    /\ ~arx[oagent[o]]
    /\ opc' = [opc EXCEPT ![o] = "leaving"]
    /\ oframe' = [oframe EXCEPT ![o] = None]
    /\ UNCHANGED <<storeVars, closingVars, agentVars>>
    /\ UNCHANGED <<osess, osid, oagent, operChan, opeer>>

OperatorSocketEnds(o) ==
    /\ opc[o] = "running"
    /\ opeer[o] = "gone"
    /\ opc' = [opc EXCEPT ![o] = "leaving"]
    /\ UNCHANGED <<storeVars, closingVars, agentVars>>
    /\ UNCHANGED <<osess, osid, oagent, oframe, operChan, opeer>>

\* agent.tx.try_send(StreamClose).ok()
OperatorTryClose(o) ==
    /\ opc[o] = "leaving"
    /\ LET a == oagent[o] IN
         aq' = [aq EXCEPT ![a] = Offer(@, arx[a], Msg("StreamClose", osid[o]))]
    /\ opc' = [opc EXCEPT ![o] = "removing"]
    /\ UNCHANGED <<storeVars, closingVars, agentTask, arx, agentPeer>>
    /\ UNCHANGED <<osess, osid, oagent, oframe, operChan, opeer>>

OperatorRemove(o) ==
    /\ opc[o] = "removing"
    /\ streams' = WithoutStream(osid[o])
    /\ opc' = [opc EXCEPT ![o] = "done"]
    /\ oagent' = [oagent EXCEPT ![o] = None]
    /\ UNCHANGED <<status, expired, consumed, slot, nextStream, closingVars>>
    /\ UNCHANGED <<agentVars, osess, osid, oframe, operChan, opeer>>

\* The outbound task is spawned after OpenStream is in the agent's channel
OperatorOutboundSend(o) ==
    /\ orx[o]
    /\ opc[o] # "inserted"
    /\ oq[o] # <<>>
    /\ oq' = [oq EXCEPT ![o] = Tail(@)]
    /\ opeer' = IF opeer[o] # "gone" /\ Head(oq[o]).kind # "StreamData"
                  THEN [opeer EXCEPT ![o] = "told"] ELSE opeer
    /\ UNCHANGED <<storeVars, closingVars, agentVars, operTask, orx>>

\* A write failed or the abort took effect.  (The task also ends when every
\* sender is dropped: nobody is left then to see it.)
OperatorOutboundStop(o) ==
    /\ orx[o]
    /\ opc[o] # "inserted"
    /\ \/ opeer[o] = "gone" /\ oq[o] # <<>>
       \/ opc[o] \in {"leaving", "removing", "done"}
    /\ orx' = [orx EXCEPT ![o] = FALSE]
    /\ oq' = [oq EXCEPT ![o] = <<>>]
    /\ UNCHANGED <<storeVars, closingVars, agentVars, operTask, opeer>>

\* Environment: the operator's client exits, or the network drops it
OperatorHangup(o) ==
    /\ opc[o] \notin {"idle", "failed", "done"}
    /\ opeer[o] # "gone"
    /\ opeer' = [opeer EXCEPT ![o] = "gone"]
    /\ UNCHANGED <<storeVars, closingVars, agentVars, operTask, operChan>>

-----------------------------------------------------------------------------
StoreNext ==
    \E s \in Sessions :
        \/ CreateSession(s) \/ Expire(s) \/ EndSession(s) \/ NotifyAgent(s)
        \/ \E o \in Operators : NotifyOperator(s, o)

AgentNext ==
    \E a \in Agents :
        \/ \E s \in Sessions, offers \in SUBSET Targets :
              AgentRegister(a, s, offers) \/ AgentReject(a, s, offers)
        \/ AgentAttach(a) \/ AgentAttachFails(a)
        \/ \E id \in StreamIds, kind \in FrameKinds :
              AgentFrame(a, id, kind) \/ AgentFrameUnrouted(a, id, kind)
        \/ AgentForward(a) \/ AgentForwardFails(a) \/ AgentRemove(a)
        \/ AgentSocketEnds(a) \/ AgentClear(a)
        \/ AgentOutboundSend(a) \/ AgentOutboundStop(a) \/ AgentHangup(a)

OperatorNext ==
    \E o \in Operators :
        \/ \E s \in Sessions, target \in Targets :
              OperatorOpen(o, s, target) \/ OperatorRefused(o, s, target)
        \/ OperatorInsert(o) \/ OperatorInsertFails(o)
        \/ OperatorAnnounce(o) \/ OperatorAnnounceFails(o)
        \/ \E kind \in FrameKinds : OperatorFrame(o, kind)
        \/ OperatorForward(o) \/ OperatorForwardFails(o)
        \/ OperatorSocketEnds(o) \/ OperatorTryClose(o) \/ OperatorRemove(o)
        \/ OperatorOutboundSend(o) \/ OperatorOutboundStop(o) \/ OperatorHangup(o)

Next == StoreNext \/ AgentNext \/ OperatorNext

Spec == Init /\ [][Next]_vars

(* Fairness.  tokio runs every task that can run.  mpsc::Sender::send waits *)
(* in a FIFO semaphore, so a sender gets room when room keeps coming: SF    *)
(* for the awaited sends, WF for everything else.                           *)
AgentTaskFair(a) ==
    /\ WF_vars(AgentAttach(a)) /\ WF_vars(AgentAttachFails(a))
    /\ SF_vars(AgentForward(a)) /\ WF_vars(AgentForwardFails(a))
    /\ WF_vars(AgentRemove(a)) /\ WF_vars(AgentSocketEnds(a))
    /\ WF_vars(AgentClear(a)) /\ WF_vars(AgentOutboundStop(a))

OperatorTaskFair(o) ==
    /\ WF_vars(OperatorInsert(o)) /\ WF_vars(OperatorInsertFails(o))
    /\ SF_vars(OperatorAnnounce(o)) /\ WF_vars(OperatorAnnounceFails(o))
    /\ SF_vars(OperatorForward(o)) /\ WF_vars(OperatorForwardFails(o))
    /\ WF_vars(OperatorSocketEnds(o)) /\ WF_vars(OperatorTryClose(o))
    /\ WF_vars(OperatorRemove(o)) /\ WF_vars(OperatorOutboundStop(o))

TaskFairness ==
    /\ \A s \in Sessions : WF_vars(NotifyAgent(s))
    /\ \A s \in Sessions, o \in Operators : WF_vars(NotifyOperator(s, o))
    /\ \A a \in Agents : AgentTaskFair(a)
    /\ \A o \in Operators : OperatorTaskFair(o)

(* A peer that stays reads what it is sent, and leaves once it is told to:  *)
(* run_join and bridge_operator_stream return on those messages.            *)
AgentPeersFair ==
    \A a \in Agents : /\ WF_vars(AgentOutboundSend(a))
                      /\ WF_vars(apeer[a] = "told" /\ AgentHangup(a))
OperatorPeersFair ==
    \A o \in Operators : /\ WF_vars(OperatorOutboundSend(o))
                         /\ WF_vars(opeer[o] = "told" /\ OperatorHangup(o))

FairSpec == Spec /\ TaskFairness /\ AgentPeersFair /\ OperatorPeersFair

-----------------------------------------------------------------------------
StoreOK ==
    /\ status \in [Sessions -> {"absent", "live", "ended"}]
    /\ expired \in [Sessions -> BOOLEAN]
    /\ consumed \in [Sessions -> BOOLEAN]
    /\ slot \in [Sessions -> Agents \cup {None}]
    /\ streams \in [Sessions -> [StreamIds -> Operators \cup {None}]]
    /\ nextStream \in 1 .. MaxStreams + 1
    /\ closingAgent \in [Sessions -> Agents \cup {None}]
    /\ closingStreams \in [Sessions -> SUBSET Operators]

AgentsOK ==
    /\ apc \in [Agents -> AgentPc]
    /\ asess \in [Agents -> Sessions \cup {None}]
    /\ aframe \in [Agents -> Messages \cup {None}]
    /\ ato \in [Agents -> Operators \cup {None}]
    /\ aq \in [Agents -> Seq(Messages)]
    /\ arx \in [Agents -> BOOLEAN]
    /\ apeer \in [Agents -> PeerStates]
    /\ known \in [Agents -> SUBSET StreamIds]
    /\ strays \subseteq Operators

OperatorsOK ==
    /\ opc \in [Operators -> OperPc]
    /\ osess \in [Operators -> Sessions \cup {None}]
    /\ osid \in [Operators -> 0 .. MaxStreams]
    /\ oagent \in [Operators -> Agents \cup {None}]
    /\ oframe \in [Operators -> Messages \cup {None}]
    /\ oq \in [Operators -> Seq(Messages)]
    /\ orx \in [Operators -> BOOLEAN]
    /\ opeer \in [Operators -> PeerStates]

\* Every mpsc channel holds at most RELAY_CHANNEL_CAPACITY messages
ChannelsBounded ==
    /\ \A a \in Agents : Len(aq[a]) <= Capacity
    /\ \A o \in Operators : Len(oq[o]) <= Capacity

TypeOK == StoreOK /\ AgentsOK /\ OperatorsOK /\ ChannelsBounded

-----------------------------------------------------------------------------
(* Safety.                                                                 *)

\* A session code admits one connection, whichever of several racing agents
\* it is, and whatever happens to that connection later (the code is not
\* given back): code_consumed in register_agent_session.
SingleUseCode ==
    \A a, b \in Agents : asess[a] # None /\ asess[a] = asess[b] => a = b

\* The sender a session offers to operators is that of a task still serving
\* this session: every way out of the loop of handle_agent_socket_inner goes
\* through clear_agent, and no late attach undoes a clear.
SlotBelongsToServingTask ==
    \A s \in Sessions : slot[s] # None =>
        /\ status[s] = "live"
        /\ asess[slot[s]] = s
        /\ apc[slot[s]] \in Serving

\* An entry of a stream table leads to the operator that was given this id in
\* this session, and the session is in the store; only the tasks that have
\* passed OperatorInsert and not yet remove_stream have one.
StreamTableConsistent ==
    \A s \in Sessions, id \in StreamIds :
        LET o == streams[s][id] IN
        o # None => /\ status[s] = "live"
                    /\ osess[o] = s /\ osid[o] = id
                    /\ opc[o] \notin {"idle", "checked", "done"}

\* The agent hears of a stream before it hears anything on it: operators share
\* the agent's channel, and OpenStream is awaited before the loop starts.
OpenPrecedesTraffic ==
    \A a \in Agents : apeer[a] # "gone" =>
        \A i \in DOMAIN aq[a] :
            aq[a][i].kind \in StreamKinds =>
                \/ aq[a][i].stream \in known[a]
                \/ \E j \in 1 .. i - 1 : aq[a][j] = Msg("OpenStream", aq[a][i].stream)

\* send_to_operator and remove_stream look an id up in every session and do not
\* ask whose agent names it.  What keeps sessions apart is that ids are never
\* shared: an agent that names an id it was told to open (run_join names no
\* other) reaches an operator of its own session, whoever sends on a stream the
\* operator is sent its own id only, and an agent is sent ids of its session only.
TrafficStaysInSession ==
    /\ \A a \in Agents : ato[a] # None /\ aframe[a].stream \in known[a] =>
          osess[ato[a]] = asess[a]
    /\ \A o \in Operators, i \in 1 .. Capacity :
          i \in DOMAIN oq[o] => oq[o][i].stream = osid[o]
    /\ \A a \in Agents, i \in 1 .. Capacity :
          i \in DOMAIN aq[a] /\ aq[a][i].stream # 0 =>
             \A o \in Operators : osid[o] = aq[a][i].stream => osess[o] = asess[a]

\* Nothing is delivered on a stream after the StreamClose or StreamError its
\* agent sent, even if the agent goes on sending: the entry is removed before
\* the next frame.  An operator that is told while its agent is still attached
\* has been told by the agent.  The order is kept by one task per agent, so it
\* is promised to an operator only while no agent of another session names its
\* stream.
NoDataAfterClose ==
    \A o \in Operators \ strays :
        /\ \A i, j \in DOMAIN oq[o] :
              i < j /\ oq[o][i].kind = "StreamClose" => oq[o][j].kind # "StreamData"
        /\ opeer[o] = "told" /\ oagent[o] # None /\ slot[osess[o]] = oagent[o] =>
              \A i \in DOMAIN oq[o] : oq[o][i].kind # "StreamData"

-----------------------------------------------------------------------------
(* Liveness.                                                               *)

\* An agent that is gone does not stay connected in the session store.
DepartedAgentIsForgotten ==
    \A a \in Agents, s \in Sessions :
        ~<>[](slot[s] = a /\ apeer[a] = "gone")

\* An operator that is gone leaves no entry, unless OpenStream failed: then `?`
\* returns without remove_stream and the entry outlives its operator.
DepartedOperatorIsForgotten ==
    \A o \in Operators, s \in Sessions :
        ~<>[](opeer[o] = "gone" /\ opc[o] # "failed" /\ o \in OperatorsOf(streams[s]))

-----------------------------------------------------------------------------
(* What the repository says of the relay and the code does not do.         *)

\* "agent disconnected", sent to every operator by clear_agent and written to
\* the audit log, is said of an agent that is gone (or was told to go).
AgentDisconnectIsGenuine ==
    \A a \in Agents : apc[a] = "leaving" => apeer[a] # "up"

\* Ending a session revokes it: its agent is told, or its connection ends.
RevocationReachesAgent ==
    \A a \in Agents, s \in Sessions :
        status[s] = "ended" /\ asess[a] = s ~> apc[a] = "done" \/ apeer[a] # "up"

\* A session that expires ends: no tunnel stays open to its agent.
ExpiryEndsTunnels ==
    \A o \in Operators, s \in Sessions :
        osess[o] = s /\ opc[o] = "running" /\ expired[s] /\ slot[s] # None
            ~> opc[o] # "running" \/ slot[s] = None

\* When the agent's connection is lost, its operators are told or their
\* connections end.
AgentLossReachesOperator ==
    \A o \in Operators, a \in Agents :
        oagent[o] = a /\ apc[a] = "done" ~> oagent[o] = None \/ opeer[o] # "up"
=============================================================================
