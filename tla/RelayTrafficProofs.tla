-------------------------- MODULE RelayTrafficProofs --------------------------
(***************************************************************************)
(* What travels through the relay, for every value of the constants: the   *)
(* traffic of a session stays in it, OpenStream comes before anything else *)
(* on its stream, and nothing comes after the close of an agent.           *)
(***************************************************************************)
EXTENDS RelayLifecycleProofs

Held(queue) == {queue[i] : i \in DOMAIN queue}

-----------------------------------------------------------------------------
(* TrafficInv: every stream id a peer has been told of, or will be, is one  *)
(* of its session's operators; what an agent sends goes to the operator it *)
(* names, who is recorded if it is of another session.                     *)

\* An operator of a's session has stream id
Mine(a, id) ==
    \E o \in Operators : osid[o] = id /\ osess[o] = asess[a] /\ osess[o] # None

AgentTraffic ==
    \A a \in Agents :
        /\ \A m \in Held(aq[a]) : m.stream # 0 => Mine(a, m.stream)
        /\ \A id \in known[a] : Mine(a, id)
        /\ ato[a] # None => /\ apc[a] = "sending"
                            /\ aframe[a].stream = osid[ato[a]]
                            /\ osess[ato[a]] # None
                            /\ osess[ato[a]] = asess[a] \/ ato[a] \in strays

OperatorTraffic ==
    \A o \in Operators :
        /\ \A m \in Held(oq[o]) : m.stream = osid[o]
        /\ oagent[o] # None => osess[o] \in Sessions /\ asess[oagent[o]] = osess[o]
        /\ opc[o] = "forwarding" => oframe[o].stream = osid[o]

\* Without its receiver a channel is empty; an operator gets one with its entry
ReceiverNeeded ==
    \A o \in Operators :
        /\ ~orx[o] => oq[o] = <<>>
        /\ opc[o] \in {"idle", "checked"} => ~orx[o] /\ opeer[o] # "told"

TrafficInv == AgentTraffic /\ OperatorTraffic /\ ReceiverNeeded

-----------------------------------------------------------------------------
(* OpenInv: an operator past OpenStream has announced its stream.          *)

Opened(a, id) == id \in known[a] \/ Msg("OpenStream", id) \in Held(aq[a])

Announced ==
    \A o \in Operators :
        /\ opc[o] \in {"running", "forwarding", "leaving"}
        /\ arx[oagent[o]] /\ apeer[oagent[o]] # "gone"
        => Opened(oagent[o], osid[o])

\* A connection whose hello has not been read is there
PeersUp == \A a \in Agents : apc[a] = "idle" => apeer[a] # "gone"

OpenInv == OpenPrecedesTraffic /\ Announced /\ PeersUp

-----------------------------------------------------------------------------
(* CloseInv: after the agent's close no task will send on the stream,      *)
(* unless an agent of another session has sent on it.                      *)

NoMore(o) ==
    /\ \A a \in Agents : ato[a] # o
    /\ opc[o] \notin {"idle", "checked"}
    /\ \/ \A s \in Sessions, id \in StreamIds : streams[s][id] # o
       \/ \E a \in Agents : /\ apc[a] = "removing" /\ aframe[a].stream = osid[o]
                            /\ asess[a] = osess[o]

\* Its agent is attached still
Attached(o) == oagent[o] # None /\ slot[osess[o]] = oagent[o]

\* After a message of these kinds a channel holds no data
NoDataAfter(queue, kinds) ==
    \A i, j \in DOMAIN queue :
        i < j /\ queue[i].kind \in kinds => queue[j].kind # "StreamData"

\* bridge_operator_stream ends at whatever is not data
EndKinds == {m.kind : m \in Messages} \ {"StreamData"}

CloseOf(o) ==
    /\ (\E m \in Held(oq[o]) : m.kind = "StreamClose") => NoMore(o)
    /\ NoDataAfter(oq[o], {"StreamClose"})

EndOf(o) ==
    Attached(o) =>
        /\ opeer[o] = "told" \/ (\E m \in Held(oq[o]) : m.kind \in EndKinds) => NoMore(o)
        /\ NoDataAfter(oq[o], EndKinds)
        /\ opeer[o] = "told" => \A m \in Held(oq[o]) : m.kind # "StreamData"

ClosingEnded == \A s \in Sessions : closingStreams[s] # {} => status[s] = "ended"

CloseInv == ClosingEnded /\ \A o \in Operators \ strays : CloseOf(o) /\ EndOf(o)

-----------------------------------------------------------------------------
(* Channels as sets of messages.                                           *)

\* An empty channel holds nothing.
LEMMA HeldEmpty == Held(<<>>) = {}
  BY DEF Held

\* What holds nothing is empty.
LEMMA HeldNone ==
    ASSUME NEW q \in Seq(Messages), \A m : m \notin Held(q)
    PROVE  q = <<>>
  <1>1. ASSUME Len(q) # 0 PROVE FALSE
    <2>1. 1 \in DOMAIN q
      BY <1>1
    <2>2. q[1] \in Held(q)
      BY <2>1 DEF Held
    <2>3. QED
      BY <2>2
  <1>2. QED
    BY <1>1

\* An awaited send adds its message.
LEMMA HeldAppend ==
    ASSUME NEW q \in Seq(Messages), NEW m
    PROVE  Held(Append(q, m)) = Held(q) \cup {m}
  <1>1. ASSUME NEW i \in DOMAIN q PROVE i \in DOMAIN Append(q, m) /\ Append(q, m)[i] = q[i]
    OBVIOUS
  <1>2. /\ Len(q) + 1 \in DOMAIN Append(q, m)
        /\ Append(q, m)[Len(q) + 1] = m
    OBVIOUS
  <1>3. ASSUME NEW i \in DOMAIN Append(q, m)
        PROVE  i \in DOMAIN q \/ i = Len(q) + 1
    OBVIOUS
  <1>4. QED
    BY <1>1, <1>2, <1>3 DEF Held

\* A try_send adds its message or nothing.
LEMMA HeldOffer ==
    ASSUME NEW q \in Seq(Messages), NEW alive, NEW m
    PROVE  /\ Held(Offer(q, alive, m)) \subseteq Held(q) \cup {m}
           /\ Held(q) \subseteq Held(Offer(q, alive, m))
           /\ ~alive => Offer(q, alive, m) = q
  BY HeldAppend DEF Offer

\* The outbound task takes the oldest message.
LEMMA HeldTail ==
    ASSUME NEW q \in Seq(Messages), q # <<>>
    PROVE  /\ Held(Tail(q)) \subseteq Held(q)
           /\ Head(q) \in Held(q)
           /\ Held(q) \subseteq Held(Tail(q)) \cup {Head(q)}
  <1>1. ASSUME NEW i \in DOMAIN Tail(q) PROVE i + 1 \in DOMAIN q /\ Tail(q)[i] = q[i + 1]
    OBVIOUS
  <1>2. 1 \in DOMAIN q /\ Head(q) = q[1]
    OBVIOUS
  <1>3. ASSUME NEW i \in DOMAIN q PROVE i = 1 \/ (i - 1 \in DOMAIN Tail(q) /\ Tail(q)[i - 1] = q[i])
    OBVIOUS
  <1>4. Held(Tail(q)) \subseteq Held(q)
    BY <1>1 DEF Held
  <1>5. Head(q) \in Held(q)
    BY <1>2 DEF Held
  <1>6. ASSUME NEW i \in DOMAIN q PROVE q[i] \in Held(Tail(q)) \cup {Head(q)}
    BY <1>2, <1>3 DEF Held
  <1>7. Held(q) \subseteq Held(Tail(q)) \cup {Head(q)}
    BY <1>6 DEF Held
  <1>8. QED
    BY <1>4, <1>5, <1>7

-----------------------------------------------------------------------------
(* What stays: the session of a connection, and an operator's id.          *)

\* A connection's session and an operator's id are set once.
LEMMA Fixed ==
    ASSUME FullInv, [Next]_vars
    PROVE  /\ \A a \in Agents : asess[a] # None => asess'[a] = asess[a]
           /\ \A o \in Operators :
                osess[o] # None \/ opc[o] # "idle" =>
                    osess'[o] = osess[o] /\ osid'[o] = osid[o]
  <1> USE DEF FullInv, IndInv, TypeOK, AgentsOK, OperatorsOK
  <1>1. ASSUME NEW a \in Agents, asess[a] # None PROVE asess'[a] = asess[a]
    <2>1. apc[a] # "idle"
      BY <1>1 DEF AgentTasks
    <2>2. CASE AgentNext
      BY <1>1, <2>1, <2>2
         DEF AgentNext, AgentRegister, AgentReject, AgentAttach, AgentAttachFails,
             AgentFrame, AgentFrameUnrouted, AgentForward, AgentForwardFails, AgentRemove,
             AgentSocketEnds, AgentClear, AgentOutboundSend, AgentOutboundStop, AgentHangup,
             agentTask
    <2>3. QED
      BY <2>2, StoreFrame, OperatorFrameCondition
         DEF Next, agentTask, vars, agentVars
  <1>2. ASSUME NEW o \in Operators, osess[o] # None \/ opc[o] # "idle"
        PROVE  osess'[o] = osess[o] /\ osid'[o] = osid[o]
    <2>1. opc[o] # "idle"
      BY <1>2 DEF OperatorTasks
    <2>2. CASE OperatorNext
      BY <1>2, <2>1, <2>2
         DEF OperatorNext, OperatorOpen, OperatorRefused, OperatorInsert,
             OperatorInsertFails, OperatorAnnounce, OperatorAnnounceFails, OperatorFrame,
             OperatorForward, OperatorForwardFails, OperatorSocketEnds, OperatorTryClose,
             OperatorRemove, OperatorOutboundSend, OperatorOutboundStop, OperatorHangup,
             operTask
    <2>3. QED
      BY <2>2, StoreFrame, AgentFrameCondition
         DEF Next, operTask, vars, operVars
  <1>3. QED
    BY <1>1, <1>2

\* An operator reached from another session stays recorded.
LEMMA StraysGrow == ASSUME [Next]_vars PROVE strays \subseteq strays'
  <1>1. ASSUME NEW a \in Agents, NEW id \in StreamIds, NEW kind \in FrameKinds,
               AgentFrame(a, id, kind)
        PROVE  strays \subseteq strays'
    BY <1>1 DEF AgentFrame
  <1>2. CASE AgentNext
    BY <1>1, <1>2
       DEF AgentNext, AgentRegister, AgentReject, AgentAttach, AgentAttachFails,
           AgentFrameUnrouted, AgentForward, AgentForwardFails, AgentRemove,
           AgentSocketEnds, AgentClear, AgentOutboundSend, AgentOutboundStop, AgentHangup,
           agentPeer
  <1>3. QED
    BY <1>2, StoreFrame, OperatorFrameCondition DEF Next, vars, agentVars, agentPeer

\* So what a session's agent has been told of stays its session's.
LEMMA MineKept ==
    ASSUME FullInv, [Next]_vars, NEW a \in Agents, NEW id, Mine(a, id)
    PROVE  Mine(a, id)'
  <1>1. PICK o \in Operators : osid[o] = id /\ osess[o] = asess[a] /\ osess[o] # None
    BY DEF Mine
  <1>2. /\ asess'[a] = asess[a]
        /\ osess'[o] = osess[o] /\ osid'[o] = osid[o]
    BY <1>1, Fixed
  <1>3. QED
    BY <1>1, <1>2 DEF Mine

-----------------------------------------------------------------------------
(* What a step adds to a channel.                                          *)

\* An agent's channel only gets messages about the session, and messages on the
\* streams of the operators that hold its sender.
LEMMA IntoAgent ==
    ASSUME FullInv, OperatorTraffic, [Next]_vars,
           NEW a \in Agents, NEW m \in Held(aq'[a])
    PROVE  \/ m \in Held(aq[a])
           \/ m.stream = 0
           \/ \E o \in Operators : oagent[o] = a /\ m.stream = osid[o]
  <1> USE DEF FullInv, IndInv, TypeOK, AgentsOK, OperatorsOK, StoreOK
  <1> DEFINE Fine == \/ m \in Held(aq[a])
                     \/ m.stream = 0
                     \/ \E o \in Operators : oagent[o] = a /\ m.stream = osid[o]
  <1>0. aq[a] \in Seq(Messages)
    OBVIOUS
  <1>1. ASSUME NEW s \in Sessions, NotifyAgent(s) PROVE Fine
    <2>1. Msg("Error", 0).stream = 0
      BY DEF Msg
    <2>2. aq'[a] = aq[a] \/ aq'[a] = Offer(aq[a], arx[a], Msg("Error", 0))
      BY <1>1 DEF NotifyAgent
    <2>3. QED
      BY <1>0, <2>1, <2>2, HeldOffer
  <1>2. ASSUME NEW b \in Agents, AgentAttach(b) PROVE Fine
    <2>1. aq'[a] = aq[a] \/ aq'[a] = <<Msg("AgentReady", 0)>>
      BY <1>2 DEF AgentAttach
    <2>2. Held(<<Msg("AgentReady", 0)>>) = {Msg("AgentReady", 0)}
      BY DEF Held
    <2>3. Msg("AgentReady", 0).stream = 0
      BY DEF Msg
    <2>4. QED
      BY <2>1, <2>2, <2>3
  <1>3. ASSUME NEW b \in Agents, AgentOutboundSend(b) PROVE Fine
    <2>1. aq'[a] = aq[a] \/ (aq[a] # <<>> /\ aq'[a] = Tail(aq[a]))
      BY <1>3 DEF AgentOutboundSend
    <2>2. QED
      BY <1>0, <2>1, HeldTail
  <1>4. ASSUME NEW b \in Agents, AgentOutboundStop(b) PROVE Fine
    <2>1. aq'[a] = aq[a] \/ aq'[a] = <<>>
      BY <1>4 DEF AgentOutboundStop
    <2>2. QED
      BY <2>1, HeldEmpty
  <1>5. ASSUME NEW o \in Operators,
               OperatorAnnounce(o) \/ OperatorForward(o) \/ OperatorTryClose(o)
        PROVE  Fine
    <2>0. opc[o] = "forwarding" => oframe[o].stream = osid[o]
      BY DEF OperatorTraffic
    <2>1. ASSUME NEW n, n.stream = osid[o], oagent[o] = a,
                 aq'[a] = Append(aq[a], n) \/ aq'[a] = Offer(aq[a], arx[a], n)
          PROVE  Fine
      <3>1. Held(Append(aq[a], n)) = Held(aq[a]) \cup {n}
        BY <1>0, HeldAppend
      <3>2. Held(Offer(aq[a], arx[a], n)) \subseteq Held(aq[a]) \cup {n}
        BY <1>0, HeldOffer
      <3>3. m \in Held(aq[a]) \cup {n}
        BY <2>1, <3>1, <3>2
      <3>4. QED
        BY <2>1, <3>3
    <2>2. /\ Msg("OpenStream", osid[o]).stream = osid[o]
          /\ Msg("StreamClose", osid[o]).stream = osid[o]
      BY DEF Msg
    <2>3. CASE oagent[o] # a
      BY <1>5, <2>3 DEF OperatorAnnounce, OperatorForward, OperatorTryClose
    <2>4. CASE oagent[o] = a
      BY <1>5, <2>0, <2>1, <2>2, <2>4 DEF OperatorAnnounce, OperatorForward, OperatorTryClose
    <2>5. QED
      BY <2>3, <2>4
  <1>6. CASE aq'[a] = aq[a]
    BY <1>6
  <1>7. CASE StoreNext
    BY <1>1, <1>6, <1>7
       DEF StoreNext, CreateSession, Expire, EndSession, NotifyOperator, agentVars, agentChan
  <1>8. CASE AgentNext
    BY <1>2, <1>3, <1>4, <1>6, <1>8
       DEF AgentNext, AgentRegister, AgentReject, AgentAttachFails, AgentFrame,
           AgentFrameUnrouted, AgentForward, AgentForwardFails, AgentRemove,
           AgentSocketEnds, AgentClear, AgentHangup, agentChan
  <1>9. CASE OperatorNext
    BY <1>5, <1>6, <1>9
       DEF OperatorNext, OperatorOpen, OperatorRefused, OperatorInsert,
           OperatorInsertFails, OperatorAnnounceFails, OperatorFrame,
           OperatorForwardFails, OperatorSocketEnds, OperatorRemove,
           OperatorOutboundSend, OperatorOutboundStop, OperatorHangup, agentVars, agentChan
  <1>10. QED
    BY <1>6, <1>7, <1>8, <1>9 DEF Next, vars, agentVars, agentChan

\* An operator's channel only gets messages on its own stream, and only with its
\* receiver.
LEMMA IntoOperator ==
    ASSUME FullInv, AgentTraffic, ReceiverNeeded, [Next]_vars,
           NEW o \in Operators, NEW m \in Held(oq'[o])
    PROVE  m \in Held(oq[o]) \/ (orx[o] /\ m.stream = osid[o])
  <1> USE DEF FullInv, IndInv, TypeOK, AgentsOK, OperatorsOK, StoreOK
  <1> DEFINE Fine == m \in Held(oq[o]) \/ (orx[o] /\ m.stream = osid[o])
  <1>0. oq[o] \in Seq(Messages)
    OBVIOUS
  <1>1. ASSUME oq'[o] = Offer(oq[o], orx[o], Msg("StreamError", osid[o])) PROVE Fine
    <2>1. Msg("StreamError", osid[o]).stream = osid[o]
      BY DEF Msg
    <2>2. /\ Held(oq'[o]) \subseteq Held(oq[o]) \cup {Msg("StreamError", osid[o])}
          /\ ~orx[o] => oq'[o] = oq[o]
      BY <1>0, <1>1, HeldOffer
    <2>3. QED
      BY <2>1, <2>2
  <1>2. ASSUME NEW s \in Sessions, NEW p \in Operators, NotifyOperator(s, p) PROVE Fine
    BY <1>1, <1>2 DEF NotifyOperator
  <1>3. ASSUME NEW a \in Agents, AgentClear(a) PROVE Fine
    <2>1. \/ oq'[o] = oq[o]
          \/ oq'[o] = Offer(oq[o], orx[o], Msg("StreamError", osid[o]))
      BY <1>3 DEF AgentClear
    <2>2. QED
      BY <1>1, <2>1
  <1>4. ASSUME NEW a \in Agents, AgentForward(a) PROVE Fine
    <2>1. ato[a] \in Operators /\ ato[a] # None
      BY <1>4, NoneAssumption DEF AgentForward, AgentTasks
    <2>2. aframe[a].stream = osid[ato[a]]
      BY <2>1 DEF AgentTraffic
    <2>3. CASE ato[a] # o
      BY <1>4, <2>3 DEF AgentForward
    <2>4. CASE ato[a] = o
      <3>1. orx[o] /\ oq'[o] = Append(oq[o], aframe[a])
        BY <1>4, <2>4 DEF AgentForward
      <3>2. Held(oq'[o]) = Held(oq[o]) \cup {aframe[a]}
        BY <1>0, <3>1, HeldAppend
      <3>3. QED
        BY <2>2, <2>4, <3>1, <3>2
    <2>5. QED
      BY <2>3, <2>4
  <1>5. ASSUME NEW p \in Operators, OperatorOutboundSend(p) PROVE Fine
    <2>1. oq'[o] = oq[o] \/ (oq[o] # <<>> /\ oq'[o] = Tail(oq[o]))
      BY <1>5 DEF OperatorOutboundSend
    <2>2. QED
      BY <1>0, <2>1, HeldTail
  <1>6. ASSUME NEW p \in Operators, OperatorAnnounceFails(p) \/ OperatorOutboundStop(p)
        PROVE  Fine
    <2>1. oq'[o] = oq[o] \/ oq'[o] = <<>>
      BY <1>6 DEF OperatorAnnounceFails, OperatorOutboundStop
    <2>2. QED
      BY <2>1, HeldEmpty
  <1>7. CASE oq'[o] = oq[o]
    BY <1>7
  <1>8. CASE StoreNext
    BY <1>2, <1>7, <1>8
       DEF StoreNext, CreateSession, Expire, EndSession, NotifyAgent, operVars, operChan
  <1>9. CASE AgentNext
    BY <1>3, <1>4, <1>7, <1>9
       DEF AgentNext, AgentRegister, AgentReject, AgentAttach, AgentAttachFails,
           AgentFrame, AgentFrameUnrouted, AgentForwardFails, AgentRemove,
           AgentSocketEnds, AgentOutboundSend, AgentOutboundStop, AgentHangup,
           operVars, operChan
  <1>10. CASE OperatorNext
    BY <1>5, <1>6, <1>7, <1>10
       DEF OperatorNext, OperatorOpen, OperatorRefused, OperatorInsert,
           OperatorInsertFails, OperatorAnnounce, OperatorFrame, OperatorForward,
           OperatorForwardFails, OperatorSocketEnds, OperatorTryClose, OperatorRemove,
           OperatorHangup, operChan
  <1>11. QED
    BY <1>7, <1>8, <1>9, <1>10 DEF Next, vars, operVars, operChan

-----------------------------------------------------------------------------
(* A step keeps the traffic of every session apart.                        *)

\* What an agent is told of, forwards and removes stays with its session.
LEMMA AgentTrafficStep ==
    ASSUME FullInv, TrafficInv, [Next]_vars PROVE AgentTraffic'
  <1> USE DEF FullInv, IndInv, TypeOK, AgentsOK, OperatorsOK, StoreOK, TrafficInv
  <1>1. ASSUME NEW a \in Agents, NEW m \in Held(aq'[a]), m.stream # 0
        PROVE  Mine(a, m.stream)'
    <2>1. CASE m \in Held(aq[a])
      BY <1>1, <2>1, MineKept DEF AgentTraffic
    <2>2. ASSUME NEW o \in Operators, oagent[o] = a, m.stream = osid[o]
          PROVE  Mine(a, m.stream)
      <3>1. osess[o] \in Sessions /\ asess[a] = osess[o]
        BY <2>2, NoneAssumption DEF OperatorTraffic
      <3>2. QED
        BY <2>2, <3>1, NoneAssumption DEF Mine
    <2>3. QED
      BY <1>1, <2>1, <2>2, IntoAgent, MineKept
  <1>2. ASSUME NEW a \in Agents, NEW id \in known'[a] PROVE Mine(a, id)'
    <2>1. CASE id \in known[a]
      BY <2>1, MineKept DEF AgentTraffic
    <2>2. ASSUME NEW b \in Agents, AgentOutboundSend(b), id \notin known[a]
          PROVE  Mine(a, id)
      <3>1. /\ aq[a] # <<>> /\ Head(aq[a]).kind = "OpenStream"
            /\ id = Head(aq[a]).stream
        BY <1>2, <2>2 DEF AgentOutboundSend
      <3>2. Head(aq[a]) \in Held(aq[a]) /\ Head(aq[a]) \in Messages
        BY <3>1, HeldTail
      <3>3. id # 0
        BY <3>1, <3>2 DEF Messages, StreamIds
      <3>4. QED
        BY <3>1, <3>2, <3>3 DEF AgentTraffic
    <2>3. CASE AgentNext /\ ~\E b \in Agents : AgentOutboundSend(b)
      <3>1. UNCHANGED known
        BY <2>3 DEF AgentNext, AgentRegister, AgentReject, AgentAttach, AgentAttachFails,
             AgentFrame, AgentFrameUnrouted, AgentForward, AgentForwardFails, AgentRemove,
             AgentSocketEnds, AgentClear, AgentOutboundStop, AgentHangup, agentPeer
      <3>2. QED
        BY <1>2, <2>1, <3>1
    <2>4. QED
      BY <1>2, <2>1, <2>2, <2>3, MineKept, StoreFrame, OperatorFrameCondition
         DEF Next, vars, agentVars, agentPeer
  <1>3. strays \subseteq strays'
    BY StraysGrow
  <1>4. ASSUME NEW a \in Agents, ato'[a] # None
        PROVE  /\ apc'[a] = "sending"
               /\ aframe'[a].stream = osid'[ato'[a]]
               /\ osess'[ato'[a]] # None
               /\ osess'[ato'[a]] = asess'[a] \/ ato'[a] \in strays'
    <2> DEFINE Goal == /\ apc'[a] = "sending"
                       /\ aframe'[a].stream = osid'[ato'[a]]
                       /\ osess'[ato'[a]] # None
                       /\ osess'[ato'[a]] = asess'[a] \/ ato'[a] \in strays'
    <2>1. ASSUME ato'[a] = ato[a], apc'[a] = apc[a], aframe'[a] = aframe[a] PROVE Goal
      <3>1. /\ ato[a] \in Operators /\ apc[a] = "sending" /\ asess[a] # None
            /\ aframe[a].stream = osid[ato[a]] /\ osess[ato[a]] # None
            /\ osess[ato[a]] = asess[a] \/ ato[a] \in strays
        BY <1>4, <2>1, NoneAssumption DEF AgentTraffic, AgentTasks, Serving
      <3>2. QED
        BY <1>3, <2>1, <3>1, Fixed
    <2>2. ASSUME NEW id \in StreamIds, NEW kind \in FrameKinds, AgentFrame(a, id, kind)
          PROVE  Goal
      <3>1. PICK o \in Receivers(id) :
               /\ ato' = [ato EXCEPT ![a] = o]
               /\ strays' = IF osess[o] = asess[a] THEN strays ELSE strays \cup {o}
        BY <2>2 DEF AgentFrame
      <3>2. PICK s \in Sessions : streams[s][id] = o /\ o # None /\ o \in Operators
        BY <3>1 DEF Receivers
      <3>3. osid[o] = id /\ osess[o] = s /\ osess[o] # None
        BY <3>2, NoneAssumption DEF StreamTableConsistent
      <3>4. /\ apc'[a] = "sending" /\ aframe'[a] = Msg(kind, id)
            /\ asess'[a] = asess[a] /\ ato'[a] = o
        BY <2>2, <3>1 DEF AgentFrame
      <3>5. osess'[o] = osess[o] /\ osid'[o] = osid[o]
        BY <3>2, <3>3, Fixed
      <3>6. QED
        BY <3>1, <3>3, <3>4, <3>5 DEF Msg
    <2>3. CASE AgentNext
      <3>1. ASSUME NEW b \in Agents, NEW id \in StreamIds, NEW kind \in FrameKinds,
                   AgentFrame(b, id, kind), b # a
            PROVE  ato'[a] = ato[a] /\ apc'[a] = apc[a] /\ aframe'[a] = aframe[a]
        BY <3>1 DEF AgentFrame
      <3>2. ASSUME NEW b \in Agents,
                   \/ \E s \in Sessions, offers \in SUBSET Targets :
                        AgentRegister(b, s, offers) \/ AgentReject(b, s, offers)
                   \/ AgentAttach(b) \/ AgentAttachFails(b)
                   \/ \E id \in StreamIds, kind \in FrameKinds : AgentFrameUnrouted(b, id, kind)
                   \/ AgentRemove(b) \/ AgentSocketEnds(b) \/ AgentClear(b)
                   \/ AgentOutboundSend(b) \/ AgentOutboundStop(b) \/ AgentHangup(b)
            PROVE  ato'[a] = ato[a] /\ apc'[a] = apc[a] /\ aframe'[a] = aframe[a]
        <4>1. ato' = ato
          BY <3>2 DEF AgentRegister, AgentReject, AgentAttach, AgentAttachFails,
               AgentFrameUnrouted, AgentRemove, AgentSocketEnds, AgentClear,
               AgentOutboundSend, AgentOutboundStop, AgentHangup, agentTask
        <4>2. apc[a] = "sending"
          BY <1>4, <4>1 DEF AgentTraffic
        <4>3. QED
          BY <3>2, <4>1, <4>2
             DEF AgentRegister, AgentReject, AgentAttach, AgentAttachFails,
               AgentFrameUnrouted, AgentRemove, AgentSocketEnds, AgentClear,
               AgentOutboundSend, AgentOutboundStop, AgentHangup, agentTask
      <3>3. ASSUME NEW b \in Agents, AgentForward(b) \/ AgentForwardFails(b)
            PROVE  ato'[a] = ato[a] /\ apc'[a] = apc[a] /\ aframe'[a] = aframe[a]
        BY <1>4, <3>3 DEF AgentForward, AgentForwardFails
      <3>4. QED
        BY <2>1, <2>2, <2>3, <3>1, <3>2, <3>3 DEF AgentNext
    <2>4. QED
      BY <2>1, <2>3, StoreFrame, OperatorFrameCondition
         DEF Next, vars, agentVars, agentTask
  <1>6. ASSUME NEW a \in Agents, NEW m \in Held(aq'[a]), m.stream # 0
        PROVE  \E o \in Operators :
                  osid'[o] = m.stream /\ osess'[o] = asess'[a] /\ osess'[o] # None
    BY <1>1, <1>6 DEF Mine
  <1> HIDE DEF FullInv, IndInv, TypeOK, AgentsOK, OperatorsOK, StoreOK, TrafficInv
  <1>7. \A a \in Agents : \A m \in Held(aq[a])' : m.stream # 0 => Mine(a, m.stream)'
    BY <1>6 DEF Mine, Held
  <1>8. \A a \in Agents : \A id \in known'[a] : Mine(a, id)'
    BY <1>2
  <1>9. QED
    BY <1>4, <1>7, <1>8 DEF AgentTraffic

\* What an operator is sent and forwards is on its own stream, and its sender is
\* its session's.
LEMMA OperatorTrafficStep ==
    ASSUME FullInv, TrafficInv, [Next]_vars PROVE OperatorTraffic' /\ ReceiverNeeded'
  <1> USE DEF FullInv, IndInv, TypeOK, AgentsOK, OperatorsOK, StoreOK, TrafficInv
  <1>1. ASSUME NEW o \in Operators, NEW m \in Held(oq'[o]) PROVE m.stream = osid'[o]
    <2>1. m.stream = osid[o] /\ orx[o]
      BY IntoOperator, HeldEmpty DEF OperatorTraffic, ReceiverNeeded
    <2>2. opc[o] # "idle"
      BY <2>1 DEF ReceiverNeeded
    <2>3. QED
      BY <2>1, <2>2, Fixed
  <1>2. ASSUME NEW o \in Operators, oagent'[o] # None
        PROVE  osess'[o] \in Sessions /\ asess'[oagent'[o]] = osess'[o]
    <2>1. CASE oagent'[o] = oagent[o]
      <3>1. /\ oagent[o] \in Agents /\ osess[o] \in Sessions /\ osess[o] # None
            /\ asess[oagent[o]] = osess[o]
        BY <1>2, <2>1, NoneAssumption DEF OperatorTraffic
      <3>2. QED
        BY <2>1, <3>1, Fixed
    <2>2. ASSUME NEW s \in Sessions, NEW target \in Targets, OperatorOpen(o, s, target)
          PROVE  osess'[o] \in Sessions /\ asess'[oagent'[o]] = osess'[o]
      <3>1. /\ slot[s] # None /\ slot[s] \in Agents
            /\ oagent'[o] = slot[s] /\ osess'[o] = s /\ asess' = asess
        BY <2>2 DEF OperatorOpen, MayOpen, agentVars, agentTask
      <3>2. QED
        BY <3>1 DEF SlotBelongsToServingTask
    <2>3. CASE OperatorNext
      <3>1. ASSUME NEW p \in Operators, p # o, NEW s \in Sessions, NEW target \in Targets,
                   OperatorOpen(p, s, target)
            PROVE  oagent'[o] = oagent[o]
        BY <3>1 DEF OperatorOpen
      <3>2. ASSUME NEW p \in Operators,
                   \/ \E s \in Sessions, target \in Targets : OperatorRefused(p, s, target)
                   \/ OperatorInsert(p) \/ OperatorInsertFails(p)
                   \/ OperatorAnnounce(p) \/ OperatorAnnounceFails(p)
                   \/ \E kind \in FrameKinds : OperatorFrame(p, kind)
                   \/ OperatorForward(p) \/ OperatorForwardFails(p)
                   \/ OperatorSocketEnds(p) \/ OperatorTryClose(p) \/ OperatorRemove(p)
                   \/ OperatorOutboundSend(p) \/ OperatorOutboundStop(p) \/ OperatorHangup(p)
            PROVE  oagent'[o] = oagent[o]
        BY <1>2, <3>2
           DEF OperatorRefused, OperatorInsert, OperatorInsertFails, OperatorAnnounce,
               OperatorAnnounceFails, OperatorFrame, OperatorForward, OperatorForwardFails,
               OperatorSocketEnds, OperatorTryClose, OperatorRemove, OperatorOutboundSend,
               OperatorOutboundStop, OperatorHangup, operTask
      <3>3. QED
        BY <2>1, <2>2, <2>3, <3>1, <3>2 DEF OperatorNext
    <2>4. QED
      BY <2>1, <2>3, StoreFrame, AgentFrameCondition DEF Next, vars, operVars, operTask
  <1>3. ASSUME NEW o \in Operators, opc'[o] = "forwarding" PROVE oframe'[o].stream = osid'[o]
    <2>1. CASE opc[o] = "forwarding" /\ oframe'[o] = oframe[o]
      BY <2>1, Fixed DEF OperatorTraffic
    <2>2. ASSUME NEW kind \in FrameKinds, OperatorFrame(o, kind)
          PROVE  oframe'[o].stream = osid'[o]
      BY <2>2 DEF OperatorFrame, Msg
    <2>3. CASE OperatorNext
      <3>1. ASSUME NEW p \in Operators, p # o, NEW kind \in FrameKinds, OperatorFrame(p, kind)
            PROVE  opc[o] = "forwarding" /\ oframe'[o] = oframe[o]
        BY <1>3, <3>1 DEF OperatorFrame
      <3>2. ASSUME NEW p \in Operators,
                   \/ \E s \in Sessions, target \in Targets :
                        OperatorOpen(p, s, target) \/ OperatorRefused(p, s, target)
                   \/ OperatorInsert(p) \/ OperatorInsertFails(p)
                   \/ OperatorAnnounce(p) \/ OperatorAnnounceFails(p)
                   \/ OperatorForward(p) \/ OperatorForwardFails(p)
                   \/ OperatorSocketEnds(p) \/ OperatorTryClose(p) \/ OperatorRemove(p)
                   \/ OperatorOutboundSend(p) \/ OperatorOutboundStop(p) \/ OperatorHangup(p)
            PROVE  opc[o] = "forwarding" /\ oframe'[o] = oframe[o]
        BY <1>3, <3>2
           DEF OperatorOpen, OperatorRefused, OperatorInsert, OperatorInsertFails,
               OperatorAnnounce, OperatorAnnounceFails, OperatorForward,
               OperatorForwardFails, OperatorSocketEnds, OperatorTryClose, OperatorRemove,
               OperatorOutboundSend, OperatorOutboundStop, OperatorHangup, operTask
      <3>3. QED
        BY <2>1, <2>2, <2>3, <3>1, <3>2 DEF OperatorNext
    <2>4. QED
      BY <1>3, <2>1, <2>3, StoreFrame, AgentFrameCondition DEF Next, vars, operVars, operTask
  <1>4. ASSUME NEW o \in Operators, ~orx'[o] PROVE oq'[o] = <<>>
    <2>1. CASE orx'[o] = orx[o]
      <3>1. oq[o] = <<>> /\ ~orx[o]
        BY <1>4, <2>1 DEF ReceiverNeeded
      <3>2. \A m : m \notin Held(oq'[o])
        BY <3>1, IntoOperator, HeldEmpty
      <3>3. oq'[o] \in Seq(Messages)
        BY NextInv
      <3>4. QED
        BY <3>2, <3>3, HeldNone
    <2>2. CASE oq'[o] = <<>>
      BY <2>2
    <2>3. ASSUME NEW p \in Operators, OperatorAnnounceFails(p) \/ OperatorOutboundStop(p)
          PROVE  orx'[o] = orx[o] \/ oq'[o] = <<>>
      BY <2>3 DEF OperatorAnnounceFails, OperatorOutboundStop
    <2>4. ASSUME NEW p \in Operators, OperatorInsert(p) PROVE orx'[o] = orx[o]
      BY <1>4, <2>4 DEF OperatorInsert
    <2>5. CASE OperatorNext
      BY <2>1, <2>2, <2>3, <2>4, <2>5
         DEF OperatorNext, OperatorOpen, OperatorRefused, OperatorInsertFails,
             OperatorAnnounce, OperatorFrame, OperatorForward, OperatorForwardFails,
             OperatorSocketEnds, OperatorTryClose, OperatorRemove, OperatorOutboundSend,
             OperatorHangup, operChan
    <2>6. QED
      BY <2>1, <2>5, StoreFrame, AgentFrameCondition DEF Next, vars, operVars, operChan
  <1>5. ASSUME NEW o \in Operators, opc'[o] \in {"idle", "checked"}
        PROVE  ~orx'[o] /\ opeer'[o] # "told"
    <2>1. CASE OperatorNext
      BY <1>5, <2>1
         DEF OperatorNext, OperatorOpen, OperatorRefused, OperatorInsert,
             OperatorInsertFails, OperatorAnnounce, OperatorAnnounceFails, OperatorFrame,
             OperatorForward, OperatorForwardFails, OperatorSocketEnds, OperatorTryClose,
             OperatorRemove, OperatorOutboundSend, OperatorOutboundStop, OperatorHangup,
             operTask, operChan, ReceiverNeeded
    <2>2. QED
      BY <1>5, <2>1, StoreFrame, AgentFrameCondition
         DEF Next, vars, operVars, operTask, operChan, ReceiverNeeded
  <1>6. \A o \in Operators : \A m \in Held(oq'[o]) : m.stream = osid'[o]
    BY <1>1
  <1>7. OperatorTraffic'
    BY <1>2, <1>3, <1>6 DEF OperatorTraffic, Held
  <1>8. QED
    BY <1>4, <1>5, <1>7 DEF ReceiverNeeded

\* The relay keeps the invariant and the traffic apart.
LEMMA TrafficInvariant == Spec => [](FullInv /\ TrafficInv)
  <1>1. Init => FullInv /\ TrafficInv
    <2>1. ASSUME Init PROVE TrafficInv
      BY <2>1, HeldEmpty DEF Init, TrafficInv, AgentTraffic, OperatorTraffic, ReceiverNeeded
    <2>2. QED
      BY <2>1, InitInv, InitHistory DEF FullInv
  <1>2. FullInv /\ TrafficInv /\ [Next]_vars => (FullInv /\ TrafficInv)'
    BY NextInv, NextHistory, AgentTrafficStep, OperatorTrafficStep DEF FullInv, TrafficInv
  <1>3. QED
    BY <1>1, <1>2, PTL DEF Spec

\* send_to_operator and remove_stream look an id up in every session, and agents may
\* name any; yet an agent that names an id it was told of reaches its own session's
\* operator, and no channel ever holds another stream's messages
\* (TrafficStaysInSession), for any number of sessions and peers, whatever they send.
THEOREM TrafficIsApart == Spec => []TrafficStaysInSession
  <1>1. FullInv /\ TrafficInv => TrafficStaysInSession
    <2> SUFFICES ASSUME FullInv, TrafficInv PROVE TrafficStaysInSession
      OBVIOUS
    <2>1. ASSUME NEW a \in Agents, ato[a] # None, aframe[a].stream \in known[a]
          PROVE  osess[ato[a]] = asess[a]
      <3>1. PICK p \in Operators : osid[p] = aframe[a].stream /\ osess[p] = asess[a]
        BY <2>1 DEF TrafficInv, AgentTraffic, Mine
      <3>2. ato[a] \in Operators /\ osid[ato[a]] = osid[p] /\ aframe[a].stream \in StreamIds
        BY <2>1, <3>1
           DEF FullInv, IndInv, TypeOK, AgentsOK, TrafficInv, AgentTraffic
      <3>3. ato[a] = p
        BY <3>1, <3>2 DEF FullInv, HistoryInv, IdsUnique, StreamIds
      <3>4. QED
        BY <3>1, <3>3
    <2>2. ASSUME NEW o \in Operators, NEW i \in DOMAIN oq[o] PROVE oq[o][i].stream = osid[o]
      BY DEF TrafficInv, OperatorTraffic, Held
    <2>3. ASSUME NEW a \in Agents, NEW i \in DOMAIN aq[a], aq[a][i].stream # 0,
                 NEW o \in Operators, osid[o] = aq[a][i].stream
          PROVE  osess[o] = asess[a]
      <3>1. PICK p \in Operators : osid[p] = aq[a][i].stream /\ osess[p] = asess[a]
        BY <2>3 DEF TrafficInv, AgentTraffic, Mine, Held
      <3>2. QED
        BY <2>3, <3>1 DEF FullInv, HistoryInv, IdsUnique
    <2>4. QED
      BY <2>1, <2>2, <2>3 DEF TrafficStaysInSession
  <1>2. QED
    BY TrafficInvariant, <1>1, PTL

-----------------------------------------------------------------------------
(* OpenStream comes first.                                                 *)

\* Every message on a stream follows its OpenStream, or the stream is known
OpenFirst(queue, ids) ==
    \A i \in DOMAIN queue :
        queue[i].kind \in StreamKinds =>
            \/ queue[i].stream \in ids
            \/ \E j \in 1 .. i - 1 : queue[j] = Msg("OpenStream", queue[i].stream)

\* A message about a stream that is open may be appended.
LEMMA OpenFirstAppend ==
    ASSUME NEW q \in Seq(Messages), NEW ids, OpenFirst(q, ids), NEW m,
           \/ m.kind \notin StreamKinds
           \/ m.stream \in ids
           \/ Msg("OpenStream", m.stream) \in Held(q)
    PROVE  OpenFirst(Append(q, m), ids)
  <1> DEFINE r == Append(q, m)
  <1> SUFFICES ASSUME NEW i \in DOMAIN r, r[i].kind \in StreamKinds, r[i].stream \notin ids
               PROVE  \E j \in 1 .. i - 1 : r[j] = Msg("OpenStream", r[i].stream)
    BY DEF OpenFirst
  <1>1. \A j \in DOMAIN q : j \in DOMAIN r /\ r[j] = q[j]
    OBVIOUS
  <1>2. CASE i \in DOMAIN q
    <2>1. PICK j \in 1 .. i - 1 : q[j] = Msg("OpenStream", q[i].stream)
      BY <1>1, <1>2 DEF OpenFirst
    <2>2. j \in DOMAIN q
      BY <1>2, <2>1
    <2>3. QED
      BY <1>1, <1>2, <2>1, <2>2
  <1>3. CASE i = Len(q) + 1
    <2>1. r[i] = m
      BY <1>3
    <2>2. PICK j \in DOMAIN q : q[j] = Msg("OpenStream", m.stream)
      BY <2>1 DEF Held
    <2>3. j \in 1 .. i - 1
      BY <1>3, <2>2
    <2>4. QED
      BY <1>1, <2>1, <2>2, <2>3
  <1>4. QED
    BY <1>2, <1>3

\* Taking the oldest message makes its stream known if it opens one.
LEMMA OpenFirstTail ==
    ASSUME NEW q \in Seq(Messages), q # <<>>, NEW ids, OpenFirst(q, ids), NEW more,
           ids \subseteq more, Head(q).kind = "OpenStream" => Head(q).stream \in more
    PROVE  OpenFirst(Tail(q), more)
  <1> DEFINE r == Tail(q)
  <1> SUFFICES ASSUME NEW i \in DOMAIN r, r[i].kind \in StreamKinds, r[i].stream \notin more
               PROVE  \E j \in 1 .. i - 1 : r[j] = Msg("OpenStream", r[i].stream)
    BY DEF OpenFirst
  <1>1. \A j \in DOMAIN r : j + 1 \in DOMAIN q /\ r[j] = q[j + 1]
    OBVIOUS
  <1>2. PICK j \in 1 .. i : q[j] = Msg("OpenStream", r[i].stream)
    BY <1>1 DEF OpenFirst
  <1>3. j # 1
    BY <1>2 DEF Msg
  <1>4. j - 1 \in 1 .. i - 1 /\ j - 1 \in DOMAIN r
    BY <1>2, <1>3
  <1>5. r[j - 1] = q[j]
    BY <1>1, <1>2, <1>4
  <1>6. QED
    BY <1>2, <1>4, <1>5

\* No operator holds the sender of an agent that has not attached yet.
LEMMA SenderAttached ==
    ASSUME FullInv, TrafficInv, NEW o \in Operators, oagent[o] # None
    PROVE  apc[oagent[o]] # "registered"
  <1>1. /\ oagent[o] \in Agents /\ osess[o] \in Sessions
        /\ asess[oagent[o]] = osess[o]
    BY DEF FullInv, IndInv, TypeOK, OperatorsOK, TrafficInv, OperatorTraffic
  <1>2. PICK a \in Agents : asess[a] = osess[o] /\ apc[a] # "registered"
    BY <1>1, NoneAssumption DEF FullInv, HistoryInv, LetInAfterAttach
  <1>3. a = oagent[o]
    BY <1>1, <1>2, NoneAssumption DEF FullInv, IndInv, SingleUseCode
  <1>4. QED
    BY <1>2, <1>3

\* The four ways an agent's channel changes while its peer is there.
LEMMA AgentChannelMoves ==
    ASSUME FullInv, TrafficInv, PeersUp, [Next]_vars, NEW a \in Agents, apeer'[a] # "gone"
    PROVE  /\ apeer[a] # "gone"
           /\ \/ aq'[a] = aq[a] /\ known'[a] = known[a] /\ arx'[a] = arx[a]
              \/ aq'[a] = <<>> /\ known'[a] = known[a] /\ ~arx'[a]
              \/ AgentAttach(a) /\ aq'[a] = <<Msg("AgentReady", 0)>> /\ known'[a] = known[a]
              \/ /\ aq[a] # <<>> /\ aq'[a] = Tail(aq[a]) /\ arx'[a] = arx[a]
                 /\ known'[a] = IF Head(aq[a]).kind = "OpenStream"
                                  THEN known[a] \cup {Head(aq[a]).stream} ELSE known[a]
              \/ /\ \E m : /\ aq'[a] \in {aq[a], Append(aq[a], m)}
                           /\ \/ m.kind \notin StreamKinds
                              \/ \E o \in Operators : /\ oagent[o] = a /\ m.stream = osid[o]
                                                      /\ opc[o] \in {"forwarding", "leaving"}
                                                      /\ arx[a]
                 /\ known'[a] = known[a] /\ arx'[a] = arx[a]
  <1> USE DEF FullInv, IndInv, TypeOK, AgentsOK, OperatorsOK, StoreOK, TrafficInv
  <1>1. apeer[a] # "gone"
    <2>1. CASE AgentNext
      BY <2>1 DEF AgentNext, AgentRegister, AgentReject, AgentAttach, AgentAttachFails,
             AgentFrame, AgentFrameUnrouted, AgentForward, AgentForwardFails, AgentRemove,
             AgentSocketEnds, AgentClear, AgentOutboundSend, AgentOutboundStop, AgentHangup,
             agentPeer, PeersUp
    <2>2. QED
      BY <2>1, StoreFrame, OperatorFrameCondition DEF Next, vars, agentVars, agentPeer
  <1> DEFINE Same == aq'[a] = aq[a] /\ known'[a] = known[a] /\ arx'[a] = arx[a]
             Stop == aq'[a] = <<>> /\ known'[a] = known[a] /\ ~arx'[a]
             Starts == AgentAttach(a) /\ aq'[a] = <<Msg("AgentReady", 0)>> /\ known'[a] = known[a]
             Takes == /\ aq[a] # <<>> /\ aq'[a] = Tail(aq[a]) /\ arx'[a] = arx[a]
                      /\ known'[a] = IF Head(aq[a]).kind = "OpenStream"
                                       THEN known[a] \cup {Head(aq[a]).stream} ELSE known[a]
             Fits(m) == \/ m.kind \notin StreamKinds
                        \/ \E o \in Operators : /\ oagent[o] = a /\ m.stream = osid[o]
                                                /\ opc[o] \in {"forwarding", "leaving"}
                                                /\ arx[a]
             Gets == /\ \E m : aq'[a] \in {aq[a], Append(aq[a], m)} /\ Fits(m)
                     /\ known'[a] = known[a] /\ arx'[a] = arx[a]
             Moves == Same \/ Stop \/ Starts \/ Takes \/ Gets
  <1>2. ASSUME NEW s \in Sessions, NotifyAgent(s) PROVE Moves
    <2>1. /\ known'[a] = known[a] /\ arx'[a] = arx[a]
          /\ aq'[a] \in {aq[a], Append(aq[a], Msg("Error", 0))}
      BY <1>2 DEF NotifyAgent, Offer, agentPeer
    <2>2. Msg("Error", 0).kind \notin StreamKinds
      BY DEF Msg, StreamKinds
    <2>3. QED
      BY <2>1, <2>2
  <1>3. ASSUME StoreNext PROVE Moves
    <2>1. ASSUME ~\E s \in Sessions : NotifyAgent(s) PROVE Same
      BY <1>3, <2>1
         DEF StoreNext, CreateSession, Expire, EndSession, NotifyOperator, agentVars,
             agentChan, agentPeer
    <2>2. QED
      BY <1>2, <2>1
  <1>4. ASSUME AgentNext PROVE Moves
    <2>1. ASSUME NEW b \in Agents, AgentAttach(b) PROVE Same \/ Starts
      BY <2>1 DEF AgentAttach, agentPeer
    <2>2. ASSUME NEW b \in Agents, AgentOutboundSend(b) PROVE Same \/ Takes
      BY <1>1, <2>2 DEF AgentOutboundSend
    <2>3. ASSUME NEW b \in Agents, AgentOutboundStop(b) PROVE Same \/ Stop
      BY <2>3 DEF AgentOutboundStop, agentPeer
    <2>4. ASSUME NEW b \in Agents,
                 \/ \E s \in Sessions, offers \in SUBSET Targets :
                      AgentRegister(b, s, offers) \/ AgentReject(b, s, offers)
                 \/ AgentAttachFails(b)
                 \/ \E i \in StreamIds, kind \in FrameKinds :
                      AgentFrame(b, i, kind) \/ AgentFrameUnrouted(b, i, kind)
                 \/ AgentForward(b) \/ AgentForwardFails(b) \/ AgentRemove(b)
                 \/ AgentSocketEnds(b) \/ AgentClear(b) \/ AgentHangup(b)
          PROVE  Same
      BY <2>4 DEF AgentRegister, AgentReject, AgentAttachFails, AgentFrame,
             AgentFrameUnrouted, AgentForward, AgentForwardFails, AgentRemove,
             AgentSocketEnds, AgentClear, AgentHangup, agentChan, agentPeer
    <2>5. QED
      BY <1>4, <2>1, <2>2, <2>3, <2>4 DEF AgentNext
  <1>5. ASSUME OperatorNext PROVE Moves
    <2>0. known'[a] = known[a] /\ arx'[a] = arx[a]
      BY <1>5, OperatorFrameCondition DEF agentPeer
    <2>1. ASSUME NEW o \in Operators, OperatorAnnounce(o) PROVE Gets
      <3>1. Msg("OpenStream", osid[o]).kind \notin StreamKinds
        BY DEF Msg, StreamKinds
      <3>2. aq'[a] \in {aq[a], Append(aq[a], Msg("OpenStream", osid[o]))}
        BY <2>1 DEF OperatorAnnounce
      <3>3. QED
        BY <2>0, <3>1, <3>2
    <2>2. ASSUME NEW o \in Operators, OperatorForward(o) PROVE Same \/ Gets
      <3>1. opc[o] = "forwarding" /\ arx[oagent[o]] /\ oframe[o].stream = osid[o]
        BY <2>2 DEF OperatorForward, HasRoom, OperatorTraffic
      <3>2. CASE oagent[o] = a
        <4>1. aq'[a] \in {aq[a], Append(aq[a], oframe[o])}
          BY <2>2, <3>2 DEF OperatorForward
        <4>2. Fits(oframe[o])
          BY <3>1, <3>2
        <4>3. QED
          BY <2>0, <4>1, <4>2
      <3>3. CASE oagent[o] # a
        BY <2>0, <2>2, <3>3 DEF OperatorForward
      <3>4. QED
        BY <3>2, <3>3
    <2>3. ASSUME NEW o \in Operators, OperatorTryClose(o) PROVE Same \/ Gets
      <3> DEFINE m == Msg("StreamClose", osid[o])
      <3>1. opc[o] = "leaving" /\ m.stream = osid[o]
        BY <2>3 DEF OperatorTryClose, Msg
      <3>2. CASE oagent[o] = a /\ arx[a]
        <4>1. aq'[a] \in {aq[a], Append(aq[a], m)}
          BY <2>3, <3>2 DEF OperatorTryClose, Offer
        <4>2. Fits(m)
          BY <3>1, <3>2
        <4>3. QED
          BY <2>0, <4>1, <4>2
      <3>3. CASE ~(oagent[o] = a /\ arx[a])
        BY <2>0, <2>3, <3>3 DEF OperatorTryClose, Offer
      <3>4. QED
        BY <3>2, <3>3
    <2>4. ASSUME NEW o \in Operators,
                 \/ \E s \in Sessions, target \in Targets :
                      OperatorOpen(o, s, target) \/ OperatorRefused(o, s, target)
                 \/ OperatorInsert(o) \/ OperatorInsertFails(o) \/ OperatorAnnounceFails(o)
                 \/ \E kind \in FrameKinds : OperatorFrame(o, kind)
                 \/ OperatorForwardFails(o) \/ OperatorSocketEnds(o) \/ OperatorRemove(o)
                 \/ OperatorOutboundSend(o) \/ OperatorOutboundStop(o) \/ OperatorHangup(o)
          PROVE  Same
      BY <2>4
         DEF OperatorOpen, OperatorRefused, OperatorInsert, OperatorInsertFails,
             OperatorAnnounceFails, OperatorFrame, OperatorForwardFails,
             OperatorSocketEnds, OperatorRemove, OperatorOutboundSend,
             OperatorOutboundStop, OperatorHangup, agentVars, agentChan, agentPeer
    <2>5. QED
      BY <1>5, <2>1, <2>2, <2>3, <2>4 DEF OperatorNext
  <1>6. Moves
    BY <1>3, <1>4, <1>5 DEF Next, vars, agentVars, agentChan, agentPeer
  <1>7. QED
    BY <1>1, <1>6

\* A step keeps OpenStream first in every channel whose peer is there.
LEMMA OpenStep ==
    ASSUME FullInv, TrafficInv, OpenInv, [Next]_vars PROVE OpenInv'
  <1> USE DEF FullInv, IndInv, TypeOK, AgentsOK, OperatorsOK, StoreOK, TrafficInv, OpenInv
  <1>1. PeersUp'
    <2>1. CASE AgentNext
      BY <2>1 DEF AgentNext, AgentRegister, AgentReject, AgentAttach, AgentAttachFails,
             AgentFrame, AgentFrameUnrouted, AgentForward, AgentForwardFails, AgentRemove,
             AgentSocketEnds, AgentClear, AgentOutboundSend, AgentOutboundStop, AgentHangup,
             agentPeer, agentTask, PeersUp
    <2>2. QED
      BY <2>1, StoreFrame, OperatorFrameCondition
         DEF Next, vars, agentVars, agentPeer, agentTask, PeersUp
  <1>2. ASSUME NEW a \in Agents, apeer'[a] # "gone" PROVE OpenFirst(aq'[a], known'[a])
    <2>1. OpenFirst(aq[a], known[a]) /\ aq[a] \in Seq(Messages)
      BY <1>2, AgentChannelMoves DEF OpenPrecedesTraffic, OpenFirst
    <2>2. CASE aq'[a] = aq[a] /\ known'[a] = known[a]
      BY <2>1, <2>2
    <2>3. CASE aq'[a] = <<>> \/ aq'[a] = <<Msg("AgentReady", 0)>>
      <3>1. \A i \in DOMAIN aq'[a] : aq'[a][i] = Msg("AgentReady", 0)
        BY <2>3
      <3>2. Msg("AgentReady", 0).kind \notin StreamKinds
        BY DEF Msg, StreamKinds
      <3>3. QED
        BY <3>1, <3>2 DEF OpenFirst
    <2>4. ASSUME aq[a] # <<>>, aq'[a] = Tail(aq[a]),
                 known'[a] = IF Head(aq[a]).kind = "OpenStream"
                               THEN known[a] \cup {Head(aq[a]).stream} ELSE known[a]
          PROVE  OpenFirst(aq'[a], known'[a])
      <3>1. /\ known[a] \subseteq known'[a]
            /\ Head(aq[a]).kind = "OpenStream" => Head(aq[a]).stream \in known'[a]
        BY <2>4
      <3>2. OpenFirst(Tail(aq[a]), known'[a])
        BY <2>1, <2>4, <3>1, OpenFirstTail
      <3>3. QED
        BY <2>4, <3>2
    <2>5. ASSUME NEW m, aq'[a] = Append(aq[a], m), known'[a] = known[a],
                 \/ m.kind \notin StreamKinds
                 \/ \E o \in Operators : /\ oagent[o] = a /\ m.stream = osid[o]
                                         /\ opc[o] \in {"forwarding", "leaving"}
                                         /\ arx[a]
          PROVE  OpenFirst(aq'[a], known'[a])
      <3>1. \/ m.kind \notin StreamKinds
            \/ m.stream \in known[a]
            \/ Msg("OpenStream", m.stream) \in Held(aq[a])
        <4>1. ASSUME NEW o \in Operators, oagent[o] = a, m.stream = osid[o],
                     opc[o] \in {"forwarding", "leaving"}, arx[a]
              PROVE  Opened(a, m.stream)
          <5>1. apeer[a] # "gone"
            BY <1>2, AgentChannelMoves
          <5>2. Opened(oagent[o], osid[o])
            BY <4>1, <5>1 DEF Announced
          <5>3. QED
            BY <4>1, <5>2
        <4>2. QED
          BY <2>5, <4>1 DEF Opened
      <3>2. OpenFirst(Append(aq[a], m), known[a])
        BY <2>1, <3>1, OpenFirstAppend
      <3>3. QED
        BY <2>5, <3>2
    <2>6. QED
      BY <1>2, <2>2, <2>3, <2>4, <2>5, AgentChannelMoves
  <1>3. ASSUME NEW o \in Operators, opc'[o] \in {"running", "forwarding", "leaving"},
               arx'[oagent'[o]], apeer'[oagent'[o]] # "gone"
        PROVE  Opened(oagent[o], osid[o])'
    <2>1. CASE OperatorAnnounce(o)
      <3> DEFINE a == oagent[o]
      <3>1. /\ oagent'[o] = a /\ osid'[o] = osid[o] /\ a \in Agents
            /\ aq'[a] = Append(aq[a], Msg("OpenStream", osid[o]))
        BY <2>1 DEF OperatorAnnounce, OperatorTasks
      <3>2. Held(aq'[a]) = Held(aq[a]) \cup {Msg("OpenStream", osid[o])}
        BY <3>1, HeldAppend
      <3>3. Msg("OpenStream", osid'[o]) \in Held(aq'[oagent'[o]])
        BY <3>1, <3>2
      <3>4. \/ osid'[o] \in known'[oagent'[o]]
            \/ Msg("OpenStream", osid'[o]) \in Held(aq'[oagent'[o]])
        BY <3>3
      <3> HIDE DEF FullInv, IndInv, TypeOK, AgentsOK, OperatorsOK, StoreOK, TrafficInv, OpenInv, a
      <3>5. QED
        BY <3>4 DEF Opened, Held, Msg
    <2>2. ASSUME opc[o] \in {"running", "forwarding", "leaving"}, oagent'[o] = oagent[o]
          PROVE  Opened(oagent[o], osid[o])'
      <3> DEFINE a == oagent[o]
      <3>1. /\ a \in Agents /\ a # None /\ osid'[o] = osid[o] /\ apeer'[a] # "gone" /\ arx'[a]
        <4>1. a \in Agents /\ a # None
          BY <2>2, NoneAssumption DEF OperatorTasks
        <4>2. osid'[o] = osid[o]
          BY <2>2, Fixed
        <4>3. QED
          BY <1>3, <2>2, <4>1, <4>2
      <3>2. ~AgentAttach(a)
        BY <3>1, SenderAttached DEF AgentAttach
      <3>3. arx[a] /\ apeer[a] # "gone"
        BY <3>1, <3>2, AgentChannelMoves
      <3>4. osid[o] \in known[a] \/ Msg("OpenStream", osid[o]) \in Held(aq[a])
        BY <2>2, <3>3 DEF Announced, Opened
      <3>5. osid[o] \in known'[a] \/ Msg("OpenStream", osid[o]) \in Held(aq'[a])
        <4>1. CASE aq'[a] = aq[a] /\ known'[a] = known[a]
          BY <3>4, <4>1
        <4>2. CASE /\ aq[a] # <<>> /\ aq'[a] = Tail(aq[a])
                   /\ known'[a] = IF Head(aq[a]).kind = "OpenStream"
                                    THEN known[a] \cup {Head(aq[a]).stream} ELSE known[a]
          <5>1. Held(aq[a]) \subseteq Held(aq'[a]) \cup {Head(aq[a])}
            BY <3>1, <4>2, HeldTail
          <5>2. /\ Msg("OpenStream", osid[o]).kind = "OpenStream"
                /\ Msg("OpenStream", osid[o]).stream = osid[o]
            BY DEF Msg
          <5>3. CASE Msg("OpenStream", osid[o]) = Head(aq[a])
            BY <4>2, <5>2, <5>3
          <5>4. CASE Msg("OpenStream", osid[o]) # Head(aq[a])
            BY <3>4, <4>2, <5>1, <5>4
          <5>5. QED
            BY <5>3, <5>4
        <4>3. ASSUME NEW m, aq'[a] = Append(aq[a], m), known'[a] = known[a]
              PROVE  osid[o] \in known'[a] \/ Msg("OpenStream", osid[o]) \in Held(aq'[a])
          <5>1. Held(aq'[a]) = Held(aq[a]) \cup {m}
            BY <3>1, <4>3, HeldAppend
          <5> HIDE DEF FullInv, IndInv, TypeOK, AgentsOK, OperatorsOK, StoreOK, TrafficInv, OpenInv, a
          <5>2. CASE osid[o] \in known[a]
            BY <4>3, <5>2
          <5>3. CASE Msg("OpenStream", osid[o]) \in Held(aq[a])
            BY <5>1, <5>3
          <5>4. QED
            BY <3>4, <5>2, <5>3
        <4>4. \/ aq'[a] = aq[a] /\ known'[a] = known[a]
              \/ /\ aq[a] # <<>> /\ aq'[a] = Tail(aq[a])
                 /\ known'[a] = IF Head(aq[a]).kind = "OpenStream"
                                  THEN known[a] \cup {Head(aq[a]).stream} ELSE known[a]
              \/ \E m : aq'[a] = Append(aq[a], m) /\ known'[a] = known[a]
          <5>1. PeersUp
            OBVIOUS
          <5> HIDE DEF FullInv, IndInv, TypeOK, AgentsOK, OperatorsOK, StoreOK, TrafficInv, OpenInv, a
          <5>2. \/ aq'[a] = aq[a] /\ known'[a] = known[a] /\ arx'[a] = arx[a]
                \/ aq'[a] = <<>> /\ known'[a] = known[a] /\ ~arx'[a]
                \/ AgentAttach(a) /\ aq'[a] = <<Msg("AgentReady", 0)>> /\ known'[a] = known[a]
                \/ /\ aq[a] # <<>> /\ aq'[a] = Tail(aq[a]) /\ arx'[a] = arx[a]
                   /\ known'[a] = IF Head(aq[a]).kind = "OpenStream"
                                    THEN known[a] \cup {Head(aq[a]).stream} ELSE known[a]
                \/ /\ \E m : /\ aq'[a] \in {aq[a], Append(aq[a], m)}
                             /\ \/ m.kind \notin StreamKinds
                                \/ \E p \in Operators : /\ oagent[p] = a /\ m.stream = osid[p]
                                                        /\ opc[p] \in {"forwarding", "leaving"}
                                                        /\ arx[a]
                   /\ known'[a] = known[a] /\ arx'[a] = arx[a]
            BY <3>1, <5>1, AgentChannelMoves
          <5>3. QED
            BY <3>1, <3>2, <5>2
        <4> HIDE DEF FullInv, IndInv, TypeOK, AgentsOK, OperatorsOK, StoreOK, TrafficInv, OpenInv, a
        <4>5. QED
          BY <4>1, <4>2, <4>3, <4>4
      <3>6. \/ osid'[o] \in known'[oagent'[o]]
            \/ Msg("OpenStream", osid'[o]) \in Held(aq'[oagent'[o]])
        BY <2>2, <3>1, <3>5
      <3>7. QED
        BY <3>6 DEF Opened, Held, Msg
    <2>3. CASE OperatorNext
      <3>1. ASSUME ~OperatorAnnounce(o)
            PROVE  opc[o] \in {"running", "forwarding", "leaving"} /\ oagent'[o] = oagent[o]
        BY <1>3, <2>3, <3>1
           DEF OperatorNext, OperatorOpen, OperatorRefused, OperatorInsert,
               OperatorInsertFails, OperatorAnnounce, OperatorAnnounceFails, OperatorFrame,
               OperatorForward, OperatorForwardFails, OperatorSocketEnds, OperatorTryClose,
               OperatorRemove, OperatorOutboundSend, OperatorOutboundStop, OperatorHangup,
               operTask
      <3>2. QED
        BY <2>1, <2>2, <3>1
    <2>4. QED
      BY <1>3, <2>2, <2>3, StoreFrame, AgentFrameCondition DEF Next, vars, operVars, operTask
  <1>4. OpenPrecedesTraffic'
    BY <1>2 DEF OpenPrecedesTraffic, OpenFirst
  <1>5. QED
    BY <1>1, <1>3, <1>4 DEF Announced

\* An agent hears of a stream before it hears anything on it (OpenPrecedesTraffic):
\* for any number of operators that share its channel, and any capacity.
THEOREM StreamsAreAnnounced == Spec => []OpenPrecedesTraffic
  <1>1. Init => OpenInv
    BY DEF Init, OpenInv, OpenPrecedesTraffic, Announced, PeersUp
  <1>2. FullInv /\ TrafficInv /\ OpenInv /\ [Next]_vars => OpenInv'
    BY OpenStep
  <1>3. OpenInv => OpenPrecedesTraffic
    BY DEF OpenInv
  <1>4. QED
    BY <1>1, <1>2, <1>3, TrafficInvariant, PTL DEF Spec

-----------------------------------------------------------------------------
(* After the end of a stream.                                              *)

\* Data may follow nothing of the given kinds.
LEMMA NoDataAppend ==
    ASSUME NEW q \in Seq(Messages), NEW kinds, NoDataAfter(q, kinds), NEW m,
           m.kind = "StreamData" => \A n \in Held(q) : n.kind \notin kinds
    PROVE  NoDataAfter(Append(q, m), kinds)
  <1> DEFINE r == Append(q, m)
  <1> SUFFICES ASSUME NEW i \in DOMAIN r, NEW j \in DOMAIN r, i < j, r[i].kind \in kinds
               PROVE  r[j].kind # "StreamData"
    BY DEF NoDataAfter
  <1>1. i \in DOMAIN q /\ r[i] = q[i] /\ q[i] \in Held(q)
    BY DEF Held
  <1>2. CASE j \in DOMAIN q
    BY <1>1, <1>2 DEF NoDataAfter
  <1>3. CASE j = Len(q) + 1
    BY <1>1, <1>3
  <1>4. QED
    BY <1>2, <1>3

\* Taking the oldest message leaves the others' order.
LEMMA NoDataTail ==
    ASSUME NEW q \in Seq(Messages), q # <<>>, NEW kinds, NoDataAfter(q, kinds)
    PROVE  /\ NoDataAfter(Tail(q), kinds)
           /\ Head(q).kind \in kinds => \A m \in Held(Tail(q)) : m.kind # "StreamData"
  <1>1. \A i \in DOMAIN Tail(q) : i + 1 \in DOMAIN q /\ Tail(q)[i] = q[i + 1] /\ 1 < i + 1
    OBVIOUS
  <1>2. 1 \in DOMAIN q /\ Head(q) = q[1]
    OBVIOUS
  <1>3. ASSUME NEW i \in DOMAIN Tail(q), NEW j \in DOMAIN Tail(q), i < j,
               Tail(q)[i].kind \in kinds
        PROVE  Tail(q)[j].kind # "StreamData"
    <2>1. i + 1 \in DOMAIN q /\ j + 1 \in DOMAIN q /\ i + 1 < j + 1
      BY <1>1, <1>3
    <2>2. QED
      BY <1>1, <1>3, <2>1 DEF NoDataAfter
  <1>4. ASSUME Head(q).kind \in kinds, NEW i \in DOMAIN Tail(q)
        PROVE  Tail(q)[i].kind # "StreamData"
    BY <1>1, <1>2, <1>4 DEF NoDataAfter
  <1>5. QED
    BY <1>3, <1>4 DEF NoDataAfter, Held

\* The ways an operator's channel changes.
LEMMA OperatorChannelMoves ==
    ASSUME FullInv, TrafficInv, [Next]_vars, NEW o \in Operators
    PROVE  \/ oq'[o] = oq[o]
           \/ oq'[o] = <<>>
           \/ OperatorOutboundSend(o) /\ oq[o] # <<>> /\ oq'[o] = Tail(oq[o])
           \/ \E a \in Agents : /\ AgentForward(a) /\ ato[a] = o
                                /\ oq'[o] = Append(oq[o], aframe[a])
           \/ /\ \/ \E s \in Sessions : NotifyOperator(s, o)
                 \/ \E a \in Agents : /\ AgentClear(a) /\ status[asess[a]] = "live"
                                      /\ o \in OperatorsOf(streams[asess[a]])
              /\ oq'[o] = Append(oq[o], Msg("StreamError", osid[o]))
  <1> USE DEF FullInv, IndInv, TypeOK, AgentsOK, OperatorsOK, StoreOK, TrafficInv
  <1> DEFINE Takes == OperatorOutboundSend(o) /\ oq[o] # <<>> /\ oq'[o] = Tail(oq[o])
             Gets  == \E a \in Agents : /\ AgentForward(a) /\ ato[a] = o
                                        /\ oq'[o] = Append(oq[o], aframe[a])
             Ends  == /\ \/ \E s \in Sessions : NotifyOperator(s, o)
                         \/ \E a \in Agents : /\ AgentClear(a) /\ status[asess[a]] = "live"
                                              /\ o \in OperatorsOf(streams[asess[a]])
                      /\ oq'[o] = Append(oq[o], Msg("StreamError", osid[o]))
             Moves == oq'[o] = oq[o] \/ oq'[o] = <<>> \/ Takes \/ Gets \/ Ends
  <1>1. ASSUME StoreNext PROVE Moves
    <2>1. ASSUME NEW s \in Sessions, NEW p \in Operators, NotifyOperator(s, p)
          PROVE  oq'[o] = oq[o] \/ Ends
      BY <2>1 DEF NotifyOperator, Offer
    <2>2. QED
      BY <1>1, <2>1
         DEF StoreNext, CreateSession, Expire, EndSession, NotifyAgent, operVars, operChan
  <1>2. ASSUME AgentNext PROVE Moves
    <2>1. ASSUME NEW a \in Agents, AgentForward(a) PROVE oq'[o] = oq[o] \/ Gets
      BY <2>1 DEF AgentForward
    <2>2. ASSUME NEW a \in Agents, AgentClear(a) PROVE oq'[o] = oq[o] \/ Ends
      <3>1. CASE status[asess[a]] = "live" /\ o \in OperatorsOf(streams[asess[a]])
        <4>1. oq'[o] = Offer(oq[o], orx[o], Msg("StreamError", osid[o]))
          BY <2>2, <3>1 DEF AgentClear
        <4> HIDE DEF FullInv, IndInv, TypeOK, AgentsOK, OperatorsOK, StoreOK, TrafficInv
        <4>2. CASE oq'[o] = oq[o]
          BY <4>2
        <4>3. CASE oq'[o] = Append(oq[o], Msg("StreamError", osid[o]))
          BY <2>2, <3>1, <4>3
        <4>4. QED
          BY <4>1, <4>2, <4>3 DEF Offer
      <3>2. CASE ~(status[asess[a]] = "live" /\ o \in OperatorsOf(streams[asess[a]]))
        BY <2>2, <3>2 DEF AgentClear
      <3>3. QED
        BY <3>1, <3>2
    <2> HIDE DEF FullInv, IndInv, TypeOK, AgentsOK, OperatorsOK, StoreOK, TrafficInv, Gets, Ends, Takes
    <2>3. ASSUME NEW a \in Agents,
                 \/ \E s \in Sessions, offers \in SUBSET Targets :
                       AgentRegister(a, s, offers) \/ AgentReject(a, s, offers)
                 \/ AgentAttach(a) \/ AgentAttachFails(a)
                 \/ \E id \in StreamIds, kind \in FrameKinds :
                       AgentFrame(a, id, kind) \/ AgentFrameUnrouted(a, id, kind)
                 \/ AgentForwardFails(a)
          PROVE  oq'[o] = oq[o]
      BY <2>3
         DEF AgentRegister, AgentReject, AgentAttach, AgentAttachFails, AgentFrame,
             AgentFrameUnrouted, AgentForwardFails, operVars, operChan
    <2>4. ASSUME NEW a \in Agents,
                 \/ AgentRemove(a) \/ AgentSocketEnds(a) \/ AgentOutboundSend(a)
                 \/ AgentOutboundStop(a) \/ AgentHangup(a)
          PROVE  oq'[o] = oq[o]
      BY <2>4
         DEF AgentRemove, AgentSocketEnds, AgentOutboundSend, AgentOutboundStop,
             AgentHangup, operVars, operChan
    <2>5. QED
      BY <1>2, <2>1, <2>2, <2>3, <2>4 DEF AgentNext
  <1>3. ASSUME OperatorNext PROVE Moves
    <2>1. ASSUME NEW p \in Operators, OperatorOutboundSend(p) PROVE oq'[o] = oq[o] \/ Takes
      BY <2>1 DEF OperatorOutboundSend
    <2>2. ASSUME NEW p \in Operators, OperatorAnnounceFails(p) \/ OperatorOutboundStop(p)
          PROVE  oq'[o] = oq[o] \/ oq'[o] = <<>>
      BY <2>2 DEF OperatorAnnounceFails, OperatorOutboundStop
    <2>3. QED
      BY <1>3, <2>1, <2>2
         DEF OperatorNext, OperatorOpen, OperatorRefused, OperatorInsert,
             OperatorInsertFails, OperatorAnnounce, OperatorFrame, OperatorForward,
             OperatorForwardFails, OperatorSocketEnds, OperatorTryClose, OperatorRemove,
             OperatorHangup, operChan
  <1>4. Moves
    BY <1>1, <1>2, <1>3 DEF Next, vars, operVars, operChan
  <1>5. QED
    BY <1>4

\* After the end of a stream no step starts to send on it again.
LEMMA NoMoreKept ==
    ASSUME FullInv, TrafficInv, [Next]_vars, NEW o \in Operators, o \notin strays', NoMore(o)
    PROVE  NoMore(o)'
  <1> USE DEF FullInv, IndInv, TypeOK, AgentsOK, OperatorsOK, StoreOK, TrafficInv
  <1>1. osess'[o] = osess[o] /\ osid'[o] = osid[o]
    BY Fixed DEF NoMore
  <1>2. ASSUME NEW a \in Agents PROVE ato'[a] # o
    <2>1. ASSUME NEW id \in StreamIds, NEW kind \in FrameKinds, AgentFrame(a, id, kind)
          PROVE  ato'[a] # o
      <3>1. PICK p \in Receivers(id) :
               /\ ato' = [ato EXCEPT ![a] = p]
               /\ strays' = IF osess[p] = asess[a] THEN strays ELSE strays \cup {p}
        BY <2>1 DEF AgentFrame
      <3>2. ASSUME p = o PROVE FALSE
        <4>1. PICK s \in Sessions : streams[s][id] = o /\ o # None
          BY <3>1, <3>2, NoneAssumption DEF Receivers
        <4>2. PICK b \in Agents : apc[b] = "removing" /\ asess[b] = osess[o]
          BY <4>1 DEF NoMore
        <4>3. osess[o] # None
          BY <4>1, NoneAssumption DEF StreamTableConsistent
        <4>4. osess[o] = asess[a]
          BY <3>1, <3>2
        <4>5. a = b
          BY <4>2, <4>3, <4>4 DEF SingleUseCode
        <4>6. QED
          BY <2>1, <4>2, <4>5 DEF AgentFrame
      <3>3. QED
        BY <3>1, <3>2
    <2>2. ASSUME AgentNext, ~\E id \in StreamIds, kind \in FrameKinds : AgentFrame(a, id, kind)
          PROVE  ato'[a] = ato[a] \/ ato'[a] = None
      <3>1. ASSUME NEW b \in Agents, NEW id \in StreamIds, NEW kind \in FrameKinds,
                   AgentFrame(b, id, kind), b # a
            PROVE  ato'[a] = ato[a]
        BY <3>1 DEF AgentFrame
      <3>2. ASSUME NEW b \in Agents, AgentForward(b) \/ AgentForwardFails(b)
            PROVE  ato'[a] = ato[a] \/ ato'[a] = None
        BY <3>2 DEF AgentForward, AgentForwardFails
      <3>3. QED
        BY <2>2, <3>1, <3>2
           DEF AgentNext, AgentRegister, AgentReject, AgentAttach, AgentAttachFails,
             AgentFrameUnrouted, AgentRemove, AgentSocketEnds, AgentClear,
             AgentOutboundSend, AgentOutboundStop, AgentHangup, agentTask
    <2>3. o # None /\ ato[a] # o
      BY NoneAssumption DEF NoMore
    <2>4. QED
      BY <2>1, <2>2, <2>3, StoreFrame, OperatorFrameCondition
         DEF Next, vars, agentVars, agentTask
  <1>3. opc'[o] \notin {"idle", "checked"}
    <2>1. CASE OperatorNext
      BY <2>1 DEF OperatorNext, OperatorOpen, OperatorRefused, OperatorInsert,
             OperatorInsertFails, OperatorAnnounce, OperatorAnnounceFails, OperatorFrame,
             OperatorForward, OperatorForwardFails, OperatorSocketEnds, OperatorTryClose,
             OperatorRemove, OperatorOutboundSend, OperatorOutboundStop, OperatorHangup,
             operTask, NoMore
    <2>2. QED
      BY <2>1, StoreFrame, AgentFrameCondition DEF Next, vars, operVars, operTask, NoMore
  <1>4. ASSUME NEW s \in Sessions, NEW id \in StreamIds, streams'[s][id] = o
        PROVE  streams[s][id] = o
    <2>0. o # None
      BY NoneAssumption
    <2>1. ASSUME NEW p \in Operators, OperatorInsert(p) PROVE streams[s][id] = o
      <3>1. p # o
        BY <2>1 DEF OperatorInsert, NoMore
      <3>2. QED
        BY <1>4, <2>1, <3>1 DEF OperatorInsert
    <2>2. ASSUME NEW i \in StreamIds, streams' = WithoutStream(i) PROVE streams[s][id] = o
      BY <1>4, <2>0, <2>2 DEF WithoutStream
    <2>3. CASE AgentNext
      <3>1. ASSUME NEW a \in Agents, AgentRemove(a) PROVE streams[s][id] = o
        BY <2>2, <3>1 DEF AgentRemove, AgentTasks
      <3>2. ASSUME NEW a \in Agents, AgentClear(a) PROVE streams[s][id] = o
        <4>1. streams' = streams \/ streams' = [streams EXCEPT ![asess[a]] = NoStreams]
          BY <3>2 DEF AgentClear
        <4>2. QED
          <5>1. CASE streams' = streams \/ asess[a] # s
            BY <1>4, <4>1, <5>1
          <5>2. CASE asess[a] = s /\ streams' = [streams EXCEPT ![asess[a]] = NoStreams]
            <6>1. streams'[s] = NoStreams
              BY <5>2
            <6>2. QED
              BY <1>4, <2>0, <6>1 DEF NoStreams
          <5>3. QED
            BY <4>1, <5>1, <5>2
      <3>3. QED
        BY <1>4, <2>3, <3>1, <3>2
           DEF AgentNext, AgentRegister, AgentReject, AgentAttach, AgentAttachFails,
             AgentFrame, AgentFrameUnrouted, AgentForward, AgentForwardFails,
             AgentSocketEnds, AgentOutboundSend, AgentOutboundStop, AgentHangup, storeVars
    <2>4. CASE OperatorNext
      <3>1. ASSUME NEW p \in Operators, OperatorRemove(p) PROVE streams[s][id] = o
        <4>1. osid[p] \in StreamIds
          BY <3>1, NoneAssumption DEF OperatorRemove, OperatorTasks
        <4>2. QED
          BY <2>2, <3>1, <4>1 DEF OperatorRemove
      <3>2. QED
        BY <1>4, <2>1, <2>4, <3>1
           DEF OperatorNext, OperatorOpen, OperatorRefused,
             OperatorInsertFails, OperatorAnnounce, OperatorAnnounceFails, OperatorFrame,
             OperatorForward, OperatorForwardFails, OperatorSocketEnds, OperatorTryClose,
             OperatorOutboundSend, OperatorOutboundStop, OperatorHangup, storeVars
    <2>5. CASE StoreNext
      BY <1>4, <2>0, <2>5
         DEF StoreNext, CreateSession, Expire, EndSession, NotifyAgent, NotifyOperator,
             NoStreams, storeVars
    <2>6. QED
      BY <1>4, <2>3, <2>4, <2>5 DEF Next, vars, storeVars
  <1>5. \/ \A s \in Sessions, id \in StreamIds : streams'[s][id] # o
        \/ \E a \in Agents : /\ apc'[a] = "removing" /\ aframe'[a].stream = osid'[o]
                             /\ asess'[a] = osess'[o]
    <2>1. CASE \A s \in Sessions, id \in StreamIds : streams[s][id] # o
      BY <1>4, <2>1
    <2>2. ASSUME NEW a \in Agents, apc[a] = "removing", aframe[a].stream = osid[o],
                 ~(apc'[a] = "removing" /\ aframe'[a] = aframe[a])
          PROVE  \A s \in Sessions, id \in StreamIds : streams'[s][id] # o
      <3>1. AgentRemove(a)
        <4>1. AgentNext
          BY <2>2, StoreFrame, OperatorFrameCondition DEF Next, vars, agentVars, agentTask
        <4>2. ASSUME NEW b \in Agents,
                     \/ \E s \in Sessions, offers \in SUBSET Targets :
                          AgentRegister(b, s, offers) \/ AgentReject(b, s, offers)
                     \/ AgentAttach(b) \/ AgentAttachFails(b) \/ AgentSocketEnds(b)
                     \/ AgentClear(b) \/ AgentOutboundSend(b) \/ AgentOutboundStop(b)
                     \/ AgentHangup(b)
              PROVE  FALSE
          BY <2>2, <4>2
             DEF AgentRegister, AgentReject, AgentAttach, AgentAttachFails, AgentSocketEnds,
                 AgentClear, AgentOutboundSend, AgentOutboundStop, AgentHangup, agentTask
        <4>3. ASSUME NEW b \in Agents,
                     \/ \E i \in StreamIds, kind \in FrameKinds :
                          AgentFrame(b, i, kind) \/ AgentFrameUnrouted(b, i, kind)
                     \/ AgentForward(b) \/ AgentForwardFails(b)
                     \/ AgentRemove(b) /\ b # a
              PROVE  FALSE
          BY <2>2, <4>3
             DEF AgentFrame, AgentFrameUnrouted, AgentForward, AgentForwardFails, AgentRemove
        <4>4. QED
          BY <4>1, <4>2, <4>3 DEF AgentNext
      <3>2. streams' = WithoutStream(osid[o]) /\ osid[o] \in StreamIds
        BY <2>2, <3>1 DEF AgentRemove, AgentTasks
      <3>3. ASSUME NEW s \in Sessions, NEW id \in StreamIds, streams'[s][id] = o PROVE FALSE
        <4>1. streams[s][id] = o
          BY <1>4, <3>3
        <4>2. osid[o] = id /\ status[s] = "live"
          BY <4>1, NoneAssumption DEF StreamTableConsistent
        <4>3. streams'[s][id] = None
          BY <3>2, <4>2 DEF WithoutStream
        <4>4. QED
          BY <3>3, <4>3, NoneAssumption
      <3>4. QED
        BY <3>3
    <2>3. ASSUME NEW a \in Agents, apc[a] = "removing", aframe[a].stream = osid[o],
                 asess[a] = osess[o], apc'[a] = "removing", aframe'[a] = aframe[a]
          PROVE  asess'[a] = osess'[o]
      <3>1. asess[a] # None
        BY <2>3, NoneAssumption DEF AgentTasks, Serving
      <3>2. QED
        BY <1>1, <2>3, <3>1, Fixed
    <2>4. QED
      BY <1>1, <2>1, <2>2, <2>3 DEF NoMore
  <1>6. QED
    BY <1>2, <1>3, <1>5 DEF NoMore

\* The agent that forwards the end of a stream sends no more on it, and no other
\* agent does.
LEMMA ForwardEnds ==
    ASSUME FullInv, TrafficInv, [Next]_vars, NEW a \in Agents, AgentForward(a),
           aframe[a].kind # "StreamData", NEW o \in Operators, o \notin strays, ato[a] = o
    PROVE  NoMore(o)'
  <1> USE DEF FullInv, IndInv, TypeOK, AgentsOK, OperatorsOK, StoreOK, TrafficInv
  <1>1. /\ o # None
        /\ osess[o] = asess[a] /\ asess[a] # None /\ aframe[a].stream = osid[o]
    BY NoneAssumption DEF AgentForward, AgentTasks, AgentTraffic, Serving
  <1>2. opc[o] \notin {"idle", "checked"}
    BY <1>1 DEF AgentForward, ReceiverNeeded
  <1>3. /\ ato' = [ato EXCEPT ![a] = None] /\ aframe' = aframe
        /\ apc'[a] = "removing" /\ opc' = opc /\ osid' = osid
        /\ asess' = asess /\ osess' = osess
    BY DEF AgentForward, operTask
  <1>4. ASSUME NEW b \in Agents, ato'[b] = o PROVE FALSE
    <2>1. b # a /\ ato[b] = o
      BY <1>1, <1>3, <1>4
    <2>2. asess[b] = asess[a]
      BY <1>1, <2>1 DEF AgentTraffic
    <2>3. QED
      BY <1>1, <2>1, <2>2 DEF SingleUseCode
  <1>5. apc'[a] = "removing" /\ aframe'[a].stream = osid'[o] /\ asess'[a] = osess'[o]
    BY <1>1, <1>3
  <1>6. QED
    BY <1>2, <1>3, <1>4, <1>5 DEF NoMore

\* A step keeps sessions that are being closed out of the store.
LEMMA ClosingStep ==
    ASSUME FullInv, ClosingEnded, [Next]_vars PROVE ClosingEnded'
  <1> USE DEF FullInv, IndInv, TypeOK, StoreOK
  <1>1. CASE StoreNext
    BY <1>1 DEF StoreNext, CreateSession, Expire, EndSession, NotifyAgent, NotifyOperator,
                storeVars, closingVars, ClosingEnded
  <1>2. QED
    BY <1>1, AgentFrameCondition, OperatorFrameCondition
       DEF Next, vars, storeVars, closingVars, ClosingEnded

\* What each channel still holds after its agent has closed the stream.
LEMMA CloseOfStep ==
    ASSUME FullInv, TrafficInv, [Next]_vars,
           NEW o \in Operators, o \notin strays', CloseOf(o)
    PROVE  CloseOf(o)'
  <1> DEFINE K == {"StreamClose"}
  <1>. o \notin strays
    BY StraysGrow
  <1>0. oq[o] \in Seq(Messages) /\ oq'[o] \in Seq(Messages)
    BY NextInv DEF FullInv, IndInv, TypeOK, OperatorsOK
  <1>1. ASSUME NEW m \in Held(oq[o]), m.kind = "StreamClose" PROVE NoMore(o) /\ NoMore(o)'
    BY <1>1, NoMoreKept DEF CloseOf
  <1>2. NoDataAfter(oq[o], K)
    BY DEF CloseOf
  <1> DEFINE Closed == \A m \in Held(oq'[o]) : m.kind = "StreamClose" => NoMore(o)'
             Kept   == Closed /\ NoDataAfter(oq'[o], K)
  <1>4. ASSUME oq'[o] = <<>> PROVE Kept
    <2>1. Held(oq'[o]) = {} /\ DOMAIN oq'[o] = {}
      BY <1>4, HeldEmpty
    <2>2. QED
      BY <2>1 DEF NoDataAfter
  <1>5. ASSUME oq[o] # <<>>, oq'[o] = Tail(oq[o]) PROVE Kept
    <2>1. Held(oq'[o]) \subseteq Held(oq[o]) /\ NoDataAfter(oq'[o], K)
      BY <1>0, <1>2, <1>5, HeldTail, NoDataTail
    <2>2. QED
      BY <1>1, <2>1
  <1>6. ASSUME NEW a \in Agents, AgentForward(a), ato[a] = o,
               oq'[o] = Append(oq[o], aframe[a])
        PROVE  Kept
    <2>1. Held(oq'[o]) = Held(oq[o]) \cup {aframe[a]}
      BY <1>0, <1>6, HeldAppend
    <2>2. \A m \in Held(oq[o]) : m.kind \notin K
      BY <1>1, <1>6 DEF NoMore
    <2>3. NoDataAfter(oq'[o], K)
      BY <1>0, <1>2, <1>6, <2>2, NoDataAppend
    <2>4. aframe[a].kind = "StreamClose" => NoMore(o)'
      BY <1>6, ForwardEnds
    <2>5. QED
      BY <2>1, <2>2, <2>3, <2>4
  <1>7. ASSUME oq'[o] = Append(oq[o], Msg("StreamError", osid[o])) PROVE Kept
    <2>1. Msg("StreamError", osid[o]).kind = "StreamError"
      BY DEF Msg
    <2>2. Held(oq'[o]) = Held(oq[o]) \cup {Msg("StreamError", osid[o])}
      BY <1>0, <1>7, HeldAppend
    <2>3. NoDataAfter(oq'[o], K)
      BY <1>0, <1>2, <1>7, <2>1, NoDataAppend
    <2>4. QED
      BY <1>1, <2>1, <2>2, <2>3
  <1>8. ASSUME oq'[o] = oq[o] PROVE Kept
    BY <1>1, <1>2, <1>8
  <1>9. Kept
    BY <1>4, <1>5, <1>6, <1>7, <1>8, OperatorChannelMoves
  <1>10. (\E m \in Held(oq[o])' : m.kind = "StreamClose") => NoMore(o)'
    BY <1>9 DEF Held
  <1>11. QED
    BY <1>9, <1>10 DEF CloseOf, NoDataAfter

\* Only an attached agent stays attached: slots are filled once.
LEMMA AttachedBefore ==
    ASSUME FullInv, TrafficInv, [Next]_vars, NEW o \in Operators,
           oagent[o] # None, Attached(o)'
    PROVE  /\ Attached(o)
           /\ osess[o] \in Sessions /\ osess'[o] = osess[o] /\ slot'[osess[o]] = slot[osess[o]]
  <1> USE DEF FullInv, IndInv, TypeOK, AgentsOK, OperatorsOK, StoreOK, TrafficInv
  <1>1. /\ osess[o] \in Sessions /\ osess[o] # None
        /\ oagent[o] \in Agents /\ asess[oagent[o]] = osess[o]
    BY NoneAssumption DEF OperatorTraffic
  <1>2. osess'[o] = osess[o]
    BY <1>1, Fixed
  <1>3. oagent'[o] # None /\ slot'[osess[o]] = oagent'[o]
    BY <1>2 DEF Attached
  <1>4. oagent'[o] = oagent[o]
    <2>1. opc[o] # "idle"
      BY <1>1 DEF OperatorTasks
    <2>2. CASE OperatorNext
      BY <1>3, <2>1, <2>2
         DEF OperatorNext, OperatorOpen, OperatorRefused, OperatorInsert,
             OperatorInsertFails, OperatorAnnounce, OperatorAnnounceFails, OperatorFrame,
             OperatorForward, OperatorForwardFails, OperatorSocketEnds, OperatorTryClose,
             OperatorRemove, OperatorOutboundSend, OperatorOutboundStop, OperatorHangup,
             operTask
    <2>3. QED
      BY <2>2, StoreFrame, AgentFrameCondition DEF Next, vars, operVars, operTask
  <1>5. slot'[osess[o]] = slot[osess[o]]
    <2>1. ASSUME NEW a \in Agents, AgentAttach(a) PROVE slot'[osess[o]] = slot[osess[o]]
      <3>1. apc[oagent[o]] # "registered"
        BY <1>1, NoneAssumption, SenderAttached
      <3>2. asess[a] # osess[o]
        BY <1>1, <2>1, <3>1 DEF AgentAttach, SingleUseCode
      <3>3. QED
        BY <2>1, <3>2 DEF AgentAttach
    <2>2. ASSUME NEW a \in Agents, AgentClear(a) PROVE slot'[osess[o]] = slot[osess[o]]
      <3>1. slot' = slot \/ slot' = [slot EXCEPT ![asess[a]] = None]
        BY <2>2 DEF AgentClear
      <3>2. QED
        BY <1>1, <1>3, <3>1
    <2>3. ASSUME AgentNext PROVE slot'[osess[o]] = slot[osess[o]]
      BY <2>1, <2>2, <2>3
         DEF AgentNext, AgentRegister, AgentReject, AgentAttachFails, AgentFrame,
             AgentFrameUnrouted, AgentForward, AgentForwardFails, AgentRemove,
             AgentSocketEnds, AgentOutboundSend, AgentOutboundStop, AgentHangup, storeVars
    <2>4. ASSUME StoreNext PROVE slot'[osess[o]] = slot[osess[o]]
      BY <1>1, <1>3, <2>4
         DEF StoreNext, CreateSession, Expire, EndSession, NotifyAgent, NotifyOperator,
             storeVars
    <2>5. QED
      BY <2>3, <2>4, OperatorFrameCondition DEF Next, vars, storeVars
  <1>6. QED
    BY <1>1, <1>2, <1>3, <1>4, <1>5 DEF Attached

\* What an operator of an attached agent still gets once it has been told, or will be.
LEMMA EndOfStep ==
    ASSUME FullInv, TrafficInv, ClosingEnded, [Next]_vars,
           NEW o \in Operators, o \notin strays', EndOf(o)
    PROVE  EndOf(o)'
  <1>. o \notin strays
    BY StraysGrow
  <1> SUFFICES ASSUME Attached(o)'
      PROVE  /\ opeer'[o] = "told" \/ (\E m \in Held(oq'[o]) : m.kind \in EndKinds) => NoMore(o)'
             /\ NoDataAfter(oq'[o], EndKinds)
             /\ opeer'[o] = "told" => \A m \in Held(oq'[o]) : m.kind # "StreamData"
    BY DEF EndOf, Held, NoDataAfter, EndKinds
  <1>0. oq[o] \in Seq(Messages) /\ oq'[o] \in Seq(Messages)
    BY NextInv DEF FullInv, IndInv, TypeOK, OperatorsOK
  <1> DEFINE Told == opeer'[o] = "told" \/ \E m \in Held(oq'[o]) : m.kind \in EndKinds
             Kept == /\ Told => NoMore(o)'
                     /\ NoDataAfter(oq'[o], EndKinds)
                     /\ opeer'[o] = "told" => \A m \in Held(oq'[o]) : m.kind # "StreamData"
  <1>1. ASSUME oagent[o] = None PROVE Kept
    <2>1. opc'[o] = "checked"
      <3>1. oagent'[o] # None
        BY DEF Attached
      <3>2. CASE OperatorNext
        BY <1>1, <3>1, <3>2
           DEF OperatorNext, OperatorOpen, OperatorRefused, OperatorInsert,
             OperatorInsertFails, OperatorAnnounce, OperatorAnnounceFails, OperatorFrame,
             OperatorForward, OperatorForwardFails, OperatorSocketEnds, OperatorTryClose,
             OperatorRemove, OperatorOutboundSend, OperatorOutboundStop, OperatorHangup,
             operTask, FullInv, IndInv, TypeOK, OperatorsOK
      <3>3. QED
        BY <1>1, <3>1, <3>2, StoreFrame, AgentFrameCondition DEF Next, vars, operVars, operTask
    <2>2. oq'[o] = <<>> /\ opeer'[o] # "told"
      BY <2>1, OperatorTrafficStep DEF ReceiverNeeded
    <2>3. Held(oq'[o]) = {} /\ DOMAIN oq'[o] = {}
      BY <2>2, HeldEmpty
    <2>4. QED
      BY <2>2, <2>3 DEF NoDataAfter
  <1>2. ASSUME oagent[o] # None PROVE Kept
    <2>1. /\ Attached(o) /\ osess[o] \in Sessions
          /\ osess'[o] = osess[o] /\ slot'[osess[o]] = slot[osess[o]] /\ slot[osess[o]] # None
      BY <1>2, AttachedBefore DEF Attached
    <2>2. /\ opeer[o] = "told" \/ (\E m \in Held(oq[o]) : m.kind \in EndKinds)
               => NoMore(o) /\ NoMore(o)'
          /\ NoDataAfter(oq[o], EndKinds)
          /\ opeer[o] = "told" => \A m \in Held(oq[o]) : m.kind # "StreamData"
      BY <2>1, NoMoreKept DEF EndOf
    <2>3. opeer'[o] = "told" => opeer[o] = "told" \/ OperatorOutboundSend(o)
      <3>1. CASE OperatorNext
        BY <3>1
           DEF OperatorNext, OperatorOpen, OperatorRefused, OperatorInsert,
             OperatorInsertFails, OperatorAnnounce, OperatorAnnounceFails, OperatorFrame,
             OperatorForward, OperatorForwardFails, OperatorSocketEnds, OperatorTryClose,
             OperatorRemove, OperatorOutboundSend, OperatorOutboundStop, OperatorHangup,
             FullInv, IndInv, TypeOK, OperatorsOK
      <3>2. QED
        BY <3>1, StoreFrame, AgentFrameCondition DEF Next, vars, operVars
    <2>4. ASSUME OperatorOutboundSend(o) PROVE Kept
      <3>1. oq[o] # <<>> /\ oq'[o] = Tail(oq[o])
        BY <2>4 DEF OperatorOutboundSend, FullInv, IndInv, TypeOK, OperatorsOK
      <3>2. /\ Held(oq'[o]) \subseteq Held(oq[o]) /\ Head(oq[o]) \in Held(oq[o])
            /\ NoDataAfter(oq'[o], EndKinds)
            /\ Head(oq[o]).kind \in EndKinds => \A m \in Held(oq'[o]) : m.kind # "StreamData"
        BY <1>0, <2>2, <3>1, HeldTail, NoDataTail
      <3>3. Head(oq[o]) \in Messages
        BY <1>0, <3>1
      <3>4. opeer'[o] = "told" => opeer[o] = "told" \/ Head(oq[o]).kind \in EndKinds
        BY <2>4, <3>3
           DEF OperatorOutboundSend, FullInv, IndInv, TypeOK, OperatorsOK, EndKinds
      <3>5. QED
        BY <2>2, <3>2, <3>4
    <2>5. ASSUME ~OperatorOutboundSend(o), oq'[o] = oq[o] PROVE Kept
      BY <2>2, <2>3, <2>5
    <2>6. ASSUME ~OperatorOutboundSend(o), oq'[o] = <<>> PROVE Kept
      <3>1. Held(oq'[o]) = {} /\ DOMAIN oq'[o] = {}
        BY <2>6, HeldEmpty
      <3>2. QED
        BY <2>2, <2>3, <2>6, <3>1 DEF NoDataAfter
    <2>7. ASSUME ~OperatorOutboundSend(o), NEW a \in Agents, AgentForward(a), ato[a] = o,
                 oq'[o] = Append(oq[o], aframe[a])
          PROVE  Kept
      <3>1. Held(oq'[o]) = Held(oq[o]) \cup {aframe[a]}
        BY <1>0, <2>7, HeldAppend
      <3>2. opeer[o] # "told" /\ \A m \in Held(oq[o]) : m.kind \notin EndKinds
        BY <2>2, <2>7 DEF NoMore
      <3>3. NoDataAfter(oq'[o], EndKinds)
        BY <1>0, <2>2, <2>7, <3>2, NoDataAppend
      <3>4. aframe[a].kind \in EndKinds => NoMore(o)'
        BY <2>7, ForwardEnds DEF EndKinds
      <3>5. QED
        BY <2>3, <2>7, <3>1, <3>2, <3>3, <3>4
    <2>8. ASSUME NEW s \in Sessions, NotifyOperator(s, o) PROVE FALSE
      <3>1. osess[o] = s /\ status[s] = "ended"
        BY <2>8 DEF NotifyOperator, ClosingEnded, FullInv, IndInv, OperatorTasks
      <3>2. QED
        BY <2>1, <3>1 DEF FullInv, IndInv, SlotBelongsToServingTask
    <2>9. ASSUME NEW a \in Agents, AgentClear(a), status[asess[a]] = "live",
                 o \in OperatorsOf(streams[asess[a]])
          PROVE  FALSE
      <3>1. asess[a] \in Sessions
        BY <2>9 DEF AgentClear, FullInv, IndInv, AgentTasks, Serving
      <3>2. asess[a] = osess[o]
        BY <2>9, <3>1, NoneAssumption
           DEF OperatorsOf, FullInv, IndInv, StreamTableConsistent
      <3>3. slot' = [slot EXCEPT ![asess[a]] = None]
        BY <2>9 DEF AgentClear
      <3>4. slot'[osess[o]] = None
        BY <3>1, <3>2, <3>3 DEF FullInv, IndInv, TypeOK, StoreOK
      <3>5. QED
        BY <2>1, <3>4
    <2>10. QED
      BY <2>4, <2>5, <2>6, <2>7, <2>8, <2>9, OperatorChannelMoves
  <1>3. QED
    BY <1>1, <1>2

\* Nothing is sent on a stream after the end its agent has sent (NoDataAfterClose),
\* in every interleaving of agents, operators and sessions that end: to every
\* operator whose stream no agent of another session has named.
THEOREM NothingAfterTheEnd == Spec => []NoDataAfterClose
  <1>1. Init => CloseInv
    BY HeldEmpty
       DEF Init, CloseInv, ClosingEnded, CloseOf, EndOf, NoDataAfter, NoMore, Attached
  <1>2. FullInv /\ TrafficInv /\ CloseInv /\ [Next]_vars => CloseInv'
    BY StraysGrow, ClosingStep, CloseOfStep, EndOfStep DEF CloseInv
  <1>3. CloseInv => NoDataAfterClose
    BY DEF CloseInv, CloseOf, EndOf, NoDataAfter, NoDataAfterClose, Attached, Held
  <1>4. QED
    BY <1>1, <1>2, <1>3, TrafficInvariant, PTL DEF Spec
===============================================================================
