----------------------------- MODULE RelayProofs -----------------------------
(***************************************************************************)
(* Theorems about Relay, for every value of its constants.                 *)
(***************************************************************************)
EXTENDS RelayRefinement, TLAPS

-----------------------------------------------------------------------------
(* The inductive invariant.  TypeOK says what values the variables hold;    *)
(* AgentTasks and OperatorTasks say which of a task's fields are set at     *)
(* each place, and what its place means for the session store.              *)

AgentTasks ==
    \A a \in Agents :
        /\ apc[a] = "idle" => asess[a] = None
        /\ apc[a] \in Serving \cup {"registered"} => asess[a] \in Sessions
        /\ apc[a] = "sending" => ato[a] \in Operators
        /\ apc[a] \in {"sending", "removing"} =>
             aframe[a] \in Messages /\ aframe[a].stream \in StreamIds
        /\ asess[a] # None =>
             /\ status[asess[a]] # "absent"
             /\ status[asess[a]] = "live" => consumed[asess[a]]
             /\ status[asess[a]] = "live" /\ apc[a] \in Serving =>
                  slot[asess[a]] = a

OperatorTasks ==
    \A o \in Operators :
        /\ opc[o] = "idle" => osess[o] = None
        /\ opc[o] \notin {"idle", "done"} =>
             osess[o] \in Sessions
        /\ opc[o] \notin {"idle", "failed", "done"} => oagent[o] \in Agents
        /\ opc[o] = "forwarding" => oframe[o] \in Messages
        /\ osess[o] # None =>
             status[osess[o]] # "absent" /\ osid[o] \in StreamIds
        /\ \A s \in Sessions : o \in closingStreams[s] => osess[o] = s

IndInv ==
    /\ TypeOK
    /\ AgentTasks
    /\ OperatorTasks
    /\ SingleUseCode
    /\ SlotBelongsToServingTask
    /\ StreamTableConsistent

-----------------------------------------------------------------------------
(* Messages and channels.                                                   *)

\* A message of a stream's kind about a stream is well formed, and so are the
\* two about the whole session.
LEMMA MsgType ==
    /\ \A kind \in StreamKinds \cup {"OpenStream"}, id \in StreamIds :
          Msg(kind, id) \in Messages
    /\ Msg("Error", 0) \in Messages
    /\ Msg("AgentReady", 0) \in Messages
  BY DEF Msg, Messages

\* An unacknowledged try_send keeps a channel well typed and within its bound.
LEMMA OfferType ==
    ASSUME NEW q \in Seq(Messages), Len(q) <= Capacity, NEW alive \in BOOLEAN,
           NEW m \in Messages
    PROVE  /\ Offer(q, alive, m) \in Seq(Messages)
           /\ Len(Offer(q, alive, m)) <= Capacity
  BY CapacityAssumption DEF Offer

\* An awaited send appends only where there is room.
LEMMA AppendType ==
    ASSUME NEW q \in Seq(Messages), Len(q) < Capacity, NEW m \in Messages
    PROVE  /\ Append(q, m) \in Seq(Messages)
           /\ Len(Append(q, m)) <= Capacity
  BY CapacityAssumption

\* The outbound task takes the oldest message.
LEMMA TailType ==
    ASSUME NEW q \in Seq(Messages), q # <<>>, Len(q) <= Capacity
    PROVE  /\ Tail(q) \in Seq(Messages)
           /\ Len(Tail(q)) <= Capacity
           /\ Head(q) \in Messages
  BY CapacityAssumption

\* Initially every channel is empty and no task has started.
LEMMA InitInv == Init => IndInv
  <1> SUFFICES ASSUME Init PROVE IndInv
    OBVIOUS
  <1>1. StoreOK
    BY MaxStreamsAssumption DEF Init, StoreOK, NoStreams
  <1>2. AgentsOK
    BY DEF Init, AgentsOK, AgentPc, PeerStates
  <1>3. OperatorsOK
    BY MaxStreamsAssumption DEF Init, OperatorsOK, OperPc, PeerStates
  <1>4. ChannelsBounded
    BY CapacityAssumption DEF Init, ChannelsBounded
  <1>5. AgentTasks /\ SingleUseCode /\ SlotBelongsToServingTask
    BY DEF Init, AgentTasks, SingleUseCode, SlotBelongsToServingTask, Serving
  <1>6. OperatorTasks /\ StreamTableConsistent
    BY DEF Init, OperatorTasks, StreamTableConsistent, NoStreams
  <1>7. QED
    BY <1>1, <1>2, <1>3, <1>4, <1>5, <1>6 DEF IndInv, TypeOK

-----------------------------------------------------------------------------
(* Type correctness, one component's actions at a time.                     *)

\* The steps of the HTTP API keep every variable's type.
LEMMA StoreStepTypeOK ==
    ASSUME IndInv, StoreNext PROVE TypeOK'
  <1> USE DEF IndInv, TypeOK, StoreOK, AgentsOK, OperatorsOK, ChannelsBounded,
              storeVars, closingVars, agentVars, agentTask, agentChan, agentPeer,
              operVars, operTask, operChan
  <1>1. ASSUME NEW s \in Sessions, CreateSession(s) PROVE TypeOK'
    BY <1>1 DEF CreateSession
  <1>2. ASSUME NEW s \in Sessions, Expire(s) PROVE TypeOK'
    BY <1>2 DEF Expire
  <1>3. ASSUME NEW s \in Sessions, EndSession(s) PROVE TypeOK'
    BY <1>3 DEF EndSession, NoStreams, OperatorsOf
  <1>4. ASSUME NEW s \in Sessions, NotifyAgent(s) PROVE TypeOK'
    <2> DEFINE a == closingAgent[s]
    <2>1. a \in Agents
      BY <1>4 DEF NotifyAgent
    <2>2. /\ aq' \in [Agents -> Seq(Messages)]
          /\ \A b \in Agents : Len(aq'[b]) <= Capacity
      BY <1>4, <2>1, OfferType, MsgType DEF NotifyAgent
    <2>3. QED
      BY <1>4, <2>2 DEF NotifyAgent
  <1>5. ASSUME NEW s \in Sessions, NEW o \in Operators, NotifyOperator(s, o)
        PROVE TypeOK'
    <2>1. osid[o] \in StreamIds
      BY <1>5, NoneAssumption DEF NotifyOperator, OperatorTasks
    <2>2. Msg("StreamError", osid[o]) \in Messages
      BY <2>1, MsgType DEF StreamKinds
    <2>3. /\ oq' \in [Operators -> Seq(Messages)]
          /\ \A p \in Operators : Len(oq'[p]) <= Capacity
      BY <1>5, <2>2, OfferType DEF NotifyOperator
    <2>4. QED
      BY <1>5, <2>3 DEF NotifyOperator
  <1>6. QED
    BY <1>1, <1>2, <1>3, <1>4, <1>5 DEF StoreNext

\* The steps of the agent connections keep every variable's type.
LEMMA AgentStepTypeOK ==
    ASSUME IndInv, AgentNext PROVE TypeOK'
  <1> USE DEF IndInv, TypeOK, StoreOK, AgentsOK, OperatorsOK, ChannelsBounded,
              storeVars, closingVars, agentVars, agentTask, agentChan, agentPeer,
              operVars, operTask, operChan, AgentPc, PeerStates
  <1>1. ASSUME NEW a \in Agents, NEW s \in Sessions, NEW offers \in SUBSET Targets,
               AgentRegister(a, s, offers)
        PROVE TypeOK'
    BY <1>1 DEF AgentRegister
  <1>2. ASSUME NEW a \in Agents, NEW s \in Sessions, NEW offers \in SUBSET Targets,
               AgentReject(a, s, offers)
        PROVE TypeOK'
    BY <1>2 DEF AgentReject
  <1>3. ASSUME NEW a \in Agents, AgentAttach(a) PROVE TypeOK'
    <2>1. /\ <<Msg("AgentReady", 0)>> \in Seq(Messages)
          /\ Len(<<Msg("AgentReady", 0)>>) <= Capacity
      BY MsgType, CapacityAssumption
    <2>2. /\ aq' \in [Agents -> Seq(Messages)]
          /\ \A b \in Agents : Len(aq'[b]) <= Capacity
      BY <1>3, <2>1 DEF AgentAttach
    <2>3. QED
      BY <1>3, <2>2 DEF AgentAttach
  <1>4. ASSUME NEW a \in Agents, AgentAttachFails(a) PROVE TypeOK'
    BY <1>4 DEF AgentAttachFails
  <1>5. ASSUME NEW a \in Agents, NEW id \in StreamIds, NEW kind \in FrameKinds,
               AgentFrame(a, id, kind)
        PROVE TypeOK'
    <2>1. Msg(kind, id) \in Messages
      BY MsgType, FrameKindsAssumption
    <2>2. ato' \in [Agents -> Operators \cup {None}] /\ strays' \subseteq Operators
      <3>1. PICK o \in Receivers(id) :
               /\ ato' = [ato EXCEPT ![a] = o]
               /\ strays' = IF osess[o] = asess[a] THEN strays ELSE strays \cup {o}
        BY <1>5 DEF AgentFrame
      <3>2. o \in Operators
        BY <3>1 DEF Receivers
      <3>3. QED
        BY <3>1, <3>2
    <2>3. QED
      BY <1>5, <2>1, <2>2 DEF AgentFrame
  <1>6. ASSUME NEW a \in Agents, NEW id \in StreamIds, NEW kind \in FrameKinds,
               AgentFrameUnrouted(a, id, kind)
        PROVE TypeOK'
    <2>1. Msg(kind, id) \in Messages
      BY MsgType, FrameKindsAssumption
    <2>2. QED
      BY <1>6, <2>1 DEF AgentFrameUnrouted
  <1>7. ASSUME NEW a \in Agents, AgentForward(a) PROVE TypeOK'
    <2>1. ato[a] \in Operators /\ aframe[a] \in Messages
      BY <1>7 DEF AgentForward, AgentTasks
    <2>2. /\ oq' \in [Operators -> Seq(Messages)]
          /\ \A o \in Operators : Len(oq'[o]) <= Capacity
      BY <1>7, <2>1, AppendType DEF AgentForward
    <2>3. /\ apc' \in [Agents -> AgentPc]
          /\ aframe' \in [Agents -> Messages \cup {None}]
          /\ ato' \in [Agents -> Operators \cup {None}]
      <3>1. ato' \in [Agents -> Operators \cup {None}]
        BY <1>7 DEF AgentForward
      <3>2. \/ apc' = [apc EXCEPT ![a] = "running"]
            \/ apc' = [apc EXCEPT ![a] = "removing"]
        BY <1>7 DEF AgentForward
      <3>3. \/ aframe' = [aframe EXCEPT ![a] = None]
            \/ aframe' = aframe
        BY <1>7 DEF AgentForward
      <3>4. apc' \in [Agents -> AgentPc]
        BY <3>2
      <3>5. aframe' \in [Agents -> Messages \cup {None}]
        BY <3>3
      <3>6. QED
        BY <3>1, <3>4, <3>5
    <2>4. UNCHANGED <<storeVars, closingVars, asess, agentChan, agentPeer, operTask,
                      orx, opeer>>
      BY <1>7 DEF AgentForward
    <2>5. StoreOK'
      BY <2>4 DEF storeVars, closingVars
    <2>6. AgentsOK' /\ OperatorsOK'
      BY <2>2, <2>3, <2>4
    <2>7. QED
      BY <2>2, <2>4, <2>5, <2>6
  <1>8. ASSUME NEW a \in Agents, AgentForwardFails(a) PROVE TypeOK'
    BY <1>8 DEF AgentForwardFails
  <1>9. ASSUME NEW a \in Agents, AgentRemove(a) PROVE TypeOK'
    BY <1>9 DEF AgentRemove, WithoutStream
  <1>10. ASSUME NEW a \in Agents, AgentSocketEnds(a) PROVE TypeOK'
    BY <1>10 DEF AgentSocketEnds
  <1>11. ASSUME NEW a \in Agents, AgentClear(a) PROVE TypeOK'
    <2> DEFINE s == asess[a]
               cut == OperatorsOf(streams[s])
    <2>1. CASE status[s] # "live"
      BY <1>11, <2>1 DEF AgentClear
    <2>2. CASE status[s] = "live"
      <3>1. s \in Sessions
        BY <1>11 DEF AgentClear, AgentTasks, Serving
      <3>2. \A o \in cut : o \in Operators /\ osid[o] \in StreamIds
        BY <3>1 DEF OperatorsOf, StreamTableConsistent
      <3>3. \A o \in cut : Msg("StreamError", osid[o]) \in Messages
        BY <3>2, MsgType DEF StreamKinds
      <3>4. oq' = [o \in Operators |->
                     IF o \in cut
                       THEN Offer(oq[o], orx[o], Msg("StreamError", osid[o]))
                       ELSE oq[o]]
        BY <1>11, <2>2 DEF AgentClear
      <3>5. /\ oq' \in [Operators -> Seq(Messages)]
            /\ \A o \in Operators : Len(oq'[o]) <= Capacity
        BY <3>3, <3>4, OfferType
      <3>6. /\ slot' \in [Sessions -> Agents \cup {None}]
            /\ streams' = [streams EXCEPT ![s] = NoStreams]
        BY <1>11, <2>2 DEF AgentClear
      <3>7. streams' \in [Sessions -> [StreamIds -> Operators \cup {None}]]
        BY <3>6 DEF NoStreams
      <3>8. QED
        BY <1>11, <3>5, <3>6, <3>7 DEF AgentClear
    <2>3. QED
      BY <2>1, <2>2
  <1>12. ASSUME NEW a \in Agents, AgentOutboundSend(a) PROVE TypeOK'
    <2>1. /\ aq' \in [Agents -> Seq(Messages)]
          /\ \A b \in Agents : Len(aq'[b]) <= Capacity
      BY <1>12, TailType DEF AgentOutboundSend
    <2>2. Head(aq[a]) \in Messages
      BY <1>12, TailType DEF AgentOutboundSend
    <2>3. known' \in [Agents -> SUBSET StreamIds]
      BY <1>12, <2>2 DEF AgentOutboundSend, Messages, StreamKinds
    <2>4. QED
      BY <1>12, <2>1, <2>3 DEF AgentOutboundSend
  <1>13. ASSUME NEW a \in Agents, AgentOutboundStop(a) PROVE TypeOK'
    BY <1>13, CapacityAssumption DEF AgentOutboundStop
  <1>14. ASSUME NEW a \in Agents, AgentHangup(a) PROVE TypeOK'
    BY <1>14 DEF AgentHangup
  <1>15. QED
    BY <1>1, <1>2, <1>3, <1>4, <1>5, <1>6, <1>7, <1>8, <1>9, <1>10, <1>11,
       <1>12, <1>13, <1>14 DEF AgentNext

\* The steps of the operator connections keep every variable's type.
LEMMA OperatorStepTypeOK ==
    ASSUME IndInv, OperatorNext PROVE TypeOK'
  <1> USE DEF IndInv, TypeOK, StoreOK, AgentsOK, OperatorsOK, ChannelsBounded,
              storeVars, closingVars, agentVars, agentTask, agentChan, agentPeer,
              operVars, operTask, operChan, OperPc, PeerStates
  <1>1. ASSUME NEW o \in Operators, NEW s \in Sessions, NEW target \in Targets,
               OperatorOpen(o, s, target)
        PROVE TypeOK'
    BY <1>1, MaxStreamsAssumption DEF OperatorOpen, DrawStream, StreamIds, MayOpen
  <1>2. ASSUME NEW o \in Operators, NEW s \in Sessions, NEW target \in Targets,
               OperatorRefused(o, s, target)
        PROVE TypeOK'
    BY <1>2, MaxStreamsAssumption DEF OperatorRefused, DrawStream, StreamIds
  <1>3. ASSUME NEW o \in Operators, OperatorInsert(o) PROVE TypeOK'
    BY <1>3 DEF OperatorInsert
  <1>4. ASSUME NEW o \in Operators, OperatorInsertFails(o) PROVE TypeOK'
    BY <1>4 DEF OperatorInsertFails
  <1>5. ASSUME NEW o \in Operators, opc[o] \notin {"idle", "failed", "done"}
        PROVE  /\ oagent[o] \in Agents /\ osid[o] \in StreamIds
               /\ \A kind \in StreamKinds \cup {"OpenStream"} :
                     Msg(kind, osid[o]) \in Messages
    <2>1. oagent[o] \in Agents /\ osess[o] \in Sessions
      BY <1>5 DEF OperatorTasks
    <2>2. osid[o] \in StreamIds
      BY <2>1, NoneAssumption DEF OperatorTasks
    <2>3. QED
      BY <2>1, <2>2, MsgType
  <1>6. ASSUME NEW o \in Operators, OperatorAnnounce(o) PROVE TypeOK'
    <2>1. oagent[o] \in Agents /\ Msg("OpenStream", osid[o]) \in Messages
      BY <1>5, <1>6 DEF OperatorAnnounce
    <2>2. /\ aq' \in [Agents -> Seq(Messages)]
          /\ \A b \in Agents : Len(aq'[b]) <= Capacity
      BY <1>6, <2>1, AppendType DEF OperatorAnnounce, HasRoom
    <2>3. QED
      BY <1>6, <2>2 DEF OperatorAnnounce
  <1>7. ASSUME NEW o \in Operators, OperatorAnnounceFails(o) PROVE TypeOK'
    BY <1>7, CapacityAssumption DEF OperatorAnnounceFails
  <1>8. ASSUME NEW o \in Operators, NEW kind \in FrameKinds, OperatorFrame(o, kind)
        PROVE TypeOK'
    <2>1. Msg(kind, osid[o]) \in Messages
      BY <1>5, <1>8, FrameKindsAssumption DEF OperatorFrame
    <2>2. QED
      BY <1>8, <2>1 DEF OperatorFrame
  <1>9. ASSUME NEW o \in Operators, OperatorForward(o) PROVE TypeOK'
    <2>1. oagent[o] \in Agents /\ oframe[o] \in Messages
      BY <1>5, <1>9 DEF OperatorForward, OperatorTasks
    <2>2. /\ aq' \in [Agents -> Seq(Messages)]
          /\ \A b \in Agents : Len(aq'[b]) <= Capacity
      BY <1>9, <2>1, AppendType DEF OperatorForward, HasRoom
    <2>3. QED
      BY <1>9, <2>2 DEF OperatorForward
  <1>10. ASSUME NEW o \in Operators, OperatorForwardFails(o) PROVE TypeOK'
    BY <1>10 DEF OperatorForwardFails
  <1>11. ASSUME NEW o \in Operators, OperatorSocketEnds(o) PROVE TypeOK'
    BY <1>11 DEF OperatorSocketEnds
  <1>12. ASSUME NEW o \in Operators, OperatorTryClose(o) PROVE TypeOK'
    <2>1. oagent[o] \in Agents /\ Msg("StreamClose", osid[o]) \in Messages
      BY <1>5, <1>12 DEF OperatorTryClose, StreamKinds
    <2>2. /\ aq' \in [Agents -> Seq(Messages)]
          /\ \A b \in Agents : Len(aq'[b]) <= Capacity
      BY <1>12, <2>1, OfferType DEF OperatorTryClose
    <2>3. QED
      BY <1>12, <2>2 DEF OperatorTryClose
  <1>13. ASSUME NEW o \in Operators, OperatorRemove(o) PROVE TypeOK'
    BY <1>13 DEF OperatorRemove, WithoutStream
  <1>14. ASSUME NEW o \in Operators, OperatorOutboundSend(o) PROVE TypeOK'
    <2>1. /\ oq' \in [Operators -> Seq(Messages)]
          /\ \A p \in Operators : Len(oq'[p]) <= Capacity
      BY <1>14, TailType DEF OperatorOutboundSend
    <2>2. QED
      BY <1>14, <2>1 DEF OperatorOutboundSend
  <1>15. ASSUME NEW o \in Operators, OperatorOutboundStop(o) PROVE TypeOK'
    BY <1>15, CapacityAssumption DEF OperatorOutboundStop
  <1>16. ASSUME NEW o \in Operators, OperatorHangup(o) PROVE TypeOK'
    BY <1>16 DEF OperatorHangup
  <1>17. QED
    BY <1>1, <1>2, <1>3, <1>4, <1>6, <1>7, <1>8, <1>9, <1>10, <1>11, <1>12,
       <1>13, <1>14, <1>15, <1>16 DEF OperatorNext

-----------------------------------------------------------------------------
(* What each component's steps leave alone.                                 *)

\* The HTTP API touches no task: it only puts messages in their channels.
LEMMA StoreFrame ==
    ASSUME StoreNext
    PROVE  /\ UNCHANGED <<agentTask, agentPeer, operTask, opeer, arx, orx>>
           /\ UNCHANGED nextStream
  BY DEF StoreNext,
        CreateSession, Expire, EndSession, NotifyAgent, NotifyOperator,
        storeVars, closingVars, agentVars, agentTask, agentChan, agentPeer,
        operVars, operTask, operChan

\* An agent's task neither creates nor ends a session, and moves no operator.
LEMMA AgentFrameCondition ==
    ASSUME AgentNext
    PROVE  /\ UNCHANGED <<status, expired, nextStream, closingVars>>
           /\ UNCHANGED <<operTask, opeer, orx>>
  BY DEF AgentNext,
        AgentRegister, AgentReject, AgentAttach, AgentAttachFails,
        AgentFrame, AgentFrameUnrouted, AgentForward, AgentForwardFails,
        AgentRemove, AgentSocketEnds, AgentClear, AgentOutboundSend,
        AgentOutboundStop, AgentHangup, storeVars, closingVars, agentVars,
        agentTask, agentChan, agentPeer, operVars, operTask, operChan

\* An operator's task does not touch the session's agent.
LEMMA OperatorFrameCondition ==
    ASSUME OperatorNext
    PROVE  /\ UNCHANGED <<status, expired, consumed, slot, closingVars>>
           /\ UNCHANGED <<agentTask, agentPeer, arx>>
  BY DEF OperatorNext,
        OperatorOpen, OperatorRefused, OperatorInsert, OperatorInsertFails,
        OperatorAnnounce, OperatorAnnounceFails, OperatorFrame,
        OperatorForward, OperatorForwardFails, OperatorSocketEnds,
        OperatorTryClose, OperatorRemove, OperatorOutboundSend,
        OperatorOutboundStop, OperatorHangup, storeVars, closingVars,
        agentVars, agentTask, agentChan, agentPeer, operVars, operTask,
        operChan

-----------------------------------------------------------------------------
(* The invariant's other parts: the store's and the operators' steps.       *)

\* Ending a session empties its slot and its table with the entry itself.
LEMMA StoreStepInv ==
    ASSUME IndInv, StoreNext
    PROVE  /\ AgentTasks' /\ OperatorTasks' /\ SingleUseCode'
           /\ SlotBelongsToServingTask' /\ StreamTableConsistent'
  <1> USE StoreFrame DEF IndInv, agentTask, operTask
  <1>1. SingleUseCode'
    BY DEF SingleUseCode
  <1>2. ASSUME NEW s \in Sessions, CreateSession(s)
        PROVE  /\ AgentTasks' /\ OperatorTasks'
               /\ SlotBelongsToServingTask' /\ StreamTableConsistent'
    <2>1. UNCHANGED <<consumed, slot, streams, closingStreams>>
      BY <1>2 DEF CreateSession, closingVars
    <2>2. /\ status[s] = "absent"
          /\ status' = [status EXCEPT ![s] = "live"]
          /\ status \in [Sessions -> {"absent", "live", "ended"}]
      BY <1>2 DEF CreateSession, TypeOK, StoreOK
    <2>3. AgentTasks' /\ SlotBelongsToServingTask'
      BY <2>1, <2>2 DEF AgentTasks, SlotBelongsToServingTask, TypeOK, AgentsOK
    <2>4. OperatorTasks' /\ StreamTableConsistent'
      BY <2>1, <2>2 DEF OperatorTasks, StreamTableConsistent, TypeOK, OperatorsOK
    <2>5. QED
      BY <2>3, <2>4
  <1>3. ASSUME NEW s \in Sessions, EndSession(s)
        PROVE  /\ AgentTasks' /\ OperatorTasks'
               /\ SlotBelongsToServingTask' /\ StreamTableConsistent'
    <2>1. /\ status' = [status EXCEPT ![s] = "ended"]
          /\ consumed' = [consumed EXCEPT ![s] = FALSE]
          /\ slot' = [slot EXCEPT ![s] = None]
          /\ streams' = [streams EXCEPT ![s] = NoStreams]
          /\ closingStreams' = [closingStreams EXCEPT ![s] = OperatorsOf(streams[s])]
          /\ StoreOK
      BY <1>3 DEF EndSession, TypeOK
    <2>2. AgentTasks' /\ SlotBelongsToServingTask'
      BY <2>1 DEF AgentTasks, SlotBelongsToServingTask, StoreOK, TypeOK, AgentsOK
    <2>3. StreamTableConsistent'
      BY <2>1 DEF StreamTableConsistent, StoreOK, NoStreams
    <2>4. \A o \in OperatorsOf(streams[s]) : osess[o] = s
      BY DEF StreamTableConsistent, OperatorsOf
    <2>5. OperatorTasks'
      BY <2>1, <2>4 DEF OperatorTasks, StoreOK, TypeOK, OperatorsOK
    <2>6. QED
      BY <2>2, <2>3, <2>5
  <1>4. ASSUME NEW s \in Sessions,
               \/ Expire(s) \/ NotifyAgent(s)
               \/ \E o \in Operators : NotifyOperator(s, o)
        PROVE  /\ AgentTasks' /\ OperatorTasks'
               /\ SlotBelongsToServingTask' /\ StreamTableConsistent'
    <2>1. /\ UNCHANGED <<status, consumed, slot, streams>>
          /\ \A x \in Sessions : closingStreams'[x] \subseteq closingStreams[x]
      BY <1>4 DEF Expire, NotifyAgent, NotifyOperator, storeVars, closingVars,
                  TypeOK, StoreOK
    <2>2. QED
      BY <2>1 DEF AgentTasks, OperatorTasks, SlotBelongsToServingTask,
                  StreamTableConsistent
  <1>5. QED
    BY <1>1, <1>2, <1>3, <1>4 DEF StoreNext

\* Only OperatorInsert adds to a stream table, and every task removes its own
\* entry before it is done.
LEMMA OperatorStepInv ==
    ASSUME IndInv, OperatorNext
    PROVE  /\ AgentTasks' /\ OperatorTasks' /\ SingleUseCode'
           /\ SlotBelongsToServingTask' /\ StreamTableConsistent'
  <1> USE OperatorFrameCondition DEF IndInv, agentTask, closingVars
  <1>1. AgentTasks' /\ SingleUseCode' /\ SlotBelongsToServingTask'
    BY DEF AgentTasks, SingleUseCode, SlotBelongsToServingTask
  <1> USE DEF TypeOK, StoreOK, OperatorsOK, OperPc
  <1>2. ASSUME NEW o \in Operators, NEW s \in Sessions, NEW target \in Targets,
               OperatorOpen(o, s, target)
        PROVE  OperatorTasks' /\ StreamTableConsistent'
    <2>1. /\ nextStream \in StreamIds /\ status[s] = "live" /\ slot[s] \in Agents
          /\ \A x \in Sessions : o \notin closingStreams[x]
      BY <1>2, NoneAssumption DEF OperatorOpen, DrawStream, MayOpen, OperatorTasks
    <2>2. OperatorTasks'
      BY <1>2, <2>1 DEF OperatorOpen, OperatorTasks
    <2>3. StreamTableConsistent'
      BY <1>2 DEF OperatorOpen, StreamTableConsistent
    <2>4. QED
      BY <2>2, <2>3
  <1>3. ASSUME NEW o \in Operators, NEW s \in Sessions, NEW target \in Targets,
               OperatorRefused(o, s, target)
        PROVE  OperatorTasks' /\ StreamTableConsistent'
    BY <1>3 DEF OperatorRefused, OperatorTasks, StreamTableConsistent
  <1>4. ASSUME NEW o \in Operators, OperatorInsert(o)
        PROVE  OperatorTasks' /\ StreamTableConsistent'
    BY <1>4 DEF OperatorInsert, OperatorTasks, StreamTableConsistent
  <1>5. ASSUME NEW o \in Operators, OperatorInsertFails(o)
        PROVE  OperatorTasks' /\ StreamTableConsistent'
    BY <1>5 DEF OperatorInsertFails, OperatorTasks, StreamTableConsistent,
                storeVars
  <1>6. ASSUME NEW o \in Operators,
               OperatorAnnounce(o) \/ OperatorAnnounceFails(o)
        PROVE  OperatorTasks' /\ StreamTableConsistent'
    BY <1>6 DEF OperatorAnnounce, OperatorAnnounceFails, OperatorTasks,
                StreamTableConsistent, storeVars
  <1>7. ASSUME NEW o \in Operators, NEW kind \in FrameKinds, OperatorFrame(o, kind)
        PROVE  OperatorTasks' /\ StreamTableConsistent'
    <2>1. Msg(kind, osid[o]) \in Messages
      BY <1>7, MsgType, FrameKindsAssumption, NoneAssumption
         DEF OperatorFrame, OperatorTasks
    <2>2. QED
      BY <1>7, <2>1 DEF OperatorFrame, OperatorTasks, StreamTableConsistent, storeVars
  <1>8. ASSUME NEW o \in Operators,
               \/ OperatorForward(o) \/ OperatorForwardFails(o)
               \/ OperatorSocketEnds(o) \/ OperatorTryClose(o)
        PROVE  OperatorTasks' /\ StreamTableConsistent'
    BY <1>8 DEF OperatorForward, OperatorForwardFails, OperatorSocketEnds,
                OperatorTryClose, OperatorTasks, StreamTableConsistent, storeVars
  <1>9. ASSUME NEW o \in Operators, OperatorRemove(o)
        PROVE  OperatorTasks' /\ StreamTableConsistent'
    <2>1. OperatorTasks'
      BY <1>9 DEF OperatorRemove, OperatorTasks
    <2>2. StreamTableConsistent'
      BY <1>9 DEF OperatorRemove, StreamTableConsistent, WithoutStream
    <2>3. QED
      BY <2>1, <2>2
  <1>10. ASSUME NEW o \in Operators,
                \/ OperatorOutboundSend(o) \/ OperatorOutboundStop(o)
                \/ OperatorHangup(o)
         PROVE  OperatorTasks' /\ StreamTableConsistent'
    BY <1>10 DEF OperatorOutboundSend, OperatorOutboundStop, OperatorHangup,
                 OperatorTasks, StreamTableConsistent, storeVars, operTask
  <1>11. QED
    BY <1>1, <1>2, <1>3, <1>4, <1>5, <1>6, <1>7, <1>8, <1>9, <1>10 DEF OperatorNext

\* The steps of an agent: the code is consumed where the session is claimed,
\* the slot is taken by the claimant and given up where the task ends.
LEMMA AgentStepInv ==
    ASSUME IndInv, AgentNext
    PROVE  /\ AgentTasks' /\ OperatorTasks' /\ SingleUseCode'
           /\ SlotBelongsToServingTask' /\ StreamTableConsistent'
  <1> USE AgentFrameCondition DEF IndInv, operTask, closingVars
  <1>1. OperatorTasks'
    BY DEF OperatorTasks
  <1> DEFINE Rest == /\ AgentTasks' /\ SingleUseCode'
                     /\ SlotBelongsToServingTask' /\ StreamTableConsistent'
  <1> USE DEF TypeOK, StoreOK, AgentsOK, AgentPc, Serving
  <1>2. ASSUME NEW a \in Agents, NEW s \in Sessions, NEW offers \in SUBSET Targets,
               AgentRegister(a, s, offers)
        PROVE  Rest
    <2>1. /\ apc[a] = "idle" /\ asess[a] = None
          /\ status[s] = "live" /\ ~consumed[s]
          /\ consumed' = [consumed EXCEPT ![s] = TRUE]
          /\ asess' = [asess EXCEPT ![a] = s]
          /\ apc' = [apc EXCEPT ![a] = "registered"]
          /\ UNCHANGED <<slot, streams, aframe, ato>>
      BY <1>2 DEF AgentRegister, CodeUsable, AgentTasks
    <2>2. \A b \in Agents : asess[b] # s
      BY <2>1, NoneAssumption DEF AgentTasks
    <2>3. SingleUseCode'
      BY <2>1, <2>2 DEF SingleUseCode
    <2>4. AgentTasks'
      BY <2>1, <2>2 DEF AgentTasks
    <2>5. SlotBelongsToServingTask' /\ StreamTableConsistent'
      BY <2>1, NoneAssumption DEF SlotBelongsToServingTask, StreamTableConsistent
    <2>6. QED
      BY <2>3, <2>4, <2>5
  <1>3. ASSUME NEW a \in Agents, NEW s \in Sessions, NEW offers \in SUBSET Targets,
               AgentReject(a, s, offers)
        PROVE  Rest
    BY <1>3 DEF AgentReject, AgentTasks, SingleUseCode, SlotBelongsToServingTask,
                StreamTableConsistent, storeVars
  <1>4. ASSUME NEW a \in Agents, AgentAttach(a) PROVE Rest
    <2> DEFINE s == asess[a]
    <2>1. /\ s \in Sessions /\ status[s] = "live"
          /\ slot' = [slot EXCEPT ![s] = a]
          /\ apc' = [apc EXCEPT ![a] = "running"]
          /\ UNCHANGED <<consumed, streams, asess, aframe, ato>>
      BY <1>4 DEF AgentAttach, AgentTasks
    <2>2. \A b \in Agents : asess[b] = s => b = a
      BY <2>1, NoneAssumption DEF SingleUseCode
    <2>3. AgentTasks'
      BY <2>1, <2>2 DEF AgentTasks
    <2>4. SlotBelongsToServingTask'
      BY <2>1 DEF SlotBelongsToServingTask
    <2>5. SingleUseCode' /\ StreamTableConsistent'
      BY <2>1 DEF SingleUseCode, StreamTableConsistent
    <2>6. QED
      BY <2>3, <2>4, <2>5
  <1>5. ASSUME NEW a \in Agents, AgentAttachFails(a) PROVE Rest
    <2>1. slot[asess[a]] # a
      BY <1>5, NoneAssumption
         DEF AgentAttachFails, SlotBelongsToServingTask, AgentTasks
    <2>2. QED
      BY <1>5, <2>1 DEF AgentAttachFails, AgentTasks, SingleUseCode,
                  SlotBelongsToServingTask, StreamTableConsistent, storeVars
  <1>6. ASSUME NEW a \in Agents, NEW id \in StreamIds, NEW kind \in FrameKinds,
               AgentFrame(a, id, kind)
        PROVE  Rest
    <2>1. PICK o \in Receivers(id) : ato' = [ato EXCEPT ![a] = o]
      BY <1>6 DEF AgentFrame
    <2>2. o \in Operators
      BY <2>1 DEF Receivers
    <2>3. Msg(kind, id) \in Messages /\ Msg(kind, id).stream = id
      BY MsgType, FrameKindsAssumption DEF Msg
    <2>4. QED
      BY <1>6, <2>1, <2>2, <2>3 DEF AgentFrame, AgentTasks, SingleUseCode,
                  SlotBelongsToServingTask, StreamTableConsistent, storeVars
  <1>7. ASSUME NEW a \in Agents, NEW id \in StreamIds, NEW kind \in FrameKinds,
               AgentFrameUnrouted(a, id, kind)
        PROVE  Rest
    <2>1. /\ apc[a] = "running"
          /\ apc' = [apc EXCEPT ![a] = "removing"]
          /\ aframe' = [aframe EXCEPT ![a] = Msg(kind, id)]
          /\ UNCHANGED <<asess, ato, slot, consumed, streams>>
      BY <1>7 DEF AgentFrameUnrouted, storeVars
    <2>2. Msg(kind, id) \in Messages /\ Msg(kind, id).stream = id
      BY MsgType, FrameKindsAssumption DEF Msg
    <2>3. QED
      BY <2>1, <2>2 DEF AgentTasks, SingleUseCode, SlotBelongsToServingTask,
                  StreamTableConsistent
  <1>8. ASSUME NEW a \in Agents,
               AgentForward(a) \/ AgentForwardFails(a) \/ AgentSocketEnds(a)
        PROVE  Rest
    <2>1. /\ apc[a] \in {"sending", "running"}
          /\ \E pc \in {"running", "removing", "leaving"} :
                apc' = [apc EXCEPT ![a] = pc]
          /\ \A b \in Agents : b # a => aframe'[b] = aframe[b] /\ ato'[b] = ato[b]
          /\ UNCHANGED <<asess, slot, consumed, streams>>
      BY <1>8 DEF AgentForward, AgentForwardFails, AgentSocketEnds, storeVars
    <2>2. apc'[a] = "removing" => apc[a] = "sending" /\ aframe' = aframe
      BY <1>8 DEF AgentForward, AgentForwardFails, AgentSocketEnds
    <2>3. QED
      BY <2>1, <2>2 DEF AgentTasks, SingleUseCode, SlotBelongsToServingTask,
                        StreamTableConsistent
  <1>9. ASSUME NEW a \in Agents, AgentRemove(a) PROVE Rest
    <2>1. AgentTasks' /\ SingleUseCode' /\ SlotBelongsToServingTask'
      BY <1>9 DEF AgentRemove, AgentTasks, SingleUseCode, SlotBelongsToServingTask
    <2>2. StreamTableConsistent'
      BY <1>9 DEF AgentRemove, WithoutStream, StreamTableConsistent
    <2>3. QED
      BY <2>1, <2>2
  <1>10. ASSUME NEW a \in Agents, AgentClear(a) PROVE Rest
    <2> DEFINE s == asess[a]
    <2>1. /\ s \in Sessions /\ apc[a] = "leaving"
          /\ apc' = [apc EXCEPT ![a] = "done"]
          /\ UNCHANGED <<consumed, asess, aframe, ato>>
          /\ SingleUseCode'
      BY <1>10 DEF AgentClear, AgentTasks, SingleUseCode
    <2>2. CASE status[s] = "live"
      <3>1. /\ slot' = [slot EXCEPT ![s] = None]
            /\ streams' = [streams EXCEPT ![s] = NoStreams]
        BY <1>10, <2>2 DEF AgentClear
      <3>2. \A b \in Agents : asess[b] = s => b = a
        BY <2>1, NoneAssumption DEF SingleUseCode
      <3>3. AgentTasks'
        BY <2>1, <3>1, <3>2 DEF AgentTasks
      <3>4. SlotBelongsToServingTask'
        BY <2>1, <3>1 DEF SlotBelongsToServingTask
      <3>5. StreamTableConsistent'
        BY <3>1 DEF StreamTableConsistent, NoStreams
      <3>6. QED
        BY <2>1, <3>3, <3>4, <3>5
    <2>3. CASE status[s] # "live"
      <3>1. UNCHANGED <<slot, streams>>
        BY <1>10, <2>3 DEF AgentClear
      <3>2. QED
        BY <2>1, <2>3, <3>1 DEF AgentTasks, SlotBelongsToServingTask,
                                StreamTableConsistent
    <2>4. QED
      BY <2>2, <2>3
  <1>11. ASSUME NEW a \in Agents,
                \/ AgentOutboundSend(a) \/ AgentOutboundStop(a) \/ AgentHangup(a)
         PROVE  Rest
    BY <1>11 DEF AgentOutboundSend, AgentOutboundStop, AgentHangup, AgentTasks,
                 SingleUseCode, SlotBelongsToServingTask, StreamTableConsistent,
                 storeVars, agentTask
  <1>12. QED
    BY <1>1, <1>2, <1>3, <1>4, <1>5, <1>6, <1>7, <1>8, <1>9, <1>10, <1>11
       DEF AgentNext

-----------------------------------------------------------------------------
(* The theorems.                                                            *)

\* The invariant is inductive.
LEMMA NextInv == IndInv /\ [Next]_vars => IndInv'
  <1> SUFFICES ASSUME IndInv, [Next]_vars PROVE IndInv'
    OBVIOUS
  <1>1. CASE StoreNext
    BY <1>1, StoreStepTypeOK, StoreStepInv DEF IndInv
  <1>2. CASE AgentNext
    BY <1>2, AgentStepTypeOK, AgentStepInv DEF IndInv
  <1>3. CASE OperatorNext
    BY <1>3, OperatorStepTypeOK, OperatorStepInv DEF IndInv
  <1>4. CASE UNCHANGED vars
    BY <1>4 DEF IndInv, TypeOK, StoreOK, AgentsOK, OperatorsOK, ChannelsBounded,
                AgentTasks, OperatorTasks, SingleUseCode, SlotBelongsToServingTask,
                StreamTableConsistent, vars, storeVars, closingVars, agentVars,
                agentTask, agentChan, agentPeer, operVars, operTask, operChan
  <1>5. QED
    BY <1>1, <1>2, <1>3, <1>4 DEF Next

\* Every reachable state of the relay satisfies the inductive invariant.
THEOREM RelayInvariant == Spec => []IndInv
  BY InitInv, NextInv, PTL DEF Spec

\* Every variable keeps its type and no channel exceeds its capacity, whatever
\* the numbers of sessions, connections and slots.
THEOREM RelayTypeCorrect == Spec => []TypeOK
  <1>1. IndInv => TypeOK
    BY DEF IndInv
  <1>2. QED
    BY RelayInvariant, <1>1, PTL

\* However many agents race for a session code, one connection is admitted.
THEOREM CodeIsSingleUse == Spec => []SingleUseCode
  <1>1. IndInv => SingleUseCode
    BY DEF IndInv
  <1>2. QED
    BY RelayInvariant, <1>1, PTL

\* The agent a session offers to operators is being served, in this session.
THEOREM SlotIsServed == Spec => []SlotBelongsToServingTask
  <1>1. IndInv => SlotBelongsToServingTask
    BY DEF IndInv
  <1>2. QED
    BY RelayInvariant, <1>1, PTL

\* An id leads to the operator it was given to, and to nobody once that
\* operator's task is done.
THEOREM TablesAreConsistent == Spec => []StreamTableConsistent
  <1>1. IndInv => StreamTableConsistent
    BY DEF IndInv
  <1>2. QED
    BY RelayInvariant, <1>1, PTL
=============================================================================
