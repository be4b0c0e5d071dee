------------------------- MODULE RelayLifecycleProofs -------------------------
(***************************************************************************)
(* Relay implements SessionLifecycle, for every value of its constants.     *)
(***************************************************************************)
EXTENDS RelayProofs

\* What the refinement needs beyond IndInv: a code is consumed only while its
\* session exists, stream ids are never shared, and an operator was let in only
\* after an agent had attached.
ConsumedWhileLive == \A s \in Sessions : consumed[s] => status[s] = "live"

IdsUnique ==
    /\ \A o \in Operators : osid[o] < nextStream
    /\ \A o, p \in Operators : osid[o] = osid[p] /\ osid[o] # 0 => o = p

LetInAfterAttach ==
    \A o \in Operators : osess[o] # None =>
        \E a \in Agents : asess[a] = osess[o] /\ apc[a] # "registered"

HistoryInv == ConsumedWhileLive /\ IdsUnique /\ LetInAfterAttach

FullInv == IndInv /\ HistoryInv

-----------------------------------------------------------------------------
\* HistoryInv holds initially and after every step.
LEMMA InitHistory == Init => HistoryInv
  BY MaxStreamsAssumption
     DEF Init, HistoryInv, ConsumedWhileLive, IdsUnique, LetInAfterAttach

\* Every step keeps the history: a code once consumed stays so while its
\* session lives, ids are drawn once, operators follow an attached agent.
LEMMA NextHistory == FullInv /\ [Next]_vars => HistoryInv'
  <1> SUFFICES ASSUME FullInv, [Next]_vars PROVE HistoryInv'
    OBVIOUS
  <1>a. /\ ConsumedWhileLive /\ IdsUnique /\ LetInAfterAttach
        /\ StoreOK /\ AgentsOK /\ OperatorsOK
        /\ AgentTasks /\ SlotBelongsToServingTask
    BY DEF FullInv, HistoryInv, IndInv, TypeOK
  <1>1. CASE StoreNext
    <2>1. UNCHANGED <<apc, asess, osid, osess, nextStream>>
      BY <1>1, StoreFrame DEF agentTask, operTask
    <2>2. IdsUnique' /\ LetInAfterAttach'
      BY <1>a, <2>1 DEF IdsUnique, LetInAfterAttach
    <2>3. ASSUME NEW s \in Sessions, CreateSession(s) PROVE ConsumedWhileLive'
      BY <1>a, <2>3 DEF CreateSession, ConsumedWhileLive, StoreOK
    <2>4. ASSUME NEW s \in Sessions, EndSession(s) PROVE ConsumedWhileLive'
      BY <1>a, <2>4 DEF EndSession, ConsumedWhileLive, StoreOK
    <2>5. ASSUME UNCHANGED <<status, consumed>> PROVE ConsumedWhileLive'
      BY <1>a, <2>5 DEF ConsumedWhileLive
    <2>6. ConsumedWhileLive'
      BY <1>1, <2>3, <2>4, <2>5
         DEF StoreNext, Expire, NotifyAgent, NotifyOperator, storeVars
    <2>7. QED
      BY <2>2, <2>6 DEF HistoryInv
  <1>2. CASE AgentNext
    <2>1. UNCHANGED <<status, osid, osess, nextStream>>
      BY <1>2, AgentFrameCondition DEF operTask
    <2>2. \/ UNCHANGED consumed
          \/ \E s \in Sessions : /\ status[s] = "live"
                                 /\ consumed' = [consumed EXCEPT ![s] = TRUE]
      BY <1>2
         DEF AgentNext, AgentRegister, CodeUsable, AgentReject, AgentAttach,
             AgentAttachFails, AgentFrame, AgentFrameUnrouted, AgentForward,
             AgentForwardFails, AgentRemove, AgentSocketEnds, AgentClear,
             AgentOutboundSend, AgentOutboundStop, AgentHangup, storeVars
    <2>3. \A a \in Agents : asess[a] # None /\ apc[a] # "registered" =>
             asess'[a] = asess[a] /\ apc'[a] # "registered"
      BY <1>2, <1>a
         DEF AgentNext, AgentRegister, AgentReject, AgentAttach,
             AgentAttachFails, AgentFrame, AgentFrameUnrouted, AgentForward,
             AgentForwardFails, AgentRemove, AgentSocketEnds, AgentClear,
             AgentOutboundSend, AgentOutboundStop, AgentHangup, agentTask,
             AgentTasks, AgentsOK
    <2>4. ConsumedWhileLive'
      BY <1>a, <2>1, <2>2 DEF ConsumedWhileLive, StoreOK
    <2>5. IdsUnique'
      BY <1>a, <2>1 DEF IdsUnique
    <2>6. LetInAfterAttach'
      BY <1>a, <2>1, <2>3 DEF LetInAfterAttach
    <2>7. QED
      BY <2>4, <2>5, <2>6 DEF HistoryInv
  <1>3. CASE OperatorNext
    <2>1. UNCHANGED <<status, consumed, slot, apc, asess>>
      BY <1>3, OperatorFrameCondition DEF agentTask
    <2>2. ConsumedWhileLive'
      BY <1>a, <2>1 DEF ConsumedWhileLive
    <2>3. ASSUME NEW o \in Operators, NEW s \in Sessions, NEW target \in Targets,
                 OperatorOpen(o, s, target)
          PROVE  IdsUnique' /\ LetInAfterAttach'
      <3>1. /\ nextStream \in StreamIds /\ nextStream' = nextStream + 1
            /\ osid' = [osid EXCEPT ![o] = nextStream]
            /\ osess' = [osess EXCEPT ![o] = s]
            /\ slot[s] \in Agents /\ slot[s] # None
        BY <1>a, <2>3 DEF OperatorOpen, DrawStream, MayOpen, StoreOK
      <3>2. asess[slot[s]] = s /\ apc[slot[s]] # "registered"
        BY <1>a, <3>1 DEF SlotBelongsToServingTask, Serving
      <3>3. IdsUnique'
        BY <1>a, <3>1, MaxStreamsAssumption DEF IdsUnique, StreamIds, OperatorsOK
      <3>4. LetInAfterAttach'
        BY <1>a, <2>1, <3>1, <3>2 DEF LetInAfterAttach, OperatorsOK
      <3>5. QED
        BY <3>3, <3>4
    <2>4. ASSUME NEW o \in Operators, NEW s \in Sessions, NEW target \in Targets,
                 OperatorRefused(o, s, target)
          PROVE  IdsUnique' /\ LetInAfterAttach'
      <3>1. /\ nextStream \in StreamIds /\ nextStream' = nextStream + 1
            /\ UNCHANGED <<osid, osess>>
        BY <2>4 DEF OperatorRefused, DrawStream
      <3>2. QED
        BY <1>a, <2>1, <3>1, MaxStreamsAssumption
           DEF IdsUnique, LetInAfterAttach, StreamIds, OperatorsOK
    <2>5. ASSUME UNCHANGED <<osid, osess, nextStream>>
          PROVE  IdsUnique' /\ LetInAfterAttach'
      BY <1>a, <2>1, <2>5 DEF IdsUnique, LetInAfterAttach
    <2>6. IdsUnique' /\ LetInAfterAttach'
      BY <1>3, <2>3, <2>4, <2>5
         DEF OperatorNext, OperatorInsert, OperatorInsertFails, OperatorAnnounce,
             OperatorAnnounceFails, OperatorFrame, OperatorForward,
             OperatorForwardFails, OperatorSocketEnds, OperatorTryClose,
             OperatorRemove, OperatorOutboundSend, OperatorOutboundStop,
             OperatorHangup, storeVars, operTask
    <2>7. QED
      BY <2>2, <2>6 DEF HistoryInv
  <1>4. CASE UNCHANGED vars
    BY <1>a, <1>4
       DEF HistoryInv, ConsumedWhileLive, IdsUnique, LetInAfterAttach, vars,
           storeVars, agentVars, agentTask, operVars, operTask
  <1>5. QED
    BY <1>1, <1>2, <1>3, <1>4 DEF Next

\* The relay keeps both parts of the invariant.
THEOREM RelayFullInvariant == Spec => []FullInv
  <1>1. Init => FullInv
    BY InitInv, InitHistory DEF FullInv
  <1>2. FullInv /\ [Next]_vars => FullInv'
    BY NextInv, NextHistory DEF FullInv
  <1>3. QED
    BY <1>1, <1>2, PTL DEF Spec

-----------------------------------------------------------------------------
(* The refinement mapping.                                                  *)

\* The session an agent registered for has no other owner.
LEMMA OwnerIs ==
    ASSUME IndInv, NEW a \in Agents, asess[a] # None
    PROVE  Owner(asess[a]) = a
  BY DEF Owner, IndInv, SingleUseCode

\* Nobody owns a session nobody registered for.
LEMMA OwnerNone ==
    ASSUME NEW s, \A a \in Agents : asess[a] # s
    PROVE  Owner(s) = None
  BY DEF Owner

\* A session that is not in the store holds neither an agent nor a stream.
LEMMA NotLiveIsEmpty ==
    ASSUME IndInv, NEW s \in Sessions, status[s] # "live"
    PROVE  /\ slot[s] = None /\ streams[s] = NoStreams
           /\ OperatorsOf(streams[s]) = {}
  <1>1. slot[s] = None
    BY DEF IndInv, SlotBelongsToServingTask
  <1>2. streams[s] = NoStreams
    BY DEF IndInv, TypeOK, StoreOK, StreamTableConsistent, NoStreams
  <1>3. QED
    BY <1>1, <1>2 DEF OperatorsOf, NoStreams

\* A session whose code is not consumed has no agent and never had one.
LEMMA UnconsumedIsWaiting ==
    ASSUME IndInv, NEW s \in Sessions, status[s] = "live", ~consumed[s]
    PROVE  /\ \A a \in Agents : asess[a] # s
           /\ slot[s] = None
           /\ Phase(s) = "waiting"
  <1>1. \A a \in Agents : asess[a] # s
    BY NoneAssumption DEF IndInv, AgentTasks
  <1>2. slot[s] = None
    BY <1>1 DEF IndInv, SlotBelongsToServingTask, TypeOK, StoreOK
  <1>3. QED
    BY <1>1, <1>2 DEF Phase

\* What the places of its agent's task say of a session.
LEMMA PhaseOfClaimant ==
    ASSUME IndInv, NEW a \in Agents, asess[a] # None, status[asess[a]] = "live"
    PROVE  /\ apc[a] = "registered" =>
                slot[asess[a]] = None /\ Phase(asess[a]) = "claimed"
           /\ apc[a] \in Serving =>
                slot[asess[a]] = a /\ Phase(asess[a]) = "attached"
           /\ apc[a] # "registered" => Phase(asess[a]) \in {"attached", "vacant"}
  <1> DEFINE s == asess[a]
  <1>1. s \in Sessions /\ consumed[s] /\ a # None
    BY NoneAssumption DEF IndInv, AgentTasks, TypeOK, AgentsOK
  <1>2. \A b \in Agents : asess[b] = s => b = a
    BY DEF IndInv, SingleUseCode
  <1>3. slot[s] # None => slot[s] = a /\ apc[a] \in Serving
    BY <1>1, <1>2 DEF IndInv, SlotBelongsToServingTask, TypeOK, StoreOK
  <1>4. apc[a] \in Serving => slot[s] = a
    BY DEF IndInv, AgentTasks
  <1>5. apc[a] = "registered" => slot[s] = None
    BY <1>3 DEF Serving
  <1>6. QED
    BY <1>1, <1>2, <1>4, <1>5 DEF Phase

\* Steps that change none of this leave the abstract state unchanged.
LEMMA Stutter ==
    ASSUME UNCHANGED <<status, expired, slot, consumed, streams, asess, osess>>,
           \A a \in Agents : apc'[a] = "registered" <=> apc[a] = "registered"
    PROVE  UNCHANGED Lifecycle!vars
  <1>1. \A s \in Sessions : Phase(s)' = Phase(s) /\ Owner(s)' = Owner(s)
    BY DEF Phase, Owner
  <1>2. QED
    BY <1>1 DEF Lifecycle!vars, OperatorsOf

\* Removing a stream id takes its operator off the one table that has it.
LEMMA RemoveOne ==
    ASSUME FullInv, NEW id \in StreamIds, streams' = WithoutStream(id),
           UNCHANGED <<status, expired, slot, consumed, asess, osess>>,
           \A a \in Agents : apc'[a] = "registered" <=> apc[a] = "registered"
    PROVE  [Lifecycle!Next]_(Lifecycle!vars)
  <1>1. \A s \in Sessions : Phase(s)' = Phase(s) /\ Owner(s)' = Owner(s)
    BY DEF Phase, Owner
  <1> USE DEF FullInv, IndInv, HistoryInv, TypeOK, StoreOK
  <1>2. CASE \A s \in Sessions : streams[s][id] = None
    <2>1. streams' = streams
      BY <1>2 DEF WithoutStream
    <2>2. QED
      BY <2>1, Stutter
  <1>3. CASE \E s \in Sessions : streams[s][id] # None
    <2>1. PICK s \in Sessions : streams[s][id] # None
      BY <1>3
    <2> DEFINE o == streams[s][id]
    <2>2. o \in Operators /\ osid[o] = id /\ osess[o] = s /\ status[s] = "live"
      BY <2>1 DEF StreamTableConsistent
    <2>3. \A x \in Sessions, i \in StreamIds : streams[x][i] = o => x = s /\ i = id
      BY <2>2, NoneAssumption DEF StreamTableConsistent
    <2>4. \A x \in Sessions : streams[x][id] # None => x = s
      <3> SUFFICES ASSUME NEW x \in Sessions, streams[x][id] # None PROVE x = s
        OBVIOUS
      <3>1. /\ streams[x][id] \in Operators /\ osid[streams[x][id]] = id
            /\ osess[streams[x][id]] = x
        BY DEF StreamTableConsistent
      <3>2. streams[x][id] = o
        BY <2>2, <3>1 DEF IdsUnique, StreamIds
      <3>3. QED
        BY <2>2, <3>1, <3>2
    <2>5. \A x \in Sessions : x # s => streams'[x] = streams[x]
      BY <2>4 DEF WithoutStream
    <2>6. streams'[s] = [streams[s] EXCEPT ![id] = None]
      BY <2>2 DEF WithoutStream
    <2>7. OperatorsOf(streams'[s]) = OperatorsOf(streams[s]) \ {o}
      BY <2>2, <2>3, <2>6, NoneAssumption DEF OperatorsOf
    <2>8. Lifecycle!Unroute(s, o)
      BY <1>1, <2>5, <2>7 DEF Lifecycle!Unroute
    <2>9. QED
      BY <2>2, <2>8 DEF Lifecycle!Next
  <1>4. QED
    BY <1>2, <1>3

-----------------------------------------------------------------------------
(* Every step is a step of the lifecycle or a stutter.                      *)

\* The relay starts where the abstract session does.
LEMMA LifecycleInit == Init => Lifecycle!Init
  <1> SUFFICES ASSUME Init PROVE Lifecycle!Init
    OBVIOUS
  <1>1. \A s \in Sessions : Phase(s) = "absent" /\ Owner(s) = None
    BY NoneAssumption DEF Init, Phase, Owner
  <1>2. \A s \in Sessions : OperatorsOf(streams[s]) = {}
    BY DEF Init, OperatorsOf, NoStreams
  <1>3. \A s \in Sessions : {o \in Operators : osess[o] = s} = {}
    BY NoneAssumption DEF Init
  <1>4. QED
    BY <1>1, <1>2, <1>3 DEF Init, Lifecycle!Init

\* The HTTP API: create, the passing of the ttl, end.
LEMMA StoreRefines ==
    ASSUME FullInv, StoreNext PROVE [Lifecycle!Next]_(Lifecycle!vars)
  <1> USE DEF FullInv, IndInv, TypeOK, StoreOK
  <1>1. UNCHANGED <<apc, asess, osess>>
    BY StoreFrame DEF agentTask, operTask
  <1>2. \A x \in Sessions : Owner(x)' = Owner(x)
    BY <1>1 DEF Owner
  <1>3. ASSUME NEW s \in Sessions, CreateSession(s)
        PROVE  [Lifecycle!Next]_(Lifecycle!vars)
    <2>1. /\ status[s] = "absent" /\ status' = [status EXCEPT ![s] = "live"]
          /\ UNCHANGED <<expired, consumed, slot, streams>>
      BY <1>3 DEF CreateSession
    <2>2. ~consumed[s] /\ slot[s] = None
      BY <2>1, NotLiveIsEmpty DEF HistoryInv, ConsumedWhileLive
    <2>3. Phase(s) = "absent" /\ Phase(s)' = "waiting"
      BY <2>1, <2>2 DEF Phase
    <2>4. \A x \in Sessions : x # s => Phase(x)' = Phase(x)
      BY <1>1, <2>1 DEF Phase
    <2>5. Lifecycle!Create(s)
      BY <1>1, <1>2, <2>1, <2>3, <2>4 DEF Lifecycle!Create
    <2>6. QED
      BY <2>5 DEF Lifecycle!Next
  <1>4. ASSUME NEW s \in Sessions, Expire(s)
        PROVE  [Lifecycle!Next]_(Lifecycle!vars)
    <2>1. /\ status[s] = "live" /\ expired' = [expired EXCEPT ![s] = TRUE]
          /\ UNCHANGED <<status, consumed, slot, streams>>
      BY <1>4 DEF Expire
    <2>2. Phase(s) \in Lifecycle!Live
      BY <2>1 DEF Phase, Lifecycle!Live
    <2>3. \A x \in Sessions : Phase(x)' = Phase(x)
      BY <1>1, <2>1 DEF Phase
    <2>4. Lifecycle!Lapse(s)
      BY <1>1, <1>2, <2>1, <2>2, <2>3 DEF Lifecycle!Lapse
    <2>5. QED
      BY <2>4 DEF Lifecycle!Next
  <1>5. ASSUME NEW s \in Sessions, EndSession(s)
        PROVE  [Lifecycle!Next]_(Lifecycle!vars)
    <2>1. /\ status[s] = "live" /\ status' = [status EXCEPT ![s] = "ended"]
          /\ expired' = [expired EXCEPT ![s] = FALSE]
          /\ consumed' = [consumed EXCEPT ![s] = FALSE]
          /\ slot' = [slot EXCEPT ![s] = None]
          /\ streams' = [streams EXCEPT ![s] = NoStreams]
      BY <1>5 DEF EndSession
    <2>2. Phase(s) \in Lifecycle!Live /\ Phase(s)' = "ended"
      BY <2>1 DEF Phase, Lifecycle!Live
    <2>3. \A x \in Sessions : x # s => Phase(x)' = Phase(x)
      BY <1>1, <2>1 DEF Phase
    <2>4. /\ OperatorsOf(streams'[s]) = {}
          /\ \A x \in Sessions : x # s => streams'[x] = streams[x]
      BY <2>1 DEF OperatorsOf, NoStreams
    <2>5. Lifecycle!End(s)
      BY <1>1, <1>2, <2>1, <2>2, <2>3, <2>4 DEF Lifecycle!End
    <2>6. QED
      BY <2>5 DEF Lifecycle!Next
  <1>6. ASSUME UNCHANGED storeVars PROVE [Lifecycle!Next]_(Lifecycle!vars)
    BY <1>1, <1>6, Stutter DEF storeVars
  <1>7. QED
    BY <1>3, <1>4, <1>5, <1>6 DEF StoreNext, NotifyAgent, NotifyOperator

\* An agent's task: it claims, attaches and leaves, and removes streams.
LEMMA AgentRefines ==
    ASSUME FullInv, AgentNext PROVE [Lifecycle!Next]_(Lifecycle!vars)
  <1> USE DEF FullInv, IndInv, TypeOK, StoreOK, AgentsOK
  <1>1. UNCHANGED <<status, expired, osess>>
    BY AgentFrameCondition DEF operTask
  <1>2. ASSUME NEW a \in Agents, NEW s \in Sessions, NEW offers \in SUBSET Targets,
               AgentRegister(a, s, offers)
        PROVE  [Lifecycle!Next]_(Lifecycle!vars)
    <2>1. /\ apc[a] = "idle" /\ asess[a] = None
          /\ status[s] = "live" /\ ~expired[s] /\ ~consumed[s]
          /\ consumed' = [consumed EXCEPT ![s] = TRUE]
          /\ asess' = [asess EXCEPT ![a] = s]
          /\ apc' = [apc EXCEPT ![a] = "registered"]
          /\ UNCHANGED <<slot, streams>>
      BY <1>2 DEF AgentRegister, CodeUsable, AgentTasks
    <2>2. /\ \A b \in Agents : asess[b] # s
          /\ slot[s] = None /\ Phase(s) = "waiting"
      BY <2>1, UnconsumedIsWaiting
    <2>3. Phase(s)' = "claimed"
      BY <1>1, <2>1, <2>2 DEF Phase
    <2>4. Owner(s)' = a
      BY <2>1, <2>2 DEF Owner
    <2>5. \A x \in Sessions : x # s => Phase(x)' = Phase(x) /\ Owner(x)' = Owner(x)
      <3> SUFFICES ASSUME NEW x \in Sessions, x # s
                   PROVE  Phase(x)' = Phase(x) /\ Owner(x)' = Owner(x)
        OBVIOUS
      <3>1. \A b \in Agents : asess'[b] = x <=> asess[b] = x
        BY <2>1, NoneAssumption
      <3>2. \A b \in Agents : asess[b] = x => apc'[b] = apc[b]
        BY <2>1, NoneAssumption
      <3>3. QED
        BY <1>1, <2>1, <3>1, <3>2 DEF Phase, Owner
    <2>6. \A x \in Sessions : Owner(x) # a
      BY <2>1, NoneAssumption DEF Owner
    <2>7. Lifecycle!Claim(s, a)
      BY <1>1, <2>1, <2>2, <2>3, <2>4, <2>5, <2>6 DEF Lifecycle!Claim
    <2>8. QED
      BY <2>7 DEF Lifecycle!Next
  <1>3. ASSUME NEW a \in Agents, AgentAttach(a)
        PROVE  [Lifecycle!Next]_(Lifecycle!vars)
    <2> DEFINE s == asess[a]
    <2>1. /\ apc[a] = "registered" /\ s \in Sessions /\ status[s] = "live"
          /\ slot' = [slot EXCEPT ![s] = a]
          /\ apc' = [apc EXCEPT ![a] = "running"]
          /\ UNCHANGED <<consumed, streams, asess>>
      BY <1>3 DEF AgentAttach, AgentTasks
    <2>2. Phase(s) = "claimed"
      BY <2>1, PhaseOfClaimant, NoneAssumption
    <2>3. Phase(s)' = "attached"
      BY <1>1, <2>1, NoneAssumption DEF Phase
    <2>4. \A x \in Sessions : x # s => Phase(x)' = Phase(x)
      <3>1. \A x \in Sessions, b \in Agents : x # s /\ asess[b] = x => apc'[b] = apc[b]
        BY <2>1
      <3>2. QED
        BY <1>1, <2>1, <3>1 DEF Phase
    <2>5. \A x \in Sessions : Owner(x)' = Owner(x)
      BY <2>1 DEF Owner
    <2>6. Lifecycle!Attach(s)
      BY <1>1, <2>1, <2>2, <2>3, <2>4, <2>5 DEF Lifecycle!Attach
    <2>7. QED
      BY <2>1, <2>6 DEF Lifecycle!Next
  <1>4. ASSUME NEW a \in Agents, AgentAttachFails(a)
        PROVE  [Lifecycle!Next]_(Lifecycle!vars)
    <2> DEFINE s == asess[a]
    <2>1. /\ s \in Sessions /\ status[s] # "live"
          /\ apc' = [apc EXCEPT ![a] = "done"]
          /\ UNCHANGED <<consumed, slot, streams, asess>>
      BY <1>4 DEF AgentAttachFails, AgentTasks, storeVars
    <2>2. \A x \in Sessions : Phase(x)' = Phase(x)
      <3>1. \A x \in Sessions, b \in Agents :
                status[x] = "live" /\ asess[b] = x => apc'[b] = apc[b]
        BY <2>1
      <3>2. QED
        BY <1>1, <2>1, <3>1 DEF Phase
    <2>3. \A x \in Sessions : Owner(x)' = Owner(x)
      BY <2>1 DEF Owner
    <2>4. QED
      BY <1>1, <2>1, <2>2, <2>3 DEF Lifecycle!vars, OperatorsOf
  <1>5. ASSUME NEW a \in Agents, AgentRemove(a)
        PROVE  [Lifecycle!Next]_(Lifecycle!vars)
    <2>1. /\ aframe[a].stream \in StreamIds
          /\ streams' = WithoutStream(aframe[a].stream)
          /\ UNCHANGED <<slot, consumed, asess>>
          /\ \A b \in Agents : apc'[b] = "registered" <=> apc[b] = "registered"
      BY <1>5 DEF AgentRemove, AgentTasks
    <2>2. QED
      BY <1>1, <2>1, RemoveOne
  <1>6. ASSUME NEW a \in Agents, AgentClear(a)
        PROVE  [Lifecycle!Next]_(Lifecycle!vars)
    <2> DEFINE s == asess[a]
    <2>1. /\ apc[a] = "leaving" /\ s \in Sessions
          /\ apc' = [apc EXCEPT ![a] = "done"]
          /\ UNCHANGED <<consumed, asess>>
          /\ \A b \in Agents : apc'[b] = "registered" <=> apc[b] = "registered"
      BY <1>6 DEF AgentClear, AgentTasks, Serving
    <2>2. CASE status[s] # "live"
      <3>1. UNCHANGED <<slot, streams>>
        BY <1>6, <2>2 DEF AgentClear
      <3>2. QED
        BY <1>1, <2>1, <3>1, Stutter
    <2>3. CASE status[s] = "live"
      <3>1. /\ slot' = [slot EXCEPT ![s] = None]
            /\ streams' = [streams EXCEPT ![s] = NoStreams]
        BY <1>6, <2>3 DEF AgentClear
      <3>2. Phase(s) = "attached"
        BY <2>1, <2>3, PhaseOfClaimant, NoneAssumption DEF Serving
      <3>3. consumed[s] /\ \A b \in Agents : asess[b] = s => b = a
        BY <2>1, <2>3, NoneAssumption DEF AgentTasks, SingleUseCode
      <3>4. Phase(s)' = "vacant"
        BY <1>1, <2>1, <2>3, <3>1, <3>3 DEF Phase
      <3>5. \A x \in Sessions : x # s => Phase(x)' = Phase(x)
        BY <1>1, <2>1, <3>1 DEF Phase
      <3>6. \A x \in Sessions : Owner(x)' = Owner(x)
        BY <2>1 DEF Owner
      <3>7. /\ OperatorsOf(streams'[s]) = {}
            /\ \A x \in Sessions : x # s => streams'[x] = streams[x]
        BY <2>1, <3>1 DEF OperatorsOf, NoStreams
      <3>8. [x \in Sessions |-> OperatorsOf(streams[x])]' =
              [[x \in Sessions |-> OperatorsOf(streams[x])] EXCEPT ![s] = {}]
        BY <2>1, <3>7
      <3>9. [x \in Sessions |-> Phase(x)]' =
              [[x \in Sessions |-> Phase(x)] EXCEPT ![s] = "vacant"]
        BY <2>1, <3>4, <3>5
      <3>10. Lifecycle!Leave(s)
        BY <1>1, <2>1, <3>2, <3>6, <3>8, <3>9 DEF Lifecycle!Leave
      <3>11. QED
        BY <2>1, <3>10 DEF Lifecycle!Next
    <2>4. QED
      BY <2>2, <2>3
  <1>7. ASSUME UNCHANGED <<slot, consumed, streams, asess>>,
               \A b \in Agents : apc'[b] = "registered" <=> apc[b] = "registered"
        PROVE  [Lifecycle!Next]_(Lifecycle!vars)
    BY <1>1, <1>7, Stutter
  <1>8. ASSUME NEW a \in Agents,
               \/ \E s \in Sessions, offers \in SUBSET Targets :
                     AgentReject(a, s, offers)
               \/ \E id \in StreamIds, kind \in FrameKinds :
                     AgentFrame(a, id, kind) \/ AgentFrameUnrouted(a, id, kind)
               \/ AgentForward(a) \/ AgentForwardFails(a) \/ AgentSocketEnds(a)
               \/ AgentOutboundSend(a) \/ AgentOutboundStop(a) \/ AgentHangup(a)
        PROVE  /\ UNCHANGED <<slot, consumed, streams, asess>>
               /\ \A b \in Agents : apc'[b] = "registered" <=> apc[b] = "registered"
    <2>1. UNCHANGED <<slot, consumed, streams, asess>>
      BY <1>8 DEF AgentReject, AgentFrame, AgentFrameUnrouted, AgentForward,
                  AgentForwardFails, AgentSocketEnds, AgentOutboundSend,
                  AgentOutboundStop, AgentHangup, storeVars, agentTask
    <2>2. \/ UNCHANGED apc
          \/ \E x \in AgentPc : /\ x # "registered" /\ apc[a] # "registered"
                               /\ apc' = [apc EXCEPT ![a] = x]
      BY <1>8 DEF AgentReject, AgentFrame, AgentFrameUnrouted, AgentForward,
                  AgentForwardFails, AgentSocketEnds, AgentOutboundSend,
                  AgentOutboundStop, AgentHangup, agentTask, AgentPc
    <2>3. \A b \in Agents : apc'[b] = "registered" <=> apc[b] = "registered"
      BY <2>2
    <2>4. QED
      BY <2>1, <2>3
  <1>9. QED
    BY <1>2, <1>3, <1>4, <1>5, <1>6, <1>7, <1>8 DEF AgentNext

\* An operator's task: it is let in, enters the stream table and leaves it.
LEMMA OperatorRefines ==
    ASSUME FullInv, OperatorNext PROVE [Lifecycle!Next]_(Lifecycle!vars)
  <1> USE DEF FullInv, IndInv, TypeOK, StoreOK, OperatorsOK
  <1>1. UNCHANGED <<status, expired, consumed, slot, apc, asess>>
    BY OperatorFrameCondition DEF agentTask
  <1>2. \A x \in Sessions : Phase(x)' = Phase(x) /\ Owner(x)' = Owner(x)
    BY <1>1 DEF Phase, Owner
  <1>3. ASSUME NEW o \in Operators, NEW s \in Sessions, NEW target \in Targets,
               OperatorOpen(o, s, target)
        PROVE  [Lifecycle!Next]_(Lifecycle!vars)
    <2>1. /\ osess[o] = None
          /\ status[s] = "live" /\ ~expired[s] /\ slot[s] # None
          /\ osess' = [osess EXCEPT ![o] = s]
          /\ UNCHANGED streams
      BY <1>3 DEF OperatorOpen, MayOpen, OperatorTasks
    <2>2. Phase(s) = "attached"
      BY <2>1 DEF Phase
    <2>3. /\ {p \in Operators : osess'[p] = s} = {p \in Operators : osess[p] = s} \cup {o}
          /\ \A x \in Sessions : x # s =>
                {p \in Operators : osess'[p] = x} = {p \in Operators : osess[p] = x}
      BY <2>1, NoneAssumption
    <2>4. \A x \in Sessions : o \notin {p \in Operators : osess[p] = x}
      BY <2>1, NoneAssumption
    <2>5. [x \in Sessions |-> {p \in Operators : osess[p] = x}]' =
            [[x \in Sessions |-> {p \in Operators : osess[p] = x}]
                EXCEPT ![s] = @ \cup {o}]
      BY <2>3
    <2>6. /\ [x \in Sessions |-> Phase(x)]' = [x \in Sessions |-> Phase(x)]
          /\ [x \in Sessions |-> Owner(x)]' = [x \in Sessions |-> Owner(x)]
          /\ [x \in Sessions |-> OperatorsOf(streams[x])]' =
                [x \in Sessions |-> OperatorsOf(streams[x])]
      BY <1>2, <2>1
    <2>7. Lifecycle!Grant(s, o)
      BY <1>1, <2>1, <2>2, <2>4, <2>5, <2>6 DEF Lifecycle!Grant
    <2>8. QED
      BY <2>7 DEF Lifecycle!Next
  <1>4. ASSUME NEW o \in Operators, OperatorInsert(o)
        PROVE  [Lifecycle!Next]_(Lifecycle!vars)
    <2> DEFINE s == osess[o]
               id == osid[o]
    <2>1. /\ s \in Sessions /\ id \in StreamIds /\ status[s] = "live"
          /\ streams' = [streams EXCEPT ![s][id] = o]
          /\ UNCHANGED osess
      BY <1>4, NoneAssumption DEF OperatorInsert, OperatorTasks
    <2>2. streams[s][id] = None \/ streams[s][id] = o
      <3> SUFFICES ASSUME streams[s][id] # None PROVE streams[s][id] = o
        OBVIOUS
      <3>1. streams[s][id] \in Operators /\ osid[streams[s][id]] = id
        BY <2>1 DEF StreamTableConsistent
      <3>2. QED
        BY <2>1, <3>1 DEF HistoryInv, IdsUnique, StreamIds
    <2>3. /\ OperatorsOf(streams'[s]) = OperatorsOf(streams[s]) \cup {o}
          /\ \A x \in Sessions : x # s => streams'[x] = streams[x]
      <3>1. streams'[s] = [streams[s] EXCEPT ![id] = o]
        BY <2>1
      <3>2. \A x \in Sessions : x # s => streams'[x] = streams[x]
        BY <2>1
      <3>3. OperatorsOf(streams'[s]) = OperatorsOf(streams[s]) \cup {o}
        BY <2>1, <2>2, <3>1, NoneAssumption DEF OperatorsOf
      <3>4. QED
        BY <3>2, <3>3
    <2>4. PICK a \in Agents : asess[a] = s /\ apc[a] # "registered"
      BY <2>1, NoneAssumption DEF HistoryInv, LetInAfterAttach
    <2>5. Phase(s) \in {"attached", "vacant"}
      <3>1. asess[a] # None /\ status[asess[a]] = "live"
        BY <2>1, <2>4, NoneAssumption
      <3>2. IndInv
        BY DEF FullInv
      <3>3. Phase(asess[a]) \in {"attached", "vacant"}
        BY ONLY <2>4, <3>1, <3>2, PhaseOfClaimant, a \in Agents
      <3>4. QED
        BY ONLY <2>4, <3>3
    <2>6. o \in {p \in Operators : osess[p] = s}
      OBVIOUS
    <2>7. [x \in Sessions |-> OperatorsOf(streams[x])]' =
            [[x \in Sessions |-> OperatorsOf(streams[x])] EXCEPT ![s] = @ \cup {o}]
      <3>1. \A x \in Sessions : x # s => OperatorsOf(streams'[x]) = OperatorsOf(streams[x])
        BY ONLY <2>3
      <3>2. OperatorsOf(streams'[s]) = OperatorsOf(streams[s]) \cup {o}
        BY ONLY <2>3
      <3>3. [x \in Sessions |-> OperatorsOf(streams[x])]' =
              [x \in Sessions |-> OperatorsOf(streams'[x])]
        OBVIOUS
      <3>4. QED
        BY ONLY <3>1, <3>2, <3>3
    <2>8. /\ [x \in Sessions |-> Phase(x)]' = [x \in Sessions |-> Phase(x)]
          /\ [x \in Sessions |-> Owner(x)]' = [x \in Sessions |-> Owner(x)]
          /\ [x \in Sessions |-> {p \in Operators : osess[p] = x}]' =
                [x \in Sessions |-> {p \in Operators : osess[p] = x}]
      BY ONLY <1>2, <2>1
    <2>9. Lifecycle!Route(s, o)
      BY ONLY <1>1, <2>1, <2>5, <2>6, <2>7, <2>8 DEF Lifecycle!Route
    <2>10. QED
      BY <2>1, <2>9 DEF Lifecycle!Next
  <1>5. ASSUME NEW o \in Operators, OperatorRemove(o)
        PROVE  [Lifecycle!Next]_(Lifecycle!vars)
    <2>1. /\ osid[o] \in StreamIds
          /\ streams' = WithoutStream(osid[o])
          /\ UNCHANGED osess
      BY <1>5, NoneAssumption DEF OperatorRemove, OperatorTasks
    <2>2. QED
      BY <1>1, <2>1, RemoveOne
  <1>6. ASSUME UNCHANGED <<streams, osess>>
        PROVE  [Lifecycle!Next]_(Lifecycle!vars)
    BY <1>1, <1>6, Stutter
  <1>7. QED
    BY <1>3, <1>4, <1>5, <1>6
       DEF OperatorNext, OperatorRefused, OperatorInsertFails, OperatorAnnounce,
           OperatorAnnounceFails, OperatorFrame, OperatorForward,
           OperatorForwardFails, OperatorSocketEnds, OperatorTryClose,
           OperatorOutboundSend, OperatorOutboundStop, OperatorHangup,
           storeVars, operTask

\* Each step of each task is a step of the session's lifecycle or a stutter.
LEMMA LifecycleStep ==
    FullInv /\ [Next]_vars => [Lifecycle!Next]_(Lifecycle!vars)
  <1> SUFFICES ASSUME FullInv, [Next]_vars
               PROVE  [Lifecycle!Next]_(Lifecycle!vars)
    OBVIOUS
  <1>1. CASE UNCHANGED vars
    BY <1>1, Stutter
       DEF vars, storeVars, agentVars, agentTask, operVars, operTask
  <1>2. QED
    BY <1>1, StoreRefines, AgentRefines, OperatorRefines DEF Next

\* The relay implements the session lifecycle: whatever its tasks interleave to,
\* a session's place for an agent is filled once and never refilled, and only an
\* operator let in while the agent was attached and the session unexpired enters
\* the stream table of a session that still exists.
THEOREM RelayImplementsLifecycle == Spec => LifecycleSpec
  BY LifecycleInit, LifecycleStep, RelayFullInvariant, PTL
     DEF Spec, LifecycleSpec, Lifecycle!Spec
=============================================================================
