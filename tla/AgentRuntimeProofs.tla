-------------------------- MODULE AgentRuntimeProofs --------------------------
(***************************************************************************)
(* Theorems about AgentRuntime, for every value of its constants.          *)
(***************************************************************************)
EXTENDS AgentRuntime, TLAPS

-----------------------------------------------------------------------------
(* The inductive invariant, one stream at a time.                          *)

\* What the place of the reading task says of the stream it is busy with
MainTask ==
    /\ main \in {"connecting", "reporting"} =>
         cur \in opened /\ cur \notin mapped /\ writer[cur] = "none"
    /\ main = "connecting" => sent[cur] = 0
    /\ main = "delivering" => cur \in mapped /\ sent[cur] = accepted[cur] + 1

\* A stream has its tasks from MainConnect on, and only then an entry
Lifetimes ==
    \A id \in Streams :
        /\ id \notin opened => sent[id] = 0 /\ writer[id] = "none"
        /\ id \in mapped => writer[id] # "none"
        /\ writer[id] = "none" <=> reader[id] = "none"
        /\ writer[id] = "none" <=> target[id] = "none"
        /\ writer[id] = "none" => accepted[id] = 0 /\ written[id] = <<>>
        /\ writer[id] # "running" => toTcp[id] = <<>>

\* The chunks waiting continue those that are done, without a gap
Continues(done, waiting) ==
    /\ \A i \in DOMAIN done : done[i] = i
    /\ \A i \in DOMAIN waiting : waiting[i] = Len(done) + i

Total(done, waiting) == Len(done) + Len(waiting)

Numbered ==
    \A id \in Streams :
        /\ Continues(written[id], toTcp[id])
        /\ writer[id] = "running" => Total(written[id], toTcp[id]) = accepted[id]

\* While an entry is there, every chunk is accepted before the next is read
Counted ==
    \A id \in mapped :
        ~(main = "delivering" /\ cur = id) => sent[id] = accepted[id]

\* StreamClose is the last thing the read task does
CloseIsFromDone ==
    /\ \A i \in DOMAIN outq : outq[i].kind = "StreamClose" =>
          reader[outq[i].stream] = "done"
    /\ \A id \in Streams : \A i \in DOMAIN heard[id] :
          heard[id][i] = "StreamClose" => reader[id] = "done"

IndInv ==
    /\ TypeOK
    /\ MainTask
    /\ Lifetimes
    /\ Numbered
    /\ Counted
    /\ CloseLosesNothing
    /\ CloseIsFromDone
    /\ NothingAfterClose

-----------------------------------------------------------------------------
(* Channels.                                                               *)

\* A message about a stream is well formed.
LEMMA MsgType ==
    /\ \A kind \in Kinds, id \in Streams : Msg(kind, id) \in Messages
    /\ Hello \in Messages
    /\ \A m \in Messages : /\ m.kind \in Kinds \cup {"AgentHello"}
                           /\ m.stream \in Streams \cup {None}
                           /\ m.kind \in Kinds => m.stream \in Streams
  BY DEF Msg, Hello, Messages, Kinds

\* Initially nothing is open and only the hello waits to be sent.
LEMMA InitInv == Init => IndInv
  <1> SUFFICES ASSUME Init PROVE IndInv
    OBVIOUS
  <1>1. PlacesOK
    BY DEF Init, PlacesOK, MainPc, WriterPc, ReaderPc
  <1>2. CountsOK
    BY MaxDataNat DEF Init, CountsOK
  <1>3. QueuesOK
    BY MsgType, CapacityPositive DEF Init, QueuesOK
  <1>4. MainTask /\ Lifetimes
    BY DEF Init, MainTask, Lifetimes
  <1>5. Numbered /\ Counted /\ CloseLosesNothing
    BY DEF Init, Numbered, Continues, Counted, CloseLosesNothing
  <1>6. CloseIsFromDone /\ NothingAfterClose
    BY DEF Init, CloseIsFromDone, NothingAfterClose, Hello, Msg
  <1>7. QED
    BY <1>1, <1>2, <1>3, <1>4, <1>5, <1>6 DEF IndInv, TypeOK

-----------------------------------------------------------------------------
(* Type correctness.                                                       *)

\* The steps of the reading task keep every variable's type.
LEMMA MainStepTypeOK ==
    ASSUME IndInv, MainNext PROVE TypeOK'
  <1> USE DEF IndInv, TypeOK, localVars, outVars, linkVars, relayVars, mainVars
  <1>1. ASSUME NEW id \in Streams, NEW name \in Targets, MainOpen(id, name)
        PROVE TypeOK'
    <2>1. PlacesOK'
      BY <1>1 DEF MainOpen, Reads, PlacesOK, MainPc
    <2>2. CountsOK'
      BY <1>1 DEF MainOpen, Reads, CountsOK
    <2>3. QueuesOK'
      BY <1>1 DEF MainOpen, Reads, QueuesOK
    <2>4. QED
      BY <2>1, <2>2, <2>3
  <1>2. ASSUME NEW id \in Streams, MainData(id)
        PROVE TypeOK'
    <2>1. PlacesOK'
      BY <1>2 DEF MainData, Reads, PlacesOK, MainPc
    <2>2. CountsOK'
      BY <1>2, MaxDataNat DEF MainData, Reads, CountsOK
    <2>3. QueuesOK'
      BY <1>2 DEF MainData, Reads, QueuesOK
    <2>4. QED
      BY <2>1, <2>2, <2>3
  <1>3. ASSUME NEW id \in Streams, MainClose(id)
        PROVE TypeOK'
    <2>1. PlacesOK'
      BY <1>3 DEF MainClose, Reads, PlacesOK, MainPc
    <2>2. CountsOK'
      BY <1>3 DEF MainClose, Reads, CountsOK
    <2>3. QueuesOK'
      BY <1>3 DEF MainClose, Reads, QueuesOK
    <2>4. QED
      BY <2>1, <2>2, <2>3
  <1>4. CASE MainConnect
    <2>1. PlacesOK'
      BY <1>4 DEF MainConnect, PlacesOK, MainPc, WriterPc, ReaderPc, MainTask
    <2>2. CountsOK'
      BY <1>4 DEF MainConnect, CountsOK
    <2>3. QueuesOK'
      BY <1>4 DEF MainConnect, QueuesOK
    <2>4. QED
      BY <2>1, <2>2, <2>3
  <1>5. CASE MainConnectFails
    <2>1. PlacesOK'
      BY <1>5 DEF MainConnectFails, PlacesOK, MainPc
    <2>2. CountsOK'
      BY <1>5 DEF MainConnectFails, CountsOK
    <2>3. QueuesOK'
      BY <1>5 DEF MainConnectFails, QueuesOK
    <2>4. QED
      BY <2>1, <2>2, <2>3
  <1>6. CASE MainReport
    <2>1. PlacesOK'
      BY <1>6 DEF MainReport, PlacesOK, MainPc
    <2>2. CountsOK'
      BY <1>6 DEF MainReport, CountsOK
    <2>3. QueuesOK'
      <3>1. Msg("StreamError", cur) \in Messages
        BY <1>6, MsgType DEF MainReport, MainTask, PlacesOK, Kinds
      <3>2. outq' \in Seq(Messages) /\ Len(outq') <= Capacity
        BY <1>6, <3>1, CapacityPositive DEF MainReport, OutRoom, QueuesOK
      <3>3. QED
        BY <1>6, <3>2 DEF MainReport, QueuesOK
    <2>4. QED
      BY <2>1, <2>2, <2>3
  <1>7. CASE MainReportFails
    <2>1. PlacesOK'
      BY <1>7 DEF MainReportFails, Leave, PlacesOK, MainPc
    <2>2. CountsOK'
      BY <1>7 DEF MainReportFails, Leave, CountsOK
    <2>3. QueuesOK'
      BY <1>7 DEF MainReportFails, Leave, QueuesOK
    <2>4. QED
      BY <2>1, <2>2, <2>3
  <1>8. CASE MainDeliver
    <2>1. PlacesOK'
      BY <1>8 DEF MainDeliver, PlacesOK, MainPc
    <2>2. CountsOK'
      BY <1>8, MaxDataNat DEF MainDeliver, MainTask, PlacesOK, CountsOK
    <2>3. QueuesOK'
      <3>1. cur \in Streams /\ sent[cur] \in Chunks
        BY <1>8, MaxDataNat DEF MainDeliver, MainTask, PlacesOK, CountsOK, Chunks
      <3>2. /\ Append(toTcp[cur], sent[cur]) \in Seq(Chunks)
            /\ Len(Append(toTcp[cur], sent[cur])) <= Capacity
        BY <1>8, <3>1, CapacityPositive DEF MainDeliver, QueuesOK
      <3>3. QED
        BY <1>8, <3>1, <3>2 DEF MainDeliver, QueuesOK
    <2>4. QED
      BY <2>1, <2>2, <2>3
  <1>9. CASE MainDeliverFails
    <2>1. PlacesOK'
      BY <1>9 DEF MainDeliverFails, Leave, PlacesOK, MainPc
    <2>2. CountsOK'
      BY <1>9 DEF MainDeliverFails, Leave, CountsOK
    <2>3. QueuesOK'
      BY <1>9 DEF MainDeliverFails, Leave, QueuesOK
    <2>4. QED
      BY <2>1, <2>2, <2>3
  <1>10. CASE MainError
    <2>1. PlacesOK'
      BY <1>10 DEF MainError, Leave, PlacesOK, MainPc
    <2>2. CountsOK'
      BY <1>10 DEF MainError, Leave, CountsOK
    <2>3. QueuesOK'
      BY <1>10 DEF MainError, Leave, QueuesOK
    <2>4. QED
      BY <2>1, <2>2, <2>3
  <1>11. CASE MainLinkEnds
    <2>1. PlacesOK'
      BY <1>11 DEF MainLinkEnds, Leave, PlacesOK, MainPc
    <2>2. CountsOK'
      BY <1>11 DEF MainLinkEnds, Leave, CountsOK
    <2>3. QueuesOK'
      BY <1>11 DEF MainLinkEnds, Leave, QueuesOK
    <2>4. QED
      BY <2>1, <2>2, <2>3
  <1>12. CASE Exit
    <2>1. PlacesOK'
      BY <1>12 DEF Exit, PlacesOK, MainPc, WriterPc, ReaderPc
    <2>2. CountsOK'
      BY <1>12 DEF Exit, CountsOK
    <2>3. QueuesOK'
      BY <1>12, CapacityPositive DEF Exit, QueuesOK
    <2>4. QED
      BY <2>1, <2>2, <2>3
  <1>13. QED
    BY <1>1, <1>2, <1>3, <1>4, <1>5, <1>6, <1>7, <1>8, <1>9, <1>10, <1>11, <1>12 DEF MainNext

\* So do the tasks of the local connections ...
LEMMA ConnectionStepTypeOK ==
    ASSUME IndInv, ConnectionNext PROVE TypeOK'
  <1> USE DEF IndInv, TypeOK, localVars, outVars, linkVars, relayVars, mainVars
  <1>1. ASSUME NEW id \in Streams, WriterWrites(id)
        PROVE TypeOK'
    <2>1. PlacesOK'
      BY <1>1 DEF WriterWrites, PlacesOK
    <2>2. CountsOK'
      BY <1>1 DEF WriterWrites, CountsOK
    <2>3. QueuesOK'
      <3>1. /\ Head(toTcp[id]) \in Chunks
            /\ Tail(toTcp[id]) \in Seq(Chunks)
            /\ Len(Tail(toTcp[id])) <= Capacity
        BY <1>1, CapacityPositive DEF WriterWrites, QueuesOK
      <3>2. Append(written[id], Head(toTcp[id])) \in Seq(Chunks)
        BY <3>1 DEF QueuesOK
      <3>3. QED
        BY <1>1, <3>1, <3>2 DEF WriterWrites, QueuesOK
    <2>4. QED
      BY <2>1, <2>2, <2>3
  <1>2. ASSUME NEW id \in Streams, WriterFails(id)
        PROVE TypeOK'
    <2>1. PlacesOK'
      BY <1>2 DEF WriterFails, PlacesOK, WriterPc
    <2>2. CountsOK'
      BY <1>2 DEF WriterFails, CountsOK
    <2>3. QueuesOK'
      BY <1>2, CapacityPositive DEF WriterFails, QueuesOK
    <2>4. QED
      BY <2>1, <2>2, <2>3
  <1>3. ASSUME NEW id \in Streams, WriterEnds(id)
        PROVE TypeOK'
    <2>1. PlacesOK'
      BY <1>3 DEF WriterEnds, PlacesOK, WriterPc
    <2>2. CountsOK'
      BY <1>3 DEF WriterEnds, CountsOK
    <2>3. QueuesOK'
      BY <1>3 DEF WriterEnds, QueuesOK
    <2>4. QED
      BY <2>1, <2>2, <2>3
  <1>4. ASSUME NEW id \in Streams, ReaderReads(id)
        PROVE TypeOK'
    <2>1. PlacesOK'
      BY <1>4 DEF ReaderReads, ReaderGoes, PlacesOK, ReaderPc
    <2>2. CountsOK'
      BY <1>4, MaxDataNat DEF ReaderReads, ReaderGoes, CountsOK
    <2>3. QueuesOK'
      BY <1>4 DEF ReaderReads, ReaderGoes, QueuesOK
    <2>4. QED
      BY <2>1, <2>2, <2>3
  <1>5. ASSUME NEW id \in Streams, ReaderEof(id)
        PROVE TypeOK'
    <2>1. PlacesOK'
      BY <1>5 DEF ReaderEof, ReaderGoes, PlacesOK, ReaderPc
    <2>2. CountsOK'
      BY <1>5 DEF ReaderEof, ReaderGoes, CountsOK
    <2>3. QueuesOK'
      BY <1>5 DEF ReaderEof, ReaderGoes, QueuesOK
    <2>4. QED
      BY <2>1, <2>2, <2>3
  <1>6. ASSUME NEW id \in Streams, ReaderError(id)
        PROVE TypeOK'
    <2>1. PlacesOK'
      BY <1>6 DEF ReaderError, ReaderGoes, PlacesOK, ReaderPc
    <2>2. CountsOK'
      BY <1>6 DEF ReaderError, ReaderGoes, CountsOK
    <2>3. QueuesOK'
      BY <1>6 DEF ReaderError, ReaderGoes, QueuesOK
    <2>4. QED
      BY <2>1, <2>2, <2>3
  <1>7. ASSUME NEW id \in Streams, ReaderSends(id)
        PROVE TypeOK'
    <2>1. PlacesOK'
      BY <1>7 DEF ReaderSends, ReaderGoes, PlacesOK, ReaderPc, AfterFrame, FrameKind
    <2>2. CountsOK'
      BY <1>7 DEF ReaderSends, ReaderGoes, CountsOK
    <2>3. QueuesOK'
      <3>1. Msg(FrameKind[reader[id]], id) \in Messages
        BY <1>7, MsgType DEF ReaderSends, FrameKind, Kinds
      <3>2. outq' \in Seq(Messages) /\ Len(outq') <= Capacity
        BY <1>7, <3>1, CapacityPositive DEF ReaderSends, OutRoom, QueuesOK
      <3>3. QED
        BY <1>7, <3>2 DEF ReaderSends, ReaderGoes, QueuesOK
    <2>4. QED
      BY <2>1, <2>2, <2>3
  <1>8. ASSUME NEW id \in Streams, ReaderSendFails(id)
        PROVE TypeOK'
    <2>1. PlacesOK'
      BY <1>8 DEF ReaderSendFails, ReaderGoes, PlacesOK, ReaderPc
    <2>2. CountsOK'
      BY <1>8 DEF ReaderSendFails, ReaderGoes, CountsOK
    <2>3. QueuesOK'
      BY <1>8 DEF ReaderSendFails, ReaderGoes, QueuesOK
    <2>4. QED
      BY <2>1, <2>2, <2>3
  <1>9. ASSUME NEW id \in Streams, TargetGoes(id)
        PROVE TypeOK'
    <2>1. PlacesOK'
      BY <1>9 DEF TargetGoes, PlacesOK
    <2>2. CountsOK'
      BY <1>9 DEF TargetGoes, CountsOK
    <2>3. QueuesOK'
      BY <1>9 DEF TargetGoes, QueuesOK
    <2>4. QED
      BY <2>1, <2>2, <2>3
  <1>10. QED
    BY <1>1, <1>2, <1>3, <1>4, <1>5, <1>6, <1>7, <1>8, <1>9 DEF ConnectionNext

\* ... and the send task and the websocket.
LEMMA LinkStepTypeOK ==
    ASSUME IndInv, SendTaskSends \/ SendTaskStops \/ LinkDrops PROVE TypeOK'
  <1> USE DEF IndInv, TypeOK, localVars, outVars, linkVars, relayVars, mainVars
  <1>1. CASE SendTaskSends
    <2>1. PlacesOK'
      BY <1>1 DEF SendTaskSends, PlacesOK
    <2>2. CountsOK'
      BY <1>1 DEF SendTaskSends, CountsOK
    <2>3. QueuesOK'
      <3>1. /\ Head(outq) \in Messages
            /\ Tail(outq) \in Seq(Messages) /\ Len(Tail(outq)) <= Capacity
        BY <1>1, CapacityPositive DEF SendTaskSends, QueuesOK
      <3>2. /\ Head(outq).stream \in Streams \cup {None}
            /\ Head(outq).kind \in Kinds \cup {"AgentHello"}
        BY <3>1, MsgType
      <3>3. heard' \in [Streams \cup {None} -> Seq(Kinds \cup {"AgentHello"})]
        BY <1>1, <3>2 DEF SendTaskSends, QueuesOK
      <3>4. QED
        BY <1>1, <3>1, <3>3 DEF SendTaskSends, QueuesOK
    <2>4. QED
      BY <2>1, <2>2, <2>3
  <1>2. CASE SendTaskStops
    <2>1. PlacesOK'
      BY <1>2 DEF SendTaskStops, PlacesOK
    <2>2. CountsOK'
      BY <1>2 DEF SendTaskStops, CountsOK
    <2>3. QueuesOK'
      BY <1>2, CapacityPositive DEF SendTaskStops, QueuesOK
    <2>4. QED
      BY <2>1, <2>2, <2>3
  <1>3. CASE LinkDrops
    <2>1. PlacesOK'
      BY <1>3 DEF LinkDrops, PlacesOK
    <2>2. CountsOK'
      BY <1>3 DEF LinkDrops, CountsOK
    <2>3. QueuesOK'
      BY <1>3 DEF LinkDrops, QueuesOK
    <2>4. QED
      BY <2>1, <2>2, <2>3
  <1>4. QED
    BY <1>1, <1>2, <1>3

-----------------------------------------------------------------------------
(* Lifetimes of a stream's entry and tasks.                                *)

\* A stream's entry and tasks come and go together, and the reading task knows
\* which it may use.
LEMMA LifetimesStep ==
    ASSUME IndInv, Next PROVE MainTask' /\ Lifetimes'
  <1> USE NoneNoStream, MaxDataNat
      DEF IndInv, TypeOK, PlacesOK, CountsOK, MainTask, Lifetimes,
          localVars, outVars, linkVars, relayVars, mainVars
  <1>1. ASSUME NEW id \in Streams, NEW name \in Targets, MainOpen(id, name)
        PROVE MainTask' /\ Lifetimes'
    BY <1>1 DEF MainOpen, Reads
  <1>2. ASSUME NEW id \in Streams, MainData(id)
        PROVE MainTask' /\ Lifetimes'
    BY <1>2 DEF MainData, Reads, Counted
  <1>3. ASSUME NEW id \in Streams, MainClose(id)
        PROVE MainTask' /\ Lifetimes'
    BY <1>3 DEF MainClose, Reads
  <1>4. CASE MainConnect
    BY <1>4 DEF MainConnect
  <1>5. CASE MainConnectFails
    BY <1>5 DEF MainConnectFails
  <1>6. CASE MainReport
    BY <1>6 DEF MainReport
  <1>7. CASE MainReportFails
    BY <1>7 DEF MainReportFails, Leave
  <1>8. CASE MainDeliver
    BY <1>8 DEF MainDeliver, QueuesOK
  <1>9. CASE MainDeliverFails
    BY <1>9 DEF MainDeliverFails, Leave
  <1>10. CASE MainError
    BY <1>10 DEF MainError, Reads, Leave
  <1>11. CASE MainLinkEnds
    BY <1>11 DEF MainLinkEnds, Leave
  <1>12. CASE Exit
    BY <1>12 DEF Exit
  <1>13. ASSUME NEW id \in Streams, WriterWrites(id)
        PROVE MainTask' /\ Lifetimes'
    <2>1. MainTask'
      BY <1>13 DEF WriterWrites
    <2>2. \A j \in Streams : writer'[j] # "running" => toTcp'[j] = <<>>
      BY <1>13 DEF WriterWrites, QueuesOK
    <2>3. QED
      BY <1>13, <2>1, <2>2 DEF WriterWrites
  <1>14. ASSUME NEW id \in Streams, WriterFails(id)
        PROVE MainTask' /\ Lifetimes'
    <2>1. MainTask'
      BY <1>14 DEF WriterFails
    <2>2. Lifetimes'
      BY <1>14 DEF WriterFails, QueuesOK
    <2>3. QED
      BY <2>1, <2>2
  <1>15. ASSUME NEW id \in Streams, WriterEnds(id)
        PROVE MainTask' /\ Lifetimes'
    BY <1>15 DEF WriterEnds
  <1>16. ASSUME NEW id \in Streams, ReaderReads(id)
        PROVE MainTask' /\ Lifetimes'
    BY <1>16 DEF ReaderReads, ReaderGoes
  <1>17. ASSUME NEW id \in Streams, ReaderEof(id)
        PROVE MainTask' /\ Lifetimes'
    BY <1>17 DEF ReaderEof, ReaderGoes
  <1>18. ASSUME NEW id \in Streams, ReaderError(id)
        PROVE MainTask' /\ Lifetimes'
    BY <1>18 DEF ReaderError, ReaderGoes
  <1>19. ASSUME NEW id \in Streams, ReaderSends(id)
        PROVE MainTask' /\ Lifetimes'
    BY <1>19 DEF ReaderSends, ReaderGoes, AfterFrame, FrameKind
  <1>20. ASSUME NEW id \in Streams, ReaderSendFails(id)
        PROVE MainTask' /\ Lifetimes'
    BY <1>20 DEF ReaderSendFails, ReaderGoes, FrameKind
  <1>21. ASSUME NEW id \in Streams, TargetGoes(id)
        PROVE MainTask' /\ Lifetimes'
    BY <1>21 DEF TargetGoes
  <1>22. CASE SendTaskSends
    BY <1>22 DEF SendTaskSends
  <1>23. CASE SendTaskStops
    BY <1>23 DEF SendTaskStops
  <1>24. CASE LinkDrops
    BY <1>24 DEF LinkDrops
  <1>25. QED
    BY <1>1, <1>2, <1>3, <1>4, <1>5, <1>6, <1>7, <1>8, <1>9, <1>10,
       <1>11, <1>12, <1>13, <1>14, <1>15, <1>16, <1>17, <1>18,
       <1>19, <1>20, <1>21, <1>22, <1>23, <1>24
    DEF Next, MainNext, ConnectionNext

-----------------------------------------------------------------------------
(* The order of the data.                                                  *)

\* One more chunk waits.
LEMMA OneMoreWaits ==
    ASSUME NEW done \in Seq(Chunks), NEW waiting \in Seq(Chunks),
           NEW x \in Chunks, Continues(done, waiting),
           x = Total(done, waiting) + 1
    PROVE  /\ Continues(done, Append(waiting, x))
           /\ Total(done, Append(waiting, x)) = x
  BY DEF Continues, Total, Chunks

\* The first of those that wait is done.
LEMMA OneMoreDone ==
    ASSUME NEW done \in Seq(Chunks), NEW waiting \in Seq(Chunks),
           waiting # <<>>, Continues(done, waiting)
    PROVE  /\ Continues(Append(done, Head(waiting)), Tail(waiting))
           /\ Total(Append(done, Head(waiting)), Tail(waiting)) = Total(done, waiting)
  <1>1. Len(waiting) \in Nat \ {0} /\ Head(waiting) = waiting[1] /\ 1 \in DOMAIN waiting
    OBVIOUS
  <1>2. Head(waiting) = Len(done) + 1
    BY <1>1 DEF Continues
  <1>3. /\ Len(Tail(waiting)) = Len(waiting) - 1
        /\ \A i \in DOMAIN Tail(waiting) : Tail(waiting)[i] = waiting[i + 1] /\ i + 1 \in DOMAIN waiting
    BY <1>1
  <1>4. Len(Append(done, Head(waiting))) = Len(done) + 1
    BY <1>1
  <1>5. \A i \in DOMAIN Append(done, Head(waiting)) : Append(done, Head(waiting))[i] = i
    BY <1>1, <1>2 DEF Continues
  <1>6. \A i \in DOMAIN Tail(waiting) : Tail(waiting)[i] = Len(done) + 1 + i
    <2> TAKE i \in DOMAIN Tail(waiting)
    <2>1. i \in Nat /\ Len(done) \in Nat
      BY <1>1
    <2>2. Tail(waiting)[i] = Len(done) + (i + 1)
      BY <1>3 DEF Continues
    <2>3. QED
      BY <2>1, <2>2
  <1>7. QED
    BY <1>1, <1>3, <1>4, <1>5, <1>6 DEF Continues, Total

\* Giving up what waits leaves what is done in order.
LEMMA NoneWaits ==
    ASSUME NEW done \in Seq(Chunks), NEW waiting, Continues(done, waiting)
    PROVE  Continues(done, <<>>) /\ Total(done, <<>>) = Len(done)
  BY DEF Continues, Total

\* What a write task has written and what waits for it are the accepted chunks,
\* in order.
LEMMA NumberedStep ==
    ASSUME IndInv, Next PROVE Numbered'
  <1> USE DEF IndInv, TypeOK, PlacesOK, Numbered, localVars, outVars, linkVars, relayVars, mainVars
  <1>1. ASSUME NEW id \in Streams, NEW name \in Targets, MainOpen(id, name)
        PROVE Numbered'
    BY <1>1 DEF MainOpen, Reads
  <1>2. ASSUME NEW id \in Streams, MainData(id)
        PROVE Numbered'
    BY <1>2 DEF MainData, Reads
  <1>3. ASSUME NEW id \in Streams, MainClose(id)
        PROVE Numbered'
    BY <1>3 DEF MainClose, Reads
  <1>4. CASE MainConnect
    <2>1. /\ cur \in Streams /\ cur \in opened /\ writer[cur] = "none"
      BY <1>4 DEF MainConnect, MainTask
    <2>2. written[cur] = <<>> /\ toTcp[cur] = <<>> /\ accepted[cur] = 0
      BY <2>1 DEF Lifetimes
    <2>3. Total(written[cur], toTcp[cur]) = accepted[cur]
      BY <2>2 DEF Total
    <2>4. \A id \in Streams \ {cur} : writer'[id] = writer[id]
      BY <1>4 DEF MainConnect
    <2>5. QED
      BY <1>4, <2>3, <2>4 DEF MainConnect
  <1>5. CASE MainConnectFails
    BY <1>5 DEF MainConnectFails
  <1>6. CASE MainReport
    BY <1>6 DEF MainReport
  <1>7. CASE MainReportFails
    BY <1>7 DEF MainReportFails, Leave
  <1>8. CASE MainDeliver
    <2>1. /\ cur \in mapped /\ cur \in Streams /\ writer[cur] = "running"
          /\ sent[cur] = accepted[cur] + 1 /\ sent[cur] \in Chunks
      BY <1>8, MaxDataNat DEF MainDeliver, MainTask, CountsOK, Chunks
    <2>2. toTcp[cur] \in Seq(Chunks) /\ written[cur] \in Seq(Chunks)
      BY <2>1 DEF QueuesOK
    <2>3. /\ Continues(written[cur], Append(toTcp[cur], sent[cur]))
          /\ Total(written[cur], Append(toTcp[cur], sent[cur])) = sent[cur]
      BY <2>1, <2>2, OneMoreWaits
    <2>4. /\ toTcp' = [toTcp EXCEPT ![cur] = Append(toTcp[cur], sent[cur])]
          /\ accepted' = [accepted EXCEPT ![cur] = sent[cur]]
          /\ UNCHANGED <<written, writer>>
      BY <1>8, <2>1 DEF MainDeliver
    <2>5. QED
      BY <2>1, <2>3, <2>4 DEF QueuesOK, CountsOK
  <1>9. CASE MainDeliverFails
    BY <1>9 DEF MainDeliverFails, Leave
  <1>10. CASE MainError
    BY <1>10 DEF MainError, Reads, Leave
  <1>11. CASE MainLinkEnds
    BY <1>11 DEF MainLinkEnds, Leave
  <1>12. CASE Exit
    <2>1. \A id \in Streams : Continues(written[id], <<>>)
      BY NoneWaits DEF QueuesOK
    <2>2. QED
      BY <1>12, <2>1 DEF Exit, QueuesOK
  <1>13. ASSUME NEW id \in Streams, WriterWrites(id)
        PROVE Numbered'
    <2>1. /\ toTcp[id] \in Seq(Chunks) /\ written[id] \in Seq(Chunks)
          /\ toTcp[id] # <<>>
      BY <1>13 DEF WriterWrites, QueuesOK
    <2>2. LET w == Append(written[id], Head(toTcp[id]))
              q == Tail(toTcp[id])
          IN  Continues(w, q) /\ Total(w, q) = Total(written[id], toTcp[id])
      BY <2>1, OneMoreDone
    <2>3. /\ written' = [written EXCEPT ![id] = Append(written[id], Head(toTcp[id]))]
          /\ toTcp' = [toTcp EXCEPT ![id] = Tail(toTcp[id])]
          /\ UNCHANGED <<writer, accepted>>
      BY <1>13 DEF WriterWrites
    <2>4. QED
      BY <2>2, <2>3 DEF QueuesOK
  <1>14. ASSUME NEW id \in Streams, WriterFails(id)
        PROVE Numbered'
    <2>1. Continues(written[id], <<>>)
      BY NoneWaits DEF QueuesOK
    <2>2. QED
      BY <1>14, <2>1 DEF WriterFails, QueuesOK
  <1>15. ASSUME NEW id \in Streams, WriterEnds(id)
        PROVE Numbered'
    BY <1>15 DEF WriterEnds
  <1>16. ASSUME NEW id \in Streams, ReaderReads(id)
        PROVE Numbered'
    BY <1>16 DEF ReaderReads, ReaderGoes
  <1>17. ASSUME NEW id \in Streams, ReaderEof(id)
        PROVE Numbered'
    BY <1>17 DEF ReaderEof, ReaderGoes
  <1>18. ASSUME NEW id \in Streams, ReaderError(id)
        PROVE Numbered'
    BY <1>18 DEF ReaderError, ReaderGoes
  <1>19. ASSUME NEW id \in Streams, ReaderSends(id)
        PROVE Numbered'
    BY <1>19 DEF ReaderSends, ReaderGoes
  <1>20. ASSUME NEW id \in Streams, ReaderSendFails(id)
        PROVE Numbered'
    BY <1>20 DEF ReaderSendFails, ReaderGoes
  <1>21. ASSUME NEW id \in Streams, TargetGoes(id)
        PROVE Numbered'
    BY <1>21 DEF TargetGoes
  <1>22. CASE SendTaskSends
    BY <1>22 DEF SendTaskSends
  <1>23. CASE SendTaskStops
    BY <1>23 DEF SendTaskStops
  <1>24. CASE LinkDrops
    BY <1>24 DEF LinkDrops
  <1>25. QED
    BY <1>1, <1>2, <1>3, <1>4, <1>5, <1>6, <1>7, <1>8, <1>9, <1>10,
       <1>11, <1>12, <1>13, <1>14, <1>15, <1>16, <1>17, <1>18,
       <1>19, <1>20, <1>21, <1>22, <1>23, <1>24
    DEF Next, MainNext, ConnectionNext

\* The reading task hands a chunk over before it reads the next frame.
LEMMA CountedStep ==
    ASSUME IndInv, Next PROVE Counted'
  <1> USE DEF IndInv, TypeOK, PlacesOK, CountsOK, MainTask, Counted, localVars, outVars, linkVars, relayVars, mainVars
  <1>1. ASSUME NEW id \in Streams, NEW name \in Targets, MainOpen(id, name)
        PROVE Counted'
    BY <1>1 DEF MainOpen, Reads
  <1>2. ASSUME NEW id \in Streams, MainData(id)
        PROVE Counted'
    BY <1>2 DEF MainData, Reads
  <1>3. ASSUME NEW id \in Streams, MainClose(id)
        PROVE Counted'
    BY <1>3 DEF MainClose, Reads
  <1>4. CASE MainConnect
    BY <1>4, MaxDataNat DEF MainConnect, Lifetimes
  <1>5. CASE MainConnectFails
    BY <1>5 DEF MainConnectFails
  <1>6. CASE MainReport
    BY <1>6 DEF MainReport
  <1>7. CASE MainReportFails
    BY <1>7 DEF MainReportFails, Leave
  <1>8. CASE MainDeliver
    BY <1>8 DEF MainDeliver
  <1>9. CASE MainDeliverFails
    BY <1>9 DEF MainDeliverFails, Leave
  <1>10. CASE MainError
    BY <1>10 DEF MainError, Reads, Leave
  <1>11. CASE MainLinkEnds
    BY <1>11 DEF MainLinkEnds, Leave
  <1>12. CASE Exit
    BY <1>12 DEF Exit
  <1>13. ASSUME NEW id \in Streams, WriterWrites(id)
        PROVE Counted'
    BY <1>13 DEF WriterWrites
  <1>14. ASSUME NEW id \in Streams, WriterFails(id)
        PROVE Counted'
    BY <1>14 DEF WriterFails
  <1>15. ASSUME NEW id \in Streams, WriterEnds(id)
        PROVE Counted'
    BY <1>15 DEF WriterEnds
  <1>16. ASSUME NEW id \in Streams, ReaderReads(id)
        PROVE Counted'
    BY <1>16 DEF ReaderReads, ReaderGoes
  <1>17. ASSUME NEW id \in Streams, ReaderEof(id)
        PROVE Counted'
    BY <1>17 DEF ReaderEof, ReaderGoes
  <1>18. ASSUME NEW id \in Streams, ReaderError(id)
        PROVE Counted'
    BY <1>18 DEF ReaderError, ReaderGoes
  <1>19. ASSUME NEW id \in Streams, ReaderSends(id)
        PROVE Counted'
    BY <1>19 DEF ReaderSends, ReaderGoes
  <1>20. ASSUME NEW id \in Streams, ReaderSendFails(id)
        PROVE Counted'
    BY <1>20 DEF ReaderSendFails, ReaderGoes
  <1>21. ASSUME NEW id \in Streams, TargetGoes(id)
        PROVE Counted'
    BY <1>21 DEF TargetGoes
  <1>22. CASE SendTaskSends
    BY <1>22 DEF SendTaskSends
  <1>23. CASE SendTaskStops
    BY <1>23 DEF SendTaskStops
  <1>24. CASE LinkDrops
    BY <1>24 DEF LinkDrops
  <1>25. QED
    BY <1>1, <1>2, <1>3, <1>4, <1>5, <1>6, <1>7, <1>8, <1>9, <1>10,
       <1>11, <1>12, <1>13, <1>14, <1>15, <1>16, <1>17, <1>18,
       <1>19, <1>20, <1>21, <1>22, <1>23, <1>24
    DEF Next, MainNext, ConnectionNext

\* A write task that ends beside a connected target has written all of them.
LEMMA CloseLosesNothingStep ==
    ASSUME IndInv, Next PROVE CloseLosesNothing'
  <1> USE DEF IndInv, TypeOK, PlacesOK, CloseLosesNothing, localVars, outVars, linkVars, relayVars, mainVars
  <1>1. ASSUME NEW id \in Streams, NEW name \in Targets, MainOpen(id, name)
        PROVE CloseLosesNothing'
    BY <1>1 DEF MainOpen, Reads
  <1>2. ASSUME NEW id \in Streams, MainData(id)
        PROVE CloseLosesNothing'
    BY <1>2 DEF MainData, Reads
  <1>3. ASSUME NEW id \in Streams, MainClose(id)
        PROVE CloseLosesNothing'
    BY <1>3 DEF MainClose, Reads
  <1>4. CASE MainConnect
    BY <1>4 DEF MainConnect, MainTask
  <1>5. CASE MainConnectFails
    BY <1>5 DEF MainConnectFails
  <1>6. CASE MainReport
    BY <1>6 DEF MainReport
  <1>7. CASE MainReportFails
    BY <1>7 DEF MainReportFails, Leave
  <1>8. CASE MainDeliver
    BY <1>8 DEF MainDeliver, MainTask
  <1>9. CASE MainDeliverFails
    BY <1>9 DEF MainDeliverFails, Leave
  <1>10. CASE MainError
    BY <1>10 DEF MainError, Reads, Leave
  <1>11. CASE MainLinkEnds
    BY <1>11 DEF MainLinkEnds, Leave
  <1>12. CASE Exit
    BY <1>12 DEF Exit
  <1>13. ASSUME NEW id \in Streams, WriterWrites(id)
        PROVE CloseLosesNothing'
    BY <1>13 DEF WriterWrites
  <1>14. ASSUME NEW id \in Streams, WriterFails(id)
        PROVE CloseLosesNothing'
    BY <1>14 DEF WriterFails
  <1>15. ASSUME NEW id \in Streams, WriterEnds(id)
        PROVE CloseLosesNothing'
    <2>1. Total(written[id], <<>>) = Len(written[id])
      BY NoneWaits DEF Numbered, QueuesOK
    <2>2. Len(written[id]) = accepted[id]
      BY <1>15, <2>1 DEF WriterEnds, Numbered
    <2>3. QED
      BY <1>15, <2>2 DEF WriterEnds
  <1>16. ASSUME NEW id \in Streams, ReaderReads(id)
        PROVE CloseLosesNothing'
    BY <1>16 DEF ReaderReads, ReaderGoes
  <1>17. ASSUME NEW id \in Streams, ReaderEof(id)
        PROVE CloseLosesNothing'
    BY <1>17 DEF ReaderEof, ReaderGoes
  <1>18. ASSUME NEW id \in Streams, ReaderError(id)
        PROVE CloseLosesNothing'
    BY <1>18 DEF ReaderError, ReaderGoes
  <1>19. ASSUME NEW id \in Streams, ReaderSends(id)
        PROVE CloseLosesNothing'
    BY <1>19 DEF ReaderSends, ReaderGoes
  <1>20. ASSUME NEW id \in Streams, ReaderSendFails(id)
        PROVE CloseLosesNothing'
    BY <1>20 DEF ReaderSendFails, ReaderGoes
  <1>21. ASSUME NEW id \in Streams, TargetGoes(id)
        PROVE CloseLosesNothing'
    BY <1>21 DEF TargetGoes
  <1>22. CASE SendTaskSends
    BY <1>22 DEF SendTaskSends
  <1>23. CASE SendTaskStops
    BY <1>23 DEF SendTaskStops
  <1>24. CASE LinkDrops
    BY <1>24 DEF LinkDrops
  <1>25. QED
    BY <1>1, <1>2, <1>3, <1>4, <1>5, <1>6, <1>7, <1>8, <1>9, <1>10,
       <1>11, <1>12, <1>13, <1>14, <1>15, <1>16, <1>17, <1>18,
       <1>19, <1>20, <1>21, <1>22, <1>23, <1>24
    DEF Next, MainNext, ConnectionNext

-----------------------------------------------------------------------------
(* The end of a stream, as the relay hears it.                             *)

\* A task that is not done has not sent its close.
LEMMA NotClosedYet ==
    ASSUME IndInv, NEW id \in Streams, reader[id] # "done"
    PROVE  /\ \A i \in DOMAIN outq : outq[i].stream = id => outq[i].kind # "StreamClose"
           /\ \A i \in DOMAIN heard[id] : heard[id][i] # "StreamClose"
  BY DEF IndInv, CloseIsFromDone

\* One more message from such a task keeps the order.
LEMMA OneMoreSent ==
    ASSUME IndInv, NEW id \in Streams, reader[id] # "done", NEW kind \in Kinds,
           outq' = Append(outq, Msg(kind, id)), heard' = heard,
           kind = "StreamClose" => reader'[id] = "done",
           \A j \in Streams : reader[j] = "done" => reader'[j] = "done"
    PROVE  CloseIsFromDone' /\ NothingAfterClose'
  <1> DEFINE m == Msg(kind, id)
  <1>1. /\ outq \in Seq(Messages) /\ m \in Messages
        /\ m.kind = kind /\ m.stream = id
    BY MsgType DEF IndInv, TypeOK, QueuesOK, Msg
  <1>2. /\ Len(outq') = Len(outq) + 1 /\ Len(outq) \in Nat
        /\ DOMAIN outq = 1 .. Len(outq) /\ DOMAIN outq' = 1 .. Len(outq) + 1
        /\ outq'[Len(outq) + 1] = m
        /\ \A i \in 1 .. Len(outq) : outq'[i] = outq[i]
    BY <1>1
  <1>3. \A i \in 1 .. Len(outq) : outq[i].kind = "StreamClose" =>
            /\ outq[i].stream \in Streams
            /\ outq[i].stream # id
            /\ reader[outq[i].stream] = "done"
    BY <1>1, <1>2, NotClosedYet, MsgType DEF IndInv, CloseIsFromDone, Kinds
  <1>4. \A j \in Streams : \A i \in DOMAIN heard[j] :
            heard[j][i] = "StreamClose" => j # id
    BY NotClosedYet
  <1>5. CloseIsFromDone'
    <2>1. \A i \in DOMAIN outq' : outq'[i].kind = "StreamClose" =>
             reader'[outq'[i].stream] = "done"
      BY <1>1, <1>2, <1>3
    <2>2. \A j \in Streams : \A i \in DOMAIN heard'[j] :
             heard'[j][i] = "StreamClose" => reader'[j] = "done"
      BY DEF IndInv, CloseIsFromDone
    <2>3. QED
      BY <2>1, <2>2 DEF CloseIsFromDone
  <1>6. NothingAfterClose'
    <2>1. ASSUME NEW i \in DOMAIN outq', outq'[i].kind = "StreamClose"
          PROVE  LastOfStream(outq', i)
      <3>1. CASE i = Len(outq) + 1
        BY <1>2, <3>1 DEF LastOfStream
      <3>2. CASE i \in 1 .. Len(outq)
        <4>1. outq[i].kind = "StreamClose" /\ outq'[i] = outq[i]
          BY <1>2, <2>1, <3>2
        <4>2. LastOfStream(outq, i) /\ outq[i].stream # id
          BY <1>2, <1>3, <3>2, <4>1 DEF IndInv, NothingAfterClose
        <4>3. QED
          BY <1>1, <1>2, <3>2, <4>1, <4>2 DEF LastOfStream
      <3>3. QED
        BY <1>2, <3>1, <3>2
    <2>2. ASSUME NEW j \in Streams, NEW i \in DOMAIN heard'[j],
                 heard'[j][i] = "StreamClose"
          PROVE  i = Len(heard'[j]) /\ \A k \in DOMAIN outq' : outq'[k].stream # j
      <3>1. i = Len(heard[j]) /\ \A k \in DOMAIN outq : outq[k].stream # j
        BY <2>2 DEF IndInv, NothingAfterClose
      <3>2. QED
        BY <1>1, <1>2, <1>4, <2>2, <3>1
    <2>3. QED
      BY <2>1, <2>2 DEF NothingAfterClose
  <1>7. QED
    BY <1>5, <1>6

\* The send task hands the oldest message to the websocket.
LEMMA OldestHeard ==
    ASSUME IndInv, SendTaskSends
    PROVE  CloseIsFromDone' /\ NothingAfterClose'
  <1> DEFINE m == Head(outq)
  <1>1. /\ outq \in Seq(Messages) /\ outq # <<>> /\ outq' = Tail(outq)
        /\ reader' = reader
        /\ heard' = heard \/ heard' = [heard EXCEPT ![m.stream] = Append(@, m.kind)]
    BY DEF IndInv, TypeOK, QueuesOK, SendTaskSends
  <1>2. /\ Len(outq) \in Nat \ {0} /\ DOMAIN outq = 1 .. Len(outq)
        /\ DOMAIN outq' = 1 .. Len(outq) - 1
        /\ m = outq[1] /\ m \in Messages
        /\ \A i \in 1 .. Len(outq) - 1 : outq'[i] = outq[i + 1] /\ i + 1 \in DOMAIN outq
    BY <1>1
  <1>3. ASSUME NEW i \in DOMAIN outq', outq'[i].kind = "StreamClose"
        PROVE  reader'[outq'[i].stream] = "done" /\ LastOfStream(outq', i)
    <2>1. /\ i + 1 \in DOMAIN outq /\ outq[i + 1] = outq'[i]
          /\ i \in Nat
      BY <1>2
    <2>2. reader[outq[i + 1].stream] = "done" /\ LastOfStream(outq, i + 1)
      BY <1>3, <2>1 DEF IndInv, CloseIsFromDone, NothingAfterClose
    <2>3. \A j \in DOMAIN outq' : outq'[j].stream = outq'[i].stream => j <= i
      <3> SUFFICES ASSUME NEW j \in DOMAIN outq', outq'[j].stream = outq'[i].stream
                   PROVE  j <= i
        OBVIOUS
      <3>1. outq'[j] = outq[j + 1] /\ j + 1 \in DOMAIN outq /\ j \in Nat
        BY <1>2
      <3>2. j + 1 <= i + 1
        BY <2>1, <2>2, <3>1 DEF LastOfStream
      <3>3. QED
        BY <2>1, <3>1, <3>2
    <2>4. QED
      BY <1>1, <2>1, <2>2, <2>3 DEF LastOfStream
  <1>4. ASSUME NEW id \in Streams, NEW i \in DOMAIN heard'[id],
               heard'[id][i] = "StreamClose"
        PROVE  /\ reader'[id] = "done" /\ i = Len(heard'[id])
               /\ \A j \in DOMAIN outq' : outq'[j].stream # id
    <2>1. CASE heard'[id] = heard[id]
      BY <1>1, <1>2, <1>4, <2>1 DEF IndInv, CloseIsFromDone, NothingAfterClose
    <2>2. CASE heard'[id] # heard[id]
      <3>1. id = m.stream /\ heard[id] \in Seq(Kinds \cup {"AgentHello"})
            /\ m.kind \in Kinds \cup {"AgentHello"}
            /\ heard'[id] = Append(heard[id], m.kind)
        BY <1>1, <1>2, <2>2, MsgType DEF IndInv, TypeOK, QueuesOK
      <3>2. /\ DOMAIN heard[id] = 1 .. Len(heard[id]) /\ Len(heard[id]) \in Nat
            /\ Len(heard'[id]) = Len(heard[id]) + 1
            /\ DOMAIN heard'[id] = 1 .. Len(heard[id]) + 1
            /\ heard'[id][Len(heard[id]) + 1] = m.kind
            /\ \A k \in 1 .. Len(heard[id]) : heard'[id][k] = heard[id][k]
        BY <3>1
      <3>3. \A k \in DOMAIN heard[id] : heard[id][k] # "StreamClose"
        BY <1>2, <3>1 DEF IndInv, NothingAfterClose
      <3>4. i = Len(heard[id]) + 1 /\ m.kind = "StreamClose"
        BY <1>4, <3>2, <3>3
      <3>5. reader[id] = "done" /\ LastOfStream(outq, 1)
        BY <1>2, <3>1, <3>4 DEF IndInv, CloseIsFromDone, NothingAfterClose
      <3>6. \A j \in DOMAIN outq' : outq'[j].stream # id
        <4>1. \A k \in DOMAIN outq : outq[k].stream = id => k <= 1
          BY <1>2, <3>1, <3>5 DEF LastOfStream
        <4>2. \A j \in DOMAIN outq' : j >= 1 /\ ~(j + 1 <= 1)
          <5>1. DOMAIN outq' = 1 .. Len(outq) - 1 /\ Len(outq) \in Nat
            BY <1>2
          <5>2. QED
            BY ONLY <5>1
        <4>3. \A j \in DOMAIN outq' : j + 1 \in DOMAIN outq /\ outq'[j] = outq[j + 1]
          <5>1. DOMAIN outq' = 1 .. Len(outq) - 1
            BY <1>2
          <5>2. QED
            BY ONLY <5>1, <1>2
        <4>4. QED
          BY ONLY <4>1, <4>2, <4>3
      <3>7. QED
        BY <1>1, <3>2, <3>4, <3>5, <3>6
    <2>3. QED
      BY <2>1, <2>2
  <1>5. QED
    BY <1>3, <1>4 DEF CloseIsFromDone, NothingAfterClose

\* The last the relay hears of a stream is its close.
LEMMA CloseStep ==
    ASSUME IndInv, Next PROVE CloseIsFromDone' /\ NothingAfterClose'
  <1> USE DEF IndInv, TypeOK, PlacesOK, QueuesOK, localVars, outVars, linkVars, relayVars, mainVars,
          CloseIsFromDone, NothingAfterClose
  <1>1. ASSUME NEW id \in Streams, NEW name \in Targets, MainOpen(id, name)
        PROVE CloseIsFromDone' /\ NothingAfterClose'
    BY <1>1 DEF MainOpen, Reads
  <1>2. ASSUME NEW id \in Streams, MainData(id)
        PROVE CloseIsFromDone' /\ NothingAfterClose'
    BY <1>2 DEF MainData, Reads
  <1>3. ASSUME NEW id \in Streams, MainClose(id)
        PROVE CloseIsFromDone' /\ NothingAfterClose'
    BY <1>3 DEF MainClose, Reads
  <1>4. CASE MainConnect
    <2>1. cur \in Streams /\ reader[cur] # "done"
      BY <1>4 DEF MainConnect, MainTask, Lifetimes
    <2>2. \A id \in Streams : reader[id] = "done" => reader'[id] = "done"
      BY <1>4, <2>1 DEF MainConnect
    <2>3. \A i \in DOMAIN outq : outq[i].kind = "StreamClose" => outq[i].stream \in Streams
      BY MsgType DEF Kinds
    <2>4. QED
      BY <1>4, <2>2, <2>3 DEF MainConnect
  <1>5. CASE MainConnectFails
    BY <1>5 DEF MainConnectFails
  <1>6. CASE MainReport
    <2>1. cur \in Streams /\ reader[cur] # "done"
      BY <1>6 DEF MainReport, MainTask, Lifetimes
    <2>2. /\ outq' = Append(outq, Msg("StreamError", cur)) /\ heard' = heard
          /\ reader' = reader
      BY <1>6 DEF MainReport
    <2>3. QED
      BY <2>1, <2>2, OneMoreSent DEF Kinds
  <1>7. CASE MainReportFails
    BY <1>7 DEF MainReportFails, Leave
  <1>8. CASE MainDeliver
    BY <1>8 DEF MainDeliver
  <1>9. CASE MainDeliverFails
    BY <1>9 DEF MainDeliverFails, Leave
  <1>10. CASE MainError
    BY <1>10 DEF MainError, Reads, Leave
  <1>11. CASE MainLinkEnds
    BY <1>11 DEF MainLinkEnds, Leave
  <1>12. CASE Exit
    BY <1>12 DEF Exit
  <1>13. ASSUME NEW id \in Streams, WriterWrites(id)
        PROVE CloseIsFromDone' /\ NothingAfterClose'
    BY <1>13 DEF WriterWrites
  <1>14. ASSUME NEW id \in Streams, WriterFails(id)
        PROVE CloseIsFromDone' /\ NothingAfterClose'
    BY <1>14 DEF WriterFails
  <1>15. ASSUME NEW id \in Streams, WriterEnds(id)
        PROVE CloseIsFromDone' /\ NothingAfterClose'
    BY <1>15 DEF WriterEnds
  <1>16. ASSUME NEW id \in Streams, ReaderReads(id)
        PROVE CloseIsFromDone' /\ NothingAfterClose'
    BY <1>16 DEF ReaderReads, ReaderGoes
  <1>17. ASSUME NEW id \in Streams, ReaderEof(id)
        PROVE CloseIsFromDone' /\ NothingAfterClose'
    BY <1>17 DEF ReaderEof, ReaderGoes
  <1>18. ASSUME NEW id \in Streams, ReaderError(id)
        PROVE CloseIsFromDone' /\ NothingAfterClose'
    BY <1>18 DEF ReaderError, ReaderGoes
  <1>19. ASSUME NEW id \in Streams, ReaderSends(id)
        PROVE CloseIsFromDone' /\ NothingAfterClose'
    <2>1. /\ reader[id] \in {"data", "error", "close"}
          /\ FrameKind[reader[id]] \in Kinds
          /\ FrameKind[reader[id]] = "StreamClose" => AfterFrame[reader[id]] = "done"
      BY <1>19 DEF ReaderSends, FrameKind, AfterFrame, Kinds
    <2>2. /\ outq' = Append(outq, Msg(FrameKind[reader[id]], id)) /\ heard' = heard
          /\ reader' = [reader EXCEPT ![id] = AfterFrame[reader[id]]]
      BY <1>19 DEF ReaderSends, ReaderGoes
    <2>3. QED
      BY <2>1, <2>2, OneMoreSent
  <1>20. ASSUME NEW id \in Streams, ReaderSendFails(id)
        PROVE CloseIsFromDone' /\ NothingAfterClose'
    <2>1. reader[id] # "done"
      BY <1>20 DEF ReaderSendFails, FrameKind
    <2>2. \A j \in Streams : reader[j] = "done" => reader'[j] = "done"
      BY <1>20, <2>1 DEF ReaderSendFails, ReaderGoes
    <2>3. outq' = outq /\ heard' = heard
      BY <1>20 DEF ReaderSendFails
    <2>4. \A i \in DOMAIN outq : outq[i].kind = "StreamClose" => outq[i].stream \in Streams
      BY MsgType DEF Kinds
    <2>5. CloseIsFromDone'
      BY <2>2, <2>3, <2>4
    <2>6. NothingAfterClose'
      BY <2>3 DEF LastOfStream
    <2>7. QED
      BY <2>5, <2>6
  <1>21. ASSUME NEW id \in Streams, TargetGoes(id)
        PROVE CloseIsFromDone' /\ NothingAfterClose'
    BY <1>21 DEF TargetGoes
  <1>22. CASE SendTaskSends
    BY <1>22, OldestHeard
  <1>23. CASE SendTaskStops
    BY <1>23 DEF SendTaskStops
  <1>24. CASE LinkDrops
    BY <1>24 DEF LinkDrops
  <1>25. QED
    BY <1>1, <1>2, <1>3, <1>4, <1>5, <1>6, <1>7, <1>8, <1>9, <1>10,
       <1>11, <1>12, <1>13, <1>14, <1>15, <1>16, <1>17, <1>18,
       <1>19, <1>20, <1>21, <1>22, <1>23, <1>24
    DEF Next, MainNext, ConnectionNext

-----------------------------------------------------------------------------
(* The theorems.                                                           *)

\* The invariant is inductive.
LEMMA NextInv == IndInv /\ [Next]_vars => IndInv'
  <1> SUFFICES ASSUME IndInv, [Next]_vars PROVE IndInv'
    OBVIOUS
  <1>1. CASE Next
    <2>1. TypeOK'
      BY <1>1, MainStepTypeOK, ConnectionStepTypeOK, LinkStepTypeOK DEF Next
    <2>2. QED
      BY <1>1, <2>1, LifetimesStep, NumberedStep, CountedStep,
         CloseLosesNothingStep, CloseStep DEF IndInv
  <1>2. CASE UNCHANGED vars
    BY <1>2 DEF IndInv, TypeOK, PlacesOK, CountsOK, QueuesOK, MainTask, Lifetimes,
       Numbered, Counted, CloseLosesNothing, CloseIsFromDone, NothingAfterClose,
       LastOfStream, vars, mainVars, localVars, outVars, linkVars, relayVars
  <1>3. QED
    BY <1>1, <1>2

\* Every reachable state of the agent satisfies the inductive invariant.
THEOREM AgentInvariant == Spec => []IndInv
  BY InitInv, NextInv, PTL DEF Spec

\* The agent's tasks stay at their places and its channels within their bound,
\* whatever the number of streams and the capacity.
THEOREM AgentTypeCorrect == Spec => []TypeOK
  <1>1. IndInv => TypeOK
    BY DEF IndInv
  <1>2. QED
    BY <1>1, AgentInvariant, PTL

\* A local target is given the relay's chunks in order and without a gap.
THEOREM DataArrivesInOrder == Spec => []DataInOrder
  <1>1. IndInv => DataInOrder
    BY DEF IndInv, Numbered, Continues, DataInOrder
  <1>2. QED
    BY <1>1, AgentInvariant, PTL

\* Closing a stream lets its write task finish what it was given.
THEOREM ClosingLosesNothing == Spec => []CloseLosesNothing
  <1>1. IndInv => CloseLosesNothing
    BY DEF IndInv
  <1>2. QED
    BY <1>1, AgentInvariant, PTL

\* The relay hears nothing of a stream after its close, and one close at most.
THEOREM CloseIsLast == Spec => []NothingAfterClose
  <1>1. IndInv => NothingAfterClose
    BY DEF IndInv
  <1>2. QED
    BY <1>1, AgentInvariant, PTL
=============================================================================
