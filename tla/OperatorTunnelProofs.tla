------------------------- MODULE OperatorTunnelProofs -------------------------
(***************************************************************************)
(* Theorems about OperatorTunnel, for any number of bridges and chunks:    *)
(* each direction of a bridge implements BytePipe.                         *)
(***************************************************************************)
EXTENDS OperatorTunnel, TLAPS

-----------------------------------------------------------------------------
(* The inductive invariant, of one bridge at a time.                       *)

LocalEnded(b) == local[b] \in {"eof", "gone"}

\* A bridge has nothing before its websocket is up
Fresh(b) ==
    /\ bridge[b] = "none" => local[b] = "none"
    /\ bridge[b] \in {"none", "backlog", "connecting"} => link[b] = "none"
    /\ link[b] = "none" =>
          /\ ~PollsDown(b) /\ toRelay[b] = "reading" /\ fromRelay[b] = "reading"
          /\ read[b] = 0 /\ heard[b] = <<>> /\ up[b] = <<>>
          /\ said[b] = <<>> /\ seen[b] = 0 /\ got[b] = <<>>

\* Chunks are numbered from one
Numbered(s) == \A i \in DOMAIN s : s[i] = i

\* The frames of q continue the n chunks the relay has received, and are of the r
\* chunks read; StreamClose is the last one and follows all of them
Continues(n, q, place, r) ==
    \A i \in DOMAIN q :
        IF q[i].kind = "StreamData" THEN q[i].n = n + i /\ n + i <= r
        ELSE i = Len(q) /\ place = "done" /\ n + i - 1 = r

InFlight(b) ==
    /\ Numbered(heard[b])
    /\ Continues(Len(heard[b]), up[b], toRelay[b], read[b])
    /\ link[b] # "up" => up[b] = <<>>

\* While the connection stands nothing of what was read is lost
Upward(b) ==
    /\ link[b] = "up" /\ toRelay[b] \in {"reading", "close"} =>
          Len(heard[b]) + Len(up[b]) = read[b]
    /\ link[b] = "up" /\ toRelay[b] = "data" =>
          Len(heard[b]) + Len(up[b]) + 1 = read[b]
    /\ read[b] <= typed[b]
    /\ toRelay[b] \in {"close", "done"} => LocalEnded(b) /\ read[b] = typed[b]
    /\ heardClose[b] =>
          toRelay[b] = "done" /\ Len(heard[b]) = typed[b] /\ up[b] = <<>>

\* The relay's end is its last frame; what it sent before is numbered
EndIsLast(q) ==
    \A i \in DOMAIN q : IF q[i].kind = "StreamData" THEN q[i].n = i ELSE i = Len(q)

Said(b) ==
    /\ EndIsLast(said[b])
    /\ Len(said[b]) <= MaxDown + 1
    /\ ~RelayEnded(b) => Len(said[b]) <= MaxDown

\* Every data frame read is written before the next one is read
Downward(b) ==
    /\ Numbered(got[b])
    /\ seen[b] <= Len(said[b]) /\ consumed[b] <= Len(got[b])
    /\ PollsDown(b) /\ fromRelay[b] = "reading" => Len(got[b]) = seen[b]
    /\ PollsDown(b) /\ fromRelay[b] = "writing" =>
          Len(got[b]) + 1 = seen[b] /\ said[b][seen[b]].kind = "StreamData"
    /\ bridge[b] = "ok" => RelayEnded(b) /\ Len(got[b]) = Given(b)

BridgeInv(b) == Fresh(b) /\ InFlight(b) /\ Upward(b) /\ Said(b) /\ Downward(b)

IndInv ==
    /\ TypeOK
    /\ \A b \in Bridges : BridgeInv(b)

-----------------------------------------------------------------------------
(* Initial states and type correctness.                                    *)

\* A frame is of a kind that carries a chunk, or an end.
LEMMA Frames ==
    /\ \A n \in 1 .. MaxDown : Data(n) \in Downs
    /\ \A n \in 1 .. MaxUp : Data(n) \in Ups
    /\ \A k \in Ends : End(k) \in Downs
    /\ End("StreamClose") \in Ups
    /\ \A f \in Downs : f.kind \in Ends \cup {"StreamData"}
    /\ \A f \in Downs : f.kind = "StreamData" => f.n \in 1 .. MaxDown
    /\ \A f \in Ups : f.kind \in {"StreamClose", "StreamData"}
    /\ \A f \in Ups : f.kind = "StreamData" => f.n \in 1 .. MaxUp
    /\ "StreamData" \notin Ends
  BY DEF Data, End, Downs, Ups, Ends

\* Initially no local program is connected.
LEMMA InitInv == Init => IndInv
  <1> SUFFICES ASSUME Init PROVE IndInv
    OBVIOUS
  <1>1. PlacesOK
    BY DEF Init, PlacesOK, Listening, BridgePc, ToRelayPc, LocalState
  <1>2. UpwardOK
    BY BoundsAreNat, CapacitiesPositive DEF Init, UpwardOK
  <1>3. DownwardOK
    BY BoundsAreNat, CapacitiesPositive DEF Init, DownwardOK
  <1>4. \A b \in Bridges : Fresh(b) /\ InFlight(b) /\ Upward(b)
    BY DEF Init, Fresh, InFlight, Upward, PollsDown, Numbered, Continues
  <1>5. \A b \in Bridges : Said(b) /\ Downward(b)
    BY BoundsAreNat DEF Init, Said, Downward, RelayEnded, PollsDown, Numbered, EndIsLast
  <1>6. QED
    BY <1>1, <1>2, <1>3, <1>4, <1>5 DEF IndInv, TypeOK, BridgeInv

\* The steps of one bridge and of what it is connected to
BridgeStep(b) ==
    Accept(b) \/ Connect(b) \/ ConnectFails(b) \/ ToRelayStep(b) \/ FromRelayStep(b)
      \/ Environment(b)

\* Every step keeps the types and the bounds of the buffers.
LEMMA BridgeTyped ==
    ASSUME IndInv, NEW b \in Bridges, BridgeStep(b) PROVE TypeOK'
  <1> USE BoundsAreNat, CapacitiesPositive DEF IndInv, TypeOK, upVars, peerVars, downVars
  <1>1. ASSUME LocalConnects(b) PROVE TypeOK'
    <2>1. PlacesOK'
      BY <1>1 DEF LocalConnects, PlacesOK, BridgePc, ToRelayPc, LocalState
    <2>2. UpwardOK'
      BY <1>1 DEF LocalConnects, UpwardOK
    <2>3. DownwardOK'
      BY <1>1 DEF LocalConnects, DownwardOK
    <2>4. QED
      BY <2>1, <2>2, <2>3
  <1>2. ASSUME Accept(b) PROVE TypeOK'
    <2>1. PlacesOK'
      BY <1>2 DEF Accept, PlacesOK, BridgePc, ToRelayPc, LocalState
    <2>2. UpwardOK'
      BY <1>2 DEF Accept, UpwardOK
    <2>3. DownwardOK'
      BY <1>2 DEF Accept, DownwardOK
    <2>4. QED
      BY <2>1, <2>2, <2>3
  <1>3. ASSUME Connect(b) PROVE TypeOK'
    <2>1. PlacesOK'
      BY <1>3 DEF Connect, PlacesOK, BridgePc, ToRelayPc, LocalState
    <2>2. UpwardOK'
      BY <1>3 DEF Connect, UpwardOK
    <2>3. DownwardOK'
      BY <1>3 DEF Connect, DownwardOK
    <2>4. QED
      BY <2>1, <2>2, <2>3
  <1>4. ASSUME ConnectFails(b) PROVE TypeOK'
    <2>1. PlacesOK'
      BY <1>4 DEF ConnectFails, Returns, PlacesOK, BridgePc, ToRelayPc, LocalState
    <2>2. UpwardOK'
      BY <1>4 DEF ConnectFails, Returns, UpwardOK
    <2>3. DownwardOK'
      BY <1>4 DEF ConnectFails, Returns, DownwardOK
    <2>4. QED
      BY <2>1, <2>2, <2>3
  <1>5. ASSUME ReadLocal(b) PROVE TypeOK'
    <2>1. PlacesOK'
      BY <1>5 DEF ReadLocal, PlacesOK, BridgePc, ToRelayPc, LocalState
    <2>2. UpwardOK'
      BY <1>5 DEF ReadLocal, UpwardOK
    <2>3. DownwardOK'
      BY <1>5 DEF ReadLocal, DownwardOK
    <2>4. QED
      BY <2>1, <2>2, <2>3
  <1>6. ASSUME ReadEof(b) PROVE TypeOK'
    <2>1. PlacesOK'
      BY <1>6 DEF ReadEof, PlacesOK, BridgePc, ToRelayPc, LocalState
    <2>2. UpwardOK'
      BY <1>6 DEF ReadEof, UpwardOK
    <2>3. DownwardOK'
      BY <1>6 DEF ReadEof, DownwardOK
    <2>4. QED
      BY <2>1, <2>2, <2>3
  <1>7. ASSUME ReadLocalFails(b) PROVE TypeOK'
    <2>1. PlacesOK'
      BY <1>7 DEF ReadLocalFails, Returns, PlacesOK, BridgePc, ToRelayPc, LocalState
    <2>2. UpwardOK'
      BY <1>7 DEF ReadLocalFails, Returns, UpwardOK
    <2>3. DownwardOK'
      BY <1>7 DEF ReadLocalFails, Returns, DownwardOK
    <2>4. QED
      BY <2>1, <2>2, <2>3
  <1>8. ASSUME SendData(b) PROVE TypeOK'
    <2>1. PlacesOK'
      BY <1>8 DEF SendData, PlacesOK, BridgePc, ToRelayPc, LocalState
    <2>2. UpwardOK'
      <3>1. read[b] \in 1 .. MaxUp
        BY <1>8 DEF SendData, BridgeInv, Upward, UpwardOK
      <3>2. Append(up[b], Data(read[b])) \in Seq(Ups)
            /\ Len(Append(up[b], Data(read[b]))) <= WireCapacity
        BY <1>8, <3>1, Frames DEF SendData, UpwardOK
      <3>3. QED
        BY <1>8, <3>2 DEF SendData, UpwardOK
    <2>3. DownwardOK'
      BY <1>8 DEF SendData, DownwardOK
    <2>4. QED
      BY <2>1, <2>2, <2>3
  <1>9. ASSUME SendClose(b) PROVE TypeOK'
    <2>1. PlacesOK'
      BY <1>9 DEF SendClose, PlacesOK, BridgePc, ToRelayPc, LocalState
    <2>2. UpwardOK'
      <3>1. Append(up[b], End("StreamClose")) \in Seq(Ups)
            /\ Len(Append(up[b], End("StreamClose"))) <= WireCapacity
        BY <1>9, Frames DEF SendClose, UpwardOK
      <3>2. QED
        BY <1>9, <3>1 DEF SendClose, UpwardOK
    <2>3. DownwardOK'
      BY <1>9 DEF SendClose, DownwardOK
    <2>4. QED
      BY <2>1, <2>2, <2>3
  <1>10. ASSUME SendFails(b) PROVE TypeOK'
    <2>1. PlacesOK'
      BY <1>10 DEF SendFails, Returns, PlacesOK, BridgePc, ToRelayPc, LocalState
    <2>2. UpwardOK'
      BY <1>10 DEF SendFails, Returns, UpwardOK
    <2>3. DownwardOK'
      BY <1>10 DEF SendFails, Returns, DownwardOK
    <2>4. QED
      BY <2>1, <2>2, <2>3
  <1>11. ASSUME ReadFrame(b) PROVE TypeOK'
    <2>1. PlacesOK'
      BY <1>11 DEF ReadFrame, PlacesOK, BridgePc, ToRelayPc, LocalState
    <2>2. UpwardOK'
      BY <1>11 DEF ReadFrame, UpwardOK
    <2>3. DownwardOK'
      <3>1. seen[b] + 1 \in 0 .. MaxDown + 1
        BY <1>11 DEF ReadFrame, HasFrame, BridgeInv, Said, DownwardOK
      <3>2. QED
        BY <1>11, <3>1 DEF ReadFrame, DownwardOK
    <2>4. QED
      BY <2>1, <2>2, <2>3
  <1>12. ASSUME WriteLocal(b) PROVE TypeOK'
    <2>1. PlacesOK'
      BY <1>12 DEF WriteLocal, PlacesOK, BridgePc, ToRelayPc, LocalState
    <2>2. UpwardOK'
      BY <1>12 DEF WriteLocal, UpwardOK
    <2>3. DownwardOK'
      <3>1. seen[b] \in DOMAIN said[b] /\ said[b][seen[b]].kind = "StreamData"
        BY <1>12 DEF WriteLocal, BridgeInv, Downward, DownwardOK
      <3>2. said[b][seen[b]].n \in 1 .. MaxDown
        BY <3>1, Frames DEF DownwardOK
      <3>3. /\ Append(got[b], said[b][seen[b]].n) \in Seq(1 .. MaxDown)
            /\ Len(Append(got[b], said[b][seen[b]].n)) - consumed[b] <= LocalCapacity
        BY <1>12, <3>2 DEF WriteLocal, DownwardOK
      <3>4. QED
        BY <1>12, <3>3 DEF WriteLocal, DownwardOK
    <2>4. QED
      BY <2>1, <2>2, <2>3
  <1>13. ASSUME WriteLocalFails(b) PROVE TypeOK'
    <2>1. PlacesOK'
      BY <1>13 DEF WriteLocalFails, Returns, PlacesOK, BridgePc, ToRelayPc, LocalState
    <2>2. UpwardOK'
      BY <1>13 DEF WriteLocalFails, Returns, UpwardOK
    <2>3. DownwardOK'
      BY <1>13 DEF WriteLocalFails, Returns, DownwardOK
    <2>4. QED
      BY <2>1, <2>2, <2>3
  <1>14. ASSUME ReadClose(b) PROVE TypeOK'
    <2>1. PlacesOK'
      BY <1>14 DEF ReadClose, Returns, PlacesOK, BridgePc, ToRelayPc, LocalState
    <2>2. UpwardOK'
      BY <1>14 DEF ReadClose, Returns, UpwardOK
    <2>3. DownwardOK'
      <3>1. seen[b] + 1 \in 0 .. MaxDown + 1
        BY <1>14 DEF ReadClose, HasFrame, BridgeInv, Said, DownwardOK
      <3>2. QED
        BY <1>14, <3>1 DEF ReadClose, Returns, DownwardOK
    <2>4. QED
      BY <2>1, <2>2, <2>3
  <1>15. ASSUME ReadError(b) PROVE TypeOK'
    <2>1. PlacesOK'
      BY <1>15 DEF ReadError, Returns, PlacesOK, BridgePc, ToRelayPc, LocalState
    <2>2. UpwardOK'
      BY <1>15 DEF ReadError, Returns, UpwardOK
    <2>3. DownwardOK'
      <3>1. seen[b] + 1 \in 0 .. MaxDown + 1
        BY <1>15 DEF ReadError, HasFrame, BridgeInv, Said, DownwardOK
      <3>2. QED
        BY <1>15, <3>1 DEF ReadError, Returns, DownwardOK
    <2>4. QED
      BY <2>1, <2>2, <2>3
  <1>16. ASSUME ReadFails(b) PROVE TypeOK'
    <2>1. PlacesOK'
      BY <1>16 DEF ReadFails, Returns, PlacesOK, BridgePc, ToRelayPc, LocalState
    <2>2. UpwardOK'
      BY <1>16 DEF ReadFails, Returns, UpwardOK
    <2>3. DownwardOK'
      BY <1>16 DEF ReadFails, Returns, DownwardOK
    <2>4. QED
      BY <2>1, <2>2, <2>3
  <1>17. ASSUME LocalWrites(b) PROVE TypeOK'
    <2>1. PlacesOK'
      BY <1>17 DEF LocalWrites, PlacesOK, BridgePc, ToRelayPc, LocalState
    <2>2. UpwardOK'
      BY <1>17 DEF LocalWrites, UpwardOK
    <2>3. DownwardOK'
      BY <1>17 DEF LocalWrites, DownwardOK
    <2>4. QED
      BY <2>1, <2>2, <2>3
  <1>18. ASSUME LocalShutsDown(b) PROVE TypeOK'
    <2>1. PlacesOK'
      BY <1>18 DEF LocalShutsDown, PlacesOK, BridgePc, ToRelayPc, LocalState
    <2>2. UpwardOK'
      BY <1>18 DEF LocalShutsDown, UpwardOK
    <2>3. DownwardOK'
      BY <1>18 DEF LocalShutsDown, DownwardOK
    <2>4. QED
      BY <2>1, <2>2, <2>3
  <1>19. ASSUME LocalGone(b) PROVE TypeOK'
    <2>1. PlacesOK'
      BY <1>19 DEF LocalGone, PlacesOK, BridgePc, ToRelayPc, LocalState
    <2>2. UpwardOK'
      BY <1>19 DEF LocalGone, UpwardOK
    <2>3. DownwardOK'
      BY <1>19 DEF LocalGone, DownwardOK
    <2>4. QED
      BY <2>1, <2>2, <2>3
  <1>20. ASSUME LocalReads(b) PROVE TypeOK'
    <2>1. PlacesOK'
      BY <1>20 DEF LocalReads, PlacesOK, BridgePc, ToRelayPc, LocalState
    <2>2. UpwardOK'
      BY <1>20 DEF LocalReads, UpwardOK
    <2>3. DownwardOK'
      <3>1. Len(got[b]) <= MaxDown
        <4>1. CASE got[b] = <<>>
          BY <4>1
        <4>2. CASE got[b] # <<>>
          <5>1. Len(got[b]) \in DOMAIN got[b] /\ got[b][Len(got[b])] = Len(got[b])
            BY <4>2 DEF BridgeInv, Downward, Numbered, DownwardOK
          <5>2. got[b][Len(got[b])] \in 1 .. MaxDown
            BY <5>1 DEF DownwardOK
          <5>3. QED
            BY <5>1, <5>2
        <4>3. QED
          BY <4>1, <4>2
      <3>2. consumed[b] + 1 \in 0 .. MaxDown
        BY <1>20, <3>1 DEF LocalReads, DownwardOK
      <3>3. QED
        BY <1>20, <3>2 DEF LocalReads, DownwardOK
    <2>4. QED
      BY <2>1, <2>2, <2>3
  <1>21. ASSUME RelayReads(b) PROVE TypeOK'
    <2>1. PlacesOK'
      BY <1>21 DEF RelayReads, PlacesOK, BridgePc, ToRelayPc, LocalState
    <2>2. UpwardOK'
      <3>1. /\ Head(up[b]) \in Ups /\ Tail(up[b]) \in Seq(Ups)
            /\ Len(Tail(up[b])) <= WireCapacity
        BY <1>21 DEF RelayReads, UpwardOK
      <3>2. Head(up[b]).kind = "StreamData" => Append(heard[b], Head(up[b]).n) \in Seq(1 .. MaxUp)
        BY <3>1, Frames DEF UpwardOK
      <3>3. heard' \in [Bridges -> Seq(1 .. MaxUp)] /\ heardClose' \in [Bridges -> BOOLEAN]
        BY <1>21, <3>2 DEF RelayReads, UpwardOK
      <3>4. up' \in [Bridges -> Seq(Ups)] /\ \A c \in Bridges : Len(up'[c]) <= WireCapacity
        BY <1>21, <3>1 DEF RelayReads, UpwardOK
      <3>5. QED
        BY <1>21, <3>3, <3>4 DEF RelayReads, UpwardOK
    <2>3. DownwardOK'
      BY <1>21 DEF RelayReads, DownwardOK
    <2>4. QED
      BY <2>1, <2>2, <2>3
  <1>22. ASSUME RelaySends(b) PROVE TypeOK'
    <2>1. PlacesOK'
      BY <1>22 DEF RelaySends, PlacesOK, BridgePc, ToRelayPc, LocalState
    <2>2. UpwardOK'
      BY <1>22 DEF RelaySends, UpwardOK
    <2>3. DownwardOK'
      <3>1. Append(said[b], Data(Len(said[b]) + 1)) \in Seq(Downs)
        BY <1>22, Frames DEF RelaySends, DownwardOK
      <3>2. QED
        BY <1>22, <3>1 DEF RelaySends, DownwardOK
    <2>4. QED
      BY <2>1, <2>2, <2>3
  <1>23. ASSUME RelayEnds(b) PROVE TypeOK'
    <2>1. PlacesOK'
      BY <1>23 DEF RelayEnds, PlacesOK, BridgePc, ToRelayPc, LocalState
    <2>2. UpwardOK'
      BY <1>23 DEF RelayEnds, UpwardOK
    <2>3. DownwardOK'
      <3>1. \A k \in Ends : Append(said[b], End(k)) \in Seq(Downs)
        BY Frames DEF DownwardOK
      <3>2. QED
        BY <1>23, <3>1 DEF RelayEnds, DownwardOK
    <2>4. QED
      BY <2>1, <2>2, <2>3
  <1>24. ASSUME LinkLost(b) PROVE TypeOK'
    <2>1. PlacesOK'
      BY <1>24 DEF LinkLost, PlacesOK, BridgePc, ToRelayPc, LocalState
    <2>2. UpwardOK'
      BY <1>24 DEF LinkLost, UpwardOK
    <2>3. DownwardOK'
      BY <1>24 DEF LinkLost, DownwardOK
    <2>4. QED
      BY <2>1, <2>2, <2>3
  <1>25. QED
    BY <1>1, <1>2, <1>3, <1>4, <1>5, <1>6, <1>7, <1>8, <1>9, <1>10, <1>11, <1>12, <1>13, <1>14,
       <1>15, <1>16, <1>17, <1>18, <1>19, <1>20, <1>21, <1>22, <1>23, <1>24
       DEF BridgeStep, ToRelayStep, FromRelayStep, Environment

\* Type correctness is preserved, also when the process ends.
LEMMA StepTyped == IndInv /\ [Next]_vars => TypeOK'
  <1> SUFFICES ASSUME IndInv, [Next]_vars PROVE TypeOK'
    OBVIOUS
  <1> USE DEF upVars, peerVars, downVars
  <1>1. CASE AcceptFails
    BY <1>1 DEF AcceptFails, IndInv, TypeOK, PlacesOK, UpwardOK, DownwardOK, Listening, BridgePc
  <1>2. CASE UNCHANGED vars
    BY <1>2 DEF vars, IndInv, TypeOK, PlacesOK, UpwardOK, DownwardOK
  <1>3. QED
    BY <1>1, <1>2, BridgeTyped DEF Next, BridgeStep

-----------------------------------------------------------------------------
(* The invariant of a bridge, through its own steps and those of others.   *)

\* All that concerns a bridge
SameBridge(c) ==
    /\ bridge'[c] = bridge[c] /\ toRelay'[c] = toRelay[c] /\ fromRelay'[c] = fromRelay[c]
    /\ local'[c] = local[c] /\ link'[c] = link[c] /\ typed'[c] = typed[c] /\ read'[c] = read[c]
    /\ up'[c] = up[c] /\ heard'[c] = heard[c] /\ heardClose'[c] = heardClose[c]
    /\ said'[c] = said[c] /\ seen'[c] = seen[c] /\ got'[c] = got[c] /\ consumed'[c] = consumed[c]

\* A step of one bridge touches no other: each has a websocket of its own.
LEMMA OthersSame ==
    ASSUME IndInv, NEW b \in Bridges, BridgeStep(b), NEW c \in Bridges, c # b
    PROVE  SameBridge(c)
  <1> USE DEF upVars, peerVars, downVars, SameBridge, Returns
  <1>1. PlacesOK /\ UpwardOK /\ DownwardOK
    BY DEF IndInv, TypeOK
  <1>2. CASE Accept(b) \/ Connect(b) \/ ConnectFails(b)
    BY <1>1, <1>2 DEF Accept, Connect, ConnectFails, PlacesOK
  <1>3. CASE ReadLocal(b) \/ ReadEof(b) \/ ReadLocalFails(b)
    BY <1>1, <1>3 DEF ReadLocal, ReadEof, ReadLocalFails, PlacesOK, UpwardOK
  <1>4. CASE SendData(b) \/ SendClose(b) \/ SendFails(b)
    BY <1>1, <1>4 DEF SendData, SendClose, SendFails, PlacesOK, UpwardOK
  <1>5. CASE ReadFrame(b) \/ WriteLocal(b) \/ WriteLocalFails(b)
    BY <1>1, <1>5 DEF ReadFrame, WriteLocal, WriteLocalFails, PlacesOK, DownwardOK
  <1>6. CASE ReadClose(b) \/ ReadError(b) \/ ReadFails(b)
    BY <1>1, <1>6 DEF ReadClose, ReadError, ReadFails, PlacesOK, DownwardOK
  <1>7. CASE LocalConnects(b) \/ LocalWrites(b) \/ LocalShutsDown(b) \/ LocalGone(b)
    BY <1>1, <1>7 DEF LocalConnects, LocalWrites, LocalShutsDown, LocalGone, PlacesOK, UpwardOK
  <1>8. CASE LocalReads(b) \/ RelaySends(b) \/ RelayEnds(b)
    BY <1>1, <1>8 DEF LocalReads, RelaySends, RelayEnds, DownwardOK
  <1>9. CASE RelayReads(b) \/ LinkLost(b)
    BY <1>1, <1>9 DEF RelayReads, LinkLost, PlacesOK, UpwardOK
  <1>10. QED
    BY <1>2, <1>3, <1>4, <1>5, <1>6, <1>7, <1>8, <1>9
       DEF BridgeStep, ToRelayStep, FromRelayStep, Environment

\* So the invariant of the other bridges stays.
LEMMA SameInv ==
    ASSUME NEW c \in Bridges, BridgeInv(c), SameBridge(c) PROVE BridgeInv(c)'
  <1>1. Fresh(c)'
    BY DEF BridgeInv, Fresh, SameBridge, PollsDown
  <1>2. InFlight(c)' /\ Upward(c)'
    BY DEF BridgeInv, InFlight, Upward, SameBridge, LocalEnded
  <1>3. Said(c)' /\ Downward(c)'
    BY DEF BridgeInv, Said, Downward, SameBridge, RelayEnded, Given, PollsDown
  <1>4. QED
    BY <1>1, <1>2, <1>3 DEF BridgeInv

\* The values one bridge has, by their types.
Values(b) ==
    /\ bridge[b] \in BridgePc /\ toRelay[b] \in ToRelayPc
    /\ fromRelay[b] \in {"reading", "writing"}
    /\ typed[b] \in Nat /\ read[b] \in Nat /\ seen[b] \in Nat /\ consumed[b] \in Nat
    /\ up[b] \in Seq(Ups) /\ heard[b] \in Seq(Nat) /\ said[b] \in Seq(Downs)
    /\ got[b] \in Seq(Nat)

Lengths(b) ==
    Len(up[b]) \in Nat /\ Len(heard[b]) \in Nat /\ Len(said[b]) \in Nat /\ Len(got[b]) \in Nat

\* ... follow from the type invariant.
LEMMA ValuesTyped == ASSUME TypeOK, NEW b \in Bridges PROVE Values(b) /\ Lengths(b)
  <1>1. Values(b)
    BY BoundsAreNat DEF TypeOK, PlacesOK, UpwardOK, DownwardOK, Values
  <1>2. QED
    BY <1>1 DEF Values, Lengths

\* The steps of the two futures, and of the relay on a bridge that is polled, leave
\* the connection as it is.
LEMMA PolledSteps ==
    ASSUME TypeOK, NEW b \in Bridges,
           ToRelayStep(b) \/ FromRelayStep(b) \/ RelaySends(b) \/ RelayEnds(b)
    PROVE  PollsDown(b) /\ UNCHANGED <<link, local>>
           /\ bridge'[b] \in {"both", "draining", "ok", "failed"}
  <1> USE DEF PollsUp, PollsDown, Returns, TypeOK, PlacesOK
  <1>1. CASE ToRelayStep(b)
    BY <1>1 DEF ToRelayStep, ReadLocal, ReadEof, ReadLocalFails, SendData, SendClose, SendFails
  <1>2. CASE FromRelayStep(b)
    BY <1>2 DEF FromRelayStep, ReadFrame, WriteLocal, WriteLocalFails, ReadClose, ReadError,
                ReadFails, HasFrame
  <1>3. CASE RelaySends(b) \/ RelayEnds(b)
    BY <1>3 DEF RelaySends, RelayEnds
  <1>4. QED
    BY <1>1, <1>2, <1>3

\* A bridge has nothing before its websocket is up.
LEMMA FreshStep ==
    ASSUME IndInv, NEW b \in Bridges, BridgeStep(b) PROVE Fresh(b)'
  <1> USE DEF upVars, peerVars, downVars, PollsDown
  <1>1. TypeOK /\ PlacesOK /\ Fresh(b)
    BY DEF IndInv, TypeOK, BridgeInv
  <1>2. CASE ToRelayStep(b) \/ FromRelayStep(b) \/ RelaySends(b) \/ RelayEnds(b)
    BY <1>1, <1>2, PolledSteps DEF Fresh
  <1>3. CASE Accept(b) \/ Connect(b) \/ ConnectFails(b) \/ LocalConnects(b)
    BY <1>1, <1>3 DEF Accept, Connect, ConnectFails, LocalConnects, Returns, Fresh, PlacesOK
  <1>4. CASE LocalWrites(b) \/ LocalShutsDown(b) \/ LocalGone(b)
    BY <1>1, <1>4 DEF LocalWrites, LocalShutsDown, LocalGone, Fresh, PlacesOK
  <1>5. CASE LocalReads(b)
    BY <1>1, <1>5 DEF LocalReads, Fresh
  <1>6. CASE RelayReads(b) \/ LinkLost(b)
    BY <1>1, <1>6 DEF RelayReads, LinkLost, Fresh, PlacesOK
  <1>7. QED
    BY <1>2, <1>3, <1>4, <1>5, <1>6 DEF BridgeStep, Environment

-----------------------------------------------------------------------------
(* Sequences of chunks and frames.                                         *)

\* What Append and Tail do.
LEMMA AppendIs ==
    ASSUME NEW S, NEW s \in Seq(S), NEW x \in S
    PROVE  /\ Append(s, x) \in Seq(S) /\ Len(s) \in Nat
           /\ Len(Append(s, x)) = Len(s) + 1
           /\ DOMAIN s = 1 .. Len(s) /\ DOMAIN Append(s, x) = 1 .. (Len(s) + 1)
           /\ \A i \in 1 .. Len(s) : Append(s, x)[i] = s[i]
           /\ Append(s, x)[Len(s) + 1] = x
  OBVIOUS

LEMMA TailIs ==
    ASSUME NEW S, NEW s \in Seq(S), s # <<>>
    PROVE  /\ Tail(s) \in Seq(S) /\ Len(s) \in Nat \ {0}
           /\ Len(Tail(s)) = Len(s) - 1
           /\ DOMAIN s = 1 .. Len(s) /\ DOMAIN Tail(s) = 1 .. (Len(s) - 1)
           /\ \A i \in 1 .. (Len(s) - 1) : Tail(s)[i] = s[i + 1]
           /\ Head(s) = s[1] /\ Head(s) \in S
  OBVIOUS

\* The next chunk keeps the chunks numbered.
LEMMA NumberedNext ==
    ASSUME NEW s \in Seq(Nat), Numbered(s) PROVE Numbered(Append(s, Len(s) + 1))
  <1>1. Len(s) + 1 \in Nat
    OBVIOUS
  <1>2. QED
    BY <1>1, AppendIs DEF Numbered

\* No frame in flight continues anything.
LEMMA NoneContinues == \A n, place, r : Continues(n, <<>>, place, r)
  <1>1. DOMAIN <<>> = {}
    OBVIOUS
  <1>2. QED
    BY <1>1 DEF Continues

\* A chunk that is read has a larger number than those in flight ...
LEMMA ContinuesRead ==
    ASSUME NEW n \in Nat, NEW r \in Nat, NEW q \in Seq(Ups), Continues(n, q, "reading", r)
    PROVE  Continues(n, q, "data", r + 1)
  <1>1. DOMAIN q = 1 .. Len(q) /\ Len(q) \in Nat
    OBVIOUS
  <1>2. QED
    BY <1>1 DEF Continues

\* ... it is sent behind them ...
LEMMA ContinuesData ==
    ASSUME NEW n \in Nat, NEW r \in 1 .. MaxUp, NEW q \in Seq(Ups), Continues(n, q, "data", r),
           n + Len(q) + 1 = r
    PROVE  Continues(n, Append(q, Data(r)), "reading", r)
  <1>1. Data(r) \in Ups /\ Data(r).kind = "StreamData" /\ Data(r).n = r
    BY Frames DEF Data
  <1> DEFINE a == Append(q, Data(r))
  <1>2. /\ Len(q) \in Nat /\ Len(a) = Len(q) + 1
        /\ DOMAIN q = 1 .. Len(q) /\ DOMAIN a = 1 .. (Len(q) + 1)
        /\ \A i \in 1 .. Len(q) : a[i] = q[i]
        /\ a[Len(q) + 1] = Data(r)
    BY <1>1, AppendIs
  <1> HIDE DEF a
  <1> SUFFICES ASSUME NEW i \in DOMAIN a
               PROVE  a[i].kind = "StreamData" /\ a[i].n = n + i /\ n + i <= r
    BY DEF Continues, a
  <1>3. CASE i \in 1 .. Len(q)
    BY <1>2, <1>3 DEF Continues
  <1>4. CASE i = Len(q) + 1
    BY <1>1, <1>2, <1>4, BoundsAreNat
  <1>5. QED
    BY <1>2, <1>3, <1>4

\* ... and StreamClose behind all of them.
LEMMA ContinuesClose ==
    ASSUME NEW n \in Nat, NEW r \in Nat, NEW q \in Seq(Ups), Continues(n, q, "close", r),
           n + Len(q) = r
    PROVE  Continues(n, Append(q, End("StreamClose")), "done", r)
  <1>1. End("StreamClose") \in Ups /\ End("StreamClose").kind # "StreamData"
    BY Frames DEF End
  <1> DEFINE a == Append(q, End("StreamClose"))
  <1>2. /\ Len(q) \in Nat /\ Len(a) = Len(q) + 1
        /\ DOMAIN q = 1 .. Len(q) /\ DOMAIN a = 1 .. (Len(q) + 1)
        /\ \A i \in 1 .. Len(q) : a[i] = q[i]
        /\ a[Len(q) + 1] = End("StreamClose")
    BY <1>1, AppendIs
  <1> HIDE DEF a
  <1> SUFFICES ASSUME NEW i \in DOMAIN a
               PROVE  IF a[i].kind = "StreamData" THEN a[i].n = n + i /\ n + i <= r
                      ELSE i = Len(a) /\ n + i - 1 = r
    BY DEF Continues, a
  <1>3. CASE i \in 1 .. Len(q)
    BY <1>2, <1>3 DEF Continues
  <1>4. CASE i = Len(q) + 1
    BY <1>1, <1>2, <1>4
  <1>5. QED
    BY <1>2, <1>3, <1>4

\* The first frame in flight is the next chunk, or StreamClose after the last one;
\* the others continue it.
LEMMA ContinuesHead ==
    ASSUME NEW n \in Nat, NEW r \in Nat, NEW q \in Seq(Ups), NEW place, Continues(n, q, place, r),
           q # <<>>
    PROVE  /\ Head(q).kind = "StreamData" =>
                 Head(q).n = n + 1 /\ n + 1 <= r /\ Continues(n + 1, Tail(q), place, r)
           /\ Head(q).kind # "StreamData" =>
                 Len(q) = 1 /\ Tail(q) = <<>> /\ place = "done" /\ n = r
  <1> DEFINE t == Tail(q)
  <1>1. /\ Len(q) \in Nat \ {0} /\ Len(t) = Len(q) - 1 /\ t \in Seq(Ups)
        /\ DOMAIN q = 1 .. Len(q) /\ DOMAIN t = 1 .. (Len(q) - 1)
        /\ \A i \in 1 .. (Len(q) - 1) : t[i] = q[i + 1]
        /\ Head(q) = q[1]
    BY TailIs
  <1> HIDE DEF t
  <1>2. IF q[1].kind = "StreamData" THEN q[1].n = n + 1 /\ n + 1 <= r
        ELSE 1 = Len(q) /\ place = "done" /\ n + 1 - 1 = r
    BY <1>1 DEF Continues
  <1>3. Continues(n + 1, t, place, r)
    <2> SUFFICES ASSUME NEW i \in 1 .. (Len(q) - 1)
                 PROVE  IF t[i].kind = "StreamData" THEN t[i].n = n + 1 + i /\ n + 1 + i <= r
                        ELSE i = Len(t) /\ place = "done" /\ n + 1 + i - 1 = r
      BY <1>1 DEF Continues
    <2>1. i + 1 \in DOMAIN q /\ t[i] = q[i + 1]
      BY <1>1
    <2>2. IF q[i + 1].kind = "StreamData" THEN q[i + 1].n = n + (i + 1) /\ n + (i + 1) <= r
          ELSE i + 1 = Len(q) /\ place = "done" /\ n + (i + 1) - 1 = r
      BY <2>1 DEF Continues
    <2>3. QED
      BY <1>1, <2>1, <2>2
  <1>4. Len(q) = 1 => t = <<>>
    BY <1>1
  <1>5. QED
    BY <1>1, <1>2, <1>3, <1>4 DEF t

-----------------------------------------------------------------------------
(* Towards the relay.                                                      *)

\* A chunk is sent behind the frames in flight.
LEMMA SendDataKeeps ==
    ASSUME IndInv, NEW b \in Bridges, SendData(b) PROVE InFlight(b)' /\ Upward(b)'
  <1> USE DEF upVars, peerVars, downVars
  <1>1. InFlight(b) /\ Upward(b) /\ Values(b) /\ Lengths(b) /\ read[b] \in 0 .. MaxUp
    BY ValuesTyped DEF IndInv, TypeOK, BridgeInv, UpwardOK
  <1>2. /\ UNCHANGED <<read, heard, heardClose, link, local, typed>>
        /\ link[b] = "up" /\ toRelay[b] = "data" /\ toRelay'[b] = "reading"
        /\ up'[b] = Append(up[b], Data(read[b]))
    BY DEF SendData, IndInv, TypeOK, PlacesOK, UpwardOK
  <1> DEFINE h == Len(heard[b])
             u == Len(up[b])
             r == read[b]
  <1>3. h + u + 1 = r /\ h \in Nat /\ u \in Nat /\ r \in 0 .. MaxUp
    BY <1>1, <1>2 DEF Upward, Lengths
  <1>4. r \in 1 .. MaxUp /\ h + (u + 1) = r /\ h + u + 1 = r
    <2> HIDE DEF h, u, r
    <2>1. QED
      BY <1>3, BoundsAreNat
  <1>5. Continues(Len(heard[b]), up'[b], "reading", read[b])
    BY <1>1, <1>2, <1>3, <1>4, ContinuesData DEF Values, InFlight
  <1>6. Len(up'[b]) = u + 1
    BY <1>1, <1>2, <1>4, Frames, AppendIs DEF Values
  <1>7. InFlight(b)'
    BY <1>1, <1>2, <1>5 DEF InFlight
  <1>8. Upward(b)'
    <2>1. Len(heard[b]) + Len(up'[b]) = read[b]
      BY <1>4, <1>6
    <2>2. ~heardClose[b] /\ read[b] <= typed[b]
      BY <1>1, <1>2 DEF Upward
    <2>3. QED
      BY <1>2, <2>1, <2>2 DEF Upward
  <1>9. QED
    BY <1>7, <1>8

\* StreamClose is sent behind all of them.
LEMMA SendCloseKeeps ==
    ASSUME IndInv, NEW b \in Bridges, SendClose(b) PROVE InFlight(b)' /\ Upward(b)'
  <1> USE DEF upVars, peerVars, downVars
  <1>1. InFlight(b) /\ Upward(b) /\ Values(b) /\ Lengths(b)
    BY ValuesTyped DEF IndInv, BridgeInv
  <1>2. /\ UNCHANGED <<read, heard, heardClose, link, local, typed>>
        /\ link[b] = "up" /\ toRelay[b] = "close" /\ toRelay'[b] = "done"
        /\ up'[b] = Append(up[b], End("StreamClose"))
    BY DEF SendClose, IndInv, TypeOK, PlacesOK, UpwardOK
  <1>3. Len(heard[b]) + Len(up[b]) = read[b] /\ Len(heard[b]) \in Nat
    BY <1>1, <1>2 DEF Upward, Lengths
  <1>4. Continues(Len(heard[b]), up'[b], "done", read[b])
    BY <1>1, <1>2, <1>3, ContinuesClose DEF Values, InFlight
  <1>5. InFlight(b)'
    BY <1>1, <1>2, <1>4 DEF InFlight
  <1>6. Upward(b)'
    BY <1>1, <1>2 DEF Upward, LocalEnded
  <1>7. QED
    BY <1>5, <1>6

\* What the relay reads next continues what it has received.
LEMMA NextHeard ==
    ASSUME IndInv, NEW b \in Bridges, up[b] # <<>>
    PROVE  /\ ~heardClose[b]
           /\ Head(up[b]).kind = "StreamData" =>
                 /\ Head(up[b]).n = Len(heard[b]) + 1 /\ Len(heard[b]) < typed[b]
                 /\ Continues(Len(heard[b]) + 1, Tail(up[b]), toRelay[b], read[b])
           /\ Head(up[b]).kind # "StreamData" =>
                 /\ Tail(up[b]) = <<>> /\ toRelay[b] = "done" /\ LocalEnded(b)
                 /\ Len(heard[b]) = typed[b]
  <1>1. InFlight(b) /\ Upward(b) /\ Values(b) /\ Lengths(b) /\ heardClose[b] \in BOOLEAN
    BY ValuesTyped DEF IndInv, BridgeInv, TypeOK, UpwardOK
  <1>2. ~heardClose[b]
    BY <1>1 DEF Upward
  <1>3. Len(heard[b]) \in Nat /\ read[b] \in Nat /\ typed[b] \in Nat /\ up[b] \in Seq(Ups)
    BY <1>1 DEF Values, Lengths
  <1>4. /\ Head(up[b]).kind = "StreamData" =>
              /\ Head(up[b]).n = Len(heard[b]) + 1 /\ Len(heard[b]) + 1 <= read[b]
              /\ Continues(Len(heard[b]) + 1, Tail(up[b]), toRelay[b], read[b])
        /\ Head(up[b]).kind # "StreamData" =>
              Len(up[b]) = 1 /\ Tail(up[b]) = <<>> /\ toRelay[b] = "done"
                /\ Len(heard[b]) = read[b]
    BY <1>1, <1>3, ContinuesHead DEF InFlight
  <1>5. QED
    BY <1>1, <1>2, <1>3, <1>4 DEF Upward

\* The relay reads the frames in flight in their order.
LEMMA RelayReadsKeeps ==
    ASSUME IndInv, NEW b \in Bridges, RelayReads(b) PROVE InFlight(b)' /\ Upward(b)'
  <1> USE DEF upVars, peerVars, downVars
  <1>1. InFlight(b) /\ Upward(b) /\ Values(b) /\ Lengths(b)
    BY ValuesTyped DEF IndInv, BridgeInv
  <1>2. /\ UNCHANGED <<toRelay, read, link, local, typed>>
        /\ link[b] = "up" /\ up[b] # <<>> /\ up'[b] = Tail(up[b])
    BY DEF RelayReads, IndInv, TypeOK, UpwardOK
  <1>3. Len(up'[b]) = Len(up[b]) - 1 /\ Len(up[b]) \in Nat /\ Len(heard[b]) \in Nat
    BY <1>1, <1>2, TailIs DEF Values
  <1>4. CASE Head(up[b]).kind = "StreamData"
    <2>1. heard'[b] = Append(heard[b], Len(heard[b]) + 1) /\ heardClose' = heardClose
      BY <1>2, <1>4, NextHeard DEF RelayReads, IndInv, TypeOK, UpwardOK
    <2>2. Numbered(heard'[b])
      BY <1>1, <2>1, NumberedNext DEF Values, InFlight
    <2>3. Len(heard'[b]) = Len(heard[b]) + 1
      BY <1>1, <1>3, <2>1, AppendIs DEF Values
    <2>4. Continues(Len(heard'[b]), up'[b], toRelay[b], read[b]) /\ ~heardClose[b]
      BY <1>2, <1>4, <2>3, NextHeard
    <2>5. InFlight(b)'
      BY <1>2, <2>2, <2>4 DEF InFlight
    <2>6. Upward(b)'
      <3> DEFINE h == Len(heard[b])
                 u == Len(up[b])
      <3>1. h \in Nat /\ u \in Nat
        BY <1>3
      <3>2. (h + 1) + (u - 1) = h + u
        <4> HIDE DEF h, u
        <4>1. QED
          BY <3>1
      <3>3. Len(heard'[b]) + Len(up'[b]) = Len(heard[b]) + Len(up[b])
        BY <1>3, <2>3, <3>2
      <3>4. QED
        BY <1>1, <1>2, <2>1, <2>4, <3>3 DEF Upward, LocalEnded
    <2>7. QED
      BY <2>5, <2>6
  <1>5. CASE Head(up[b]).kind # "StreamData"
    <2>1. /\ UNCHANGED heard /\ up'[b] = <<>>
          /\ toRelay[b] = "done" /\ LocalEnded(b) /\ Len(heard[b]) = typed[b]
      BY <1>2, <1>5, NextHeard DEF RelayReads
    <2>2. InFlight(b)'
      BY <1>1, <1>2, <2>1, NoneContinues DEF InFlight
    <2>3. Upward(b)'
      BY <1>1, <1>2, <2>1 DEF Upward, LocalEnded
    <2>4. QED
      BY <2>2, <2>3
  <1>6. QED
    BY <1>4, <1>5

\* Towards the relay the invariant of a bridge is kept by its other steps.
LEMMA UpwardStep ==
    ASSUME IndInv, NEW b \in Bridges, BridgeStep(b) PROVE InFlight(b)' /\ Upward(b)'
  <1> USE DEF upVars, peerVars, downVars, LocalEnded
  <1>1. /\ InFlight(b) /\ Upward(b) /\ Fresh(b) /\ Values(b) /\ Lengths(b)
        /\ PlacesOK /\ UpwardOK
    BY ValuesTyped DEF IndInv, TypeOK, BridgeInv
  <1>2. CASE UNCHANGED <<toRelay, read, up, heard, heardClose, link, local, typed>>
    BY <1>1, <1>2 DEF InFlight, Upward
  <1>3. CASE SendData(b) \/ SendClose(b)
    BY <1>3, SendDataKeeps, SendCloseKeeps
  <1>4. CASE RelayReads(b)
    BY <1>4, RelayReadsKeeps
  <1>5. CASE Connect(b)
    <2>1. link[b] = "none" /\ read[b] = 0 /\ heard[b] = <<>> /\ up[b] = <<>>
          /\ toRelay[b] = "reading"
      BY <1>1, <1>5 DEF Connect, Fresh
    <2>2. QED
      BY <1>1, <1>5, <2>1 DEF Connect, InFlight, Continues, Upward, PlacesOK
  <1>6. CASE LocalConnects(b)
    <2>1. link[b] = "none" /\ toRelay[b] = "reading"
      BY <1>1, <1>6 DEF LocalConnects, Fresh
    <2>2. QED
      BY <1>1, <1>6, <2>1 DEF LocalConnects, InFlight, Upward
  <1>7. CASE ReadLocal(b)
    <2>1. /\ read'[b] = read[b] + 1 /\ toRelay'[b] = "data" /\ toRelay[b] = "reading"
          /\ read[b] < typed[b]
      BY <1>1, <1>7 DEF ReadLocal, PlacesOK, UpwardOK
    <2> DEFINE h == Len(heard[b])
               u == Len(up[b])
               r == read[b]
               t == typed[b]
    <2>2. h \in Nat /\ u \in Nat /\ r \in Nat /\ t \in Nat /\ up[b] \in Seq(Ups) /\ r < t
      BY <1>1, <2>1 DEF Values, Lengths
    <2>3. Continues(h, up[b], "reading", r)
      BY <1>1, <2>1 DEF InFlight
    <2>4. Continues(h, up[b], "data", r + 1) /\ (h + u = r => h + u + 1 = r + 1) /\ r + 1 <= t
      <3> HIDE DEF h, u, r, t
      <3>1. Continues(h, up[b], "data", r + 1)
        BY <2>2, <2>3, ContinuesRead
      <3>2. QED
        BY <2>2, <3>1
    <2>5. InFlight(b)'
      BY <1>1, <1>7, <2>1, <2>4 DEF ReadLocal, InFlight
    <2>6. link[b] = "up" => Len(heard[b]) + Len(up[b]) + 1 = read'[b]
      BY <1>1, <2>1, <2>4 DEF Upward
    <2>7. read'[b] <= typed[b] /\ ~heardClose[b]
      BY <1>1, <2>1, <2>4 DEF Upward
    <2>8. Upward(b)'
      BY <1>7, <2>1, <2>6, <2>7 DEF ReadLocal, Upward
    <2>9. QED
      BY <2>5, <2>8
  <1>8. CASE ReadEof(b)
    BY <1>1, <1>8 DEF ReadEof, InFlight, Continues, Upward, PlacesOK
  <1>9. CASE LocalWrites(b)
    BY <1>1, <1>9 DEF LocalWrites, InFlight, Upward, Values, UpwardOK
  <1>10. CASE LocalShutsDown(b) \/ LocalGone(b)
    BY <1>1, <1>10 DEF LocalShutsDown, LocalGone, InFlight, Upward, PlacesOK
  <1>11. CASE LinkLost(b)
    BY <1>1, <1>11 DEF LinkLost, InFlight, Continues, Upward, PlacesOK, UpwardOK
  <1>12. CASE \/ Accept(b) \/ ConnectFails(b) \/ ReadLocalFails(b) \/ SendFails(b)
              \/ FromRelayStep(b) \/ LocalReads(b) \/ RelaySends(b) \/ RelayEnds(b)
    <2>1. UNCHANGED <<toRelay, read, up, heard, heardClose, link, local, typed>>
      BY <1>12 DEF Accept, ConnectFails, ReadLocalFails, SendFails, FromRelayStep, ReadFrame,
                   WriteLocal, WriteLocalFails, ReadClose, ReadError, ReadFails, LocalReads,
                   RelaySends, RelayEnds, Returns
    <2>2. QED
      BY <1>2, <2>1
  <1>13. QED
    BY <1>3, <1>4, <1>5, <1>6, <1>7, <1>8, <1>9, <1>10, <1>11, <1>12
       DEF BridgeStep, ToRelayStep, Environment

-----------------------------------------------------------------------------
(* Towards the local program.                                              *)

\* After frames that carry chunks the next chunk, or an end, is in order.
LEMMA SaidNext ==
    ASSUME NEW q \in Seq(Downs), EndIsLast(q), q = <<>> \/ q[Len(q)].kind \notin Ends
    PROVE  /\ Len(q) < MaxDown => EndIsLast(Append(q, Data(Len(q) + 1)))
           /\ \A k \in Ends : EndIsLast(Append(q, End(k)))
  <1> DEFINE n == Len(q)
  <1>1. n \in Nat /\ DOMAIN q = 1 .. n /\ \A i \in 1 .. n : q[i] \in Downs
    OBVIOUS
  <1>2. \A i \in 1 .. n : q[i].kind = "StreamData" /\ q[i].n = i
    <2> SUFFICES ASSUME NEW i \in 1 .. n PROVE q[i].kind = "StreamData" /\ q[i].n = i
      OBVIOUS
    <2>1. IF q[i].kind = "StreamData" THEN q[i].n = i ELSE i = n
      BY <1>1 DEF EndIsLast
    <2>2. q[i].kind \in Ends \cup {"StreamData"}
      BY <1>1, Frames
    <2>3. q # <<>>
      BY <1>1
    <2>4. q[n].kind \notin Ends
      BY <2>3
    <2> HIDE DEF n
    <2>5. q[i].kind = "StreamData"
      BY <2>1, <2>2, <2>4
    <2>6. QED
      BY <2>1, <2>5
  <1>3. ASSUME NEW f \in Downs, f.kind = "StreamData" => f.n = n + 1
        PROVE  EndIsLast(Append(q, f))
    <2> DEFINE a == Append(q, f)
    <2>1. /\ DOMAIN a = 1 .. (n + 1) /\ Len(a) = n + 1 /\ a[n + 1] = f
          /\ \A i \in 1 .. n : a[i] = q[i]
      BY AppendIs
    <2> HIDE DEF a, n
    <2> SUFFICES ASSUME NEW i \in 1 .. (n + 1)
                 PROVE  IF a[i].kind = "StreamData" THEN a[i].n = i ELSE i = Len(a)
      BY <2>1 DEF EndIsLast, a
    <2>2. CASE i \in 1 .. n
      BY <1>2, <2>1, <2>2
    <2>3. CASE i = n + 1
      BY <1>3, <2>1, <2>3
    <2>4. QED
      BY <1>1, <2>2, <2>3
  <1>4. ASSUME n < MaxDown PROVE EndIsLast(Append(q, Data(n + 1)))
    <2>1. n + 1 \in 1 .. MaxDown
      BY <1>1, <1>4, BoundsAreNat
    <2>2. Data(n + 1) \in Downs /\ Data(n + 1).n = n + 1
      BY <2>1, Frames DEF Data
    <2>3. QED
      BY <1>3, <2>2
  <1>5. ASSUME NEW k \in Ends PROVE EndIsLast(Append(q, End(k)))
    <2>1. End(k) \in Downs /\ End(k).kind # "StreamData"
      BY Frames DEF End
    <2>2. QED
      BY <1>3, <2>1
  <1>6. QED
    BY <1>4, <1>5

\* What the relay sends is in order, and its end is the last.
LEMMA SaidStep ==
    ASSUME IndInv, NEW b \in Bridges, BridgeStep(b) PROVE Said(b)'
  <1> USE DEF upVars, peerVars, downVars
  <1> DEFINE n == Len(said[b])
  <1>1. Said(b) /\ DownwardOK /\ said[b] \in Seq(Downs) /\ n \in Nat
    BY ValuesTyped DEF IndInv, TypeOK, BridgeInv, Values, Lengths
  <1>2. CASE said'[b] = said[b]
    BY <1>1, <1>2 DEF Said, RelayEnded
  <1>3. ASSUME ~RelayEnded(b)
        PROVE  /\ n < MaxDown => EndIsLast(Append(said[b], Data(n + 1)))
               /\ \A k \in Ends : EndIsLast(Append(said[b], End(k)))
               /\ n <= MaxDown
    BY <1>1, <1>3, SaidNext DEF Said, RelayEnded
  <1>4. CASE RelaySends(b)
    <2>1. said'[b] = Append(said[b], Data(n + 1)) /\ ~RelayEnded(b) /\ n < MaxDown
      BY <1>1, <1>4 DEF RelaySends, DownwardOK
    <2>2. n + 1 \in 1 .. MaxDown
      <3> HIDE DEF n
      <3>1. QED
        BY <1>1, <2>1, BoundsAreNat
    <2>3. Len(said'[b]) = n + 1
      BY <1>1, <2>1, <2>2, Frames, AppendIs
    <2>4. Len(said'[b]) <= MaxDown /\ Len(said'[b]) <= MaxDown + 1
      BY <2>2, <2>3, BoundsAreNat
    <2>5. QED
      BY <1>3, <2>1, <2>4 DEF Said
  <1>5. CASE RelayEnds(b)
    <2>1. ~RelayEnded(b)
      BY <1>5 DEF RelayEnds
    <2>2. PICK k \in Ends : said'[b] = Append(said[b], End(k))
      BY <1>1, <1>5 DEF RelayEnds, DownwardOK
    <2>3. Len(said'[b]) = n + 1 /\ said'[b][n + 1] = End(k)
      BY <1>1, <2>2, Frames, AppendIs
    <2>4. n + 1 <= MaxDown + 1 /\ n + 1 # 0
      <3> HIDE DEF n
      <3>1. QED
        BY <1>1, <1>3, <2>1, BoundsAreNat
    <2>5. RelayEnded(b)'
      BY <2>3, <2>4 DEF RelayEnded, End
    <2>6. QED
      BY <1>3, <2>1, <2>2, <2>3, <2>4, <2>5 DEF Said
  <1>6. CASE ~RelaySends(b) /\ ~RelayEnds(b)
    <2>1. said' = said
      <3>1. CASE ToRelayStep(b) \/ Accept(b) \/ Connect(b) \/ ConnectFails(b)
        BY <3>1 DEF ToRelayStep, ReadLocal, ReadEof, ReadLocalFails, SendData, SendClose,
                    SendFails, Accept, Connect, ConnectFails
      <3>2. CASE FromRelayStep(b)
        BY <3>2 DEF FromRelayStep, ReadFrame, WriteLocal, WriteLocalFails, ReadClose,
                    ReadError, ReadFails
      <3>3. CASE Environment(b)
        BY <1>6, <3>3 DEF Environment, LocalConnects, LocalWrites, LocalShutsDown, LocalGone,
                          LocalReads, RelayReads, LinkLost
      <3>4. QED
        BY <3>1, <3>2, <3>3 DEF BridgeStep
    <2>2. QED
      BY <1>2, <2>1
  <1>7. QED
    BY <1>4, <1>5, <1>6

\* When from_relay reads the relay's end it has written all that came before it.
LEMMA EndRead ==
    ASSUME IndInv, NEW b \in Bridges, HasFrame(b), NextFrame(b).kind \in Ends
    PROVE  /\ RelayEnded(b) /\ seen[b] + 1 = Len(said[b])
           /\ Len(got[b]) = seen[b] /\ Given(b) = seen[b]
  <1> DEFINE n == Len(said[b])
             m == seen[b]
  <1>1. /\ EndIsLast(said[b]) /\ Downward(b) /\ said[b] \in Seq(Downs)
        /\ n \in Nat /\ m \in Nat
    BY ValuesTyped DEF IndInv, BridgeInv, Said, Values, Lengths
  <1>2. /\ PollsDown(b) /\ fromRelay[b] = "reading" /\ m < n
        /\ said[b][m + 1].kind \in Ends
    BY DEF HasFrame, NextFrame
  <1>3. m + 1 \in 1 .. n
    <2> HIDE DEF m, n
    <2>1. QED
      BY <1>1, <1>2
  <1>4. said[b][m + 1].kind # "StreamData"
    BY <1>2, Frames
  <1>5. m + 1 = n
    BY <1>1, <1>3, <1>4 DEF EndIsLast
  <1>6. said[b] # <<>>
    BY <1>1, <1>3
  <1>7. RelayEnded(b)
    BY <1>2, <1>5, <1>6 DEF RelayEnded
  <1>8. n - 1 = m
    <2> HIDE DEF m, n
    <2>1. QED
      BY <1>1, <1>5
  <1>9. QED
    BY <1>1, <1>2, <1>5, <1>7, <1>8 DEF Downward, Given

\* What a bridge has written, where nothing it depends on has changed.
LEMMA DownwardSame ==
    ASSUME NEW b, Downward(b), fromRelay'[b] = fromRelay[b], said'[b] = said[b],
           seen'[b] = seen[b], got'[b] = got[b],
           consumed'[b] = consumed[b] \/ consumed'[b] <= Len(got[b]),
           PollsDown(b)' => PollsDown(b),
           bridge'[b] = "ok" => bridge[b] = "ok"
    PROVE  Downward(b)'
  <1>1. RelayEnded(b)' = RelayEnded(b) /\ Given(b)' = Given(b)
    BY DEF RelayEnded, Given
  <1>2. QED
    BY <1>1 DEF Downward

\* The relay sends more: what was read of it stays.
LEMMA RelayGivesKeeps ==
    ASSUME IndInv, NEW b \in Bridges, RelaySends(b) \/ RelayEnds(b) PROVE Downward(b)'
  <1> USE DEF upVars, peerVars, downVars
  <1> DEFINE n == Len(said[b])
             m == seen[b]
             g == Len(got[b])
  <1>1. /\ Downward(b) /\ DownwardOK /\ said[b] \in Seq(Downs)
        /\ n \in Nat /\ m \in Nat /\ g \in Nat /\ m <= n
    BY ValuesTyped DEF IndInv, TypeOK, BridgeInv, Values, Lengths, Downward
  <1>2. /\ PollsDown(b) /\ UNCHANGED <<bridge, fromRelay, seen, got, consumed>>
        /\ bridge[b] # "ok"
    BY <1>1 DEF RelaySends, RelayEnds, PollsDown
  <1>3. PICK f \in Downs : said'[b] = Append(said[b], f)
    <2>1. CASE RelaySends(b)
      <3>1. said'[b] = Append(said[b], Data(n + 1)) /\ n < MaxDown
        BY <1>1, <2>1 DEF RelaySends, DownwardOK
      <3>2. n + 1 \in 1 .. MaxDown
        <4> HIDE DEF n
        <4>1. QED
          BY <1>1, <3>1, BoundsAreNat
      <3>3. QED
        BY <3>1, <3>2, Frames
    <2>2. CASE RelayEnds(b)
      BY <1>1, <2>2, Frames DEF RelayEnds, DownwardOK
    <2>3. QED
      BY <2>1, <2>2
  <1>4. Len(said'[b]) = n + 1 /\ \A i \in 1 .. n : said'[b][i] = said[b][i]
    BY <1>1, <1>3, AppendIs
  <1>5. m <= n + 1 /\ (g + 1 = m => m \in 1 .. n)
    <2> HIDE DEF m, n, g
    <2>1. QED
      BY <1>1
  <1>6. seen'[b] <= Len(said'[b])
    BY <1>2, <1>4, <1>5
  <1>7. fromRelay[b] = "writing" =>
          Len(got[b]) + 1 = seen[b] /\ said'[b][seen[b]].kind = "StreamData"
    BY <1>1, <1>2, <1>4, <1>5 DEF Downward
  <1>8. QED
    BY <1>1, <1>2, <1>6, <1>7 DEF Downward

\* from_relay reads and writes in turn, and returns Ok only at the relay's end.
LEMMA FromRelayKeeps ==
    ASSUME IndInv, NEW b \in Bridges, FromRelayStep(b) PROVE Downward(b)'
  <1> USE DEF upVars, peerVars, downVars
  <1> DEFINE n == Len(said[b])
             m == seen[b]
             g == Len(got[b])
  <1>1. /\ Downward(b) /\ EndIsLast(said[b]) /\ PlacesOK /\ DownwardOK
        /\ said[b] \in Seq(Downs) /\ got[b] \in Seq(Nat)
        /\ n \in Nat /\ m \in Nat /\ g \in Nat /\ consumed[b] \in Nat
        /\ m <= n /\ consumed[b] <= g
    BY ValuesTyped DEF IndInv, TypeOK, BridgeInv, Said, Values, Lengths, Downward
  <1>2. CASE ReadFrame(b)
    <2>1. /\ PollsDown(b) /\ fromRelay[b] = "reading" /\ m < n
          /\ said[b][m + 1].kind = "StreamData"
          /\ seen'[b] = m + 1 /\ fromRelay'[b] = "writing"
          /\ UNCHANGED <<bridge, said, got, consumed>>
      BY <1>1, <1>2 DEF ReadFrame, HasFrame, NextFrame, PlacesOK, DownwardOK
    <2>2. m + 1 <= n
      <3> HIDE DEF m, n
      <3>1. QED
        BY <1>1, <2>1
    <2>3. g = m /\ bridge[b] # "ok"
      BY <1>1, <2>1 DEF Downward, PollsDown
    <2>4. seen'[b] <= Len(said[b]) /\ Len(got[b]) + 1 = seen'[b]
      BY <2>1, <2>2, <2>3
    <2>5. QED
      BY <1>1, <2>1, <2>3, <2>4 DEF Downward
  <1>3. CASE WriteLocal(b)
    <2>1. /\ PollsDown(b) /\ fromRelay[b] = "writing" /\ fromRelay'[b] = "reading"
          /\ got'[b] = Append(got[b], said[b][m].n)
          /\ UNCHANGED <<bridge, seen, said, consumed>>
      BY <1>1, <1>3 DEF WriteLocal, PlacesOK, DownwardOK
    <2>2. g + 1 = m /\ said[b][m].kind = "StreamData" /\ bridge[b] # "ok"
      BY <1>1, <2>1 DEF Downward, PollsDown
    <2>3. m \in 1 .. n /\ g + 1 \in Nat /\ consumed[b] <= g + 1
      <3> HIDE DEF m, n, g
      <3>1. QED
        BY <1>1, <2>2
    <2>4. said[b][m].n = g + 1
      BY <1>1, <2>2, <2>3 DEF EndIsLast
    <2>5. Numbered(got'[b]) /\ Len(got'[b]) = g + 1
      BY <1>1, <2>1, <2>3, <2>4, NumberedNext, AppendIs DEF Downward
    <2>6. Len(got'[b]) = seen[b] /\ consumed[b] <= Len(got'[b]) /\ seen[b] <= Len(said[b])
      BY <1>1, <2>2, <2>3, <2>5
    <2>7. QED
      BY <2>1, <2>2, <2>5, <2>6 DEF Downward
  <1>4. CASE ReadClose(b)
    <2>1. /\ RelayEnded(b) /\ m + 1 = n /\ g = m /\ Given(b) = m
      BY <1>4, EndRead DEF ReadClose, Ends
    <2>2. /\ seen'[b] = m + 1 /\ bridge'[b] \in {"ok", "failed"}
          /\ UNCHANGED <<fromRelay, said, got, consumed>>
      BY <1>1, <1>4 DEF ReadClose, Returns, PlacesOK, DownwardOK
    <2>3. RelayEnded(b)' /\ Given(b)' = Given(b)
      BY <2>1, <2>2 DEF RelayEnded, Given
    <2>4. m + 1 <= n
      <3> HIDE DEF m, n
      <3>1. QED
        BY <1>1, <2>1
    <2>5. ~PollsDown(b)' /\ seen'[b] <= Len(said[b]) /\ Len(got[b]) = Given(b)
      BY <2>1, <2>2, <2>4 DEF PollsDown
    <2>6. QED
      BY <1>1, <2>2, <2>3, <2>5 DEF Downward
  <1>5. CASE ReadError(b)
    <2>1. m + 1 = n
      BY <1>5, EndRead DEF ReadError, Ends
    <2>2. /\ seen'[b] = m + 1 /\ bridge'[b] = "failed"
          /\ UNCHANGED <<fromRelay, said, got, consumed>>
      BY <1>1, <1>5 DEF ReadError, Returns, PlacesOK, DownwardOK
    <2>3. m + 1 <= n
      <3> HIDE DEF m, n
      <3>1. QED
        BY <1>1, <2>1
    <2>4. ~PollsDown(b)' /\ seen'[b] <= Len(said[b])
      BY <2>2, <2>3 DEF PollsDown
    <2>5. QED
      BY <1>1, <2>2, <2>4 DEF Downward
  <1>6. CASE WriteLocalFails(b) \/ ReadFails(b)
    <2>1. bridge'[b] = "failed" /\ UNCHANGED <<fromRelay, said, seen, got, consumed>>
      BY <1>1, <1>6 DEF WriteLocalFails, ReadFails, Returns, PlacesOK
    <2>2. ~PollsDown(b)'
      BY <2>1 DEF PollsDown
    <2>3. QED
      BY <1>1, <2>1, <2>2, DownwardSame
  <1>7. QED
    BY <1>2, <1>3, <1>4, <1>5, <1>6 DEF FromRelayStep

\* Towards the local program the invariant of a bridge is kept by every step.
LEMMA DownwardStep ==
    ASSUME IndInv, NEW b \in Bridges, BridgeStep(b) PROVE Downward(b)'
  <1> USE DEF upVars, peerVars, downVars
  <1>1. /\ Downward(b) /\ Fresh(b) /\ PlacesOK /\ DownwardOK
        /\ consumed[b] \in Nat /\ Len(got[b]) \in Nat
    BY ValuesTyped DEF IndInv, TypeOK, BridgeInv, Values, Lengths
  <1>2. CASE FromRelayStep(b)
    BY <1>2, FromRelayKeeps
  <1>3. CASE RelaySends(b) \/ RelayEnds(b)
    BY <1>3, RelayGivesKeeps
  <1>4. CASE Connect(b)
    <2>1. /\ fromRelay[b] = "reading" /\ seen[b] = 0 /\ got[b] = <<>>
          /\ bridge'[b] = "both" /\ UNCHANGED <<fromRelay, said, seen, got, consumed>>
      BY <1>1, <1>4 DEF Connect, Fresh, PlacesOK
    <2>2. Len(got[b]) = seen[b]
      BY <2>1
    <2>3. QED
      BY <1>1, <2>1, <2>2 DEF Downward
  <1>5. CASE ToRelayStep(b) \/ Accept(b) \/ ConnectFails(b)
    <2>1. /\ UNCHANGED <<fromRelay, said, seen, got, consumed>>
          /\ bridge'[b] \in {bridge[b], "failed", "draining", "connecting"}
          /\ bridge'[b] = "draining" => bridge[b] \in {"both", "draining"}
      BY <1>1, <1>5 DEF ToRelayStep, ReadLocal, ReadEof, ReadLocalFails, SendData, SendClose,
                        SendFails, Accept, ConnectFails, Returns, PollsUp, PlacesOK
    <2>2. (PollsDown(b)' => PollsDown(b)) /\ (bridge'[b] = "ok" => bridge[b] = "ok")
      BY <2>1 DEF PollsDown
    <2>3. QED
      BY <1>1, <2>1, <2>2, DownwardSame
  <1>6. CASE LocalConnects(b)
    <2>1. UNCHANGED <<fromRelay, said, seen, got, consumed>> /\ bridge'[b] = "backlog"
      BY <1>1, <1>6 DEF LocalConnects, PlacesOK
    <2>2. ~PollsDown(b)'
      BY <2>1 DEF PollsDown
    <2>3. QED
      BY <1>1, <2>1, <2>2, DownwardSame
  <1>7. CASE LocalReads(b)
    <2>1. UNCHANGED <<bridge, fromRelay, said, seen, got>> /\ consumed'[b] <= Len(got[b])
      BY <1>1, <1>7 DEF LocalReads, DownwardOK
    <2>2. QED
      BY <1>1, <2>1, DownwardSame DEF PollsDown
  <1>8. CASE LocalWrites(b) \/ LocalShutsDown(b) \/ LocalGone(b) \/ RelayReads(b) \/ LinkLost(b)
    <2>1. UNCHANGED <<bridge, fromRelay, said, seen, got, consumed>>
      BY <1>8 DEF LocalWrites, LocalShutsDown, LocalGone, RelayReads, LinkLost
    <2>2. QED
      BY <1>1, <2>1, DownwardSame DEF PollsDown
  <1>9. QED
    BY <1>2, <1>3, <1>4, <1>5, <1>6, <1>7, <1>8 DEF BridgeStep, Environment

-----------------------------------------------------------------------------
(* The theorems.                                                           *)

\* The process ends: its bridges are polled no more, and nothing else changes.
LEMMA AcceptFailsKeeps ==
    ASSUME IndInv, AcceptFails, NEW c \in Bridges PROVE BridgeInv(c)'
  <1> USE DEF upVars, peerVars, downVars
  <1>1. BridgeInv(c) /\ bridge[c] \in BridgePc
    BY DEF IndInv, TypeOK, PlacesOK
  <1>2. /\ UNCHANGED <<toRelay, fromRelay, local, typed, read, up, heard, heardClose, link,
                       said, seen, got, consumed>>
        /\ bridge'[c] \in {bridge[c], "dropped"}
        /\ bridge'[c] = "dropped" \/ bridge[c] \notin {"both", "draining"}
    BY DEF AcceptFails
  <1>3. (PollsDown(c)' => PollsDown(c)) /\ (bridge'[c] = "ok" => bridge[c] = "ok")
    BY <1>2 DEF PollsDown
  <1>4. Downward(c)'
    BY <1>1, <1>2, <1>3, DownwardSame DEF BridgeInv
  <1>5. InFlight(c)' /\ Upward(c)'
    BY <1>1, <1>2 DEF BridgeInv, InFlight, Upward, LocalEnded
  <1>6. Said(c)'
    BY <1>1, <1>2 DEF BridgeInv, Said, RelayEnded
  <1>7. Fresh(c)'
    BY <1>1, <1>2, <1>3 DEF BridgeInv, Fresh
  <1>8. QED
    BY <1>4, <1>5, <1>6, <1>7 DEF BridgeInv

\* Every step keeps the invariant: a bridge by its own steps, the others untouched.
LEMMA StepInv == IndInv /\ [Next]_vars => IndInv'
  <1> SUFFICES ASSUME IndInv, [Next]_vars PROVE \A c \in Bridges : BridgeInv(c)'
    BY StepTyped DEF IndInv
  <1> TAKE c \in Bridges
  <1>1. CASE AcceptFails
    BY <1>1, AcceptFailsKeeps
  <1>2. CASE UNCHANGED vars
    <2>1. SameBridge(c)
      BY <1>2 DEF vars, upVars, peerVars, downVars, SameBridge
    <2>2. QED
      BY <2>1, SameInv DEF IndInv
  <1>3. ASSUME NEW b \in Bridges, BridgeStep(b) PROVE BridgeInv(c)'
    <2>1. CASE b = c
      BY <1>3, <2>1, FreshStep, UpwardStep, SaidStep, DownwardStep DEF BridgeInv
    <2>2. CASE b # c
      BY <1>3, <2>2, OthersSame, SameInv DEF IndInv
    <2>3. QED
      BY <2>1, <2>2
  <1>4. QED
    BY <1>1, <1>2, <1>3 DEF Next, BridgeStep

\* The invariant holds of every bridge in every state.
THEOREM Invariance == Spec => []IndInv
  BY InitInv, StepInv, PTL DEF Spec

\* The types, and the limits of the two buffers a send waits for.
THEOREM TypeCorrect == Spec => []TypeOK
  <1>1. IndInv => TypeOK
    BY DEF IndInv
  <1>2. QED
    BY <1>1, Invariance, PTL

\* A bridge returns for a cause: an end it has read, a peer that is gone, or the end
\* of the process.
THEOREM EndsOnlyForACause == Spec => EndsForACause
  <1>1. IndInv /\ [Next]_vars =>
          [\A b \in Bridges :
              PollsDown(b) /\ ~PollsDown(b)' =>
                  \/ RelayEnded(b) /\ seen'[b] = Len(said[b])
                  \/ link[b] = "down"
                  \/ local[b] = "gone"
                  \/ listener' = "ended"]_vars
    <2> SUFFICES ASSUME IndInv, Next, NEW b \in Bridges, PollsDown(b), ~PollsDown(b)'
                 PROVE  \/ RelayEnded(b) /\ seen'[b] = Len(said[b])
                        \/ link[b] = "down"
                        \/ local[b] = "gone"
                        \/ listener' = "ended"
      OBVIOUS
    <2> USE DEF upVars, peerVars, downVars
    <2>1. PlacesOK /\ DownwardOK
      BY DEF IndInv, TypeOK
    <2>2. CASE AcceptFails
      BY <2>2 DEF AcceptFails
    <2>3. BridgeStep(b) \/ AcceptFails
      <3>1. ASSUME NEW c \in Bridges, BridgeStep(c), c # b PROVE FALSE
        BY <3>1, OthersSame DEF SameBridge, PollsDown
      <3>2. QED
        BY <3>1 DEF Next, BridgeStep
    <2>4. CASE ToRelayStep(b)
      BY <2>1, <2>4 DEF ToRelayStep, ReadLocal, ReadEof, ReadLocalFails, SendData, SendClose,
                        SendFails, PollsDown, PlacesOK
    <2>5. CASE ReadClose(b) \/ ReadError(b)
      <3>1. HasFrame(b) /\ NextFrame(b).kind \in Ends /\ seen'[b] = seen[b] + 1
        BY <2>1, <2>5 DEF ReadClose, ReadError, Ends, DownwardOK
      <3>2. QED
        BY <3>1, EndRead
    <2>6. CASE ReadFrame(b) \/ WriteLocal(b) \/ WriteLocalFails(b) \/ ReadFails(b)
      BY <2>6 DEF ReadFrame, WriteLocal, WriteLocalFails, ReadFails, PollsDown
    <2>7. CASE Accept(b) \/ Connect(b) \/ ConnectFails(b)
      BY <2>7 DEF Accept, Connect, ConnectFails, PollsDown
    <2>8. CASE Environment(b)
      BY <2>8 DEF Environment, LocalConnects, LocalWrites, LocalShutsDown, LocalGone, LocalReads,
                  RelayReads, RelaySends, RelayEnds, LinkLost, PollsDown
    <2>9. QED
      BY <2>2, <2>3, <2>4, <2>5, <2>6, <2>7, <2>8 DEF BridgeStep, FromRelayStep
  <1>2. QED
    BY <1>1, Invariance, PTL DEF Spec, EndsForACause

-----------------------------------------------------------------------------
(* Each direction implements BytePipe.                                     *)

\* A step that gives, ends, delivers and finishes nothing is a stutter of the pipe ...
LEMMA UpStutter ==
    ASSUME UNCHANGED <<typed, heard, heardClose>>,
           \A c \in Bridges : LocalEnded(c)' = LocalEnded(c)
    PROVE  UNCHANGED UpPipe!vars
  <1>1. [c \in Bridges |-> local[c] \in {"eof", "gone"}]' =
          [c \in Bridges |-> local[c] \in {"eof", "gone"}]
    BY DEF LocalEnded
  <1>2. QED
    BY <1>1 DEF UpPipe!vars

\* ... and every step of a bridge is a step of its pipe or such a stutter.
LEMMA UpStep ==
    ASSUME IndInv, NEW b \in Bridges, BridgeStep(b) PROVE [UpPipe!Next]_(UpPipe!vars)
  <1> USE DEF upVars, peerVars, downVars
  <1>1. PlacesOK /\ UpwardOK /\ Fresh(b) /\ Upward(b)
    BY DEF IndInv, TypeOK, BridgeInv
  <1> DEFINE closed == [c \in Bridges |-> local[c] \in {"eof", "gone"}]
  <1>2. CASE LocalWrites(b)
    <2>1. closed' = closed /\ ~closed[b]
      BY <1>2 DEF LocalWrites
    <2>2. typed' = [typed EXCEPT ![b] = @ + 1] /\ UNCHANGED <<heard, heardClose>>
      BY <1>2 DEF LocalWrites
    <2>3. UpPipe!Give(b)
      BY <2>1, <2>2 DEF UpPipe!Give
    <2>4. QED
      BY <2>3 DEF UpPipe!Next
  <1>3. CASE (LocalShutsDown(b) \/ LocalGone(b)) /\ local[b] = "open"
    <2>1. UNCHANGED <<typed, heard, heardClose>> /\ ~closed[b]
      BY <1>3 DEF LocalShutsDown, LocalGone
    <2>2. local' = [local EXCEPT ![b] = "eof"] \/ local' = [local EXCEPT ![b] = "gone"]
      BY <1>3 DEF LocalShutsDown, LocalGone
    <2>3. closed' = [closed EXCEPT ![b] = TRUE]
      BY <1>1, <2>2 DEF PlacesOK
    <2>4. UpPipe!End(b)
      BY <2>1, <2>3 DEF UpPipe!End
    <2>5. QED
      BY <2>4 DEF UpPipe!Next
  <1>4. CASE LocalGone(b) /\ local[b] # "open"
    <2>1. UNCHANGED <<typed, heard, heardClose>> /\ local[b] = "eof"
          /\ local' = [local EXCEPT ![b] = "gone"]
      BY <1>4 DEF LocalGone
    <2>2. \A c \in Bridges : LocalEnded(c)' = LocalEnded(c)
      BY <1>1, <2>1 DEF LocalEnded, PlacesOK
    <2>3. QED
      BY <2>1, <2>2, UpStutter
  <1>5. CASE RelayReads(b) /\ Head(up[b]).kind = "StreamData"
    <2>1. up[b] # <<>> /\ UNCHANGED <<local, typed, heardClose>>
          /\ heard' = [heard EXCEPT ![b] = Append(@, Head(up[b]).n)]
      BY <1>5 DEF RelayReads
    <2>2. ~heardClose[b] /\ Len(heard[b]) < typed[b] /\ Head(up[b]).n = Len(heard[b]) + 1
      BY <1>5, <2>1, NextHeard
    <2>3. heard' = [heard EXCEPT ![b] = Append(@, Len(@) + 1)]
      BY <2>1, <2>2
    <2>4. closed' = closed
      BY <2>1
    <2>5. UpPipe!Deliver(b)
      BY <2>1, <2>2, <2>3, <2>4 DEF UpPipe!Deliver
    <2>6. QED
      BY <2>5 DEF UpPipe!Next
  <1>6. CASE RelayReads(b) /\ Head(up[b]).kind # "StreamData"
    <2>1. up[b] # <<>> /\ UNCHANGED <<local, typed, heard>>
          /\ heardClose' = [heardClose EXCEPT ![b] = TRUE]
      BY <1>6 DEF RelayReads
    <2>2. ~heardClose[b] /\ closed[b] /\ Len(heard[b]) = typed[b]
      BY <1>6, <2>1, NextHeard DEF LocalEnded
    <2>3. closed' = closed
      BY <2>1
    <2>4. UpPipe!Finish(b)
      BY <2>1, <2>2, <2>3 DEF UpPipe!Finish
    <2>5. QED
      BY <2>4 DEF UpPipe!Next
  <1>7. CASE LocalConnects(b)
    <2>1. UNCHANGED <<typed, heard, heardClose>> /\ local[b] = "none"
          /\ local' = [local EXCEPT ![b] = "open"]
      BY <1>1, <1>7 DEF LocalConnects, Fresh
    <2>2. \A c \in Bridges : LocalEnded(c)' = LocalEnded(c)
      BY <1>1, <2>1 DEF LocalEnded, PlacesOK
    <2>3. QED
      BY <2>1, <2>2, UpStutter
  <1>8. CASE \/ Accept(b) \/ Connect(b) \/ ConnectFails(b) \/ ToRelayStep(b) \/ FromRelayStep(b)
             \/ LocalReads(b) \/ RelaySends(b) \/ RelayEnds(b) \/ LinkLost(b)
    <2>1. UNCHANGED <<typed, heard, heardClose, local>>
      BY <1>8 DEF Accept, Connect, ConnectFails, ToRelayStep, ReadLocal, ReadEof, ReadLocalFails,
                  SendData, SendClose, SendFails, FromRelayStep, ReadFrame, WriteLocal,
                  WriteLocalFails, ReadClose, ReadError, ReadFails, LocalReads, RelaySends,
                  RelayEnds, LinkLost
    <2>2. QED
      BY <2>1, UpStutter DEF LocalEnded
  <1>9. QED
    BY <1>2, <1>3, <1>4, <1>5, <1>6, <1>7, <1>8 DEF BridgeStep, Environment, LocalShutsDown

\* What the local program writes reaches the relay in order, and StreamClose follows
\* all of it.
THEOREM UpImplementsPipe == Spec => UpIsPipe
  <1>1. ASSUME Init PROVE UpPipe!Init
    <2>1. \A c \in Bridges : (local[c] \in {"eof", "gone"}) = FALSE
      BY <1>1 DEF Init
    <2>2. [c \in Bridges |-> local[c] \in {"eof", "gone"}] = [c \in Bridges |-> FALSE]
      BY <2>1
    <2>3. QED
      BY <1>1, <2>2 DEF Init, UpPipe!Init
  <1>2. IndInv /\ [Next]_vars => [UpPipe!Next]_(UpPipe!vars)
    <2> SUFFICES ASSUME IndInv, [Next]_vars PROVE [UpPipe!Next]_(UpPipe!vars)
      OBVIOUS
    <2>1. CASE AcceptFails \/ UNCHANGED vars
      <3>1. UNCHANGED <<typed, heard, heardClose, local>>
        BY <2>1 DEF AcceptFails, vars, peerVars
      <3>2. QED
        BY <3>1, UpStutter DEF LocalEnded
    <2>2. QED
      BY <2>1, UpStep DEF Next, BridgeStep
  <1>3. QED
    BY <1>1, <1>2, Invariance, PTL DEF Spec, UpIsPipe, UpPipe!Spec

\* Towards the local program a step that gives, ends, writes and closes nothing is a
\* stutter ...
LEMMA DownStutter ==
    ASSUME UNCHANGED got,
           \A c \in Bridges : said'[c] = said[c] /\ (bridge'[c] = "ok") = (bridge[c] = "ok")
    PROVE  UNCHANGED DownPipe!vars
  <1>1. \A c \in Bridges : RelayEnded(c)' = RelayEnded(c) /\ Given(c)' = Given(c)
    BY DEF RelayEnded, Given
  <1>2. /\ [c \in Bridges |-> Given(c)]' = [c \in Bridges |-> Given(c)]
        /\ [c \in Bridges |-> RelayEnded(c)]' = [c \in Bridges |-> RelayEnded(c)]
        /\ [c \in Bridges |-> bridge[c] = "ok"]' = [c \in Bridges |-> bridge[c] = "ok"]
    BY <1>1
  <1>3. QED
    BY <1>2 DEF DownPipe!vars

\* ... and the relay's frames are the chunks and the end of the pipe.
LEMMA DownGives ==
    ASSUME IndInv, NEW b \in Bridges, RelaySends(b) \/ RelayEnds(b) PROVE DownPipe!Next
  <1> USE DEF upVars, peerVars, downVars
  <1> DEFINE n == Len(said[b])
             sent == [c \in Bridges |-> Given(c)]
             over == [c \in Bridges |-> RelayEnded(c)]
             ok == [c \in Bridges |-> bridge[c] = "ok"]
  <1>1. said[b] \in Seq(Downs) /\ n \in Nat /\ DownwardOK
    BY ValuesTyped DEF IndInv, TypeOK, Values, Lengths
  <1>2. UNCHANGED got /\ ok' = ok /\ ~over[b] /\ sent[b] = n
    BY DEF RelaySends, RelayEnds, Given
  <1>3. \A c \in Bridges : c # b => Given(c)' = Given(c) /\ RelayEnded(c)' = RelayEnded(c)
    <2>1. \A c \in Bridges : c # b => said'[c] = said[c]
      BY <1>1 DEF RelaySends, RelayEnds, DownwardOK
    <2>2. QED
      BY <2>1 DEF Given, RelayEnded
  <1>4. CASE RelaySends(b)
    <2>1. said'[b] = Append(said[b], Data(n + 1)) /\ n < MaxDown
      BY <1>1, <1>4 DEF RelaySends, DownwardOK
    <2>2. n + 1 \in 1 .. MaxDown
      <3> HIDE DEF n
      <3>1. QED
        BY <1>1, <2>1, BoundsAreNat
    <2>3. Len(said'[b]) = n + 1 /\ said'[b][n + 1] = Data(n + 1)
      BY <1>1, <2>1, <2>2, Frames, AppendIs
    <2>4. ~RelayEnded(b)'
      BY <2>3, Frames DEF RelayEnded, Data
    <2>5. Given(b)' = sent[b] + 1
      BY <1>2, <2>3, <2>4 DEF Given
    <2>6. over' = over
      BY <1>2, <1>3, <2>4 DEF RelayEnded
    <2>7. sent' = [sent EXCEPT ![b] = @ + 1]
      BY <1>3, <2>5
    <2>8. DownPipe!Give(b)
      BY <1>2, <2>6, <2>7 DEF DownPipe!Give
    <2>9. QED
      BY <2>8 DEF DownPipe!Next
  <1>5. CASE RelayEnds(b)
    <2>1. PICK k \in Ends : said'[b] = Append(said[b], End(k))
      BY <1>1, <1>5 DEF RelayEnds, DownwardOK
    <2>2. Len(said'[b]) = n + 1 /\ said'[b][n + 1] = End(k)
      BY <1>1, <2>1, Frames, AppendIs
    <2>3. n + 1 # 0 /\ (n + 1) - 1 = n
      <3> HIDE DEF n
      <3>1. QED
        BY <1>1
    <2>4. RelayEnded(b)'
      BY <2>2, <2>3 DEF RelayEnded, End
    <2>5. Given(b)' = sent[b]
      BY <1>2, <2>2, <2>3, <2>4 DEF Given
    <2>6. over' = [over EXCEPT ![b] = TRUE]
      BY <1>3, <2>4
    <2>7. sent' = sent
      BY <1>3, <2>5
    <2>8. DownPipe!End(b)
      BY <1>2, <2>6, <2>7 DEF DownPipe!End
    <2>9. QED
      BY <2>8 DEF DownPipe!Next
  <1>6. QED
    BY <1>4, <1>5

\* Writing a chunk delivers it; only reading the relay's end finishes the pipe.
LEMMA DownTakes ==
    ASSUME IndInv, NEW b \in Bridges, FromRelayStep(b)
    PROVE  [DownPipe!Next]_(DownPipe!vars)
  <1> USE DEF upVars, peerVars, downVars
  <1> DEFINE n == Len(said[b])
             m == seen[b]
             g == Len(got[b])
             sent == [c \in Bridges |-> Given(c)]
             over == [c \in Bridges |-> RelayEnded(c)]
             ok == [c \in Bridges |-> bridge[c] = "ok"]
  <1>1. /\ Downward(b) /\ EndIsLast(said[b]) /\ RelayEnded(b) \in BOOLEAN
        /\ PlacesOK /\ DownwardOK /\ said[b] \in Seq(Downs)
        /\ n \in Nat /\ m \in Nat /\ g \in Nat /\ m <= n
    BY ValuesTyped DEF IndInv, TypeOK, BridgeInv, Said, Values, Lengths, Downward, RelayEnded
  <1>2. said' = said /\ PollsDown(b) /\ bridge[b] # "ok"
    BY DEF FromRelayStep, ReadFrame, WriteLocal, WriteLocalFails, ReadClose, ReadError,
           ReadFails, HasFrame, PollsDown
  <1>3. sent' = sent /\ over' = over
    BY <1>2 DEF Given, RelayEnded
  <1>4. CASE UNCHANGED got /\ bridge'[b] # "ok"
    <2>1. \A c \in Bridges : c # b => bridge'[c] = bridge[c]
      BY OthersSame DEF BridgeStep, SameBridge
    <2>2. \A c \in Bridges : (bridge'[c] = "ok") = (bridge[c] = "ok")
      BY <1>2, <1>4, <2>1
    <2>3. QED
      BY <1>2, <1>4, <2>2, DownStutter
  <1>5. CASE WriteLocal(b)
    <2>1. /\ fromRelay[b] = "writing"
          /\ got' = [got EXCEPT ![b] = Append(@, said[b][m].n)] /\ UNCHANGED bridge
      BY <1>5 DEF WriteLocal
    <2>2. g + 1 = m /\ said[b][m].kind = "StreamData"
      BY <1>1, <1>2, <2>1 DEF Downward
    <2>3. m \in 1 .. n
      <3> HIDE DEF m, n, g
      <3>1. QED
        BY <1>1, <2>2
    <2>4. said[b][m].n = g + 1
      BY <1>1, <2>2, <2>3 DEF EndIsLast
    <2>5. RelayEnded(b) => m # n
      BY <2>2, Frames DEF RelayEnded
    <2>6. g < n /\ (m # n => g < n - 1)
      <3> HIDE DEF m, n, g
      <3>1. QED
        BY <1>1, <2>2, <2>3
    <2>7. g < sent[b]
      BY <1>1, <2>5, <2>6 DEF Given
    <2>8. got' = [got EXCEPT ![b] = Append(@, Len(@) + 1)]
      BY <2>1, <2>4
    <2>9. ok' = ok /\ ~ok[b]
      BY <1>2, <2>1
    <2>10. DownPipe!Deliver(b)
      BY <1>3, <2>7, <2>8, <2>9 DEF DownPipe!Deliver
    <2>11. QED
      BY <2>10 DEF DownPipe!Next
  <1>6. CASE ReadClose(b) /\ bridge'[b] = "ok"
    <2>1. over[b] /\ g = sent[b] /\ UNCHANGED got
      BY <1>6, EndRead DEF ReadClose, Ends
    <2>2. bridge' = [bridge EXCEPT ![b] = "ok"]
      BY <1>1, <1>6 DEF ReadClose, Returns, PlacesOK
    <2>3. ok' = [ok EXCEPT ![b] = TRUE] /\ ~ok[b]
      BY <1>1, <1>2, <2>2 DEF PlacesOK
    <2>4. DownPipe!Finish(b)
      BY <1>3, <2>1, <2>3 DEF DownPipe!Finish
    <2>5. QED
      BY <2>4 DEF DownPipe!Next
  <1>7. CASE ReadClose(b) /\ bridge'[b] # "ok"
    BY <1>4, <1>7 DEF ReadClose
  <1>8. CASE ReadFrame(b)
    BY <1>2, <1>4, <1>8 DEF ReadFrame
  <1>9. CASE WriteLocalFails(b) \/ ReadError(b) \/ ReadFails(b)
    <2>1. UNCHANGED got /\ bridge'[b] = "failed"
      BY <1>1, <1>9 DEF WriteLocalFails, ReadError, ReadFails, Returns, PlacesOK
    <2>2. QED
      BY <1>4, <2>1
  <1>10. QED
    BY <1>5, <1>6, <1>7, <1>8, <1>9 DEF FromRelayStep

\* What the relay sends is written to the local program in order, and a bridge
\* returns Ok only when all of it is.
THEOREM DownImplementsPipe == Spec => DownIsPipe
  <1>1. ASSUME Init PROVE DownPipe!Init
    <2>1. \A c \in Bridges : /\ RelayEnded(c) = FALSE /\ Given(c) = 0
                             /\ (bridge[c] = "ok") = FALSE
      BY <1>1 DEF Init, RelayEnded, Given
    <2>2. /\ [c \in Bridges |-> Given(c)] = [c \in Bridges |-> 0]
          /\ [c \in Bridges |-> RelayEnded(c)] = [c \in Bridges |-> FALSE]
          /\ [c \in Bridges |-> bridge[c] = "ok"] = [c \in Bridges |-> FALSE]
      BY <2>1
    <2>3. QED
      BY <1>1, <2>2 DEF Init, DownPipe!Init
  <1>2. IndInv /\ [Next]_vars => [DownPipe!Next]_(DownPipe!vars)
    <2> SUFFICES ASSUME IndInv, [Next]_vars PROVE [DownPipe!Next]_(DownPipe!vars)
      OBVIOUS
    <2> USE DEF upVars, peerVars, downVars
    <2>1. PlacesOK
      BY DEF IndInv, TypeOK
    <2>2. CASE AcceptFails
      <3>1. UNCHANGED <<said, got>>
            /\ \A c \in Bridges : bridge'[c] = bridge[c]
                                    \/ (bridge'[c] # "ok" /\ bridge[c] # "ok")
        BY <2>2 DEF AcceptFails
      <3>2. \A c \in Bridges : (bridge'[c] = "ok") = (bridge[c] = "ok")
        BY <3>1
      <3>3. QED
        BY <3>1, <3>2, DownStutter
    <2>3. CASE UNCHANGED vars
      <3>1. UNCHANGED <<said, got, bridge>>
        BY <2>3 DEF vars
      <3>2. QED
        BY <3>1, DownStutter
    <2>4. ASSUME NEW b \in Bridges, BridgeStep(b), ~FromRelayStep(b),
                 ~RelaySends(b), ~RelayEnds(b)
          PROVE  UNCHANGED DownPipe!vars
      <3>1. /\ UNCHANGED <<said, got>>
            /\ bridge'[b] = bridge[b] \/ (bridge'[b] # "ok" /\ bridge[b] # "ok")
        <4>1. CASE ToRelayStep(b)
          BY <2>1, <4>1 DEF ToRelayStep, ReadLocal, ReadEof, ReadLocalFails, SendData, SendClose,
                            SendFails, Returns, PollsUp, PlacesOK
        <4>2. CASE Accept(b) \/ Connect(b) \/ ConnectFails(b)
          BY <2>1, <4>2 DEF Accept, Connect, ConnectFails, Returns, PlacesOK
        <4>3. CASE Environment(b)
          BY <2>1, <2>4, <4>3 DEF Environment, LocalConnects, LocalWrites, LocalShutsDown,
                                  LocalGone, LocalReads, RelayReads, LinkLost, PlacesOK
        <4>4. QED
          BY <2>4, <4>1, <4>2, <4>3 DEF BridgeStep
      <3>2. \A c \in Bridges : c # b => bridge'[c] = bridge[c]
        BY <2>4, OthersSame DEF SameBridge
      <3>3. \A c \in Bridges : (bridge'[c] = "ok") = (bridge[c] = "ok")
        BY <3>1, <3>2
      <3>4. QED
        BY <3>1, <3>3, DownStutter
    <2>5. QED
      BY <2>2, <2>3, <2>4, DownGives, DownTakes DEF Next, BridgeStep
  <1>3. QED
    BY <1>1, <1>2, Invariance, PTL DEF Spec, DownIsPipe, DownPipe!Spec
=============================================================================
