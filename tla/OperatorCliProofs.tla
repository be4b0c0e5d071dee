-------------------------- MODULE OperatorCliProofs --------------------------
(***************************************************************************)
(* Theorems about OperatorCli, for every number of runs, logins, ports and *)
(* tunnels, every deadline and every pause.                                *)
(***************************************************************************)
EXTENDS OperatorCli, TLAPS

-----------------------------------------------------------------------------
(* The inductive invariant, one concern at a time.                         *)

\* Only a run that sleeps has a timer
TimersOfSleepers == \A r \in Rks : pc[r] # "sleeping" => wake[r] = 0

\* A file that one login has opened is empty until it fills it, and two that have
\* it open have written at once
FileOfLogin ==
    /\ UnreadableOnlyByInterruption
    /\ \A l \in Logins : login[l] = "writing" => config = Empty \/ overlap
    /\ \A l, k \in Logins :
          login[l] = "writing" /\ login[k] = "writing" => l = k \/ overlap

Distinct(tunnels) ==
    \A i, j \in DOMAIN tunnels : tunnels[i].name = tunnels[j].name => i = j

\* A run with a tunnel, from its check of the port until it listens
BeforeBind(r) ==
    pc[r] \in {"create", "creating", "created", "list", "listing", "answered", "sleeping", "bind"}

PortOfRun ==
    /\ PortLostToAnother
    /\ \A r \in Rks : pc[r] \in Waiting \cup {"bind"} => cmd[r].tunnel
    /\ \A r \in Rks : BeforeBind(r) /\ cmd[r].tunnel /\ ~Free(cmd[r].listen) => lost[r]

\* An agent's entry in the relay, and what a run has heard of it
AgentHasEntry ==
    \A r \in Rks : agent[r] # "none" => session[r] # "none" /\ used[r]

Heard ==
    /\ WaitSawItsAgent
    /\ \A r \in Rks : agent[r] = "connected" => met[r]
    /\ \A r \in Rks : sees[r] => met[r]

\* What a look at the relay under way is worth
Look ==
    /\ NoFalseTimeout
    /\ \A r \in Rks : pc[r] = "listing" /\ there[r] => agent[r] = "connected"
    /\ \A r \in Rks : pc[r] = "answered" /\ there[r] => sees[r]
    /\ \A r \in Rks : pc[r] \in {"listing", "answered"} /\ left[r] = 0 => late[r] \/ slow[r]

IndInv ==
    /\ TypeOK
    /\ TimersOfSleepers
    /\ FileOfLogin
    /\ JoinCommandUsable
    /\ PortOfRun
    /\ AgentHasEntry
    /\ Heard
    /\ Look
-----------------------------------------------------------------------------
(* Every step keeps every part of the invariant.                           *)

\* A step keeps the types of the variables.
LEMMA TypeStep ==
    TypeOK /\ TimersOfSleepers /\ [Next]_vars => TypeOK'
<1> SUFFICES ASSUME TypeOK /\ TimersOfSleepers, [Next]_vars PROVE TypeOK'
  OBVIOUS
<1> USE CommandsTyped, TokensTyped, PortsTyped, TimesPositive
     DEF TypeOK, TimersOfSleepers, Running, Final, vars, rkVars, loginVars, waitVars,
         relayVars
<1>1. ASSUME NEW r \in Rks,
           Start(r) \/ CheckListen(r) \/ RkStep(r) \/ Stops(r) \/ Expire(r) \/ EndSession(r)
           \/ Join(r) \/ JoinRejected(r) \/ Attach(r) \/ AgentLeaves(r)
      PROVE TypeOK'
  <2>1. CASE Start(r)
    BY <2>1 DEF Start, Readable, ServerKnown, TokenOf
  <2>2. CASE CheckListen(r)
    BY <2>2 DEF CheckListen, Free
  <2>3. CASE Create(r)
    BY <2>3 DEF Create, Goes
  <2>4. CASE RelayCreates(r)
    BY <2>4 DEF RelayCreates, Goes
  <2>5. CASE RelayRefuses(r)
    BY <2>5 DEF RelayRefuses, Goes
  <2>6. CASE Created(r)
    BY <2>6 DEF Created, Goes
  <2>7. CASE List(r)
    BY <2>7 DEF List, Goes
  <2>8. CASE RelayLists(r)
    BY <2>8 DEF RelayLists, Goes, SessionConnected
  <2>9. CASE Answered(r)
    BY <2>9 DEF Answered, Goes, Settles, Least
  <2>10. CASE WakeUp(r)
    BY <2>10 DEF WakeUp, Goes
  <2>11. CASE Bind(r)
    BY <2>11 DEF Bind, Free
  <2>12. CASE BindFails(r)
    BY <2>12 DEF BindFails, Goes
  <2>13. CASE Stops(r)
    BY <2>13 DEF Stops, Settles
  <2>14. CASE Expire(r)
    BY <2>14 DEF Expire
  <2>15. CASE EndSession(r)
    BY <2>15 DEF EndSession, Removed, NoLonger
  <2>16. CASE Join(r)
    BY <2>16 DEF Join, CodeUsable
  <2>17. CASE JoinRejected(r)
    BY <2>17 DEF JoinRejected, CodeUsable
  <2>18. CASE Attach(r)
    BY <2>18 DEF Attach
  <2>19. CASE AgentLeaves(r)
    BY <2>19 DEF AgentLeaves, NoLonger
  <2> QED
    BY <1>1, <2>1, <2>2, <2>3, <2>4, <2>5, <2>6, <2>7, <2>8, <2>9, <2>10, <2>11, <2>12,
         <2>13, <2>14, <2>15, <2>16, <2>17, <2>18, <2>19 DEF RkStep
<1>2. ASSUME NEW l \in Logins, LoginStep(l)
      PROVE TypeOK'
  <2>1. CASE LoginStarts(l)
    BY <2>1 DEF LoginStarts, LoginMoves, Readable
  <2>2. CASE LoginOpens(l)
    BY <2>2 DEF LoginOpens, LoginMoves
  <2>3. CASE LoginFills(l)
    BY <2>3 DEF LoginFills, LoginMoves
  <2>4. CASE LoginStops(l)
    BY <2>4 DEF LoginStops, LoginMoves
  <2> QED
    BY <1>2, <2>1, <2>2, <2>3, <2>4 DEF LoginStep
<1>3. CASE RelayRestarts
  BY <1>3 DEF RelayRestarts, Removed, NoLonger
<1>4. CASE Tick
  BY <1>4 DEF Tick
<1>5. CASE UNCHANGED vars
  BY <1>5
<1> QED
  BY <1>1, <1>2, <1>3, <1>4, <1>5 DEF Next

\* Only a run that goes to sleep sets a timer.
LEMMA TimersStep ==
    TypeOK /\ TimersOfSleepers /\ [Next]_vars => TimersOfSleepers'
<1> SUFFICES ASSUME TypeOK /\ TimersOfSleepers, [Next]_vars PROVE TimersOfSleepers'
  OBVIOUS
<1> USE CommandsTyped, TokensTyped, PortsTyped, TimesPositive
     DEF TypeOK, TimersOfSleepers, Running, Final, vars, rkVars, loginVars, waitVars,
         relayVars
<1>1. ASSUME NEW r \in Rks,
           Start(r) \/ CheckListen(r) \/ RkStep(r) \/ Stops(r) \/ Expire(r) \/ EndSession(r)
           \/ Join(r) \/ JoinRejected(r) \/ Attach(r) \/ AgentLeaves(r)
      PROVE TimersOfSleepers'
  <2>1. CASE Start(r)
    BY <2>1 DEF Start, Readable, ServerKnown, TokenOf
  <2>2. CASE CheckListen(r)
    BY <2>2 DEF CheckListen, Free
  <2>3. CASE Create(r)
    BY <2>3 DEF Create, Goes
  <2>4. CASE RelayCreates(r)
    BY <2>4 DEF RelayCreates, Goes
  <2>5. CASE RelayRefuses(r)
    BY <2>5 DEF RelayRefuses, Goes
  <2>6. CASE Created(r)
    BY <2>6 DEF Created, Goes
  <2>7. CASE List(r)
    BY <2>7 DEF List, Goes
  <2>8. CASE RelayLists(r)
    BY <2>8 DEF RelayLists, Goes, SessionConnected
  <2>9. CASE Answered(r)
    BY <2>9 DEF Answered, Goes, Settles, Least
  <2>10. CASE WakeUp(r)
    BY <2>10 DEF WakeUp, Goes
  <2>11. CASE Bind(r)
    BY <2>11 DEF Bind, Free
  <2>12. CASE BindFails(r)
    BY <2>12 DEF BindFails, Goes
  <2>13. CASE Stops(r)
    BY <2>13 DEF Stops, Settles
  <2>14. CASE Expire(r)
    BY <2>14 DEF Expire
  <2>15. CASE EndSession(r)
    BY <2>15 DEF EndSession, Removed, NoLonger
  <2>16. CASE Join(r)
    BY <2>16 DEF Join, CodeUsable
  <2>17. CASE JoinRejected(r)
    BY <2>17 DEF JoinRejected, CodeUsable
  <2>18. CASE Attach(r)
    BY <2>18 DEF Attach
  <2>19. CASE AgentLeaves(r)
    BY <2>19 DEF AgentLeaves, NoLonger
  <2> QED
    BY <1>1, <2>1, <2>2, <2>3, <2>4, <2>5, <2>6, <2>7, <2>8, <2>9, <2>10, <2>11, <2>12,
         <2>13, <2>14, <2>15, <2>16, <2>17, <2>18, <2>19 DEF RkStep
<1>2. ASSUME NEW l \in Logins, LoginStep(l)
      PROVE TimersOfSleepers'
  <2>1. CASE LoginStarts(l)
    BY <2>1 DEF LoginStarts, LoginMoves, Readable
  <2>2. CASE LoginOpens(l)
    BY <2>2 DEF LoginOpens, LoginMoves
  <2>3. CASE LoginFills(l)
    BY <2>3 DEF LoginFills, LoginMoves
  <2>4. CASE LoginStops(l)
    BY <2>4 DEF LoginStops, LoginMoves
  <2> QED
    BY <1>2, <2>1, <2>2, <2>3, <2>4 DEF LoginStep
<1>3. CASE RelayRestarts
  BY <1>3 DEF RelayRestarts, Removed, NoLonger
<1>4. CASE Tick
  BY <1>4 DEF Tick
<1>5. CASE UNCHANGED vars
  BY <1>5
<1> QED
  BY <1>1, <1>2, <1>3, <1>4, <1>5 DEF Next

\* A login leaves no unreadable file unless another is still writing.
LEMMA FileStep ==
    TypeOK /\ FileOfLogin /\ [Next]_vars => FileOfLogin'
<1> SUFFICES ASSUME TypeOK /\ FileOfLogin, [Next]_vars PROVE FileOfLogin'
  OBVIOUS
<1> USE NotTokens, FileThere, TokensTyped
     DEF TypeOK, FileOfLogin, UnreadableOnlyByInterruption, vars, rkVars, loginVars,
         waitVars, relayVars
<1>1. ASSUME NEW r \in Rks,
           Start(r) \/ CheckListen(r) \/ RkStep(r) \/ Stops(r) \/ Expire(r) \/ EndSession(r)
           \/ Join(r) \/ JoinRejected(r) \/ Attach(r) \/ AgentLeaves(r)
      PROVE FileOfLogin'
  <2>1. CASE Start(r)
    BY <2>1 DEF Start, Readable, ServerKnown, TokenOf
  <2>2. CASE CheckListen(r)
    BY <2>2 DEF CheckListen, Free
  <2>3. CASE Create(r)
    BY <2>3 DEF Create, Goes
  <2>4. CASE RelayCreates(r)
    BY <2>4 DEF RelayCreates, Goes
  <2>5. CASE RelayRefuses(r)
    BY <2>5 DEF RelayRefuses, Goes
  <2>6. CASE Created(r)
    BY <2>6 DEF Created, Goes
  <2>7. CASE List(r)
    BY <2>7 DEF List, Goes
  <2>8. CASE RelayLists(r)
    BY <2>8 DEF RelayLists, Goes, SessionConnected
  <2>9. CASE Answered(r)
    BY <2>9 DEF Answered, Goes, Settles, Least
  <2>10. CASE WakeUp(r)
    BY <2>10 DEF WakeUp, Goes
  <2>11. CASE Bind(r)
    BY <2>11 DEF Bind, Free
  <2>12. CASE BindFails(r)
    BY <2>12 DEF BindFails, Goes
  <2>13. CASE Stops(r)
    BY <2>13 DEF Stops, Settles
  <2>14. CASE Expire(r)
    BY <2>14 DEF Expire
  <2>15. CASE EndSession(r)
    BY <2>15 DEF EndSession, Removed, NoLonger
  <2>16. CASE Join(r)
    BY <2>16 DEF Join, CodeUsable
  <2>17. CASE JoinRejected(r)
    BY <2>17 DEF JoinRejected, CodeUsable
  <2>18. CASE Attach(r)
    BY <2>18 DEF Attach
  <2>19. CASE AgentLeaves(r)
    BY <2>19 DEF AgentLeaves, NoLonger
  <2> QED
    BY <1>1, <2>1, <2>2, <2>3, <2>4, <2>5, <2>6, <2>7, <2>8, <2>9, <2>10, <2>11, <2>12,
         <2>13, <2>14, <2>15, <2>16, <2>17, <2>18, <2>19 DEF RkStep
<1>2. ASSUME NEW l \in Logins, LoginStep(l)
      PROVE FileOfLogin'
  <2>1. CASE LoginStarts(l)
    BY <2>1 DEF LoginStarts, LoginMoves, Readable
  <2>2. CASE LoginOpens(l)
    BY <2>2 DEF LoginOpens, LoginMoves
  <2>3. CASE LoginFills(l)
    BY <2>3 DEF LoginFills, LoginMoves
  <2>4. CASE LoginStops(l)
    BY <2>4 DEF LoginStops, LoginMoves
  <2> QED
    BY <1>2, <2>1, <2>2, <2>3, <2>4 DEF LoginStep
<1>3. CASE RelayRestarts
  BY <1>3 DEF RelayRestarts, Removed, NoLonger
<1>4. CASE Tick
  BY <1>4 DEF Tick
<1>5. CASE UNCHANGED vars
  BY <1>5
<1> QED
  BY <1>1, <1>2, <1>3, <1>4, <1>5 DEF Next

\* A port is taken only by a run that announces it to all others.
LEMMA PortStep ==
    TypeOK /\ PortOfRun /\ [Next]_vars => PortOfRun'
<1> SUFFICES ASSUME TypeOK /\ PortOfRun, [Next]_vars PROVE PortOfRun'
  OBVIOUS
<1> USE NotTokens
     DEF TypeOK, PortOfRun, PortLostToAnother, BeforeBind, Free, Waiting, Running,
         Final, vars, rkVars, loginVars, waitVars, relayVars
<1>0. ASSUME NEW s \in Rks PROVE cmd[s].listen \in Ports
  <2>1. cmd[s] \in AllCommands
    BY CommandsTyped
  <2> QED
    BY <2>1 DEF AllCommands
<1>1. ASSUME NEW r \in Rks,
           Start(r) \/ CheckListen(r) \/ RkStep(r) \/ Stops(r) \/ Expire(r) \/ EndSession(r)
           \/ Join(r) \/ JoinRejected(r) \/ Attach(r) \/ AgentLeaves(r)
      PROVE PortOfRun'
  <2>1. CASE Start(r)
    BY <2>1 DEF Start, Readable, ServerKnown, TokenOf
  <2>2. CASE CheckListen(r)
    BY <2>2 DEF CheckListen, Free
  <2>3. CASE Create(r)
    BY <2>3 DEF Create, Goes
  <2>4. CASE RelayCreates(r)
    BY <2>4 DEF RelayCreates, Goes
  <2>5. CASE RelayRefuses(r)
    BY <2>5 DEF RelayRefuses, Goes
  <2>6. CASE Created(r)
    BY <2>6 DEF Created, Goes
  <2>7. CASE List(r)
    BY <2>7 DEF List, Goes
  <2>8. CASE RelayLists(r)
    BY <2>8 DEF RelayLists, Goes, SessionConnected
  <2>9. CASE Answered(r)
    BY <2>9 DEF Answered, Goes, Settles, Least
  <2>10. CASE WakeUp(r)
    BY <2>10 DEF WakeUp, Goes
  <2>11. CASE Bind(r)
    <3>1. pc' = [pc EXCEPT ![r] = "serving"] /\ cmd' = cmd /\ pc[r] = "bind"
      BY <2>11 DEF Bind
    <3>2. ASSUME NEW s \in Rks, BeforeBind(s)', cmd'[s].tunnel, ~Free(cmd[s].listen)'
          PROVE  lost'[s]
      <4>1. s # r /\ BeforeBind(s)
        BY <3>1, <3>2
      <4>2. CASE cmd[s].listen = cmd[r].listen
        BY <2>11, <4>1, <4>2 DEF Bind
      <4>3. CASE cmd[s].listen # cmd[r].listen
        BY <1>0, <2>11, <3>1, <3>2, <4>1, <4>3 DEF Bind
      <4> QED
        BY <4>2, <4>3
    <3>3. \A s \in Rks : pc'[s] = "portLost" => lost'[s]
      BY <2>11, <3>1 DEF Bind
    <3> QED
      BY <3>1, <3>2, <3>3
  <2>12. CASE BindFails(r)
    BY <2>12 DEF BindFails, Goes
  <2>13. CASE Stops(r)
    <3>1. /\ pc' = [pc EXCEPT ![r] = IF @ = "serving" THEN "done" ELSE "failed"]
          /\ cmd' = cmd /\ lost' = lost
          /\ \A p \in Ports : holder'[p] = holder[p] \/ holder'[p] = None
      BY <2>13 DEF Stops
    <3>2. \A s \in Rks : BeforeBind(s)' => BeforeBind(s)
      BY <3>1
    <3>3. \A s \in Rks : ~Free(cmd[s].listen)' => ~Free(cmd[s].listen)
      BY <1>0, <3>1
    <3> QED
      BY <3>1, <3>2, <3>3
  <2>14. CASE Expire(r)
    BY <2>14 DEF Expire
  <2>15. CASE EndSession(r)
    BY <2>15 DEF EndSession, Removed, NoLonger
  <2>16. CASE Join(r)
    BY <2>16 DEF Join, CodeUsable
  <2>17. CASE JoinRejected(r)
    BY <2>17 DEF JoinRejected, CodeUsable
  <2>18. CASE Attach(r)
    BY <2>18 DEF Attach
  <2>19. CASE AgentLeaves(r)
    BY <2>19 DEF AgentLeaves, NoLonger
  <2> QED
    BY <1>1, <2>1, <2>2, <2>3, <2>4, <2>5, <2>6, <2>7, <2>8, <2>9, <2>10, <2>11, <2>12,
         <2>13, <2>14, <2>15, <2>16, <2>17, <2>18, <2>19 DEF RkStep
<1>2. ASSUME NEW l \in Logins, LoginStep(l)
      PROVE PortOfRun'
  <2>1. CASE LoginStarts(l)
    BY <2>1 DEF LoginStarts, LoginMoves, Readable
  <2>2. CASE LoginOpens(l)
    BY <2>2 DEF LoginOpens, LoginMoves
  <2>3. CASE LoginFills(l)
    BY <2>3 DEF LoginFills, LoginMoves
  <2>4. CASE LoginStops(l)
    BY <2>4 DEF LoginStops, LoginMoves
  <2> QED
    BY <1>2, <2>1, <2>2, <2>3, <2>4 DEF LoginStep
<1>3. CASE RelayRestarts
  BY <1>3 DEF RelayRestarts, Removed, NoLonger
<1>4. CASE Tick
  BY <1>4 DEF Tick
<1>5. CASE UNCHANGED vars
  BY <1>5
<1> QED
  BY <1>1, <1>2, <1>3, <1>4, <1>5 DEF Next

\* An agent has an entry whose code is consumed.
LEMMA EntryStep ==
    TypeOK /\ AgentHasEntry /\ [Next]_vars => AgentHasEntry'
<1> SUFFICES ASSUME TypeOK /\ AgentHasEntry, [Next]_vars PROVE AgentHasEntry'
  OBVIOUS
<1> USE TokensTyped DEF TypeOK, AgentHasEntry, vars, rkVars, loginVars, waitVars, relayVars
<1>1. ASSUME NEW r \in Rks,
           Start(r) \/ CheckListen(r) \/ RkStep(r) \/ Stops(r) \/ Expire(r) \/ EndSession(r)
           \/ Join(r) \/ JoinRejected(r) \/ Attach(r) \/ AgentLeaves(r)
      PROVE AgentHasEntry'
  <2>1. CASE Start(r)
    BY <2>1 DEF Start, Readable, ServerKnown, TokenOf
  <2>2. CASE CheckListen(r)
    BY <2>2 DEF CheckListen, Free
  <2>3. CASE Create(r)
    BY <2>3 DEF Create, Goes
  <2>4. CASE RelayCreates(r)
    BY <2>4 DEF RelayCreates, Goes
  <2>5. CASE RelayRefuses(r)
    BY <2>5 DEF RelayRefuses, Goes
  <2>6. CASE Created(r)
    BY <2>6 DEF Created, Goes
  <2>7. CASE List(r)
    BY <2>7 DEF List, Goes
  <2>8. CASE RelayLists(r)
    BY <2>8 DEF RelayLists, Goes, SessionConnected
  <2>9. CASE Answered(r)
    BY <2>9 DEF Answered, Goes, Settles, Least
  <2>10. CASE WakeUp(r)
    BY <2>10 DEF WakeUp, Goes
  <2>11. CASE Bind(r)
    BY <2>11 DEF Bind, Free
  <2>12. CASE BindFails(r)
    BY <2>12 DEF BindFails, Goes
  <2>13. CASE Stops(r)
    BY <2>13 DEF Stops, Settles
  <2>14. CASE Expire(r)
    BY <2>14 DEF Expire
  <2>15. CASE EndSession(r)
    BY <2>15 DEF EndSession, Removed, NoLonger
  <2>16. CASE Join(r)
    BY <2>16 DEF Join, CodeUsable
  <2>17. CASE JoinRejected(r)
    BY <2>17 DEF JoinRejected, CodeUsable
  <2>18. CASE Attach(r)
    BY <2>18 DEF Attach
  <2>19. CASE AgentLeaves(r)
    BY <2>19 DEF AgentLeaves, NoLonger
  <2> QED
    BY <1>1, <2>1, <2>2, <2>3, <2>4, <2>5, <2>6, <2>7, <2>8, <2>9, <2>10, <2>11, <2>12,
         <2>13, <2>14, <2>15, <2>16, <2>17, <2>18, <2>19 DEF RkStep
<1>2. ASSUME NEW l \in Logins, LoginStep(l)
      PROVE AgentHasEntry'
  <2>1. CASE LoginStarts(l)
    BY <2>1 DEF LoginStarts, LoginMoves, Readable
  <2>2. CASE LoginOpens(l)
    BY <2>2 DEF LoginOpens, LoginMoves
  <2>3. CASE LoginFills(l)
    BY <2>3 DEF LoginFills, LoginMoves
  <2>4. CASE LoginStops(l)
    BY <2>4 DEF LoginStops, LoginMoves
  <2> QED
    BY <1>2, <2>1, <2>2, <2>3, <2>4 DEF LoginStep
<1>3. CASE RelayRestarts
  BY <1>3 DEF RelayRestarts, Removed, NoLonger
<1>4. CASE Tick
  BY <1>4 DEF Tick
<1>5. CASE UNCHANGED vars
  BY <1>5
<1> QED
  BY <1>1, <1>2, <1>3, <1>4, <1>5 DEF Next

\* What a run has seen of its agent has been so.
LEMMA HeardStep ==
    TypeOK /\ Heard /\ [Next]_vars => Heard'
<1> SUFFICES ASSUME TypeOK /\ Heard, [Next]_vars PROVE Heard'
  OBVIOUS
<1> USE TokensTyped
     DEF TypeOK, Heard, WaitSawItsAgent, Running, Final, vars, rkVars, loginVars,
         waitVars, relayVars
<1>1. ASSUME NEW r \in Rks,
           Start(r) \/ CheckListen(r) \/ RkStep(r) \/ Stops(r) \/ Expire(r) \/ EndSession(r)
           \/ Join(r) \/ JoinRejected(r) \/ Attach(r) \/ AgentLeaves(r)
      PROVE Heard'
  <2>1. CASE Start(r)
    BY <2>1 DEF Start, Readable, ServerKnown, TokenOf
  <2>2. CASE CheckListen(r)
    BY <2>2 DEF CheckListen, Free
  <2>3. CASE Create(r)
    BY <2>3 DEF Create, Goes
  <2>4. CASE RelayCreates(r)
    BY <2>4 DEF RelayCreates, Goes
  <2>5. CASE RelayRefuses(r)
    BY <2>5 DEF RelayRefuses, Goes
  <2>6. CASE Created(r)
    BY <2>6 DEF Created, Goes
  <2>7. CASE List(r)
    BY <2>7 DEF List, Goes
  <2>8. CASE RelayLists(r)
    BY <2>8 DEF RelayLists, Goes, SessionConnected
  <2>9. CASE Answered(r)
    BY <2>9 DEF Answered, Goes, Settles, Least
  <2>10. CASE WakeUp(r)
    BY <2>10 DEF WakeUp, Goes
  <2>11. CASE Bind(r)
    BY <2>11 DEF Bind, Free
  <2>12. CASE BindFails(r)
    BY <2>12 DEF BindFails, Goes
  <2>13. CASE Stops(r)
    BY <2>13 DEF Stops, Settles
  <2>14. CASE Expire(r)
    BY <2>14 DEF Expire
  <2>15. CASE EndSession(r)
    BY <2>15 DEF EndSession, Removed, NoLonger
  <2>16. CASE Join(r)
    BY <2>16 DEF Join, CodeUsable
  <2>17. CASE JoinRejected(r)
    BY <2>17 DEF JoinRejected, CodeUsable
  <2>18. CASE Attach(r)
    BY <2>18 DEF Attach
  <2>19. CASE AgentLeaves(r)
    BY <2>19 DEF AgentLeaves, NoLonger
  <2> QED
    BY <1>1, <2>1, <2>2, <2>3, <2>4, <2>5, <2>6, <2>7, <2>8, <2>9, <2>10, <2>11, <2>12,
         <2>13, <2>14, <2>15, <2>16, <2>17, <2>18, <2>19 DEF RkStep
<1>2. ASSUME NEW l \in Logins, LoginStep(l)
      PROVE Heard'
  <2>1. CASE LoginStarts(l)
    BY <2>1 DEF LoginStarts, LoginMoves, Readable
  <2>2. CASE LoginOpens(l)
    BY <2>2 DEF LoginOpens, LoginMoves
  <2>3. CASE LoginFills(l)
    BY <2>3 DEF LoginFills, LoginMoves
  <2>4. CASE LoginStops(l)
    BY <2>4 DEF LoginStops, LoginMoves
  <2> QED
    BY <1>2, <2>1, <2>2, <2>3, <2>4 DEF LoginStep
<1>3. CASE RelayRestarts
  BY <1>3 DEF RelayRestarts, Removed, NoLonger
<1>4. CASE Tick
  BY <1>4 DEF Tick
<1>5. CASE UNCHANGED vars
  BY <1>5
<1> QED
  BY <1>1, <1>2, <1>3, <1>4, <1>5 DEF Next

\* A look that settles the wait is late, slow or of an agent that was away.
LEMMA LookStep ==
    TypeOK /\ AgentHasEntry /\ Look /\ [Next]_vars => Look'
<1> SUFFICES ASSUME TypeOK /\ AgentHasEntry /\ Look, [Next]_vars PROVE Look'
  OBVIOUS
<1> USE TokensTyped
     DEF TypeOK, AgentHasEntry, Look, NoFalseTimeout, Waiting, Running, Final, vars,
         rkVars, loginVars, waitVars, relayVars
<1>1. ASSUME NEW r \in Rks,
           Start(r) \/ CheckListen(r) \/ RkStep(r) \/ Stops(r) \/ Expire(r) \/ EndSession(r)
           \/ Join(r) \/ JoinRejected(r) \/ Attach(r) \/ AgentLeaves(r)
      PROVE Look'
  <2>1. CASE Start(r)
    BY <2>1 DEF Start, Readable, ServerKnown, TokenOf
  <2>2. CASE CheckListen(r)
    BY <2>2 DEF CheckListen, Free
  <2>3. CASE Create(r)
    BY <2>3 DEF Create, Goes
  <2>4. CASE RelayCreates(r)
    BY <2>4 DEF RelayCreates, Goes
  <2>5. CASE RelayRefuses(r)
    BY <2>5 DEF RelayRefuses, Goes
  <2>6. CASE Created(r)
    BY <2>6 DEF Created, Goes
  <2>7. CASE List(r)
    <3>1. pc' = [pc EXCEPT ![r] = "listing"] /\ UNCHANGED <<left, sees, agent>>
      BY <2>7 DEF List, Goes
    <3>2. \A s \in Rks : s # r => late'[s] = late[s] /\ slow'[s] = slow[s] /\ there'[s] = there[s]
      BY <2>7 DEF List
    <3>3. late'[r] = (left[r] = 0) /\ there'[r] = (agent[r] = "connected")
      BY <2>7 DEF List
    <3>4. NoFalseTimeout'
      BY <3>1, <3>2
    <3>5. ASSUME NEW s \in Rks
          PROVE  /\ pc'[s] = "listing" /\ there'[s] => agent'[s] = "connected"
                 /\ pc'[s] = "answered" /\ there'[s] => sees'[s]
                 /\ pc'[s] \in {"listing", "answered"} /\ left'[s] = 0 => late'[s] \/ slow'[s]
      <4>1. CASE s = r
        BY <3>1, <3>3, <4>1
      <4>2. CASE s # r
        BY <3>1, <3>2, <4>2
      <4> QED
        BY <4>1, <4>2
    <3> QED
      BY <3>4, <3>5
  <2>8. CASE RelayLists(r)
    BY <2>8 DEF RelayLists, Goes, SessionConnected
  <2>9. CASE Answered(r)
    BY <2>9 DEF Answered, Goes, Settles, Least
  <2>10. CASE WakeUp(r)
    BY <2>10 DEF WakeUp, Goes
  <2>11. CASE Bind(r)
    BY <2>11 DEF Bind, Free
  <2>12. CASE BindFails(r)
    BY <2>12 DEF BindFails, Goes
  <2>13. CASE Stops(r)
    BY <2>13 DEF Stops, Settles
  <2>14. CASE Expire(r)
    BY <2>14 DEF Expire
  <2>15. CASE EndSession(r)
    BY <2>15 DEF EndSession, Removed, NoLonger
  <2>16. CASE Join(r)
    BY <2>16 DEF Join, CodeUsable
  <2>17. CASE JoinRejected(r)
    BY <2>17 DEF JoinRejected, CodeUsable
  <2>18. CASE Attach(r)
    BY <2>18 DEF Attach
  <2>19. CASE AgentLeaves(r)
    BY <2>19 DEF AgentLeaves, NoLonger
  <2> QED
    BY <1>1, <2>1, <2>2, <2>3, <2>4, <2>5, <2>6, <2>7, <2>8, <2>9, <2>10, <2>11, <2>12,
         <2>13, <2>14, <2>15, <2>16, <2>17, <2>18, <2>19 DEF RkStep
<1>2. ASSUME NEW l \in Logins, LoginStep(l)
      PROVE Look'
  <2>1. CASE LoginStarts(l)
    BY <2>1 DEF LoginStarts, LoginMoves, Readable
  <2>2. CASE LoginOpens(l)
    BY <2>2 DEF LoginOpens, LoginMoves
  <2>3. CASE LoginFills(l)
    BY <2>3 DEF LoginFills, LoginMoves
  <2>4. CASE LoginStops(l)
    BY <2>4 DEF LoginStops, LoginMoves
  <2> QED
    BY <1>2, <2>1, <2>2, <2>3, <2>4 DEF LoginStep
<1>3. CASE RelayRestarts
  BY <1>3 DEF RelayRestarts, Removed, NoLonger
<1>4. CASE Tick
  BY <1>4 DEF Tick
<1>5. CASE UNCHANGED vars
  BY <1>5
<1> QED
  BY <1>1, <1>2, <1>3, <1>4, <1>5 DEF Next

\* Join scripts that offer what is allowed are refused for repeated names only.
LEMMA DistinctIsUsable ==
    ASSUME NEW tunnels \in Seq(Tunnels)
    PROVE  ExposesOk(tunnels, tunnels) <=> Distinct(tunnels)
<1>1. ASSUME ExposesOk(tunnels, tunnels), NEW i \in DOMAIN tunnels, NEW j \in DOMAIN tunnels,
             tunnels[i].name = tunnels[j].name
      PROVE  i = j
  <2>1. i \in Nat /\ j \in Nat /\ 1 <= i /\ 1 <= j
    OBVIOUS
  <2>2. ASSUME NEW k \in DOMAIN tunnels, NEW l \in 1 .. (k - 1)
        PROVE  tunnels[l].name # tunnels[k].name
    BY <1>1, <2>2 DEF ExposesOk
  <2>3. i < j => i \in 1 .. (j - 1)
    BY <2>1
  <2>4. j < i => j \in 1 .. (i - 1)
    BY <2>1
  <2> QED
    BY <1>1, <2>1, <2>2, <2>3, <2>4
<1>2. ASSUME Distinct(tunnels), NEW i \in DOMAIN tunnels
      PROVE  /\ \A j \in 1 .. (i - 1) : tunnels[j].name # tunnels[i].name
             /\ \E t \in DOMAIN tunnels :
                  /\ tunnels[t] = tunnels[i]
                  /\ \A u \in 1 .. (t - 1) : tunnels[u].name # tunnels[i].name
  <2>1. \A j \in 1 .. (i - 1) : j \in DOMAIN tunnels /\ j # i
    OBVIOUS
  <2> QED
    BY <1>2, <2>1 DEF Distinct
<1> QED
  BY <1>1, <1>2 DEF ExposesOk, Distinct

\* A join command is accepted and refused as its session's tunnels are distinct.
LEMMA JoinStep ==
    TypeOK /\ JoinCommandUsable /\ [Next]_vars => JoinCommandUsable'
<1> SUFFICES ASSUME TypeOK, JoinCommandUsable, [Next]_vars PROVE JoinCommandUsable'
  OBVIOUS
<1>1. cmd' = cmd
  <2>1. ASSUME NEW r \in Rks, RkStep(r) PROVE cmd' = cmd
    BY <2>1 DEF RkStep, Goes, Create, RelayCreates, RelayRefuses, Created, List, RelayLists,
                Answered, WakeUp, Bind, BindFails
  <2>2. ASSUME NEW r \in Rks,
               Start(r) \/ CheckListen(r) \/ Stops(r) \/ Expire(r) \/ EndSession(r)
               \/ Join(r) \/ JoinRejected(r) \/ Attach(r) \/ AgentLeaves(r)
        PROVE  cmd' = cmd
    BY <2>2 DEF Start, CheckListen, Stops, Expire, EndSession, Removed, Join, JoinRejected,
                Attach, AgentLeaves, rkVars
  <2>3. ASSUME NEW l \in Logins, LoginStep(l) PROVE cmd' = cmd
    BY <2>3 DEF LoginStep, LoginStarts, LoginOpens, LoginFills, LoginStops, LoginMoves
  <2>4. RelayRestarts \/ Tick \/ UNCHANGED vars => cmd' = cmd
    BY DEF RelayRestarts, Removed, Tick, vars, rkVars
  <2> QED
    BY <2>1, <2>2, <2>3, <2>4 DEF Next
<1> DEFINE Usable(r)  == ExposesOk(cmd[r].allowed, cmd[r].allowed)
           OnlyTrue == \A r \in Rks : /\ used'[r] => used[r] \/ Usable(r)
                                      /\ rejected'[r] => rejected[r] \/ ~Usable(r)
<1>2. OnlyTrue
  <2>1. ASSUME NEW s \in Rks, Join(s) PROVE OnlyTrue
    BY <2>1 DEF Join, Offers, TypeOK
  <2>2. ASSUME NEW s \in Rks, JoinRejected(s) PROVE OnlyTrue
    BY <2>2 DEF JoinRejected, Offers, TypeOK
  <2>3. ASSUME NEW S, Removed(S) PROVE OnlyTrue
    BY <2>3 DEF Removed
  <2>4. CASE UNCHANGED <<used, rejected>>
    BY <2>4
  <2>5. ASSUME NEW r \in Rks, RkStep(r) PROVE UNCHANGED <<used, rejected>>
    BY <2>5 DEF RkStep, Goes, Create, RelayCreates, RelayRefuses, Created, List, RelayLists,
                Answered, WakeUp, Bind, BindFails, relayVars
  <2>6. ASSUME NEW r \in Rks,
               Start(r) \/ CheckListen(r) \/ Stops(r) \/ Expire(r) \/ Attach(r) \/ AgentLeaves(r)
        PROVE  UNCHANGED <<used, rejected>>
    BY <2>6 DEF Start, CheckListen, Stops, Expire, Attach, AgentLeaves, relayVars
  <2>7. ASSUME NEW l \in Logins, LoginStep(l) PROVE UNCHANGED <<used, rejected>>
    BY <2>7
         DEF LoginStep, LoginStarts, LoginOpens, LoginFills, LoginStops, LoginMoves,
             relayVars
  <2>8. Tick \/ UNCHANGED vars => UNCHANGED <<used, rejected>>
    BY DEF Tick, vars, relayVars
  <2> QED
    BY <2>1, <2>2, <2>3, <2>4, <2>5, <2>6, <2>7, <2>8 DEF Next, EndSession, RelayRestarts
<1>4. \A r \in Rks : cmd[r].allowed \in Seq(Tunnels)
  BY CommandsTyped DEF TypeOK, AllCommands
<1>5. \A r \in Rks : ExposesOk(cmd[r].allowed, cmd[r].allowed) <=> Distinct(cmd[r].allowed)
  BY <1>4, DistinctIsUsable
<1> QED
  BY <1>1, <1>2, <1>5 DEF JoinCommandUsable, Distinct

-----------------------------------------------------------------------------
(* The theorems.                                                           *)

\* rk and the relay start in the invariant.
LEMMA InitInvariant == Init => IndInv
<1> SUFFICES ASSUME Init PROVE IndInv
  OBVIOUS
<1> USE CommandsTyped, TokensTyped, NotTokens, FileThere, PortsTyped, TimesPositive DEF Init
<1>1. TypeOK
  <2>1. /\ config \in Tokens \cup {Empty, Torn, None}
        /\ \A r \in Rks : cmd[r] \in Commands[r]
    OBVIOUS
  <2>2. /\ left \in [Rks -> 0 .. Wait] /\ wake \in [Rks -> 0 .. Poll]
        /\ \A r \in Rks : wake[r] <= left[r]
    OBVIOUS
  <2>3. /\ pc \in [Rks -> Running \cup Final] /\ token \in [Rks -> Tokens]
        /\ ltoken \in [Logins -> Tokens]
    BY DEF Running
  <2>4. holder \in [Ports -> Rks \cup {None}]
    OBVIOUS
  <2> QED
    BY <2>1, <2>2, <2>3, <2>4 DEF TypeOK
<1>2. TimersOfSleepers /\ AgentHasEntry
  BY DEF TimersOfSleepers, AgentHasEntry
<1>3. FileOfLogin
  BY DEF FileOfLogin, UnreadableOnlyByInterruption
<1>4. JoinCommandUsable
  BY DEF JoinCommandUsable
<1>5. PortOfRun
  BY DEF PortOfRun, PortLostToAnother, BeforeBind, Waiting
<1>6. Heard
  BY DEF Heard, WaitSawItsAgent
<1>7. Look
  BY DEF Look, NoFalseTimeout
<1> QED
  BY <1>1, <1>2, <1>3, <1>4, <1>5, <1>6, <1>7 DEF IndInv

\* The invariant of rk's runs, the config file and the relay's entries: no step of
\* a run, a login, the relay, an agent or the clock leaves it.
THEOREM CliInvariant == Spec => []IndInv
<1>1. IndInv /\ [Next]_vars => IndInv'
  BY TypeStep, TimersStep, FileStep, JoinStep, PortStep, EntryStep, HeardStep, LookStep
       DEF IndInv
<1> QED
  BY InitInvariant, <1>1, PTL DEF Spec

\* Every variable keeps its type, and no run sleeps past its deadline (TypeOK), for
\* any wait and any pause of wait_for_agent.
THEOREM CliTypeCorrect == Spec => []TypeOK
<1>1. IndInv => TypeOK
  BY DEF IndInv
<1> QED
  BY CliInvariant, <1>1, PTL

\* wait_for_agent reports a timeout only of an agent that was away, and only after a
\* look at the relay at the deadline (NoFalseTimeout), however its steps, the clock
\* and the agent's comings and goings interleave.
THEOREM TimeoutIsTrue == Spec => []NoFalseTimeout
<1>1. IndInv => NoFalseTimeout
  BY DEF IndInv, Look
<1> QED
  BY CliInvariant, <1>1, PTL

\* wait_for_agent ends well only when the agent of its own session has been there
\* (WaitSawItsAgent), however many sessions the relay lists.
THEOREM WaitIsForItsAgent == Spec => []WaitSawItsAgent
<1>1. IndInv => WaitSawItsAgent
  BY DEF IndInv, Heard
<1> QED
  BY CliInvariant, <1>1, PTL

\* An address that ensure_listen_available found free is lost only to a run that
\* took it in between (PortLostToAnother), for any number of runs and addresses.
THEOREM PortIsLostToAnother == Spec => []PortLostToAnother
<1>1. IndInv => PortLostToAnother
  BY DEF IndInv, PortOfRun
<1> QED
  BY CliInvariant, <1>1, PTL

\* write_operator_config leaves an unreadable file only by an interruption or by
\* two logins at once (UnreadableOnlyByInterruption), for any number of logins.
THEOREM UnreadableIsInterrupted == Spec => []UnreadableOnlyByInterruption
<1>1. IndInv => UnreadableOnlyByInterruption
  BY DEF IndInv, FileOfLogin
<1> QED
  BY CliInvariant, <1>1, PTL

\* The join command of a session is accepted only if the names of its tunnels are
\* distinct and refused only if they are not (JoinCommandUsable), for every list.
THEOREM JoinCommandNeedsNames == Spec => []JoinCommandUsable
<1>1. IndInv => JoinCommandUsable
  BY DEF IndInv
<1> QED
  BY CliInvariant, <1>1, PTL
=============================================================================
