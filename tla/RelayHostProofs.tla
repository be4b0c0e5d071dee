--------------------------- MODULE RelayHostProofs ---------------------------
(***************************************************************************)
(* Theorems about RelayHost, for any number of deploys, every request, any *)
(* set of environment files and any number of crashes and reboots.         *)
(***************************************************************************)
EXTENDS RelayHost, TLAPS

-----------------------------------------------------------------------------
(* The inductive invariant, one concern at a time.                         *)

Written  == {"reload", "enable", "restart", "probe", "deployed"}
Reloaded == {"enable", "restart", "probe", "deployed"}
EnabledAt == {"restart", "probe", "deployed"}
Started  == {"probe", "deployed"}

\* A deploy that nothing has disturbed is the only one under way
OwnerAlone ==
    \A d \in Deployers : owner = d =>
        step[d] # "idle" /\ \A c \in Deployers \ {d} : step[c] \in Ended

\* ... and finds the disk as it has left it
Disk(d) ==
    /\ step[d] \in {"install", "installing"} => tmp[d] \in {None, req[d].build}
    /\ step[d] = "installing" /\ tmp[d] # None => binBy = d
    /\ step[d] \in {"write", "writing"} \cup Written => binary = req[d].build
    /\ step[d] = "writing" => unit = Empty
    /\ step[d] \in Written => unit = req[d].unit

\* ... and systemd as it has told it to be
Systemd(d) ==
    /\ step[d] \in Reloaded => loaded = req[d].unit
    /\ step[d] \in EnabledAt => enabled
    /\ step[d] \in Started => env.file
    /\ step[d] \in Started /\ phase \in {"starting", "serving", "refused"} =>
          proc = [build |-> req[d].build, unit |-> req[d].unit, env |-> env]
    /\ step[d] \in Started => phase # "down"

\* ... and after a health check a configuration relaykitd accepts
Starts(d) ==
    step[d] = "deployed" /\ ~req[d].skip => Startable(ServerConfig(req[d].unit, env))

OwnerFinds == \A d \in Deployers : owner = d => Disk(d) /\ Systemd(d) /\ Starts(d)

\* rk writes no unit it has not accepted
UnitAccepted(u) == PublicUrlOk(u.url) /\ u.tls # "half"

UnitsAccepted ==
    /\ \A d \in Deployers : step[d] # "idle" => UnitAccepted(req[d].unit)
    /\ unit \in Units => UnitAccepted(unit)
    /\ loaded \in Units => UnitAccepted(loaded)
    /\ proc # None => UnitAccepted(proc.unit)

\* A process that serves was whole and had a configuration it accepts
PhaseOfConfig ==
    phase = "serving" =>
        proc.build \in Builds /\ Startable(ServerConfig(proc.unit, proc.env))

\* What a status check has seen is so as long as the host is quiet
SeenServing ==
    check \in {"exec", "checksum"} /\ quiet /\ sofar => phase = "serving"

IndInv ==
    /\ TypeOK
    /\ req \in [Deployers -> AllRequests \cup {None}]
    /\ OwnerAlone
    /\ OwnerFinds
    /\ UnitsAccepted
    /\ PhaseOfConfig
    /\ SeenServing

-----------------------------------------------------------------------------
(* Initial states, and facts the steps below keep using.                   *)

\* A request is what rk may be asked to deploy, and files are told apart.
LEMMA Request ==
    ASSUME IndInv, NEW d \in Deployers, step[d] # "idle"
    PROVE  /\ req[d] \in Requests[d] /\ req[d] \in AllRequests
           /\ req[d].unit \in Units /\ req[d].build \in Builds /\ req[d].skip \in BOOLEAN
  <1>1. req[d] \in Requests[d]
    BY DEF IndInv, TypeOK, DeployOK
  <1>2. req[d] \in AllRequests
    BY <1>1, RequestsTyped
  <1>3. QED
    BY <1>1, <1>2 DEF AllRequests

\* A build, a unit and a deploy are none of the three other contents.
LEMMA Contents ==
    /\ \A b \in Builds : b # Torn /\ b # None
    /\ \A u \in Units : u # Empty /\ u # Torn /\ u # None
    /\ \A d \in Deployers : d # None
  BY NotFiles

\* While a deploy is under way no other one owns the host.
LEMMA OnlyOwner ==
    ASSUME IndInv, NEW d \in Deployers, step[d] \notin Ended,
           NEW c \in Deployers, owner = c
    PROVE  c = d
  BY DEF IndInv, OwnerAlone

\* Initially nothing is deployed and nothing runs.
LEMMA InitInv == Init => IndInv
  <1> SUFFICES ASSUME Init PROVE IndInv
    OBVIOUS
  <1>1. TypeOK
    <2>1. DeployOK
      BY DEF Init, DeployOK, Steps
    <2>2. DiskOK
      BY DEF Init, DiskOK
    <2>3. ServiceOK
      BY DEF Init, ServiceOK, Phases
    <2>4. StatusOK
      BY BoundNatural DEF Init, StatusOK, Checks
    <2>5. QED
      BY <2>1, <2>2, <2>3, <2>4 DEF TypeOK
  <1>2. req \in [Deployers -> AllRequests \cup {None}]
    BY DEF Init
  <1>3. OwnerAlone /\ OwnerFinds
    BY Contents DEF Init, OwnerAlone, OwnerFinds
  <1>4. UnitsAccepted
    BY Contents DEF Init, UnitsAccepted
  <1>5. PhaseOfConfig /\ SeenServing
    BY DEF Init, PhaseOfConfig, SeenServing
  <1>6. QED
    BY <1>1, <1>2, <1>3, <1>4, <1>5 DEF IndInv

-----------------------------------------------------------------------------
(* Type correctness.                                                       *)

\* The type invariant, with the one of requests: the domain of req is needed
\* wherever a step changes another entry of it.
Typed == TypeOK /\ req \in [Deployers -> AllRequests \cup {None}]

\* The commands of a deploy keep the types.
LEMMA DeployStepTyped ==
    ASSUME IndInv, NEW d \in Deployers, DeployStep(d) PROVE Typed'
  <1> USE DEF IndInv, TypeOK, deployVars, hostVars, serviceVars, statusVars
  <1>1. ASSUME Begin(d) PROVE Typed'
    <2>1. DeployOK' /\ req' \in [Deployers -> AllRequests \cup {None}]
      BY <1>1, RequestsTyped DEF Begin, Ended, DeployOK, Steps
    <2>2. DiskOK'
      BY <1>1, RequestsTyped DEF Begin, Ended, DeployOK, DiskOK
    <2>3. ServiceOK'
      BY <1>1, RequestsTyped DEF Begin, Ended, DiskOK, ServiceOK, Phases, ProcTypes
    <2>4. StatusOK'
      BY <1>1, RequestsTyped DEF Begin, Ended, Disturbs, StatusOK
    <2>5. QED
      BY <2>1, <2>2, <2>3, <2>4 DEF Typed
  <1>2. ASSUME Prepare(d) PROVE Typed'
    <2>1. DeployOK' /\ req' \in [Deployers -> AllRequests \cup {None}]
      BY <1>2, Request DEF Prepare, Does, DeployOK, Steps
    <2>2. DiskOK'
      BY <1>2, Request DEF Prepare, Does, DeployOK, DiskOK
    <2>3. ServiceOK'
      BY <1>2, Request DEF Prepare, Does, DiskOK, ServiceOK, Phases, ProcTypes
    <2>4. StatusOK'
      BY <1>2, Request DEF Prepare, Does, Disturbs, StatusOK
    <2>5. QED
      BY <2>1, <2>2, <2>3, <2>4 DEF Typed
  <1>3. ASSUME CopyBinary(d) PROVE Typed'
    <2>1. DeployOK' /\ req' \in [Deployers -> AllRequests \cup {None}]
      BY <1>3, Request DEF CopyBinary, Does, DeployOK, Steps
    <2>2. DiskOK'
      BY <1>3, Request DEF CopyBinary, Does, DeployOK, DiskOK
    <2>3. ServiceOK'
      BY <1>3, Request DEF CopyBinary, Does, DiskOK, ServiceOK, Phases, ProcTypes
    <2>4. StatusOK'
      BY <1>3, Request DEF CopyBinary, Does, Disturbs, StatusOK
    <2>5. QED
      BY <2>1, <2>2, <2>3, <2>4 DEF Typed
  <1>4. ASSUME InstallOpens(d) PROVE Typed'
    <2>1. DeployOK' /\ req' \in [Deployers -> AllRequests \cup {None}]
      BY <1>4, Request DEF InstallOpens, Does, DeployOK, Steps
    <2>2. DiskOK'
      BY <1>4, Request DEF InstallOpens, Does, DeployOK, DiskOK
    <2>3. ServiceOK'
      BY <1>4, Request DEF InstallOpens, Does, DiskOK, ServiceOK, Phases, ProcTypes
    <2>4. StatusOK'
      BY <1>4, Request DEF InstallOpens, Does, Disturbs, StatusOK
    <2>5. QED
      BY <2>1, <2>2, <2>3, <2>4 DEF Typed
  <1>5. ASSUME InstallFills(d) PROVE Typed'
    <2>1. DeployOK' /\ req' \in [Deployers -> AllRequests \cup {None}]
      BY <1>5, Request DEF InstallFills, Does, DeployOK, Steps
    <2>2. DiskOK'
      BY <1>5, Request DEF InstallFills, Does, DeployOK, DiskOK
    <2>3. ServiceOK'
      BY <1>5, Request DEF InstallFills, Does, DiskOK, ServiceOK, Phases, ProcTypes
    <2>4. StatusOK'
      BY <1>5, Request DEF InstallFills, Does, Disturbs, StatusOK
    <2>5. QED
      BY <2>1, <2>2, <2>3, <2>4 DEF Typed
  <1>6. ASSUME WriteOpens(d) PROVE Typed'
    <2>1. DeployOK' /\ req' \in [Deployers -> AllRequests \cup {None}]
      BY <1>6, Request DEF WriteOpens, Does, DeployOK, Steps
    <2>2. DiskOK'
      BY <1>6, Request DEF WriteOpens, Does, DeployOK, DiskOK
    <2>3. ServiceOK'
      BY <1>6, Request DEF WriteOpens, Does, DiskOK, ServiceOK, Phases, ProcTypes
    <2>4. StatusOK'
      BY <1>6, Request DEF WriteOpens, Does, Disturbs, StatusOK
    <2>5. QED
      BY <2>1, <2>2, <2>3, <2>4 DEF Typed
  <1>7. ASSUME WriteFills(d) PROVE Typed'
    <2>1. DeployOK' /\ req' \in [Deployers -> AllRequests \cup {None}]
      BY <1>7, Request DEF WriteFills, Does, DeployOK, Steps
    <2>2. DiskOK'
      BY <1>7, Request DEF WriteFills, Does, DeployOK, DiskOK
    <2>3. ServiceOK'
      BY <1>7, Request DEF WriteFills, Does, DiskOK, ServiceOK, Phases, ProcTypes
    <2>4. StatusOK'
      BY <1>7, Request DEF WriteFills, Does, Disturbs, StatusOK
    <2>5. QED
      BY <2>1, <2>2, <2>3, <2>4 DEF Typed
  <1>8. ASSUME DaemonReload(d) PROVE Typed'
    <2>1. DeployOK' /\ req' \in [Deployers -> AllRequests \cup {None}]
      BY <1>8, Request DEF DaemonReload, Does, DeployOK, Steps
    <2>2. DiskOK'
      BY <1>8, Request DEF DaemonReload, Does, DeployOK, DiskOK
    <2>3. ServiceOK'
      BY <1>8, Request DEF DaemonReload, Does, DiskOK, ServiceOK, Phases, ProcTypes
    <2>4. StatusOK'
      BY <1>8, Request DEF DaemonReload, Does, Disturbs, StatusOK
    <2>5. QED
      BY <2>1, <2>2, <2>3, <2>4 DEF Typed
  <1>9. ASSUME Enable(d) PROVE Typed'
    <2>1. DeployOK' /\ req' \in [Deployers -> AllRequests \cup {None}]
      BY <1>9, Request DEF Enable, Does, DeployOK, Steps
    <2>2. DiskOK'
      BY <1>9, Request DEF Enable, Does, DeployOK, DiskOK
    <2>3. ServiceOK'
      BY <1>9, Request DEF Enable, Does, DiskOK, ServiceOK, Phases, ProcTypes
    <2>4. StatusOK'
      BY <1>9, Request DEF Enable, Does, Disturbs, StatusOK
    <2>5. QED
      BY <2>1, <2>2, <2>3, <2>4 DEF Typed
  <1>10. ASSUME Restart(d) PROVE Typed'
    <2>1. DeployOK' /\ req' \in [Deployers -> AllRequests \cup {None}]
      BY <1>10, Request DEF Restart, Does, Exec, DeployOK, Steps
    <2>2. DiskOK'
      BY <1>10, Request DEF Restart, Does, Exec, DeployOK, DiskOK
    <2>3. ServiceOK'
      <3>1. proc' \in ProcTypes
        BY <1>10 DEF Restart, Does, Exec, DiskOK, ProcTypes
      <3>2. QED
        BY <1>10, <3>1, NoProcess DEF Restart, Does, Exec, ServiceOK, Phases
    <2>4. StatusOK'
      BY <1>10, Request DEF Restart, Does, Exec, Disturbs, StatusOK
    <2>5. QED
      BY <2>1, <2>2, <2>3, <2>4 DEF Typed
  <1>11. ASSUME RestartFails(d) PROVE Typed'
    <2>1. DeployOK' /\ req' \in [Deployers -> AllRequests \cup {None}]
      BY <1>11, Request DEF RestartFails, Does, DeployOK, Steps
    <2>2. DiskOK'
      BY <1>11, Request DEF RestartFails, Does, DeployOK, DiskOK
    <2>3. ServiceOK'
      BY <1>11, Request DEF RestartFails, Does, DiskOK, ServiceOK, Phases, ProcTypes
    <2>4. StatusOK'
      BY <1>11, Request DEF RestartFails, Does, Disturbs, StatusOK
    <2>5. QED
      BY <2>1, <2>2, <2>3, <2>4 DEF Typed
  <1>12. ASSUME Probe(d) PROVE Typed'
    <2>1. DeployOK' /\ req' \in [Deployers -> AllRequests \cup {None}]
      BY <1>12, Request DEF Probe, DeployOK, Steps
    <2>2. DiskOK'
      BY <1>12, Request DEF Probe, DeployOK, DiskOK
    <2>3. ServiceOK'
      BY <1>12, Request DEF Probe, DiskOK, ServiceOK, Phases, ProcTypes
    <2>4. StatusOK'
      BY <1>12, Request DEF Probe, Disturbs, StatusOK
    <2>5. QED
      BY <2>1, <2>2, <2>3, <2>4 DEF Typed
  <1>13. ASSUME DeployFails(d) PROVE Typed'
    <2>1. DeployOK' /\ req' \in [Deployers -> AllRequests \cup {None}]
      BY <1>13, Request DEF DeployFails, DeployOK, Steps, Ended
    <2>2. DiskOK'
      BY <1>13, Request DEF DeployFails, DeployOK, DiskOK
    <2>3. ServiceOK'
      BY <1>13, Request DEF DeployFails, DiskOK, ServiceOK, Phases, ProcTypes
    <2>4. StatusOK'
      BY <1>13, Request DEF DeployFails, Disturbs, StatusOK
    <2>5. QED
      BY <2>1, <2>2, <2>3, <2>4 DEF Typed
  <1>14. QED
    BY <1>1, <1>2, <1>3, <1>4, <1>5, <1>6, <1>7, <1>8, <1>9, <1>10, <1>11, <1>12, <1>13 DEF DeployStep

\* So do the service, what happens to the host, and the status check.
LEMMA HostStepTyped ==
    ASSUME IndInv,
           Service \/ Crash \/ Reboot \/ EditEnv \/ AddressesChange \/ ArtifactChanges \/ CheckActive
             \/ CheckHealth \/ CheckExecutable \/ CheckChecksum \/ CheckFails
    PROVE  Typed'
  <1> USE DEF IndInv, TypeOK, deployVars, hostVars, serviceVars, statusVars
  <1>1. ASSUME Boot PROVE Typed'
    <2>1. DeployOK' /\ req' \in [Deployers -> AllRequests \cup {None}]
      BY <1>1 DEF Boot, ServiceMoves, DeployOK
    <2>2. DiskOK'
      BY <1>1 DEF Boot, ServiceMoves, DiskOK
    <2>3. ServiceOK'
      BY <1>1 DEF Boot, ServiceMoves, ServiceOK, Phases
    <2>4. StatusOK'
      BY <1>1, BoundNatural DEF Boot, ServiceMoves, Disturbs, StatusOK, Checks
    <2>5. QED
      BY <2>1, <2>2, <2>3, <2>4 DEF Typed
  <1>2. ASSUME AutoRestart PROVE Typed'
    <2>1. DeployOK' /\ req' \in [Deployers -> AllRequests \cup {None}]
      BY <1>2 DEF AutoRestart, ServiceMoves, DeployOK
    <2>2. DiskOK'
      BY <1>2 DEF AutoRestart, ServiceMoves, DiskOK
    <2>3. ServiceOK'
      <3>1. ASSUME loaded \in Units, Exec(loaded) PROVE proc' \in ProcTypes /\ phase' = "starting"
        BY <3>1, <1>2 DEF AutoRestart, ServiceMoves, Exec, DiskOK, ProcTypes
      <3>2. QED
        BY <1>2, <3>1, NoProcess DEF AutoRestart, ServiceMoves, DiskOK, ServiceOK, Phases
    <2>4. StatusOK'
      BY <1>2, BoundNatural DEF AutoRestart, ServiceMoves, Disturbs, StatusOK, Checks
    <2>5. QED
      BY <2>1, <2>2, <2>3, <2>4 DEF Typed
  <1>3. ASSUME Crash PROVE Typed'
    <2>1. DeployOK' /\ req' \in [Deployers -> AllRequests \cup {None}]
      BY <1>3 DEF Crash, ServiceMoves, Happens, DeployOK
    <2>2. DiskOK'
      BY <1>3 DEF Crash, ServiceMoves, Happens, DiskOK
    <2>3. ServiceOK'
      BY <1>3 DEF Crash, ServiceMoves, Happens, ServiceOK, Phases
    <2>4. StatusOK'
      BY <1>3, BoundNatural DEF Crash, ServiceMoves, Happens, Disturbs, StatusOK, Checks
    <2>5. QED
      BY <2>1, <2>2, <2>3, <2>4 DEF Typed
  <1>4. ASSUME Reboot PROVE Typed'
    <2>1. DeployOK' /\ req' \in [Deployers -> AllRequests \cup {None}]
      BY <1>4 DEF Reboot, ServiceMoves, Happens, DeployOK
    <2>2. DiskOK'
      BY <1>4 DEF Reboot, ServiceMoves, Happens, DiskOK
    <2>3. ServiceOK'
      <3>1. ASSUME unit \in Units, Exec(unit) PROVE proc' \in ProcTypes /\ phase' = "starting"
        BY <3>1, <1>4 DEF Reboot, ServiceMoves, Happens, Exec, DiskOK, ProcTypes
      <3>2. QED
        BY <1>4, <3>1, NoProcess DEF Reboot, ServiceMoves, Happens, DiskOK, ServiceOK, Phases
    <2>4. StatusOK'
      BY <1>4, BoundNatural DEF Reboot, ServiceMoves, Happens, Disturbs, StatusOK, Checks
    <2>5. QED
      BY <2>1, <2>2, <2>3, <2>4 DEF Typed
  <1>5. ASSUME EditEnv PROVE Typed'
    <2>1. DeployOK' /\ req' \in [Deployers -> AllRequests \cup {None}]
      BY <1>5 DEF EditEnv, ServiceMoves, Happens, DeployOK
    <2>2. DiskOK'
      BY <1>5 DEF EditEnv, ServiceMoves, Happens, DiskOK
    <2>3. ServiceOK'
      BY <1>5 DEF EditEnv, ServiceMoves, Happens, ServiceOK, Phases
    <2>4. StatusOK'
      BY <1>5, BoundNatural DEF EditEnv, ServiceMoves, Happens, Disturbs, StatusOK, Checks
    <2>5. QED
      BY <2>1, <2>2, <2>3, <2>4 DEF Typed
  <1>6. ASSUME ArtifactChanges PROVE Typed'
    <2>1. DeployOK' /\ req' \in [Deployers -> AllRequests \cup {None}]
      BY <1>6 DEF ArtifactChanges, Happens, DeployOK
    <2>2. DiskOK'
      BY <1>6 DEF ArtifactChanges, Happens, DiskOK
    <2>3. ServiceOK'
      BY <1>6 DEF ArtifactChanges, Happens, ServiceOK, Phases
    <2>4. StatusOK'
      BY <1>6, BoundNatural DEF ArtifactChanges, Happens, Disturbs, StatusOK, Checks
    <2>5. QED
      BY <2>1, <2>2, <2>3, <2>4 DEF Typed
  <1>7. ASSUME CheckActive PROVE Typed'
    <2>1. DeployOK' /\ req' \in [Deployers -> AllRequests \cup {None}]
      BY <1>7 DEF CheckActive, Observes, DeployOK
    <2>2. DiskOK'
      BY <1>7 DEF CheckActive, Observes, DiskOK
    <2>3. ServiceOK'
      BY <1>7 DEF CheckActive, Observes, ServiceOK, Phases
    <2>4. StatusOK'
      BY <1>7, BoundNatural DEF CheckActive, Observes, Disturbs, StatusOK, Checks
    <2>5. QED
      BY <2>1, <2>2, <2>3, <2>4 DEF Typed
  <1>8. ASSUME CheckHealth PROVE Typed'
    <2>1. DeployOK' /\ req' \in [Deployers -> AllRequests \cup {None}]
      BY <1>8 DEF CheckHealth, Observes, DeployOK
    <2>2. DiskOK'
      BY <1>8 DEF CheckHealth, Observes, DiskOK
    <2>3. ServiceOK'
      BY <1>8 DEF CheckHealth, Observes, ServiceOK, Phases
    <2>4. StatusOK'
      BY <1>8, BoundNatural DEF CheckHealth, Observes, Disturbs, StatusOK, Checks
    <2>5. QED
      BY <2>1, <2>2, <2>3, <2>4 DEF Typed
  <1>9. ASSUME CheckExecutable PROVE Typed'
    <2>1. DeployOK' /\ req' \in [Deployers -> AllRequests \cup {None}]
      BY <1>9 DEF CheckExecutable, Observes, DeployOK
    <2>2. DiskOK'
      BY <1>9 DEF CheckExecutable, Observes, DiskOK
    <2>3. ServiceOK'
      BY <1>9 DEF CheckExecutable, Observes, ServiceOK, Phases
    <2>4. StatusOK'
      BY <1>9, BoundNatural DEF CheckExecutable, Observes, Disturbs, StatusOK, Checks
    <2>5. QED
      BY <2>1, <2>2, <2>3, <2>4 DEF Typed
  <1>10. ASSUME CheckChecksum PROVE Typed'
    <2>1. DeployOK' /\ req' \in [Deployers -> AllRequests \cup {None}]
      BY <1>10 DEF CheckChecksum, Observes, DeployOK
    <2>2. DiskOK'
      BY <1>10 DEF CheckChecksum, Observes, DiskOK
    <2>3. ServiceOK'
      BY <1>10 DEF CheckChecksum, Observes, ServiceOK, Phases
    <2>4. StatusOK'
      BY <1>10, BoundNatural DEF CheckChecksum, Observes, Disturbs, StatusOK, Checks
    <2>5. QED
      BY <2>1, <2>2, <2>3, <2>4 DEF Typed
  <1>11. ASSUME CheckFails PROVE Typed'
    <2>1. DeployOK' /\ req' \in [Deployers -> AllRequests \cup {None}]
      BY <1>11 DEF CheckFails, DeployOK
    <2>2. DiskOK'
      BY <1>11 DEF CheckFails, DiskOK
    <2>3. ServiceOK'
      BY <1>11 DEF CheckFails, ServiceOK, Phases
    <2>4. StatusOK'
      BY <1>11, BoundNatural DEF CheckFails, Disturbs, StatusOK, Checks
    <2>5. QED
      BY <2>1, <2>2, <2>3, <2>4 DEF Typed
  <1>12. ASSUME AddressesChange PROVE Typed'
    <2>1. DeployOK' /\ req' \in [Deployers -> AllRequests \cup {None}]
      BY <1>12 DEF AddressesChange, ServiceMoves, DeployOK
    <2>2. DiskOK'
      BY <1>12 DEF AddressesChange, ServiceMoves, DiskOK
    <2>3. ServiceOK'
      BY <1>12 DEF AddressesChange, ServiceMoves, ServiceOK, Phases
    <2>4. StatusOK'
      BY <1>12, BoundNatural DEF AddressesChange, ServiceMoves, Disturbs, StatusOK, Checks
    <2>5. QED
      BY <2>1, <2>2, <2>3, <2>4 DEF Typed
  <1>13. QED
    BY <1>1, <1>2, <1>3, <1>4, <1>5, <1>6, <1>7, <1>8, <1>9, <1>10, <1>11, <1>12 DEF Service

\* Type correctness is preserved, also by steps that change nothing.
LEMMA StepTyped == IndInv /\ [Next]_vars => Typed'
  <1> SUFFICES ASSUME IndInv, [Next]_vars PROVE Typed'
    OBVIOUS
  <1>1. CASE Next
    BY <1>1, DeployStepTyped, HostStepTyped DEF Next
  <1>2. CASE UNCHANGED vars
    BY <1>2 DEF IndInv, Typed, TypeOK, DeployOK, DiskOK, ServiceOK, StatusOK, vars,
                deployVars, hostVars, serviceVars, statusVars
  <1>3. QED
    BY <1>1, <1>2

-----------------------------------------------------------------------------
(* The deploy that owns the host.                                          *)

\* Every command but the first is of a deploy under way, and of no other.
LEMMA CommandGoes ==
    ASSUME IndInv, NEW d \in Deployers, DeployStep(d), ~Begin(d)
    PROVE  /\ step[d] \notin Ended /\ step'[d] # "idle"
           /\ \A c \in Deployers \ {d} : step'[c] = step[c]
           /\ UNCHANGED <<req, owner, env, cert>>
  <1> USE DEF IndInv, TypeOK, DeployOK, deployVars, hostVars, serviceVars, statusVars, Ended
  <1>1. CASE \/ Prepare(d) \/ CopyBinary(d) \/ InstallOpens(d) \/ InstallFills(d)
             \/ WriteOpens(d) \/ WriteFills(d)
    BY <1>1 DEF Prepare, CopyBinary, InstallOpens, InstallFills, WriteOpens, WriteFills, Does
  <1>2. CASE DaemonReload(d) \/ Enable(d) \/ Restart(d) \/ RestartFails(d)
    BY <1>2 DEF DaemonReload, Enable, Restart, RestartFails, Does
  <1>3. CASE Probe(d) \/ DeployFails(d)
    BY <1>3 DEF Probe, DeployFails
  <1>4. QED
    BY <1>1, <1>2, <1>3 DEF DeployStep

HostStep ==
    \/ Boot \/ AutoRestart \/ Crash \/ Reboot \/ EditEnv \/ AddressesChange \/ ArtifactChanges
    \/ CheckActive \/ CheckHealth \/ CheckExecutable \/ CheckChecksum \/ CheckFails

\* Nothing else moves a deploy; a new environment file ends the ownership.
LEMMA HostStepKeeps ==
    ASSUME HostStep
    PROVE  UNCHANGED <<step, req>> /\ owner' \in {owner, None}
  <1> USE DEF deployVars, hostVars, serviceVars, statusVars
  <1>1. CASE Boot \/ AutoRestart \/ Crash \/ Reboot \/ EditEnv \/ AddressesChange
    BY <1>1 DEF Boot, AutoRestart, Crash, Reboot, EditEnv, AddressesChange, ServiceMoves
  <1>2. CASE ~(Boot \/ AutoRestart \/ Crash \/ Reboot \/ EditEnv \/ AddressesChange)
    BY <1>2 DEF HostStep, ArtifactChanges, CheckActive, CheckHealth, CheckExecutable,
                CheckChecksum, CheckFails, Observes
  <1>3. QED
    BY <1>1, <1>2

\* The next-state relation, sorted for the proofs.
LEMMA NextCases ==
    ASSUME Next
    PROVE  HostStep \/ \E d \in Deployers : Begin(d) \/ (DeployStep(d) /\ ~Begin(d))
  BY DEF Next, HostStep, Service, DeployStep

\* The owner is alone: a second deploy that begins takes the ownership away.
LEMMA OwnerAloneStep == IndInv /\ [Next]_vars => OwnerAlone'
  <1> SUFFICES ASSUME IndInv, [Next]_vars PROVE OwnerAlone'
    OBVIOUS
  <1>1. ASSUME NEW d \in Deployers, Begin(d) PROVE OwnerAlone'
    BY <1>1, Contents DEF Begin, OwnerAlone, IndInv, TypeOK, DeployOK
  <1>2. ASSUME NEW d \in Deployers, DeployStep(d), ~Begin(d) PROVE OwnerAlone'
    <2> SUFFICES ASSUME NEW c \in Deployers, owner = c
                 PROVE  step'[c] # "idle" /\ \A e \in Deployers \ {c} : step'[e] \in Ended
      BY <1>2, CommandGoes DEF OwnerAlone
    <2>1. c = d
      BY <1>2, CommandGoes, OnlyOwner
    <2>2. QED
      BY <1>2, <2>1, CommandGoes DEF IndInv, OwnerAlone
  <1>3. CASE HostStep
    BY <1>3, HostStepKeeps, Contents DEF IndInv, OwnerAlone
  <1>4. CASE UNCHANGED vars
    BY <1>4 DEF IndInv, OwnerAlone, vars, deployVars
  <1>5. QED
    BY <1>1, <1>2, <1>3, <1>4, NextCases

\* What relaykitd would say of a deploy's configuration depends on the request, the
\* environment file and the certificate alone.
LEMMA StartableSame ==
    ASSUME NEW d \in Deployers, UNCHANGED <<req, env, cert>>
    PROVE  Startable(ServerConfig(req[d].unit, env))' <=> Startable(ServerConfig(req[d].unit, env))
  BY DEF Startable, ConfigOk, DevScopeOk, PublicTransportOk, TlsLoads, ServerConfig

\* The owner finds the host as it has left it: its own commands.
LEMMA OwnCommandFinds ==
    ASSUME IndInv, NEW d \in Deployers, owner = d, DeployStep(d), ~Begin(d)
    PROVE  (Disk(d) /\ Systemd(d) /\ Starts(d))'
  <1> USE DEF deployVars, hostVars, serviceVars, statusVars, Written, Reloaded, EnabledAt, Started
  <1>1. /\ Disk(d) /\ Systemd(d)
        /\ step \in [Deployers -> Steps] /\ tmp \in [Deployers -> Builds \cup {None}]
        /\ step[d] \notin Ended
    BY CommandGoes DEF IndInv, OwnerFinds, TypeOK, DeployOK
  <1>2. /\ req[d].unit \in Units /\ req[d].build \in Builds /\ req[d].skip \in BOOLEAN
        /\ req' = req /\ env' = env /\ cert' = cert
    BY <1>1, Request, CommandGoes DEF Ended
  <1>3. CASE Prepare(d)
    <2>1. Disk(d)'
      BY <1>1, <1>2, <1>3, Contents DEF Prepare, Does, Disk
    <2>2. Systemd(d)'
      BY <1>1, <1>2, <1>3, Contents DEF Prepare, Does, Disk, Systemd
    <2>3. Starts(d)'
      BY <1>1, <1>3 DEF Prepare, Does, Starts
    <2>4. QED
      BY <2>1, <2>2, <2>3
  <1>4. CASE CopyBinary(d)
    <2>1. Disk(d)'
      BY <1>1, <1>2, <1>4, Contents DEF CopyBinary, Does, Disk
    <2>2. Systemd(d)'
      BY <1>1, <1>2, <1>4, Contents DEF CopyBinary, Does, Disk, Systemd
    <2>3. Starts(d)'
      BY <1>1, <1>4 DEF CopyBinary, Does, Starts
    <2>4. QED
      BY <2>1, <2>2, <2>3
  <1>5. CASE InstallOpens(d)
    <2>1. Disk(d)'
      BY <1>1, <1>2, <1>5, Contents DEF InstallOpens, Does, Disk
    <2>2. Systemd(d)'
      BY <1>1, <1>2, <1>5, Contents DEF InstallOpens, Does, Disk, Systemd
    <2>3. Starts(d)'
      BY <1>1, <1>5 DEF InstallOpens, Does, Starts
    <2>4. QED
      BY <2>1, <2>2, <2>3
  <1>6. CASE InstallFills(d)
    <2>1. Disk(d)'
      BY <1>1, <1>2, <1>6, Contents DEF InstallFills, Does, Disk
    <2>2. Systemd(d)'
      BY <1>1, <1>2, <1>6, Contents DEF InstallFills, Does, Disk, Systemd
    <2>3. Starts(d)'
      BY <1>1, <1>6 DEF InstallFills, Does, Starts
    <2>4. QED
      BY <2>1, <2>2, <2>3
  <1>7. CASE WriteOpens(d)
    <2>1. Disk(d)'
      BY <1>1, <1>2, <1>7, Contents DEF WriteOpens, Does, Disk
    <2>2. Systemd(d)'
      BY <1>1, <1>2, <1>7, Contents DEF WriteOpens, Does, Disk, Systemd
    <2>3. Starts(d)'
      BY <1>1, <1>7 DEF WriteOpens, Does, Starts
    <2>4. QED
      BY <2>1, <2>2, <2>3
  <1>8. CASE WriteFills(d)
    <2>1. Disk(d)'
      BY <1>1, <1>2, <1>8, Contents DEF WriteFills, Does, Disk
    <2>2. Systemd(d)'
      BY <1>1, <1>2, <1>8, Contents DEF WriteFills, Does, Disk, Systemd
    <2>3. Starts(d)'
      BY <1>1, <1>8 DEF WriteFills, Does, Starts
    <2>4. QED
      BY <2>1, <2>2, <2>3
  <1>9. CASE DaemonReload(d)
    <2>1. Disk(d)'
      BY <1>1, <1>2, <1>9, Contents DEF DaemonReload, Does, Disk
    <2>2. Systemd(d)'
      BY <1>1, <1>2, <1>9, Contents DEF DaemonReload, Does, Disk, Systemd
    <2>3. Starts(d)'
      BY <1>1, <1>9 DEF DaemonReload, Does, Starts
    <2>4. QED
      BY <2>1, <2>2, <2>3
  <1>10. CASE Enable(d)
    <2>1. Disk(d)'
      BY <1>1, <1>2, <1>10, Contents DEF Enable, Does, Disk
    <2>2. Systemd(d)'
      BY <1>1, <1>2, <1>10, Contents DEF Enable, Does, Disk, Systemd
    <2>3. Starts(d)'
      BY <1>1, <1>10 DEF Enable, Does, Starts
    <2>4. QED
      BY <2>1, <2>2, <2>3
  <1>11. CASE Restart(d)
    <2>1. Disk(d)'
      BY <1>1, <1>2, <1>11 DEF Restart, Does, Exec, Disk
    <2>2. Systemd(d)'
      BY <1>1, <1>2, <1>11 DEF Restart, Does, Exec, Disk, Systemd
    <2>3. Starts(d)'
      BY <1>1, <1>2, <1>11 DEF Restart, Does, Exec, Starts
    <2>4. QED
      BY <2>1, <2>2, <2>3
  <1>12. CASE RestartFails(d) \/ DeployFails(d)
    BY <1>1, <1>2, <1>12 DEF RestartFails, DeployFails, Does, Disk, Systemd, Starts
  <1>13. CASE Probe(d)
    <2>1. Disk(d)' /\ Systemd(d)'
      BY <1>1, <1>2, <1>13 DEF Probe, Disk, Systemd
    <2>2. ASSUME step'[d] = "deployed"
          PROVE  Startable(ServerConfig(req[d].unit, env))
      <3>1. phase = "serving" /\ step[d] = "probe"
        BY <1>1, <1>13, <2>2 DEF Probe, Healthy
      <3>2. Startable(ServerConfig(proc.unit, proc.env))
        BY <3>1 DEF IndInv, PhaseOfConfig
      <3>3. proc = [build |-> req[d].build, unit |-> req[d].unit, env |-> env]
        BY <1>1, <3>1 DEF Systemd
      <3>4. QED
        BY <3>1, <3>2, <3>3
    <2>3. Starts(d)'
      BY <1>2, <1>13, <2>2, StartableSame DEF Probe, Starts
    <2>4. QED
      BY <2>1, <2>3
  <1>14. QED
    BY <1>3, <1>4, <1>5, <1>6, <1>7, <1>8, <1>9, <1>10, <1>11, <1>12, <1>13 DEF DeployStep

\* ... and what the host does meanwhile: crashes, restarts and reboots start what
\* is on the disk.
LEMMA HostStepFinds ==
    ASSUME IndInv, HostStep, NEW d \in Deployers, owner' = d
    PROVE  (Disk(d) /\ Systemd(d) /\ Starts(d))'
  <1> USE DEF deployVars, hostVars, serviceVars, statusVars, Written, Reloaded, EnabledAt, Started
  <1>1. owner = d /\ UNCHANGED <<step, req>>
    BY HostStepKeeps, Contents
  <1>2. Disk(d) /\ Systemd(d) /\ Starts(d) /\ step[d] # "idle"
    BY <1>1 DEF IndInv, OwnerFinds, OwnerAlone
  <1>3. req[d].unit \in Units /\ req[d].build \in Builds
    BY <1>2, Request
  <1>4. CASE Boot
    <2>1. Disk(d)' /\ Systemd(d)'
      BY <1>1, <1>2, <1>4 DEF Boot, ServiceMoves, Disk, Systemd
    <2>2. Starts(d)'
      BY <1>1, <1>2, <1>4, StartableSame DEF Boot, ServiceMoves, Starts
    <2>3. QED
      BY <2>1, <2>2
  <1>5. CASE AutoRestart
    <2>1. Disk(d)' /\ Systemd(d)'
      BY <1>1, <1>2, <1>3, <1>5 DEF AutoRestart, ServiceMoves, Exec, Disk, Systemd
    <2>2. Starts(d)'
      BY <1>1, <1>2, <1>5, StartableSame DEF AutoRestart, ServiceMoves, Exec, Starts
    <2>3. QED
      BY <2>1, <2>2
  <1>6. CASE Crash
    BY <1>1, <1>2, <1>6, StartableSame DEF Crash, ServiceMoves, Disk, Systemd, Starts
  <1>7. CASE Reboot
    <2>1. Disk(d)'
      BY <1>1, <1>2, <1>7 DEF Reboot, ServiceMoves, Exec, Disk
    <2>2. Systemd(d)'
      BY <1>1, <1>2, <1>3, <1>7 DEF Reboot, ServiceMoves, Exec, Disk, Systemd
    <2>3. Starts(d)'
      BY <1>1, <1>2, <1>7, StartableSame DEF Reboot, ServiceMoves, Exec, Starts
    <2>4. QED
      BY <2>1, <2>2, <2>3
  <1>8. CASE EditEnv \/ AddressesChange
    <2>1. ~EditEnv
      BY Contents DEF EditEnv
    <2>2. UNCHANGED <<deployVars, binary, binBy, unit, enabled, env, cert, serviceVars>>
      BY <1>8, <2>1 DEF AddressesChange, ServiceMoves
    <2>3. QED
      BY <1>1, <1>2, <2>2, StartableSame DEF Disk, Systemd, Starts
  <1>9. CASE ArtifactChanges \/ CheckActive \/ CheckHealth \/ CheckExecutable \/ CheckChecksum
             \/ CheckFails
    <2>1. UNCHANGED <<deployVars, hostVars, serviceVars>>
      BY <1>9 DEF ArtifactChanges, CheckActive, CheckHealth, CheckExecutable, CheckChecksum,
                  CheckFails, Observes
    <2>2. QED
      BY <1>1, <1>2, <2>1, StartableSame DEF Disk, Systemd, Starts
  <1>10. QED
    BY <1>4, <1>5, <1>6, <1>7, <1>8, <1>9 DEF HostStep

\* A deploy that begins expects nothing of the host, and no other one any more.
LEMMA OwnerFindsStep == IndInv /\ [Next]_vars => OwnerFinds'
  <1> SUFFICES ASSUME IndInv, [Next]_vars PROVE OwnerFinds'
    OBVIOUS
  <1>1. ASSUME NEW d \in Deployers, Begin(d) PROVE OwnerFinds'
    BY <1>1, Contents DEF Begin, OwnerFinds, Disk, Systemd, Starts, Written, Reloaded, EnabledAt,
                          Started, IndInv, TypeOK, DeployOK
  <1>2. ASSUME NEW d \in Deployers, DeployStep(d), ~Begin(d) PROVE OwnerFinds'
    <2> SUFFICES ASSUME NEW c \in Deployers, owner = c
                 PROVE  (Disk(c) /\ Systemd(c) /\ Starts(c))'
      BY <1>2, CommandGoes DEF OwnerFinds
    <2>1. c = d
      BY <1>2, CommandGoes, OnlyOwner
    <2>2. QED
      BY <1>2, <2>1, OwnCommandFinds
  <1>3. CASE HostStep
    BY <1>3, HostStepFinds DEF OwnerFinds
  <1>4. CASE UNCHANGED vars
    <2>1. UNCHANGED <<deployVars, hostVars, serviceVars>>
      BY <1>4 DEF vars
    <2>2. ASSUME NEW d \in Deployers, owner = d PROVE (Disk(d) /\ Systemd(d) /\ Starts(d))'
      <3>1. Disk(d) /\ Systemd(d) /\ Starts(d)
        BY <2>2 DEF IndInv, OwnerFinds
      <3>2. QED
        BY <2>1, <3>1, StartableSame DEF deployVars, hostVars, serviceVars, Disk, Systemd, Starts
    <2>3. QED
      BY <2>1, <2>2 DEF OwnerFinds, deployVars
  <1>5. QED
    BY <1>1, <1>2, <1>3, <1>4, NextCases

-----------------------------------------------------------------------------
(* Units, configurations and the status check.                             *)

\* Every unit comes from a request rk has accepted: on the disk ...
LEMMA DeployUnitsAccepted ==
    ASSUME IndInv, NEW d \in Deployers, DeployStep(d), ~Begin(d) PROVE UnitsAccepted'
  <1> USE DEF deployVars, hostVars, serviceVars, statusVars
  <1>1. UnitsAccepted /\ step[d] # "idle" /\ step \in [Deployers -> Steps]
    BY CommandGoes DEF IndInv, TypeOK, DeployOK, Ended
  <1>2. /\ req' = req
        /\ \A c \in Deployers : step'[c] # "idle" => step[c] # "idle"
    BY <1>1, CommandGoes
  <1>3. req[d].unit \in Units /\ UnitAccepted(req[d].unit)
    BY <1>1, Request DEF UnitsAccepted
  <1>4. CASE WriteOpens(d) \/ WriteFills(d)
    BY <1>1, <1>2, <1>3, <1>4, NotFiles DEF WriteOpens, WriteFills, Does, UnitsAccepted
  <1>5. CASE DaemonReload(d)
    BY <1>1, <1>2, <1>5 DEF DaemonReload, Does, UnitsAccepted
  <1>6. CASE Restart(d)
    BY <1>1, <1>2, <1>6 DEF Restart, Does, Exec, UnitsAccepted
  <1>7. CASE \/ Prepare(d) \/ CopyBinary(d) \/ InstallOpens(d) \/ InstallFills(d)
             \/ Enable(d) \/ RestartFails(d) \/ Probe(d) \/ DeployFails(d)
    <2>1. UNCHANGED <<unit, loaded, proc>>
      BY <1>7 DEF Prepare, CopyBinary, InstallOpens, InstallFills, Enable, RestartFails, Probe,
                  DeployFails, Does
    <2>2. QED
      BY <1>1, <1>2, <2>1 DEF UnitsAccepted
  <1>8. QED
    BY <1>4, <1>5, <1>6, <1>7 DEF DeployStep

\* ... in systemd and in the process it has started.
LEMMA UnitsAcceptedStep == IndInv /\ [Next]_vars => UnitsAccepted'
  <1> SUFFICES ASSUME IndInv, [Next]_vars PROVE UnitsAccepted'
    OBVIOUS
  <1> USE DEF deployVars, hostVars, serviceVars, statusVars
  <1>1. UnitsAccepted
    BY DEF IndInv
  <1>2. ASSUME NEW d \in Deployers, Begin(d) PROVE UnitsAccepted'
    <2>1. PICK r \in Requests[d] : Accepted(r) /\ req' = [req EXCEPT ![d] = r]
      BY <1>2 DEF Begin
    <2>2. req'[d] = r /\ \A c \in Deployers \ {d} : req'[c] = req[c] /\ step'[c] = step[c]
      BY <1>2, <2>1 DEF Begin, IndInv, TypeOK, DeployOK
    <2>3. QED
      BY <1>1, <1>2, <2>1, <2>2 DEF Begin, Accepted, UnitAccepted, UnitsAccepted
  <1>3. ASSUME NEW d \in Deployers, DeployStep(d), ~Begin(d) PROVE UnitsAccepted'
    BY <1>3, DeployUnitsAccepted
  <1>4. CASE HostStep
    <2>1. UNCHANGED <<step, req>>
      BY <1>4, HostStepKeeps
    <2>2. CASE AutoRestart \/ Reboot
      BY <1>1, <2>1, <2>2 DEF AutoRestart, Reboot, ServiceMoves, Exec, UnitsAccepted
    <2>3. CASE ~(AutoRestart \/ Reboot)
      <3>1. UNCHANGED <<unit, loaded, proc>>
        BY <1>4, <2>3 DEF HostStep, Boot, Crash, EditEnv, AddressesChange, ArtifactChanges, CheckActive, CheckHealth,
                          CheckExecutable, CheckChecksum, CheckFails, Observes
      <3>2. QED
        BY <1>1, <2>1, <3>1 DEF UnitsAccepted
    <2>4. QED
      BY <2>2, <2>3
  <1>5. CASE UNCHANGED vars
    BY <1>1, <1>5 DEF UnitsAccepted, vars
  <1>6. QED
    BY <1>2, <1>3, <1>4, <1>5, NextCases

\* Only a start, its outcome, a stop and a crash change the phase; the process is
\* changed by a start alone.
LEMMA PhaseMoves ==
    ASSUME Next
    PROVE  /\ cert' = cert
           /\ \/ UNCHANGED <<phase, proc>>
              \/ phase' \in {"starting", "crashed", "down"}
              \/ Boot
  <1> USE DEF deployVars, hostVars, serviceVars, statusVars
  <1>1. ASSUME NEW d \in Deployers, DeployStep(d)
        PROVE  cert' = cert /\ (UNCHANGED <<phase, proc>> \/ phase' \in {"starting", "crashed"})
    <2>1. CASE Restart(d) \/ RestartFails(d)
      BY <2>1 DEF Restart, RestartFails, Does, Exec
    <2>2. CASE ~(Restart(d) \/ RestartFails(d))
      BY <1>1, <2>2 DEF DeployStep, Begin, Prepare, CopyBinary, InstallOpens, InstallFills,
                        WriteOpens, WriteFills, DaemonReload, Enable, Probe, DeployFails, Does
    <2>3. QED
      BY <2>1, <2>2
  <1>2. CASE HostStep
    <2>1. CASE Boot
      BY <2>1 DEF Boot
    <2>2. CASE AutoRestart \/ Reboot
      BY <2>2 DEF AutoRestart, Reboot, Exec
    <2>3. CASE ~(Boot \/ AutoRestart \/ Reboot)
      BY <1>2, <2>3 DEF HostStep, Crash, EditEnv, AddressesChange, ArtifactChanges, CheckActive, CheckHealth,
                        CheckExecutable, CheckChecksum, CheckFails, Observes
    <2>4. QED
      BY <2>1, <2>2, <2>3
  <1>3. QED
    BY <1>1, <1>2, NextCases DEF DeployStep

\* A process that serves has been accepted, with the address it has bound.
LEMMA PhaseOfConfigStep == IndInv /\ [Next]_vars => PhaseOfConfig'
  <1> SUFFICES ASSUME IndInv, [Next]_vars PROVE PhaseOfConfig'
    OBVIOUS
  <1>1. PhaseOfConfig
    BY DEF IndInv
  <1>2. ASSUME UNCHANGED <<proc, cert>>
        PROVE  Startable(ServerConfig(proc.unit, proc.env))'
                 <=> Startable(ServerConfig(proc.unit, proc.env))
    BY <1>2 DEF Startable, ConfigOk, DevScopeOk, PublicTransportOk, TlsLoads, ServerConfig
  <1>3. CASE Boot
    BY <1>2, <1>3 DEF Boot, ServiceMoves, hostVars, Runs, PhaseOfConfig
  <1>4. CASE Next /\ phase' \in {"starting", "crashed", "down"}
    BY <1>4 DEF PhaseOfConfig
  <1>5. CASE Next /\ UNCHANGED <<phase, proc>>
    BY <1>1, <1>2, <1>5, PhaseMoves DEF PhaseOfConfig
  <1>6. CASE UNCHANGED vars
    BY <1>1, <1>2, <1>6 DEF PhaseOfConfig, vars, hostVars, serviceVars
  <1>7. QED
    BY <1>3, <1>4, <1>5, <1>6, PhaseMoves

\* What the health command has seen stays so, or the check is not quiet any more.
LEMMA SeenServingStep == IndInv /\ [Next]_vars => SeenServing'
  <1> SUFFICES ASSUME IndInv, [Next]_vars PROVE SeenServing'
    OBVIOUS
  <1> USE DEF deployVars, hostVars, serviceVars, statusVars
  <1>1. SeenServing
    BY DEF IndInv
  <1>2. ASSUME NEW d \in Deployers, Begin(d) \/ Probe(d) \/ DeployFails(d) PROVE SeenServing'
    BY <1>1, <1>2 DEF Begin, Probe, DeployFails, SeenServing
  <1>3. ASSUME NEW d \in Deployers, DeployStep(d), ~(Begin(d) \/ Probe(d) \/ DeployFails(d))
        PROVE  SeenServing'
    <2>1. check' = check /\ Disturbs
      BY <1>3 DEF DeployStep, Prepare, CopyBinary, InstallOpens, InstallFills, WriteOpens,
                  WriteFills, DaemonReload, Enable, Restart, RestartFails, Does
    <2>2. QED
      BY <2>1 DEF Disturbs, SeenServing
  <1>4. CASE Boot \/ AutoRestart \/ Crash \/ Reboot \/ EditEnv \/ AddressesChange \/ ArtifactChanges
    <2>1. check' = check /\ Disturbs
      BY <1>4 DEF Boot, AutoRestart, Crash, Reboot, EditEnv, AddressesChange, ArtifactChanges, ServiceMoves
    <2>2. QED
      BY <2>1 DEF Disturbs, SeenServing
  <1>5. CASE CheckHealth
    BY <1>5 DEF CheckHealth, Observes, Healthy, SeenServing
  <1>6. CASE CheckActive \/ CheckExecutable \/ CheckChecksum \/ CheckFails
    BY <1>1, <1>6 DEF CheckActive, CheckExecutable, CheckChecksum, CheckFails, Observes, SeenServing
  <1>7. CASE UNCHANGED vars
    BY <1>1, <1>7 DEF SeenServing, vars
  <1>8. QED
    BY <1>2, <1>3, <1>4, <1>5, <1>6, <1>7, NextCases DEF HostStep

-----------------------------------------------------------------------------
(* The theorems.                                                           *)

\* The invariant is inductive.
LEMMA StepInv == IndInv /\ [Next]_vars => IndInv'
  BY StepTyped, OwnerAloneStep, OwnerFindsStep, UnitsAcceptedStep, PhaseOfConfigStep,
     SeenServingStep
     DEF IndInv, Typed

\* The inductive invariant holds of every deploy, crash and reboot.
THEOREM Invariance == Spec => []IndInv
  <1>1. Init => IndInv
    BY InitInv
  <1>2. IndInv /\ [Next]_vars => IndInv'
    BY StepInv
  <1>3. QED
    BY <1>1, <1>2, PTL DEF Spec

\* Every variable keeps its type: systemd starts nothing it cannot read.
THEOREM TypeCorrect == Spec => []TypeOK
  <1>1. IndInv => TypeOK
    BY DEF IndInv
  <1>2. QED
    BY <1>1, Invariance, PTL

\* "deployed" is true: a deploy that nothing has disturbed runs its own build and
\* unit, also after crashes and reboots and whatever an earlier deploy has left.
THEOREM DeploysRun == Spec => []DeployedIsRunning
  <1>1. IndInv => DeployedIsRunning
    <2> SUFFICES ASSUME IndInv, NEW d \in Deployers, Sound(d), phase \in {"starting", "serving"}
                 PROVE  RunsWhatItDeployed(d)
      BY DEF DeployedIsRunning
    <2>1. step[d] = "deployed" /\ owner = d
      BY DEF Sound
    <2>2. proc = [build |-> req[d].build, unit |-> req[d].unit, env |-> env]
      BY <2>1 DEF IndInv, OwnerFinds, Systemd, Started
    <2>3. req[d] \in Requests[d] /\ env \in Envs
      BY <2>1, Request DEF IndInv, TypeOK, DiskOK
    <2>4. QED
      BY <2>2, <2>3 DEF RunsWhatItDeployed
  <1>2. QED
    BY <1>1, Invariance, PTL

\* A unit rk has accepted is refused at a start only for what rk cannot see (the
\* environment file, the certificate, an address that cannot be bound), a host name
\* to listen on, or TLS behind an http URL.
THEOREM UnitsStart == Spec => AcceptedUnitsStart
  <1> DEFINE Refusable ==
               \/ proc.env.token # "set" \/ proc.env.tls = "half" \/ ~cert
               \/ proc.unit.listen \notin bindable
               \/ proc.unit.listen = "name"
               \/ ServerConfig(proc.unit, proc.env).tls = "both" /\ proc.unit.url.scheme = "http"
  <1>1. IndInv /\ [Next]_vars =>
          [phase = "starting" /\ phase' = "refused" => Refusable]_vars
    <2> SUFFICES ASSUME IndInv, Next, phase = "starting", phase' = "refused", ~Refusable
                 PROVE  FALSE
      OBVIOUS
    <2> DEFINE c == ServerConfig(proc.unit, proc.env)
    <2>1. Boot
      BY PhaseMoves
    <2>2. proc # None /\ proc \in ProcTypes /\ ~Runs(c)
      BY <2>1 DEF Boot, IndInv, TypeOK, ServiceOK
    <2>3. proc.unit \in Units /\ proc.env \in AllEnvs
      BY <2>2, EnvsTyped DEF ProcTypes
    <2>4. PublicUrlOk(proc.unit.url) /\ proc.unit.tls # "half"
      BY <2>2 DEF IndInv, UnitsAccepted, UnitAccepted
    <2>5. /\ c.url = proc.unit.url /\ c.token = "set" /\ ~c.insecure /\ c.listen # "name"
          /\ c.tls \in {"none", "both"} /\ (c.tls = "both" => c.url.scheme # "http")
          /\ c.listen \in bindable
      BY <2>3, <2>4 DEF ServerConfig, AllEnvs, Units, TlsFlags
    <2>6. PublicTransportOk(c)
      BY <2>4, <2>5 DEF PublicTransportOk, PublicUrlOk, RelayTransportOk
    <2>7. cert
      OBVIOUS
    <2> HIDE DEF c
    <2>8. ConfigOk(c) /\ TlsLoads(c)
      BY <2>5, <2>6, <2>7 DEF ConfigOk, TlsLoads
    <2>9. QED
      BY <2>2, <2>5, <2>8 DEF Runs, Startable
  <1>2. QED
    BY <1>1, Invariance, PTL DEF Spec, AcceptedUnitsStart

\* A deploy whose relay has been probed leaves everything the next start needs: the
\* disk, systemd and the configuration are those of its request, and the service is
\* never stopped for good.  Only the address can still be missing.
DeployHolds ==
    \A d \in Deployers : Sound(d) /\ Checked(d) =>
        /\ binary = req[d].build /\ unit = req[d].unit /\ loaded = unit
        /\ enabled /\ env.file
        /\ Startable(ServerConfig(req[d].unit, env))
        /\ phase # "down"

\* The safety half of DeployEndures, for any number of crashes and reboots; that the
\* service then gets to serving is the fairness of systemd, which TLC checks.
THEOREM DeploysHold == Spec => []DeployHolds
  <1>1. IndInv => DeployHolds
    <2> SUFFICES ASSUME IndInv, NEW d \in Deployers, Sound(d), Checked(d)
                 PROVE  /\ binary = req[d].build /\ unit = req[d].unit /\ loaded = unit
                        /\ enabled /\ env.file
                        /\ Startable(ServerConfig(req[d].unit, env))
                        /\ phase # "down"
      BY DEF DeployHolds
    <2>1. step[d] = "deployed" /\ owner = d /\ ~req[d].skip
      BY DEF Sound, Checked
    <2>2. Disk(d) /\ Systemd(d) /\ Starts(d) /\ phase \in Phases
      BY <2>1 DEF IndInv, OwnerFinds, TypeOK, ServiceOK
    <2>3. QED
      BY <2>1, <2>2 DEF Disk, Systemd, Starts, Written, Reloaded, EnabledAt, Started, Phases
  <1>2. QED
    BY <1>1, Invariance, PTL

\* Status "ok" is true of a host that has not changed under the check.
THEOREM StatusIsTrue == Spec => StatusOkIsTrue
  <1>1. IndInv /\ [Next]_vars =>
          [check # "ok" /\ check' = "ok" /\ quiet
             => phase = "serving" /\ artifact = "matching"]_vars
    <2> SUFFICES ASSUME IndInv, Next, check # "ok", check' = "ok", quiet
                 PROVE  phase = "serving" /\ artifact = "matching"
      OBVIOUS
    <2> USE DEF deployVars, hostVars, serviceVars, statusVars
    <2>1. CheckChecksum
      <3>1. ASSUME NEW d \in Deployers, DeployStep(d) PROVE check' = check
        BY <3>1 DEF DeployStep, Begin, Prepare, CopyBinary, InstallOpens, InstallFills, WriteOpens,
                    WriteFills, DaemonReload, Enable, Restart, RestartFails, Probe, DeployFails,
                    Does
      <3>2. CASE Boot \/ AutoRestart \/ Crash \/ Reboot \/ EditEnv \/ AddressesChange \/ ArtifactChanges
        BY <3>2 DEF Boot, AutoRestart, Crash, Reboot, EditEnv, AddressesChange, ArtifactChanges, ServiceMoves
      <3>3. CASE CheckActive \/ CheckHealth \/ CheckExecutable \/ CheckFails
        BY <3>3 DEF CheckActive, CheckHealth, CheckExecutable, CheckFails, Observes
      <3>4. QED
        BY <3>1, <3>2, <3>3, NextCases DEF HostStep, DeployStep
    <2>2. check = "checksum" /\ sofar /\ artifact = "matching"
      BY <2>1 DEF CheckChecksum, Observes
    <2>3. QED
      BY <2>2 DEF IndInv, SeenServing
  <1>2. QED
    BY <1>1, Invariance, PTL DEF Spec, StatusOkIsTrue
=============================================================================
