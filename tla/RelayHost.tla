------------------------------ MODULE RelayHost ------------------------------
(***************************************************************************)
(* The machine a relay runs on: rk relay deploy (rk.rs,                    *)
(* deploy_relay_systemd and the commands of its plan), systemd with the    *)
(* unit rk writes, relaykitd's checks of its own configuration             *)
(* (run_server, validate_server_config), and rk relay status               *)
(* (check_relay_status).                                                   *)
(***************************************************************************)
EXTENDS Integers, RelayAddress

CONSTANTS
    Deployers,   \* runs of rk relay deploy for one host and service
    Requests,    \* Requests[d]: what d may be asked to deploy
    Builds,      \* contents of relaykitd
    Envs,        \* what the environment file may hold
    Certs,       \* BOOLEANs: the TLS files may be usable or not
    Binds,       \* sets of listen addresses relaykitd may be able to bind
    MaxEvents,   \* bound: crashes, reboots, edits, publications
    Empty, Torn, None

Listens    == {"any", "loopback", "address", "name"}
TlsFlags   == {"none", "half", "both"}
AllEnvs    == [file : BOOLEAN, token : {"unset", "blank", "set"}, tls : TlsFlags]
Units      == [listen : Listens, tls : TlsFlags, url : Urls]
AllRequests == [unit : Units, skip : BOOLEAN, build : Builds]
ProcTypes  == [build : Builds \cup {Torn, None}, unit : Units, env : Envs]

ASSUME RequestsTyped == Requests \in [Deployers -> SUBSET AllRequests]
ASSUME EnvsTyped     == Envs \subseteq AllEnvs /\ Certs \subseteq BOOLEAN
ASSUME BindsTyped    == Binds \subseteq SUBSET Listens
ASSUME NotFiles      == {Empty, Torn, None} \cap (Builds \cup Units \cup Deployers) = {}
ASSUME NoProcess     == None \notin ProcTypes
ASSUME BoundNatural  == MaxEvents \in Nat

VARIABLES
    step,     \* deploy_relay_systemd: the command it is at, or its result
    req,      \* its request
    tmp,      \* the binary it has copied to the host
    owner,    \* the deploy nothing has disturbed since it began (history)
    binary,   \* the installed relaykitd
    binBy,    \* the deploy whose `install` is writing it
    unit,     \* the unit file
    loaded,   \* the unit as systemd has read it
    enabled,  \* systemd starts the service at boot
    env,      \* the environment file
    cert,     \* the TLS certificate and key can be used
    bindable, \* the listen addresses relaykitd can bind: on this host, the port
              \*   not privileged and not another program's
    phase,    \* the service
    proc,     \* the build, unit and environment its process was started with
    events,   \* how many of these so far
    artifact, \* a hosted binary: "absent", "unmatched" or "matching"
    check,    \* check_relay_status: the command it is at, or its result
    sofar,    \* all its commands have succeeded so far
    quiet     \* the host has not changed under it (history)

deployVars  == <<step, req, tmp, owner>>
hostVars    == <<binary, binBy, unit, enabled, env, cert, bindable>>
serviceVars == <<loaded, phase, proc>>
statusVars  == <<check, sofar>>
vars == <<deployVars, hostVars, serviceVars, events, artifact, statusVars, quiet>>

Steps  == {"idle", "prepare", "copy", "install", "installing", "write", "writing",
           "reload", "enable", "restart", "probe", "deployed", "failed"}
Phases == {"down", "starting", "serving", "refused", "crashed"}
Checks == {"idle", "health", "exec", "checksum", "ok", "degraded", "error"}
Ended  == {"idle", "deployed", "failed"}

\* The host changes under a status check that is under way
Disturbs == quiet' = (check \in {"idle", "ok", "degraded", "error"})

-----------------------------------------------------------------------------
(* Configurations.  rk checks a request before it sends anything; relaykitd *)
(* checks what it is started with.                                         *)

\* Mutant: only the scheme of the public URL is checked
AcceptedAnyHost(r) == r.unit.url.scheme \in {"http", "https"} /\ r.unit.tls # "half"

\* validate_listen, validate_public_url and validate_optional_tls_paths of rk:
\* of the listen address only the port is parsed
Accepted(r) == PublicUrlOk(r.unit.url) /\ r.unit.tls # "half"

\* The ServerConfig of relaykitd's main: a flag of the unit, else the variable
\* of the environment file.  rk's unit always has a --public-url and never the
\* --insecure-no-operator-auth
ServerConfig(u, e) ==
    [listen |-> u.listen, url |-> u.url, token |-> e.token,
     tls |-> IF u.tls = "both" THEN "both" ELSE e.tls, insecure |-> FALSE]

\* validate_public_transport
PublicTransportOk(c) ==
    /\ c.tls # "none" => c.url.scheme = "https"
    /\ \/ c.url.scheme = "https"
       \/ c.url.scheme = "http" /\ c.url.loopback

\* validate_insecure_dev_scope
DevScopeOk(c) == c.listen = "loopback" /\ c.url.loopback

\* validate_server_config
ConfigOk(c) ==
    /\ c.token # "blank"
    /\ (c.token = "set") # c.insecure
    /\ c.insecure => DevScopeOk(c)
    /\ c.tls # "half"
    /\ PublicTransportOk(c)

\* load_tls_config: the files can be read and hold a certificate and a key
TlsLoads(c) == c.tls = "both" => cert

\* ... and what run_server needs besides: a listen address that is one
Startable(c) == ConfigOk(c) /\ c.listen # "name" /\ TlsLoads(c)

\* ... and that it can bind
Runs(c) == Startable(c) /\ c.listen \in bindable

\* The health URL is asked of 127.0.0.1, with the scheme the caller expects
Healthy(tls) ==
    /\ phase = "serving"
    /\ proc.unit.listen \in {"any", "loopback"}
    /\ ServerConfig(proc.unit, proc.env).tls = tls

-----------------------------------------------------------------------------
Init ==
    /\ step = [d \in Deployers |-> "idle"]
    /\ req = [d \in Deployers |-> None]
    /\ tmp = [d \in Deployers |-> None]
    /\ owner = None
    /\ binary = None /\ binBy = None /\ unit = None /\ loaded = None
    /\ enabled = FALSE
    /\ env \in Envs /\ cert \in Certs /\ bindable \in Binds
    /\ phase = "down" /\ proc = None
    /\ events = 0
    /\ artifact = "matching"
    /\ check = "idle" /\ sofar = TRUE /\ quiet = TRUE

-----------------------------------------------------------------------------
(* deploy_relay_systemd: one remote command after the other.               *)

\* Nothing is sent for a request rk does not accept
Begin(d) ==
    /\ step[d] = "idle"
    /\ \E r \in Requests[d] :
         /\ Accepted(r)
         /\ req' = [req EXCEPT ![d] = r]
    /\ step' = [step EXCEPT ![d] = "prepare"]
    /\ owner' = IF \A c \in Deployers \ {d} : step[c] \in Ended THEN d ELSE None
    /\ UNCHANGED <<tmp, hostVars, serviceVars, events, artifact, statusVars, quiet>>

\* One command succeeds; only it changes what the host is made of
Does(d, at, next) ==
    /\ step[d] = at
    /\ step' = [step EXCEPT ![d] = next]
    /\ Disturbs
    /\ UNCHANGED <<req, owner, env, cert, bindable, events, artifact, statusVars>>

\* The service user and the directories
Prepare(d) ==
    /\ Does(d, "prepare", "copy")
    /\ UNCHANGED <<tmp, binary, binBy, unit, enabled, serviceVars>>

CopyBinary(d) ==
    /\ Does(d, "copy", "install")
    /\ tmp' = [tmp EXCEPT ![d] = req[d].build]
    /\ UNCHANGED <<binary, binBy, unit, enabled, serviceVars>>

\* `install` unlinks the old file, creates the new one and fills it
InstallOpens(d) ==
    /\ Does(d, "install", "installing")
    /\ tmp[d] # None
    /\ binary' = Torn /\ binBy' = d
    /\ UNCHANGED <<tmp, unit, enabled, serviceVars>>

\* ... unless another `install` has unlinked it meanwhile; then rm
InstallFills(d) ==
    /\ Does(d, "installing", "write")
    /\ tmp[d] # None
    /\ tmp' = [tmp EXCEPT ![d] = None]
    /\ IF binBy = d THEN binary' = tmp[d] /\ binBy' = None
                    ELSE UNCHANGED <<binary, binBy>>
    /\ UNCHANGED <<unit, enabled, serviceVars>>

\* `tee` truncates the unit file and writes to it
WriteOpens(d) ==
    /\ Does(d, "write", "writing")
    /\ unit' = Empty
    /\ UNCHANGED <<tmp, binary, binBy, enabled, serviceVars>>

\* What another `tee` has written meanwhile may leave its tail behind
WriteFills(d) ==
    /\ Does(d, "writing", "reload")
    /\ unit' \in {req[d].unit} \cup (IF unit = Empty THEN {} ELSE {Torn})
    /\ UNCHANGED <<tmp, binary, binBy, enabled, serviceVars>>

\* Mutant: the unit file is not read again
DaemonReloadForgotten(d) ==
    /\ Does(d, "reload", "enable")
    /\ loaded' = IF loaded = None THEN unit ELSE loaded
    /\ UNCHANGED <<tmp, binary, binBy, unit, enabled, phase, proc>>

DaemonReload(d) ==
    /\ Does(d, "reload", "enable")
    /\ loaded' = unit
    /\ UNCHANGED <<tmp, binary, binBy, unit, enabled, phase, proc>>

\* Mutant: the service is not enabled
EnableForgotten(d) ==
    /\ Does(d, "enable", "restart")
    /\ UNCHANGED <<tmp, binary, binBy, unit, enabled, serviceVars>>

\* A unit without an [Install] section is not enabled; that is no error
Enable(d) ==
    /\ Does(d, "enable", "restart")
    /\ enabled' = (enabled \/ unit \in Units)
    /\ UNCHANGED <<tmp, binary, binBy, unit, serviceVars>>

\* systemd starts a process from what is on the disk now
Exec(u) ==
    /\ proc' = [build |-> binary, unit |-> u, env |-> env]
    /\ phase' = "starting"

\* Mutant: systemd is asked to start whatever it has loaded
RestartBlindly(d) ==
    /\ env.file
    /\ Does(d, "restart", IF req[d].skip THEN "deployed" ELSE "probe")
    /\ Exec(loaded)
    /\ UNCHANGED <<tmp, binary, binBy, unit, loaded, enabled>>

\* Type=simple: the command returns as soon as the process is started.  A unit
\* systemd cannot use, or an environment file that is missing, is an error
Restart(d) ==
    /\ loaded \in Units
    /\ env.file
    /\ Does(d, "restart", IF req[d].skip THEN "deployed" ELSE "probe")
    /\ Exec(loaded)
    /\ UNCHANGED <<tmp, binary, binBy, unit, loaded, enabled>>

\* ... but then the old process has been stopped
RestartFails(d) ==
    /\ loaded \in Units
    /\ ~env.file
    /\ Does(d, "restart", "failed")
    /\ phase' = "crashed"
    /\ UNCHANGED <<tmp, binary, binBy, unit, loaded, enabled, proc>>

\* curl of the health URL
Probe(d) ==
    /\ step[d] = "probe"
    /\ step' = [step EXCEPT ![d] =
                  IF Healthy(req[d].unit.tls) THEN "deployed" ELSE "failed"]
    /\ UNCHANGED <<req, tmp, owner, hostVars, serviceVars, events, artifact, statusVars, quiet>>

\* A command fails or its connection is lost: `?` returns
DeployFails(d) ==
    /\ step[d] \notin Ended
    /\ step' = [step EXCEPT ![d] = "failed"]
    /\ UNCHANGED <<req, tmp, owner, hostVars, serviceVars, events, artifact, statusVars, quiet>>

DeployStep(d) ==
    \/ Begin(d) \/ Prepare(d) \/ CopyBinary(d) \/ InstallOpens(d) \/ InstallFills(d)
    \/ WriteOpens(d) \/ WriteFills(d) \/ DaemonReload(d) \/ Enable(d)
    \/ Restart(d) \/ RestartFails(d) \/ Probe(d) \/ DeployFails(d)

-----------------------------------------------------------------------------
(* systemd and relaykitd.                                                  *)

ServiceMoves ==
    /\ Disturbs
    /\ UNCHANGED <<step, req, artifact, statusVars>>

Happens == events < MaxEvents /\ events' = events + 1

\* run_server serves, or returns an error before it does
Boot ==
    /\ ServiceMoves
    /\ phase = "starting"
    /\ phase' = IF proc.build \notin Builds THEN "crashed"
                ELSE IF Runs(ServerConfig(proc.unit, proc.env)) THEN "serving" ELSE "refused"
    /\ UNCHANGED <<tmp, owner, hostVars, loaded, proc, events>>

\* Restart=on-failure, after RestartSec
AutoRestart ==
    /\ ServiceMoves
    /\ phase \in {"refused", "crashed"}
    /\ IF loaded \notin Units THEN phase' = "down" /\ UNCHANGED proc
       ELSE env.file /\ Exec(loaded)
    /\ UNCHANGED <<tmp, owner, hostVars, loaded, events>>

Crash ==
    /\ ServiceMoves
    /\ Happens
    /\ phase = "serving"
    /\ phase' = "crashed"
    /\ UNCHANGED <<tmp, owner, hostVars, loaded, proc>>

\* /tmp is emptied, and what is enabled is started
Reboot ==
    /\ ServiceMoves
    /\ Happens
    /\ tmp' = [d \in Deployers |-> None]
    /\ binBy' = None
    /\ loaded' = unit
    /\ IF enabled /\ unit \in Units
         THEN IF env.file THEN Exec(unit) ELSE phase' = "crashed" /\ UNCHANGED proc
         ELSE phase' = "down" /\ UNCHANGED proc
    /\ UNCHANGED <<owner, binary, unit, enabled, env, cert, bindable>>

\* The operator writes the environment file
EditEnv ==
    /\ ServiceMoves
    /\ Happens
    /\ env' \in Envs
    /\ owner' = None
    /\ UNCHANGED <<tmp, binary, binBy, unit, enabled, cert, bindable, serviceVars>>

\* Another program takes the port or leaves it, or the host's addresses change.
\* A relay that serves keeps its socket
AddressesChange ==
    /\ ServiceMoves
    /\ bindable' \in Binds \ {bindable}
    /\ UNCHANGED <<tmp, owner, binary, binBy, unit, enabled, env, cert, serviceVars, events>>

\* publish-agent, see HostedAgent
ArtifactChanges ==
    /\ Happens
    /\ artifact' \in {"absent", "unmatched", "matching"} \ {artifact}
    /\ Disturbs
    /\ UNCHANGED <<deployVars, hostVars, serviceVars, statusVars>>

-----------------------------------------------------------------------------
(* check_relay_status: four commands, one after the other.  Its --tls may  *)
(* or may not be that of the relay.                                        *)

Observes(at, next, result) ==
    /\ check = at
    /\ check' = next
    /\ sofar' = (at = "checksum" \/ (sofar /\ result))
    /\ UNCHANGED <<deployVars, hostVars, serviceVars, events, artifact>>

\* systemctl is-active: the process has been started
\* (Bound: it is asked for while no deploy is under way; one may begin later.)
CheckActive ==
    /\ \A d \in Deployers : step[d] \in Ended
    /\ Observes("idle", "health", phase \in {"starting", "serving"})
    /\ UNCHANGED quiet

\* Mutant: what the health URL answers is only displayed
CheckHealthIgnored ==
    /\ Observes("health", "exec", TRUE)
    /\ UNCHANGED quiet

CheckHealth ==
    /\ \E tls \in {"none", "both"} : Observes("health", "exec", Healthy(tls))
    /\ UNCHANGED quiet

\* test -x
CheckExecutable ==
    /\ Observes("exec", "checksum", artifact # "absent")
    /\ UNCHANGED quiet

\* sha256sum -c: then all is summed up
CheckChecksum ==
    /\ Observes("checksum", IF sofar /\ artifact = "matching" THEN "ok" ELSE "degraded",
                artifact = "matching")
    /\ quiet' = TRUE

\* A command cannot be run: `?` returns without a report
CheckFails ==
    /\ check \in {"health", "exec", "checksum"}
    /\ check' = "error" /\ sofar' = TRUE /\ quiet' = TRUE
    /\ UNCHANGED <<deployVars, hostVars, serviceVars, events, artifact>>

-----------------------------------------------------------------------------
Service == Boot \/ AutoRestart

Next ==
    \/ \E d \in Deployers : DeployStep(d)
    \/ Service \/ Crash \/ Reboot \/ EditEnv \/ AddressesChange \/ ArtifactChanges
    \/ CheckActive \/ CheckHealth \/ CheckExecutable \/ CheckChecksum \/ CheckFails

Spec == Init /\ [][Next]_vars

\* A process that is started gets to serving or to its error, and systemd
\* restarts what has failed.  (Its limit of starts is not reached with
\* RestartSec=2s.)  Nothing is assumed of deploys
FairSpec == Spec /\ WF_vars(Service)

-----------------------------------------------------------------------------
(* Properties                                                              *)

DeployOK ==
    /\ step \in [Deployers -> Steps]
    /\ \A d \in Deployers : IF step[d] = "idle" THEN req[d] = None ELSE req[d] \in Requests[d]
    /\ tmp \in [Deployers -> Builds \cup {None}]
    /\ owner \in Deployers \cup {None}

DiskOK ==
    /\ binary \in Builds \cup {Torn, None}
    /\ binBy \in Deployers \cup {None} /\ (binBy # None => binary = Torn)
    /\ unit \in Units \cup {Empty, Torn, None}
    /\ enabled \in BOOLEAN /\ env \in Envs /\ cert \in Certs /\ bindable \in Binds

ServiceOK ==
    /\ loaded \in Units \cup {Empty, Torn, None}
    /\ phase \in Phases
    /\ proc = None \/ proc \in ProcTypes
    /\ phase \in {"starting", "serving", "refused"} => proc # None

StatusOK ==
    /\ events \in 0 .. MaxEvents
    /\ artifact \in {"absent", "unmatched", "matching"}
    /\ check \in Checks /\ sofar \in BOOLEAN /\ quiet \in BOOLEAN

\* The types of the variables: a process has a unit systemd could read, and a
\* binary some `install` is filling is not whole.
TypeOK == DeployOK /\ DiskOK /\ ServiceOK /\ StatusOK

\* Nothing has disturbed d: no other deploy and no edit of the environment file
Sound(d) == step[d] = "deployed" /\ owner = d

Checked(d) == \E r \in Requests[d] : req[d] = r /\ ~r.skip

RunsWhatItDeployed(d) ==
    \E r \in Requests[d], e \in Envs :
        req[d] = r /\ proc = [build |-> r.build, unit |-> r.unit, env |-> e]

\* "deployed" is true: from then on the relay that runs is the new build with
\* the new unit, also when it crashed or the machine was rebooted before or since,
\* and whatever an earlier deploy that failed halfway had left.
DeployedIsRunning ==
    \A d \in Deployers : Sound(d) /\ phase \in {"starting", "serving"} => RunsWhatItDeployed(d)

\* The address d's relay listens on can no longer be bound
AddressLost(d) == \E r \in Requests[d] : req[d] = r /\ r.unit.listen \notin bindable

\* A deploy that was checked lasts: whenever the relay crashes or the machine is
\* rebooted, it serves again with the build and the unit that were deployed,
\* unless its address has been lost meanwhile.
DeployEndures ==
    \A d \in Deployers :
        Sound(d) /\ Checked(d) ~>
            (phase = "serving" /\ RunsWhatItDeployed(d)) \/ ~Sound(d) \/ AddressLost(d)

\* rk and relaykitd each have checks of their own.  A unit rk has accepted is
\* refused at a start only for what rk cannot see (the environment file, the
\* certificate, an address that cannot be bound), a listen address that is a host
\* name, or TLS behind an http URL.
AcceptedUnitsStart ==
    [][phase = "starting" /\ phase' = "refused" =>
        \/ proc.env.token # "set" \/ proc.env.tls = "half" \/ ~cert
        \/ proc.unit.listen \notin bindable
        \/ proc.unit.listen = "name"
        \/ ServerConfig(proc.unit, proc.env).tls = "both" /\ proc.unit.url.scheme = "http"]_vars

\* Status "ok" is the sum of four observations at four moments: on a host that
\* does not change meanwhile, the relay serves and what it hosts is whole.
StatusOkIsTrue ==
    [][check # "ok" /\ check' = "ok" /\ quiet
         => phase = "serving" /\ artifact = "matching"]_vars
=============================================================================
