----------------------------- MODULE OperatorCli -----------------------------
(***************************************************************************)
(* The operator's commands that work with the relay's session API (rk.rs,  *)
(* main, write_operator_config, create_operator_session, wait_for_agent,   *)
(* ensure_listen_available) together with the relay's handlers             *)
(* (authorize_operator, create_session, list_sessions, end_session,        *)
(* register_agent_session) and the join command the assisted user is sent. *)
(* A session is named by the run of rk that created it.                    *)
(* What goes through an open tunnel is in OperatorTunnel and Relay.        *)
(***************************************************************************)
EXTENDS Integers, Sequences

CONSTANTS
    Rks,         \* runs of rk assist ssh, rk assist rdp and rk session new
    Commands,    \* Commands[r]: what r may be asked to do
    Logins,      \* runs of rk login
    Tokens,      \* operator tokens, NoToken among them
    RelayToken,  \* the relay's
    NoToken,
    Empty, Torn, \* a config file that has been truncated, or overwritten in part
    Ports,       \* local listen addresses
    Dynamic,     \* ... the one with port 0
    Names,       \* tunnel names
    Targets,     \* tunnel targets
    Wait,        \* --wait-seconds, in ticks of the clock
    Poll,        \* pause between two requests, likewise
    None

Tunnels    == [name : Names, target : Targets]
AllCommands ==
    [allowed : Seq(Tunnels), wait : BOOLEAN, tunnel : BOOLEAN, listen : Ports, given : BOOLEAN]

ASSUME CommandsTyped == \A r \in Rks : \A c \in Commands[r] : c \in AllCommands
ASSUME TokensTyped   == {RelayToken, NoToken} \subseteq Tokens /\ RelayToken # NoToken
ASSUME NotTokens     == {Empty, Torn, None} \cap (Tokens \cup Rks \cup Logins) = {}
ASSUME FileThere     == None \notin {Empty, Torn}
ASSUME PortsTyped    == Dynamic \in Ports
ASSUME TimesPositive == Wait \in Nat \ {0} /\ Poll \in Nat \ {0}

VARIABLES
    config,   \* the config file: absent (None), or the token stored in it
    login,    \* rk login: where it is, or how it ended
    ltoken,   \* the token it is to store
    overlap,  \* two logins have written at once (history)
    pc,       \* main of rk: where a run is, or how it ended
    token,    \* the token it uses
    cmd,      \* its command
    left,     \* ticks until the deadline of wait_for_agent
    wake,     \* ticks until its sleep ends
    sees,     \* the relay's answer: the agent is connected
    late,     \* the deadline had passed when it asked (history)
    slow,     \* time has passed since it asked (history)
    there,    \* the agent has been connected since before it asked (history)
    lost,     \* another program has taken its port since it checked (history)
    holder,   \* the run that listens on a port
    session,  \* the relay's entry of the session: "none", "live" or "expired"
    used,     \* its code_consumed
    agent,    \* its agent: "none", "registered" or "connected"
    met,      \* the agent has been connected at some time (history)
    rejected  \* its join command has been refused for its tunnels (history)

waitVars  == <<left, wake, sees, late, slow, there>>
loginVars == <<config, login, ltoken, overlap>>
rkVars    == <<loginVars, pc, token, cmd, waitVars, lost, holder>>
relayVars == <<session, used, agent, met, rejected>>
vars == <<rkVars, relayVars>>

Running  == {"idle", "checking", "create", "creating", "created", "list", "listing", "answered",
             "sleeping", "bind", "serving"}
Final    == {"done", "failed", "portLost", "timedOut"}
Waiting  == {"list", "listing", "answered", "sleeping"}

Init ==
    /\ config \in {None, RelayToken}
    /\ login = [l \in Logins |-> "idle"]
    /\ ltoken = [l \in Logins |-> NoToken]
    /\ overlap = FALSE
    /\ pc = [r \in Rks |-> "idle"] /\ token = [r \in Rks |-> NoToken]
    /\ cmd \in [Rks -> UNION {Commands[r] : r \in Rks}]
    /\ \A r \in Rks : cmd[r] \in Commands[r]
    /\ left = [r \in Rks |-> 0] /\ wake = [r \in Rks |-> 0]
    /\ sees = [r \in Rks |-> FALSE] /\ late = [r \in Rks |-> FALSE]
    /\ slow = [r \in Rks |-> FALSE] /\ there = [r \in Rks |-> FALSE]
    /\ lost = [r \in Rks |-> FALSE]
    /\ holder = [p \in Ports |-> None]
    /\ session = [r \in Rks |-> "none"]
    /\ used = [r \in Rks |-> FALSE]
    /\ agent = [r \in Rks |-> "none"] /\ met = [r \in Rks |-> FALSE]
    /\ rejected = [r \in Rks |-> FALSE]

-----------------------------------------------------------------------------
(* The tunnels an agent may offer: validate_agent_exposes.                 *)

\* Mutant: the slice of the offers seen so far includes the offer itself
ExposesOkOffByOne(allowed, exposes) ==
    \A i \in DOMAIN exposes :
        /\ \A j \in 1 .. i : exposes[j].name # exposes[i].name
        /\ \E t \in DOMAIN allowed : allowed[t] = exposes[i]

\* Of several allowed tunnels with the name of an offer, the first counts
ExposesOk(allowed, exposes) ==
    \A i \in DOMAIN exposes :
        /\ \A j \in 1 .. (i - 1) : exposes[j].name # exposes[i].name
        /\ \E t \in DOMAIN allowed :
             /\ allowed[t] = exposes[i]
             /\ \A u \in 1 .. (t - 1) : allowed[u].name # exposes[i].name

\* validate_allowed_tunnels, which create_session relies on
AllowedOk(allowed) == allowed # <<>>

-----------------------------------------------------------------------------
(* The config file.                                                        *)

\* read_operator_config: no file at all is no error
Readable == config \in Tokens \cup {None}

\* resolve_server: without a stored one, the command must name the relay
ServerKnown(r) == config # None \/ cmd[r].given

\* resolve_operator_token: the command line comes before what is stored
TokenOf(r) == IF cmd[r].given THEN RelayToken ELSE config

-----------------------------------------------------------------------------
(* rk login.  main has read the config file before it is written; a token  *)
(* that is not given is the stored one's.                                  *)

LoginMoves(l, at, next) ==
    /\ login[l] = at
    /\ login' = [login EXCEPT ![l] = next]
    /\ UNCHANGED <<pc, token, cmd, waitVars, lost, holder, relayVars>>

\* A config file that cannot be read ends this command, too
LoginStarts(l) ==
    /\ LoginMoves(l, "idle", IF Readable THEN "write" ELSE "failed")
    /\ \E given \in Tokens :
         ltoken' = [ltoken EXCEPT ![l] = IF given = NoToken /\ config \in Tokens
                                         THEN config ELSE given]
    /\ UNCHANGED <<config, overlap>>

\* Mutant: the file is not truncated
LoginOpensAsIs(l) ==
    /\ LoginMoves(l, "write", "writing")
    /\ config' = IF config = None THEN Empty ELSE config
    /\ overlap' = (overlap \/ \E k \in Logins : login[k] = "writing")
    /\ UNCHANGED ltoken

\* write_owner_only_file opens the file with truncate
LoginOpens(l) ==
    /\ LoginMoves(l, "write", "writing")
    /\ config' = Empty
    /\ overlap' = (overlap \/ \E k \in Logins : login[k] = "writing")
    /\ UNCHANGED ltoken

\* What another login has written meanwhile may leave its tail behind
LoginFills(l) ==
    /\ LoginMoves(l, "writing", "saved")
    /\ config' \in {ltoken[l]} \cup (IF config = Empty THEN {} ELSE {Torn})
    /\ ltoken' = [ltoken EXCEPT ![l] = NoToken]
    /\ UNCHANGED overlap

\* It is interrupted, or the file cannot be written
LoginStops(l) ==
    /\ \E at \in {"write", "writing"} :
         LoginMoves(l, at, IF at = "writing" THEN "interrupted" ELSE "failed")
    /\ ltoken' = [ltoken EXCEPT ![l] = NoToken]
    /\ UNCHANGED <<config, overlap>>

LoginStep(l) == LoginStarts(l) \/ LoginOpens(l) \/ LoginFills(l) \/ LoginStops(l)

-----------------------------------------------------------------------------
(* rk assist and rk session new.                                           *)

\* main: a config file that cannot be read ends any command
Start(r) ==
    /\ pc[r] = "idle"
    /\ IF Readable /\ ServerKnown(r)
         THEN /\ token' = [token EXCEPT ![r] = TokenOf(r)]
              /\ pc' = [pc EXCEPT ![r] = IF cmd[r].tunnel THEN "checking" ELSE "create"]
         ELSE /\ pc' = [pc EXCEPT ![r] = "failed"]
              /\ UNCHANGED token
    /\ UNCHANGED <<loginVars, cmd, waitVars, lost, holder, relayVars>>

Free(p) == p = Dynamic \/ holder[p] = None

\* Mutant: the listener of the check is kept
CheckListenKept(r) ==
    /\ pc[r] = "checking"
    /\ LET p == cmd[r].listen
       IN /\ pc' = [pc EXCEPT ![r] = IF Free(p) THEN "create" ELSE "failed"]
          /\ holder' = IF p # Dynamic /\ Free(p) THEN [holder EXCEPT ![p] = r] ELSE holder
    /\ UNCHANGED <<loginVars, token, cmd, waitVars, lost, relayVars>>

\* ensure_listen_available binds the address and drops the listener
CheckListen(r) ==
    /\ pc[r] = "checking"
    /\ pc' = [pc EXCEPT ![r] = IF Free(cmd[r].listen) THEN "create" ELSE "failed"]
    /\ UNCHANGED <<loginVars, token, cmd, waitVars, lost, holder, relayVars>>

Goes(r, from, to) ==
    /\ pc[r] = from
    /\ pc' = [pc EXCEPT ![r] = to]
    /\ UNCHANGED <<loginVars, token, cmd, lost>>

\* create_operator_session
Create(r) ==
    /\ Goes(r, "create", "creating")
    /\ UNCHANGED <<waitVars, holder, relayVars>>

\* authorize_operator
Authorized(r) == token[r] = RelayToken

\* The relay's create_session
RelayCreates(r) ==
    /\ Authorized(r) /\ AllowedOk(cmd[r].allowed)
    /\ Goes(r, "creating", "created")
    /\ session' = [session EXCEPT ![r] = "live"]
    /\ UNCHANGED <<waitVars, holder, used, agent, met, rejected>>

RelayRefuses(r) ==
    /\ ~Authorized(r) \/ ~AllowedOk(cmd[r].allowed)
    /\ Goes(r, "creating", "failed")
    /\ UNCHANGED <<waitVars, holder, relayVars>>

\* The join command is printed
Created(r) ==
    /\ Goes(r, "created", IF ~cmd[r].tunnel THEN "done"
                          ELSE IF cmd[r].wait THEN "list" ELSE "bind")
    /\ left' = [left EXCEPT ![r] = IF pc'[r] = "list" THEN Wait ELSE 0]
    /\ UNCHANGED <<wake, sees, late, slow, there, holder, relayVars>>

-----------------------------------------------------------------------------
(* wait_for_agent                                                          *)

\* list_operator_sessions
List(r) ==
    /\ Goes(r, "list", "listing")
    /\ late' = [late EXCEPT ![r] = left[r] = 0]
    /\ slow' = [slow EXCEPT ![r] = FALSE]
    /\ there' = [there EXCEPT ![r] = agent[r] = "connected"]
    /\ UNCHANGED <<left, wake, sees, holder, relayVars>>

\* Mutant: any session with an agent will do
SessionConnectedAny(r) == \E s \in Rks : session[s] # "none" /\ agent[s] = "connected"

\* session_summary's agent_connected, of the session rk looks for
SessionConnected(r) == session[r] # "none" /\ agent[r] = "connected"

\* The relay's list_sessions
RelayLists(r) ==
    /\ Goes(r, "listing", "answered")
    /\ sees' = [sees EXCEPT ![r] = SessionConnected(r)]
    /\ UNCHANGED <<left, wake, late, slow, there, holder, relayVars>>

\* Of a look that was not the last nothing is remembered
Settles(r) ==
    /\ sees' = [sees EXCEPT ![r] = FALSE]
    /\ late' = [late EXCEPT ![r] = @ /\ pc'[r] = "timedOut"]
    /\ slow' = [slow EXCEPT ![r] = @ /\ pc'[r] = "timedOut"]
    /\ there' = [there EXCEPT ![r] = @ /\ pc'[r] = "timedOut"]

Least(a, b) == IF a < b THEN a ELSE b

\* Mutant: the run gives up when its next request would be past the deadline
AnsweredGivesUpEarly(r) ==
    /\ Goes(r, "answered", IF sees[r] THEN "bind"
                           ELSE IF left[r] <= Poll THEN "timedOut" ELSE "sleeping")
    /\ wake' = [wake EXCEPT ![r] = IF pc'[r] = "sleeping" THEN Poll ELSE 0]
    /\ left' = [left EXCEPT ![r] = IF pc'[r] = "sleeping" THEN @ ELSE 0]
    /\ Settles(r)
    /\ UNCHANGED <<holder, relayVars>>

\* Mutant: the deadline is set anew in every round
AnsweredStartsOver(r) ==
    /\ Goes(r, "answered", IF sees[r] THEN "bind"
                           ELSE IF left[r] = 0 THEN "timedOut" ELSE "sleeping")
    /\ wake' = [wake EXCEPT ![r] = IF pc'[r] = "sleeping" THEN Least(Poll, left[r]) ELSE 0]
    /\ left' = [left EXCEPT ![r] = IF pc'[r] = "sleeping" THEN Wait ELSE 0]
    /\ Settles(r)
    /\ UNCHANGED <<holder, relayVars>>

\* Mutant: the sleep is not cut at the deadline
AnsweredSleepsOver(r) ==
    /\ Goes(r, "answered", IF sees[r] THEN "bind"
                           ELSE IF left[r] = 0 THEN "timedOut" ELSE "sleeping")
    /\ wake' = [wake EXCEPT ![r] = IF pc'[r] = "sleeping" THEN Poll ELSE 0]
    /\ left' = [left EXCEPT ![r] = IF pc'[r] = "sleeping" THEN @ ELSE 0]
    /\ Settles(r)
    /\ UNCHANGED <<holder, relayVars>>

\* The clock is looked at only after an answer
Answered(r) ==
    /\ Goes(r, "answered", IF sees[r] THEN "bind"
                           ELSE IF left[r] = 0 THEN "timedOut" ELSE "sleeping")
    /\ wake' = [wake EXCEPT ![r] = IF pc'[r] = "sleeping" THEN Least(Poll, left[r]) ELSE 0]
    /\ left' = [left EXCEPT ![r] = IF pc'[r] = "sleeping" THEN @ ELSE 0]
    /\ Settles(r)
    /\ UNCHANGED <<holder, relayVars>>

WakeUp(r) ==
    /\ wake[r] = 0
    /\ Goes(r, "sleeping", "list")
    /\ UNCHANGED <<waitVars, holder, relayVars>>

-----------------------------------------------------------------------------
(* run_operator_tunnel binds the address again.                            *)

Bind(r) ==
    /\ Free(cmd[r].listen)
    /\ pc[r] = "bind"
    /\ pc' = [pc EXCEPT ![r] = "serving"]
    /\ UNCHANGED <<loginVars, token>>
    /\ holder' = IF cmd[r].listen = Dynamic THEN holder
                 ELSE [holder EXCEPT ![cmd[r].listen] = r]
    /\ lost' = [s \in Rks |-> lost[s] \/
                   (s # r /\ cmd[s].listen = cmd[r].listen /\ pc[s] \notin {"idle", "checking"} \cup Final)]
    /\ UNCHANGED <<cmd, waitVars, relayVars>>

\* ... and the session stays behind
BindFails(r) ==
    /\ ~Free(cmd[r].listen)
    /\ Goes(r, "bind", "portLost")
    /\ UNCHANGED <<waitVars, holder, relayVars>>

\* A request fails, its answer is lost, the tunnel ends, or the operator
\* interrupts the run: nothing of the relay's is undone
Stops(r) ==
    /\ pc[r] \in Running \ {"idle"}
    /\ pc' = [pc EXCEPT ![r] = IF @ = "serving" THEN "done" ELSE "failed"]
    /\ holder' = [p \in Ports |-> IF holder[p] = r THEN None ELSE holder[p]]
    /\ left' = [left EXCEPT ![r] = 0] /\ wake' = [wake EXCEPT ![r] = 0]
    /\ Settles(r)
    /\ UNCHANGED <<loginVars, token, cmd, lost, relayVars>>

\* Answers and timers of rk's own; the relay answers what it is asked
RkStep(r) ==
    \/ Create(r) \/ RelayCreates(r) \/ RelayRefuses(r) \/ Created(r)
    \/ List(r) \/ RelayLists(r) \/ Answered(r) \/ WakeUp(r) \/ Bind(r) \/ BindFails(r)

\* The clock: what is past stays past
Tick ==
    /\ \E r \in Rks : left[r] > 0 \/ wake[r] > 0 \/ (pc[r] \in {"listing", "answered"} /\ ~slow[r])
    /\ left' = [r \in Rks |-> IF left[r] > 0 THEN left[r] - 1 ELSE 0]
    /\ wake' = [r \in Rks |-> IF wake[r] > 0 THEN wake[r] - 1 ELSE 0]
    /\ slow' = [r \in Rks |-> slow[r] \/ pc[r] \in {"listing", "answered"}]
    /\ UNCHANGED <<loginVars, pc, token, cmd, sees, late, there, lost, holder, relayVars>>

-----------------------------------------------------------------------------
(* The relay and the assisted user.                                        *)

\* The agents of S are gone; the look of a run that has ended is not undone
NoLonger(S) ==
    /\ agent' = [r \in Rks |-> IF r \in S THEN "none" ELSE agent[r]]
    /\ there' = [r \in Rks |-> there[r] /\ (r \in S => pc[r] \notin Waiting)]

\* The entries of S leave the store, and their agents' connections are closed
Removed(S) ==
    /\ \E r \in S : session[r] # "none"
    /\ session' = [r \in Rks |-> IF r \in S THEN "none" ELSE session[r]]
    /\ used' = [r \in Rks |-> r \notin S /\ used[r]]
    /\ NoLonger(S)
    /\ UNCHANGED <<loginVars, pc, token, cmd, left, wake, sees, late, slow, lost, holder, met, rejected>>

\* rk session end, by any operator
EndSession(s) == Removed({s})

\* The store is in memory only
RelayRestarts == Removed(Rks)

\* The time-to-live has passed: the entry stays
Expire(s) ==
    /\ session[s] = "live"
    /\ session' = [session EXCEPT ![s] = "expired"]
    /\ UNCHANGED <<rkVars, used, agent, met, rejected>>

\* The join command has been printed, and the user runs it: once or more often
CodeUsable(s) ==
    pc[s] \notin {"idle", "checking", "create", "creating", "created"} /\ session[s] = "live" /\ ~used[s]

\* agent_command and the join scripts repeat the allowed tunnels, and
\* ExposeRequest reads each back as it was
Offers(s) == cmd[s].allowed

\* register_agent_session
Join(s) ==
    /\ CodeUsable(s)
    /\ ExposesOk(cmd[s].allowed, Offers(s))
    /\ used' = [used EXCEPT ![s] = TRUE]
    /\ agent' = [agent EXCEPT ![s] = "registered"]
    /\ UNCHANGED <<rkVars, session, met, rejected>>

\* ... returns an error; the code stays unused
JoinRejected(s) ==
    /\ CodeUsable(s)
    /\ ~ExposesOk(cmd[s].allowed, Offers(s))
    /\ rejected' = [rejected EXCEPT ![s] = TRUE]
    /\ UNCHANGED <<rkVars, session, used, agent, met>>

\* handle_agent_socket_inner puts the sender into the entry
Attach(s) ==
    /\ agent[s] = "registered"
    /\ agent' = [agent EXCEPT ![s] = "connected"]
    /\ met' = [met EXCEPT ![s] = TRUE]
    /\ UNCHANGED <<rkVars, session, used, rejected>>

AgentLeaves(s) ==
    /\ agent[s] # "none"
    /\ NoLonger({s})
    /\ UNCHANGED <<loginVars, pc, token, cmd, left, wake, sees, late, slow, lost, holder, session, used, met, rejected>>

-----------------------------------------------------------------------------
Next ==
    \/ \E r \in Rks :
         \/ Start(r) \/ CheckListen(r) \/ RkStep(r) \/ Stops(r)
         \/ Expire(r) \/ EndSession(r) \/ Join(r) \/ JoinRejected(r) \/ Attach(r) \/ AgentLeaves(r)
    \/ \E l \in Logins : LoginStep(l)
    \/ RelayRestarts \/ Tick

Spec == Init /\ [][Next]_vars

\* Time passes, rk goes on, and the relay answers (rk's client has no timeout
\* of its own).  Nothing is assumed of users and agents
FairSpec == Spec /\ WF_vars(Tick) /\ \A r \in Rks : WF_vars(RkStep(r))

-----------------------------------------------------------------------------
(* Properties                                                              *)

\* The types of the variables: a run never sleeps past its deadline, and only a
\* run with an open tunnel holds a port.
TypeOK ==
    /\ config \in Tokens \cup {Empty, Torn, None}
    /\ login \in [Logins -> {"idle", "write", "writing", "saved", "interrupted", "failed"}]
    /\ ltoken \in [Logins -> Tokens] /\ overlap \in BOOLEAN
    /\ pc \in [Rks -> Running \cup Final] /\ token \in [Rks -> Tokens]
    /\ \A r \in Rks : cmd[r] \in Commands[r]
    /\ left \in [Rks -> 0 .. Wait] /\ wake \in [Rks -> 0 .. Poll]
    /\ \A r \in Rks : wake[r] <= left[r]
    /\ sees \in [Rks -> BOOLEAN] /\ late \in [Rks -> BOOLEAN]
    /\ slow \in [Rks -> BOOLEAN] /\ there \in [Rks -> BOOLEAN]
    /\ lost \in [Rks -> BOOLEAN] /\ met \in [Rks -> BOOLEAN] /\ used \in [Rks -> BOOLEAN]
    /\ holder \in [Ports -> Rks \cup {None}]
    /\ session \in [Rks -> {"none", "live", "expired"}]
    /\ agent \in [Rks -> {"none", "registered", "connected"}]
    /\ rejected \in [Rks -> BOOLEAN]

\* "assisted machine did not connect" is said only after a look at the relay at
\* or past the deadline, or one whose answer took until then; and never of an
\* agent that had been connected when rk asked and still was when it was told.
NoFalseTimeout ==
    \A r \in Rks : pc[r] = "timedOut" => ~there[r] /\ (late[r] \/ slow[r])

\* wait_for_agent takes no other session's agent for its own.
WaitSawItsAgent ==
    \A r \in Rks : cmd[r].wait /\ pc[r] \in {"bind", "serving", "portLost"} => met[r]

\* The address that was free when rk checked it is lost only to another program
\* that took it while rk was creating its session and waiting.
PortLostToAnother == \A r \in Rks : pc[r] = "portLost" => lost[r]

\* A config file no command can read, rk login included, comes only of a login that
\* is writing or was interrupted, or of two that wrote at once.
UnreadableOnlyByInterruption ==
    config \in {Empty, Torn} =>
        overlap \/ \E l \in Logins : login[l] \in {"writing", "interrupted"}

\* create_session accepts lists of tunnels without looking at their names, while
\* register_agent_session wants the offers distinct: the join command of a session
\* can be used if and only if the names are.
JoinCommandUsable ==
    \A r \in Rks :
        LET a == cmd[r].allowed
            distinct == \A i, j \in DOMAIN a : a[i].name = a[j].name => i = j
        IN /\ rejected[r] => ~distinct
           /\ used[r] => distinct

\* Waiting ends: the agent is seen, or the deadline passes, or the run stops.
WaitingEnds == \A r \in Rks : pc[r] = "list" ~> pc[r] \notin Waiting
=============================================================================
