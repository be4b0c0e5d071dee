# RelayKit: specification and verification

RelayKit lets an operator reach local services (SSH, RDP, any TCP port) of an
assisted machine through a relay the operator owns. These TLA+ modules model
the program under `src/crates`; TLC checks them on small instances and TLAPS
proves theorems about them for every value of their constants.

Paths below are relative to the repository; `server`, `agent`, `tunnel`,
`protocol` stand for `crates/relaykit-<name>/src/lib.rs`, `rk` for
`crates/relaykit-cli/src/bin/rk.rs`.

## The system

    rk (operator) --HTTP--> relaykitd <--HTTP (join script, artifact)-- user
    local client <-TCP-> bridge_operator_stream <-ws-> operator task \
                                                                      session store
    local target <-TCP-> open_local_stream tasks <-run_join <-ws-> agent task /

| part | state | operations | what makes it correct |
| --- | --- | --- | --- |
| session store (`server` 440-640, 1178-1308) | `sessions: HashMap`, each with `code`, `code_consumed`, `expires_at`, `agent`, `streams`; `next_stream` | create, list, end; register, attach, clear an agent; insert, look up, remove a stream | a code admits one agent; the agent and the streams shown are really there; stream ids never collide; ending and expiry revoke |
| agent task (`server` 771-884) | its channel, its outbound task, where it awaits | hello, attach, forward frames to operators, clear | every exit clears the session; nothing after a close; one slow operator must not hold up the others |
| operator task (`server` 904-1024) | cloned sender of the agent, stream id, channel, outbound task | check, insert, OpenStream, forward, close | OpenStream precedes traffic; the entry goes when the operator goes |
| session API (`server` 504-638, 1034-1051) | the store above | bearer token, create, list, end | nothing without the token; what is listed is true of the session asked for |
| join scripts, artifacts (`server` 640-731, 1320-1685) | files in the artifact directory | a script per code, files by name; the script downloads, verifies and runs | only a verified whole binary is run |
| configuration, TLS (`server` 93-321, `relaykitd`) | configuration | checks before it listens | no service without a token outside loopback; what was deployed starts |
| agent runtime (`agent` 134-323) | stream map, one writer and one reader task per local connection, outbound channel | open, data, close, error, session end | one stream's failure leaves the others alone; bytes arrive in order; every local connection is closed in the end |
| operator tunnel (`tunnel` 269-386) | listener, one bridge per local connection | accept, copy both ways, close | bytes in order, half-close, nothing listening after exit |
| protocol (`protocol`) | none | wire messages, ids, codes | tags and ids survive encoding |
| `rk` session commands (`rk` 351-745, 757-982) | the config file | login, create, wait, tunnel, end | waiting ends and sees its own agent; the config file stays readable |
| `rk` publishing and status (`rk` 1270-1490, 1822-1956) | remote artifact directory | copy, install binary, install checksum; four questions | the hosted pair matches in the end; `ok` is true |
| `rk` systemd deployment (`rk` 1556-1820) | remote unit, binary, environment file | a list of remote commands, stopped at the first failure | `deployed` is true and lasts through crashes and reboots |
| entry points, platform detection | none | argument parsing | - |

What is hard here: everything but the lock of the session store is concurrent.
Senders are cloned under the lock and awaited after it, notices are offered
with `try_send` to channels that may be full, two locked sections of one
handler have a gap between them, expiry is a clock nobody listens to, and each
handler leaves by `?` at several awaits. In a bridge `select!` drops whichever
half is still running. Publishing and deploying are lists of remote commands any
of which may be the last, beside a service manager that restarts what it finds
on the disk and machines that download meanwhile. `PROJECT.json` lists these hazards at
their lines, with the properties that watch them.

## Modules

| module | content |
| --- | --- |
| `Relay` | the session store, the agent and operator tasks, their channels and outbound tasks; properties |
| `SessionLifecycle` | what a session promises, without tasks or channels |
| `RelayRefinement` | the mapping from `Relay` to `SessionLifecycle` |
| `RelayMC` | constants of the instances TLC checks |
| `RelayProofs` | the inductive invariant, type correctness and three safety theorems |
| `RelayLifecycleProofs` | history invariant; `Relay` implements `SessionLifecycle` |
| `RelayTrafficProofs` | invariants of what the channels hold; three theorems about the relay's traffic |
| `AgentRuntime` | the agent's reading task, stream map, send task, one write and one read task per local connection; properties |
| `AgentRuntimeMC` | constants of its instances |
| `AgentRuntimeProofs` | its inductive invariant and four safety theorems |
| `OperatorTunnel` | the listener and its bridges, the two futures of each, `select!`; properties |
| `BytePipe` | what one direction of a tunnelled connection promises |
| `OperatorTunnelMC` | constants of its instance |
| `OperatorTunnelProofs` | its inductive invariant, two refinements of `BytePipe` and two safety theorems |
| `RelayAddress` | the relay URLs the three programs accept; used by `OperatorTunnel` and `RelayHost` |
| `HostedAgent` | the hosted agent binary: publications, the relay that serves it, the join script that runs it; properties |
| `HostedAgentMC` | constants of its instance |
| `HostedAgentProofs` | its inductive invariant, three safety theorems and one about every publication |
| `RelayHost` | the relay's machine: deploys, systemd, `relaykitd`'s start, status checks; properties |
| `RelayHostMC` | constants of its instance |
| `RelayHostProofs` | its inductive invariant, four safety theorems and one about every status check |
| `OperatorCli` | the operator's commands, the relay's session API, the user who joins; properties |
| `OperatorCliMC` | constants of its instance |
| `OperatorCliProofs` | its inductive invariant and seven safety theorems |

`Relay`, `AgentRuntime` and `OperatorTunnel` are each other's environment: what
one sends, the others may receive at any time. `HostedAgent`, `RelayHost` and
`OperatorCli` each compose several programs around one piece of shared state: the
artifact directory, the relay's machine, the session store.

### Relay: how it corresponds to the code

One action is what the code does without giving another task a chance to
interfere: one locked section, one `try_send`, one completed awaited `send`.

- **Sessions.** `status` tells whether the id is in the `HashMap`; `consumed`,
  `slot`, `streams` are the fields `code_consumed`, `agent`, `streams`, where a
  sender is represented by the connection whose channel it feeds. `Expire` is
  the clock passing `expires_at`; no code runs then. `EndSession` removes the
  entry in one step, `NotifyAgent` and `NotifyOperator` are
  `notify_session_closed`, working on the removed value without the lock.
- **Agent connections.** `apc` is the program counter of
  `handle_agent_socket_inner`. `AgentRegister`/`AgentReject` are
  `register_agent_session` with all its tests, `AgentAttach` creates the channel
  with `AgentReady` in it and stores the sender in one locked section,
  `AgentFrame` looks up the receiver (first half of `send_to_operator`),
  `AgentForward` and `AgentForwardFails` are the two outcomes of the await,
  `AgentRemove` is `remove_stream`. Every exit goes to `leaving`
  (`outbound.abort()`) and then `AgentClear`.
- **Operator connections.** `opc` follows `handle_operator_socket_inner`:
  `OperatorOpen`/`OperatorRefused` are the first locked section (an id is drawn
  before any test, so a refused operator uses one up), `OperatorInsert` the
  second, `OperatorAnnounce` the awaited `OpenStream`, whose failure
  (`OperatorAnnounceFails`) returns at once. Then frames, and on the way out
  `OperatorTryClose` and `OperatorRemove`.
- **Channels.** `aq`, `oq` hold the messages, `arx`, `orx` tell whether the
  receiver exists. The outbound task takes a message and writes it
  (`...OutboundSend`); it ends by a failed write or by the abort
  (`...OutboundStop`), which drops the receiver and what it held.
- **Peers.** `apeer`, `opeer` are the far ends of the websockets, modelled from
  how `agent` and `tunnel` use them: they send any frame while connected, they
  may vanish at any moment, and they leave after being told the session or the
  stream is over. An agent may send on any stream id, of its own session, of another
  or of none, since the relay compares neither the session nor what it told the agent.
- **History.** `known` records the ids an agent was told to open, `strays` the
  operators that an agent of another session has sent to. No action is guarded by
  either; properties are conditional on them, because what keeps two sessions apart
  is that `run_join` sends on streams it has opened only and that ids are unique.

Payloads are reduced to the kind of the frame and the stream id. A connection
is used once; a second attempt is another member of `Agents` or `Operators`.
Left out of `Relay`: frames of other kinds and text frames (ignored by the code
without effect), a hello that does not decode (the connection ends before it
touched anything), poisoned locks (no code panics while holding the lock),
audit lines, join scripts and artifacts.

### SessionLifecycle

`absent -> waiting -> claimed -> attached -> vacant -> ended`, each live phase
possibly ending early. The abstract session never hands out its code twice,
never takes a second agent, grants tunnels only while the agent is attached and
the ttl runs, and routes the agent's data only to operators so granted. `Route`
is allowed in `vacant` too: that is what the gap between the two locked sections
of the operator task makes possible, and the abstract spec says so instead of
hiding it. `RelayRefinement` computes the phase from the store and the program
counters; there is no auxiliary variable.

### AgentRuntime: how it corresponds to the code

- **The reading task.** `main` is where `run_join` is: in `ws_reader.next()`
  (`reading`), or in one of the three awaits inside the loop, the local
  `TcpStream::connect` (`connecting`), the `StreamError` that answers an open
  (`reporting`), the send of a chunk (`delivering`); `cur` is the stream it is
  busy with. `mapped` is the set of keys of the map `streams`, `toTcp` the
  channel behind each. `MainConnect` inserts the entry and spawns both tasks in
  one step, as there is no await between. Every `?` and every `break` is
  `Leave` (`streams.clear()`, `send_task.abort()`), and `Exit` is
  `relaykit-agent`'s `main` returning, which drops whatever still runs.
- **The connection's tasks.** `writer` drains `toTcp`. Its channel ends when the
  map's entry, the only sender, is gone, and only after it is drained
  (`WriterEnds`); a failed write drops the receiver and leaves the entry
  (`WriterFails`). `reader` is the read task: a read yields data, the end of
  file or an error, each followed by the sends of `AfterFrame`.
- **The outbound side.** `outq` is the one channel all tasks send into, `sending`
  says whether the send task, which owns its receiver, still runs; `heard` is
  what it has put on the websocket.
- **Environment.** `link` is the websocket, `target` the far end of a local
  connection. The relay sends nothing before the hello, opens each id once
  (`StreamTableConsistent` of `Relay`, proved) and names only ids it has opened.
  It numbers its chunks: `sent`, `accepted`, `written` count or record them.

Left out: preflight connects (their result is only logged), printed status, the
websocket's own handshake, frames that are not binary (skipped), `AgentReady`
(logged).

### OperatorTunnel: how it corresponds to the code

- `bridge` is where a bridge's task is: in the listen queue (`backlog`), in the
  websocket's handshake (`connecting`), in `select!` (`both`), in the
  `from_relay.await` after `to_relay` is done (`draining`), or how it ended. A
  future that is not polled takes no step (`PollsUp`, `PollsDown`): that is how a
  bridge that returns drops a send in progress.
- `toRelay` and `fromRelay` are the program counters of the two futures, split at
  each await: read and then send, next frame and then `write_all`. `up` is the
  websocket's buffer, `got` minus `consumed` the local socket's; both are bounded,
  so every send and write may have to wait.
- `AcceptFails` is the `?` of `accept()`, which ends the process with all bridges.
- `UpPipe` and `DownPipe` are two instances of `BytePipe`. The abstract state is
  computed from the concrete one: what the local program wrote and the relay got,
  what the relay sent and the socket was given, and `Ok` of the bridge for the end.

The relay's side is as `Relay` leaves it: nothing follows an end
(`NoDataAfterClose`). Frames of other kinds are skipped by the code and left out;
pinning of a certificate is reduced to what it demands of the URL (`Dialable`).

### HostedAgent: how it corresponds to the code

- `pub` goes through `publish_agent_artifact` command by command. The digest is
  computed first, the binary read again by `scp` later, and `Rebuild` may change
  it in between. The activation is a shell on the host (`remote`) that goes on
  when the publisher's connection is lost: `mv` replaces a file in one step,
  `install` unlinks it, creates it empty and fills it, in two.
- `FetchScript` is `join_script`, `AskBin` and `AskSum` are `artifact_file` at the
  moment it reads the file, `GotBin` and `GotSum` the end of the download. The
  steps are those of both scripts; the Windows one has no retry (`Downloads` 1).
- Files are builds, torn or absent; a digest is named by its build.
- `alone` and `calm` are history: they record what the properties are conditional
  on and guard no action. `calm` says that the hosted pair has been a whole build
  with its own digest since the script asked for the binary (`Matching`).
- The script works in a directory named by the session code, so two runs for one code
  share it. `OwnWorkdir` says of a run that it is the only one of its code.

### RelayHost: how it corresponds to the code

- `step` goes through the commands of `plan_relay_systemd_deploy`. The four that
  prepare users and directories are one step (`Prepare`): nothing else reads what
  they make before the deploy is done. `install` and `tee` take two steps each.
- `loaded` is the unit as of the last `daemon-reload`, `unit` the file; `proc` is
  what the running process was started from, `phase` whether it serves.
- `Accepted` is what `rk` checks of a request, `ConfigOk` and `Startable` what
  `relaykitd` checks of itself, over the listen address, the URL, TLS and the token.
  `Runs` adds the one thing a start needs that neither checks: that the address can be
  bound. `bindable` is the set of addresses for which it can; a port that is privileged
  or another program's, or an address the host does not have, is outside it.
  `AddressesChange` changes it at any time; a relay that serves keeps its socket, and
  notices at its next start.
- systemd (`AutoRestart`, `Reboot`, an environment file that is missing) is
  modelled from the unit `rk` writes. `owner` and `quiet` are history.

### OperatorCli: how it corresponds to the code

- `pc` goes through `main` and `wait_for_agent`; a request is two steps, sent and
  answered by the relay, and a third when `rk` looks at the clock. `left` and
  `wake` are the deadline and the sleep in ticks. `Stops` is any `?` and any
  interruption.
- `config` is the file, `LoginOpens` its truncation and `LoginFills` the write.
- `session`, `used` and `agent` are the relay's entry of the session; restart,
  expiry and `end_session` by others happen at any time. Tunnel lists are
  sequences, for `validate_agent_exposes` looks at their order.
- `late`, `slow`, `there`, `lost`, `met`, `rejected` and `overlap` are history.

## Runs

| run | instance | shows |
| --- | --- | --- |
| `RelayJoin` | 1 session, 2 agents, 1 operator, a tunnel that is not allowed, capacity 1, all frames, expiry, fairness | one agent per code; a sender offered is served; the stream table is right; nothing after a close; who leaves is removed; the lifecycle is implemented |
| `RelayCross` | 2 sessions, 2 agents, 2 operators, capacity 1, data on any stream | OpenStream precedes traffic; frames on streams an agent was told of stay in their session |
| `AgentLive` | 2 streams, the second refused (`SecondIsRefused`), a target that is not exposed, capacity 1, three chunks each way, fairness | order; a close loses nothing and is last; closed streams end; a target's end is reported; an agent without its relay stops |
| `OperatorTunnel` | 1 bridge, 3 chunks each way, buffers of 1, fairness | each direction is a pipe; a bridge ends for a cause; the end of either side reaches the other |
| `HostedAgent` | 2 publishers (one without sudo), 1 joiner, 2 builds, 1 rebuild, 2 attempts per file, fairness | only a verified whole build runs; no false mismatch; a publication repairs; the script ends |
| `RelayHost` | 2 deployers (5 requests for the second), 3 environments, 1 crash, reboot, edit or publication, addresses that are taken and freed, fairness | `deployed` is true and lasts; accepted units start; `ok` is true |
| `OperatorCli` | 2 runs of `rk`, 1 login, 1 port, deadline 3, pause 2, fairness | waiting ends and is not mistaken; lost ports, unreadable config files and unusable join commands have the causes named |

Bounds. Two agents suffice for a race for a code, two operators for competition
for one channel and for one operator's fate affecting another, two sessions for
traffic that could cross. A channel of one place makes every send wait and every
`try_send` lossy, which the real 256 places do only under load. `MaxStreams` is
the number of operators, since each draws one id. In `RelayCross` agents stay, and
one thing goes wrong (`OneIncident`): an operator leaves, or an agent sends on another
session's stream; every departure is explored with one session. A chunk lost from a channel of one place shows as a gap only with a
third chunk, hence `MaxData` 3 in `AgentLive`; its second stream is there to be refused,
as without it the reading task's own send of an error cannot fail. With
data on several streams the safety properties are proved, for any number of them. One bridge is enough in `OperatorTunnel`,
as bridges share only the accept loop, and three chunks fill a buffer of one, a
future's hand and the source. In `HostedAgent` two publishers give every overlap of
two activations; `Workdir` gives each joiner a directory of its own. In
`RelayHost` the first deploy is a plain one without health check and the second
varies; one event (`MaxEvents`) falls at any moment of them, and a status check is
asked for while no deploy is under way, though one may begin during it. The addresses
change as often as they like, so that one can be lost before a crash, a reboot or the next
deploy; every address can be bound or none (`FreeOrTaken`). The certificate is one that
loads; one that does not is left to the proofs. `Wait` 3 and
`Poll` 2 make the last sleep shorter than a pause, and one login suffices for an
interruption (two writing at once is in the model and covered by the proof).

Symmetry is used only in `RelayCross`, whose properties name no connection. The
runs do not check deadlock: connections, commands and scripts are used once, so a
finished instance stops.

Five further runs, four of `Relay` and one of `AgentRuntime`, each refute one
statement that the repository makes or implies, and the counterexample is a
behaviour of the code (see "findings" in `PROJECT.json`):

| run | refuted | how |
| --- | --- | --- |
| `RelayBlame` | "agent disconnected" is said of agents that are gone | an operator leaves while the agent's task awaits its channel |
| `RelayRevoke` | ending a session reaches its agent | the notice is dropped on a full channel |
| `RelayExpiry` | an expired session's tunnels end | nothing acts on expiry |
| `RelayLoss` | operators learn that the agent is lost | notice dropped, or entry made after `clear_agent` |
| `AgentBrittle` | the agent's session ends with the relay's connection, not with one target | a write fails, the map keeps the sender, the next chunk's send leaves `run_join` by `?` |

`RelayRevoke`, `RelayExpiry` and `RelayLoss` are refuted under `FairSpec`, so not
because something simply stops.

Some properties are conditional because the code is, and the condition is the
observation worth having: `RunsOnlyPublished` fails for two runs of one code's
script in one directory, `PublishRepairs` for a binary rebuilt between digest and
copy, `DeployedIsRunning` for overlapping deploys, `AcceptedUnitsStart` names two
configurations, and any address that cannot be bound, that `rk` deploys and `relaykitd`
refuses, and `DeployEndures` ends where the address is lost. `TrafficStaysInSession` is of
agents that name ids they were told (`known`), and `NoDataAfterClose` fails for an operator
on whose stream an agent of another session sends (`strays`): its task may hold the
operator's sender across the close and use it later. `PortLostToAnother` and
`UnreadableOnlyByInterruption` say what the gap between check and use, and between
truncation and write, can cost, and `JoinCommandUsable` that a session with two
tunnels of one name is created and can never be joined.

### Fairness

tokio runs every task that is ready, hence weak fairness of every step a task
takes by itself. `mpsc::Sender::send` queues in a FIFO semaphore, so a sender
gets a place if places become free again and again, hence strong fairness of the
awaited sends. Nothing obliges a peer to send, to connect or to leave. A
connected peer leaves once it received the message after which `run_join` or
`bridge_operator_stream` returns, and reads what it is sent (`AgentPeersFair`,
`OperatorPeersFair`).

The last of these assumptions, and `TargetsRead` of `AgentRuntime`, are about
programs outside RelayKit, and the code depends on them more than it may seem:
the relay's agent task and the agent's reading task each await room in the
channel of one stream, so a local program that never drains its socket keeps
`DepartedAgentIsForgotten` and `LostRelayStopsAgent` from holding for the whole
session. Without the conjunct in `FairSpec`, TLC finds a counterexample to each.

In `AgentRuntime` a connect is answered (`MainConnect` or `MainConnectFails`), by
the operating system's timeout at the latest, and the next read of a target that
is gone sees that. The outbound sends have strong fairness for the reason above.
The send task's websocket write is assumed to complete or to fail. Nothing
obliges the relay or a target to send, close or leave.

In `OperatorTunnel` the tasks run and a handshake is answered; that the local
program reads, or that the relay does, is a premise of the one property that needs
it. In `HostedAgent` only the script goes on: with curl its downloads have `--max-time`,
with wget only a timeout for each read (`-T`), so there `JoinEnds` rests on a relay that
either goes on sending or stalls. In
`RelayHost` a process that is started gets to serving or to its error, and
`Restart=on-failure` acts: with `RestartSec=2s` systemd's limit of starts is not
reached. In `OperatorCli` time passes, `rk` goes on and the relay answers; `rk`'s
HTTP client has no timeout of its own, so `WaitingEnds` rests on that.

## Proofs

The constants are arbitrary, subject to the five named assumptions of `Relay`:
`None` is not a session or connection, the capacity is positive, the number of
stream ids is a natural number, frames are of known kinds, a session's allowance
is not empty (what `validate_allowed_tunnels` enforces).

`RelayProofs`: the invariants are not inductive by themselves. `IndInv` adds to
`TypeOK`

- `AgentTasks`: an agent past its hello has a session and that session, if it is
  still live, is consumed; no two agents have the same session; the frame and
  the operator a task is busy with match its place; a sender stored in a session
  is that of an agent serving it;
- `OperatorTasks`: an operator past its first check has a session, an id, the
  agent it talks to; a stream table entry leads to the operator with that
  session and id.

`NextInv` proves it kept by every action, one step per action; frame lemmas
(`StoreFrame`, `AgentFrameCondition`, `OperatorFrameCondition`) say what a group
of actions leaves alone, so that each part is proved only against the actions
that can disturb it. From it follow `RelayTypeCorrect`, `CodeIsSingleUse`,
`SlotIsServed`, `TablesAreConsistent`.

`RelayLifecycleProofs` adds `HistoryInv`: a live session that was registered for
is consumed, no two operators have the same stream id, and an operator was let in
only after the session's agent attached. With it every action is shown to be a
step of `SessionLifecycle` or a stutter (`StoreRefines`, `AgentRefines`,
`OperatorRefines`), giving `RelayImplementsLifecycle`.

`AgentRuntimeProofs` assumes `NoneNoStream`, `ExposedKnown`, `CapacityPositive`
and `MaxDataNat`, the four assumptions of `AgentRuntime`. Its `IndInv` adds to
`TypeOK`:

- `MainTask`: a stream being opened has no tasks yet and no data; a stream being
  delivered to is mapped, and exactly one chunk ahead of what was accepted;
- `Lifetimes`: a stream has its tasks, its target and, while mapped, its entry
  from `MainConnect` on, and empty channels without a running write task;
- `Numbered`: the chunks queued continue those written without a gap, and while
  the write task runs both together are what was accepted, which makes
  `DataInOrder` and `CloseLosesNothing` inductive;
- `Counted`: while a stream is mapped, every chunk is accepted before the next is
  read;
- `CloseIsFromDone`: a `StreamClose` in the outbound channel or with the relay
  is that of a finished read task, which makes `NothingAfterClose` inductive.

One lemma per conjunct, one step per action. It yields `AgentTypeCorrect`,
`DataArrivesInOrder`, `ClosingLosesNothing` and `CloseIsLast`.

`RelayTrafficProofs` is about what the channels hold, which `IndInv` and `HistoryInv`
leave open. It takes each channel as the set of its messages (`Held`, with one lemma
each for an awaited send, a `try_send` and a receive) and says for each channel what a
step can do to it (`AgentChannelMoves`, `OperatorChannelMoves`). On top of `FullInv`:

- `TrafficInv`: every stream id in an agent's channel or known to an agent is that of an
  operator of the agent's session; everything in an operator's channel carries the
  operator's own id; the operator a frame goes to has the frame's id and is of the
  agent's session or in `strays`. `send_to_operator` looks an id up in every session, so
  that an id the agent knows leads to its own session rests on ids being unique
  (`HistoryInv`). It gives `TrafficIsApart`.
- `OpenInv`: as long as the agent's channel and connection live, an operator past
  `OpenStream` has it in the channel or the agent has read it. It gives
  `StreamsAreAnnounced`.
- `CloseInv`: for an operator outside `strays`, once a close of the agent is in its
  channel, or an error while the agent is attached, no task is about to send data to this operator and no entry
  leads to it, save the one that the task handling that very frame is about to
  remove. It gives `NothingAfterTheEnd`, and needs that a session has one agent only.

`OperatorCliProofs` takes any numbers of runs, logins, ports and lists of tunnels, any
wait and any pause, under the six assumptions of `OperatorCli`: commands and ports are
of their types, tokens are distinct from what a file without one holds (`NotTokens`), an absent file
is neither an empty nor a torn one (`FileThere`), the wait and the pause are positive.
Its `IndInv` adds to `TypeOK`:

- `TimersOfSleepers`: only a run that sleeps has a timer;
- `FileOfLogin`: while one login alone has the file open it is empty, and two that
  have it open have overlapped;
- `PortOfRun`: a run that waits or binds has a tunnel, and if its address is taken it
  was taken from it after the check;
- `AgentHasEntry`, `Heard`: an agent at the relay has an entry, and what a run has heard
  of its agent was so;
- `Look`: an answer on its way to a run says where the agent was when the relay gave
  it, and with no time left the deadline's own look is among them.

`JoinCommandUsable` follows from `DistinctIsUsable`: the scan of
`validate_agent_exposes` finds a repeated name exactly when there is one.

`OperatorTunnelProofs` takes any number of bridges, chunks and any capacities, under the
four assumptions of `OperatorTunnel`. The refinement mapping needs to know what is under
way between the two ends, so `IndInv` adds to `TypeOK`, of every bridge:

- `Fresh`: before its websocket is up it has read, sent and been told nothing;
- `InFlight`: the frames in the websocket continue, without a gap, the chunks the relay
  has received, and `StreamClose` is the last of them and follows every chunk read;
- `Upward`: while the connection stands, received and in flight together are what was
  read, less the chunk in `to_relay`'s hand; it is past `reading` for good only after the
  local program's end and with everything read;
- `Said`: the relay's end is its last frame and the frames before it are numbered;
- `Downward`: what is written is what was read of them, less the one in `from_relay`'s
  hand, and a bridge that returned `Ok` has written all that was given.

`OthersSame` and `SameInv` reduce a step to the bridge that takes it; `ContinuesRead`,
`ContinuesData`, `ContinuesClose` and `ContinuesHead` say what each operation on the
websocket's queue does to `InFlight`. `UpImplementsPipe` maps a write of the local program
to `Give`, its first shutdown or reset to `End`, and the relay's reads to `Deliver` and
`Finish`; `DownImplementsPipe` maps the relay's frames, `WriteLocal` and the `ReadClose`
that returns `Ok`. `EndsOnlyForACause` is the action property: of every step after which a
bridge is no longer polled.

`HostedAgentProofs` takes any numbers of publishers, with and without sudo, of joiners,
builds, rebuilds and attempts, and any assignment of directories, under the five
assumptions of `HostedAgent`: the three kinds of contents are told apart, and there is at
least one attempt. Its `IndInv` adds to `TypeOK`:

- `Digests`: every checksum on a publisher's stage, on the host or with a joiner was
  computed by some publisher;
- `Staged`: what an activation moves into place was copied whole before it began;
- `Undisturbed`: an activation that is alone finds the host as its previous command left it;
- `Verified`: between the comparison and the execution the file is what was compared;
- `Calm`: a joiner under whom the hosted pair has matched throughout holds parts of that pair.

`Verified` and `Calm` are of joiners that share no directory, as are `RunsOnlyPublished`
and `NoFalseMismatch`: for two runs of one code both fail. `Matching` asks for a whole
build: with a torn binary beside a torn checksum, which two `install`s that overlap can
leave, a script may see a mismatch though the two are equal. `PublishingRepairs` needs only
`Staged` and `Undisturbed`.

`RelayHostProofs` takes any deployers, any requests `rk` can be given, any set of
environments, certificates and addresses that can be bound, and any number of crashes,
reboots, edits and changes, under the six assumptions of `RelayHost`: its parameters are
typed, the contents of files are told apart, and no running process is `None` (`NoProcess`). Its `IndInv` adds to `TypeOK`:

- `OwnerAlone`: `owner` is a deploy beside which no other is under way;
- `OwnerFinds`: what each command of the owner has achieved stands: the binary and the unit
  on the disk (`Disk`), what systemd has loaded, enabled and started (`Systemd`), and
  after the health probe a configuration `relaykitd` accepts (`Starts`);
- `UnitsAccepted`: every unit on the disk, loaded or running has passed `rk`'s checks;
- `PhaseOfConfig`: a process that serves is whole and has a configuration it accepts;
- `SeenServing`: on a host that is quiet, what a status check has seen still is so.

It gives `DeploysRun` and `StatusIsTrue`; `UnitsStart`, an action property of the one step
that refuses (`Boot`); and `DeploysHold`: once a deploy has been probed, the disk, systemd and
the configuration are what the next start needs and the service is never stopped for good,
so that only the address can be missing. That is the part of `DeployEndures` that is
safety; that the relay then does get to serving is systemd's fairness.

Only model-checked: the ten liveness properties (`DepartedAgentIsForgotten`,
`DepartedOperatorIsForgotten`, `ClosedStreamEnds`, `GoneTargetIsReported`,
`LostRelayStopsAgent`, `RelayEndEndsBridge`, `LocalEofReachesRelay`, `JoinEnds`,
`DeployEndures`, `WaitingEnds`), as liveness under fairness is out of the prover's reach,
and the five refutations. Every invariant, action property and refinement of the passing
runs is a theorem.

## Not modelled

TLS handshakes, certificate pinning and PEM parsing, the TLS accept loop, script
and unit file text, argument parsing, audit lines and printing, platform detection:
formatting and I/O without state of their own. `validate_*` functions over names,
paths and programs are reduced to what passes them. Relay, agent and tunnel are not
checked as one instance: the product is out of TLC's reach, and each is checked
against the most general behaviour of the others instead; so a `StreamClose` lost on
the way to the agent is seen in `Relay` only. In `OperatorCli` only other runs of `rk`
take ports; in `RelayHost` and `HostedAgent` a command whose connection is lost has its
effect then or never, except the activation of a published binary, which goes on.
