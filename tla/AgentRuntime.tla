----------------------------- MODULE AgentRuntime -----------------------------
(***************************************************************************)
(* The agent on the assisted machine (crates/relaykit-agent, run_join and  *)
(* open_local_stream): one task reads the relay's websocket and owns the   *)
(* map of streams; each local connection has a task that writes to the     *)
(* target and one that reads from it; all of them send to the relay        *)
(* through one bounded channel that the send task drains.                  *)
(*                                                                         *)
(* The relay opens every stream id once (Relay: StreamTableConsistent).    *)
(* The chunks of data the relay sends on a stream are numbered.            *)
(***************************************************************************)
EXTENDS Integers, Sequences

CONSTANTS
    Streams,   \* stream ids
    Targets,   \* names of tunnels the relay may ask for
    Exposed,   \* those in expose_map
    Capacity,  \* AGENT_CHANNEL_CAPACITY
    MaxData,   \* bound: data frames per stream and direction
    None

ASSUME NoneNoStream     == None \notin Streams
ASSUME ExposedKnown     == Exposed \subseteq Targets
ASSUME CapacityPositive == Capacity \in Nat \ {0}
ASSUME MaxDataNat       == MaxData \in Nat

Kinds == {"StreamData", "StreamClose", "StreamError"}
Msg(kind, id) == [kind |-> kind, stream |-> id]
Hello    == Msg("AgentHello", None)
Messages == [kind : Kinds, stream : Streams] \cup {Hello}
Chunks   == 1 .. MaxData

VARIABLES
    main,      \* the task of run_join: where it is
    cur,       \*   the stream it is busy with
    mapped,    \* the keys of streams, the map of senders
    toTcp,     \* toTcp[id]: the channel behind the map's entry
    writer,    \* the task that drains it to the target
    reader,    \* the task that reads the target
    outq,      \* the outbound channel
    sending,   \* the send task runs: it holds the outbound receiver
    link,      \* the websocket: up, or down
    errored,   \* the relay has sent Error
    target,    \* the target's end of the local connection
    opened,    \* streams the relay has opened
    sent,      \* number of data frames the relay has sent
    accepted,  \* number of them put into toTcp
    closed,    \* streams the relay has closed
    written,   \* the chunks written to the target
    taken,     \* number of reads from the target
    heard      \* kinds of the frames the relay has received, and of Hello

mainVars  == <<main, cur>>
localVars == <<mapped, toTcp, writer, written>>
outVars   == <<outq, sending, heard>>
linkVars  == <<link, errored>>
relayVars == <<opened, sent, closed>>
vars == <<mainVars, localVars, reader, target, accepted, taken, outVars,
          linkVars, relayVars>>

\* "connecting" and "delivering" are awaits inside the reading task
MainPc   == {"reading", "connecting", "reporting", "delivering", "ended", "exited"}
WriterPc == {"none", "running", "done"}
ReaderPc == {"none", "reading", "data", "error", "close", "done"}

Init ==
    /\ main = "reading" /\ cur = None
    /\ mapped = {}
    /\ toTcp = [id \in Streams |-> <<>>]
    /\ writer = [id \in Streams |-> "none"]
    /\ reader = [id \in Streams |-> "none"]
    /\ outq = <<Hello>> /\ sending = TRUE
    /\ link = "up" /\ errored = FALSE
    /\ target = [id \in Streams |-> "none"]
    /\ opened = {} /\ closed = {}
    /\ sent = [id \in Streams |-> 0]
    /\ accepted = [id \in Streams |-> 0]
    /\ written = [id \in Streams |-> <<>>]
    /\ taken = [id \in Streams |-> 0]
    /\ heard = [id \in Streams \cup {None} |-> <<>>]

\* Mutant: an unbounded channel
OutAnyRoom == sending

\* outbound_tx.send(..).await finds room
OutRoom == sending /\ Len(outq) < Capacity

-----------------------------------------------------------------------------
(* The reading task.  A frame arrives while the websocket is up, once the  *)
(* relay has been sent the hello.                                          *)

Reads == main = "reading" /\ link = "up" /\ heard[None] # <<>>

\* OpenStream: a target that is not exposed is answered with StreamError
MainOpen(id, name) ==
    /\ Reads
    /\ id \notin opened
    /\ opened' = opened \cup {id}
    /\ cur' = id
    /\ main' = IF name \in Exposed THEN "connecting" ELSE "reporting"
    /\ UNCHANGED <<localVars, reader, target, accepted, taken, outVars, linkVars>>
    /\ UNCHANGED <<sent, closed>>

\* open_local_stream: TcpStream::connect answers; the entry is made and both
\* tasks are spawned before the next await
MainConnect ==
    /\ main = "connecting"
    /\ mapped' = mapped \cup {cur}
    /\ writer' = [writer EXCEPT ![cur] = "running"]
    /\ reader' = [reader EXCEPT ![cur] = "reading"]
    /\ target' = [target EXCEPT ![cur] = "up"]
    /\ main' = "reading"
    /\ cur' = None
    /\ UNCHANGED <<toTcp, written, accepted, taken, outVars, linkVars, relayVars>>

MainConnectFails ==
    /\ main = "connecting"
    /\ main' = "reporting"
    /\ UNCHANGED <<cur, localVars, reader, target, accepted, taken, outVars>>
    /\ UNCHANGED <<linkVars, relayVars>>

\* outbound_tx.send(StreamError).await finds room
MainReport ==
    /\ main = "reporting"
    /\ OutRoom
    /\ outq' = Append(outq, Msg("StreamError", cur))
    /\ main' = "reading"
    /\ cur' = None
    /\ UNCHANGED <<localVars, reader, target, accepted, taken, sending, heard>>
    /\ UNCHANGED <<linkVars, relayVars>>

\* Every way out of the loop: streams.clear(), send_task.abort()
Leave ==
    /\ main' = "ended"
    /\ cur' = None
    /\ mapped' = {}
    /\ UNCHANGED <<toTcp, writer, written, reader, target, accepted, taken>>
    /\ UNCHANGED <<outVars, relayVars>>

MainReportFails ==
    /\ main = "reporting"
    /\ ~sending
    /\ Leave
    /\ UNCHANGED linkVars

\* StreamData for a stream in the map; the sender is cloned
MainData(id) ==
    /\ Reads
    /\ id \in opened /\ sent[id] < MaxData
    /\ sent' = [sent EXCEPT ![id] = @ + 1]
    /\ IF id \in mapped THEN main' = "delivering" /\ cur' = id
                        ELSE UNCHANGED mainVars
    /\ UNCHANGED <<localVars, reader, target, accepted, taken, outVars, linkVars>>
    /\ UNCHANGED <<opened, closed>>

\* Mutant: the chunk is offered with try_send
MainDeliverOffered ==
    /\ main = "delivering"
    /\ writer[cur] = "running"
    /\ IF Len(toTcp[cur]) < Capacity
         THEN /\ toTcp' = [toTcp EXCEPT ![cur] = Append(@, sent[cur])]
              /\ accepted' = [accepted EXCEPT ![cur] = @ + 1]
         ELSE UNCHANGED <<toTcp, accepted>>
    /\ main' = "reading"
    /\ cur' = None
    /\ UNCHANGED <<mapped, writer, written, reader, target, taken, outVars>>
    /\ UNCHANGED <<linkVars, relayVars>>

\* stream.send(bytes).await finds room
MainDeliver ==
    /\ main = "delivering"
    /\ writer[cur] = "running"
    /\ Len(toTcp[cur]) < Capacity
    /\ toTcp' = [toTcp EXCEPT ![cur] = Append(@, sent[cur])]
    /\ accepted' = [accepted EXCEPT ![cur] = @ + 1]
    /\ main' = "reading"
    /\ cur' = None
    /\ UNCHANGED <<mapped, writer, written, reader, target, taken, outVars>>
    /\ UNCHANGED <<linkVars, relayVars>>

\* ... or the write task is gone, with its receiver: `?` leaves the loop
MainDeliverFails ==
    /\ main = "delivering"
    /\ writer[cur] = "done"
    /\ Leave
    /\ UNCHANGED linkVars

\* Mutant: StreamError is read and the entry kept
MainCloseKeeps(id) ==
    /\ Reads
    /\ id \in opened
    /\ closed' = closed \cup {id}
    /\ UNCHANGED <<mainVars, localVars, reader, target, accepted>>
    /\ UNCHANGED <<taken, outVars, linkVars, opened, sent>>

\* StreamClose or StreamError
MainClose(id) ==
    /\ Reads
    /\ id \in opened
    /\ mapped' = mapped \ {id}
    /\ closed' = closed \cup {id}
    /\ UNCHANGED <<mainVars, toTcp, writer, written, reader, target, accepted>>
    /\ UNCHANGED <<taken, outVars, linkVars, opened, sent>>

MainError ==
    /\ Reads
    /\ Leave
    /\ errored' = TRUE
    /\ UNCHANGED link

\* ws_reader.next() yields an error or None
MainLinkEnds ==
    /\ main = "reading"
    /\ link = "down"
    /\ Leave
    /\ UNCHANGED linkVars

\* Mutant: the tasks of the local connections are joined first
ExitJoining ==
    /\ main = "ended"
    /\ \A id \in Streams : reader[id] \in {"none", "done"}
    /\ main' = "exited"
    /\ UNCHANGED <<cur, localVars, reader, target, accepted, taken, outVars>>
    /\ UNCHANGED <<linkVars, relayVars>>

\* run_join has returned and main of relaykit-agent returns: the runtime drops
\* every task
Exit ==
    /\ main = "ended"
    /\ main' = "exited"
    /\ sending' = FALSE
    /\ outq' = <<>>
    /\ toTcp' = [id \in Streams |-> <<>>]
    /\ writer' = [id \in Streams |-> IF writer[id] = "none" THEN "none" ELSE "done"]
    /\ reader' = [id \in Streams |-> IF reader[id] = "none" THEN "none" ELSE "done"]
    /\ UNCHANGED <<cur, mapped, written, target, accepted, taken, heard>>
    /\ UNCHANGED <<linkVars, relayVars>>

-----------------------------------------------------------------------------
(* The send task.                                                          *)

SendTaskSends ==
    /\ sending
    /\ outq # <<>>
    /\ outq' = Tail(outq)
    /\ LET m == Head(outq) IN
         heard' = IF link = "up" THEN [heard EXCEPT ![m.stream] = Append(@, m.kind)]
                                 ELSE heard
    /\ UNCHANGED <<mainVars, localVars, reader, target, accepted, taken, sending>>
    /\ UNCHANGED <<linkVars, relayVars>>

\* A write to a lost websocket fails, or the abort takes effect
SendTaskStops ==
    /\ sending
    /\ (link = "down" /\ outq # <<>>) \/ main = "ended"
    /\ sending' = FALSE
    /\ outq' = <<>>
    /\ UNCHANGED <<mainVars, localVars, reader, target, accepted, taken, heard>>
    /\ UNCHANGED <<linkVars, relayVars>>

-----------------------------------------------------------------------------
(* The write task of a local connection.                                   *)

WriterWrites(id) ==
    /\ writer[id] = "running"
    /\ toTcp[id] # <<>>
    /\ target[id] = "up"
    /\ written' = [written EXCEPT ![id] = Append(@, Head(toTcp[id]))]
    /\ toTcp' = [toTcp EXCEPT ![id] = Tail(@)]
    /\ UNCHANGED <<mainVars, mapped, writer, reader, target, accepted, taken>>
    /\ UNCHANGED <<outVars, linkVars, relayVars>>

\* writer.write_all(..).await? : the receiver is dropped, the map's entry stays
WriterFails(id) ==
    /\ writer[id] = "running"
    /\ toTcp[id] # <<>>
    /\ target[id] = "gone"
    /\ writer' = [writer EXCEPT ![id] = "done"]
    /\ toTcp' = [toTcp EXCEPT ![id] = <<>>]
    /\ UNCHANGED <<mainVars, mapped, written, reader, target, accepted, taken>>
    /\ UNCHANGED <<outVars, linkVars, relayVars>>

\* Mutant: a close ends the task at once
WriterEndsEarly(id) ==
    /\ writer[id] = "running"
    /\ id \notin mapped
    /\ writer' = [writer EXCEPT ![id] = "done"]
    /\ toTcp' = [toTcp EXCEPT ![id] = <<>>]
    /\ UNCHANGED <<mainVars, mapped, written, reader, target, accepted, taken>>
    /\ UNCHANGED <<outVars, linkVars, relayVars>>

\* recv() yields None: the entry, the only sender, is gone and the channel is
\* drained; writer.shutdown() follows
WriterEnds(id) ==
    /\ writer[id] = "running"
    /\ id \notin mapped
    /\ toTcp[id] = <<>>
    /\ writer' = [writer EXCEPT ![id] = "done"]
    /\ UNCHANGED <<mainVars, mapped, toTcp, written, reader, target, accepted>>
    /\ UNCHANGED <<taken, outVars, linkVars, relayVars>>

-----------------------------------------------------------------------------
(* The read task of a local connection.                                    *)

ReaderGoes(id, from, to) ==
    /\ reader[id] = from
    /\ reader' = [reader EXCEPT ![id] = to]
    /\ UNCHANGED <<mainVars, localVars, target, accepted, linkVars, relayVars>>

\* What a target wrote before it went can still be read
ReaderReads(id) ==
    /\ taken[id] < MaxData
    /\ taken' = [taken EXCEPT ![id] = @ + 1]
    /\ ReaderGoes(id, "reading", "data")
    /\ UNCHANGED outVars

\* Ok(0): the target has shut down its side, and may still read
ReaderEof(id) ==
    /\ ReaderGoes(id, "reading", "close")
    /\ UNCHANGED <<taken, outVars>>

ReaderError(id) ==
    /\ target[id] = "gone"
    /\ ReaderGoes(id, "reading", "error")
    /\ UNCHANGED <<taken, outVars>>

\* Mutants: the loop is not left after Ok(0); a read error returns at once
AfterFrameGoesOn  == [data |-> "reading", error |-> "close", close |-> "reading"]
AfterFrameReturns == [data |-> "reading", error |-> "done", close |-> "done"]

\* What follows a frame that was sent: the loop, the close after an error, the
\* end of the task
AfterFrame == [data |-> "reading", error |-> "close", close |-> "done"]
FrameKind  == [data |-> "StreamData", error |-> "StreamError", close |-> "StreamClose"]

ReaderSends(id) ==
    /\ reader[id] \in DOMAIN FrameKind
    /\ OutRoom
    /\ outq' = Append(outq, Msg(FrameKind[reader[id]], id))
    /\ ReaderGoes(id, reader[id], AfterFrame[reader[id]])
    /\ UNCHANGED <<taken, sending, heard>>

\* The outbound receiver is gone: the close is still tried
ReaderSendFails(id) ==
    /\ reader[id] \in DOMAIN FrameKind
    /\ ~sending
    /\ ReaderGoes(id, reader[id], IF reader[id] = "close" THEN "done" ELSE "close")
    /\ UNCHANGED <<taken, outVars>>

-----------------------------------------------------------------------------
(* Environment.                                                            *)

\* The target exits or resets the connection
TargetGoes(id) ==
    /\ target[id] = "up"
    /\ target' = [target EXCEPT ![id] = "gone"]
    /\ UNCHANGED <<mainVars, localVars, reader, accepted, taken, outVars>>
    /\ UNCHANGED <<linkVars, relayVars>>

LinkDrops ==
    /\ link = "up"
    /\ main # "exited"
    /\ link' = "down"
    /\ UNCHANGED <<mainVars, localVars, reader, target, accepted, taken, outVars>>
    /\ UNCHANGED <<errored, relayVars>>

MainNext ==
    \/ \E id \in Streams : \/ \E name \in Targets : MainOpen(id, name)
                           \/ MainData(id) \/ MainClose(id)
    \/ MainConnect \/ MainConnectFails \/ MainReport \/ MainReportFails
    \/ MainDeliver \/ MainDeliverFails \/ MainError \/ MainLinkEnds \/ Exit

ConnectionNext ==
    \E id \in Streams :
        \/ WriterWrites(id) \/ WriterFails(id) \/ WriterEnds(id)
        \/ ReaderReads(id) \/ ReaderEof(id) \/ ReaderError(id)
        \/ ReaderSends(id) \/ ReaderSendFails(id) \/ TargetGoes(id)

Next == MainNext \/ ConnectionNext \/ SendTaskSends \/ SendTaskStops \/ LinkDrops

Spec == Init /\ [][Next]_vars

(* Fairness.  tokio runs every task that can run; senders queue for the     *)
(* outbound channel, hence SF.  A connect is answered, by the system's own  *)
(* timeout at the latest, and a target that is gone is seen by the next     *)
(* read.  Nothing obliges the relay or a target to send, close or leave.    *)
ConnectionFair(id) ==
    /\ WF_vars(WriterFails(id)) /\ WF_vars(WriterEnds(id))
    /\ WF_vars(target[id] = "gone" /\ (ReaderEof(id) \/ ReaderError(id)))
    /\ SF_vars(ReaderSends(id)) /\ WF_vars(ReaderSendFails(id))

TasksFair ==
    /\ WF_vars(MainConnect \/ MainConnectFails)
    /\ SF_vars(MainReport) /\ WF_vars(MainReportFails)
    /\ WF_vars(MainDeliver) /\ WF_vars(MainDeliverFails)
    /\ WF_vars(MainLinkEnds) /\ WF_vars(Exit)
    /\ WF_vars(SendTaskSends) /\ WF_vars(SendTaskStops)
    /\ \A id \in Streams : ConnectionFair(id)

\* Targets that stay connected read what they are sent
TargetsRead == \A id \in Streams : WF_vars(WriterWrites(id))

FairSpec == Spec /\ TasksFair /\ TargetsRead

-----------------------------------------------------------------------------
PlacesOK ==
    /\ main \in MainPc /\ cur \in Streams \cup {None}
    /\ mapped \subseteq Streams
    /\ writer \in [Streams -> WriterPc]
    /\ reader \in [Streams -> ReaderPc]
    /\ sending \in BOOLEAN
    /\ link \in {"up", "down"} /\ errored \in BOOLEAN
    /\ target \in [Streams -> {"none", "up", "gone"}]
    /\ opened \subseteq Streams /\ closed \subseteq opened

CountsOK ==
    /\ sent \in [Streams -> 0 .. MaxData]
    /\ accepted \in [Streams -> 0 .. MaxData]
    /\ taken \in [Streams -> 0 .. MaxData]

\* Both kinds of channel hold at most AGENT_CHANNEL_CAPACITY messages
QueuesOK ==
    /\ toTcp \in [Streams -> Seq(Chunks)]
    /\ \A id \in Streams : Len(toTcp[id]) <= Capacity
    /\ written \in [Streams -> Seq(Chunks)]
    /\ outq \in Seq(Messages) /\ Len(outq) <= Capacity
    /\ heard \in [Streams \cup {None} -> Seq(Kinds \cup {"AgentHello"})]

TypeOK == PlacesOK /\ CountsOK /\ QueuesOK

\* What a target is given is what the relay sent on its stream, in order and
\* without a gap, wherever it stops.
DataInOrder ==
    \A id \in Streams : \A i \in DOMAIN written[id] : written[id][i] = i

\* A write task that ends while its target is still connected has written all
\* that the relay sent before it closed the stream (or the session).
CloseLosesNothing ==
    \A id \in Streams :
        writer[id] = "done" /\ target[id] = "up" /\ main # "exited" =>
            Len(written[id]) = accepted[id]

\* Position i of a message queue is the last that speaks of its stream
LastOfStream(q, i) == \A j \in DOMAIN q : q[j].stream = q[i].stream => j <= i

\* A stream's StreamClose is the last the relay hears of it: it comes from one
\* task, after that task's data, and the reading task answers only streams it
\* could not open.
NothingAfterClose ==
    /\ \A i \in DOMAIN outq : outq[i].kind = "StreamClose" => LastOfStream(outq, i)
    /\ \A id \in Streams : \A i \in DOMAIN heard[id] :
          heard[id][i] = "StreamClose" =>
              /\ i = Len(heard[id])
              /\ \A j \in DOMAIN outq : outq[j].stream # id

\* The write half of a stream the relay has closed is shut down.
ClosedStreamEnds ==
    \A id \in Streams : id \in closed ~> writer[id] # "running"

\* The relay learns that a target has gone, while it is there to learn it.
GoneTargetIsReported ==
    \A id \in Streams :
        target[id] = "gone" ~>
            \/ "StreamClose" \in {heard[id][i] : i \in DOMAIN heard[id]}
            \/ link = "down" \/ main \in {"ended", "exited"}

\* An agent whose relay is lost stops.
LostRelayStopsAgent == link = "down" ~> main = "exited"

-----------------------------------------------------------------------------
(* What the repository says of the agent and the code does not do.         *)

\* The session lasts until the relay ends it or the connection is lost: what
\* happens to one local target does not end it.
EndsOnlyWithRelay == main = "ended" => errored \/ link = "down"
=============================================================================
