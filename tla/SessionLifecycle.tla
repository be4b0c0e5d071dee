--------------------------- MODULE SessionLifecycle ---------------------------
(***************************************************************************)
(* What the relay promises about one session, without tasks, channels or   *)
(* wire frames: a session waits for the one agent its code admits, operators*)
(* get their tunnels while that agent is attached, and neither the code nor *)
(* the agent's place is given out a second time.                            *)
(*                                                                         *)
(*   absent -> waiting -> claimed -> attached -> vacant                     *)
(*                \__________\__________\__________\____ -> ended           *)
(*                                                                         *)
(* Relay implements it: RelayRefinement.                                    *)
(***************************************************************************)
CONSTANTS Sessions, Agents, Operators, None

VARIABLES
    phase,    \* where each session is
    expired,  \* its code and its tunnels may no longer be asked for
    owner,    \* the agent connection its code admitted
    granted,  \* the operators that were let in
    routed    \* those among them that the agent's data may reach

vars == <<phase, expired, owner, granted, routed>>

Live == {"waiting", "claimed", "attached", "vacant"}

Init ==
    /\ phase = [s \in Sessions |-> "absent"]
    /\ expired = [s \in Sessions |-> FALSE]
    /\ owner = [s \in Sessions |-> None]
    /\ granted = [s \in Sessions |-> {}]
    /\ routed = [s \in Sessions |-> {}]

Create(s) ==
    /\ phase[s] = "absent"
    /\ phase' = [phase EXCEPT ![s] = "waiting"]
    /\ UNCHANGED <<expired, owner, granted, routed>>

Lapse(s) ==
    /\ phase[s] \in Live
    /\ expired' = [expired EXCEPT ![s] = TRUE]
    /\ UNCHANGED <<phase, owner, granted, routed>>

\* One agent per session and one session per agent
Claim(s, a) ==
    /\ phase[s] = "waiting"
    /\ ~expired[s]
    /\ \A other \in Sessions : owner[other] # a
    /\ phase' = [phase EXCEPT ![s] = "claimed"]
    /\ owner' = [owner EXCEPT ![s] = a]
    /\ UNCHANGED <<expired, granted, routed>>

Attach(s) ==
    /\ phase[s] = "claimed"
    /\ phase' = [phase EXCEPT ![s] = "attached"]
    /\ UNCHANGED <<expired, owner, granted, routed>>

\* The agent's departure cuts every tunnel
Leave(s) ==
    /\ phase[s] = "attached"
    /\ phase' = [phase EXCEPT ![s] = "vacant"]
    /\ routed' = [routed EXCEPT ![s] = {}]
    /\ UNCHANGED <<expired, owner, granted>>

End(s) ==
    /\ phase[s] \in Live
    /\ phase' = [phase EXCEPT ![s] = "ended"]
    /\ expired' = [expired EXCEPT ![s] = FALSE]
    /\ routed' = [routed EXCEPT ![s] = {}]
    /\ UNCHANGED <<owner, granted>>

Grant(s, o) ==
    /\ phase[s] = "attached"
    /\ ~expired[s]
    /\ \A other \in Sessions : o \notin granted[other]
    /\ granted' = [granted EXCEPT ![s] = @ \cup {o}]
    /\ UNCHANGED <<phase, expired, owner, routed>>

\* Possibly after the agent has left, or the session has expired
Route(s, o) ==
    /\ phase[s] \in {"attached", "vacant"}
    /\ o \in granted[s]
    /\ routed' = [routed EXCEPT ![s] = @ \cup {o}]
    /\ UNCHANGED <<phase, expired, owner, granted>>

Unroute(s, o) ==
    /\ routed' = [routed EXCEPT ![s] = @ \ {o}]
    /\ UNCHANGED <<phase, expired, owner, granted>>

Next ==
    \E s \in Sessions :
        \/ Create(s) \/ Lapse(s) \/ Attach(s) \/ Leave(s) \/ End(s)
        \/ \E a \in Agents : Claim(s, a)
        \/ \E o \in Operators : Grant(s, o) \/ Route(s, o) \/ Unroute(s, o)

Spec == Init /\ [][Next]_vars
=============================================================================
