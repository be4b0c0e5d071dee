--------------------------- MODULE RelayRefinement ---------------------------
(* Relay implements SessionLifecycle.                                      *)
EXTENDS Relay

Phase(s) ==
    IF status[s] # "live" THEN status[s]
    ELSE IF slot[s] # None THEN "attached"
    ELSE IF ~consumed[s] THEN "waiting"
    ELSE IF \E a \in Agents : asess[a] = s /\ apc[a] = "registered" THEN "claimed"
    ELSE "vacant"

Owner(s) ==
    IF \E a \in Agents : asess[a] = s
      THEN CHOOSE a \in Agents : asess[a] = s ELSE None

Lifecycle == INSTANCE SessionLifecycle WITH
    phase   <- [s \in Sessions |-> Phase(s)],
    expired <- expired,
    owner   <- [s \in Sessions |-> Owner(s)],
    granted <- [s \in Sessions |-> {o \in Operators : osess[o] = s}],
    routed  <- [s \in Sessions |-> OperatorsOf(streams[s])]

\* Every step of the relay's tasks is a step of the session's lifecycle or
\* leaves it unchanged: in particular a lost agent is never replaced, a code is
\* not accepted twice, and only operators let in while the agent was attached
\* and the session unexpired ever get an entry in its stream table.
LifecycleSpec == Lifecycle!Spec
=============================================================================
