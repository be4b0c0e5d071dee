---------------------------- MODULE AgentRuntimeMC ----------------------------
(* Small instances of AgentRuntime for TLC.                                *)
EXTENDS AgentRuntime

CONSTANTS i1, i2, t1, t2

OneStream  == {i1}
TwoStreams == {i1, i2}
\* The session allows t2, but this agent does not expose it
AllTargets == {t1, t2}
ExposedT1  == {t1}

\* Bound of the instance with two streams: the second one is refused, if it is
\* opened at all, and the relay sends nothing more on it
SecondIsRefused ==
    /\ main' = "connecting" => cur' # i2
    /\ sent'[i2] = 0
    /\ i2 \notin closed'
=============================================================================
