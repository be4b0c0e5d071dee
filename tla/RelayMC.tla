------------------------------- MODULE RelayMC -------------------------------
(* Small instances of Relay for TLC.                                       *)
EXTENDS RelayRefinement, FiniteSets, TLC

CONSTANTS s1, s2, a1, a2, o1, o2, t1, t2

OneSession  == {s1}
TwoSessions == {s1, s2}
OneAgent    == {a1}
TwoAgents   == {a1, a2}
OneOperator == {o1}
TwoOperators == {o1, o2}
\* t2 is in no session's allowance: operators and agents may still name it
TwoTargets  == {t1, t2}
OneTarget   == {t1}
NoSession   == {}
AllowT1     == [s \in Sessions |-> {t1}]

DataOnly     == {"StreamData"}
AllFrames    == StreamKinds

\* Connections of one kind are interchangeable: no property names one
Connections == Permutations(Agents) \cup Permutations(Operators)
SessionsToo == Connections \cup Permutations(Sessions)

\* Bound of the instance with two sessions: one operator leaves, or is sent
\* frames by an agent of the other session.  The instance with one session
\* explores every departure
OneIncident ==
    /\ \A a \in Agents : apeer[a] # "gone"
    /\ Cardinality({o \in Operators : opeer[o] = "gone"}) + Cardinality(strays) <= 1
=============================================================================
