----------------------------- MODULE HostedAgentMC -----------------------------
(* A small instance of HostedAgent for TLC.                                *)
EXTENDS HostedAgent

CONSTANTS p1, p2, j1, w1, v1, v2

BothPublishers == {p1, p2}
OneWithoutSudo == {p2}
OneJoiner      == {j1}
TwoBuilds      == {v1, v2}
OneWorkdir     == {w1}
WorkdirOfJoiner == [j \in OneJoiner |-> w1]
=============================================================================
