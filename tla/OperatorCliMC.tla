---------------------------- MODULE OperatorCliMC ----------------------------
(* A small instance of OperatorCli for TLC.                                *)
EXTENDS OperatorCli, TLC

CONSTANTS r1, r2, l1, good, port, ssh, rdp, t1, t2

OneLogin  == {l1}
TwoTokens == {good, NoToken}
TwoRks   == {r1, r2}
AllPorts == {port, Dynamic}
SshRdp   == {ssh, rdp}
TwoTargets == {t1, t2}

T(n, t) == [name |-> n, target |-> t]
Assist(wait, listen) ==
    [allowed |-> <<T(ssh, t1)>>, wait |-> wait, tunnel |-> TRUE, listen |-> listen,
     given |-> wait]
New(allowed) == [allowed |-> allowed, wait |-> FALSE, tunnel |-> FALSE, listen |-> Dynamic,
                 given |-> TRUE]

\* One run waits for its agent; the other takes the same port without waiting, or
\* creates a session with two tunnels, two of one name, or none
WaitAndOther ==
    (r1 :> {Assist(TRUE, port)}) @@
    (r2 :> {Assist(FALSE, port), New(<<>>),
            New(<<T(ssh, t1), T(rdp, t2)>>), New(<<T(ssh, t1), T(ssh, t2)>>)})
=============================================================================
