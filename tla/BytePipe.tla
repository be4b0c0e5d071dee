------------------------------- MODULE BytePipe -------------------------------
(***************************************************************************)
(* What one direction of a tunnelled connection promises: what the source  *)
(* has given arrives in order, and the sink is told of the end only when   *)
(* the source has ended and all of it has arrived.  A pipe may stop at any *)
(* moment: then the sink is told of no end.                                *)
(***************************************************************************)
EXTENDS Integers, Sequences

CONSTANT Pipes

VARIABLES
    given,      \* number of chunks the source has given
    ended,      \* the source gives no more
    delivered,  \* the chunks the sink has got
    finished    \* the sink has been told of the end

vars == <<given, ended, delivered, finished>>

Init ==
    /\ given = [p \in Pipes |-> 0]
    /\ ended = [p \in Pipes |-> FALSE]
    /\ delivered = [p \in Pipes |-> <<>>]
    /\ finished = [p \in Pipes |-> FALSE]

Give(p) ==
    /\ ~ended[p]
    /\ given' = [given EXCEPT ![p] = @ + 1]
    /\ UNCHANGED <<ended, delivered, finished>>

End(p) ==
    /\ ~ended[p]
    /\ ended' = [ended EXCEPT ![p] = TRUE]
    /\ UNCHANGED <<given, delivered, finished>>

Deliver(p) ==
    /\ ~finished[p]
    /\ Len(delivered[p]) < given[p]
    /\ delivered' = [delivered EXCEPT ![p] = Append(@, Len(@) + 1)]
    /\ UNCHANGED <<given, ended, finished>>

Finish(p) ==
    /\ ended[p] /\ ~finished[p]
    /\ Len(delivered[p]) = given[p]
    /\ finished' = [finished EXCEPT ![p] = TRUE]
    /\ UNCHANGED <<given, ended, delivered>>

Next == \E p \in Pipes : Give(p) \/ End(p) \/ Deliver(p) \/ Finish(p)

Spec == Init /\ [][Next]_vars
=============================================================================
