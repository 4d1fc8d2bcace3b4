----------------------------- MODULE SerialDeploy -----------------------------
(* What a deployment promises to the nodes: deployments come one after the
   other, and each reaches a node it was meant for at most once. *)
EXTENDS Naturals, Sequences

CONSTANTS
    Streams,  \* the deployments, one for each event stream
    Nodes,
    NoStream

VARIABLES
    current,  \* the deployment that is open, or NoStream
    log       \* for each node, the deployments whose egg it took, in order

vars == <<current, log>>

Deployed(n) == {log[n][i] : i \in DOMAIN log[n]}

Init == current = NoStream /\ log = [n \in Nodes |-> <<>>]

Open(s) == current = NoStream /\ current' = s /\ UNCHANGED log

Accept(n) ==
    /\ current # NoStream /\ current \notin Deployed(n)
    /\ log' = [log EXCEPT ![n] = Append(@, current)]
    /\ UNCHANGED current

Close == current # NoStream /\ current' = NoStream /\ UNCHANGED log

Next == Close \/ (\E s \in Streams : Open(s)) \/ (\E n \in Nodes : Accept(n))

Spec == Init /\ [][Next]_vars
===============================================================================
