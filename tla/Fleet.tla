------------------------------- MODULE Fleet -------------------------------
(* What the rest of obtnet may rely on of the controller's registry: nodes    *)
(* come and go, and a record is that of a daemon of this name which has been  *)
(* started, be it alive or not (src/scripts/obt/net/controller.py).           *)
(*                                                                            *)
(* A daemon is one life of a node process: it has a uuid and ports of its     *)
(* own, which stand behind the one value `d', and the name of its node.  A    *)
(* restarted node is another daemon of the same name.                         *)
EXTENDS Integers, FiniteSets

CONSTANTS
    Daemons,    \* lives of node processes
    Names,      \* names of nodes
    NameOf,     \* the name of each daemon
    None        \* no record

ASSUME NamesAssumption == NameOf \in [Daemons -> Names] /\ None \notin Daemons

VARIABLES
    daemon,     \* "new", "up" or "dead"
    nodes       \* Controller.nodes: the daemon recorded under each name

fleetVars == <<daemon, nodes>>

FleetTypeOK ==
    /\ daemon \in [Daemons -> {"new", "up", "dead"}]
    /\ nodes \in [Names -> Daemons \cup {None}]

Up(d) == daemon[d] = "up"

Starts(d) ==
    /\ daemon[d] = "new"
    /\ daemon' = [daemon EXCEPT ![d] = "up"]

Dies(d) ==
    /\ Up(d)
    /\ daemon' = [daemon EXCEPT ![d] = "dead"]

Record(d) == nodes' = [nodes EXCEPT ![NameOf[d]] = d]

Forget(S) == nodes' = [n \in Names |-> IF n \in S THEN None ELSE nodes[n]]

FleetInit ==
    /\ daemon = [d \in Daemons |-> "new"]
    /\ nodes = [n \in Names |-> None]

FleetStep ==
    \/ \E d \in Daemons : Starts(d) /\ UNCHANGED nodes
    \/ \E d \in Daemons : daemon[d] # "new" /\ Record(d) /\ UNCHANGED daemon
    \/ \E S \in SUBSET Names : Forget(S) /\ UNCHANGED daemon

FleetNext == FleetStep \/ \E d \in Daemons : Dies(d) /\ UNCHANGED nodes

FleetSpec == FleetInit /\ [][FleetNext]_fleetVars
=============================================================================
