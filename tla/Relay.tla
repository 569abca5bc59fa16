------------------------------- MODULE Relay -------------------------------
(* The relay of the controller (src/scripts/obt/net/controller.py) between    *)
(* clients (src/scripts/obt/net/client.py) and the control socket of a node   *)
(* (src/scripts/obt/net/node.py), over any fleet that the registry allows.    *)
(*                                                                            *)
(* A client stands for one request: a synchronous run, during which the       *)
(* node's control loop serves nobody else, or an operation it answers at      *)
(* once.  Client and relay each wait with a deadline of their own, and        *)
(* neither withdraws what has been sent.  "ok" is whatever the node replied.  *)
EXTENDS Fleet, Sequences, SequencesExt

CONSTANTS
    Clients,    \* requests
    Target,     \* the node each one names
    Runs,       \* those that are run_command
    Threads,    \* max_workers of Controller._pool
    MaxRestarts \* bound: restarts of the controller

ASSUME RelayAssumption ==
    /\ Target \in [Clients -> Names]
    /\ Runs \subseteq Clients
    /\ Threads \in Nat \ {0}
    /\ MaxRestarts \in Nat

VARIABLES
    req,        \* what the client knows
    relay,      \* where its request is at the controller
    pool,       \* the pool's queue
    result,     \* the reply the relay has for the client
    via,        \* the daemon whose address the relay has read
    wire,       \* where the request is on its way to that daemon
    ran,        \* how often a daemon has executed it
    restarts

requestVars == <<req, relay, pool, result, via, wire, ran>>
relayVars == <<fleetVars, requestVars, restarts>>

Results == {"ok", "unknown_node", "relay_timeout"}

RelayTypeOK ==
    /\ FleetTypeOK
    /\ req \in [Clients -> {"idle", "waiting", "gave_up"} \cup Results]
    /\ relay \in [Clients -> {"none", "inbox", "pool", "sent", "replied", "gone"}]
    /\ pool \in Seq(Clients)
    /\ ToSet(pool) = {c \in Clients : relay[c] = "pool"}
    /\ Cardinality({c \in Clients : relay[c] = "sent"}) <= Threads
    /\ result \in [Clients -> Results \cup {"none"}]
    /\ via \in [Clients -> Daemons \cup {None}]
    /\ wire \in [Clients -> {"none", "pipe", "node", "running", "answered", "lost"}]
    /\ ran \in [Clients -> Nat]
    /\ restarts \in 0 .. MaxRestarts

-----------------------------------------------------------------------------
(* The client *)

Call(c) ==
    /\ req[c] = "idle"
    /\ req' = [req EXCEPT ![c] = "waiting"]
    /\ relay' = [relay EXCEPT ![c] = "inbox"]
    /\ UNCHANGED <<pool, result, via, wire, ran>>

GiveUp(c) ==
    /\ req[c] = "waiting"
    /\ req' = [req EXCEPT ![c] = "gave_up"]
    /\ UNCHANGED <<relay, pool, result, via, wire, ran>>

-----------------------------------------------------------------------------
(* The controller *)

Accept(c) ==
    /\ relay[c] = "inbox"
    /\ relay' = [relay EXCEPT ![c] = "pool"]
    /\ pool' = Append(pool, c)
    /\ UNCHANGED <<req, result, via, wire, ran>>

Busy == {c \in Clients : relay[c] = "sent"}

\* A pool thread takes the request, reads the record and sends.
TakeUp(c) ==
    /\ pool # <<>> /\ c = Head(pool)
    /\ Cardinality(Busy) < Threads
    /\ pool' = Tail(pool)

Refuse(c) ==
    /\ TakeUp(c) /\ nodes[Target[c]] = None
    /\ relay' = [relay EXCEPT ![c] = "replied"]
    /\ result' = [result EXCEPT ![c] = "unknown_node"]
    /\ UNCHANGED <<req, via, wire, ran>>

Send(c) ==
    /\ TakeUp(c) /\ nodes[Target[c]] # None
    /\ relay' = [relay EXCEPT ![c] = "sent"]
    /\ via' = [via EXCEPT ![c] = nodes[Target[c]]]
    /\ wire' = [wire EXCEPT ![c] = "pipe"]
    /\ UNCHANGED <<req, result, ran>>

PassOn(c) ==
    /\ relay[c] = "sent" /\ wire[c] = "answered"
    /\ relay' = [relay EXCEPT ![c] = "replied"]
    /\ result' = [result EXCEPT ![c] = "ok"]
    /\ UNCHANGED <<req, pool, via, wire, ran>>

\* Fault: a node that does not answer is reported as unknown.
RelayTimeoutUnknown(c) ==
    /\ relay[c] = "sent"
    /\ relay' = [relay EXCEPT ![c] = "replied"]
    /\ result' = [result EXCEPT ![c] = "unknown_node"]
    /\ wire' = [wire EXCEPT ![c] = IF @ = "pipe" THEN "lost" ELSE @]
    /\ UNCHANGED <<req, pool, via, ran>>

\* Fault: the task ends with the exception.
RelayTimeoutRaises(c) ==
    /\ relay[c] = "sent"
    /\ relay' = [relay EXCEPT ![c] = "gone"]
    /\ result' = result
    /\ wire' = [wire EXCEPT ![c] = IF @ = "pipe" THEN "lost" ELSE @]
    /\ UNCHANGED <<req, pool, via, ran>>

\* Fault: only sending has a deadline.
RelayTimeoutSending(c) ==
    /\ relay[c] = "sent" /\ wire[c] = "pipe"
    /\ relay' = [relay EXCEPT ![c] = "replied"]
    /\ result' = [result EXCEPT ![c] = "relay_timeout"]
    /\ wire' = [wire EXCEPT ![c] = IF @ = "pipe" THEN "lost" ELSE @]
    /\ UNCHANGED <<req, pool, via, ran>>

\* RCVTIMEO: what has not left the relay's pipe is dropped with its socket.
RelayTimeout(c) ==
    /\ relay[c] = "sent"
    /\ relay' = [relay EXCEPT ![c] = "replied"]
    /\ result' = [result EXCEPT ![c] = "relay_timeout"]
    /\ wire' = [wire EXCEPT ![c] = IF @ = "pipe" THEN "lost" ELSE @]
    /\ UNCHANGED <<req, pool, via, ran>>

\* The main loop sends what the relay has pushed, if the client still waits.
Forward(c) ==
    /\ relay[c] = "replied"
    /\ relay' = [relay EXCEPT ![c] = "gone"]
    /\ req' = [req EXCEPT ![c] = IF @ = "waiting" THEN result[c] ELSE @]
    /\ result' = [result EXCEPT ![c] = "none"]
    /\ UNCHANGED <<pool, via, wire, ran>>

-----------------------------------------------------------------------------
(* The node's control loop *)

At(d) == {c \in Clients : via[c] = d}

Arrive(c) ==
    /\ wire[c] = "pipe" /\ Up(via[c])
    /\ wire' = [wire EXCEPT ![c] = "node"]
    /\ UNCHANGED <<req, relay, pool, result, via, ran>>

\* REP: one request at a time; a run keeps the loop until it ends.
Serve(c) ==
    /\ wire[c] = "node"
    /\ \A e \in At(via[c]) : wire[e] # "running"
    /\ wire' = [wire EXCEPT ![c] = IF c \in Runs THEN "running" ELSE "answered"]
    /\ ran' = [ran EXCEPT ![c] = @ + 1]
    /\ UNCHANGED <<req, relay, pool, result, via>>

FinishRun(c) ==
    /\ wire[c] = "running"
    /\ wire' = [wire EXCEPT ![c] = "answered"]
    /\ UNCHANGED <<req, relay, pool, result, via, ran>>

-----------------------------------------------------------------------------
(* Failures *)

RelayDeath(d) ==
    /\ Dies(d)
    /\ wire' = [c \in Clients |->
                  IF c \in At(d) /\ wire[c] \in {"node", "running", "answered"}
                  THEN "lost" ELSE wire[c]]
    /\ UNCHANGED <<nodes, req, relay, pool, result, via, ran, restarts>>

\* The relays end with the controller; a request that is still in the client's
\* pipe may reach the next one.
RelayRestart ==
    /\ restarts < MaxRestarts /\ restarts' = restarts + 1
    /\ Forget(Names)
    /\ \E lost \in SUBSET {c \in Clients : relay[c] = "inbox"} :
         relay' = [c \in Clients |->
                     IF relay[c] \in {"pool", "sent", "replied"} \/ c \in lost
                     THEN "gone" ELSE relay[c]]
    /\ result' = [c \in Clients |-> "none"]
    /\ pool' = <<>>
    /\ wire' = [c \in Clients |-> IF wire[c] = "pipe" THEN "lost" ELSE wire[c]]
    /\ UNCHANGED <<daemon, req, via, ran>>

-----------------------------------------------------------------------------
RelayInit ==
    /\ FleetInit
    /\ req = [c \in Clients |-> "idle"]
    /\ relay = [c \in Clients |-> "none"]
    /\ pool = <<>>
    /\ result = [c \in Clients |-> "none"]
    /\ via = [c \in Clients |-> None]
    /\ wire = [c \in Clients |-> "none"]
    /\ ran = [c \in Clients |-> 0]
    /\ restarts = 0

ControllerStep(c) ==
    Accept(c) \/ Refuse(c) \/ Send(c) \/ PassOn(c) \/ RelayTimeout(c) \/ Forward(c)

NodeStep(c) == Arrive(c) \/ Serve(c) \/ FinishRun(c)

RelayNext ==
    \/ FleetStep /\ UNCHANGED <<requestVars, restarts>>
    \/ \E c \in Clients :
        /\ Call(c) \/ GiveUp(c) \/ ControllerStep(c) \/ NodeStep(c)
        /\ UNCHANGED <<fleetVars, restarts>>
    \/ \E d \in Daemons : RelayDeath(d)
    \/ RelayRestart

RelaySpec == RelayInit /\ [][RelayNext]_relayVars

\* The main loop and the pool's threads run, and a thread waits no longer than
\* its deadline.  Nothing is assumed of clients, nodes or processes.
RelayFairSpec ==
    RelaySpec /\ \A c \in Clients : WF_relayVars(ControllerStep(c) /\ UNCHANGED <<fleetVars, restarts>>)

-----------------------------------------------------------------------------
(* Properties *)

\* What the client is told is true, and stays true: after "ok" a daemon has
\* executed the request once, after "unknown_node" none has or will, and no
\* request is ever executed twice, whichever of the deadlines passes first
\* (controller.py:134-165).
RepliesTruthful ==
    \A c \in Clients :
        /\ ran[c] <= 1
        /\ req[c] = "ok" => ran[c] = 1
        /\ req[c] = "unknown_node" => ran[c] = 0 /\ wire[c] = "none"

\* Silence has a cause: a request that a daemon has executed is known to its
\* client, or its reply is still on the way, or a deadline has passed, or the
\* daemon or the controller that held the reply is gone.
NothingUnheard ==
    \A c \in Clients : ran[c] = 1 /\ req[c] = "waiting" =>
        \/ relay[c] = "sent" /\ wire[c] \in {"running", "answered"}
        \/ relay[c] = "sent" /\ daemon[via[c]] = "dead"
        \/ relay[c] = "replied" /\ result[c] \in {"ok", "relay_timeout"}
        \/ relay[c] = "gone" /\ restarts > 0

\* Requests for a node that is gone or busy hold the threads they occupy only
\* for a while: every request in the pool's queue gets its turn, and then its
\* reply, unless the controller ends (controller.py:144-156).
PoolDrains ==
    \A c \in Clients : (relay[c] = "pool") ~> (relay[c] = "gone")
=============================================================================
