------------------------------ MODULE Registry ------------------------------
(* The controller's registry of nodes (src/scripts/obt/net/controller.py) and *)
(* the heartbeat thread of the node daemons (src/scripts/obt/net/node.py).    *)
(*                                                                            *)
(* The heartbeat thread asks the controller, over a socket it opens for one   *)
(* request, to Connect or to Ping; a request whose sender has given up is     *)
(* still served.                                                              *)
EXTENDS Fleet

CONSTANT
    MaxFaults   \* bound: heartbeats that miss the deadline, silences of 120 s
                \* of a node that is up, restarts of the controller

ASSUME FaultsAssumption == MaxFaults \in Nat

VARIABLES
    connected,  \* Node._connected
    asked,      \* the request the heartbeat thread waits for
    answer,     \* the reply on its way to that thread
    inbox,      \* heartbeats in the ROUTER's queues; open = still waited for
    silent,     \* names whose record was not pinged for EXPIRE_S
    toSub,      \* Controller._sub_endpoints
    subs,       \* connections of the proxy's SUB socket to each daemon
    faults

beatVars == <<connected, asked, answer>>
proxyVars == <<toSub, subs>>
registryVars == <<daemon, nodes, beatVars, inbox, silent, proxyVars, faults>>

Requests == [op : {"connect", "ping"}, from : Daemons, open : BOOLEAN]

-----------------------------------------------------------------------------
(* The daemon *)

Start(d) ==
    /\ Starts(d)
    /\ UNCHANGED <<nodes, beatVars, inbox, silent, proxyVars, faults>>

\* Fault: the heartbeat starts before the sockets are bound.
AskEarly(d) ==
    /\ daemon[d] # "dead" /\ asked[d] = "none"
    /\ asked' = [asked EXCEPT ![d] = "connect"]
    /\ inbox' = inbox \cup {[op |-> "connect", from |-> d, open |-> TRUE]}
    /\ UNCHANGED <<daemon, nodes, connected, answer, silent, proxyVars, faults>>

\* The next turn of the heartbeat loop: Connect first, Ping when connected.
Ask(d) ==
    /\ Up(d) /\ asked[d] = "none"
    /\ LET op == IF connected[d] THEN "ping" ELSE "connect"
       IN /\ asked' = [asked EXCEPT ![d] = op]
          /\ inbox' = inbox \cup {[op |-> op, from |-> d, open |-> TRUE]}
    /\ UNCHANGED <<daemon, nodes, connected, answer, silent, proxyVars, faults>>

Hear(d) ==
    /\ Up(d) /\ answer[d] # "none"
    /\ connected' = [connected EXCEPT ![d] = answer[d] = "ok"]
    /\ asked' = [asked EXCEPT ![d] = "none"]
    /\ answer' = [answer EXCEPT ![d] = "none"]
    /\ UNCHANGED <<daemon, nodes, inbox, silent, proxyVars, faults>>

OpenOf(d) == {m \in inbox : m.from = d /\ m.open}

\* Fault: the socket is kept for the next request.
ClosedNever(d) == inbox

Closed(d) == (inbox \ OpenOf(d)) \cup {[m EXCEPT !.open = FALSE] : m \in OpenOf(d)}

\* No reply within five seconds: the socket is closed, and what was sent may
\* still be served.  It costs a fault unless the request is lost.
MissedBeat(d) ==
    /\ Up(d) /\ asked[d] # "none" /\ answer[d] = "none"
    /\ \/ OpenOf(d) = {} /\ faults' = faults
       \/ OpenOf(d) # {} /\ faults < MaxFaults /\ faults' = faults + 1
    /\ connected' = [connected EXCEPT ![d] = FALSE]
    /\ asked' = [asked EXCEPT ![d] = "none"]
    /\ inbox' = Closed(d)
    /\ UNCHANGED <<daemon, nodes, answer, silent, proxyVars>>

RegistryDeath(d) ==
    /\ Dies(d)
    /\ asked' = [asked EXCEPT ![d] = "none"]
    /\ answer' = [answer EXCEPT ![d] = "none"]
    /\ inbox' = Closed(d)
    /\ UNCHANGED <<nodes, connected, silent, proxyVars, faults>>

-----------------------------------------------------------------------------
(* The controller's main loop and its event proxy *)

Reply(m, rep) ==
    /\ inbox' = inbox \ {m}
    /\ answer' = IF m.open THEN [answer EXCEPT ![m.from] = rep] ELSE answer

\* Fault: the proxy is told of new names only.
ConnectNewOnly(m) ==
    /\ m \in inbox /\ m.op = "connect"
    /\ Record(m.from)
    /\ silent' = silent \ {NameOf[m.from]}
    /\ toSub' = IF nodes[NameOf[m.from]] = None THEN toSub \cup {m.from} ELSE toSub
    /\ Reply(m, "ok")
    /\ UNCHANGED <<daemon, connected, asked, subs, faults>>

Connect(m) ==
    /\ m \in inbox /\ m.op = "connect"
    /\ Record(m.from)
    /\ silent' = silent \ {NameOf[m.from]}
    /\ toSub' = toSub \cup {m.from}
    /\ Reply(m, "ok")
    /\ UNCHANGED <<daemon, connected, asked, subs, faults>>

\* Fault: a record is found by its name.
RecordsNamed(d) == {n \in Names : n = NameOf[d] /\ nodes[n] # None}

\* A record is found by its uuid.
RecordsOf(d) == {n \in Names : nodes[n] = d}

Ping(m) ==
    /\ m \in inbox /\ m.op = "ping"
    /\ silent' = silent \ RecordsOf(m.from)
    /\ Reply(m, IF RecordsOf(m.from) = {} THEN "unknown_node" ELSE "ok")
    /\ UNCHANGED <<daemon, nodes, connected, asked, proxyVars, faults>>

\* EXPIRE_S pass without a ping.
Silence(n) ==
    /\ nodes[n] # None /\ n \notin silent
    /\ \/ ~Up(nodes[n]) /\ faults' = faults
       \/ Up(nodes[n]) /\ faults < MaxFaults /\ faults' = faults + 1
    /\ silent' = silent \cup {n}
    /\ UNCHANGED <<daemon, nodes, beatVars, inbox, proxyVars>>

\* Only a listing removes what has expired.
ListNodes ==
    /\ silent # {}
    /\ Forget(silent)
    /\ silent' = {}
    /\ UNCHANGED <<daemon, beatVars, inbox, proxyVars, faults>>

\* The proxy takes every endpoint queued and connects to the new ones.
NewEndpoints == {d \in toSub : subs[d] = 0}

Subscribe ==
    /\ toSub # {}
    /\ subs' = [d \in Daemons |-> IF d \in NewEndpoints THEN subs[d] + 1 ELSE subs[d]]
    /\ toSub' = {}
    /\ UNCHANGED <<daemon, nodes, beatVars, inbox, silent, faults>>

\* A new controller process knows nobody; a request that had not left the
\* node's pipe reaches it.
RegistryRestart ==
    /\ faults < MaxFaults /\ faults' = faults + 1
    /\ \E kept \in SUBSET inbox : inbox' = kept
    /\ Forget(Names)
    /\ silent' = {} /\ toSub' = {}
    /\ subs' = [d \in Daemons |-> 0]
    /\ UNCHANGED <<daemon, beatVars>>

-----------------------------------------------------------------------------
RegistryInit ==
    /\ FleetInit
    /\ connected = [d \in Daemons |-> FALSE]
    /\ asked = [d \in Daemons |-> "none"]
    /\ answer = [d \in Daemons |-> "none"]
    /\ inbox = {} /\ silent = {} /\ toSub = {}
    /\ subs = [d \in Daemons |-> 0]
    /\ faults = 0

RegistryNext ==
    \/ \E d \in Daemons : Start(d) \/ Ask(d) \/ Hear(d) \/ MissedBeat(d) \/ RegistryDeath(d)
    \/ \E m \in inbox : Connect(m) \/ Ping(m)
    \/ \E n \in Names : Silence(n)
    \/ ListNodes
    \/ Subscribe
    \/ RegistryRestart

RegistrySpec == RegistryInit /\ [][RegistryNext]_registryVars

\* The threads run: the heartbeat of a daemon, the controller's main loop, which
\* takes every request in turn, and the proxy.  Nodes need not start, clients
\* need not list, and nothing has to fail.
RegistryFairSpec ==
    /\ RegistrySpec
    /\ \A d \in Daemons : WF_registryVars(Ask(d) \/ Hear(d) \/ (OpenOf(d) = {} /\ MissedBeat(d)))
    /\ \A m \in Requests : WF_registryVars(Connect(m) \/ Ping(m))
    /\ WF_registryVars(Subscribe)

-----------------------------------------------------------------------------
(* Properties *)

\* The variables have their types; only the silence of a record is noted, a
\* reply goes to a thread that waits for it, and a request in the queues comes
\* from a daemon that was started.
RegistryTypeOK ==
    /\ FleetTypeOK
    /\ connected \in [Daemons -> BOOLEAN]
    /\ asked \in [Daemons -> {"none", "connect", "ping"}]
    /\ answer \in [Daemons -> {"none", "ok", "unknown_node"}]
    /\ inbox \subseteq Requests
    /\ silent \subseteq {n \in Names : nodes[n] # None}
    /\ toSub \subseteq Daemons
    /\ subs \in [Daemons -> Nat]
    /\ faults \in 0 .. MaxFaults

\* A thread waits for one reply at a time, and the reply is to what it asked:
\* an open request and its reply never exist together, a reply never reaches a
\* thread that has given up on it, and only a ping is told that it is unknown.
OneExchange ==
    /\ \A d \in Daemons :
        /\ answer[d] # "none" => asked[d] # "none" /\ OpenOf(d) = {}
        /\ answer[d] = "unknown_node" => asked[d] = "ping"
    /\ \A m, k \in inbox : m.open /\ k.open /\ m.from = k.from => m = k
    /\ \A m \in inbox : m.open => asked[m.from] = m.op

\* However often a node connects, the fleet's stream carries its events once
\* (controller.py:184-186).
OneSubscription == \A d \in Daemons : subs[d] <= 1

\* What the relay relies on: a record appears only by the Connect of a started
\* daemon of that name, and goes only by a listing or with the controller.
ImplementsFleet == FleetSpec

Alone(d) == Up(d) /\ \A e \in Daemons \ {d} : NameOf[e] = NameOf[d] => ~Up(e)

\* A node that stays up, the only one of its name, ends up in the registry for
\* good, whatever was lost, forgotten, served late or recorded for an earlier
\* life of the node: the heartbeat re-registers it (controller.py:104-107,
\* node.py:211-214).
EventuallyListed ==
    \A d \in Daemons : <>[]Alone(d) => <>[](nodes[NameOf[d]] = d)

\* The proxy is then subscribed to the ports of this life of the node
\* (controller.py:91, controller.py:179-186).
EventuallyWatched ==
    \A d \in Daemons : <>[]Alone(d) => <>[](subs[d] > 0)
=============================================================================
