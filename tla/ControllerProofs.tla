-------------------------- MODULE ControllerProofs --------------------------
(* Proofs about the controller. Of the registry, for every number of nodes,   *)
(* names, lives of nodes and faults: heartbeats and replies pair up, a node   *)
(* is subscribed once, and the registry is one that the relay may rely on.    *)
(* Of the relay, over any such registry and for every number of clients and   *)
(* threads: what a client is told is true, and silence has a cause.           *)
EXTENDS Registry, Relay, FiniteSetTheorems, TLAPS

-----------------------------------------------------------------------------
(* The registry *)

\* Only started daemons send.
SentByStarted == \A m \in inbox : daemon[m.from] # "new"

RegistryInv ==
    /\ RegistryTypeOK
    /\ OneExchange
    /\ OneSubscription
    /\ SentByStarted

-----------------------------------------------------------------------------
\* Closing a socket keeps what it has sent: the request is the same but that
\* nobody waits, and what is still waited for is somebody else's.
LEMMA ClosedRequests ==
    ASSUME RegistryTypeOK, NEW d \in Daemons, NEW m \in Closed(d)
    PROVE  /\ m \in Requests
           /\ \E k \in inbox : k.from = m.from /\ k.op = m.op
           /\ m.open => m \in inbox /\ m.from # d
<1>1. CASE m \in inbox \ OpenOf(d)
  BY <1>1 DEF RegistryTypeOK, OpenOf, Requests
<1>2. CASE \E k \in OpenOf(d) : m = [k EXCEPT !.open = FALSE]
  <2>1. PICK k \in OpenOf(d) : m = [k EXCEPT !.open = FALSE]
    BY <1>2
  <2>2. k \in inbox /\ k \in Requests
    BY DEF RegistryTypeOK, OpenOf
  <2>3. m = [op |-> k.op, from |-> k.from, open |-> FALSE]
    BY <2>1, <2>2 DEF Requests
  <2> QED
    BY <2>2, <2>3 DEF Requests
<1> QED
  BY <1>1, <1>2 DEF Closed

\* After it nobody waits at that socket.
LEMMA ClosedIsQuiet ==
    ASSUME RegistryTypeOK, NEW d \in Daemons, inbox' = Closed(d)
    PROVE  OpenOf(d)' = {}
  BY ClosedRequests DEF OpenOf

-----------------------------------------------------------------------------
LEMMA RegistryInitInv == RegistryInit => RegistryInv
<1> SUFFICES ASSUME RegistryInit PROVE RegistryInv
  OBVIOUS
<1>1. RegistryTypeOK
  BY FaultsAssumption DEF RegistryInit, FleetInit, RegistryTypeOK, FleetTypeOK
<1>2. OneExchange
  BY DEF RegistryInit, OneExchange, OpenOf
<1>3. OneSubscription /\ SentByStarted
  BY DEF RegistryInit, OneSubscription, SentByStarted
<1> QED
  BY <1>1, <1>2, <1>3 DEF RegistryInv

\* Where neither requests nor the threads that wait are touched.
LEMMA Untouched ==
    ASSUME RegistryInv, UNCHANGED <<asked, answer, inbox>>
    PROVE  OneExchange'
  BY DEF RegistryInv, OneExchange, OpenOf

LEMMA StartInv == ASSUME RegistryInv, NEW d \in Daemons, Start(d) PROVE RegistryInv'
<1>1. RegistryTypeOK'
  BY DEF RegistryInv, RegistryTypeOK, FleetTypeOK, Start, Starts, beatVars, proxyVars
<1>2. OneExchange'
  BY Untouched DEF Start, beatVars
<1>3. OneSubscription'
  BY DEF RegistryInv, OneSubscription, Start, proxyVars
<1>4. SentByStarted'
  BY DEF RegistryInv, SentByStarted, RegistryTypeOK, FleetTypeOK, Start, Starts, Requests
<1> QED
  BY <1>1, <1>2, <1>3, <1>4 DEF RegistryInv

LEMMA AskInv == ASSUME RegistryInv, NEW d \in Daemons, Ask(d) PROVE RegistryInv'
<1> DEFINE op == IF connected[d] THEN "ping" ELSE "connect"
           new == [op |-> op, from |-> d, open |-> TRUE]
<1>1. /\ Up(d) /\ asked[d] = "none"
      /\ asked' = [asked EXCEPT ![d] = op]
      /\ inbox' = inbox \cup {new}
      /\ UNCHANGED <<daemon, nodes, connected, answer, silent, proxyVars, faults>>
  BY DEF Ask
<1>2. op \in {"connect", "ping"} /\ new \in Requests /\ new.from = d /\ new.op = op
  BY DEF Requests
<1> HIDE DEF op, new
<1>3. RegistryTypeOK'
  BY <1>1, <1>2 DEF RegistryInv, RegistryTypeOK, FleetTypeOK, proxyVars
<1>4. \A m \in inbox : m.open => m.from # d
  BY <1>1, <1>2 DEF RegistryInv, RegistryTypeOK, OneExchange, Requests
<1>5. answer[d] = "none"
  BY <1>1 DEF RegistryInv, OneExchange
<1>6. OneExchange'
  <2>1. \A e \in Daemons \ {d} : OpenOf(e)' = OpenOf(e) /\ asked'[e] = asked[e]
    BY <1>1, <1>2 DEF OpenOf, RegistryInv, RegistryTypeOK
  <2>2. \A e \in Daemons : /\ answer'[e] # "none" => asked'[e] # "none" /\ OpenOf(e)' = {}
                           /\ answer'[e] = "unknown_node" => asked'[e] = "ping"
    BY <1>1, <1>5, <2>1 DEF RegistryInv, OneExchange
  <2>3. \A m, k \in inbox' : m.open /\ k.open /\ m.from = k.from => m = k
    BY <1>1, <1>2, <1>4 DEF RegistryInv, OneExchange
  <2>4. \A m \in inbox' : m.open => asked'[m.from] = m.op
    <3>1. asked'[d] = op
      BY <1>1 DEF RegistryInv, RegistryTypeOK
    <3> QED
      BY <1>1, <1>2, <1>4, <2>1, <3>1 DEF RegistryInv, OneExchange, RegistryTypeOK, Requests
  <2> QED
    BY <2>2, <2>3, <2>4 DEF OneExchange
<1>7. OneSubscription'
  BY <1>1 DEF RegistryInv, OneSubscription, proxyVars
<1>8. SentByStarted'
  BY <1>1, <1>2 DEF RegistryInv, SentByStarted, Up
<1> QED
  BY <1>3, <1>6, <1>7, <1>8 DEF RegistryInv

LEMMA HearInv == ASSUME RegistryInv, NEW d \in Daemons, Hear(d) PROVE RegistryInv'
<1>1. /\ OpenOf(d) = {}
      /\ \A e \in Daemons : OpenOf(e)' = OpenOf(e)
  BY DEF RegistryInv, OneExchange, Hear, OpenOf
<1>2. RegistryTypeOK'
  BY DEF RegistryInv, RegistryTypeOK, FleetTypeOK, Hear, proxyVars
<1>3. OneExchange'
  <2>1. \A m \in inbox : m.open => m.from # d
    BY <1>1 DEF OpenOf
  <2> QED
    BY <1>1, <2>1 DEF RegistryInv, OneExchange, RegistryTypeOK, Hear, Requests
<1>4. OneSubscription' /\ SentByStarted'
  BY DEF RegistryInv, OneSubscription, SentByStarted, Hear, proxyVars
<1> QED
  BY <1>2, <1>3, <1>4 DEF RegistryInv

\* What MissedBeat and RegistryDeath have in common: the socket is closed and the thread
\* no longer waits.
LEMMA HangUpExchange ==
    ASSUME RegistryInv, NEW d \in Daemons,
           asked' = [asked EXCEPT ![d] = "none"],
           answer' = [answer EXCEPT ![d] = "none"],
           inbox' = Closed(d)
    PROVE  OneExchange'
<1> USE DEF RegistryInv, RegistryTypeOK
<1>1. \A m \in inbox' : m.open => m \in inbox /\ m.from # d /\ m.from \in Daemons
  BY ClosedRequests DEF Requests
<1>2. \A e \in Daemons \ {d} : OpenOf(e)' \subseteq OpenOf(e)
  BY <1>1 DEF OpenOf
<1>3. \A e \in Daemons \ {d} : asked'[e] = asked[e] /\ answer'[e] = answer[e]
  OBVIOUS
<1>4. answer'[d] = "none"
  OBVIOUS
<1>5. \A e \in Daemons : /\ answer'[e] # "none" => asked'[e] # "none" /\ OpenOf(e)' = {}
                         /\ answer'[e] = "unknown_node" => asked'[e] = "ping"
  BY <1>2, <1>3, <1>4 DEF OneExchange
<1>6. \A m \in inbox' : m.open => asked'[m.from] = m.op
  BY <1>1, <1>3 DEF OneExchange
<1>7. \A m, k \in inbox' : m.open /\ k.open /\ m.from = k.from => m = k
  BY <1>1 DEF OneExchange
<1> QED
  BY <1>5, <1>6, <1>7 DEF OneExchange

LEMMA ClosedKept ==
    ASSUME RegistryInv, NEW d \in Daemons, inbox' = Closed(d),
           \A e \in Daemons : daemon[e] # "new" => daemon'[e] # "new"
    PROVE  inbox' \subseteq Requests /\ SentByStarted'
<1>1. \A m \in inbox' : m \in Requests /\ \E k \in inbox : k.from = m.from
  BY ClosedRequests DEF RegistryInv
<1> QED
  BY <1>1 DEF RegistryInv, SentByStarted, Requests

LEMMA MissedBeatInv == ASSUME RegistryInv, NEW d \in Daemons, MissedBeat(d) PROVE RegistryInv'
<1>1. inbox' \subseteq Requests /\ SentByStarted'
  BY ClosedKept DEF MissedBeat
<1>2. RegistryTypeOK'
  BY <1>1, FaultsAssumption DEF RegistryInv, RegistryTypeOK, FleetTypeOK, MissedBeat, proxyVars
<1>3. OneExchange'
  <2>1. answer' = [answer EXCEPT ![d] = "none"]
    BY DEF RegistryInv, RegistryTypeOK, MissedBeat
  <2> QED
    BY <2>1, HangUpExchange DEF MissedBeat
<1>4. OneSubscription'
  BY DEF RegistryInv, OneSubscription, MissedBeat, proxyVars
<1> QED
  BY <1>1, <1>2, <1>3, <1>4 DEF RegistryInv

LEMMA RegistryDeathInv == ASSUME RegistryInv, NEW d \in Daemons, RegistryDeath(d) PROVE RegistryInv'
<1>1. inbox' \subseteq Requests /\ SentByStarted'
  BY ClosedKept DEF RegistryDeath, Dies, RegistryInv, RegistryTypeOK, FleetTypeOK
<1>2. RegistryTypeOK'
  BY <1>1 DEF RegistryInv, RegistryTypeOK, FleetTypeOK, RegistryDeath, Dies, proxyVars
<1>3. OneExchange'
  BY HangUpExchange DEF RegistryDeath
<1>4. OneSubscription'
  BY DEF RegistryInv, OneSubscription, RegistryDeath, proxyVars
<1> QED
  BY <1>1, <1>2, <1>3, <1>4 DEF RegistryInv

\* A request is served once, and its reply goes to the thread that waits for it.
LEMMA ReplyExchange ==
    ASSUME RegistryInv, NEW m \in inbox, NEW rep \in {"ok", "unknown_node"}, Reply(m, rep),
           rep = "unknown_node" => m.op = "ping", UNCHANGED asked
    PROVE  /\ inbox' \subseteq Requests
           /\ answer' \in [Daemons -> {"none", "ok", "unknown_node"}]
           /\ OneExchange'
<1>1. m \in Requests /\ m.from \in Daemons
  BY DEF RegistryInv, RegistryTypeOK, Requests
<1>2. inbox' = inbox \ {m}
  BY DEF Reply
<1>3. answer' \in [Daemons -> {"none", "ok", "unknown_node"}]
  BY <1>1 DEF RegistryInv, RegistryTypeOK, Reply
<1>4. \A k, l \in inbox' : k.open /\ l.open /\ k.from = l.from => k = l
  BY <1>2 DEF RegistryInv, OneExchange
<1>5. \A k \in inbox' : k.open => asked'[k.from] = k.op
  BY <1>2 DEF RegistryInv, OneExchange
<1>6. ASSUME NEW d \in Daemons
      PROVE  /\ answer'[d] # "none" => asked'[d] # "none" /\ OpenOf(d)' = {}
             /\ answer'[d] = "unknown_node" => asked'[d] = "ping"
  <2>1. OpenOf(d)' \subseteq OpenOf(d)
    BY <1>2 DEF OpenOf
  <2>2. CASE m.open /\ m.from = d
    <3>1. asked[d] = m.op /\ m.op # "none"
      BY <1>1, <2>2 DEF RegistryInv, OneExchange, Requests
    <3>2. answer'[d] = rep
      BY <2>2 DEF Reply, RegistryInv, RegistryTypeOK
    <3>3. OpenOf(d)' = {}
      BY <1>2, <2>2 DEF RegistryInv, OneExchange, OpenOf
    <3> QED
      BY <3>1, <3>2, <3>3
  <2>3. CASE ~(m.open /\ m.from = d)
    <3>1. answer'[d] = answer[d]
      BY <1>1, <2>3 DEF Reply, RegistryInv, RegistryTypeOK
    <3> QED
      BY <2>1, <3>1 DEF RegistryInv, OneExchange
  <2> QED
    BY <2>2, <2>3
<1> QED
  BY <1>1, <1>2, <1>3, <1>4, <1>5, <1>6 DEF OneExchange, RegistryInv, RegistryTypeOK

LEMMA ConnectInv == ASSUME RegistryInv, NEW m \in inbox, Connect(m) PROVE RegistryInv'
<1>1. m.from \in Daemons /\ NameOf[m.from] \in Names
  BY NamesAssumption DEF RegistryInv, RegistryTypeOK, Requests
<1>2. /\ inbox' \subseteq Requests
      /\ answer' \in [Daemons -> {"none", "ok", "unknown_node"}]
      /\ OneExchange'
  BY ReplyExchange DEF Connect
<1>3. RegistryTypeOK'
  BY <1>1, <1>2, NamesAssumption DEF RegistryInv, RegistryTypeOK, FleetTypeOK, Connect, Record
<1>4. OneSubscription' /\ SentByStarted'
  BY DEF RegistryInv, OneSubscription, SentByStarted, Connect, Reply
<1> QED
  BY <1>2, <1>3, <1>4 DEF RegistryInv

LEMMA PingInv == ASSUME RegistryInv, NEW m \in inbox, Ping(m) PROVE RegistryInv'
<1>1. /\ inbox' \subseteq Requests
      /\ answer' \in [Daemons -> {"none", "ok", "unknown_node"}]
      /\ OneExchange'
  BY ReplyExchange DEF Ping
<1>2. RegistryTypeOK'
  BY <1>1 DEF RegistryInv, RegistryTypeOK, FleetTypeOK, Ping, proxyVars
<1>3. OneSubscription' /\ SentByStarted'
  BY DEF RegistryInv, OneSubscription, SentByStarted, Ping, Reply, proxyVars
<1> QED
  BY <1>1, <1>2, <1>3 DEF RegistryInv

LEMMA SilenceInv == ASSUME RegistryInv, NEW n \in Names, Silence(n) PROVE RegistryInv'
<1>1. RegistryTypeOK'
  BY FaultsAssumption DEF RegistryInv, RegistryTypeOK, FleetTypeOK, Silence, beatVars, proxyVars
<1>2. OneExchange'
  BY Untouched DEF Silence, beatVars
<1>3. OneSubscription' /\ SentByStarted'
  BY DEF RegistryInv, OneSubscription, SentByStarted, Silence, proxyVars
<1> QED
  BY <1>1, <1>2, <1>3 DEF RegistryInv

LEMMA ListNodesInv == ASSUME RegistryInv, ListNodes PROVE RegistryInv'
<1>1. RegistryTypeOK'
  BY DEF RegistryInv, RegistryTypeOK, FleetTypeOK, ListNodes, Forget, beatVars, proxyVars
<1>2. OneExchange'
  BY Untouched DEF ListNodes, beatVars
<1>3. OneSubscription' /\ SentByStarted'
  BY DEF RegistryInv, OneSubscription, SentByStarted, ListNodes, proxyVars
<1> QED
  BY <1>1, <1>2, <1>3 DEF RegistryInv

LEMMA SubscribeInv == ASSUME RegistryInv, Subscribe PROVE RegistryInv'
<1>1. RegistryTypeOK' /\ OneSubscription'
  BY DEF RegistryInv, RegistryTypeOK, FleetTypeOK, OneSubscription, Subscribe, NewEndpoints, beatVars
<1>2. OneExchange'
  BY Untouched DEF Subscribe, beatVars
<1>3. SentByStarted'
  BY DEF RegistryInv, SentByStarted, Subscribe
<1> QED
  BY <1>1, <1>2, <1>3 DEF RegistryInv

LEMMA RegistryRestartInv == ASSUME RegistryInv, RegistryRestart PROVE RegistryInv'
<1>1. inbox' \subseteq inbox
  BY DEF RegistryRestart
<1>2. RegistryTypeOK'
  BY <1>1, FaultsAssumption DEF RegistryInv, RegistryTypeOK, FleetTypeOK, RegistryRestart, Forget, beatVars
<1>3. OneExchange'
  <2>1. \A d \in Daemons : OpenOf(d)' \subseteq OpenOf(d)
    BY <1>1 DEF OpenOf
  <2> QED
    BY <1>1, <2>1 DEF RegistryInv, OneExchange, RegistryRestart, beatVars
<1>4. OneSubscription' /\ SentByStarted'
  BY <1>1 DEF RegistryInv, OneSubscription, SentByStarted, RegistryRestart
<1> QED
  BY <1>2, <1>3, <1>4 DEF RegistryInv

LEMMA RegistryNextInv == RegistryInv /\ [RegistryNext]_registryVars => RegistryInv'
<1> SUFFICES ASSUME RegistryInv, [RegistryNext]_registryVars PROVE RegistryInv'
  OBVIOUS
<1>1. CASE \E d \in Daemons : Start(d) \/ Ask(d) \/ Hear(d) \/ MissedBeat(d) \/ RegistryDeath(d)
  BY <1>1, StartInv, AskInv, HearInv, MissedBeatInv, RegistryDeathInv
<1>2. CASE \E m \in inbox : Connect(m) \/ Ping(m)
  BY <1>2, ConnectInv, PingInv
<1>3. CASE \E n \in Names : Silence(n)
  BY <1>3, SilenceInv
<1>4. CASE ListNodes \/ Subscribe \/ RegistryRestart
  BY <1>4, ListNodesInv, SubscribeInv, RegistryRestartInv
<1>5. CASE UNCHANGED registryVars
  BY <1>5, Untouched DEF registryVars, beatVars, proxyVars, RegistryInv, RegistryTypeOK, FleetTypeOK,
         OneSubscription, SentByStarted
<1> QED
  BY <1>1, <1>2, <1>3, <1>4, <1>5 DEF RegistryNext

LEMMA RegistryInvariance == RegistrySpec => []RegistryInv
  BY RegistryInitInv, RegistryNextInv, PTL DEF RegistrySpec

-----------------------------------------------------------------------------
\* The variables keep their types.
THEOREM RegistryTypeCorrect == RegistrySpec => []RegistryTypeOK
  BY RegistryInvariance, PTL DEF RegistryInv

\* Requests and replies of the heartbeats pair up, whatever is late, lost or
\* served after its sender gave up (node.py:151-161).
THEOREM ExchangesPairUp == RegistrySpec => []OneExchange
  BY RegistryInvariance, PTL DEF RegistryInv

\* No node's events reach the stream twice.
THEOREM SubscribedOnce == RegistrySpec => []OneSubscription
  BY RegistryInvariance, PTL DEF RegistryInv

-----------------------------------------------------------------------------
\* A step of the registry is a step of the fleet, or the fleet does not move.
LEMMA StepImplementsFleet == RegistryInv /\ [RegistryNext]_registryVars => [FleetNext]_fleetVars
<1> SUFFICES ASSUME RegistryInv, [RegistryNext]_registryVars PROVE [FleetNext]_fleetVars
  OBVIOUS
<1> USE DEF FleetNext, FleetStep, fleetVars
<1>1. CASE \E d \in Daemons : Start(d) \/ RegistryDeath(d)
  BY <1>1 DEF Start, RegistryDeath
<1>2. CASE \E d \in Daemons : Ask(d) \/ Hear(d) \/ MissedBeat(d)
  BY <1>2 DEF Ask, Hear, MissedBeat
<1>3. ASSUME NEW m \in inbox, Connect(m) PROVE FleetNext
  <2>1. m.from \in Daemons /\ daemon[m.from] # "new"
    BY DEF RegistryInv, RegistryTypeOK, Requests, SentByStarted
  <2> QED
    BY <1>3, <2>1 DEF Connect
<1>4. CASE \E m \in inbox : Ping(m)
  BY <1>4 DEF Ping
<1>5. CASE \E n \in Names : Silence(n)
  BY <1>5 DEF Silence
<1>6. CASE ListNodes
  <2>1. silent \in SUBSET Names
    BY DEF RegistryInv, RegistryTypeOK
  <2> QED
    BY <1>6, <2>1 DEF ListNodes
<1>7. CASE Subscribe
  BY <1>7 DEF Subscribe
<1>8. CASE RegistryRestart
  <2>1. Forget(Names) /\ UNCHANGED daemon /\ Names \in SUBSET Names
    BY <1>8 DEF RegistryRestart
  <2> QED
    BY <2>1
<1>9. CASE UNCHANGED registryVars
  BY <1>9 DEF registryVars
<1> QED
  BY <1>1, <1>2, <1>3, <1>4, <1>5, <1>6, <1>7, <1>8, <1>9 DEF RegistryNext

\* The registry with its heartbeats is one of the fleets that the relay is
\* checked against: what holds of the relay there holds beside this registry.
THEOREM RegistryImplementsFleet == RegistrySpec => ImplementsFleet
<1>1. RegistryInit => FleetInit
  BY DEF RegistryInit
<1> QED
  BY <1>1, StepImplementsFleet, RegistryInvariance, PTL DEF RegistrySpec, ImplementsFleet, FleetSpec

-----------------------------------------------------------------------------
(* The relay *)

RelayTypes ==
    /\ FleetTypeOK
    /\ req \in [Clients -> {"idle", "waiting", "gave_up"} \cup Results]
    /\ relay \in [Clients -> {"none", "inbox", "pool", "sent", "replied", "gone"}]
    /\ pool \in Seq(Clients)
    /\ result \in [Clients -> Results \cup {"none"}]
    /\ via \in [Clients -> Daemons \cup {None}]
    /\ wire \in [Clients -> {"none", "pipe", "node", "running", "answered", "lost"}]
    /\ ran \in [Clients -> Nat]
    /\ restarts \in 0 .. MaxRestarts

\* The queue holds each request that waits in it, once.
PoolOK ==
    /\ \A i \in 1 .. Len(pool) : relay[pool[i]] = "pool"
    /\ \A i, j \in 1 .. Len(pool) : pool[i] = pool[j] => i = j
    /\ \A c \in Clients : relay[c] = "pool" => \E i \in 1 .. Len(pool) : pool[i] = c

ThreadsOK == IsFiniteSet(Busy) /\ Cardinality(Busy) <= Threads

\* A request leaves the controller once, when a thread sends it; where it is on
\* the wire tells whether it has been executed.
WireOK ==
    \A c \in Clients :
        /\ relay[c] \in {"none", "inbox", "pool"} => wire[c] = "none"
        /\ relay[c] = "sent" => wire[c] # "none"
        /\ wire[c] # "none" => via[c] \in Daemons
        /\ wire[c] \in {"none", "pipe", "node"} => ran[c] = 0
        /\ wire[c] \in {"running", "answered"} => ran[c] = 1
        /\ wire[c] = "lost" => ran[c] <= 1

\* What the relay has to say is true.
ResultOK ==
    \A c \in Clients :
        /\ result[c] # "none" <=> relay[c] = "replied"
        /\ result[c] = "ok" => ran[c] = 1
        /\ result[c] = "unknown_node" => wire[c] = "none"

\* What the client has heard is true.
ClientOK ==
    \A c \in Clients :
        /\ req[c] = "idle" <=> relay[c] = "none"
        /\ req[c] = "ok" => ran[c] = 1 /\ relay[c] = "gone"
        /\ req[c] = "unknown_node" => wire[c] = "none" /\ relay[c] = "gone"

\* What a client waits for is not lost without a death or a restart.
WaitOK ==
    \A c \in Clients :
        /\ relay[c] = "sent" /\ wire[c] = "lost" => daemon[via[c]] = "dead"
        /\ relay[c] = "gone" /\ req[c] = "waiting" => restarts > 0

RelayInv == RelayTypes /\ PoolOK /\ ThreadsOK /\ WireOK /\ ResultOK /\ ClientOK /\ WaitOK

-----------------------------------------------------------------------------
LEMMA RelayInitInv == RelayInit => RelayInv
<1> SUFFICES ASSUME RelayInit PROVE RelayInv
  OBVIOUS
<1> USE DEF RelayInit
<1>1. RelayTypes
  BY RelayAssumption DEF RelayTypes, FleetInit, FleetTypeOK
<1>2. PoolOK
  BY DEF PoolOK
<1>3. ThreadsOK
  <2>1. Busy = {}
    BY DEF Busy
  <2> QED
    BY <2>1, FS_EmptySet, RelayAssumption DEF ThreadsOK
<1>4. WireOK /\ ResultOK /\ ClientOK /\ WaitOK
  BY DEF WireOK, ResultOK, ClientOK, WaitOK
<1> QED
  BY <1>1, <1>2, <1>3, <1>4 DEF RelayInv

\* Fewer threads at work are no more than there are.
LEMMA FewerBusy ==
    ASSUME ThreadsOK, Busy' \subseteq Busy
    PROVE  ThreadsOK'
<1>1. IsFiniteSet(Busy') /\ Cardinality(Busy') <= Cardinality(Busy)
  BY FS_Subset DEF ThreadsOK
<1>2. Cardinality(Busy) \in Nat /\ Cardinality(Busy') \in Nat
  BY <1>1, FS_CardinalityType DEF ThreadsOK
<1> QED
  BY <1>1, <1>2, RelayAssumption DEF ThreadsOK

\* Nothing outside the queue matters to it.
LEMMA PoolKept ==
    ASSUME RelayTypes, PoolOK, UNCHANGED pool, NEW c \in Clients, NEW to,
           relay[c] # "pool", to # "pool", relay' = [relay EXCEPT ![c] = to]
    PROVE  PoolOK'
<1>1. \A i \in 1 .. Len(pool) : pool[i] \in Clients
  BY DEF RelayTypes
<1> QED
  BY <1>1 DEF PoolOK, RelayTypes

\* A thread takes the first request of the queue.
LEMMA PoolTaken ==
    ASSUME RelayTypes, PoolOK, NEW c \in Clients, TakeUp(c), NEW to,
           to # "pool", relay' = [relay EXCEPT ![c] = to]
    PROVE  /\ relay[c] = "pool"
           /\ pool' \in Seq(Clients)
           /\ PoolOK'
<1>1. /\ pool \in Seq(Clients) /\ pool # <<>> /\ pool[1] = c /\ pool' = Tail(pool)
      /\ Len(pool) \in Nat /\ Len(pool) >= 1
  BY DEF TakeUp, RelayTypes
<1>2. /\ pool' \in Seq(Clients)
      /\ Len(pool') = Len(pool) - 1
      /\ \A i \in 1 .. Len(pool') : pool'[i] = pool[i + 1]
  BY <1>1
<1>3. relay[c] = "pool"
  BY <1>1 DEF PoolOK
<1>4. \A i \in 1 .. Len(pool) : pool[i] \in Clients
  BY <1>1
<1>5. \A i \in 1 .. Len(pool') : relay'[pool'[i]] = "pool"
  <2> SUFFICES ASSUME NEW i \in 1 .. Len(pool') PROVE relay'[pool'[i]] = "pool"
    OBVIOUS
  <2>1. i + 1 \in 1 .. Len(pool) /\ pool'[i] = pool[i + 1] /\ i + 1 # 1
    BY <1>1, <1>2
  <2>2. pool[i + 1] # c
    BY <1>1, <2>1 DEF PoolOK
  <2> QED
    BY <1>4, <2>1, <2>2 DEF PoolOK, RelayTypes
<1>6. \A i, j \in 1 .. Len(pool') : pool'[i] = pool'[j] => i = j
  <2> SUFFICES ASSUME NEW i \in 1 .. Len(pool'), NEW j \in 1 .. Len(pool'), pool'[i] = pool'[j]
               PROVE  i = j
    OBVIOUS
  <2>1. i + 1 \in 1 .. Len(pool) /\ j + 1 \in 1 .. Len(pool) /\ pool[i + 1] = pool[j + 1]
    BY <1>1, <1>2
  <2>2. i + 1 = j + 1
    BY <2>1 DEF PoolOK
  <2> QED
    BY <2>2
<1>7. ASSUME NEW e \in Clients, relay'[e] = "pool"
      PROVE  \E i \in 1 .. Len(pool') : pool'[i] = e
  <2>1. e # c /\ relay[e] = "pool"
    BY <1>7 DEF RelayTypes
  <2>2. PICK i \in 1 .. Len(pool) : pool[i] = e
    BY <2>1 DEF PoolOK
  <2>3. i - 1 \in 1 .. Len(pool') /\ pool'[i - 1] = e
    BY <1>1, <1>2, <2>1, <2>2
  <2> QED
    BY <2>3
<1> QED
  BY <1>2, <1>3, <1>5, <1>6, <1>7 DEF PoolOK

-----------------------------------------------------------------------------
LEMMA CallInv ==
    ASSUME RelayInv, NEW c \in Clients, Call(c), UNCHANGED <<fleetVars, restarts>>
    PROVE  RelayInv'
<1> USE DEF RelayInv, fleetVars
<1>1. RelayTypes'
  BY DEF RelayTypes, FleetTypeOK, Call
<1>2. relay[c] = "none"
  BY DEF Call, ClientOK
<1>3. PoolOK'
  BY <1>2, PoolKept DEF Call
<1>4. ThreadsOK'
  <2>1. Busy' \subseteq Busy
    BY DEF Busy, Call, RelayTypes
  <2> QED
    BY <2>1, FewerBusy
<1>5. WireOK' /\ ResultOK' /\ ClientOK' /\ WaitOK'
  BY <1>2 DEF Call, RelayTypes, WireOK, ResultOK, ClientOK, WaitOK
<1> QED
  BY <1>1, <1>3, <1>4, <1>5

LEMMA GiveUpInv ==
    ASSUME RelayInv, NEW c \in Clients, GiveUp(c), UNCHANGED <<fleetVars, restarts>>
    PROVE  RelayInv'
<1> USE DEF RelayInv, fleetVars
<1>1. RelayTypes'
  BY DEF RelayTypes, FleetTypeOK, GiveUp
<1>2. PoolOK' /\ ThreadsOK'
  BY DEF GiveUp, PoolOK, ThreadsOK, Busy
<1>3. WireOK' /\ ResultOK' /\ ClientOK' /\ WaitOK'
  BY DEF GiveUp, RelayTypes, WireOK, ResultOK, ClientOK, WaitOK
<1> QED
  BY <1>1, <1>2, <1>3

LEMMA AcceptInv ==
    ASSUME RelayInv, NEW c \in Clients, Accept(c), UNCHANGED <<fleetVars, restarts>>
    PROVE  RelayInv'
<1> USE DEF RelayInv, fleetVars
<1>1. RelayTypes'
  BY DEF RelayTypes, FleetTypeOK, Accept
<1>2. PoolOK'
  <2>1. /\ Len(pool') = Len(pool) + 1 /\ Len(pool) \in Nat
        /\ \A i \in 1 .. Len(pool) : pool'[i] = pool[i] /\ pool[i] \in Clients
        /\ pool'[Len(pool) + 1] = c
    BY DEF Accept, RelayTypes
  <2>2. \A i \in 1 .. Len(pool) : pool[i] # c
    BY DEF Accept, PoolOK
  <2>3. \A i \in 1 .. Len(pool') : i \in 1 .. Len(pool) \/ i = Len(pool) + 1
    BY <2>1
  <2>4. \A i \in 1 .. Len(pool') : relay'[pool'[i]] = "pool"
    BY <2>1, <2>3 DEF Accept, PoolOK, RelayTypes
  <2>5. \A i, j \in 1 .. Len(pool') : pool'[i] = pool'[j] => i = j
    BY <2>1, <2>2, <2>3 DEF PoolOK
  <2>6. \A e \in Clients : relay'[e] = "pool" => \E i \in 1 .. Len(pool') : pool'[i] = e
    <3>1. 1 .. Len(pool) \subseteq 1 .. Len(pool') /\ Len(pool) + 1 \in 1 .. Len(pool')
      BY <2>1
    <3>2. \A e \in Clients : relay'[e] = "pool" => e = c \/ relay[e] = "pool"
      BY DEF Accept, RelayTypes
    <3> QED
      BY <2>1, <3>1, <3>2 DEF PoolOK
  <2> QED
    BY <2>4, <2>5, <2>6 DEF PoolOK
<1>3. ThreadsOK'
  <2>1. Busy' \subseteq Busy
    BY DEF Busy, Accept, RelayTypes
  <2> QED
    BY <2>1, FewerBusy
<1>4. WireOK' /\ ResultOK' /\ ClientOK' /\ WaitOK'
  BY DEF Accept, RelayTypes, WireOK, ResultOK, ClientOK, WaitOK
<1> QED
  BY <1>1, <1>2, <1>3, <1>4

LEMMA RefuseInv ==
    ASSUME RelayInv, NEW c \in Clients, Refuse(c), UNCHANGED <<fleetVars, restarts>>
    PROVE  RelayInv'
<1> USE DEF RelayInv, fleetVars
<1>1. relay[c] = "pool" /\ pool' \in Seq(Clients) /\ PoolOK'
  BY PoolTaken DEF Refuse
<1>2. RelayTypes'
  BY <1>1 DEF RelayTypes, FleetTypeOK, Refuse, Results
<1>3. ThreadsOK'
  <2>1. Busy' \subseteq Busy
    BY DEF Busy, Refuse, RelayTypes
  <2> QED
    BY <2>1, FewerBusy
<1>4. WireOK' /\ ResultOK' /\ ClientOK' /\ WaitOK'
  BY <1>1 DEF Refuse, RelayTypes, WireOK, ResultOK, ClientOK, WaitOK
<1> QED
  BY <1>1, <1>2, <1>3, <1>4

LEMMA SendInv ==
    ASSUME RelayInv, NEW c \in Clients, Send(c), UNCHANGED <<fleetVars, restarts>>
    PROVE  RelayInv'
<1> USE DEF RelayInv, fleetVars
<1>1. relay[c] = "pool" /\ pool' \in Seq(Clients) /\ PoolOK'
  BY PoolTaken DEF Send
<1>2. nodes[Target[c]] \in Daemons
  BY RelayAssumption DEF Send, RelayTypes, FleetTypeOK
<1>3. RelayTypes'
  BY <1>1, <1>2 DEF RelayTypes, FleetTypeOK, Send
<1>4. ThreadsOK'
  <2>1. Busy' = Busy \cup {c} /\ c \notin Busy
    BY <1>1 DEF Busy, Send, RelayTypes
  <2>2. IsFiniteSet(Busy') /\ Cardinality(Busy') = Cardinality(Busy) + 1
    BY <2>1, FS_AddElement DEF ThreadsOK
  <2>3. Cardinality(Busy) \in Nat /\ Cardinality(Busy) < Threads
    BY FS_CardinalityType DEF Send, TakeUp, ThreadsOK
  <2> QED
    BY <2>2, <2>3, RelayAssumption DEF ThreadsOK
<1>5. WireOK' /\ ResultOK' /\ ClientOK' /\ WaitOK'
  BY <1>1, <1>2 DEF Send, RelayTypes, WireOK, ResultOK, ClientOK, WaitOK
<1> QED
  BY <1>1, <1>3, <1>4, <1>5

LEMMA PassOnInv ==
    ASSUME RelayInv, NEW c \in Clients, PassOn(c), UNCHANGED <<fleetVars, restarts>>
    PROVE  RelayInv'
<1> USE DEF RelayInv, fleetVars
<1>1. RelayTypes'
  BY DEF RelayTypes, FleetTypeOK, PassOn, Results
<1>2. PoolOK'
  BY PoolKept DEF PassOn
<1>3. ThreadsOK'
  <2>1. Busy' \subseteq Busy
    BY DEF Busy, PassOn, RelayTypes
  <2> QED
    BY <2>1, FewerBusy
<1>4. WireOK' /\ ResultOK' /\ ClientOK' /\ WaitOK'
  BY DEF PassOn, RelayTypes, WireOK, ResultOK, ClientOK, WaitOK
<1> QED
  BY <1>1, <1>2, <1>3, <1>4

LEMMA RelayTimeoutInv ==
    ASSUME RelayInv, NEW c \in Clients, RelayTimeout(c), UNCHANGED <<fleetVars, restarts>>
    PROVE  RelayInv'
<1> USE DEF RelayInv, fleetVars
<1>1. RelayTypes'
  BY DEF RelayTypes, FleetTypeOK, RelayTimeout, Results
<1>2. PoolOK'
  BY PoolKept DEF RelayTimeout
<1>3. ThreadsOK'
  <2>1. Busy' \subseteq Busy
    BY DEF Busy, RelayTimeout, RelayTypes
  <2> QED
    BY <2>1, FewerBusy
<1>4. WireOK' /\ ResultOK' /\ ClientOK' /\ WaitOK'
  BY DEF RelayTimeout, RelayTypes, WireOK, ResultOK, ClientOK, WaitOK
<1> QED
  BY <1>1, <1>2, <1>3, <1>4

LEMMA ForwardInv ==
    ASSUME RelayInv, NEW c \in Clients, Forward(c), UNCHANGED <<fleetVars, restarts>>
    PROVE  RelayInv'
<1> USE DEF RelayInv, fleetVars
<1>1. RelayTypes'
  BY DEF RelayTypes, FleetTypeOK, Forward, ResultOK
<1>2. PoolOK'
  BY PoolKept DEF Forward
<1>3. ThreadsOK'
  <2>1. Busy' \subseteq Busy
    BY DEF Busy, Forward, RelayTypes
  <2> QED
    BY <2>1, FewerBusy
<1>4. result[c] \in Results
  BY DEF Forward, RelayTypes, ResultOK
<1>5. WireOK' /\ ResultOK' /\ ClientOK' /\ WaitOK'
  BY <1>4 DEF Forward, RelayTypes, Results, WireOK, ResultOK, ClientOK, WaitOK
<1> QED
  BY <1>1, <1>2, <1>3, <1>5

-----------------------------------------------------------------------------
LEMMA NodeStepInv ==
    ASSUME RelayInv, NEW c \in Clients, NodeStep(c), UNCHANGED <<fleetVars, restarts>>
    PROVE  RelayInv'
<1> USE DEF RelayInv, fleetVars
<1>1. UNCHANGED <<req, relay, pool, result, via>>
  BY DEF NodeStep, Arrive, Serve, FinishRun
<1>2. PoolOK' /\ ThreadsOK'
  BY <1>1 DEF PoolOK, ThreadsOK, Busy
<1>3. CASE Arrive(c)
  <2>1. RelayTypes'
    BY <1>3 DEF RelayTypes, FleetTypeOK, Arrive
  <2>2. WireOK' /\ ResultOK' /\ ClientOK' /\ WaitOK'
    BY <1>3 DEF Arrive, RelayTypes, WireOK, ResultOK, ClientOK, WaitOK
  <2> QED
    BY <1>2, <2>1, <2>2
<1>4. CASE Serve(c)
  <2>1. RelayTypes'
    BY <1>4 DEF RelayTypes, FleetTypeOK, Serve
  <2>2. WireOK' /\ ResultOK' /\ ClientOK' /\ WaitOK'
    BY <1>4 DEF Serve, RelayTypes, WireOK, ResultOK, ClientOK, WaitOK
  <2> QED
    BY <1>2, <2>1, <2>2
<1>5. CASE FinishRun(c)
  <2>1. RelayTypes'
    BY <1>5 DEF RelayTypes, FleetTypeOK, FinishRun
  <2>2. WireOK' /\ ResultOK' /\ ClientOK' /\ WaitOK'
    BY <1>5 DEF FinishRun, RelayTypes, WireOK, ResultOK, ClientOK, WaitOK
  <2> QED
    BY <1>2, <2>1, <2>2
<1> QED
  BY <1>3, <1>4, <1>5 DEF NodeStep

LEMMA RelayDeathInv == ASSUME RelayInv, NEW d \in Daemons, RelayDeath(d) PROVE RelayInv'
<1> USE DEF RelayInv
<1>1. RelayTypes'
  BY DEF RelayTypes, FleetTypeOK, RelayDeath, Dies
<1>2. PoolOK' /\ ThreadsOK'
  BY DEF RelayDeath, PoolOK, ThreadsOK, Busy
<1>3. daemon'[d] = "dead" /\ \A e \in Daemons : daemon[e] = "dead" => daemon'[e] = "dead"
  BY DEF RelayDeath, Dies, RelayTypes, FleetTypeOK
<1>4. \A c \in Clients : wire'[c] = wire[c] \/ (/\ via[c] = d
                                                /\ wire[c] \in {"node", "running", "answered"}
                                                /\ wire'[c] = "lost")
  BY DEF RelayDeath, At
<1>5. WireOK' /\ ResultOK' /\ ClientOK' /\ WaitOK'
  BY <1>3, <1>4 DEF RelayDeath, RelayTypes, WireOK, ResultOK, ClientOK, WaitOK
<1> QED
  BY <1>1, <1>2, <1>5

LEMMA RelayRestartInv == ASSUME RelayInv, RelayRestart PROVE RelayInv'
<1> USE DEF RelayInv
<1>1. PICK lost \in SUBSET {c \in Clients : relay[c] = "inbox"} :
        relay' = [c \in Clients |->
                    IF relay[c] \in {"pool", "sent", "replied"} \/ c \in lost
                    THEN "gone" ELSE relay[c]]
  BY DEF RelayRestart
<1>2. restarts' = restarts + 1 /\ restarts' \in 0 .. MaxRestarts /\ restarts' > 0
  BY RelayAssumption DEF RelayRestart, RelayTypes
<1>3. RelayTypes'
  BY <1>1, <1>2 DEF RelayTypes, FleetTypeOK, RelayRestart, Forget
<1>4. \A c \in Clients : relay'[c] \notin {"pool", "sent", "replied"}
  BY <1>1 DEF RelayTypes
<1>5. PoolOK'
  <2>1. pool' = <<>>
    BY DEF RelayRestart
  <2> QED
    BY <1>4, <2>1 DEF PoolOK
<1>6. ThreadsOK'
  <2>1. Busy' \subseteq Busy
    BY <1>4 DEF Busy
  <2> QED
    BY <2>1, FewerBusy
<1>7. WireOK' /\ ResultOK' /\ ClientOK' /\ WaitOK'
  BY <1>1, <1>2 DEF RelayRestart, RelayTypes, WireOK, ResultOK, ClientOK, WaitOK
<1> QED
  BY <1>3, <1>5, <1>6, <1>7

\* The fleet moves on its own: the dead stay dead.
LEMMA FleetInv ==
    ASSUME RelayInv, FleetStep, UNCHANGED <<requestVars, restarts>>
    PROVE  RelayInv'
<1> USE DEF RelayInv, requestVars
<1>1. FleetTypeOK' /\ \A e \in Daemons : daemon[e] = "dead" => daemon'[e] = "dead"
  BY NamesAssumption DEF FleetStep, Starts, Record, Forget, RelayTypes, FleetTypeOK
<1>2. RelayTypes'
  BY <1>1 DEF RelayTypes
<1>3. PoolOK' /\ ThreadsOK' /\ WireOK' /\ ResultOK' /\ ClientOK'
  BY DEF PoolOK, ThreadsOK, Busy, WireOK, ResultOK, ClientOK
<1>4. WaitOK'
  BY <1>1 DEF WaitOK, WireOK
<1> QED
  BY <1>2, <1>3, <1>4

LEMMA RelayNextInv == RelayInv /\ [RelayNext]_relayVars => RelayInv'
<1> SUFFICES ASSUME RelayInv, [RelayNext]_relayVars PROVE RelayInv'
  OBVIOUS
<1>1. CASE FleetStep /\ UNCHANGED <<requestVars, restarts>>
  BY <1>1, FleetInv
<1>2. ASSUME NEW c \in Clients, UNCHANGED <<fleetVars, restarts>>,
             Call(c) \/ GiveUp(c) \/ ControllerStep(c) \/ NodeStep(c)
      PROVE  RelayInv'
  BY <1>2, CallInv, GiveUpInv, AcceptInv, RefuseInv, SendInv, PassOnInv, RelayTimeoutInv,
     ForwardInv, NodeStepInv DEF ControllerStep
<1>3. CASE \E d \in Daemons : RelayDeath(d)
  BY <1>3, RelayDeathInv
<1>4. CASE RelayRestart
  BY <1>4, RelayRestartInv
<1>5. CASE UNCHANGED relayVars
  BY <1>5 DEF relayVars, requestVars, fleetVars, RelayInv, RelayTypes, FleetTypeOK, PoolOK, ThreadsOK, Busy,
         WireOK, ResultOK, ClientOK, WaitOK
<1> QED
  BY <1>1, <1>2, <1>3, <1>4, <1>5 DEF RelayNext

LEMMA RelayInvariance == RelaySpec => []RelayInv
  BY RelayInitInv, RelayNextInv, PTL DEF RelaySpec

-----------------------------------------------------------------------------
\* The variables keep their types, the queue holds the requests that wait in it,
\* and no more relays are under way than there are threads.
THEOREM RelayTypeCorrect == RelaySpec => []RelayTypeOK
<1>1. RelayInv => RelayTypeOK
  <2> SUFFICES ASSUME RelayInv PROVE RelayTypeOK
    OBVIOUS
  <2>1. ToSet(pool) = {c \in Clients : relay[c] = "pool"}
    <3>1. DOMAIN pool = 1 .. Len(pool) /\ \A i \in 1 .. Len(pool) : pool[i] \in Clients
      BY DEF RelayInv, RelayTypes
    <3> QED
      BY <3>1 DEF RelayInv, PoolOK, ToSet
  <2> QED
    BY <2>1 DEF RelayInv, RelayTypes, ThreadsOK, Busy, RelayTypeOK
<1> QED
  BY <1>1, RelayInvariance, PTL

\* What a client is told is true, whichever deadline passes first.
THEOREM ClientsToldTheTruth == RelaySpec => []RepliesTruthful
<1>1. RelayInv => RepliesTruthful
  BY DEF RelayInv, RelayTypes, WireOK, ClientOK, RepliesTruthful
<1> QED
  BY <1>1, RelayInvariance, PTL

\* Only a deadline, a death or a restart keeps the reply from a client.
THEOREM SilenceHasACause == RelaySpec => []NothingUnheard
<1>1. RelayInv => NothingUnheard
  <2> SUFFICES ASSUME RelayInv, NEW c \in Clients, ran[c] = 1, req[c] = "waiting"
               PROVE  \/ relay[c] = "sent" /\ wire[c] \in {"running", "answered"}
                      \/ relay[c] = "sent" /\ daemon[via[c]] = "dead"
                      \/ relay[c] = "replied" /\ result[c] \in {"ok", "relay_timeout"}
                      \/ relay[c] = "gone" /\ restarts > 0
    BY DEF NothingUnheard
  <2>1. wire[c] \in {"running", "answered", "lost"}
    <3>1. wire[c] \in {"none", "pipe", "node", "running", "answered", "lost"}
      BY DEF RelayInv, RelayTypes
    <3>2. ~(wire[c] \in {"none", "pipe", "node"})
      <4>1. ran[c] # 0
        OBVIOUS
      <4> QED
        BY <4>1 DEF RelayInv, WireOK
    <3> QED
      BY <3>1, <3>2
  <2>2. relay[c] \in {"sent", "replied", "gone"}
    BY <2>1 DEF RelayInv, RelayTypes, WireOK
  <2>3. CASE relay[c] = "replied"
    BY <2>1, <2>3 DEF RelayInv, RelayTypes, Results, ResultOK
  <2> QED
    BY <2>1, <2>2, <2>3 DEF RelayInv, WaitOK
<1> QED
  BY <1>1, RelayInvariance, PTL
=============================================================================
