------------------------------ MODULE Messages ------------------------------
(***************************************************************************)
(* Messages between coordination seats: a sender broadcasts to one seat    *)
(* that it knows under two names, the node coord-x of its own controller   *)
(* and the entry x of its sshhosts (client.py, msg send @coords), and the  *)
(* deposit tool writes each message into the inbox of the seat             *)
(* (bin_pub/obt.net.msg.deposit.py), run by the seat's node or over ssh,   *)
(* while its owner acknowledges what is there. What Relay promises of a    *)
(* request (at most one execution, an answer only after it) is taken for   *)
(* granted here.                                                           *)
(***************************************************************************)
EXTENDS Naturals, Sequences, FiniteSets

CONSTANTS
  Messages,    \* the messages sent
  Base,        \* Base[m]: second, sender and subject of m, which name its file
  MaxShifts,   \* bound on changes of the roster
  MaxFaults    \* bound on failed and killed deposits and restarts of the node

ASSUME BoundsAssumption ==
  /\ IsFiniteSet(Messages)
  /\ MaxShifts \in Nat /\ MaxFaults \in Nat

VARIABLES
  roster,   \* how the sender's controller lists coord-x: "live", "stale" or "gone"
  send,     \* send[m]: the progress of the broadcast of m
  dep,      \* dep[<<m, a>>]: the deposit of m sent for the target a
  inbox,    \* inbox/: file name to the deposit whose message it holds
  acked,    \* inbox/acked/, likewise
  stream,   \* inbox.stream: its lines, each the deposit and the path it names
  steady,   \* history: the broadcasts during which the roster has not changed
  shifts,   \* roster changes so far
  faults    \* faults so far

vars == <<roster, send, dep, inbox, acked, stream, steady, shifts, faults>>
unchangedClient == <<roster, send, steady, shifts>>
unchangedSeat == <<dep, inbox, acked, stream, faults>>

Aliases == {"coord-x", "x"}
Deposits == Messages \X Aliases
Names == {Base[m] : m \in Messages} \X (1 .. Cardinality(Deposits))
NoName == <<"none", 0>>
Stages == {"none", "queued", "named", "landed", "done", "failed", "lost"}

\* A directory with d in the file n, over what the file may have held.
With(dir, n, d) == [k \in DOMAIN dir \cup {n} |-> IF k = n THEN d ELSE dir[k]]

-----------------------------------------------------------------------------
(* Routing. Both names lead to the node while the controller lists it; the *)
(* ssh route is taken for x when it does not, and then coord-x has none.   *)

Route(a) ==
  IF roster # "gone" THEN "node" ELSE IF a = "x" THEN "ssh" ELSE "none"

CoordTargets == IF roster = "live" THEN <<"coord-x", "x">> ELSE <<"x">>

Target(m) == Head(send[m].left)
Busy(m) == send[m].left # <<>>

Start(m) ==
  /\ send[m].at = "idle"
  /\ send' = [send EXCEPT ![m].at = "choose", ![m].left = CoordTargets]
  /\ steady' = steady \cup {m}
  /\ UNCHANGED <<roster, shifts, unchangedSeat>>

\* The target is dealt with, well ("ok"), badly ("failed") or not at all.
Settled(m, ok, failed) ==
  send' = [send EXCEPT ![m].at = "choose", ![m].left = Tail(@),
                       ![m].ok = @ \cup ok, ![m].failed = @ \cup failed]

\* Fault: the loop remembers the targets instead of the routes.
SeenTarget(m) == Target(m) \in send[m].ok \cup send[m].failed
SeenRoute(m) == Route(Target(m)) \in send[m].seen

Classify(m) ==
  /\ send[m].at = "choose" /\ Busy(m)
  /\ \/ Route(Target(m)) = "none" /\ Settled(m, {}, {Target(m)})
     \/ Route(Target(m)) # "none" /\ SeenRoute(m) /\ Settled(m, {}, {})
     \/ /\ Route(Target(m)) # "none" /\ ~SeenRoute(m)
        /\ send' = [send EXCEPT ![m].at = "send", ![m].seen = @ \cup {Route(Target(m))}]
  /\ UNCHANGED <<roster, steady, shifts, unchangedSeat>>

(* _do_msg_send looks the route up once more, and sends along that one.    *)
Send(m) ==
  /\ send[m].at = "send"
  /\ \/ Route(Target(m)) = "none" /\ Settled(m, {}, {Target(m)}) /\ UNCHANGED dep
     \/ /\ Route(Target(m)) # "none"
        /\ dep' = [dep EXCEPT ![<<m, Target(m)>>].route = Route(Target(m)),
                              ![<<m, Target(m)>>].at = "queued"]
        /\ send' = [send EXCEPT ![m].at = "wait"]
  /\ UNCHANGED <<roster, inbox, acked, stream, steady, shifts, faults>>

Awaited(m) == dep[<<m, Target(m)>>]

\* Fault: a deposit that fails or is killed is taken for one that ended well.
HearAnything(m) ==
  /\ send[m].at = "wait" /\ Awaited(m).route \in {"node", "ssh"}
  /\ Awaited(m).at \in {"done", "failed"}
  /\ Settled(m, {Target(m)}, {})
  /\ UNCHANGED <<roster, steady, shifts, unchangedSeat>>

Hear(m) ==
  /\ send[m].at = "wait" /\ Awaited(m).route \in {"node", "ssh"}
  /\ \/ Awaited(m).at = "done" /\ Settled(m, {Target(m)}, {})
     \/ Awaited(m).at = "failed" /\ Settled(m, {}, {Target(m)})
  /\ UNCHANGED <<roster, steady, shifts, unchangedSeat>>

(* The deadline of the relay, of the client or of ssh: the deposit goes on.*)
GiveUp(m) ==
  /\ send[m].at = "wait"
  /\ Settled(m, {}, {Target(m)})
  /\ UNCHANGED <<roster, steady, shifts, unchangedSeat>>

Shift ==
  /\ shifts < MaxShifts
  /\ roster' \in {"live", "stale", "gone"} \ {roster}
  /\ shifts' = shifts + 1
  /\ steady' = steady \ {m \in Messages : Busy(m)}
  /\ UNCHANGED <<send, unchangedSeat>>

-----------------------------------------------------------------------------
(* The deposit tool.                                                       *)

Running == {"named", "landed"}

\* Fault: the node runs commands side by side.
NodeAlways == TRUE
\* The node's control loop runs one command at a time.
NodeFree == \A d \in Deposits : dep[d].route = "node" => dep[d].at \notin Running

\* The first name of the series that no file of the inbox has.
FreeName(b) ==
  <<b, CHOOSE n \in 1 .. Cardinality(Deposits) :
         <<b, n>> \notin DOMAIN inbox /\ \A k \in 1 .. n - 1 : <<b, k>> \in DOMAIN inbox>>

Begin(d) ==
  /\ dep[d].at = "queued"
  /\ dep[d].route = "node" => NodeFree
  /\ dep' = [dep EXCEPT ![d].at = "named", ![d].name = FreeName(Base[d[1]])]
  /\ UNCHANGED <<inbox, acked, stream, faults, unchangedClient>>

\* Fault: the line is written before the file is in place.
LineFirst(d) ==
  /\ dep[d].at = "named"
  /\ dep' = [dep EXCEPT ![d].at = "landed"]
  /\ stream' = stream \cup {<<d, dep[d].name>>}
  /\ UNCHANGED <<inbox, acked, faults, unchangedClient>>

Replace(d) ==
  /\ dep[d].at = "named"
  /\ dep' = [dep EXCEPT ![d].at = "landed"]
  /\ inbox' = With(inbox, dep[d].name, d)
  /\ UNCHANGED <<acked, stream, faults, unchangedClient>>

AppendLine(d) ==
  /\ dep[d].at = "landed"
  /\ dep' = [dep EXCEPT ![d].at = "done"]
  /\ stream' = stream \cup {<<d, dep[d].name>>}
  /\ UNCHANGED <<inbox, acked, faults, unchangedClient>>

(* A write that fails, or the end of the thirty seconds a node allows the  *)
(* tool: the temporary file goes, what has landed stays.                   *)
Fails(d) ==
  /\ faults < MaxFaults
  /\ faults' = faults + 1
  /\ dep[d].at \in Running
  /\ dep' = [dep EXCEPT ![d].at = "failed", ![d].name = IF dep[d].at = "landed" THEN @ ELSE NoName]
  /\ UNCHANGED <<inbox, acked, stream, unchangedClient>>

(* The node dies and comes back: what waits at its socket is lost, and the *)
(* command it was running lives on in a session of its own.                *)
NodeRestart ==
  /\ faults < MaxFaults
  /\ faults' = faults + 1
  /\ dep' = [d \in Deposits |->
       IF dep[d].route # "node" THEN dep[d]
       ELSE IF dep[d].at = "queued" THEN [dep[d] EXCEPT !.at = "lost"]
       ELSE IF dep[d].at \in Running THEN [dep[d] EXCEPT !.route = "orphan"]
       ELSE dep[d]]
  /\ UNCHANGED <<inbox, acked, stream, unchangedClient>>

(* msg ack: the file moves to acked/, over a file of that name.            *)
Ack(n) ==
  /\ n \in DOMAIN inbox
  /\ acked' = With(acked, n, inbox[n])
  /\ inbox' = [k \in DOMAIN inbox \ {n} |-> inbox[k]]
  /\ UNCHANGED <<dep, stream, faults, unchangedClient>>

Work(d) == Begin(d) \/ Replace(d) \/ AppendLine(d)
Broadcast(m) == Classify(m) \/ Send(m) \/ Hear(m) \/ GiveUp(m)

Init ==
  /\ roster \in {"live", "stale", "gone"}
  /\ send = [m \in Messages |->
       [at |-> "idle", left |-> <<>>, seen |-> {}, ok |-> {}, failed |-> {}]]
  /\ dep = [d \in Deposits |-> [route |-> "none", at |-> "none", name |-> NoName]]
  /\ inbox = <<>> /\ acked = <<>> /\ stream = {}
  /\ steady = {} /\ shifts = 0 /\ faults = 0

Next ==
  \/ \E m \in Messages : Start(m) \/ Broadcast(m)
  \/ Shift
  \/ \E d \in Deposits : Work(d) \/ Fails(d)
  \/ NodeRestart
  \/ \E n \in DOMAIN inbox : Ack(n)

Spec == Init /\ [][Next]_vars

-----------------------------------------------------------------------------
(* Properties *)

TypeOK ==
  /\ roster \in {"live", "stale", "gone"}
  /\ send \in [Messages -> [at : {"idle", "choose", "send", "wait"},
                            left : {<<>>, <<"x">>, <<"coord-x", "x">>},
                            seen : SUBSET {"node", "ssh"},
                            ok : SUBSET Aliases, failed : SUBSET Aliases]]
  /\ dep \in [Deposits -> [route : {"none", "node", "ssh", "orphan"}, at : Stages,
                           name : Names \cup {NoName}]]
  /\ DOMAIN inbox \subseteq Names /\ DOMAIN acked \subseteq Names
  /\ stream \subseteq Deposits \X Names
  /\ steady \subseteq Messages

\* The deposit d has put its file under its name in the inbox.
HasLanded(d) == dep[d].name # NoName /\ dep[d].at # "named"

(* The tool's promise (deposit.py:22-24): a monitor that tails the stream  *)
(* never sees a line before its file exists. The file may since have been  *)
(* acknowledged, but the path it had is never one where nothing has been.  *)
LineHasFile ==
  \A l \in stream : l[2] \in DOMAIN inbox \cup DOMAIN acked

(* A seat that takes its messages through its node alone keeps them all:   *)
(* the node runs one deposit at a time, so two messages of one second get  *)
(* two names, and each is in the inbox until it is acknowledged. Over ssh, *)
(* or beside a deposit that outlived its node, this is not so.             *)
NodeInboxKeepsAll ==
  (\A d \in Deposits : dep[d].route \in {"none", "node"}) =>
    \A d \in Deposits : HasLanded(d) =>
      \/ dep[d].name \in DOMAIN inbox /\ inbox[dep[d].name] = d
      \/ dep[d].name \in DOMAIN acked

(* A sender that reports ok has its message in the stream, with a path     *)
(* that had a file: no failure on the way is reported as success.          *)
OkMeansDeposited ==
  \A d \in Deposits : d[2] \in send[d[1]].ok => HasLanded(d) /\ <<d, dep[d].name>> \in stream

(* client.py:1604-1606: the two names of a seat collapse onto one route,   *)
(* so that a broadcast deposits once, not twice, while the roster does not *)
(* change under it, whatever fails or is given up on the way.              *)
DepositOnce ==
  \A m \in steady : Cardinality({a \in Aliases : HasLanded(<<m, a>>)}) <= 1

(* client.py:1105-1106 says of a relay timeout that the link failed and    *)
(* nothing was delivered: what a sender gave up has not landed.            *)
NothingDelivered ==
  \A d \in Deposits : d[2] \in send[d[1]].failed => ~HasLanded(d)
=============================================================================
