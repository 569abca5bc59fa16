--------------------------- MODULE MessagesProofs ---------------------------
(***************************************************************************)
(* Proofs about the messages between seats, for any finite set of messages *)
(* whatever their seconds, senders and subjects, and any number of changes *)
(* of the roster, failed deposits and restarts of the node.                *)
(***************************************************************************)
EXTENDS Messages, FiniteSetTheorems, WellFoundedInduction, TLAPS

Both == <<"coord-x", "x">>
Last == <<"x">>

(* The loop has targets left whenever it is in the middle of one, and the  *)
(* inbox holds deposits.                                                   *)
MsgTypes ==
  /\ TypeOK
  /\ inbox \in [DOMAIN inbox -> Deposits]
  /\ \A m \in Messages : send[m].at \in {"send", "wait"} => send[m].left # <<>>

(* A deposit has a name from its beginning, its file from its replace and  *)
(* its line when it is done.                                               *)
DepOK ==
  \A d \in Deposits :
    /\ dep[d].at = "none" <=> dep[d].route = "none"
    /\ dep[d].at \in {"none", "queued", "lost"} => dep[d].name = NoName
    /\ dep[d].at \in {"named", "landed", "done"} => dep[d].name \in Names
    /\ HasLanded(d) => dep[d].name \in DOMAIN inbox \cup DOMAIN acked
    /\ dep[d].at = "done" => <<d, dep[d].name>> \in stream

(* A file of the inbox is that of a deposit that has landed under its name.*)
InboxOK ==
  \A n \in DOMAIN inbox : HasLanded(inbox[n]) /\ dep[inbox[n]].name = n

\* The broadcast of m has yet to send to a.
Due(m, a) ==
  /\ a = "coord-x" => send[m].left = Both
  /\ a = "x" => send[m].left # <<>>
  /\ send[m].at = "wait" => a = "x" /\ send[m].left = Both

(* A target is sent to once, and reported ok when its deposit is done.     *)
SendOK ==
  \A m \in Messages :
    /\ send[m].at = "idle" =>
         send[m].left = <<>> /\ \A a \in Aliases : dep[<<m, a>>].at = "none"
    /\ \A a \in Aliases : Due(m, a) => dep[<<m, a>>].at = "none"
    /\ \A a \in send[m].ok : dep[<<m, a>>].at = "done"

(* While the roster stands still only one of the two names is sent to:     *)
(* coord-x is a target only where it leads to the node, and once that      *)
(* route has been taken x, which leads to it as well, is passed over.      *)
SteadyOK ==
  \A m \in steady :
    /\ \E a \in Aliases : dep[<<m, a>>].at = "none"
    /\ send[m].left = Both => roster = "live"
    /\ /\ send[m].left # <<>>
       /\ dep[<<m, "coord-x">>].at # "none" \/ (send[m].at = "send" /\ send[m].left = Both)
       => roster # "gone" /\ "node" \in send[m].seen
    /\ send[m].at = "send" /\ send[m].left = Last => dep[<<m, "coord-x">>].at = "none"

NodeOnly == \A d \in Deposits : dep[d].route \in {"none", "node"}

(* The node runs one deposit at a time, and the name that one has taken is *)
(* still free.                                                             *)
OneAtATime ==
  NodeOnly =>
    /\ \A d, e \in Deposits : dep[d].at \in Running /\ dep[e].at \in Running => d = e
    /\ \A d \in Deposits : dep[d].at = "named" => dep[d].name \notin DOMAIN inbox

SeatInv == DepOK /\ InboxOK /\ LineHasFile /\ OneAtATime /\ NodeInboxKeepsAll
ClientInv == SendOK /\ SteadyOK
MsgInv == MsgTypes /\ SeatInv /\ ClientInv

-----------------------------------------------------------------------------
(* The names of the files.                                                 *)

LEMMA DepositsFinite ==
  IsFiniteSet(Deposits) /\ Cardinality(Deposits) \in Nat
<1>1. IsFiniteSet(Aliases)
  <2>1. IsFiniteSet({} \cup {"x"} \cup {"coord-x"})
    BY FS_EmptySet, FS_AddElement, Zenon
  <2>2. Aliases = {} \cup {"x"} \cup {"coord-x"}
    BY DEF Aliases
  <2> QED
    BY <2>1, <2>2
<1>2. IsFiniteSet(Deposits)
  BY <1>1, BoundsAssumption, FS_Product DEF Deposits
<1> QED
  BY <1>2, FS_CardinalityType

LEMMA NoNameIsNone == NoName \notin Names
BY DepositsFinite DEF NoName, Names

(* There is always a free name: each name taken is that of another deposit *)
(* than the one that looks for it.                                         *)
LEMMA NameIsLeft ==
  ASSUME MsgTypes, DepOK, InboxOK, NEW d \in Deposits, dep[d].at = "queued", NEW b
  PROVE  \E n \in 1 .. Cardinality(Deposits) : <<b, n>> \notin DOMAIN inbox
<1> DEFINE N == Cardinality(Deposits)
           f == [n \in 1 .. N |-> inbox[<<b, n>>]]
<1> SUFFICES ASSUME \A n \in 1 .. N : <<b, n>> \in DOMAIN inbox PROVE FALSE
  OBVIOUS
<1>1. N \in Nat /\ IsFiniteSet(Deposits)
  BY DepositsFinite
<1>2. IsFiniteSet(1 .. N) /\ Cardinality(1 .. N) = N
  BY <1>1, FS_Interval
<1>3. IsFiniteSet(Deposits \ {d}) /\ Cardinality(Deposits \ {d}) < N
  <2>1. /\ IsFiniteSet(Deposits \ {d})
        /\ Cardinality(Deposits \ {d}) = IF d \in Deposits THEN N - 1 ELSE N
    BY <1>1, FS_RemoveElement, Zenon
  <2> HIDE DEF N
  <2> QED
    BY <1>1, <2>1
<1>4. \A n \in 1 .. N : f[n] \in Deposits /\ f[n] # d /\ dep[f[n]].name = <<b, n>>
  <2> SUFFICES ASSUME NEW n \in 1 .. N
               PROVE  f[n] \in Deposits /\ f[n] # d /\ dep[f[n]].name = <<b, n>>
    OBVIOUS
  <2>1. f[n] = inbox[<<b, n>>] /\ <<b, n>> \in DOMAIN inbox
    OBVIOUS
  <2>2. f[n] \in Deposits /\ HasLanded(f[n]) /\ dep[f[n]].name = <<b, n>>
    BY <2>1 DEF MsgTypes, InboxOK
  <2>3. dep[d].name = NoName
    BY DEF DepOK
  <2> QED
    BY <2>2, <2>3 DEF HasLanded
<1>5. f \in [1 .. N -> Deposits \ {d}]
  BY <1>4
<1>6. PICK x, y \in 1 .. N : x # y /\ f[x] = f[y]
  <2> HIDE DEF f, N
  <2> QED
    BY <1>1, <1>2, <1>3, <1>5, FS_PigeonHole, SMT
<1>7. <<b, x>> = <<b, y>>
  BY <1>4, <1>6
<1> QED
  BY <1>6, <1>7

LEMMA FreeNameIsFree ==
  ASSUME MsgTypes, DepOK, InboxOK, NEW d \in Deposits, dep[d].at = "queued"
  PROVE  FreeName(Base[d[1]]) \in Names \ DOMAIN inbox
<1> DEFINE b == Base[d[1]]
           N == Cardinality(Deposits)
           free == {n \in 1 .. N : <<b, n>> \notin DOMAIN inbox}
           P(n) == /\ <<b, n>> \notin DOMAIN inbox
                   /\ \A k \in 1 .. n - 1 : <<b, k>> \in DOMAIN inbox
<1>1. free # {} /\ free \subseteq Nat
  BY NameIsLeft, DepositsFinite
<1>2. PICK n \in free : \A k \in free : <<k, n>> \notin OpToRel(<, Nat)
  <2> HIDE DEF free
  <2> QED
    BY <1>1, NatLessThanWellFounded, WFMin
<1>3. \A k \in free : ~(k < n)
  BY <1>1, <1>2 DEF OpToRel
<1>4. n \in 1 .. N /\ P(n)
  BY <1>3, DepositsFinite
<1> DEFINE c == CHOOSE k \in 1 .. N : P(k)
<1>5. c \in 1 .. N /\ P(c)
  <2> HIDE DEF P
  <2> QED
    BY <1>4
<1>6. FreeName(b) = <<b, c>>
  BY DEF FreeName
<1>7. b \in {Base[m] : m \in Messages}
  BY DEF Deposits
<1> QED
  BY <1>5, <1>6, <1>7 DEF Names

-----------------------------------------------------------------------------
(* The steps of the seat.                                                  *)

(* What the sender relies on: a deposit that was sent stays sent, and one  *)
(* that is done stays done.                                                *)
LEMMA SeatKeepsClient ==
  ASSUME ClientInv, MsgTypes, UNCHANGED unchangedClient,
         \A d \in Deposits : dep'[d].at = "none" <=> dep[d].at = "none",
         \A d \in Deposits : dep[d].at = "done" => dep'[d].at = "done"
  PROVE  ClientInv'
<1>1. UNCHANGED <<roster, send, steady>>
  BY DEF unchangedClient
<1>2. \A m \in Messages, a \in Aliases : <<m, a>> \in Deposits
  BY DEF Deposits
<1>3. SendOK'
  BY <1>1, <1>2 DEF ClientInv, SendOK, Due, MsgTypes, TypeOK
<1>4. SteadyOK'
  <2>1. "coord-x" \in Aliases
    BY DEF Aliases
  <2> QED
    BY <1>1, <1>2, <2>1, ZenonT(60) DEF ClientInv, SteadyOK, MsgTypes, TypeOK
<1> QED
  BY <1>3, <1>4 DEF ClientInv

LEMMA BeginInv == ASSUME MsgInv, NEW d \in Deposits, Begin(d) PROVE MsgInv'
<1> DEFINE n == FreeName(Base[d[1]])
<1>1. /\ dep[d].at = "queued"
      /\ dep[d].route = "node" => NodeFree
      /\ dep' = [dep EXCEPT ![d].at = "named", ![d].name = n]
      /\ UNCHANGED <<inbox, acked, stream, faults, roster, send, steady, shifts>>
  BY DEF Begin, unchangedClient
<1>2. n \in Names /\ n \notin DOMAIN inbox
  BY <1>1, FreeNameIsFree DEF MsgInv, SeatInv
<1> HIDE DEF n
<1>3. dep \in [Deposits -> [route : {"none", "node", "ssh", "orphan"}, at : Stages,
                            name : Names \cup {NoName}]]
  BY DEF MsgInv, MsgTypes, TypeOK
<1>4. \A e \in Deposits :
        dep'[e] = IF e = d THEN [dep[d] EXCEPT !.at = "named", !.name = n] ELSE dep[e]
  BY <1>1, <1>3
<1>5. dep'[d].at = "named" /\ dep'[d].name = n /\ dep'[d].route = dep[d].route
  BY <1>3, <1>4
<1>6. MsgTypes'
  <2>1. dep' \in [Deposits -> [route : {"none", "node", "ssh", "orphan"}, at : Stages,
                              name : Names \cup {NoName}]]
    BY <1>1, <1>2, <1>3, ZenonT(60) DEF Stages
  <2> QED
    BY <1>1, <2>1 DEF MsgInv, MsgTypes, TypeOK
<1>7. DepOK'
  <2> SUFFICES ASSUME NEW e \in Deposits
               PROVE  /\ dep'[e].at = "none" <=> dep'[e].route = "none"
                      /\ dep'[e].at \in {"none", "queued", "lost"} => dep'[e].name = NoName
                      /\ dep'[e].at \in {"named", "landed", "done"} => dep'[e].name \in Names
                      /\ HasLanded(e)' => dep'[e].name \in DOMAIN inbox \cup DOMAIN acked
                      /\ dep'[e].at = "done" => <<e, dep'[e].name>> \in stream
    BY <1>1 DEF DepOK
  <2>1. CASE e = d
    BY <1>1, <1>2, <1>5, <2>1 DEF MsgInv, SeatInv, DepOK, HasLanded
  <2>2. CASE e # d
    BY <1>4, <2>2 DEF MsgInv, SeatInv, DepOK, HasLanded
  <2> QED
    BY <2>1, <2>2
<1>8. InboxOK'
  <2> SUFFICES ASSUME NEW k \in DOMAIN inbox PROVE HasLanded(inbox[k])' /\ dep'[inbox[k]].name = k
    BY <1>1 DEF InboxOK
  <2>1. inbox[k] \in Deposits /\ HasLanded(inbox[k]) /\ dep[inbox[k]].name = k
    BY DEF MsgInv, MsgTypes, SeatInv, InboxOK
  <2>2. inbox[k] # d
    BY <1>1, <2>1 DEF MsgInv, SeatInv, DepOK, HasLanded
  <2>3. dep'[inbox[k]] = dep[inbox[k]]
    BY <1>4, <2>1, <2>2
  <2> QED
    BY <1>1, <2>1, <2>3 DEF HasLanded
<1>9. LineHasFile'
  BY <1>1 DEF MsgInv, SeatInv, LineHasFile
<1>10. NodeOnly' => NodeOnly
  BY <1>4, <1>5 DEF NodeOnly
<1>11. NodeOnly => NodeFree /\ \A e \in Deposits : dep[e].at \notin Running
  BY <1>1 DEF NodeOnly, NodeFree, MsgInv, SeatInv, DepOK, Running
<1>12. OneAtATime'
  <2>1. \A e \in Deposits : e # d => dep'[e] = dep[e]
    BY <1>4
  <2> QED
    BY <1>1, <1>2, <1>5, <1>10, <1>11, <2>1 DEF OneAtATime, Running
<1>13. NodeInboxKeepsAll'
  BY <1>1, <1>4, <1>5, <1>10 DEF MsgInv, SeatInv, NodeInboxKeepsAll, NodeOnly, HasLanded
<1>14. ClientInv'
  BY <1>1, <1>4, <1>5, SeatKeepsClient DEF MsgInv, MsgTypes, TypeOK, unchangedClient
<1> QED
  BY <1>6, <1>7, <1>8, <1>9, <1>12, <1>13, <1>14 DEF MsgInv, SeatInv

LEMMA ReplaceInv == ASSUME MsgInv, NEW d \in Deposits, Replace(d) PROVE MsgInv'
<1> DEFINE n == dep[d].name
<1>1. /\ dep[d].at = "named" /\ dep' = [dep EXCEPT ![d].at = "landed"]
      /\ inbox' = With(inbox, n, d)
      /\ UNCHANGED <<acked, stream, faults, roster, send, steady, shifts>>
  BY DEF Replace, unchangedClient
<1>2. n \in Names
  BY <1>1 DEF MsgInv, SeatInv, DepOK
<1>3. dep \in [Deposits -> [route : {"none", "node", "ssh", "orphan"}, at : Stages,
                            name : Names \cup {NoName}]]
  BY DEF MsgInv, MsgTypes, TypeOK
<1>4. \A e \in Deposits : dep'[e] = IF e = d THEN [dep[d] EXCEPT !.at = "landed"] ELSE dep[e]
  BY <1>1, <1>3
<1>5. dep'[d].at = "landed" /\ dep'[d].name = n /\ dep'[d].route = dep[d].route
  BY <1>3, <1>4
<1> HIDE DEF n
<1>6. /\ DOMAIN inbox' = DOMAIN inbox \cup {n} /\ inbox'[n] = d
      /\ \A k \in DOMAIN inbox : k # n => inbox'[k] = inbox[k]
  BY <1>1 DEF With
<1>7. inbox' \in [DOMAIN inbox' -> Deposits]
  BY <1>1 DEF With, MsgInv, MsgTypes
<1>8. MsgTypes'
  BY <1>1, <1>2, <1>3, <1>6, <1>7 DEF MsgInv, MsgTypes, TypeOK, Stages
<1>9. DepOK'
  BY <1>1, <1>2, <1>4, <1>5, <1>6, NoNameIsNone DEF MsgInv, SeatInv, DepOK, HasLanded
<1>10. InboxOK'
  <2>1. \A k \in DOMAIN inbox : inbox[k] \in Deposits
    BY DEF MsgInv, MsgTypes
  <2>2. \A k \in DOMAIN inbox : inbox[k] # d
    BY <1>1 DEF MsgInv, SeatInv, InboxOK, HasLanded
  <2> QED
    BY <1>2, <1>4, <1>5, <1>6, <2>1, <2>2, NoNameIsNone DEF MsgInv, SeatInv, InboxOK, HasLanded
<1>11. LineHasFile'
  BY <1>1, <1>6 DEF MsgInv, SeatInv, LineHasFile
<1>12. NodeOnly' => NodeOnly
  BY <1>4, <1>5 DEF NodeOnly
<1>13. OneAtATime'
  BY <1>1, <1>4, <1>5, <1>12 DEF MsgInv, SeatInv, OneAtATime, Running
<1>14. NodeInboxKeepsAll'
  <2>1. NodeOnly => n \notin DOMAIN inbox
    BY <1>1 DEF MsgInv, SeatInv, OneAtATime, n
  <2> QED
    BY <1>1, <1>4, <1>5, <1>6, <1>12, <2>1
    DEF MsgInv, SeatInv, NodeInboxKeepsAll, NodeOnly, HasLanded
<1>15. ClientInv'
  BY <1>1, <1>4, <1>5, SeatKeepsClient DEF MsgInv, MsgTypes, TypeOK, unchangedClient
<1> QED
  BY <1>8, <1>9, <1>10, <1>11, <1>13, <1>14, <1>15 DEF MsgInv, SeatInv

LEMMA AppendLineInv == ASSUME MsgInv, NEW d \in Deposits, AppendLine(d) PROVE MsgInv'
<1> DEFINE n == dep[d].name
<1>1. /\ dep[d].at = "landed" /\ dep' = [dep EXCEPT ![d].at = "done"]
      /\ stream' = stream \cup {<<d, n>>}
      /\ UNCHANGED <<inbox, acked, faults, roster, send, steady, shifts>>
  BY DEF AppendLine, unchangedClient
<1>2. n \in Names /\ n \in DOMAIN inbox \cup DOMAIN acked
  BY <1>1, NoNameIsNone DEF MsgInv, SeatInv, DepOK, HasLanded
<1>3. dep \in [Deposits -> [route : {"none", "node", "ssh", "orphan"}, at : Stages,
                            name : Names \cup {NoName}]]
  BY DEF MsgInv, MsgTypes, TypeOK
<1>4. \A e \in Deposits : dep'[e] = IF e = d THEN [dep[d] EXCEPT !.at = "done"] ELSE dep[e]
  BY <1>1, <1>3
<1>5. dep'[d].at = "done" /\ dep'[d].name = n /\ dep'[d].route = dep[d].route
  BY <1>3, <1>4
<1> HIDE DEF n
<1>6. MsgTypes'
  BY <1>1, <1>2, <1>3 DEF MsgInv, MsgTypes, TypeOK, Stages
<1>7. \A e \in Deposits : dep'[e].name = dep[e].name /\ (HasLanded(e)' <=> HasLanded(e))
  BY <1>1, <1>4, <1>5 DEF HasLanded, n
<1>8. DepOK'
  BY <1>1, <1>2, <1>4, <1>5, <1>7 DEF MsgInv, SeatInv, DepOK
<1>9. InboxOK'
  BY <1>1, <1>7 DEF MsgInv, MsgTypes, SeatInv, InboxOK
<1>10. LineHasFile'
  BY <1>1, <1>2 DEF MsgInv, SeatInv, LineHasFile
<1>11. NodeOnly' => NodeOnly
  BY <1>4, <1>5 DEF NodeOnly
<1>12. OneAtATime'
  BY <1>1, <1>4, <1>5, <1>11 DEF MsgInv, SeatInv, OneAtATime, Running
<1>13. NodeInboxKeepsAll'
  BY <1>1, <1>7, <1>11 DEF MsgInv, SeatInv, NodeInboxKeepsAll, NodeOnly
<1>14. ClientInv'
  BY <1>1, <1>4, <1>5, SeatKeepsClient DEF MsgInv, MsgTypes, TypeOK, unchangedClient
<1> QED
  BY <1>6, <1>8, <1>9, <1>10, <1>12, <1>13, <1>14 DEF MsgInv, SeatInv

LEMMA FailsInv == ASSUME MsgInv, NEW d \in Deposits, Fails(d) PROVE MsgInv'
<1> DEFINE n == IF dep[d].at = "landed" THEN dep[d].name ELSE NoName
<1>1. /\ dep[d].at \in Running /\ dep' = [dep EXCEPT ![d].at = "failed", ![d].name = n]
      /\ UNCHANGED <<inbox, acked, stream, roster, send, steady, shifts>>
  BY DEF Fails, unchangedClient
<1>2. dep \in [Deposits -> [route : {"none", "node", "ssh", "orphan"}, at : Stages,
                            name : Names \cup {NoName}]]
  BY DEF MsgInv, MsgTypes, TypeOK
<1>3. n \in Names \cup {NoName}
  BY <1>2
<1>4. \A e \in Deposits :
        dep'[e] = IF e = d THEN [dep[d] EXCEPT !.at = "failed", !.name = n] ELSE dep[e]
  BY <1>1, <1>2
<1> HIDE DEF n
<1>5. dep'[d].at = "failed" /\ dep'[d].name = n /\ dep'[d].route = dep[d].route
  BY <1>2, <1>4
<1>6. MsgTypes'
  <2>1. dep' \in [Deposits -> [route : {"none", "node", "ssh", "orphan"}, at : Stages,
                               name : Names \cup {NoName}]]
    BY <1>1, <1>2, <1>3, ZenonT(60) DEF Stages
  <2> QED
    BY <1>1, <2>1 DEF MsgInv, MsgTypes, TypeOK
<1>7. \A e \in Deposits : HasLanded(e)' <=> HasLanded(e)
  BY <1>1, <1>4, <1>5 DEF HasLanded, Running, n
<1>8. \A e \in Deposits : HasLanded(e) => dep'[e].name = dep[e].name
  BY <1>1, <1>4, <1>5 DEF HasLanded, Running, n
<1>9. DepOK'
  <2> SUFFICES ASSUME NEW e \in Deposits
               PROVE  /\ dep'[e].at = "none" <=> dep'[e].route = "none"
                      /\ dep'[e].at \in {"none", "queued", "lost"} => dep'[e].name = NoName
                      /\ dep'[e].at \in {"named", "landed", "done"} => dep'[e].name \in Names
                      /\ HasLanded(e)' => dep'[e].name \in DOMAIN inbox \cup DOMAIN acked
                      /\ dep'[e].at = "done" => <<e, dep'[e].name>> \in stream
    BY <1>1 DEF DepOK
  <2>1. CASE e = d
    BY <1>1, <1>5, <1>7, <1>8, <2>1 DEF MsgInv, SeatInv, DepOK, Running
  <2>2. CASE e # d
    BY <1>4, <1>7, <2>2 DEF MsgInv, SeatInv, DepOK
  <2> QED
    BY <2>1, <2>2
<1>10. InboxOK'
  BY <1>1, <1>7, <1>8 DEF MsgInv, MsgTypes, SeatInv, InboxOK
<1>11. LineHasFile'
  BY <1>1 DEF MsgInv, SeatInv, LineHasFile
<1>12. NodeOnly' => NodeOnly
  BY <1>4, <1>5 DEF NodeOnly
<1>13. OneAtATime'
  BY <1>1, <1>4, <1>5, <1>12 DEF MsgInv, SeatInv, OneAtATime, Running
<1>14. NodeInboxKeepsAll'
  BY <1>1, <1>7, <1>8, <1>12 DEF MsgInv, SeatInv, NodeInboxKeepsAll, NodeOnly
<1>15. ClientInv'
  BY <1>1, <1>4, <1>5, SeatKeepsClient DEF MsgInv, MsgTypes, TypeOK, unchangedClient, Running
<1> QED
  BY <1>6, <1>9, <1>10, <1>11, <1>13, <1>14, <1>15 DEF MsgInv, SeatInv

LEMMA NodeRestartInv == ASSUME MsgInv, NodeRestart PROVE MsgInv'
<1> DEFINE after(d) ==
      IF dep[d].route # "node" THEN dep[d]
      ELSE IF dep[d].at = "queued" THEN [dep[d] EXCEPT !.at = "lost"]
      ELSE IF dep[d].at \in Running THEN [dep[d] EXCEPT !.route = "orphan"]
      ELSE dep[d]
<1>1. /\ dep' = [d \in Deposits |-> after(d)]
      /\ UNCHANGED <<inbox, acked, stream, roster, send, steady, shifts>>
  BY DEF NodeRestart, unchangedClient
<1>2. dep \in [Deposits -> [route : {"none", "node", "ssh", "orphan"}, at : Stages,
                            name : Names \cup {NoName}]]
  BY DEF MsgInv, MsgTypes, TypeOK
<1>3. \A d \in Deposits :
        after(d) \in [route : {"none", "node", "ssh", "orphan"}, at : Stages,
                      name : Names \cup {NoName}]
  BY <1>2 DEF Stages
<1>4. \A d \in Deposits : dep'[d].name = dep[d].name
  BY <1>1, <1>2
<1>5. \A d \in Deposits :
        \/ dep'[d].at = dep[d].at /\ dep'[d].route = dep[d].route
        \/ /\ dep[d].at = "queued" /\ dep'[d].at = "lost"
           /\ dep[d].route = "node" /\ dep'[d].route = "node"
        \/ /\ dep[d].at \in Running /\ dep'[d].at = dep[d].at
           /\ dep[d].route = "node" /\ dep'[d].route = "orphan"
  BY <1>1, <1>2
<1>6. MsgTypes'
  <2> HIDE DEF after
  <2> QED
    BY <1>1, <1>3 DEF MsgInv, MsgTypes, TypeOK
<1> HIDE DEF after
<1>7. \A d \in Deposits : HasLanded(d)' <=> HasLanded(d)
  BY <1>4, <1>5 DEF HasLanded, MsgInv, SeatInv, DepOK
<1>8. DepOK'
  BY <1>1, <1>4, <1>5, <1>7 DEF MsgInv, SeatInv, DepOK, Running
<1>9. InboxOK'
  BY <1>1, <1>4, <1>7 DEF MsgInv, MsgTypes, SeatInv, InboxOK
<1>10. LineHasFile'
  BY <1>1 DEF MsgInv, SeatInv, LineHasFile
<1>11. NodeOnly' => NodeOnly
  BY <1>5 DEF NodeOnly
<1>12. OneAtATime'
  BY <1>1, <1>4, <1>5, <1>11 DEF MsgInv, SeatInv, OneAtATime, Running
<1>13. NodeInboxKeepsAll'
  BY <1>1, <1>4, <1>7, <1>11 DEF MsgInv, SeatInv, NodeInboxKeepsAll, NodeOnly
<1>14. ClientInv'
  BY <1>1, <1>5, SeatKeepsClient DEF MsgInv, MsgTypes, TypeOK, unchangedClient, Running
<1> QED
  BY <1>6, <1>8, <1>9, <1>10, <1>12, <1>13, <1>14 DEF MsgInv, SeatInv

LEMMA AckInv == ASSUME MsgInv, NEW n \in DOMAIN inbox, Ack(n) PROVE MsgInv'
<1>1. /\ acked' = With(acked, n, inbox[n])
      /\ inbox' = [k \in DOMAIN inbox \ {n} |-> inbox[k]]
      /\ UNCHANGED <<dep, stream, faults, roster, send, steady, shifts>>
  BY DEF Ack, unchangedClient
<1>2. DOMAIN acked' = DOMAIN acked \cup {n} /\ DOMAIN inbox' = DOMAIN inbox \ {n}
  BY <1>1 DEF With
<1>3. \A k \in DOMAIN inbox' : inbox'[k] = inbox[k]
  BY <1>1
<1>4. MsgTypes'
  BY <1>1, <1>2 DEF MsgInv, MsgTypes, TypeOK
<1>5. \A d \in Deposits : HasLanded(d)' <=> HasLanded(d)
  BY <1>1 DEF HasLanded
<1>6. DepOK'
  BY <1>1, <1>2, <1>5 DEF MsgInv, SeatInv, DepOK
<1>7. InboxOK'
  BY <1>1, <1>2, <1>3, <1>5 DEF MsgInv, MsgTypes, SeatInv, InboxOK
<1>8. LineHasFile'
  BY <1>1, <1>2 DEF MsgInv, SeatInv, LineHasFile
<1>9. OneAtATime'
  BY <1>1, <1>2 DEF MsgInv, SeatInv, OneAtATime, NodeOnly
<1>10. NodeInboxKeepsAll'
  BY <1>1, <1>2, <1>3, <1>5 DEF MsgInv, SeatInv, NodeInboxKeepsAll
<1>11. ClientInv'
  BY <1>1, SeatKeepsClient DEF MsgInv, MsgTypes, TypeOK, unchangedClient
<1> QED
  BY <1>4, <1>6, <1>7, <1>8, <1>9, <1>10, <1>11 DEF MsgInv, SeatInv

-----------------------------------------------------------------------------
(* The steps of the senders.                                               *)

LEMMA Lefts ==
  /\ Head(Both) = "coord-x" /\ Tail(Both) = Last
  /\ Head(Last) = "x" /\ Tail(Last) = <<>>
  /\ Both # <<>> /\ Last # <<>> /\ Both # Last
<1>1. Both # <<>> /\ Last # <<>> /\ Both # Last
  <2>1. Len(Both) = 2 /\ Len(Last) = 1 /\ Len(<<>>) = 0
    BY DEF Both, Last
  <2> QED
    BY <2>1
<1> QED
  BY <1>1 DEF Both, Last

LEMMA SeatUntouched ==
  ASSUME SeatInv, UNCHANGED unchangedSeat PROVE SeatInv'
BY DEF SeatInv, unchangedSeat, DepOK, InboxOK, LineHasFile, OneAtATime, NodeInboxKeepsAll,
       NodeOnly, HasLanded

LEMMA SendRecord ==
  ASSUME MsgTypes, NEW m \in Messages
  PROVE  /\ send[m].at \in {"idle", "choose", "send", "wait"}
         /\ send[m].left \in {<<>>, Last, Both}
         /\ send[m].seen \subseteq {"node", "ssh"}
         /\ send[m].ok \subseteq Aliases /\ send[m].failed \subseteq Aliases
BY DEF MsgTypes, TypeOK, Last, Both

(* Any change of the record of one broadcast that keeps the types.         *)
LEMMA SendTypes ==
  ASSUME MsgTypes, NEW m \in Messages, NEW r,
         r \in [at : {"idle", "choose", "send", "wait"}, left : {<<>>, Last, Both},
                seen : SUBSET {"node", "ssh"}, ok : SUBSET Aliases, failed : SUBSET Aliases],
         r.at \in {"send", "wait"} => r.left # <<>>,
         send' = [send EXCEPT ![m] = r],
         UNCHANGED <<roster, dep, inbox, acked, stream, steady>>
  PROVE  MsgTypes'
BY DEF MsgTypes, TypeOK, Last, Both

LEMMA SettledInv ==
  ASSUME MsgInv, NEW m \in Messages, Busy(m), send[m].at # "idle",
         NEW ok \in SUBSET {Target(m)}, NEW failed \in SUBSET {Target(m)},
         Settled(m, ok, failed),
         ok # {} => dep[<<m, Target(m)>>].at = "done",
         UNCHANGED <<roster, steady, shifts>>, UNCHANGED unchangedSeat
  PROVE  MsgInv'
<1> DEFINE r == [send[m] EXCEPT !.at = "choose", !.left = Tail(@),
                                !.ok = @ \cup ok, !.failed = @ \cup failed]
<1>1. send \in [Messages -> [at : {"idle", "choose", "send", "wait"},
                             left : {<<>>, Last, Both},
                             seen : SUBSET {"node", "ssh"},
                             ok : SUBSET Aliases, failed : SUBSET Aliases]]
  BY DEF MsgInv, MsgTypes, TypeOK, Last, Both
<1>2. send[m].left \in {Last, Both} /\ Target(m) \in Aliases
  BY <1>1, Lefts DEF Busy, Target, Aliases
<1>3. send' = [send EXCEPT ![m] = r]
  BY <1>1 DEF Settled
<1>4. /\ r.at = "choose" /\ r.left = Tail(send[m].left) /\ r.seen = send[m].seen
      /\ r.ok = send[m].ok \cup ok /\ r.failed = send[m].failed \cup failed
  BY <1>1
<1>5. r.left \in {<<>>, Last} /\ (r.left = Last => send[m].left = Both)
  BY <1>2, <1>4, Lefts
<1>6. r \in [at : {"idle", "choose", "send", "wait"}, left : {<<>>, Last, Both},
             seen : SUBSET {"node", "ssh"}, ok : SUBSET Aliases, failed : SUBSET Aliases]
  <2>1. r \in [at : {"idle", "choose", "send", "wait"}, left : {<<>>, Last, Both},
               seen : SUBSET {"node", "ssh"}, ok : SUBSET Aliases, failed : SUBSET Aliases]
        <=> /\ r.at \in {"idle", "choose", "send", "wait"} /\ r.left \in {<<>>, Last, Both}
            /\ r.seen \in SUBSET {"node", "ssh"} /\ r.ok \in SUBSET Aliases
            /\ r.failed \in SUBSET Aliases
    BY <1>1
  <2> QED
    BY <1>1, <1>2, <1>4, <1>5, <2>1
<1> HIDE DEF r
<1>7. UNCHANGED <<roster, steady, dep, inbox, acked, stream>>
  BY DEF unchangedSeat
<1>8. MsgTypes'
  BY <1>3, <1>4, <1>6, <1>7, SendTypes DEF MsgInv
<1>9. send'[m] = r /\ \A k \in Messages : k # m => send'[k] = send[k]
  BY <1>1, <1>3
<1>10. SendOK'
  <2> SUFFICES ASSUME NEW k \in Messages
               PROVE  /\ send'[k].at = "idle" =>
                           /\ send'[k].left = <<>>
                           /\ \A a \in Aliases : dep[<<k, a>>].at = "none"
                      /\ \A a \in Aliases : Due(k, a)' => dep[<<k, a>>].at = "none"
                      /\ \A a \in send'[k].ok : dep[<<k, a>>].at = "done"
    BY <1>7 DEF SendOK
  <2>1. CASE k = m
    <3>1. \A a \in Aliases : Due(m, a)' => a = "x" /\ send[m].left = Both
      BY <1>4, <1>5, <1>9, Lefts DEF Due, Aliases
    <3>2. Due(m, "x") \/ send[m].left # Both
      BY Lefts DEF Due
    <3>3. \A a \in send'[m].ok : dep[<<m, a>>].at = "done"
      BY <1>4, <1>9 DEF MsgInv, ClientInv, SendOK
    <3> QED
      BY <1>4, <1>9, <2>1, <3>1, <3>2, <3>3 DEF MsgInv, ClientInv, SendOK, Aliases
  <2>2. CASE k # m
    BY <1>9, <2>2 DEF MsgInv, ClientInv, SendOK, Due
  <2> QED
    BY <2>1, <2>2
<1>11. SteadyOK'
  <2>1. \A k \in steady : k \in Messages
    BY DEF MsgInv, MsgTypes, TypeOK
  <2> QED
    BY <1>2, <1>4, <1>5, <1>7, <1>9, <2>1, Lefts, ZenonT(60) DEF MsgInv, ClientInv, SteadyOK
<1> QED
  BY <1>8, <1>10, <1>11, SeatUntouched DEF MsgInv, ClientInv

LEMMA HearInv == ASSUME MsgInv, NEW m \in Messages, Hear(m) PROVE MsgInv'
<1>1. /\ send[m].at = "wait" /\ Busy(m)
      /\ UNCHANGED <<roster, steady, shifts>> /\ UNCHANGED unchangedSeat
  BY DEF Hear, MsgInv, MsgTypes, Busy
<1>2. CASE Awaited(m).at = "done" /\ Settled(m, {Target(m)}, {})
  BY <1>1, <1>2, SettledInv DEF Awaited
<1>3. CASE Awaited(m).at = "failed" /\ Settled(m, {}, {Target(m)})
  BY <1>1, <1>3, SettledInv
<1> QED
  BY <1>2, <1>3 DEF Hear

LEMMA GiveUpInv == ASSUME MsgInv, NEW m \in Messages, GiveUp(m) PROVE MsgInv'
<1>1. /\ send[m].at = "wait" /\ Busy(m)
      /\ UNCHANGED <<roster, steady, shifts>> /\ UNCHANGED unchangedSeat
      /\ Settled(m, {}, {Target(m)})
  BY DEF GiveUp, MsgInv, MsgTypes, Busy
<1> QED
  BY <1>1, SettledInv

(* The first target of a broadcast that stands at one, and what is due.    *)
LEMMA TargetOf ==
  ASSUME MsgTypes, NEW m \in Messages, Busy(m)
  PROVE  \/ send[m].left = Both /\ Target(m) = "coord-x"
         \/ send[m].left = Last /\ Target(m) = "x"
BY SendRecord, Lefts DEF Busy, Target

LEMMA StartInv == ASSUME MsgInv, NEW m \in Messages, Start(m) PROVE MsgInv'
<1> DEFINE r == [send[m] EXCEPT !.at = "choose", !.left = CoordTargets]
<1>1. /\ send[m].at = "idle" /\ steady' = steady \cup {m}
      /\ UNCHANGED <<roster, shifts>> /\ UNCHANGED unchangedSeat
  BY DEF Start
<1>2. send \in [Messages -> [at : {"idle", "choose", "send", "wait"},
                             left : {<<>>, Last, Both},
                             seen : SUBSET {"node", "ssh"},
                             ok : SUBSET Aliases, failed : SUBSET Aliases]]
  BY DEF MsgInv, MsgTypes, TypeOK, Last, Both
<1>3. send' = [send EXCEPT ![m] = r]
  BY <1>2 DEF Start
<1>4. /\ r.at = "choose" /\ r.left = CoordTargets /\ r.seen = send[m].seen
      /\ r.ok = send[m].ok /\ r.failed = send[m].failed
  BY <1>2
<1>5. CoordTargets \in {Last, Both} /\ (CoordTargets = Both => roster = "live")
  BY Lefts DEF CoordTargets, Both, Last
<1>6. send'[m] = r /\ \A k \in Messages : k # m => send'[k] = send[k]
  BY <1>2, <1>3
<1>7. \A a \in Aliases : dep[<<m, a>>].at = "none"
  BY <1>1 DEF MsgInv, ClientInv, SendOK
<1>8. UNCHANGED <<dep, inbox, acked, stream>>
  BY <1>1 DEF unchangedSeat
<1>9. MsgTypes'
  <2>1. r \in [at : {"idle", "choose", "send", "wait"}, left : {<<>>, Last, Both},
               seen : SUBSET {"node", "ssh"}, ok : SUBSET Aliases, failed : SUBSET Aliases]
    BY <1>2, <1>5
  <2> HIDE DEF r
  <2>2. send' \in [Messages -> [at : {"idle", "choose", "send", "wait"},
                                left : {<<>>, Last, Both},
                                seen : SUBSET {"node", "ssh"},
                                ok : SUBSET Aliases, failed : SUBSET Aliases]]
    BY <1>2, <1>3, <2>1
  <2>3. \A k \in Messages : send'[k].at \in {"send", "wait"} => send'[k].left # <<>>
    BY <1>4, <1>6 DEF MsgInv, MsgTypes
  <2> QED
    BY <1>1, <1>8, <2>2, <2>3 DEF MsgInv, MsgTypes, TypeOK, Last, Both
<1> HIDE DEF r
<1>10. SendOK'
  BY <1>4, <1>6, <1>7, <1>8 DEF MsgInv, ClientInv, SendOK, Due
<1>11. SteadyOK'
  <2>1. \A k \in steady : k \in Messages
    BY DEF MsgInv, MsgTypes, TypeOK
  <2>2. "coord-x" \in Aliases
    BY DEF Aliases
  <2>3. r.left = Both => roster = "live"
    BY <1>4, <1>5
  <2> QED
    BY <1>1, <1>4, <1>6, <1>7, <1>8, <2>1, <2>2, <2>3, ZenonT(60) DEF MsgInv, ClientInv, SteadyOK
<1> QED
  BY <1>1, <1>9, <1>10, <1>11, SeatUntouched DEF MsgInv, ClientInv

LEMMA ClassifyInv == ASSUME MsgInv, NEW m \in Messages, Classify(m) PROVE MsgInv'
<1> DEFINE r == [send[m] EXCEPT !.at = "send", !.seen = @ \cup {Route(Target(m))}]
<1>1. /\ send[m].at = "choose" /\ Busy(m)
      /\ UNCHANGED <<roster, steady, shifts>> /\ UNCHANGED unchangedSeat
  BY DEF Classify
<1>2. CASE Settled(m, {}, {Target(m)})
  BY <1>1, <1>2, SettledInv
<1>3. CASE Settled(m, {}, {})
  BY <1>1, <1>3, SettledInv
<1>4. CASE /\ Route(Target(m)) # "none" /\ ~SeenRoute(m)
           /\ send' = [send EXCEPT ![m].at = "send", ![m].seen = @ \cup {Route(Target(m))}]
  <2>1. send \in [Messages -> [at : {"idle", "choose", "send", "wait"},
                               left : {<<>>, Last, Both},
                               seen : SUBSET {"node", "ssh"},
                               ok : SUBSET Aliases, failed : SUBSET Aliases]]
    BY DEF MsgInv, MsgTypes, TypeOK, Last, Both
  <2>2. send' = [send EXCEPT ![m] = r]
    BY <1>4, <2>1
  <2>3. /\ r.at = "send" /\ r.left = send[m].left
        /\ r.seen = send[m].seen \cup {Route(Target(m))}
        /\ r.ok = send[m].ok /\ r.failed = send[m].failed
    BY <2>1
  <2>4. send'[m] = r /\ \A k \in Messages : k # m => send'[k] = send[k]
    BY <2>1, <2>2
  <2>5. Route(Target(m)) \in {"node", "ssh"}
    BY <1>4 DEF Route
  <2>6. r \in [at : {"idle", "choose", "send", "wait"}, left : {<<>>, Last, Both},
               seen : SUBSET {"node", "ssh"}, ok : SUBSET Aliases, failed : SUBSET Aliases]
    BY <2>1, <2>5
  <2> HIDE DEF r
  <2>7. UNCHANGED <<roster, steady, dep, inbox, acked, stream>>
    BY <1>1 DEF unchangedSeat
  <2>8. MsgTypes'
    BY <1>1, <2>2, <2>3, <2>6, <2>7, SendTypes DEF MsgInv, Busy
  <2>9. SendOK'
    <3>1. \A a \in Aliases : Due(m, a)' <=> Due(m, a)
      BY <1>1, <2>3, <2>4 DEF Due
    <3>2. \A k \in Messages, a \in Aliases : k # m => (Due(k, a)' <=> Due(k, a))
      BY <2>4 DEF Due
    <3> QED
      BY <1>1, <2>3, <2>4, <2>7, <3>1, <3>2 DEF MsgInv, ClientInv, SendOK
  <2>10. SteadyOK'
    <3>1. \A k \in steady : k \in Messages
      BY DEF MsgInv, MsgTypes, TypeOK
    <3> SUFFICES ASSUME NEW k \in steady
                 PROVE  /\ \E a \in Aliases : dep[<<k, a>>].at = "none"
                        /\ send'[k].left = Both => roster = "live"
                        /\ /\ send'[k].left # <<>>
                           /\ \/ dep[<<k, "coord-x">>].at # "none"
                              \/ send'[k].at = "send" /\ send'[k].left = Both
                           => roster # "gone" /\ "node" \in send'[k].seen
                        /\ send'[k].at = "send" /\ send'[k].left = Last =>
                             dep[<<k, "coord-x">>].at = "none"
      BY <2>7 DEF SteadyOK
    <3>2. CASE k # m
      BY <2>4, <3>1, <3>2 DEF MsgInv, ClientInv, SteadyOK
    <3>3. CASE k = m
      <4>1. /\ \E a \in Aliases : dep[<<m, a>>].at = "none"
            /\ send[m].left = Both => roster = "live"
            /\ dep[<<m, "coord-x">>].at # "none" =>
                 roster # "gone" /\ "node" \in send[m].seen
        BY <1>1, <3>3 DEF MsgInv, ClientInv, SteadyOK, Busy
      <4>2. CASE send[m].left = Both
        <5>1. roster = "live" /\ Route(Target(m)) = "node"
          BY <4>1, <4>2 DEF Route
        <5> QED
          BY <2>3, <2>4, <3>3, <4>1, <4>2, <5>1, Lefts
      <4>3. CASE send[m].left = Last
        <5>1. dep[<<m, "coord-x">>].at = "none"
          BY <1>4, <4>1 DEF Route, SeenRoute
        <5> QED
          BY <2>3, <2>4, <3>3, <4>1, <4>3, <5>1, Lefts
      <4> QED
        BY <1>1, <4>2, <4>3, SendRecord DEF Busy, MsgInv
    <3> QED
      BY <3>2, <3>3
  <2> QED
    BY <1>1, <2>8, <2>9, <2>10, SeatUntouched DEF MsgInv, ClientInv
<1> QED
  BY <1>2, <1>3, <1>4 DEF Classify

LEMMA SendInv == ASSUME MsgInv, NEW m \in Messages, Send(m) PROVE MsgInv'
<1> DEFINE r == [send[m] EXCEPT !.at = "wait"]
           t == Target(m)
           d == <<m, t>>
<1>1. /\ send[m].at = "send" /\ Busy(m)
      /\ UNCHANGED <<roster, inbox, acked, stream, steady, shifts, faults>>
  BY DEF Send, MsgInv, MsgTypes, Busy
<1>2. CASE Settled(m, {}, {t}) /\ UNCHANGED dep
  BY <1>1, <1>2, SettledInv DEF unchangedSeat
<1>3. CASE /\ Route(t) # "none"
           /\ dep' = [dep EXCEPT ![d].route = Route(t), ![d].at = "queued"]
           /\ send' = [send EXCEPT ![m].at = "wait"]
  <2>1. send \in [Messages -> [at : {"idle", "choose", "send", "wait"},
                               left : {<<>>, Last, Both},
                               seen : SUBSET {"node", "ssh"},
                               ok : SUBSET Aliases, failed : SUBSET Aliases]]
    BY DEF MsgInv, MsgTypes, TypeOK, Last, Both
  <2>2. send' = [send EXCEPT ![m] = r]
    BY <1>3, <2>1
  <2>3. /\ r.at = "wait" /\ r.left = send[m].left /\ r.seen = send[m].seen
        /\ r.ok = send[m].ok /\ r.failed = send[m].failed
    BY <2>1
  <2>4. send'[m] = r /\ \A k \in Messages : k # m => send'[k] = send[k]
    BY <2>1, <2>2
  <2>5. \/ send[m].left = Both /\ t = "coord-x"
        \/ send[m].left = Last /\ t = "x"
    BY <1>1, TargetOf DEF MsgInv
  <2>6. t \in Aliases /\ d \in Deposits /\ Route(t) \in {"node", "ssh"}
    BY <1>3, <2>5 DEF Aliases, Deposits, Route
  <2>7. Due(m, t) /\ dep[d].at = "none"
    <3>1. Due(m, t)
      BY <1>1, <2>5, Lefts DEF Due
    <3> QED
      BY <2>6, <3>1 DEF MsgInv, ClientInv, SendOK
  <2>8. dep \in [Deposits -> [route : {"none", "node", "ssh", "orphan"}, at : Stages,
                              name : Names \cup {NoName}]]
    BY DEF MsgInv, MsgTypes, TypeOK
  <2> HIDE DEF r, d, t
  <2>9. \A e \in Deposits :
          dep'[e] = IF e = d THEN [dep[d] EXCEPT !.route = Route(t), !.at = "queued"] ELSE dep[e]
    BY <1>3, <2>8
  <2>10. dep'[d].at = "queued" /\ dep'[d].route = Route(t) /\ dep'[d].name = dep[d].name
    BY <2>6, <2>8, <2>9
  <2>11. \A e \in Deposits : e # d => dep'[e] = dep[e]
    BY <2>9
  <2>12. dep[d].name = NoName /\ dep[d].route = "none"
    BY <2>6, <2>7 DEF MsgInv, SeatInv, DepOK
  <2>13. \A e \in Deposits : HasLanded(e)' <=> HasLanded(e)
    BY <2>10, <2>11, <2>12 DEF HasLanded
  <2>14. \A e \in Deposits : HasLanded(e) => e # d
    BY <2>12 DEF HasLanded
  <2>15. MsgTypes'
    <3>1. dep' \in [Deposits -> [route : {"none", "node", "ssh", "orphan"}, at : Stages,
                                 name : Names \cup {NoName}]]
      BY <1>3, <2>6, <2>8, ZenonT(60) DEF Stages
    <3>2. r \in [at : {"idle", "choose", "send", "wait"}, left : {<<>>, Last, Both},
                 seen : SUBSET {"node", "ssh"}, ok : SUBSET Aliases, failed : SUBSET Aliases]
      BY <2>1 DEF r
    <3>3. send' \in [Messages -> [at : {"idle", "choose", "send", "wait"},
                                  left : {<<>>, Last, Both},
                                  seen : SUBSET {"node", "ssh"},
                                  ok : SUBSET Aliases, failed : SUBSET Aliases]]
      BY <2>1, <2>2, <3>2
    <3>4. \A k \in Messages : send'[k].at \in {"send", "wait"} => send'[k].left # <<>>
      BY <1>1, <2>3, <2>4 DEF MsgInv, MsgTypes, Busy
    <3> QED
      BY <1>1, <3>1, <3>3, <3>4 DEF MsgInv, MsgTypes, TypeOK, Last, Both
  <2>16. DepOK'
    <3> SUFFICES ASSUME NEW e \in Deposits
                 PROVE  /\ dep'[e].at = "none" <=> dep'[e].route = "none"
                        /\ dep'[e].at \in {"none", "queued", "lost"} => dep'[e].name = NoName
                        /\ dep'[e].at \in {"named", "landed", "done"} => dep'[e].name \in Names
                        /\ HasLanded(e)' => dep'[e].name \in DOMAIN inbox \cup DOMAIN acked
                        /\ dep'[e].at = "done" => <<e, dep'[e].name>> \in stream
      BY <1>1 DEF DepOK
    <3>1. CASE e = d
      BY <2>6, <2>10, <2>12, <3>1 DEF HasLanded
    <3>2. CASE e # d
      BY <2>11, <2>13, <3>2 DEF MsgInv, SeatInv, DepOK
    <3> QED
      BY <3>1, <3>2
  <2>17. InboxOK'
    BY <1>1, <2>11, <2>13, <2>14 DEF MsgInv, MsgTypes, SeatInv, InboxOK
  <2>18. LineHasFile'
    BY <1>1 DEF MsgInv, SeatInv, LineHasFile
  <2>19. NodeOnly' => NodeOnly
    BY <2>11, <2>12 DEF NodeOnly
  <2>20. OneAtATime'
    BY <1>1, <2>10, <2>11, <2>19 DEF MsgInv, SeatInv, OneAtATime, Running
  <2>21. NodeInboxKeepsAll'
    BY <1>1, <2>11, <2>13, <2>14, <2>19 DEF MsgInv, SeatInv, NodeInboxKeepsAll, NodeOnly
  <2>22. \A k \in Messages, a \in Aliases : k # m \/ a # t => dep'[<<k, a>>] = dep[<<k, a>>]
    BY <2>11 DEF Deposits, d
  <2>23. SendOK'
    <3> SUFFICES ASSUME NEW k \in Messages
                 PROVE  /\ send'[k].at = "idle" =>
                             /\ send'[k].left = <<>>
                             /\ \A a \in Aliases : dep'[<<k, a>>].at = "none"
                        /\ \A a \in Aliases : Due(k, a)' => dep'[<<k, a>>].at = "none"
                        /\ \A a \in send'[k].ok : dep'[<<k, a>>].at = "done"
      BY DEF SendOK
    <3>1. CASE k # m
      <4>1. send'[k].ok \subseteq Aliases
        BY <2>4, <3>1, SendRecord DEF MsgInv
      <4> QED
        BY <2>4, <2>22, <3>1, <4>1 DEF MsgInv, ClientInv, SendOK, Due
    <3>2. CASE k = m
      <4>1. \A a \in Aliases : Due(m, a)' => Due(m, a) /\ a # t
        BY <1>1, <2>3, <2>4, <2>5, Lefts DEF Due
      <4>2. \A a \in send'[m].ok : a \in Aliases /\ dep[<<m, a>>].at = "done" /\ a # t
        BY <2>3, <2>4, <2>7, SendRecord DEF MsgInv, ClientInv, SendOK, d
      <4> QED
        BY <2>3, <2>4, <2>22, <3>2, <4>1, <4>2 DEF MsgInv, ClientInv, SendOK
    <3> QED
      BY <3>1, <3>2
  <2>24. SteadyOK'
    <3>1. \A k \in steady : k \in Messages
      BY DEF MsgInv, MsgTypes, TypeOK
    <3> SUFFICES ASSUME NEW k \in steady
                 PROVE  /\ \E a \in Aliases : dep'[<<k, a>>].at = "none"
                        /\ send'[k].left = Both => roster = "live"
                        /\ /\ send'[k].left # <<>>
                           /\ \/ dep'[<<k, "coord-x">>].at # "none"
                              \/ send'[k].at = "send" /\ send'[k].left = Both
                           => roster # "gone" /\ "node" \in send'[k].seen
                        /\ send'[k].at = "send" /\ send'[k].left = Last =>
                             dep'[<<k, "coord-x">>].at = "none"
      BY <1>1 DEF SteadyOK
    <3>2. "coord-x" \in Aliases /\ "x" \in Aliases
      BY DEF Aliases
    <3>3. CASE k # m
      BY <2>4, <2>22, <3>1, <3>2, <3>3 DEF MsgInv, ClientInv, SteadyOK
    <3>4. CASE k = m
      <4>1. CASE send[m].left = Both
        <5>1. roster = "live" /\ "node" \in send[m].seen
          BY <1>1, <3>4, <4>1, Lefts DEF MsgInv, ClientInv, SteadyOK
        <5>2. dep[<<m, "x">>].at = "none" /\ t = "coord-x"
          <6>1. Due(m, "x") /\ t = "coord-x"
            BY <1>1, <2>5, <4>1, Lefts DEF Due
          <6> QED
            BY <3>2, <6>1 DEF MsgInv, ClientInv, SendOK
        <5> QED
          BY <2>3, <2>4, <2>22, <3>2, <3>4, <4>1, <5>1, <5>2
      <4>2. CASE send[m].left = Last
        <5>1. dep[<<m, "coord-x">>].at = "none" /\ t = "x"
          BY <1>1, <2>5, <3>4, <4>2, Lefts DEF MsgInv, ClientInv, SteadyOK
        <5> QED
          BY <2>3, <2>4, <2>22, <3>2, <3>4, <4>2, <5>1, Lefts
      <4> QED
        BY <2>5, <4>1, <4>2
    <3> QED
      BY <3>3, <3>4
  <2> QED
    BY <2>15, <2>16, <2>17, <2>18, <2>20, <2>21, <2>23, <2>24 DEF MsgInv, SeatInv, ClientInv
<1> QED
  BY <1>2, <1>3 DEF Send

LEMMA ShiftInv == ASSUME MsgInv, Shift PROVE MsgInv'
<1>1. /\ roster' \in {"live", "stale", "gone"}
      /\ steady' = steady \ {m \in Messages : Busy(m)}
      /\ UNCHANGED <<send, dep, inbox, acked, stream>> /\ UNCHANGED unchangedSeat
  BY DEF Shift, unchangedSeat
<1>2. MsgTypes'
  BY <1>1 DEF MsgInv, MsgTypes, TypeOK
<1>3. SendOK'
  BY <1>1 DEF MsgInv, ClientInv, SendOK, Due
<1>4. \A m \in steady' : m \in steady /\ send[m].left = <<>>
  BY <1>1 DEF MsgInv, MsgTypes, TypeOK, Busy
<1>5. SteadyOK'
  BY <1>1, <1>4, Lefts DEF MsgInv, ClientInv, SteadyOK
<1> QED
  BY <1>1, <1>2, <1>3, <1>5, SeatUntouched DEF MsgInv, ClientInv

-----------------------------------------------------------------------------
(* The theorems.                                                           *)

LEMMA MsgInitInv == Init => MsgInv
<1> SUFFICES ASSUME Init PROVE MsgInv
  OBVIOUS
<1>1. MsgTypes
  BY DEF Init, MsgTypes, TypeOK, Stages
<1>2. \A d \in Deposits : dep[d].at = "none" /\ dep[d].route = "none" /\ dep[d].name = NoName
  BY DEF Init
<1>3. SeatInv
  BY <1>2 DEF Init, SeatInv, DepOK, InboxOK, LineHasFile, OneAtATime, NodeInboxKeepsAll,
              HasLanded, Running
<1>4. SendOK
  <2>1. \A m \in Messages, a \in Aliases : <<m, a>> \in Deposits
    BY DEF Deposits
  <2> QED
    BY <1>2, <2>1 DEF Init, SendOK
<1>5. SteadyOK
  BY DEF Init, SteadyOK
<1> QED
  BY <1>1, <1>3, <1>4, <1>5 DEF MsgInv, ClientInv

LEMMA MsgStutter == MsgInv /\ UNCHANGED vars => MsgInv'
<1> SUFFICES ASSUME MsgInv, UNCHANGED vars PROVE MsgInv'
  OBVIOUS
<1>1. MsgTypes'
  BY DEF MsgInv, MsgTypes, TypeOK, vars
<1>2. SeatInv'
  BY SeatUntouched DEF MsgInv, unchangedSeat, vars
<1>3. ClientInv'
  BY DEF MsgInv, ClientInv, SendOK, SteadyOK, Due, vars
<1> QED
  BY <1>1, <1>2, <1>3 DEF MsgInv

LEMMA MsgInductive == MsgInv /\ [Next]_vars => MsgInv'
<1> SUFFICES ASSUME MsgInv, [Next]_vars PROVE MsgInv'
  OBVIOUS
<1>1. ASSUME NEW m \in Messages, Start(m) \/ Broadcast(m) PROVE MsgInv'
  BY <1>1, StartInv, ClassifyInv, SendInv, HearInv, GiveUpInv DEF Broadcast
<1>2. ASSUME NEW d \in Deposits, Work(d) \/ Fails(d) PROVE MsgInv'
  BY <1>2, BeginInv, ReplaceInv, AppendLineInv, FailsInv DEF Work
<1>3. ASSUME NEW n \in DOMAIN inbox, Ack(n) PROVE MsgInv'
  BY <1>3, AckInv
<1> QED
  BY <1>1, <1>2, <1>3, ShiftInv, NodeRestartInv, MsgStutter DEF Next

LEMMA MsgAlways == Spec => []MsgInv
BY MsgInitInv, MsgInductive, PTL DEF Spec

(* Senders, deposits and the inbox keep their types.                       *)
THEOREM MsgTypeCorrect == Spec => []TypeOK
<1>1. MsgInv => TypeOK
  BY DEF MsgInv, MsgTypes
<1> QED
  BY <1>1, MsgAlways, PTL

(* A line of the stream always has a file at the path it names, until the  *)
(* owner of the seat has acknowledged it.                                  *)
THEOREM LinesHaveFiles == Spec => []LineHasFile
<1>1. MsgInv => LineHasFile
  BY DEF MsgInv, SeatInv
<1> QED
  BY <1>1, MsgAlways, PTL

(* No message is overwritten in the inbox of a seat that is reached        *)
(* through its node alone: the node runs one deposit at a time, and a      *)
(* deposit takes a name that no other file has.                            *)
THEOREM NodeKeepsAll == Spec => []NodeInboxKeepsAll
<1>1. MsgInv => NodeInboxKeepsAll
  BY DEF MsgInv, SeatInv
<1> QED
  BY <1>1, MsgAlways, PTL

(* What a sender reports ok is in the inbox's stream.                      *)
THEOREM OkIsDeposited == Spec => []OkMeansDeposited
<1>1. MsgInv => OkMeansDeposited
  <2> SUFFICES ASSUME MsgInv, NEW d \in Deposits, d[2] \in send[d[1]].ok
               PROVE  HasLanded(d) /\ <<d, dep[d].name>> \in stream
    BY DEF OkMeansDeposited
  <2>1. d = <<d[1], d[2]>> /\ d[1] \in Messages
    BY DEF Deposits
  <2>2. dep[d].at = "done"
    BY <2>1 DEF MsgInv, ClientInv, SendOK
  <2> QED
    BY <2>2, NoNameIsNone DEF MsgInv, SeatInv, DepOK, HasLanded
<1> QED
  BY <1>1, MsgAlways, PTL

(* A broadcast during which the roster stands still leaves one message in  *)
(* the seat it reaches under two names.                                    *)
THEOREM SeatGetsOne == Spec => []DepositOnce
<1>1. MsgInv => DepositOnce
  <2> SUFFICES ASSUME MsgInv, NEW m \in steady
               PROVE  Cardinality({a \in Aliases : HasLanded(<<m, a>>)}) <= 1
    BY DEF DepositOnce
  <2> DEFINE landed == {a \in Aliases : HasLanded(<<m, a>>)}
  <2>1. m \in Messages
    BY DEF MsgInv, MsgTypes, TypeOK
  <2>2. PICK a \in Aliases : dep[<<m, a>>].at = "none"
    BY DEF MsgInv, ClientInv, SteadyOK
  <2>3. a \notin landed
    BY <2>1, <2>2 DEF MsgInv, SeatInv, DepOK, HasLanded, Deposits
  <2>4. PICK b : landed \subseteq {b}
    BY <2>3 DEF Aliases
  <2>5. IsFiniteSet({b}) /\ Cardinality({b}) = 1
    BY FS_Singleton
  <2> HIDE DEF landed
  <2>6. landed \in SUBSET {b}
    BY <2>4
  <2>7. Cardinality(landed) <= Cardinality({b})
    BY <2>5, <2>6, FS_Subset, Zenon
  <2> QED
    BY <2>5, <2>7 DEF landed
<1> QED
  BY <1>1, MsgAlways, PTL
=============================================================================
