--------------------------- MODULE TransfersProofs ---------------------------
(***************************************************************************)
(* Proofs about Transfers: the types, that what an executor is given is     *)
(* whole, and that it is given twice only after its sender could not close  *)
(* the stream or not remove the file, for any number of peers, retries,     *)
(* streams and cancellations.                                               *)
(***************************************************************************)
EXTENDS Transfers, SequenceTheorems, TLAPS

----------------------------------------------------------------------------
(* The inductive invariant.  It ties where a send is to the streams it has  *)
(* opened: the retries of one payload have different streams, and only the  *)
(* last of them can still be written or closed.                             *)

Sending(p, q) == out[p][q].at \in {"opening", "writing"}

(* Only a peer that was asked to sends, its payload has a number, it never  *)
(* sends to itself, and an update only to a server.                         *)
SendersAsked ==
    \A p, q \in Peers : Sending(p, q) =>
       /\ op[p] \in Sends /\ item[p] \in 1 .. begun /\ p # q
       /\ op[p] = "update" => q \in Servers

(* Servers broadcast and workers do not.                                    *)
Roles ==
    /\ \A s \in Servers : op[s] \in {"idle", "broadcast"}
    /\ \A w \in Workers : op[w] # "broadcast"

StreamsNumbered ==
    \A i \in StreamIds : streams[i].item =< begun /\ streams[i].from # streams[i].to

Between(i, p, q) == streams[i].from = p /\ streams[i].to = q

GivenUp(i) ==
    /\ streams[i].from \in Workers
    /\ \/ streams[i].tx \in {"dropped", "unclosed"}
       \/ streams[i].tx = "kept" /\ streams[i].to \in Servers

(* Whoever is about to open a stream has given up the earlier ones.         *)
OpensAnew ==
    \A p, q \in Peers : out[p][q].at = "opening" =>
       \A i \in StreamIds : Between(i, p, q) /\ streams[i].item = item[p] => GivenUp(i)

Last(p, q, k) == Between(k, p, q) /\ \A j \in StreamIds : Between(j, p, q) => j =< k

(* Whoever writes has the last stream opened, and it is not closed yet.     *)
WritesLast ==
    \A p, q \in Peers : out[p][q].at = "writing" =>
       \E k \in StreamIds : /\ Last(p, q, k) /\ streams[k].item = item[p]
                            /\ streams[k].tx \in {"writing", "written"}

RepeatsGivenUp ==
    \A i, j \in StreamIds :
       /\ i < j /\ streams[i].from = streams[j].from /\ streams[i].to = streams[j].to
       /\ streams[i].item = streams[j].item
       => GivenUp(i)

ReceivesOfWorkers == timer \cup late \subseteq Workers

SendInv ==
    /\ SendersAsked /\ Roles /\ StreamsNumbered /\ OpensAnew /\ WritesLast /\ RepeatsGivenUp
    /\ ReceivesOfWorkers /\ GotWhole


----------------------------------------------------------------------------
(* Lemmas about streams.                                                    *)

LEMMA DroppedFacts ==
    ASSUME NEW s \in Seq(Stream), NEW ids
    PROVE  /\ Dropped(s, ids) \in Seq(Stream) /\ DOMAIN Dropped(s, ids) = DOMAIN s
           /\ Len(Dropped(s, ids)) = Len(s)
           /\ \A i \in DOMAIN s :
                LET d == Dropped(s, ids)[i] IN
                /\ d.from = s[i].from /\ d.to = s[i].to /\ d.item = s[i].item
                /\ d.tx = s[i].tx
  <1> DEFINE d == Dropped(s, ids)
  <1>1. DOMAIN s = 1 .. Len(s) /\ Len(s) \in Nat /\ \A i \in DOMAIN s : s[i] \in Stream
    OBVIOUS
  <1>2. /\ DOMAIN d = 1 .. Len(s)
        /\ \A i \in DOMAIN s : d[i] = [s[i] EXCEPT !.rx = "dropped"] \/ d[i] = s[i]
    BY <1>1 DEF Dropped
  <1>3. \A i \in DOMAIN s : [s[i] EXCEPT !.rx = "dropped"] \in Stream
    BY <1>1 DEF Stream
  <1>4. d \in [1 .. Len(s) -> Stream]
    BY <1>1, <1>2, <1>3 DEF Dropped
  <1>5. d \in Seq(Stream) /\ Len(d) = Len(s)
    BY <1>1, <1>4
  <1>6. \A i \in DOMAIN s : /\ d[i].from = s[i].from /\ d[i].to = s[i].to /\ d[i].item = s[i].item
                            /\ d[i].tx = s[i].tx
    BY <1>1, <1>2 DEF Stream
  <1> QED
    BY <1>1, <1>2, <1>5, <1>6

LEMMA TornFacts ==
    ASSUME NEW s \in Seq(Stream), NEW ids
    PROVE  /\ Torn(s, ids) \in Seq(Stream) /\ DOMAIN Torn(s, ids) = DOMAIN s
           /\ Len(Torn(s, ids)) = Len(s)
           /\ \A i \in DOMAIN s :
                LET d == Torn(s, ids)[i] IN
                /\ d.from = s[i].from /\ d.to = s[i].to /\ d.item = s[i].item
                /\ d.tx = s[i].tx \/ (s[i].tx = "writing" /\ d.tx = "dropped")
  <1> DEFINE d == Torn(s, ids)
  <1>1. DOMAIN s = 1 .. Len(s) /\ Len(s) \in Nat /\ \A i \in DOMAIN s : s[i] \in Stream
    OBVIOUS
  <1>2. /\ DOMAIN d = 1 .. Len(s)
        /\ \A i \in DOMAIN s : \/ s[i].tx = "writing" /\ d[i] = [s[i] EXCEPT !.tx = "dropped"]
                               \/ d[i] = s[i]
    BY <1>1 DEF Torn
  <1>3. \A i \in DOMAIN s : [s[i] EXCEPT !.tx = "dropped"] \in Stream
    BY <1>1 DEF Stream
  <1>4. d \in [1 .. Len(s) -> Stream]
    BY <1>1, <1>2, <1>3 DEF Torn
  <1>5. d \in Seq(Stream) /\ Len(d) = Len(s)
    BY <1>1, <1>4
  <1>6. \A i \in DOMAIN s : /\ d[i].from = s[i].from /\ d[i].to = s[i].to /\ d[i].item = s[i].item
                            /\ d[i].tx = s[i].tx \/ (s[i].tx = "writing" /\ d[i].tx = "dropped")
    BY <1>1, <1>2 DEF Stream
  <1> QED
    BY <1>1, <1>2, <1>5, <1>6

(* One stream is replaced by another between the same peers.                *)
LEMMA ReplacedFacts ==
    ASSUME NEW s \in Seq(Stream), NEW i \in DOMAIN s, NEW new \in Stream,
           NEW r, r = [s EXCEPT ![i] = new]
    PROVE  /\ r \in Seq(Stream) /\ DOMAIN r = DOMAIN s /\ Len(r) = Len(s)
           /\ r[i] = new /\ \A j \in DOMAIN s \ {i} : r[j] = s[j]
  OBVIOUS

LEMMA StreamTypes ==
    ASSUME TypeOK
    PROVE  \A i \in StreamIds :
             /\ streams[i] \in Stream /\ i \in Nat /\ streams[i].item \in Nat
             /\ streams[i].from \in Peers /\ streams[i].to \in Peers
  <1>1. \A i \in StreamIds : streams[i] \in Stream /\ i \in Nat
    BY DEF TypeOK, StreamIds
  <1>2. \A x \in Stream : x.item \in Nat /\ x.from \in Peers /\ x.to \in Peers
    BY DEF Stream
  <1> QED
    BY <1>1, <1>2

LEMMA CurrentIsLast ==
    ASSUME NEW p, NEW q, NEW k \in StreamIds, Last(p, q, k), streams \in Seq(Stream)
    PROVE  Current(p, q) = k
  <1>1. StreamIds \subseteq Nat
    BY DEF StreamIds
  <1>2. \A i \in StreamIds : Last(p, q, i) => i = k
    BY <1>1 DEF Last, Between
  <1>3. /\ Current(p, q) \in StreamIds /\ Last(p, q, Current(p, q))
    BY DEF Current, Last, Between
  <1> QED
    BY <1>2, <1>3

----------------------------------------------------------------------------
(* Steps that leave the senders' side of all streams alone.                 *)

SameTx ==
    /\ streams' \in Seq(Stream) /\ DOMAIN streams' = StreamIds /\ Len(streams') = Len(streams)
    /\ \A i \in StreamIds :
         /\ streams'[i].from = streams[i].from /\ streams'[i].to = streams[i].to
         /\ streams'[i].item = streams[i].item /\ streams'[i].tx = streams[i].tx

LEMMA DroppingKeepsTx ==
    ASSUME TypeOK, NEW ids, streams' = Dropped(streams, ids)
    PROVE  SameTx
  BY DroppedFacts DEF TypeOK, SameTx, StreamIds

LEMMA ReadingKeepsTx ==
    ASSUME TypeOK, NEW i \in StreamIds, NEW at \in {"copying", "got"},
           NEW s, s = [streams EXCEPT ![i].rx = at]
    PROVE  /\ s \in Seq(Stream) /\ DOMAIN s = StreamIds /\ Len(s) = Len(streams)
           /\ \A j \in StreamIds :
                /\ s[j].from = streams[j].from /\ s[j].to = streams[j].to
                /\ s[j].item = streams[j].item /\ s[j].tx = streams[j].tx
  <1> DEFINE new == [streams[i] EXCEPT !.rx = at]
  <1>1. streams \in Seq(Stream) /\ streams[i] \in Stream /\ DOMAIN streams = StreamIds
    BY DEF TypeOK, StreamIds
  <1>2. /\ new \in Stream /\ new.from = streams[i].from /\ new.to = streams[i].to
        /\ new.item = streams[i].item /\ new.tx = streams[i].tx
    BY <1>1 DEF Stream
  <1>3. s = [streams EXCEPT ![i] = new]
    OBVIOUS
  <1> HIDE DEF new
  <1>4. /\ s \in Seq(Stream) /\ DOMAIN s = DOMAIN streams /\ Len(s) = Len(streams)
        /\ s[i] = new /\ \A j \in DOMAIN streams \ {i} : s[j] = streams[j]
    BY <1>1, <1>2, <1>3, ReplacedFacts
  <1> QED
    BY <1>1, <1>2, <1>4

LEMMA SendInvKept ==
    ASSUME TypeOK, SendInv, SameTx, out' = out, item' = item,
           begun' \in Nat, begun' >= begun,
           \A p \in Peers : \/ op'[p] = op[p]
                            \/ /\ p \in Workers /\ op[p] \notin Sends
                               /\ op'[p] \in {"idle", "receive"},
           timer' \cup late' \subseteq Workers, GotWhole'
    PROVE  SendInv'
  <1>1. \A p \in Workers : p \notin Servers
    BY TransfersAssumption
  <1>2. StreamIds' = StreamIds /\ begun \in Nat /\ \A p \in Peers : item[p] \in Nat
    BY DEF SameTx, StreamIds, TypeOK
  <1>3. \A p, q \in Peers : Sending(p, q)' = Sending(p, q)
    BY DEF Sending
  <1>4. SendersAsked'
    BY <1>2, <1>3 DEF SendInv, SendersAsked
  <1>5. Roles'
    BY <1>1 DEF SendInv, Roles, Peers
  <1>6. StreamsNumbered'
    <2>1. \A i \in StreamIds : streams[i].item \in Nat
      BY StreamTypes
    <2> QED
      BY <1>2, <2>1 DEF SendInv, StreamsNumbered, SameTx
  <1>7. \A i \in StreamIds : /\ \A p, q : Between(i, p, q)' = Between(i, p, q)
                             /\ GivenUp(i)' = GivenUp(i)
    BY DEF SameTx, Between, GivenUp
  <1>8. OpensAnew'
    BY <1>2, <1>7 DEF SendInv, OpensAnew, SameTx
  <1>9. \A p, q : \A k \in StreamIds : Last(p, q, k)' = Last(p, q, k)
    BY <1>2, <1>7 DEF Last
  <1>10. WritesLast'
    BY <1>2, <1>9 DEF SendInv, WritesLast, SameTx
  <1>11. RepeatsGivenUp'
    BY <1>2, <1>7 DEF SendInv, RepeatsGivenUp, SameTx
  <1> QED
    BY <1>4, <1>5, <1>6, <1>8, <1>10, <1>11 DEF SendInv, ReceivesOfWorkers


----------------------------------------------------------------------------
(* Steps of a sender.                                                       *)

SendStates == {"idle", "opening", "writing", "done", "failed"}
Out == [at : SendStates, left : Nat]

(* The retries left of a send are never more than it began with.            *)
LEMMA OutFacts ==
    ASSUME TypeOK, NEW p \in Peers, NEW q \in Peers
    PROVE  /\ out[p][q] \in Out /\ out[p][q].at \in SendStates /\ out[p][q].left \in Nat
           /\ Again(out[p][q]) \in Out /\ Failed(out[p][q]) \in Out
           /\ Again(out[p][q]).left =< out[p][q].left
           /\ Failed(out[p][q]).left = 0 /\ Failed(out[p][q]).at = "failed"
           /\ Again(out[p][q]).at \in {"opening", "failed"}
  <1>1. out[p][q] \in Out
    BY DEF TypeOK, Out, SendStates
  <1>2. out[p][q].left \in Nat /\ out[p][q].at \in SendStates
    BY <1>1 DEF Out
  <1>3. /\ Failed(out[p][q]) \in Out /\ Failed(out[p][q]).left = 0
        /\ Failed(out[p][q]).at = "failed"
    BY <1>1 DEF Failed, Out, SendStates
  <1>4. CASE out[p][q].left > 0
    BY <1>1, <1>2, <1>3, <1>4 DEF Again, Out, SendStates
  <1>5. CASE ~(out[p][q].left > 0)
    BY <1>1, <1>2, <1>3, <1>5 DEF Again
  <1> QED
    BY <1>1, <1>2, <1>3, <1>4, <1>5

(* One target's send moves on.                                              *)
LEMMA OutStep ==
    ASSUME TypeOK, NEW p \in Peers, NEW q \in Peers, NEW o \in Out,
           o.left =< out[p][q].left, out' = [out EXCEPT ![p][q] = o]
    PROVE  /\ out' \in [Peers -> [Peers -> Out]]
           /\ out'[p][q] = o
           /\ \A a, b \in Peers : <<a, b>> # <<p, q>> => out'[a][b] = out[a][b]
           /\ \A a, b \in Peers : out'[a][b].left =< IF op[a] = "broadcast" THEN OpenTries
                                                     ELSE SendTries
  <1>1. out \in [Peers -> [Peers -> Out]]
    BY DEF TypeOK, Out, SendStates
  <1>2. /\ out' \in [Peers -> [Peers -> Out]] /\ out'[p][q] = o
        /\ \A a, b \in Peers : <<a, b>> # <<p, q>> => out'[a][b] = out[a][b]
    BY <1>1
  <1> DEFINE limit(a) == IF op[a] = "broadcast" THEN OpenTries ELSE SendTries
  <1>3. \A a, b \in Peers : out[a][b].left =< limit(a) /\ out[a][b].left \in Nat /\ limit(a) \in Nat
    BY OutFacts, TransfersAssumption DEF TypeOK
  <1>4. o.left \in Nat
    BY DEF Out
  <1> HIDE DEF limit
  <1>5. \A a, b \in Peers : out'[a][b].left =< limit(a)
    BY <1>2, <1>3, <1>4
  <1> QED
    BY <1>2, <1>5 DEF limit

(* The last stream between p and q changes its state at the sender's end.   *)
LEMMA TxStep ==
    ASSUME TypeOK, SendInv, NEW p \in Peers, NEW q \in Peers, out[p][q].at = "writing",
           NEW x \in {"written", "closed", "unclosed", "kept", "dropped"}, NEW o \in Out,
           o.left =< out[p][q].left, out' = [out EXCEPT ![p][q] = o],
           streams' = [streams EXCEPT ![Current(p, q)].tx = x],
           x = "dropped" => streams[Current(p, q)].tx = "writing",
           o.at = "writing" => x = "written",
           o.at = "opening" => x \in {"dropped", "unclosed", "kept"} /\ p \in Workers,
           x = "kept" => q \in Servers,
           UNCHANGED <<op, begun, item, receiver, cancelled>>
    PROVE  TypeOK' /\ SendInv'
  <1>1. PICK k \in StreamIds : /\ Last(p, q, k) /\ streams[k].item = item[p]
                               /\ streams[k].tx \in {"writing", "written"}
    BY DEF SendInv, WritesLast
  <1>2. Current(p, q) = k /\ Between(k, p, q)
    BY <1>1, CurrentIsLast DEF TypeOK, Last
  <1> DEFINE new == [streams[k] EXCEPT !.tx = x]
  <1>3. /\ new \in Stream /\ new.from = p /\ new.to = q /\ new.item = streams[k].item
        /\ new.tx = x
    <2>1. streams[k] \in Stream
      BY StreamTypes
    <2> QED
      BY <1>2, <2>1 DEF Stream, Between
  <1>4. streams' = [streams EXCEPT ![k] = new]
    BY <1>2
  <1> HIDE DEF new
  <1>5. /\ streams' \in Seq(Stream) /\ StreamIds' = StreamIds /\ Len(streams') = Len(streams)
        /\ streams'[k] = new /\ \A j \in StreamIds \ {k} : streams'[j] = streams[j]
    <2>1. streams \in Seq(Stream) /\ k \in DOMAIN streams
      BY DEF TypeOK, StreamIds
    <2>2. \A r : r = [streams EXCEPT ![k] = new] =>
            /\ r \in Seq(Stream) /\ DOMAIN r = DOMAIN streams /\ Len(r) = Len(streams)
            /\ r[k] = new /\ \A j \in DOMAIN streams \ {k} : r[j] = streams[j]
      BY <1>3, <2>1, ReplacedFacts
    <2> QED
      BY <1>4, <2>2 DEF StreamIds
  <1>6. /\ out' \in [Peers -> [Peers -> Out]]
        /\ out'[p][q] = o
        /\ \A a, b \in Peers : <<a, b>> # <<p, q>> => out'[a][b] = out[a][b]
        /\ \A a, b \in Peers : out'[a][b].left =< IF op[a] = "broadcast" THEN OpenTries
                                                  ELSE SendTries
    BY OutStep
  <1>7. TypeOK'
    BY <1>5, <1>6 DEF TypeOK, receiver, Out, SendStates
  <1>8. SendersAsked'
    <2>1. \A a, b \in Peers : Sending(a, b)' => Sending(a, b)
      BY <1>6 DEF Sending
    <2> QED
      BY <2>1 DEF SendInv, SendersAsked
  <1>9. Roles' /\ ReceivesOfWorkers'
    BY DEF SendInv, Roles, ReceivesOfWorkers, receiver
  <1>10. \A i \in StreamIds : /\ streams'[i].from = streams[i].from
                              /\ streams'[i].to = streams[i].to
                              /\ streams'[i].item = streams[i].item
    BY <1>2, <1>3, <1>5 DEF Between
  <1>11. StreamsNumbered'
    BY <1>5, <1>10 DEF SendInv, StreamsNumbered
  <1>12. \A i \in StreamIds \ {k} : GivenUp(i)' = GivenUp(i)
    BY <1>5 DEF GivenUp
  <1>13. \A i \in StreamIds : \A a, b : Between(i, a, b)' = Between(i, a, b)
    BY <1>10 DEF Between
  <1>14. RepeatsGivenUp'
    <2> SUFFICES ASSUME NEW i \in StreamIds, NEW j \in StreamIds, i < j,
                        streams[i].from = streams[j].from, streams[i].to = streams[j].to,
                        streams[i].item = streams[j].item
                 PROVE  GivenUp(i)'
      BY <1>5, <1>10 DEF RepeatsGivenUp
    <2>1. i # k
      <3>1. i = k => j =< k
        BY <1>1, <1>2 DEF Last, Between
      <3> QED
        BY <3>1, StreamTypes
    <2> QED
      BY <1>12, <2>1 DEF SendInv, RepeatsGivenUp
  <1>15. OpensAnew'
    <2> SUFFICES ASSUME NEW a \in Peers, NEW b \in Peers, out'[a][b].at = "opening",
                        NEW i \in StreamIds, Between(i, a, b), streams[i].item = item[a]
                 PROVE  GivenUp(i)'
      BY <1>5, <1>10, <1>13 DEF OpensAnew
    <2>1. CASE a = p /\ b = q
      <3>1. x \in {"dropped", "unclosed", "kept"} /\ p \in Workers
        BY <1>6, <2>1
      <3>2. CASE i = k
        BY <1>3, <1>5, <3>1, <3>2 DEF GivenUp
      <3>3. CASE i # k
        <4>1. i < k
          BY <1>1, <2>1, <3>3, StreamTypes DEF Last
        <4>2. GivenUp(i)
          BY <1>1, <1>2, <2>1, <4>1 DEF SendInv, RepeatsGivenUp, Between
        <4> QED
          BY <1>12, <3>3, <4>2
      <3> QED
        BY <3>2, <3>3
    <2>2. CASE ~(a = p /\ b = q)
      <3>1. i # k
        BY <1>2, <2>2 DEF Between
      <3>2. out[a][b].at = "opening"
        BY <1>6, <2>2
      <3> QED
        BY <1>12, <3>1, <3>2 DEF SendInv, OpensAnew
    <2> QED
      BY <2>1, <2>2
  <1>16. WritesLast'
    <2> SUFFICES ASSUME NEW a \in Peers, NEW b \in Peers, out'[a][b].at = "writing"
                 PROVE  \E m \in StreamIds :
                          /\ Last(a, b, m)' /\ streams'[m].item = item[a]
                          /\ streams'[m].tx \in {"writing", "written"}
      BY <1>5 DEF WritesLast
    <2>1. \A m \in StreamIds : Last(a, b, m)' = Last(a, b, m)
      BY <1>5, <1>13 DEF Last
    <2>2. CASE a = p /\ b = q
      BY <1>1, <1>3, <1>5, <1>6, <2>1, <2>2
    <2>3. CASE ~(a = p /\ b = q)
      <3>1. PICK m \in StreamIds : /\ Last(a, b, m) /\ streams[m].item = item[a]
                                   /\ streams[m].tx \in {"writing", "written"}
        BY <1>6, <2>3 DEF SendInv, WritesLast
      <3>2. m # k
        BY <1>2, <2>3, <3>1 DEF Last, Between
      <3> QED
        BY <1>5, <2>1, <3>1, <3>2
    <2> QED
      BY <2>2, <2>3
  <1>17. GotWhole'
    <2> SUFFICES ASSUME NEW r \in Peers, NEW i \in got[r]
                 PROVE  /\ streams'[i].tx \in Whole
                        /\ streams'[i].to = r
                        /\ r \in Workers => streams'[i].from # r
      BY DEF GotWhole, receiver
    <2>1. i \in StreamIds
      BY DEF TypeOK
    <2>2. /\ streams[i].tx \in Whole /\ streams[i].to = r
          /\ r \in Workers => streams[i].from # r
      BY DEF SendInv, GotWhole
    <2>3. i = k => x # "dropped"
      BY <1>2, <2>2 DEF Whole
    <2> QED
      BY <1>3, <1>5, <1>10, <2>1, <2>2, <2>3 DEF Whole
  <1> QED
    BY <1>7, <1>8, <1>9, <1>11, <1>14, <1>15, <1>16, <1>17 DEF SendInv


LEMMA WriteStep ==
    ASSUME TypeOK, SendInv, NEW p \in Peers, NEW q \in Peers, Write(p, q)
    PROVE  TypeOK' /\ SendInv'
  <1>1. /\ out[p][q].at = "writing" /\ out[p][q] \in Out /\ out[p][q].left \in Nat
        /\ UNCHANGED <<op, begun, item, out, receiver, cancelled>>
        /\ streams' = [streams EXCEPT ![Current(p, q)].tx = "written"]
    BY OutFacts DEF Write, sender
  <1>2. out' = [out EXCEPT ![p][q] = out[p][q]]
    BY <1>1 DEF TypeOK
  <1> DEFINE o == out[p][q]
  <1>3. o.left =< out[p][q].left /\ o.at = "writing" /\ o \in Out
    BY <1>1
  <1>4. out' = [out EXCEPT ![p][q] = o]
    BY <1>2
  <1> HIDE DEF o
  <1> QED
    BY <1>1, <1>3, <1>4, TxStep

LEMMA CloseStep ==
    ASSUME TypeOK, SendInv, NEW p \in Peers, NEW q \in Peers, Close(p, q)
    PROVE  TypeOK' /\ SendInv'
  <1> DEFINE o == [out[p][q] EXCEPT !.at = "done"]
  <1>1. o \in Out /\ o.left = out[p][q].left /\ o.at = "done" /\ out[p][q].left \in Nat
    BY OutFacts DEF Out, SendStates
  <1>2. /\ out[p][q].at = "writing" /\ UNCHANGED <<op, begun, item, receiver, cancelled>>
        /\ streams' = [streams EXCEPT ![Current(p, q)].tx = "closed"]
        /\ out' = [out EXCEPT ![p][q] = o]
    BY DEF Close
  <1>3. o.left =< out[p][q].left
    BY <1>1
  <1> HIDE DEF o
  <1> QED
    BY <1>1, <1>2, <1>3, TxStep

LEMMA WriteFailsStep ==
    ASSUME TypeOK, SendInv, NEW p \in Peers, NEW q \in Peers, WriteFails(p, q)
    PROVE  TypeOK' /\ SendInv'
  <1> DEFINE o == AfterFailure(p, q)
             x == IF streams[Current(p, q)].tx = "writing" THEN "dropped" ELSE "unclosed"
  <1>1. /\ out[p][q].at = "writing" /\ UNCHANGED <<op, begun, item, receiver, cancelled>>
        /\ streams' = [streams EXCEPT ![Current(p, q)].tx = x]
        /\ out' = [out EXCEPT ![p][q] = o]
    BY DEF WriteFails
  <1>2. o = Failed(out[p][q]) \/ (op[p] # "broadcast" /\ o = Again(out[p][q]))
    BY DEF AfterFailure
  <1>3. o \in Out /\ o.at \in {"opening", "failed"}
    BY <1>2, OutFacts
  <1>4. o.left =< out[p][q].left
    <2>1. out[p][q].left \in Nat /\ Failed(out[p][q]).left = 0
          /\ Again(out[p][q]).left =< out[p][q].left
      BY OutFacts
    <2> HIDE DEF o
    <2> QED
      BY <1>2, <2>1
  <1>5. o.at = "opening" => p \in Workers
    <2>1. o.at = "opening" => op[p] # "broadcast"
      BY <1>2, OutFacts
    <2>2. op[p] \in Sends
      BY <1>1 DEF SendInv, SendersAsked, Sending
    <2> QED
      BY <2>1, <2>2 DEF SendInv, Roles, Peers, Sends
  <1>6. /\ x \in {"dropped", "unclosed"}
        /\ x = "dropped" => streams[Current(p, q)].tx = "writing"
    OBVIOUS
  <1> HIDE DEF o, x
  <1>7. /\ x \in {"written", "closed", "unclosed", "kept", "dropped"}
        /\ o.at = "writing" => x = "written"
        /\ o.at = "opening" => x \in {"dropped", "unclosed", "kept"} /\ p \in Workers
    BY <1>3, <1>5, <1>6
  <1> QED
    BY <1>1, <1>3, <1>4, <1>6, <1>7, TxStep

LEMMA RemoveFailsStep ==
    ASSUME TypeOK, SendInv, NEW p \in Peers, NEW q \in Peers, RemoveFails(p, q)
    PROVE  TypeOK' /\ SendInv'
  <1> DEFINE o == Again(out[p][q])
  <1>1. /\ out[p][q].at = "writing" /\ op[p] = "update"
        /\ UNCHANGED <<op, begun, item, receiver, cancelled>>
        /\ out' = [out EXCEPT ![p][q] = o]
    BY DEF RemoveFails
  <1>2. /\ o \in Out /\ o.left =< out[p][q].left
        /\ o.at \in {"opening", "failed"}
    BY OutFacts
  <1>3. PICK x \in {"kept", "dropped"} :
          /\ streams' = [streams EXCEPT ![Current(p, q)].tx = x]
          /\ x = "dropped" => streams[Current(p, q)].tx = "writing"
    BY DEF RemoveFails
  <1>4. q \in Servers /\ p \in Workers
    <2>1. q \in Servers
      BY <1>1 DEF SendInv, SendersAsked, Sending
    <2>2. p \notin Servers
      BY <1>1 DEF SendInv, Roles
    <2> QED
      BY <2>1, <2>2 DEF Peers
  <1> HIDE DEF o
  <1> QED
    BY <1>1, <1>2, <1>3, <1>4, TxStep

LEMMA OpenFailsStep ==
    ASSUME TypeOK, SendInv, NEW p \in Peers, NEW q \in Peers, OpenFails(p, q)
    PROVE  TypeOK' /\ SendInv'
  <1>1. /\ out[p][q].at = "opening" /\ out' = [out EXCEPT ![p][q] = Again(out[p][q])]
        /\ UNCHANGED <<op, begun, item, receiver, streams, cancelled>>
    BY DEF OpenFails
  <1>2. /\ Again(out[p][q]) \in Out /\ Again(out[p][q]).left =< out[p][q].left
        /\ Again(out[p][q]).at \in {"opening", "failed"}
    BY OutFacts
  <1>3. /\ out' \in [Peers -> [Peers -> Out]]
        /\ out'[p][q] = Again(out[p][q])
        /\ \A a, b \in Peers : <<a, b>> # <<p, q>> => out'[a][b] = out[a][b]
        /\ \A a, b \in Peers : out'[a][b].left =< IF op[a] = "broadcast" THEN OpenTries
                                                  ELSE SendTries
    BY <1>1, <1>2, OutStep
  <1>4. StreamIds' = StreamIds
    BY <1>1 DEF StreamIds
  <1>5. TypeOK'
    BY <1>1, <1>3, <1>4 DEF TypeOK, receiver, Out, SendStates
  <1>6. \A a, b \in Peers : /\ Sending(a, b)' => Sending(a, b)
                            /\ out'[a][b].at = "opening" => out[a][b].at = "opening"
                            /\ out'[a][b].at = "writing" => out[a][b].at = "writing"
    BY <1>1, <1>2, <1>3 DEF Sending
  <1>7. SendersAsked' /\ Roles' /\ ReceivesOfWorkers'
    BY <1>1, <1>6 DEF SendInv, SendersAsked, Roles, ReceivesOfWorkers, receiver
  <1>8. StreamsNumbered' /\ RepeatsGivenUp' /\ GotWhole'
    BY <1>1, <1>4 DEF SendInv, StreamsNumbered, RepeatsGivenUp, GivenUp, GotWhole, receiver
  <1>9. OpensAnew'
    BY <1>1, <1>4, <1>6 DEF SendInv, OpensAnew, Between, GivenUp
  <1>10. WritesLast'
    BY <1>1, <1>4, <1>6 DEF SendInv, WritesLast, Between, Last
  <1> QED
    BY <1>5, <1>7, <1>8, <1>9, <1>10 DEF SendInv

(* A new stream is the last one of its sender and its receiver.             *)
LEMMA OpenStep ==
    ASSUME TypeOK, SendInv, NEW p \in Peers, NEW q \in Peers, Open(p, q)
    PROVE  TypeOK' /\ SendInv'
  <1> DEFINE new == [from |-> p, to |-> q, item |-> item[p], tx |-> "writing", rx |-> "arriving"]
             o == [out[p][q] EXCEPT !.at = "writing"]
  <1>0. PICK n : n = Len(streams) + 1
    OBVIOUS
  <1>1. /\ out[p][q].at = "opening" /\ Len(streams) < MaxStreams
        /\ streams' = Append(streams, new) /\ out' = [out EXCEPT ![p][q] = o]
        /\ UNCHANGED <<op, begun, item, receiver, cancelled>>
    BY DEF Open
  <1>2. op[p] \in Sends /\ item[p] \in 1 .. begun /\ p # q
    BY <1>1 DEF SendInv, SendersAsked, Sending
  <1>3. begun \in 0 .. MaxRequests /\ MaxRequests \in Nat /\ MaxStreams \in Nat
    BY TransfersAssumption DEF TypeOK
  <1>4. /\ new \in Stream /\ new.from = p /\ new.to = q /\ new.item = item[p]
        /\ new.tx = "writing"
    BY <1>2, <1>3 DEF Stream
  <1>5. o \in Out /\ o.at = "writing" /\ o.left = out[p][q].left /\ out[p][q].left \in Nat
    BY OutFacts DEF Out, SendStates
  <1>6. o.left =< out[p][q].left
    BY <1>5
  <1> HIDE DEF new, o
  <1>7. streams \in Seq(Stream) /\ Len(streams) \in Nat /\ n \in Nat
    BY <1>0 DEF TypeOK
  <1>8. /\ streams' \in Seq(Stream) /\ Len(streams') = n
        /\ StreamIds = 1 .. Len(streams) /\ StreamIds' = StreamIds \cup {n}
        /\ n \notin StreamIds /\ \A i \in StreamIds : i < n /\ i \in Nat
    BY <1>0, <1>1, <1>4, <1>7 DEF StreamIds
  <1>9. streams'[n] = new /\ \A i \in StreamIds : streams'[i] = streams[i]
    BY <1>0, <1>1, <1>4, <1>7, <1>8
  <1>10. /\ out' \in [Peers -> [Peers -> Out]]
         /\ out'[p][q] = o
         /\ \A a, b \in Peers : <<a, b>> # <<p, q>> => out'[a][b] = out[a][b]
         /\ \A a, b \in Peers : out'[a][b].left =< IF op[a] = "broadcast" THEN OpenTries
                                                   ELSE SendTries
    BY <1>1, <1>5, <1>6, OutStep
  <1>11. Len(streams') =< MaxStreams
    BY <1>1, <1>3, <1>7, <1>8, <1>0
  <1>12. got' \in [Peers -> SUBSET StreamIds']
    BY <1>1, <1>8 DEF TypeOK, receiver
  <1>13. TypeOK'
    BY <1>1, <1>8, <1>10, <1>11, <1>12 DEF TypeOK, receiver, Out, SendStates
  <1>14. SendersAsked'
    <2>1. \A a, b \in Peers : Sending(a, b)' => Sending(a, b)
      BY <1>1, <1>10 DEF Sending
    <2> QED
      BY <1>1, <2>1 DEF SendInv, SendersAsked
  <1>15. Roles' /\ ReceivesOfWorkers'
    BY <1>1 DEF SendInv, Roles, ReceivesOfWorkers, receiver
  <1>16. StreamsNumbered'
    <2>1. new.item =< begun
      BY <1>2, <1>3, <1>4
    <2> QED
      BY <1>1, <1>2, <1>4, <1>8, <1>9, <2>1 DEF SendInv, StreamsNumbered
  <1>17. \A i \in StreamIds : /\ GivenUp(i)' = GivenUp(i)
                              /\ \A a, b : Between(i, a, b)' = Between(i, a, b)
    BY <1>9 DEF GivenUp, Between
  <1>18. RepeatsGivenUp'
    <2> SUFFICES ASSUME NEW i \in StreamIds', NEW j \in StreamIds', i < j,
                        streams'[i].from = streams'[j].from, streams'[i].to = streams'[j].to,
                        streams'[i].item = streams'[j].item
                 PROVE  GivenUp(i)'
      BY DEF RepeatsGivenUp
    <2>1. i \in StreamIds
      <3>1. n \in Nat
        BY <1>7
      <3> QED
        BY <1>8, <3>1
    <2>2. CASE j = n
      <3>1. Between(i, p, q) /\ streams[i].item = item[p]
        BY <1>4, <1>9, <2>1, <2>2 DEF Between
      <3> QED
        BY <1>1, <1>17, <2>1, <3>1 DEF SendInv, OpensAnew
    <2>3. CASE j # n
      <3>1. j \in StreamIds
        BY <1>8, <2>3
      <3> QED
        BY <1>9, <1>17, <2>1, <3>1 DEF SendInv, RepeatsGivenUp
    <2> QED
      BY <2>2, <2>3
  <1>19. Between(n, p, q)' /\ \A a, b \in Peers : Between(n, a, b)' => a = p /\ b = q
    BY <1>4, <1>9 DEF Between
  <1>20. OpensAnew'
    <2> SUFFICES ASSUME NEW a \in Peers, NEW b \in Peers, out'[a][b].at = "opening",
                        NEW i \in StreamIds', Between(i, a, b)', streams'[i].item = item[a]
                 PROVE  GivenUp(i)'
      BY <1>1 DEF OpensAnew
    <2>1. ~(a = p /\ b = q)
      BY <1>5, <1>10
    <2>2. out[a][b].at = "opening"
      BY <1>10, <2>1
    <2>3. i \in StreamIds
      BY <1>8, <1>19, <2>1
    <2> QED
      BY <1>9, <1>17, <2>2, <2>3 DEF SendInv, OpensAnew
  <1>21. WritesLast'
    <2> SUFFICES ASSUME NEW a \in Peers, NEW b \in Peers, out'[a][b].at = "writing"
                 PROVE  \E m \in StreamIds' :
                          /\ Last(a, b, m)' /\ streams'[m].item = item[a]
                          /\ streams'[m].tx \in {"writing", "written"}
      BY <1>1 DEF WritesLast
    <2>1. CASE a = p /\ b = q
      <3>1. n =< n
        BY <1>7
      <3>2. Last(a, b, n)'
        BY <1>8, <1>19, <2>1, <3>1 DEF Last
      <3> QED
        BY <1>4, <1>8, <1>9, <2>1, <3>2
    <2>2. CASE ~(a = p /\ b = q)
      <3>1. PICK m \in StreamIds : /\ Last(a, b, m) /\ streams[m].item = item[a]
                                   /\ streams[m].tx \in {"writing", "written"}
        BY <1>10, <2>2 DEF SendInv, WritesLast
      <3>2. Last(a, b, m)'
        BY <1>8, <1>17, <1>19, <2>2, <3>1 DEF Last
      <3> QED
        BY <1>8, <1>9, <3>1, <3>2
    <2> QED
      BY <2>1, <2>2
  <1>22. GotWhole'
    <2>1. \A r \in Peers : \A i \in got[r] : i \in StreamIds
      BY DEF TypeOK
    <2>2. got' = got
      BY <1>1 DEF receiver
    <2> QED
      BY <1>9, <2>1, <2>2 DEF SendInv, GotWhole
  <1> QED
    BY <1>13, <1>14, <1>15, <1>16, <1>18, <1>20, <1>21, <1>22 DEF SendInv


(* A send begins: its payload is newer than all streams.                    *)
LEMMA BeginStep ==
    ASSUME TypeOK, SendInv, NEW p \in Peers, NEW what \in Sends,
           NEW targets \in SUBSET (Peers \ {p}), NEW tries \in Nat,
           tries = IF what = "broadcast" THEN OpenTries ELSE SendTries,
           what = "broadcast" <=> p \in Servers,
           what = "update" => targets \subseteq Servers,
           Begin(p, what, targets, tries)
    PROVE  TypeOK' /\ SendInv'
  <1> DEFINE row == [q \in Peers |-> IF q \in targets THEN [at |-> "opening", left |-> tries]
                                     ELSE Idle]
  <1>1. /\ op[p] = "idle" /\ begun < MaxRequests /\ op' = [op EXCEPT ![p] = what]
        /\ begun' = begun + 1 /\ item' = [item EXCEPT ![p] = begun + 1]
        /\ out' = [out EXCEPT ![p] = row]
        /\ UNCHANGED <<receiver, streams, cancelled>>
    BY DEF Begin
  <1>2. /\ row \in [Peers -> Out]
        /\ \A q \in Peers : /\ row[q].left = 0 \/ row[q].left = tries
                            /\ row[q].at = "idle" \/ (row[q].at = "opening" /\ q \in targets)
    <2>1. Idle \in Out /\ Idle.left = 0 /\ Idle.at = "idle"
      BY DEF Idle, Out, SendStates
    <2>2. /\ [at |-> "opening", left |-> tries] \in Out
          /\ [at |-> "opening", left |-> tries].left = tries
          /\ [at |-> "opening", left |-> tries].at = "opening"
      BY DEF Out, SendStates
    <2> QED
      BY <2>1, <2>2
  <1> HIDE DEF row
  <1>3. begun \in Nat /\ MaxRequests \in Nat /\ OpenTries \in Nat /\ SendTries \in Nat
    BY TransfersAssumption DEF TypeOK
  <1>4. out \in [Peers -> [Peers -> Out]]
    BY DEF TypeOK, Out, SendStates
  <1>5. /\ out' \in [Peers -> [Peers -> Out]] /\ out'[p] = row
        /\ \A a \in Peers \ {p} : out'[a] = out[a]
    BY <1>1, <1>2, <1>4
  <1>6. /\ op' \in [Peers -> Sends \cup {"idle", "receive"}] /\ op'[p] = what
        /\ \A a \in Peers \ {p} : op'[a] = op[a]
    BY <1>1 DEF TypeOK
  <1>7. /\ item' \in [Peers -> 0 .. MaxRequests] /\ item'[p] = begun + 1
        /\ \A a \in Peers \ {p} : item'[a] = item[a]
    <2>1. begun + 1 \in 0 .. MaxRequests
      BY <1>1, <1>3
    <2> QED
      BY <1>1, <2>1 DEF TypeOK
  <1>8. \A a, b \in Peers : out'[a][b].left =< IF op'[a] = "broadcast" THEN OpenTries
                                               ELSE SendTries
    <2> TAKE a \in Peers, b \in Peers
    <2>1. CASE a = p
      <3>1. row[b].left = 0 \/ row[b].left = tries
        BY <1>2
      <3> QED
        BY <1>3, <1>5, <1>6, <2>1, <3>1
    <2>2. CASE a # p
      BY <1>5, <1>6, <2>2 DEF TypeOK
    <2> QED
      BY <2>1, <2>2
  <1>9. StreamIds' = StreamIds /\ streams' = streams /\ got' = got
    BY <1>1 DEF StreamIds, receiver
  <1>10. begun' \in 0 .. MaxRequests
    BY <1>1, <1>3
  <1>11. TypeOK'
    BY <1>1, <1>5, <1>6, <1>7, <1>8, <1>9, <1>10 DEF TypeOK, receiver, Out, SendStates
  <1>12. SendersAsked'
    <2> SUFFICES ASSUME NEW a \in Peers, NEW b \in Peers, Sending(a, b)'
                 PROVE  /\ op'[a] \in Sends /\ item'[a] \in 1 .. begun' /\ a # b
                        /\ op'[a] = "update" => b \in Servers
      BY DEF SendersAsked
    <2>1. CASE a = p
      <3>1. begun + 1 \in 1 .. begun + 1
        BY <1>3
      <3>2. a # b /\ (what = "update" => b \in Servers)
        BY <1>2, <1>5, <2>1 DEF Sending
      <3> QED
        BY <1>1, <1>6, <1>7, <2>1, <3>1, <3>2
    <2>2. CASE a # p
      <3>1. /\ op[a] \in Sends /\ item[a] \in 1 .. begun /\ a # b
            /\ op[a] = "update" => b \in Servers
        BY <1>5, <2>2 DEF SendInv, SendersAsked, Sending
      <3>2. 1 .. begun \subseteq 1 .. begun'
        BY <1>1, <1>3
      <3> QED
        BY <1>6, <1>7, <2>2, <3>1, <3>2
    <2> QED
      BY <2>1, <2>2
  <1>13. Roles' /\ ReceivesOfWorkers'
    <2>1. p \in Workers => p \notin Servers
      BY TransfersAssumption
    <2>2. \A a \in Workers : op'[a] # "broadcast"
      BY <1>6, <2>1 DEF SendInv, Roles, Peers
    <2>3. \A a \in Servers : op'[a] \in {"idle", "broadcast"}
      BY <1>6 DEF SendInv, Roles, Peers
    <2> QED
      BY <1>1, <2>2, <2>3 DEF SendInv, Roles, ReceivesOfWorkers, receiver
  <1>14. StreamsNumbered'
    <2>1. \A i \in StreamIds : streams[i].item \in Nat /\ streams[i].item =< begun
      BY StreamTypes DEF SendInv, StreamsNumbered
    <2>2. \A i \in StreamIds : streams[i].item =< begun'
      BY <1>1, <1>3, <2>1
    <2> QED
      BY <1>9, <2>2 DEF SendInv, StreamsNumbered
  <1>15. RepeatsGivenUp' /\ GotWhole'
    BY <1>9 DEF SendInv, RepeatsGivenUp, GivenUp, GotWhole
  <1>16. OpensAnew'
    <2> SUFFICES ASSUME NEW a \in Peers, NEW b \in Peers, out'[a][b].at = "opening",
                        NEW i \in StreamIds, Between(i, a, b), streams[i].item = item'[a]
                 PROVE  GivenUp(i)
      BY <1>9 DEF OpensAnew, Between, GivenUp
    <2>1. a # p
      <3>1. streams[i].item # begun + 1
        BY <1>3, StreamTypes DEF SendInv, StreamsNumbered
      <3> QED
        BY <1>7, <3>1
    <2> QED
      BY <1>5, <1>7, <2>1 DEF SendInv, OpensAnew
  <1>17. WritesLast'
    <2> SUFFICES ASSUME NEW a \in Peers, NEW b \in Peers, out'[a][b].at = "writing"
                 PROVE  \E m \in StreamIds : /\ Last(a, b, m) /\ streams[m].item = item'[a]
                                             /\ streams[m].tx \in {"writing", "written"}
      BY <1>9 DEF WritesLast, Last, Between
    <2>1. a # p
      BY <1>2, <1>5
    <2> QED
      BY <1>5, <1>7, <2>1 DEF SendInv, WritesLast
  <1> QED
    BY <1>11, <1>12, <1>13, <1>14, <1>15, <1>16, <1>17 DEF SendInv

(* A send ends: the streams that are still written to are dropped, or none  *)
(* are.                                                                     *)
LEMMA EndStep ==
    ASSUME TypeOK, SendInv, NEW p \in Peers,
           op' = [op EXCEPT ![p] = "idle"], item' = [item EXCEPT ![p] = 0],
           out' = [out EXCEPT ![p] = NoOut], UNCHANGED <<begun, receiver, cancelled>>,
           streams' \in Seq(Stream), DOMAIN streams' = DOMAIN streams, Len(streams') = Len(streams),
           \A i \in DOMAIN streams :
              /\ streams'[i].from = streams[i].from /\ streams'[i].to = streams[i].to
              /\ streams'[i].item = streams[i].item
              /\ \/ streams'[i].tx = streams[i].tx
                 \/ /\ streams[i].tx = "writing" /\ streams'[i].tx = "dropped"
                    /\ streams[i].from = p
    PROVE  TypeOK' /\ SendInv'
  <1>1. /\ NoOut \in [Peers -> Out] /\ \A q \in Peers : NoOut[q].left = 0 /\ NoOut[q].at = "idle"
    BY DEF NoOut, Idle, Out, SendStates
  <1>2. out \in [Peers -> [Peers -> Out]]
    BY DEF TypeOK, Out, SendStates
  <1>3. /\ out' \in [Peers -> [Peers -> Out]] /\ out'[p] = NoOut
        /\ \A a \in Peers \ {p} : out'[a] = out[a]
    BY <1>1, <1>2
  <1>4. /\ op' \in [Peers -> Sends \cup {"idle", "receive"}] /\ op'[p] = "idle"
        /\ \A a \in Peers \ {p} : op'[a] = op[a]
    BY DEF TypeOK
  <1>5. /\ item' \in [Peers -> 0 .. MaxRequests]
        /\ \A a \in Peers \ {p} : item'[a] = item[a]
    <2>1. 0 \in 0 .. MaxRequests
      BY TransfersAssumption
    <2> QED
      BY <2>1 DEF TypeOK
  <1>6. \A a, b \in Peers : out'[a][b].left =< IF op'[a] = "broadcast" THEN OpenTries
                                               ELSE SendTries
    <2> TAKE a \in Peers, b \in Peers
    <2>1. CASE a = p
      <3>1. out'[a][b].left = 0
        BY <1>1, <1>3, <2>1
      <3> QED
        BY <3>1, TransfersAssumption
    <2>2. CASE a # p
      BY <1>3, <1>4, <2>2 DEF TypeOK
    <2> QED
      BY <2>1, <2>2
  <1>7. StreamIds' = StreamIds /\ got' = got
    BY DEF StreamIds, receiver
  <1>8. TypeOK'
    BY <1>3, <1>4, <1>5, <1>6, <1>7 DEF TypeOK, receiver, Out, SendStates
  <1>9. \A i \in StreamIds : /\ streams'[i].from = streams[i].from
                             /\ streams'[i].to = streams[i].to
                             /\ streams'[i].item = streams[i].item
                             /\ \A a, b : Between(i, a, b)' = Between(i, a, b)
                             /\ GivenUp(i) => GivenUp(i)'
    BY DEF StreamIds, Between, GivenUp
  <1>10. \A a, b \in Peers : a = p => out'[a][b].at = "idle"
    BY <1>1, <1>3
  <1>11. SendersAsked'
    <2> SUFFICES ASSUME NEW a \in Peers, NEW b \in Peers, Sending(a, b)'
                 PROVE  /\ op'[a] \in Sends /\ item'[a] \in 1 .. begun' /\ a # b
                        /\ op'[a] = "update" => b \in Servers
      BY DEF SendersAsked
    <2>1. a # p
      BY <1>10 DEF Sending
    <2> QED
      BY <1>3, <1>4, <1>5, <2>1 DEF SendInv, SendersAsked, Sending
  <1>12. Roles' /\ ReceivesOfWorkers'
    <2>1. \A a \in Peers : op'[a] = op[a] \/ op'[a] = "idle"
      BY <1>4
    <2> QED
      BY <2>1 DEF SendInv, Roles, Peers, ReceivesOfWorkers, receiver
  <1>13. StreamsNumbered'
    BY <1>7, <1>9 DEF SendInv, StreamsNumbered
  <1>14. RepeatsGivenUp'
    BY <1>7, <1>9 DEF SendInv, RepeatsGivenUp
  <1>15. OpensAnew'
    <2> SUFFICES ASSUME NEW a \in Peers, NEW b \in Peers, out'[a][b].at = "opening",
                        NEW i \in StreamIds, Between(i, a, b), streams[i].item = item'[a]
                 PROVE  GivenUp(i)'
      BY <1>7, <1>9 DEF OpensAnew
    <2>1. a # p
      BY <1>10
    <2> QED
      BY <1>3, <1>5, <1>9, <2>1 DEF SendInv, OpensAnew
  <1>16. WritesLast'
    <2> SUFFICES ASSUME NEW a \in Peers, NEW b \in Peers, out'[a][b].at = "writing"
                 PROVE  \E m \in StreamIds : /\ Last(a, b, m)' /\ streams'[m].item = item'[a]
                                             /\ streams'[m].tx \in {"writing", "written"}
      BY <1>7 DEF WritesLast
    <2>1. a # p
      BY <1>10
    <2>2. PICK m \in StreamIds : /\ Last(a, b, m) /\ streams[m].item = item[a]
                                 /\ streams[m].tx \in {"writing", "written"}
      BY <1>3, <2>1 DEF SendInv, WritesLast
    <2>3. streams'[m].tx = streams[m].tx
      BY <2>1, <2>2 DEF Last, Between, StreamIds
    <2>4. Last(a, b, m)'
      BY <1>7, <1>9, <2>2 DEF Last
    <2> QED
      BY <1>5, <1>9, <2>1, <2>2, <2>3, <2>4
  <1>17. GotWhole'
    <2> SUFFICES ASSUME NEW r \in Peers, NEW i \in got[r]
                 PROVE  /\ streams'[i].tx \in Whole
                        /\ streams'[i].to = r
                        /\ r \in Workers => streams'[i].from # r
      BY <1>7 DEF GotWhole
    <2>1. i \in StreamIds
      BY DEF TypeOK
    <2>2. /\ streams[i].tx \in Whole /\ streams[i].to = r
          /\ r \in Workers => streams[i].from # r
      BY DEF SendInv, GotWhole
    <2>3. streams'[i].tx = streams[i].tx
      BY <2>1, <2>2 DEF StreamIds, Whole
    <2> QED
      BY <1>9, <2>1, <2>2, <2>3
  <1> QED
    BY <1>8, <1>11, <1>12, <1>13, <1>14, <1>15, <1>16, <1>17 DEF SendInv

LEMMA EndSendStep ==
    ASSUME TypeOK, SendInv, NEW p \in Peers, EndSend(p)
    PROVE  TypeOK' /\ SendInv'
  <1>1. streams' = streams /\ streams \in Seq(Stream)
    BY DEF EndSend, TypeOK
  <1>2. /\ op' = [op EXCEPT ![p] = "idle"] /\ item' = [item EXCEPT ![p] = 0]
        /\ out' = [out EXCEPT ![p] = NoOut] /\ UNCHANGED <<begun, receiver, cancelled>>
    BY DEF EndSend
  <1> QED
    BY <1>1, <1>2, EndStep

LEMMA SendCancelledStep ==
    ASSUME TypeOK, SendInv, NEW p \in Peers, SendCancelled(p)
    PROVE  TypeOK' /\ SendInv'
  <1> DEFINE ids == {Current(p, q) : q \in Under(p)}
  <1>1. /\ op' = [op EXCEPT ![p] = "idle"] /\ item' = [item EXCEPT ![p] = 0]
        /\ out' = [out EXCEPT ![p] = NoOut] /\ UNCHANGED <<begun, receiver, cancelled>>
        /\ streams' = Torn(streams, ids) /\ streams \in Seq(Stream)
        /\ \A q \in Under(p) : q \in Peers /\ out[p][q].at = "writing"
    BY DEF SendCancelled, TypeOK, Under
  <1>2. \A i \in ids : streams[i].from = p
    <2> TAKE i \in ids
    <2>1. PICK q \in Under(p) : i = Current(p, q)
      OBVIOUS
    <2>2. PICK k \in StreamIds : Last(p, q, k)
      BY <1>1 DEF SendInv, WritesLast
    <2> QED
      BY <1>1, <2>1, <2>2, CurrentIsLast DEF Last, Between
  <1> HIDE DEF ids
  <1>3. \A i \in DOMAIN streams :
          \/ Torn(streams, ids)[i] = streams[i]
          \/ i \in ids
    BY DEF Torn
  <1>4. /\ streams' \in Seq(Stream) /\ DOMAIN streams' = DOMAIN streams
        /\ Len(streams') = Len(streams)
        /\ \A i \in DOMAIN streams :
             /\ streams'[i].from = streams[i].from /\ streams'[i].to = streams[i].to
             /\ streams'[i].item = streams[i].item
             /\ streams'[i].tx = streams[i].tx
                  \/ (streams[i].tx = "writing" /\ streams'[i].tx = "dropped")
    BY <1>1, TornFacts
  <1>5. \A i \in DOMAIN streams :
          \/ streams'[i].tx = streams[i].tx
          \/ /\ streams[i].tx = "writing" /\ streams'[i].tx = "dropped"
             /\ streams[i].from = p
    BY <1>1, <1>2, <1>3, <1>4
  <1> QED
    BY <1>1, <1>4, <1>5, EndStep


----------------------------------------------------------------------------
(* Steps of a receiver, and cancellations.                                  *)

LEMMA ReceiverStep ==
    ASSUME TypeOK, SendInv, SameTx, out' = out, item' = item,
           begun' \in 0 .. MaxRequests, begun' >= begun,
           op' \in [Peers -> Sends \cup {"idle", "receive"}],
           \A p \in Peers : \/ op'[p] = op[p]
                            \/ /\ p \in Workers /\ op[p] \notin Sends
                               /\ op'[p] \in {"idle", "receive"},
           listens' \subseteq Peers, source' \in [Workers -> SUBSET Peers],
           timer' \cup late' \subseteq listens' \cap Workers, cancelled' \subseteq Peers,
           got' \in [Peers -> SUBSET StreamIds],
           \A r \in Peers : \A i \in got'[r] :
              i \in got[r] \/ (streams[i].to = r /\ Complete(i))
    PROVE  TypeOK' /\ SendInv'
  <1>1. StreamIds' = StreamIds
    BY DEF SameTx, StreamIds
  <1>2. \A a, b \in Peers : out'[a][b].left =< IF op'[a] = "broadcast" THEN OpenTries
                                               ELSE SendTries
    <2> TAKE a \in Peers, b \in Peers
    <2>1. op'[a] = "broadcast" <=> op[a] = "broadcast"
      BY DEF Sends
    <2> QED
      BY <2>1 DEF TypeOK
  <1>3. TypeOK'
    BY <1>1, <1>2 DEF TypeOK, SameTx
  <1>4. GotWhole'
    <2> SUFFICES ASSUME NEW r \in Peers, NEW i \in got'[r]
                 PROVE  /\ streams'[i].tx \in Whole
                        /\ streams'[i].to = r
                        /\ r \in Workers => streams'[i].from # r
      BY DEF GotWhole
    <2>1. i \in StreamIds
      OBVIOUS
    <2>2. streams[i].tx \in Whole /\ streams[i].to = r
      BY DEF SendInv, GotWhole, Complete
    <2>3. streams[i].from # r
      BY <2>1, <2>2 DEF SendInv, StreamsNumbered
    <2> QED
      BY <2>1, <2>2, <2>3 DEF SameTx
  <1>5. begun' \in Nat /\ timer' \cup late' \subseteq Workers
    BY TransfersAssumption
  <1> QED
    BY <1>3, <1>4, <1>5, SendInvKept

(* Nothing but the reading of streams.                                      *)
LEMMA ReadStep ==
    ASSUME TypeOK, SendInv, SameTx, UNCHANGED <<sender, listens, source, late, cancelled>>,
           timer' \subseteq timer, got' \in [Peers -> SUBSET StreamIds],
           \A r \in Peers : \A i \in got'[r] :
              i \in got[r] \/ (streams[i].to = r /\ Complete(i))
    PROVE  TypeOK' /\ SendInv'
  <1>1. /\ out' = out /\ item' = item /\ begun' = begun /\ op' = op
        /\ listens' = listens /\ source' = source /\ late' = late /\ cancelled' = cancelled
    BY DEF sender
  <1>2. begun \in 0 .. MaxRequests /\ begun >= begun
    BY DEF TypeOK
  <1>3. timer' \cup late' \subseteq listens' \cap Workers
    BY <1>1 DEF TypeOK, SendInv, ReceivesOfWorkers
  <1> QED
    BY <1>1, <1>2, <1>3, ReceiverStep DEF TypeOK

LEMMA SameStreams ==
    ASSUME TypeOK, streams' = streams
    PROVE  SameTx
  BY DEF TypeOK, SameTx, StreamIds

LEMMA ReceiveStep ==
    ASSUME TypeOK, SendInv, NEW w \in Workers, NEW peers \in SUBSET Peers, Receive(w, peers)
    PROVE  TypeOK' /\ SendInv'
  <1>1. /\ op[w] = "idle" /\ begun < MaxRequests /\ op' = [op EXCEPT ![w] = "receive"]
        /\ begun' = begun + 1 /\ listens' = listens \cup {w}
        /\ source' = [source EXCEPT ![w] = peers]
        /\ timer' \cup late' \subseteq timer \cup late \cup {w}
        /\ UNCHANGED <<item, out, streams, got, cancelled>>
    BY DEF Receive
  <1>2. w \in Peers
    BY DEF Peers
  <1>3. /\ op' \in [Peers -> Sends \cup {"idle", "receive"}]
        /\ \A p \in Peers : \/ op'[p] = op[p]
                            \/ /\ p \in Workers /\ op[p] \notin Sends
                               /\ op'[p] \in {"idle", "receive"}
    BY <1>1, <1>2 DEF TypeOK, Sends
  <1>4. begun' \in 0 .. MaxRequests /\ begun' >= begun
    BY <1>1, TransfersAssumption DEF TypeOK
  <1>5. /\ listens' \subseteq Peers /\ source' \in [Workers -> SUBSET Peers]
        /\ timer' \cup late' \subseteq listens' \cap Workers
        /\ cancelled' \subseteq Peers /\ got' \in [Peers -> SUBSET StreamIds] /\ got' = got
    BY <1>1, <1>2 DEF TypeOK, SendInv, ReceivesOfWorkers
  <1>6. SameTx
    BY <1>1, SameStreams
  <1> QED
    BY <1>1, <1>3, <1>4, <1>5, <1>6, ReceiverStep

LEMMA TakeStep ==
    ASSUME TypeOK, SendInv, NEW w \in Workers, NEW i \in StreamIds, Take(w, i)
    PROVE  TypeOK' /\ SendInv'
  <1>1. /\ UNCHANGED <<sender, listens, source, late, got, cancelled>> /\ timer' \subseteq timer
        /\ streams' = [streams EXCEPT ![i].rx = "copying"] \/ streams' = Dropped(streams, {i})
    BY DEF Take
  <1>2. SameTx
    <2>1. CASE streams' = [streams EXCEPT ![i].rx = "copying"]
      <3>1. \A s : s = [streams EXCEPT ![i].rx = "copying"] =>
              /\ s \in Seq(Stream) /\ DOMAIN s = StreamIds /\ Len(s) = Len(streams)
              /\ \A j \in StreamIds :
                   /\ s[j].from = streams[j].from /\ s[j].to = streams[j].to
                   /\ s[j].item = streams[j].item /\ s[j].tx = streams[j].tx
        BY ReadingKeepsTx
      <3> QED
        BY <2>1, <3>1 DEF SameTx
    <2>2. CASE streams' = Dropped(streams, {i})
      BY <2>2, DroppingKeepsTx
    <2> QED
      BY <1>1, <2>1, <2>2
  <1>3. got' = got /\ got \in [Peers -> SUBSET StreamIds]
    BY <1>1 DEF TypeOK
  <1> QED
    BY <1>1, <1>2, <1>3, ReadStep

LEMMA StopsFacts ==
    ASSUME TypeOK, SendInv, NEW w \in Workers, op[w] = "receive", Stops(w)
    PROVE  /\ op' \in [Peers -> Sends \cup {"idle", "receive"}]
           /\ \A p \in Peers : \/ op'[p] = op[p]
                               \/ /\ p \in Workers /\ op[p] \notin Sends
                                  /\ op'[p] \in {"idle", "receive"}
           /\ listens' \subseteq Peers /\ source' \in [Workers -> SUBSET Peers]
           /\ timer' \cup late' \subseteq listens' \cap Workers
  <1>1. w \in Peers
    BY DEF Peers
  <1>2. /\ op' \in [Peers -> Sends \cup {"idle", "receive"}]
        /\ \A p \in Peers : \/ op'[p] = op[p]
                            \/ /\ p \in Workers /\ op[p] \notin Sends
                               /\ op'[p] \in {"idle", "receive"}
    BY <1>1 DEF TypeOK, Sends, Stops
  <1>3. /\ listens' \subseteq Peers /\ source' \in [Workers -> SUBSET Peers]
        /\ timer' \cup late' \subseteq listens' \cap Workers
    BY DEF TypeOK, SendInv, ReceivesOfWorkers, Stops
  <1> QED
    BY <1>2, <1>3

LEMMA CopyInStep ==
    ASSUME TypeOK, SendInv, NEW w \in Workers, CopyIn(w)
    PROVE  TypeOK' /\ SendInv'
  <1>1. PICK i \in Copying(w) :
          /\ Complete(i) /\ got' = [got EXCEPT ![w] = @ \cup {i}]
          /\ streams' = Dropped([streams EXCEPT ![i].rx = "got"],
                                {j \in StreamIds \ {i} : Unread(j, w)})
    BY DEF CopyIn
  <1>2. op[w] = "receive" /\ Stops(w) /\ UNCHANGED <<begun, item, out, cancelled>>
    BY DEF CopyIn
  <1>3. i \in StreamIds /\ streams[i].to = w /\ w \in Peers
    BY DEF Copying, Peers
  <1>4. SameTx
    <2> DEFINE s == [streams EXCEPT ![i].rx = "got"]
               ids == {j \in StreamIds \ {i} : Unread(j, w)}
    <2>0. \A r : r = [streams EXCEPT ![i].rx = "got"] =>
            /\ r \in Seq(Stream) /\ DOMAIN r = StreamIds /\ Len(r) = Len(streams)
            /\ \A j \in StreamIds :
                 /\ r[j].from = streams[j].from /\ r[j].to = streams[j].to
                 /\ r[j].item = streams[j].item /\ r[j].tx = streams[j].tx
      BY <1>3, ReadingKeepsTx
    <2>1. /\ s \in Seq(Stream) /\ DOMAIN s = StreamIds /\ Len(s) = Len(streams)
          /\ \A j \in StreamIds :
               /\ s[j].from = streams[j].from /\ s[j].to = streams[j].to
               /\ s[j].item = streams[j].item /\ s[j].tx = streams[j].tx
      BY <2>0
    <2>2. streams' = Dropped(s, ids)
      BY <1>1
    <2> HIDE DEF s, ids
    <2>3. /\ Dropped(s, ids) \in Seq(Stream) /\ DOMAIN Dropped(s, ids) = DOMAIN s
          /\ Len(Dropped(s, ids)) = Len(s)
          /\ \A j \in DOMAIN s :
               /\ Dropped(s, ids)[j].from = s[j].from /\ Dropped(s, ids)[j].to = s[j].to
               /\ Dropped(s, ids)[j].item = s[j].item /\ Dropped(s, ids)[j].tx = s[j].tx
      BY <2>1, DroppedFacts
    <2> QED
      BY <2>1, <2>2, <2>3 DEF SameTx
  <1>5. /\ got' \in [Peers -> SUBSET StreamIds]
        /\ \A r \in Peers : \A j \in got'[r] :
             j \in got[r] \/ (streams[j].to = r /\ Complete(j))
    BY <1>1, <1>3 DEF TypeOK
  <1>6. /\ op' \in [Peers -> Sends \cup {"idle", "receive"}]
        /\ \A p \in Peers : \/ op'[p] = op[p]
                            \/ /\ p \in Workers /\ op[p] \notin Sends
                               /\ op'[p] \in {"idle", "receive"}
        /\ listens' \subseteq Peers /\ source' \in [Workers -> SUBSET Peers]
        /\ timer' \cup late' \subseteq listens' \cap Workers
    BY <1>2, StopsFacts
  <1>7. begun' \in 0 .. MaxRequests /\ begun' >= begun /\ cancelled' \subseteq Peers
    BY <1>2 DEF TypeOK
  <1> QED
    BY <1>2, <1>4, <1>5, <1>6, <1>7, ReceiverStep

LEMMA CopyInFailsStep ==
    ASSUME TypeOK, SendInv, NEW w \in Workers, CopyInFails(w)
    PROVE  TypeOK' /\ SendInv'
  <1>1. SameTx
    BY DroppingKeepsTx DEF CopyInFails
  <1>2. /\ UNCHANGED <<sender, listens, source, late, cancelled>> /\ timer' \subseteq timer
        /\ got' = got /\ got \in [Peers -> SUBSET StreamIds]
    BY DEF CopyInFails, receiver, TypeOK
  <1> QED
    BY <1>1, <1>2, ReadStep

LEMMA ReceiveEndsStep ==
    ASSUME TypeOK, SendInv, NEW w \in Workers, ReceiveEnds(w)
    PROVE  TypeOK' /\ SendInv'
  <1>1. op[w] = "receive" /\ Stops(w) /\ UNCHANGED <<begun, item, out, got, cancelled>>
    BY DEF ReceiveEnds
  <1>2. SameTx
    BY DroppingKeepsTx DEF ReceiveEnds
  <1>3. /\ op' \in [Peers -> Sends \cup {"idle", "receive"}]
        /\ \A p \in Peers : \/ op'[p] = op[p]
                            \/ /\ p \in Workers /\ op[p] \notin Sends
                               /\ op'[p] \in {"idle", "receive"}
        /\ listens' \subseteq Peers /\ source' \in [Workers -> SUBSET Peers]
        /\ timer' \cup late' \subseteq listens' \cap Workers
    BY <1>1, StopsFacts
  <1>4. /\ begun' \in 0 .. MaxRequests /\ begun' >= begun /\ cancelled' \subseteq Peers
        /\ got' \in [Peers -> SUBSET StreamIds] /\ got' = got
    BY <1>1 DEF TypeOK
  <1> QED
    BY <1>1, <1>2, <1>3, <1>4, ReceiverStep

LEMMA ServerStep ==
    ASSUME TypeOK, SendInv, NEW s \in Servers, NEW i \in StreamIds,
           Spawn(s, i) \/ Store(s, i) \/ StoreFails(s, i)
    PROVE  TypeOK' /\ SendInv'
  <1>1. \A at \in {"copying", "got"} : streams' = [streams EXCEPT ![i].rx = at] => SameTx
    <2> SUFFICES ASSUME NEW at \in {"copying", "got"}, streams' = [streams EXCEPT ![i].rx = at]
                 PROVE  SameTx
      OBVIOUS
    <2>1. \A r : r = [streams EXCEPT ![i].rx = at] =>
            /\ r \in Seq(Stream) /\ DOMAIN r = StreamIds /\ Len(r) = Len(streams)
            /\ \A j \in StreamIds :
                 /\ r[j].from = streams[j].from /\ r[j].to = streams[j].to
                 /\ r[j].item = streams[j].item /\ r[j].tx = streams[j].tx
      BY ReadingKeepsTx
    <2> QED
      BY <2>1 DEF SameTx
  <1>2. SameTx
    <2>1. CASE Spawn(s, i)
      BY <1>1, <2>1 DEF Spawn
    <2>2. CASE Store(s, i)
      BY <1>1, <2>2 DEF Store
    <2>3. CASE StoreFails(s, i)
      BY <2>3, DroppingKeepsTx DEF StoreFails
    <2> QED
      BY <2>1, <2>2, <2>3
  <1>3. UNCHANGED <<sender, listens, source, late, cancelled>> /\ timer' \subseteq timer
    BY DEF Spawn, Store, StoreFails, receiver
  <1>4. /\ got' \in [Peers -> SUBSET StreamIds]
        /\ \A r \in Peers : \A j \in got'[r] :
             j \in got[r] \/ (streams[j].to = r /\ Complete(j))
    <2>1. CASE got' = got
      BY <2>1 DEF TypeOK
    <2>2. CASE Store(s, i)
      <3>1. got' = [got EXCEPT ![s] = @ \cup {i}] /\ Complete(i) /\ streams[i].to = s /\ s \in Peers
        BY <2>2 DEF Store, Copying, Peers
      <3> QED
        BY <3>1 DEF TypeOK
    <2> QED
      BY <2>1, <2>2 DEF Spawn, StoreFails, receiver
  <1> QED
    BY <1>2, <1>3, <1>4, ReadStep

LEMMA CancelStep ==
    ASSUME TypeOK, SendInv, NEW p \in Peers, Cancel(p)
    PROVE  TypeOK' /\ SendInv'
  <1>1. /\ UNCHANGED <<op, begun, item, out, source, timer, late, got>>
        /\ cancelled' = cancelled \cup {p}
    BY DEF Cancel, sender
  <1>2. SameTx /\ timer \cup late \subseteq listens' /\ listens' \subseteq listens
    <2>1. CASE p \in Servers
      <3>1. streams' = Dropped(streams, {i \in StreamIds : Unread(i, p)})
            /\ listens' = listens \ {p}
        BY <2>1 DEF Cancel
      <3>2. p \notin timer \cup late
        BY <2>1, TransfersAssumption DEF SendInv, ReceivesOfWorkers
      <3> QED
        BY <3>1, <3>2, DroppingKeepsTx DEF TypeOK
    <2>2. CASE p \notin Servers
      <3>1. UNCHANGED <<listens, streams>>
        BY <2>2 DEF Cancel
      <3> QED
        BY <3>1, SameStreams DEF TypeOK
    <2> QED
      BY <2>1, <2>2
  <1>3. /\ op' \in [Peers -> Sends \cup {"idle", "receive"}]
        /\ begun' \in 0 .. MaxRequests /\ begun' >= begun
        /\ listens' \subseteq Peers /\ source' \in [Workers -> SUBSET Peers]
        /\ timer' \cup late' \subseteq listens' \cap Workers
        /\ cancelled' \subseteq Peers /\ got' \in [Peers -> SUBSET StreamIds]
    BY <1>1, <1>2 DEF TypeOK, SendInv, ReceivesOfWorkers
  <1> QED
    BY <1>1, <1>2, <1>3, ReceiverStep

----------------------------------------------------------------------------
(* The theorems.                                                            *)

LEMMA InitOK == Init => TypeOK /\ SendInv
  <1> SUFFICES ASSUME Init PROVE TypeOK /\ SendInv
    OBVIOUS
  <1>1. StreamIds = {} /\ streams \in Seq(Stream) /\ Len(streams) = 0
    BY DEF Init, StreamIds
  <1>2. /\ Idle \in Out /\ Idle.left = 0 /\ Idle.at = "idle"
    BY DEF Idle, Out, SendStates
  <1>3. \A p, q \in Peers : out[p][q] = Idle
    BY DEF Init, NoOut
  <1>4. out \in [Peers -> [Peers -> Out]]
    BY <1>2 DEF Init, NoOut
  <1>5. \A p, q \in Peers : out[p][q].left =< IF op[p] = "broadcast" THEN OpenTries
                                              ELSE SendTries
    BY <1>2, <1>3, TransfersAssumption
  <1>6. TypeOK
    BY <1>1, <1>4, <1>5, TransfersAssumption DEF Init, TypeOK, Out, SendStates, Peers
  <1>7. \A p, q \in Peers : out[p][q].at = "idle"
    BY <1>2, <1>3
  <1>8. SendersAsked /\ OpensAnew /\ WritesLast
    BY <1>7 DEF SendersAsked, OpensAnew, WritesLast, Sending
  <1>9. Roles /\ ReceivesOfWorkers /\ GotWhole
    BY DEF Init, Roles, ReceivesOfWorkers, GotWhole, Peers
  <1>10. StreamsNumbered /\ RepeatsGivenUp
    BY <1>1 DEF StreamsNumbered, RepeatsGivenUp
  <1> QED
    BY <1>6, <1>8, <1>9, <1>10 DEF SendInv

LEMMA NextOK == TypeOK /\ SendInv /\ [Next]_vars => TypeOK' /\ SendInv'
  <1> SUFFICES ASSUME TypeOK, SendInv, [Next]_vars PROVE TypeOK' /\ SendInv'
    OBVIOUS
  <1>1. Workers \subseteq Peers /\ Servers \subseteq Peers /\ Workers \cap Servers = {}
        /\ SendTries \in Nat /\ OpenTries \in Nat
    BY TransfersAssumption DEF Peers
  <1>2. CASE \E w \in Workers, s \in Servers : SendUpdate(w, s)
    <2>1. PICK w \in Workers, s \in Servers : Begin(w, "update", {s}, SendTries)
      BY <1>2 DEF SendUpdate
    <2>2. {s} \in SUBSET (Peers \ {w}) /\ {s} \subseteq Servers /\ w \in Peers /\ w \notin Servers /\ "update" \in Sends
      BY <1>1 DEF Sends
    <2> QED
      BY <1>1, <2>1, <2>2, BeginStep
  <1>3. CASE \E w, v \in Workers : SendModel(w, v)
    <2>1. PICK w \in Workers, v \in Workers : w # v /\ Begin(w, "model", {v}, SendTries)
      BY <1>3 DEF SendModel
    <2>2. {v} \in SUBSET (Peers \ {w}) /\ w \in Peers /\ w \notin Servers /\ "model" \in Sends
      BY <1>1, <2>1 DEF Sends
    <2> QED
      BY <1>1, <2>1, <2>2, BeginStep
  <1>4. CASE \E s \in Servers : Broadcast(s, Workers)
    <2>1. PICK s \in Servers : Begin(s, "broadcast", Workers, OpenTries)
      BY <1>4 DEF Broadcast
    <2>2. Workers \in SUBSET (Peers \ {s}) /\ s \in Peers /\ "broadcast" \in Sends
      BY <1>1 DEF Sends
    <2> QED
      BY <1>1, <2>1, <2>2, BeginStep
  <1>5. CASE \E p, q \in Peers : Transfer(p, q)
    BY <1>5, OpenStep, OpenFailsStep, WriteStep, CloseStep, WriteFailsStep, RemoveFailsStep
       DEF Transfer
  <1>6. CASE \E p \in Peers : EndSend(p) \/ SendCancelled(p) \/ Cancel(p)
    BY <1>6, EndSendStep, SendCancelledStep, CancelStep
  <1>7. CASE \E w \in Workers :
               \E peers \in {Servers} \cup {{v} : v \in Workers \ {w}} : Receive(w, peers)
    <2>1. PICK w \in Workers : \E peers \in {Servers} \cup {{v} : v \in Workers \ {w}} :
                                  Receive(w, peers)
      BY <1>7
    <2>2. PICK peers \in {Servers} \cup {{v} : v \in Workers \ {w}} : Receive(w, peers)
      BY <2>1
    <2>3. peers \in SUBSET Peers
      BY <1>1
    <2> QED
      BY <2>2, <2>3, ReceiveStep
  <1>8. CASE \E w \in Workers : WorkerTakes(w) \/ CopyInFails(w)
    BY <1>8, TakeStep, CopyInStep, ReceiveEndsStep, CopyInFailsStep DEF WorkerTakes
  <1>9. CASE \E s \in Servers, i \in StreamIds : ServerTakes(s, i) \/ StoreFails(s, i)
    BY <1>9, ServerStep DEF ServerTakes
  <1>10. CASE UNCHANGED vars
    <2>1. /\ UNCHANGED <<sender, listens, source, late, cancelled>> /\ timer' \subseteq timer
          /\ got' = got /\ got \in [Peers -> SUBSET StreamIds] /\ streams' = streams
      BY <1>10 DEF vars, receiver, TypeOK
    <2>2. SameTx
      BY <2>1, SameStreams
    <2> QED
      BY <2>1, <2>2, ReadStep
  <1> QED
    BY <1>2, <1>3, <1>4, <1>5, <1>6, <1>7, <1>8, <1>9, <1>10 DEF Next

LEMMA TransfersInvariance == Spec => [](TypeOK /\ SendInv)
  BY InitOK, NextOK, PTL DEF Spec

(* For any peers and any numbers of retries, streams and cancellations, no  *)
(* send retries more often than configured, nothing but streams is handed   *)
(* on, and a timer is only armed while its worker listens.                  *)
THEOREM TransfersTypes == Spec => []TypeOK
  BY TransfersInvariance, PTL

(* What send_resource or a broadcast delivers was written to the end by its *)
(* sender, came from another peer and was meant for the one that has it,    *)
(* whatever was retried, torn or cancelled at either end.                   *)
THEOREM ReceivedWhole == Spec => []GotWhole
  <1>1. TypeOK /\ SendInv => GotWhole
    BY DEF SendInv
  <1> QED
    BY <1>1, TransfersInvariance, PTL

(* A payload arrives a second time only if it is a worker's and the first   *)
(* stream was complete but could not be shut down, or it is an update and   *)
(* its file could not be removed after the shutdown: these two retries of   *)
(* send_resource are the only way to a duplicate, and a broadcast has none. *)
THEOREM RepeatsAfterError == Spec => []RepeatsNeedError
  <1>1. TypeOK /\ SendInv => RepeatsNeedError
    <2> SUFFICES ASSUME TypeOK, SendInv, NEW p \in Peers, NEW i \in got[p], NEW j \in got[p],
                        i < j, streams[i].from = streams[j].from,
                        streams[i].item = streams[j].item
                 PROVE  /\ streams[i].from \in Workers
                        /\ \/ streams[i].tx = "unclosed"
                           \/ streams[i].tx = "kept" /\ p \in Servers
      BY DEF RepeatsNeedError
    <2>1. i \in StreamIds /\ j \in StreamIds
      BY DEF TypeOK
    <2>2. /\ streams[i].to = p /\ streams[i].to = streams[j].to
          /\ streams[i].tx # "dropped"
      BY DEF SendInv, GotWhole, Whole
    <2>3. GivenUp(i)
      BY <2>1, <2>2 DEF SendInv, RepeatsGivenUp
    <2> QED
      BY <2>2, <2>3 DEF GivenUp
  <1> QED
    BY <1>1, TransfersInvariance, PTL
=============================================================================
