------------------------- MODULE BridgeOrderProofs -------------------------
(***************************************************************************)
(* "Both orderings are legitimate and neither may lose the snapshot": the  *)
(* proof that the Bridge keeps this promise, whatever the order of picture *)
(* and acknowledgement, as long as a frame holds one object.  (With two,   *)
(* the index keeps only the last of them: the run BridgeTwoObjects.)       *)
(***************************************************************************)
EXTENDS BridgeEvidenceProofs

-----------------------------------------------------------------------------
(* Where a detection is between its registration and its answer *)

Starting == IF todo # <<>> /\ Head(todo).do = "enqueue" THEN {Head(todo).msg} ELSE {}
Queued   == ToSet(queue)
InHand   == IF hand.at = "detection" THEN {hand.msg} ELSE {}
Answered == Messages(ToSet(acks))
InReader == IF readerHand.at = "ack" THEN {readerHand.msg} ELSE {}
InFlight == Starting \cup Queued \cup InHand \cup inbox \cup Answered \cup InReader

\* A detection makes its way once: it is in one place only, and not there once
\* it was accepted.
Apart ==
  /\ Starting \cap (Queued \cup InHand \cup inbox \cup Answered \cup InReader \cup accepted) = {}
  /\ Queued \cap (InHand \cup inbox \cup Answered \cup InReader \cup accepted) = {}
  /\ InHand \cap (inbox \cup Answered \cup InReader \cup accepted) = {}
  /\ inbox \cap (Answered \cup InReader \cup accepted) = {}
  /\ Answered \cap (InReader \cup accepted) = {}
  /\ InReader \cap accepted = {}

Once(q) == \A i, j \in DOMAIN q : q[i] = q[j] => i = j

\* What may still be accepted, or was, has its candidate, unless that expired,
\* was crowded out or completed.
Accounted == InFlight \cup accepted \subseteq Known \cup forfeited

\* A candidate has noted each half that came, waits for the other, and can be
\* found by its frame.
Meets ==
  \A c \in Cands :
    /\ c.msg \in accepted => c.acked
    /\ FrameOf(c.msg) \in captured => c.jpeg # NoShot
    /\ ~ Complete(c)

Indexed == \A c \in Cands : FrameOf(c.msg) \in DOMAIN byFrame

\* The probe's work on a buffer with one object: what is left of the three steps.
Doing(left) == IF left = 0 THEN "pass" ELSE IF left = 1 THEN "enqueue" ELSE "register"
WorkingOn(m) ==
  /\ Len(todo) <= 3
  /\ \A i \in DOMAIN todo : todo[i].do = Doing(Len(todo) - i) /\ todo[i].msg = m
Probing == todo = <<>> \/ \E m \in Message : WorkingOn(m)

\* The frames that are past the probe, of which a picture may come.
Passed == {p \in Shot : \/ p \in captured
                        \/ \E s \in Sources : p \in ToSet(branch[s])
                        \/ \E s \in Sources : encoder[s].at = "encode" /\ p = encoder[s].shot}

\* They all reached the probe before the frame it works on.
Ahead ==
  /\ \A p \in Passed : p[2] <= frame[p[1]]
  /\ \A p \in Passed, i \in DOMAIN todo : FrameOf(todo[i].msg) # p

\* So did the candidates that were forfeited.
Past ==
  /\ \A m \in forfeited : m[2] <= frame[m[1]]
  /\ \A i \in DOMAIN todo : todo[i].do = "register" => todo[i].msg \notin forfeited

OrderInv ==
  /\ Apart
  /\ Once(queue)
  /\ Unique(acks)
  /\ Accounted
  /\ Meets
  /\ Indexed
  /\ Probing
  /\ Ahead
  /\ Past

-----------------------------------------------------------------------------
(* Queues in which nothing stands twice *)

LEMMA RestOnce ==
  ASSUME NEW S, NEW q \in Seq(S), q # <<>>, Once(q)
  PROVE  /\ Once(Tail(q)) /\ Head(q) \in ToSet(q)
         /\ ToSet(Tail(q)) \subseteq ToSet(q) \ {Head(q)}
<1> DEFINE t == Tail(q)
<1>1. /\ Head(q) = q[1] /\ 1 \in DOMAIN q /\ t \in Seq(S)
      /\ \A i \in DOMAIN t : i + 1 \in DOMAIN q /\ t[i] = q[i + 1] /\ i \in Nat
  BY FirstAndRest
<1> HIDE DEF t
<1>2. ASSUME NEW i \in DOMAIN t, NEW j \in DOMAIN t, t[i] = t[j] PROVE i = j
  <2>1. i + 1 = j + 1
    BY <1>1, <1>2 DEF Once
  <2> QED BY <1>1, <2>1
<1>3. ASSUME NEW i \in DOMAIN t PROVE t[i] \in ToSet(q) /\ t[i] # Head(q)
  <2>1. i + 1 # 1
    BY <1>1
  <2> QED BY <1>1, <2>1, Elements DEF Once
<1>4. \A c \in ToSet(t) : \E i \in DOMAIN t : c = t[i]
  BY <1>1, Elements
<1> QED BY <1>1, <1>2, <1>3, <1>4, Elements DEF Once, t

LEMMA PutOnce ==
  ASSUME NEW S, NEW q \in Seq(S), Once(q), NEW item \in S, item \notin ToSet(q), NEW capacity
  PROVE  LET t == Put(q, item, capacity) IN Once(t) /\ ToSet(t) \subseteq ToSet(q) \cup {item}
<1> DEFINE t == Append(q, item)
<1>1. /\ Len(q) \in Nat /\ DOMAIN q = 1..Len(q) /\ t \in Seq(S)
      /\ Len(t) = Len(q) + 1 /\ t[Len(q) + 1] = item
      /\ \A i \in 1..Len(q) : t[i] = q[i]
  BY AppendProperties, Elements
<1>2. DOMAIN t = 1..(Len(q) + 1)
  BY <1>1, Elements
<1> HIDE DEF t
<1>3. \A i \in 1..(Len(q) + 1) : i \in 1..Len(q) \/ i = Len(q) + 1
  BY <1>1
<1>4. \A i \in 1..Len(q) : q[i] # item /\ q[i] \in ToSet(q)
  BY <1>1, Elements
<1>5. Once(t)
  BY <1>1, <1>2, <1>3, <1>4 DEF Once
<1>6. ToSet(t) \subseteq ToSet(q) \cup {item}
  BY <1>1, <1>2, <1>3, <1>4, Elements
<1>7. Put(q, item, capacity) = t \/ Put(q, item, capacity) = q
  BY DEF Put, t
<1> QED BY <1>5, <1>6, <1>7

\* The same of the Agent's answers, which are told apart by their message.
LEMMA RestUnique ==
  ASSUME NEW q \in Seq(Ack), q # <<>>, Unique(q)
  PROVE  /\ Unique(Tail(q)) /\ Head(q).msg \in Messages(ToSet(q)) /\ Head(q) \in Ack
         /\ Messages(ToSet(Tail(q))) \subseteq Messages(ToSet(q)) \ {Head(q).msg}
<1> DEFINE t == Tail(q)
<1>1. /\ Head(q) = q[1] /\ 1 \in DOMAIN q /\ t \in Seq(Ack) /\ Head(q) \in Ack
      /\ \A i \in DOMAIN t : i + 1 \in DOMAIN q /\ t[i] = q[i + 1] /\ i \in Nat
  BY FirstAndRest
<1> HIDE DEF t
<1>2. ASSUME NEW i \in DOMAIN t, NEW j \in DOMAIN t, t[i].msg = t[j].msg PROVE i = j
  <2>1. i + 1 = j + 1
    BY <1>1, <1>2 DEF Unique
  <2> QED BY <1>1, <2>1
<1>3. ASSUME NEW i \in DOMAIN t PROVE t[i] \in ToSet(q) /\ t[i].msg # Head(q).msg
  <2>1. i + 1 # 1
    BY <1>1
  <2> QED BY <1>1, <2>1, Elements DEF Unique
<1>4. \A c \in ToSet(t) : \E i \in DOMAIN t : c = t[i]
  BY <1>1, Elements
<1>5. Head(q) \in ToSet(q)
  BY <1>1, Elements
<1> QED BY <1>1, <1>2, <1>3, <1>4, <1>5 DEF Unique, Messages, t

LEMMA AppendUnique ==
  ASSUME NEW q \in Seq(Ack), Unique(q), NEW a \in Ack, a.msg \notin Messages(ToSet(q))
  PROVE  /\ Unique(Append(q, a))
         /\ Messages(ToSet(Append(q, a))) \subseteq Messages(ToSet(q)) \cup {a.msg}
<1> DEFINE t == Append(q, a)
<1>1. /\ Len(q) \in Nat /\ DOMAIN q = 1..Len(q) /\ t \in Seq(Ack)
      /\ Len(t) = Len(q) + 1 /\ t[Len(q) + 1] = a
      /\ \A i \in 1..Len(q) : t[i] = q[i]
  BY AppendProperties, Elements
<1>2. DOMAIN t = 1..(Len(q) + 1)
  BY <1>1, Elements
<1> HIDE DEF t
<1>3. \A i \in 1..(Len(q) + 1) : i \in 1..Len(q) \/ i = Len(q) + 1
  BY <1>1
<1>4. \A i \in 1..Len(q) : q[i].msg # a.msg /\ q[i] \in ToSet(q)
  BY <1>1, Elements DEF Messages
<1>5. Unique(t)
  BY <1>1, <1>2, <1>3, <1>4 DEF Unique
<1>6. \A c \in ToSet(t) : c \in ToSet(q) \/ c = a
  BY <1>1, <1>2, <1>3, <1>4, Elements
<1> QED BY <1>5, <1>6 DEF Messages, t

-----------------------------------------------------------------------------
(* Which candidates the methods of the rendezvous leave *)

\* One object per frame: the frame says which message it is.
LEMMA FrameNames ==
  ASSUME MaxObjects = 1, NEW m \in Message, NEW n \in Message, FrameOf(m) = FrameOf(n)
  PROVE  m = n
<1>1. /\ m = <<m[1], m[2], m[3]>> /\ n = <<n[1], n[2], n[3]>>
      /\ m[3] \in 1..MaxObjects /\ n[3] \in 1..MaxObjects
  BY FrameOfMessage
<1>2. m[3] = 1 /\ n[3] = 1
  BY <1>1
<1>3. m[1] = n[1] /\ m[2] = n[2]
  BY DEF FrameOf
<1> QED BY <1>1, <1>2, <1>3

LEMMA CandsTyped ==
  ASSUME Rendezvous
  PROVE  \A c \in Cands : c \in Candidates /\ c.msg \in Message /\ c.msg \in Live
<1>1. \A c \in Cands : c \in Candidates
  BY Elements DEF Rendezvous, Cands
<1> QED BY <1>1, CandidateFields DEF Cands, Live

\* Who is not dropped can still be found.
LEMMA StillIndexed ==
  ASSUME MaxObjects = 1, NEW ix, NEW gone \in SUBSET Message, NEW m \in Message, m \notin gone,
         FrameOf(m) \in DOMAIN ix
  PROVE  FrameOf(m) \in DOMAIN Without(ix, {FrameOf(g) : g \in gone})
<1>1. \A g \in gone : FrameOf(g) # FrameOf(m)
  BY FrameNames
<1> QED BY <1>1 DEF Without

LEMMA FreshIndexed ==
  ASSUME MaxObjects = 1, Rendezvous, Indexed, NEW k \in 0..Len(byMessage),
         NEW c \in Cands, c.msg \notin Expired(k)
  PROVE  FrameOf(c.msg) \in DOMAIN FreshIndex(k)
<1>1. Expired(k) \in SUBSET Message /\ c.msg \in Message
  BY LiveMessages, CandsTyped
<1>2. FrameOf(c.msg) \in DOMAIN byFrame
  BY DEF Indexed
<1> QED BY <1>1, <1>2, StillIndexed DEF FreshIndex

LEMMA ExpireCands ==
  ASSUME MaxObjects = 1, Rendezvous, Indexed, NEW k \in 0..Len(byMessage), Expire(k)
  PROVE  /\ \A c \in Cands' : c \in Cands /\ c.msg \notin Expired(k)
         /\ Indexed'
<1>1. byMessage' = FreshOnes(k) /\ byFrame' = FreshIndex(k)
  BY DEF Expire
<1>2. \A c \in Cands' : c \in Cands /\ c.msg \notin Expired(k)
  BY <1>1, Fresh DEF Cands
<1> QED BY <1>1, <1>2, FreshIndexed DEF Indexed

LEMMA UpdateCands ==
  ASSUME MaxObjects = 1, Rendezvous, Indexed, NEW k \in 0..Len(byMessage),
         NEW c \in Candidates, c.msg \in Live \ Expired(k), Update(c, k)
  PROVE  /\ \A x \in Cands' : x = c \/ (x \in Cands /\ x.msg # c.msg /\ x.msg \notin Expired(k))
         /\ Indexed'
<1> DEFINE q == FreshOnes(k)
           t == [i \in 1..Len(q) |-> IF q[i].msg = c.msg THEN c ELSE q[i]]
<1>1. byMessage' = t /\ byFrame' = FreshIndex(k)
  BY DEF Update
<1>2. /\ q \in Seq(Candidates) /\ Unique(q) /\ Messages(ToSet(q)) = Live \ Expired(k)
      /\ \A x : x \in ToSet(q) <=> x \in Cands /\ x.msg \notin Expired(k)
  BY Fresh
<1> HIDE DEF q
<1>3. \A x : x \in ToSet(t) <=> x = c \/ (x \in ToSet(q) /\ x.msg # c.msg)
  BY <1>2, Replaced
<1> HIDE DEF t
<1>4. \A x \in Cands' : x = c \/ (x \in Cands /\ x.msg # c.msg /\ x.msg \notin Expired(k))
  BY <1>1, <1>2, <1>3 DEF Cands
<1>5. PICK old \in Cands : old.msg = c.msg
  BY LiveIsMessages DEF Messages
<1>6. FrameOf(c.msg) \in DOMAIN FreshIndex(k)
  BY <1>5, FreshIndexed
<1> QED BY <1>1, <1>4, <1>6, FreshIndexed DEF Indexed

LEMMA DropCands ==
  ASSUME MaxObjects = 1, Rendezvous, Indexed, NEW k \in 0..Len(byMessage), NEW m \in Message,
         Drop(m, k)
  PROVE  /\ \A x \in Cands' : x \in Cands /\ x.msg # m /\ x.msg \notin Expired(k)
         /\ Indexed'
<1> DEFINE q == FreshOnes(k)
<1>1. /\ q \in Seq(Candidates) /\ Unique(q)
      /\ \A x : x \in ToSet(q) <=> x \in Cands /\ x.msg \notin Expired(k)
  BY Fresh
<1>2. PICK i \in DOMAIN q : q[i].msg = m /\ byMessage' = RemoveAt(q, i)
  BY DEF Drop
<1>3. byFrame' = Without(FreshIndex(k), {FrameOf(g) : g \in {m}})
  <2>1. {FrameOf(g) : g \in {m}} = {FrameOf(m)}
    OBVIOUS
  <2> QED BY <2>1 DEF Drop
<1> DEFINE t == RemoveAt(q, i)
<1> HIDE DEF q
<1>4. \A x : x \in ToSet(t) <=> x \in ToSet(q) /\ x.msg # q[i].msg
  BY <1>1, Removed
<1> HIDE DEF t
<1>5. \A x \in Cands' : x \in Cands /\ x.msg # m /\ x.msg \notin Expired(k)
  BY <1>1, <1>2, <1>4 DEF Cands, t
<1>6. ASSUME NEW x \in Cands' PROVE FrameOf(x.msg) \in DOMAIN byFrame'
  <2>1. x.msg \in Message /\ x.msg # m /\ FrameOf(x.msg) \in DOMAIN FreshIndex(k)
    BY <1>5, CandsTyped, FreshIndexed
  <2>2. x.msg \notin {m} /\ {m} \in SUBSET Message
    BY <2>1
  <2> QED BY <1>3, <2>1, <2>2, StillIndexed
<1> QED BY <1>5, <1>6 DEF Indexed

LEMMA ArriveCands ==
  ASSUME MaxObjects = 1, Rendezvous, Indexed, NEW k \in 0..Len(byMessage),
         NEW c \in Candidates, c.msg \in Live \ Expired(k), OwnPicture(c), Arrive(c, k)
  PROVE  /\ \A x \in Cands' : \/ x = c /\ ~ Complete(c)
                              \/ x \in Cands /\ x.msg # c.msg /\ x.msg \notin Expired(k)
         /\ Indexed'
         /\ Live \ Expired(k) \subseteq Live' \cup {c.msg}
         /\ ~ Complete(c) => Live \ Expired(k) \subseteq Live'
<1>1. CASE Complete(c)
  <2>1. Drop(c.msg, k) /\ c.msg \in Message
    BY <1>1, CandidateFields DEF Arrive
  <2>2. Live' = Live \ (Expired(k) \cup {c.msg})
    BY <2>1, DropEffect
  <2>3. Indexed' /\ \A x \in Cands' : x \in Cands /\ x.msg # c.msg /\ x.msg \notin Expired(k)
    BY <2>1, DropCands
  <2> QED BY <1>1, <2>2, <2>3
<1>2. CASE ~ Complete(c)
  <2>1. Update(c, k)
    BY <1>2 DEF Arrive
  <2> QED BY <1>2, <2>1, UpdateCands, UpdateEffect
<1> QED BY <1>1, <1>2

LEMMA RecordCands ==
  ASSUME MaxObjects = 1, Rendezvous, Indexed, NEW k \in 0..Len(byMessage), NEW m \in Message,
         m \notin Live, RecordDetection(m, k)
  PROVE  /\ \A x \in Cands' : x = Candidate(m) \/ x \in Cands
         /\ Indexed'
         /\ Live \cup {m} \subseteq Live' \cup forfeited'
         /\ forfeited \subseteq forfeited' /\ forfeited' \subseteq forfeited \cup Live \cup {m}
<1> DEFINE q == FreshOnes(k)
           c == Candidate(m)
           u == Append(q, c)
           n == Overflow(u)
           gone == {u[i].msg : i \in 1..n}
           t == SubSeq(u, n + 1, Len(u))
           old == FreshIndex(k)
           ix == [key \in DOMAIN old \cup {FrameOf(m)} |-> IF key = FrameOf(m) THEN m ELSE old[key]]
<1>1. /\ byMessage' = t /\ byFrame' = Without(ix, {FrameOf(g) : g \in gone})
      /\ forfeited' = forfeited \cup Expired(k) \cup gone
  BY DEF RecordDetection
<1>2. /\ q \in Seq(Candidates) /\ Unique(q) /\ Len(q) \in Nat
      /\ Messages(ToSet(q)) = Live \ Expired(k) /\ Expired(k) \subseteq Live
      /\ \A x : x \in ToSet(q) <=> x \in Cands /\ x.msg \notin Expired(k)
  BY Fresh
<1>3. c \in Candidates /\ c.msg = m
  BY DEF Candidate, Candidates
<1>4. DOMAIN ix = DOMAIN old \cup {FrameOf(m)}
  OBVIOUS
<1> HIDE DEF q, c, ix
<1>5. /\ u \in Seq(Candidates) /\ Len(u) = Len(q) + 1 /\ Unique(u)
      /\ \A x : x \in ToSet(u) <=> x = c \/ x \in ToSet(q)
  <2>1. c.msg \notin Messages(ToSet(q))
    BY <1>2, <1>3
  <2> QED BY <1>2, <1>3, <2>1, Added
<1> HIDE DEF u
<1>6. n \in 0..Len(u)
  <2>1. Len(u) \in Nat /\ MaxRetained \in Nat
    BY <1>2, <1>5, BridgeAssumption
  <2>2. n = IF Len(u) > MaxRetained THEN Len(u) - MaxRetained ELSE 0
    BY DEF Overflow
  <2> QED BY <2>1, <2>2
<1> HIDE DEF n
<1>7. \A x : x \in ToSet(t) <=> x \in ToSet(u) /\ x.msg \notin gone
  BY <1>5, <1>6, Cut
<1>8. gone \subseteq Messages(ToSet(u))
  <2> SUFFICES ASSUME NEW i \in 1..n PROVE u[i].msg \in Messages(ToSet(u))
    OBVIOUS
  <2>1. i \in DOMAIN u
    BY <1>5, <1>6, Elements
  <2>2. u[i] \in ToSet(u)
    BY <1>5, <2>1, Elements
  <2> QED BY <2>2 DEF Messages
<1> HIDE DEF t, gone
<1>9. Messages(ToSet(u)) = (Live \ Expired(k)) \cup {m}
  BY <1>2, <1>3, <1>5 DEF Messages
<1>10. Cands' = ToSet(t)
  BY <1>1 DEF Cands
<1>11. Live' = ((Live \ Expired(k)) \cup {m}) \ gone
  <2>1. Live' = Messages(Cands')
    BY DEF Live, Messages, Cands
  <2>2. Messages(ToSet(t)) = Messages(ToSet(u)) \ gone
    BY <1>7 DEF Messages
  <2> QED BY <1>9, <1>10, <2>1, <2>2
<1>12. \A x \in Cands' : /\ x = c \/ x \in Cands
                         /\ x = c \/ x.msg \notin Expired(k)
                         /\ x.msg \notin gone
  BY <1>2, <1>5, <1>7, <1>10
<1>13. ASSUME NEW x \in Cands' PROVE FrameOf(x.msg) \in DOMAIN byFrame'
  <2>1. gone \in SUBSET Message
    BY <1>8, <1>9, LiveMessages
  <2>2. x.msg \in Message /\ FrameOf(x.msg) \in DOMAIN ix
    <3>1. CASE x = c
      BY <1>3, <1>4, <3>1
    <3>2. CASE x # c
      <4>1. x \in Cands /\ x.msg \notin Expired(k)
        BY <1>12, <3>2
      <4>2. FrameOf(x.msg) \in DOMAIN old
        BY <4>1, FreshIndexed
      <4> QED BY <1>4, <4>1, <4>2, CandsTyped
    <3> QED BY <3>1, <3>2
  <2>3. x.msg \notin gone
    BY <1>12
  <2> QED BY <1>1, <2>1, <2>2, <2>3, StillIndexed
<1>14. Indexed'
  BY <1>13 DEF Indexed
<1>15. /\ Live \cup {m} \subseteq Live' \cup forfeited' /\ forfeited \subseteq forfeited'
       /\ forfeited' \subseteq forfeited \cup Live \cup {m}
  BY <1>1, <1>2, <1>8, <1>9, <1>11
<1> QED BY <1>12, <1>14, <1>15 DEF c

-----------------------------------------------------------------------------
(* Steps of the transport *)

LEMMA MeetsKept ==
  ASSUME Meets, Indexed, UNCHANGED <<meeting, accepted, captured>>
  PROVE  Meets' /\ Indexed'
BY DEF Meets, Indexed, Cands, meeting, Complete

LEMMA ProbingKept ==
  ASSUME Probing, Ahead, Past, UNCHANGED <<todo, frame, branch, encoder, captured, forfeited>>
  PROVE  Probing' /\ Ahead' /\ Past'
BY DEF Probing, WorkingOn, Ahead, Past, Passed

LEMMA StartingKept ==
  ASSUME UNCHANGED todo
  PROVE  Starting' = Starting
BY DEF Starting

\* Detections and answers travel, or get lost, and nothing else happens.
LEMMA TransportStep ==
  ASSUME OrderInv,
         UNCHANGED <<meeting, encoder, branch, frame, todo, accepted, captured, forfeited,
                     offered>>,
         readerHand' = readerHand \/ (readerHand.at # "send" /\ readerHand'.at # "send"),
         InFlight' \subseteq InFlight, Apart', Once(queue'), Unique(acks')
  PROVE  OrderInv'
<1>1. Meets' /\ Indexed' /\ Probing' /\ Ahead' /\ Past'
  BY MeetsKept, ProbingKept DEF OrderInv
<1>2. Offers' = Offers /\ Live' = Live
  BY DEF Offers, Live, meeting
<1>3. Accounted'
  BY <1>2 DEF OrderInv, Accounted, Known, EventsOf
<1> QED BY <1>1, <1>3 DEF OrderInv

\* Nothing new is on its way.
LEMMA LossStep ==
  ASSUME OrderInv,
         UNCHANGED <<meeting, encoder, branch, frame, todo, accepted, captured, forfeited,
                     offered>>,
         readerHand' = readerHand,
         Queued' \subseteq Queued, InHand' \subseteq InHand, inbox' \subseteq inbox,
         Answered' \subseteq Answered, Once(queue'), Unique(acks')
  PROVE  OrderInv'
<1>1. Starting' = Starting /\ InReader' = InReader /\ accepted' = accepted
  BY DEF Starting, InReader
<1>2. Apart'
  BY <1>1 DEF OrderInv, Apart
<1>3. InFlight' \subseteq InFlight
  BY <1>1 DEF InFlight
<1> QED BY <1>2, <1>3, TransportStep

LEMMA NothingAnswered ==
  ASSUME acks' = <<>>
  PROVE  Unique(acks') /\ Answered' = {}
<1>1. DOMAIN acks' = {} /\ ToSet(acks') = {}
  BY DEF ToSet
<1> QED BY <1>1 DEF Unique, Answered, Messages

LEMMA SameQueues ==
  ASSUME OrderInv
  PROVE  /\ UNCHANGED queue => Queued' = Queued /\ Once(queue')
         /\ UNCHANGED acks => Answered' = Answered /\ Unique(acks')
         /\ UNCHANGED hand => InHand' = InHand
         /\ hand' = Idle => InHand' = {}
         /\ UNCHANGED readerHand => InReader' = InReader
BY DEF OrderInv, Queued, Answered, InHand, InReader, Idle

LEMMA SenderOrder ==
  ASSUME IInv, OrderInv, Sender
  PROVE  OrderInv'
<1>1. UNCHANGED <<meeting, encoder, branch, frame, todo, accepted, captured, forfeited,
                  offered, readerHand>>
  BY DEF Sender, SenderTakesSnapshot, SenderPolls, SenderTakesDetection, PollTimesOut,
         SenderEnds, SenderConnects, ConnectFails, Write, WriteFails, SenderDies, Close,
         camera, meeting, queues, socket, history
<1>2. CASE SenderTakesSnapshot
  <2>1. InHand' = {}
    <3>1. Head(snapQueue) \in Offer
      BY <1>2, FirstAndRest DEF IInv, TypeOK, SenderTakesSnapshot
    <3> QED BY <1>2, <3>1, OfferFields DEF SenderTakesSnapshot, InHand
  <2>2. UNCHANGED <<queue, acks, inbox>>
    BY <1>2 DEF SenderTakesSnapshot, socket
  <2> QED BY <1>1, <2>1, <2>2, SameQueues, LossStep
<1>3. CASE SenderTakesDetection
  <2> DEFINE m == Head(queue)
  <2>1. /\ queue \in Seq(Message) /\ queue # <<>> /\ queue' = Tail(queue)
        /\ hand' = [at |-> "detection", msg |-> m] /\ UNCHANGED <<acks, inbox>>
    BY <1>3 DEF IInv, TypeOK, SenderTakesDetection, socket
  <2>2. Once(queue') /\ m \in Queued /\ Queued' \subseteq Queued \ {m}
    BY <2>1, RestOnce DEF OrderInv, Queued
  <2>3. InHand' = {m}
    BY <2>1 DEF InHand
  <2> HIDE DEF m
  <2>4. /\ Starting' = Starting /\ InReader' = InReader /\ accepted' = accepted
        /\ Answered' = Answered /\ inbox' = inbox /\ Unique(acks')
    BY <1>1, <2>1, SameQueues, StartingKept
  <2>5. Apart'
    BY <2>2, <2>3, <2>4 DEF OrderInv, Apart
  <2>6. InFlight' \subseteq InFlight
    BY <2>2, <2>3, <2>4 DEF InFlight
  <2> QED BY <1>1, <2>2, <2>4, <2>5, <2>6, TransportStep
<1>4. CASE SenderPolls \/ PollTimesOut \/ SenderEnds \/ SenderDies
  <2>1. UNCHANGED <<queue, acks, inbox, hand>>
    BY <1>4 DEF SenderPolls, PollTimesOut, SenderEnds, SenderDies, queues, socket
  <2> QED BY <1>1, <2>1, SameQueues, LossStep
<1>5. CASE SenderConnects
  <2>1. UNCHANGED <<queue, hand>> /\ (UNCHANGED <<inbox, acks>> \/ (inbox' = {} /\ acks' = <<>>))
    BY <1>5 DEF SenderConnects, queues
  <2>2. inbox' \subseteq inbox /\ Answered' \subseteq Answered /\ Unique(acks')
    BY <2>1, SameQueues, NothingAnswered
  <2> QED BY <1>1, <2>1, <2>2, SameQueues, LossStep
<1>6. CASE ConnectFails
  <2>1. UNCHANGED <<queue, acks, inbox>> /\ hand' = Idle
    BY <1>6 DEF ConnectFails, queues, socket
  <2> QED BY <1>1, <2>1, SameQueues, LossStep
<1>7. CASE Write
  <2>1. UNCHANGED <<queue, acks>> /\ hand' = Idle /\ inbox' = inbox \cup InHand
    BY <1>7 DEF Write, queues, InHand
  <2>2. /\ Starting' = Starting /\ InReader' = InReader /\ accepted' = accepted
        /\ Answered' = Answered /\ Queued' = Queued /\ InHand' = {}
        /\ Unique(acks') /\ Once(queue')
    BY <1>1, <2>1, SameQueues, StartingKept
  <2>3. Apart'
    BY <2>1, <2>2 DEF OrderInv, Apart
  <2>4. InFlight' \subseteq InFlight
    BY <2>1, <2>2 DEF InFlight
  <2> QED BY <1>1, <2>2, <2>3, <2>4, TransportStep
<1>8. CASE WriteFails
  <2>1. UNCHANGED queue /\ hand' = Idle /\ inbox' = {} /\ acks' = <<>>
    BY <1>8 DEF WriteFails, Close, queues
  <2>2. inbox' \subseteq inbox /\ Answered' \subseteq Answered /\ Unique(acks')
    BY <2>1, NothingAnswered
  <2> QED BY <1>1, <2>1, <2>2, SameQueues, LossStep
<1> QED BY <1>2, <1>3, <1>4, <1>5, <1>6, <1>7, <1>8 DEF Sender

\* The rest of the transport: the Agent, the reader's other steps, the stop.
LEMMA ReaderOrder ==
  ASSUME IInv, OrderInv,
         \/ \E m \in Message, o \in {"accepted", "declined"} : AgentAnswers(m, o)
         \/ LoseStep \/ ReadFrame \/ Misread \/ ReaderCloses \/ ReaderEnds
         \/ StopTransport \/ Stopped \/ UNCHANGED vars
  PROVE  OrderInv'
<1>1. UNCHANGED <<meeting, encoder, branch, frame, todo, accepted, captured, forfeited,
                  offered, queue, hand>>
  BY DEF AgentAnswers, LoseStep, ReadFrame, Misread, ReaderCloses, ReaderEnds, StopTransport,
         Stopped, vars, camera, meeting, queues, socket, history
<1>2. acks \in Seq(Ack)
  BY DEF IInv, TypeOK
<1>3. ASSUME NEW m \in Message, NEW o \in {"accepted", "declined"}, AgentAnswers(m, o)
      PROVE  OrderInv'
  <2> DEFINE a == [at |-> "ack", msg |-> m, outcome |-> o]
  <2>1. m \in inbox /\ inbox' = inbox \ {m} /\ acks' = Append(acks, a) /\ UNCHANGED readerHand
    BY <1>3 DEF AgentAnswers
  <2>2. a \in Ack /\ a.msg = m
    BY DEF Ack
  <2>3. a.msg \notin Messages(ToSet(acks))
    BY <2>1, <2>2 DEF OrderInv, Apart, Answered
  <2> HIDE DEF a
  <2>4. Unique(acks') /\ Answered' \subseteq Answered \cup {m}
    BY <1>2, <2>1, <2>2, <2>3, AppendUnique DEF OrderInv, Answered
  <2>5. /\ Starting' = Starting /\ InReader' = InReader /\ accepted' = accepted
        /\ Queued' = Queued /\ InHand' = InHand /\ Once(queue')
    BY <1>1, <2>1, SameQueues, StartingKept
  <2>6. Apart'
    BY <2>1, <2>4, <2>5 DEF OrderInv, Apart
  <2>7. InFlight' \subseteq InFlight
    BY <2>1, <2>4, <2>5 DEF InFlight
  <2> QED BY <1>1, <2>1, <2>4, <2>5, <2>6, <2>7, TransportStep
<1>4. CASE ReadFrame
  <2>1. acks # <<>> /\ readerHand' = Head(acks) /\ acks' = Tail(acks) /\ UNCHANGED inbox
    BY <1>4 DEF ReadFrame
  <2>2. readerHand = Idle
    BY <1>4, ReaderHand DEF IInv, ReadFrame
  <2> DEFINE m == Head(acks).msg
  <2>3. /\ Unique(acks') /\ m \in Answered /\ Answered' \subseteq Answered \ {m}
        /\ Head(acks) \in Ack
    BY <1>2, <2>1, RestUnique DEF OrderInv, Answered
  <2>4. InReader' = {m} /\ readerHand.at # "send" /\ readerHand'.at # "send"
    BY <2>1, <2>2, <2>3 DEF InReader, Ack, Idle
  <2> HIDE DEF m
  <2>5. /\ Starting' = Starting /\ accepted' = accepted /\ inbox' = inbox
        /\ Queued' = Queued /\ InHand' = InHand /\ Once(queue')
    BY <1>1, <2>1, SameQueues, StartingKept
  <2>6. Apart'
    BY <2>3, <2>4, <2>5 DEF OrderInv, Apart
  <2>7. InFlight' \subseteq InFlight
    BY <2>3, <2>4, <2>5 DEF InFlight
  <2> QED BY <1>1, <2>3, <2>4, <2>5, <2>6, <2>7, TransportStep
<1>5. CASE Misread
  <2>1. acks # <<>> /\ (acks' = Tail(acks) \/ UNCHANGED acks) /\ UNCHANGED <<inbox, readerHand>>
    BY <1>5 DEF Misread
  <2>2. Unique(acks') /\ Answered' \subseteq Answered
    <3>1. acks' = Tail(acks) => Unique(acks') /\ Answered' \subseteq Answered
      BY <1>2, <2>1, RestUnique DEF OrderInv, Answered
    <3> QED BY <2>1, <3>1, SameQueues
  <2> QED BY <1>1, <2>1, <2>2, SameQueues, LossStep
<1>6. CASE ReaderCloses \/ StopTransport
  <2>1. inbox' = {} /\ acks' = <<>> /\ UNCHANGED readerHand
    BY <1>6 DEF ReaderCloses, StopTransport, Close
  <2>2. inbox' \subseteq inbox /\ Answered' \subseteq Answered /\ Unique(acks')
    BY <2>1, NothingAnswered
  <2> QED BY <1>1, <2>1, <2>2, SameQueues, LossStep
<1>7. CASE LoseStep \/ ReaderEnds \/ Stopped \/ UNCHANGED vars
  <2>1. UNCHANGED <<inbox, acks, readerHand>>
    BY <1>7 DEF LoseStep, ReaderEnds, Stopped, vars, socket
  <2> QED BY <1>1, <2>1, SameQueues, LossStep
<1> QED BY <1>3, <1>4, <1>5, <1>6, <1>7

-----------------------------------------------------------------------------
(* Steps of the probe *)

\* What the next step of the probe shows of its work, and what is left of it.
LEMMA AtWork ==
  ASSUME Probing, todo \in Seq(Step), todo # <<>>, NEW m, m = Head(todo).msg
  PROVE  /\ m \in Message /\ WorkingOn(m) /\ \A i \in DOMAIN todo : todo[i].msg = m
         /\ Head(todo).do = Doing(Len(todo) - 1) /\ Len(todo) \in 1..3
<1>1. /\ Head(todo) = todo[1] /\ 1 \in DOMAIN todo /\ Len(todo) \in Nat /\ Len(todo) >= 1
  BY FirstAndRest, Elements
<1>2. PICK n \in Message : WorkingOn(n)
  BY DEF Probing
<1>3. /\ Len(todo) <= 3
      /\ \A i \in DOMAIN todo : todo[i].do = Doing(Len(todo) - i) /\ todo[i].msg = n
  BY <1>2 DEF WorkingOn
<1>4. m = n /\ Head(todo).do = Doing(Len(todo) - 1)
  BY <1>1, <1>3
<1>5. Len(todo) \in 1..3
  <2>1. \A l \in Nat : l >= 1 /\ l <= 3 => l \in 1..3
    OBVIOUS
  <2> QED BY <1>1, <1>3, <2>1
<1> QED BY <1>2, <1>3, <1>4, <1>5

LEMMA WorkLeft ==
  ASSUME Probing, todo \in Seq(Step), todo # <<>>, todo' = Tail(todo), NEW m, m = Head(todo).msg
  PROVE  /\ Probing' /\ \A i \in DOMAIN todo' : todo'[i].msg = m /\ todo'[i].do # "register"
         /\ Head(todo).do = "register" => Starting' = {m}
         /\ Head(todo).do # "register" => Starting' = {}
<1>1. /\ m \in Message /\ WorkingOn(m)
      /\ Head(todo).do = Doing(Len(todo) - 1) /\ Len(todo) \in 1..3
  BY AtWork
<1>2. /\ todo' \in Seq(Step) /\ Len(todo') = Len(todo) - 1
      /\ \A i \in DOMAIN todo' : i + 1 \in DOMAIN todo /\ todo'[i] = todo[i + 1] /\ i \in Nat
      /\ DOMAIN todo' = 1..Len(todo') /\ Len(todo') \in Nat
  BY FirstAndRest, Elements
<1>3. \A i \in DOMAIN todo' : todo'[i].do = Doing(Len(todo') - i) /\ todo'[i].msg = m
  <2> SUFFICES ASSUME NEW i \in DOMAIN todo'
               PROVE  todo'[i].do = Doing(Len(todo') - i) /\ todo'[i].msg = m
    OBVIOUS
  <2>1. Len(todo) - (i + 1) = Len(todo') - i
    BY <1>1, <1>2
  <2> QED BY <1>1, <1>2, <2>1 DEF WorkingOn
<1>4. Probing'
  <2>1. Len(todo') <= 3
    BY <1>1, <1>2
  <2> QED BY <1>1, <1>3, <2>1 DEF Probing, WorkingOn
<1>5. \A i \in DOMAIN todo' : todo'[i].msg = m /\ todo'[i].do # "register"
  <2> SUFFICES ASSUME NEW i \in DOMAIN todo' PROVE todo'[i].msg = m /\ todo'[i].do # "register"
    OBVIOUS
  <2>1. Len(todo') - i = 0 \/ Len(todo') - i = 1
    BY <1>1, <1>2
  <2> QED BY <1>3, <2>1 DEF Doing
<1>6. CASE todo' = <<>>
  <2>1. Len(todo) - 1 = 0
    BY <1>1, <1>2, <1>6, EmptySeq
  <2> QED BY <1>1, <1>4, <1>5, <1>6, <2>1 DEF Starting, Doing
<1>7. CASE todo' # <<>>
  <2>1. Head(todo') = todo'[1] /\ 1 \in DOMAIN todo' /\ Len(todo') >= 1
    BY <1>2, <1>7, FirstAndRest
  <2>2. Head(todo').msg = m /\ Head(todo').do = Doing(Len(todo') - 1)
    BY <1>3, <2>1
  <2>3. \/ Len(todo) - 1 = 1 /\ Len(todo') - 1 = 0
        \/ Len(todo) - 1 = 2 /\ Len(todo') - 1 = 1
    BY <1>1, <1>2, <2>1
  <2> QED BY <1>1, <1>4, <1>5, <1>7, <2>2, <2>3 DEF Starting, Doing
<1> QED BY <1>6, <1>7

LEMMA WholeWork ==
  ASSUME NEW s \in Sources, NEW f \in 1..Frames[s], MaxObjects = 1, todo' = Steps(s, f, 1)
  PROVE  /\ Probing' /\ \A i \in DOMAIN todo' : todo'[i].msg = <<s, f, 1>>
         /\ Starting' = {}
<1> DEFINE m == <<s, f, 1>>
<1>1. m \in Message
  <2>1. 1 \in 1..MaxObjects
    OBVIOUS
  <2> QED BY <2>1 DEF Message
<1>2. 2 * 1 + 1 = 3 /\ 2 * 1 = 2
  OBVIOUS
<1>3. todo' = [i \in 1..3 |-> IF i > 2 THEN [do |-> "pass", msg |-> <<s, f, 1>>]
                              ELSE [do |-> IF i % 2 = 1 THEN "register" ELSE "enqueue",
                                    msg |-> <<s, f, (i + 1) \div 2>>]]
  BY <1>2 DEF Steps
<1>4. todo' \in Seq(Step) /\ todo' # <<>>
  <2>1. 1 \in 1..MaxObjects
    OBVIOUS
  <2>2. todo' \in Seq(Step)
    BY <2>1, StepsOK
  <2>3. 1 \in DOMAIN todo'
    BY <1>3
  <2> QED BY <2>2, <2>3
<1>5. Len(todo') = 3 /\ DOMAIN todo' = 1..3
  <2>1. DOMAIN todo' = 1..3
    BY <1>3
  <2>2. DOMAIN todo' = 1..Len(todo') /\ Len(todo') \in Nat
    BY <1>4, Elements
  <2> QED BY <2>1, <2>2
<1>6. \A i \in 1..3 : todo'[i].do = Doing(3 - i) /\ todo'[i].msg = m
  <2>1. /\ 1 % 2 = 1 /\ 2 % 2 = 0 /\ (1 + 1) \div 2 = 1 /\ (2 + 1) \div 2 = 1
        /\ ~ (1 > 2) /\ ~ (2 > 2) /\ 3 > 2 /\ 3 - 1 = 2 /\ 3 - 2 = 1 /\ 3 - 3 = 0
    OBVIOUS
  <2>2. /\ todo'[1] = [do |-> "register", msg |-> <<s, f, 1>>]
        /\ todo'[2] = [do |-> "enqueue", msg |-> <<s, f, 1>>]
        /\ todo'[3] = [do |-> "pass", msg |-> <<s, f, 1>>]
    BY <1>3, <2>1
  <2>3. \A i \in 1..3 : i = 1 \/ i = 2 \/ i = 3
    OBVIOUS
  <2> QED BY <2>1, <2>2, <2>3 DEF Doing
<1> HIDE DEF m
<1>7. Probing' /\ \A i \in DOMAIN todo' : todo'[i].msg = m
  <2>1. \A i \in DOMAIN todo' : todo'[i].do = Doing(Len(todo') - i) /\ todo'[i].msg = m
    BY <1>5, <1>6
  <2>2. Len(todo') <= 3
    <3>1. \A l : l = 3 => l <= 3
      OBVIOUS
    <3> QED BY <1>5, <3>1
  <2> QED BY <1>1, <2>1, <2>2 DEF Probing, WorkingOn
<1>8. Starting' = {}
  <2>1. Head(todo') = todo'[1] /\ 1 \in 1..3 /\ 3 - 1 = 2
    BY <1>4, FirstAndRest
  <2>2. Head(todo').do = "register"
    BY <1>6, <2>1 DEF Doing
  <2> QED BY <2>2 DEF Starting
<1> QED BY <1>7, <1>8 DEF m

LEMMA NotStarting == todo = <<>> => Starting = {}
BY DEF Starting

LEMMA HandleBufferOrder ==
  ASSUME MaxObjects = 1, IInv, OrderInv, NEW s \in Sources, HandleBuffer(s, 1)
  PROVE  OrderInv'
<1> DEFINE f == frame[s] + 1
           m == <<s, f, 1>>
<1>1. UNCHANGED <<meeting, encoder, branch, accepted, captured, forfeited, offered, queue, hand,
                  inbox, acks, readerHand, byMessage>>
  BY DEF HandleBuffer, camera, meeting, queues, socket, history
<1>2. /\ frame[s] \in Nat /\ f \in 1..Frames[s] /\ f \in Nat
      /\ frame' = [frame EXCEPT ![s] = f] /\ frame' \in [Sources -> Nat]
  <2>1. frame[s] \in Nat /\ Frames[s] \in Nat /\ frame[s] < Frames[s]
    BY BridgeAssumption DEF IInv, TypeOK, HandleBuffer
  <2>2. f \in 1..Frames[s] /\ f \in Nat
    BY <2>1
  <2>3. frame' = [frame EXCEPT ![s] = f]
    BY DEF HandleBuffer
  <2> QED BY <2>1, <2>2, <2>3 DEF IInv, TypeOK
<1>3. todo = <<>> /\ todo' = Steps(s, f, 1)
  BY DEF HandleBuffer
<1>4. Probing' /\ Starting' = {} /\ \A i \in DOMAIN todo' : todo'[i].msg = m
  BY <1>2, <1>3, WholeWork
<1>5. Meets' /\ Indexed'
  BY <1>1, MeetsKept DEF OrderInv
<1>6. /\ Queued' = Queued /\ Once(queue') /\ Answered' = Answered /\ Unique(acks')
      /\ InHand' = InHand /\ InReader' = InReader /\ inbox' = inbox /\ accepted' = accepted
      /\ Starting = {}
  BY <1>1, <1>3, SameQueues, NotStarting
<1>7. Apart'
  BY <1>4, <1>6 DEF OrderInv, Apart
<1>8. Accounted'
  <2>1. InFlight' \subseteq InFlight
    BY <1>4, <1>6 DEF InFlight
  <2>2. Offers' = Offers /\ Live' = Live
    BY <1>1 DEF Offers, Live
  <2> QED BY <1>1, <2>1, <2>2 DEF OrderInv, Accounted, Known, EventsOf
<1> HIDE DEF f
<1>9. ASSUME NEW p, p[1] \in Sources, p[2] \in Nat, p[2] <= frame[p[1]]
      PROVE  p[2] <= frame'[p[1]] /\ <<p[1], p[2]>> # <<s, f>>
  <2>1. CASE p[1] = s
    <3>1. frame'[p[1]] = f /\ p[2] <= frame[s] /\ f = frame[s] + 1
      BY <1>2, <1>9, <2>1 DEF f, IInv, TypeOK
    <3> QED BY <1>2, <1>9, <3>1
  <2>2. CASE p[1] # s
    BY <1>2, <1>9, <2>2 DEF IInv, TypeOK
  <2> QED BY <2>1, <2>2
<1>10. Ahead'
  <2>1. Passed' = Passed
    BY <1>1 DEF Passed
  <2>2. Passed \subseteq Shot
    BY DEF Passed
  <2>3. \A p \in Shot : p[1] \in Sources /\ p[2] \in Nat /\ p = <<p[1], p[2]>>
    BY DEF Shot
  <2>4. \A p \in Passed : p[2] <= frame'[p[1]] /\ p # <<s, f>>
    BY <1>9, <2>2, <2>3 DEF OrderInv, Ahead
  <2>5. \A i \in DOMAIN todo' : FrameOf(todo'[i].msg) = <<s, f>>
    BY <1>4 DEF FrameOf
  <2> QED BY <2>1, <2>4, <2>5 DEF Ahead
<1>11. Past'
  <2>1. \A g \in forfeited : g[1] \in Sources /\ g[2] \in Nat
    BY FrameOfMessage DEF IInv, TypeOK
  <2>2. \A g \in forfeited : g[2] <= frame'[g[1]] /\ <<g[1], g[2]>> # <<s, f>>
    BY <1>9, <2>1 DEF OrderInv, Past
  <2>3. m[1] = s /\ m[2] = f
    OBVIOUS
  <2>4. m \notin forfeited
    BY <2>2, <2>3
  <2> QED BY <1>1, <1>4, <2>2, <2>4 DEF Past
<1> QED BY <1>4, <1>5, <1>6, <1>7, <1>8, <1>10, <1>11 DEF OrderInv

LEMMA EnqueueOrder ==
  ASSUME IInv, OrderInv, Enqueue
  PROVE  OrderInv'
<1> DEFINE m == Head(todo).msg
<1>1. UNCHANGED <<meeting, encoder, branch, frame, accepted, captured, forfeited, offered, hand,
                  inbox, acks, readerHand, byMessage>>
  BY DEF Enqueue, camera, meeting, queues, socket, history
<1>2. /\ todo \in Seq(Step) /\ todo # <<>> /\ todo' = Tail(todo) /\ Head(todo).do = "enqueue"
      /\ queue \in Seq(Message) /\ queue' = Put(queue, m, QueueCapacity)
  BY DEF IInv, TypeOK, Enqueue
<1>3. Probing /\ Ahead /\ Past /\ Apart /\ Accounted /\ Once(queue)
  BY DEF OrderInv
<1>4. m \in Message /\ Starting = {m} /\ \A i \in DOMAIN todo : todo[i].msg = m
  BY <1>2, <1>3, AtWork DEF Starting
<1>5. /\ Probing' /\ Starting' = {}
      /\ \A i \in DOMAIN todo' : todo'[i].msg = m /\ todo'[i].do # "register"
  BY <1>2, <1>3, WorkLeft
<1> HIDE DEF m
<1>6. Once(queue') /\ Queued' \subseteq Queued \cup {m}
  <2>1. m \notin ToSet(queue)
    BY <1>3, <1>4 DEF Apart, Queued
  <2> QED BY <1>2, <1>3, <1>4, <2>1, PutOnce DEF Queued
<1>7. /\ Answered' = Answered /\ Unique(acks') /\ InHand' = InHand /\ InReader' = InReader
      /\ inbox' = inbox /\ accepted' = accepted
  BY <1>1, SameQueues
<1>8. Apart'
  BY <1>3, <1>4, <1>5, <1>6, <1>7 DEF Apart
<1>9. Accounted'
  <2>1. InFlight' \subseteq InFlight
    BY <1>4, <1>5, <1>6, <1>7 DEF InFlight
  <2>2. Offers' = Offers /\ Live' = Live
    BY <1>1 DEF Offers, Live
  <2> QED BY <1>1, <1>3, <2>1, <2>2 DEF Accounted, Known, EventsOf
<1>10. Meets' /\ Indexed'
  BY <1>1, MeetsKept DEF OrderInv
<1>11. Ahead' /\ Past'
  <2>1. Passed' = Passed /\ 1 \in DOMAIN todo
    BY <1>1, <1>2, FirstAndRest DEF Passed
  <2> QED BY <1>1, <1>3, <1>4, <1>5, <2>1 DEF Ahead, Past
<1> QED BY <1>5, <1>6, <1>7, <1>8, <1>9, <1>10, <1>11 DEF OrderInv

\* What is in a queue of frames after one was added, or taken.
LEMMA OneMore ==
  ASSUME NEW S, NEW q \in Seq(S), NEW e \in S
  PROVE  ToSet(Append(q, e)) \subseteq ToSet(q) \cup {e}
<1> DEFINE t == Append(q, e)
<1>1. /\ Len(q) \in Nat /\ DOMAIN q = 1..Len(q) /\ t \in Seq(S)
      /\ Len(t) = Len(q) + 1 /\ t[Len(q) + 1] = e
      /\ \A i \in 1..Len(q) : t[i] = q[i]
  BY AppendProperties, Elements
<1>2. DOMAIN t = 1..(Len(q) + 1)
  BY <1>1, Elements
<1> HIDE DEF t
<1>3. \A i \in 1..(Len(q) + 1) : i \in 1..Len(q) \/ i = Len(q) + 1
  BY <1>1
<1>4. \A c \in ToSet(t) : c \in ToSet(q) \/ c = e
  BY <1>1, <1>2, <1>3, Elements
<1> QED BY <1>4 DEF t

LEMMA OneLess ==
  ASSUME NEW S, NEW q \in Seq(S), q # <<>>
  PROVE  Head(q) \in ToSet(q) /\ ToSet(Tail(q)) \subseteq ToSet(q)
<1> DEFINE t == Tail(q)
<1>1. /\ Head(q) = q[1] /\ 1 \in DOMAIN q /\ t \in Seq(S)
      /\ \A i \in DOMAIN t : i + 1 \in DOMAIN q /\ t[i] = q[i + 1]
  BY FirstAndRest
<1> HIDE DEF t
<1>2. \A c \in ToSet(t) : c \in ToSet(q)
  BY <1>1, Elements
<1> QED BY <1>1, <1>2, Elements DEF t

LEMMA PassBufferOrder ==
  ASSUME IInv, OrderInv, PassBuffer
  PROVE  OrderInv'
<1> DEFINE m == Head(todo).msg
           shot == FrameOf(m)
           s == shot[1]
           q == branch[s]
           r == IF Len(q) < BranchCapacity THEN q ELSE Tail(q)
<1>1. UNCHANGED <<meeting, encoder, frame, accepted, captured, forfeited, offered, queue, hand,
                  inbox, acks, readerHand, byMessage>>
  BY DEF PassBuffer, camera, meeting, queues, socket, history
<1>2. /\ todo \in Seq(Step) /\ todo # <<>> /\ todo' = <<>> /\ Head(todo).do = "pass"
      /\ branch' = [branch EXCEPT ![s] = Append(r, shot)]
  BY DEF IInv, TypeOK, PassBuffer
<1>3. Probing /\ Ahead /\ Past /\ Apart /\ Accounted
  BY DEF OrderInv
<1>4. /\ m \in Message /\ \A i \in DOMAIN todo : todo[i].msg = m
      /\ 1 \in DOMAIN todo
  BY <1>2, <1>3, AtWork, FirstAndRest
<1>5. Starting = {} /\ Starting' = {}
  BY <1>2, NotStarting DEF Starting
<1>6. /\ shot \in Shot /\ shot[1] \in Sources /\ shot[1] = m[1] /\ shot[2] = m[2]
      /\ m[2] <= frame[m[1]]
  <2>1. m[2] <= frame[m[1]]
    BY <1>4 DEF IInv, Seen
  <2>2. shot[1] = m[1] /\ shot[2] = m[2]
    BY DEF FrameOf
  <2> QED BY <1>4, <2>1, <2>2, FrameOfMessage
<1>7. r \in Seq(Shot) /\ ToSet(r) \subseteq ToSet(q)
  <2>1. q \in Seq(Shot) /\ Len(q) \in Nat
    BY <1>6, Elements DEF IInv, TypeOK
  <2>2. CASE Len(q) < BranchCapacity
    BY <2>1, <2>2
  <2>3. CASE ~ (Len(q) < BranchCapacity)
    <3>1. q # <<>>
      <4>1. CASE q = <<>>
        BY <2>3, <4>1, EmptySeq, BridgeAssumption
      <4> QED BY <4>1
    <3>2. Tail(q) \in Seq(Shot) /\ ToSet(Tail(q)) \subseteq ToSet(q)
      BY <2>1, <3>1, FirstAndRest, OneLess
    <3> QED BY <2>3, <3>2
  <2> QED BY <2>2, <2>3
<1> HIDE DEF r, q, shot
<1>8. ToSet(Append(r, shot)) \subseteq ToSet(q) \cup {shot}
  BY <1>6, <1>7, OneMore
<1>9. Passed' \subseteq Passed \cup {shot}
  <2>1. \A x \in Sources : ToSet(branch'[x]) \subseteq ToSet(branch[x]) \cup {shot}
    BY <1>2, <1>8 DEF IInv, TypeOK, q
  <2> QED BY <1>1, <2>1 DEF Passed
<1>10. Ahead' /\ Past'
  <2>1. DOMAIN todo' = {}
    BY <1>2
  <2> QED BY <1>1, <1>3, <1>6, <1>9, <2>1 DEF Ahead, Past
<1>11. Probing'
  BY <1>2 DEF Probing
<1>12. /\ Answered' = Answered /\ Unique(acks') /\ InHand' = InHand /\ InReader' = InReader
       /\ inbox' = inbox /\ accepted' = accepted /\ Queued' = Queued /\ Once(queue')
  BY <1>1, SameQueues
<1>13. Apart'
  BY <1>3, <1>5, <1>12 DEF Apart
<1>14. Accounted'
  <2>1. InFlight' \subseteq InFlight
    BY <1>5, <1>12 DEF InFlight
  <2>2. Offers' = Offers /\ Live' = Live
    BY <1>1 DEF Offers, Live
  <2> QED BY <1>1, <1>3, <2>1, <2>2 DEF Accounted, Known, EventsOf
<1>15. Meets' /\ Indexed'
  BY <1>1, MeetsKept DEF OrderInv
<1> QED BY <1>10, <1>11, <1>12, <1>13, <1>14, <1>15 DEF OrderInv

LEMMA OnCandidateOrder ==
  ASSUME MaxObjects = 1, IInv, OrderInv, OnCandidate
  PROVE  OrderInv'
<1> DEFINE m == Head(todo).msg
<1>1. UNCHANGED <<encoder, branch, frame, accepted, captured, offered, queue, hand, inbox, acks,
                  readerHand>>
  BY DEF OnCandidate, camera, meeting, queues, socket, history
<1>2. /\ todo \in Seq(Step) /\ todo # <<>> /\ todo' = Tail(todo) /\ Head(todo).do = "register"
      /\ Head(todo) = todo[1] /\ 1 \in DOMAIN todo
  BY FirstAndRest DEF IInv, TypeOK, OnCandidate
<1>3. /\ Probing /\ Ahead /\ Past /\ Apart /\ Accounted /\ Meets /\ Indexed
      /\ Once(queue) /\ Unique(acks)
  BY DEF OrderInv
<1>4. m \in Message /\ \A i \in DOMAIN todo : todo[i].msg = m
  BY <1>2, <1>3, AtWork
<1>5. /\ Probing' /\ Starting' = {m} /\ Starting = {}
      /\ \A i \in DOMAIN todo' : todo'[i].msg = m /\ todo'[i].do # "register"
  BY <1>2, <1>3, WorkLeft DEF Starting
<1>6. m \notin Known /\ m \notin forfeited
  BY <1>2, <1>3 DEF IInv, StillNew, Past
<1>7. FrameOf(m) \notin Passed /\ m[2] <= frame[m[1]]
  BY <1>2, <1>3 DEF Ahead, IInv, Seen
<1>8. PICK k \in 0..Len(byMessage) : RecordDetection(m, k)
  BY DEF OnCandidate
<1> HIDE DEF m
<1>9. /\ \A x \in Cands' : x = Candidate(m) \/ x \in Cands
      /\ Indexed'
      /\ Live \cup {m} \subseteq Live' \cup forfeited'
      /\ forfeited \subseteq forfeited' /\ forfeited' \subseteq forfeited \cup Live \cup {m}
  BY <1>3, <1>4, <1>6, <1>8, RecordCands DEF IInv, Known
<1>10. m \notin InFlight \cup accepted
  BY <1>3, <1>6 DEF Accounted
<1>11. Meets'
  <2>1. FrameOf(m) \notin captured
    BY <1>4, <1>7, FrameOfMessage DEF Passed
  <2>2. /\ Candidate(m).msg = m /\ ~ Complete(Candidate(m))
    BY DEF Candidate, Complete
  <2> QED BY <1>1, <1>3, <1>9, <1>10, <2>1, <2>2 DEF Meets, Complete
<1>12. /\ Answered' = Answered /\ Unique(acks') /\ InHand' = InHand /\ InReader' = InReader
       /\ inbox' = inbox /\ accepted' = accepted /\ Queued' = Queued /\ Once(queue')
  BY <1>1, SameQueues
<1>13. Apart'
  BY <1>3, <1>5, <1>10, <1>12 DEF Apart, InFlight
<1>14. Accounted'
  <2>1. InFlight' \subseteq InFlight \cup {m}
    BY <1>5, <1>12 DEF InFlight
  <2>2. Offers' = Offers
    BY <1>1 DEF Offers
  <2>3. Known \cup forfeited \cup {m} \subseteq Known' \cup forfeited'
    BY <1>9, <2>2 DEF Known, EventsOf
  <2> QED BY <1>3, <1>12, <2>1, <2>3 DEF Accounted
<1>15. Ahead'
  <2>1. Passed' = Passed
    BY <1>1 DEF Passed
  <2> QED BY <1>1, <1>3, <1>5, <1>7, <2>1 DEF Ahead
<1>16. Past'
  <2>1. \A g \in Live : g[2] <= frame[g[1]]
    BY DEF IInv, Seen, Known
  <2>2. \A g \in forfeited' : g[2] <= frame[g[1]]
    BY <1>3, <1>7, <1>9, <2>1 DEF Past
  <2> QED BY <1>1, <1>5, <2>2 DEF Past
<1> QED BY <1>5, <1>9, <1>11, <1>12, <1>13, <1>14, <1>15, <1>16 DEF OrderInv

-----------------------------------------------------------------------------
(* Steps of the branches, the reader's dispatch and the stop *)

LEMMA FoundCandidate ==
  ASSUME Rendezvous, NEW m \in Live
  PROVE  CandidateOf(m) \in Cands /\ CandidateOf(m).msg = m /\ CandidateOf(m) \in Candidates
<1>1. \E c \in ToSet(byMessage) : c.msg = m
  BY DEF Live
<1> QED BY <1>1, Lookup DEF CandidateOf, Cands

\* The detections are where they were.
LEMMA FlightKept ==
  ASSUME OrderInv, UNCHANGED <<queue, hand, inbox, acks, todo, readerHand, accepted>>
  PROVE  InFlight' = InFlight /\ Apart' /\ Once(queue') /\ Unique(acks')
<1>1. Starting' = Starting /\ Queued' = Queued /\ InHand' = InHand /\ Answered' = Answered
      /\ InReader' = InReader
  BY SameQueues, StartingKept
<1> QED BY <1>1 DEF OrderInv, InFlight, Apart

\* No evidence gets out of sight.
LEMMA OffersGrow ==
  ASSUME offered \subseteq offered',
         readerHand.at = "send" => readerHand \in offered' \/ readerHand' = readerHand,
         \A s \in Sources : encoder[s].at = "send" =>
                              encoder[s] \in offered' \/ encoder'[s] = encoder[s]
  PROVE  Offers \subseteq Offers' /\ EventsOf(Offers) \subseteq EventsOf(Offers')
<1>1. Offers \subseteq Offers'
  BY DEF Offers
<1> QED BY <1>1 DEF EventsOf

\* The work of the probe is as it was, while candidates expire.
LEMMA ProbeWaits ==
  ASSUME IInv, OrderInv, UNCHANGED <<todo, frame>>, Passed' \subseteq Passed,
         forfeited' \subseteq forfeited \cup Live
  PROVE  Probing' /\ Ahead' /\ Past'
<1>1. Probing'
  BY DEF OrderInv, Probing, WorkingOn
<1>2. Ahead'
  BY DEF OrderInv, Ahead
<1>3. Past'
  <2>1. \A g \in Live : g[2] <= frame[g[1]]
    BY DEF IInv, Seen, Known
  <2>2. \A i \in DOMAIN todo : todo[i].do = "register" => todo[i].msg \notin Live
    BY DEF IInv, StillNew, Known
  <2> QED BY <2>1, <2>2 DEF OrderInv, Past
<1> QED BY <1>1, <1>2, <1>3

LEMMA FewerMeet ==
  ASSUME Meets, UNCHANGED <<accepted, captured>>, \A x \in Cands' : x \in Cands
  PROVE  Meets'
BY DEF Meets, Complete

LEMMA GateBufferOrder ==
  ASSUME MaxObjects = 1, IInv, OrderInv, NEW s \in Sources, GateBuffer(s)
  PROVE  OrderInv'
<1> DEFINE shot == Head(branch[s])
<1>1. UNCHANGED <<frame, todo, queue, hand, inbox, acks, readerHand, accepted, captured, offered>>
  BY DEF GateBuffer, queues, socket
<1>2. /\ encoder[s] = Idle /\ branch[s] # <<>> /\ branch[s] \in Seq(Shot)
      /\ branch' = [branch EXCEPT ![s] = Tail(branch[s])]
  BY DEF GateBuffer, IInv, TypeOK
<1>3. PICK k \in 0..Len(byMessage) :
        LET ms == Matching(GateKey(shot)) \ Expired(k)
            found == {m \in ms : ~CandidateOf(m).matched}
        IN /\ forfeited' = forfeited \cup Expired(k)
           /\ IF found = {}
              THEN Expire(k) /\ UNCHANGED <<encoder, pending>>
              ELSE /\ \E m \in found :
                        Update([CandidateOf(m) EXCEPT !.matched = TRUE], k)
                   /\ encoder' = [encoder EXCEPT ![s] = [at |-> "encode", shot |-> shot]]
                   /\ pending' = [pending EXCEPT ![s] = Append(@, shot)]
  BY DEF GateBuffer
<1>4. /\ Meets /\ Indexed /\ Accounted /\ Rendezvous
      /\ Expired(k) \subseteq Live /\ forfeited' = forfeited \cup Expired(k)
  BY <1>3, Fresh DEF OrderInv, IInv
<1>5. shot \in ToSet(branch[s]) /\ ToSet(Tail(branch[s])) \subseteq ToSet(branch[s])
  BY <1>2, OneLess
<1> HIDE DEF shot
<1>6. /\ encoder' = encoder \/ encoder' = [encoder EXCEPT ![s] = [at |-> "encode", shot |-> shot]]
      /\ Live \ Expired(k) \subseteq Live' /\ Indexed' /\ Meets'
  <2>1. CASE {m \in Matching(GateKey(shot)) \ Expired(k) : ~CandidateOf(m).matched} = {}
    <3>1. Expire(k) /\ encoder' = encoder
      BY <1>3, <2>1
    <3>2. Indexed' /\ \A x \in Cands' : x \in Cands
      BY <1>4, <3>1, ExpireCands
    <3> QED BY <1>1, <1>4, <3>1, <3>2, ExpireEffect, FewerMeet
  <2>2. CASE {m \in Matching(GateKey(shot)) \ Expired(k) : ~CandidateOf(m).matched} # {}
    <3>1. PICK m \in Matching(GateKey(shot)) \ Expired(k) :
                 Update([CandidateOf(m) EXCEPT !.matched = TRUE], k)
      BY <1>3, <2>2
    <3>2. encoder' = [encoder EXCEPT ![s] = [at |-> "encode", shot |-> shot]]
      BY <1>3, <2>2
    <3> DEFINE d == CandidateOf(m)
               c == [d EXCEPT !.matched = TRUE]
    <3>3. d \in Cands /\ d.msg = m /\ d \in Candidates /\ m \in Live
      BY <1>4, <3>1, Matched, FoundCandidate
    <3>4. OwnPicture(d)
      BY <1>4, <3>3 DEF Rendezvous
    <3> HIDE DEF d
    <3>5. /\ c \in Candidates /\ c.msg = m /\ c.jpeg = d.jpeg /\ c.acked = d.acked
      BY <3>3 DEF Candidates
    <3>6. Update(c, k)
      BY <3>1 DEF d
    <3> HIDE DEF c
    <3>7. c.msg \in Live \ Expired(k) /\ OwnPicture(c)
      BY <3>1, <3>3, <3>4, <3>5 DEF OwnPicture
    <3>8. Indexed' /\ \A x \in Cands' : x = c \/ x \in Cands
      BY <1>4, <3>5, <3>6, <3>7, UpdateCands
    <3>9. Live' = Live \ Expired(k)
      BY <1>4, <3>5, <3>6, <3>7, UpdateEffect
    <3>10. Meets'
      BY <1>1, <1>4, <3>3, <3>5, <3>8 DEF Meets, Complete
    <3> QED BY <3>2, <3>8, <3>9, <3>10
  <2> QED BY <2>1, <2>2
<1>7. Passed' \subseteq Passed
  <2>1. \A x \in Sources : ToSet(branch'[x]) \subseteq ToSet(branch[x])
    BY <1>2, <1>5 DEF IInv, TypeOK
  <2>2. \A x \in Sources : encoder'[x].at = "encode" =>
          \/ encoder[x].at = "encode" /\ encoder'[x].shot = encoder[x].shot
          \/ encoder'[x].shot \in ToSet(branch[s])
    <3>1. \A x \in Sources : encoder'[x] = encoder[x]
                             \/ encoder'[x] = [at |-> "encode", shot |-> shot]
      BY <1>6 DEF IInv, TypeOK
    <3> QED BY <1>5, <3>1
  <2>3. ASSUME NEW p \in Passed' PROVE p \in Passed
    <3>1. \/ p \in captured
          \/ \E x \in Sources : p \in ToSet(branch'[x])
          \/ \E x \in Sources : encoder'[x].at = "encode" /\ p = encoder'[x].shot
      BY <1>1, <2>3 DEF Passed
    <3>2. p \in Shot
      BY <2>3 DEF Passed
    <3> QED BY <2>1, <2>2, <3>1, <3>2 DEF Passed
  <2> QED BY <2>3
<1>8. Probing' /\ Ahead' /\ Past'
  BY <1>1, <1>4, <1>7, ProbeWaits
<1>9. InFlight' = InFlight /\ Apart' /\ Once(queue') /\ Unique(acks')
  BY <1>1, FlightKept
<1>10. EventsOf(Offers) \subseteq EventsOf(Offers')
  <2>1. \A x \in Sources : encoder[x].at = "send" => encoder'[x] = encoder[x]
    BY <1>2, <1>6 DEF Idle, IInv, TypeOK
  <2> QED BY <1>1, <2>1, OffersGrow
<1>11. Accounted'
  BY <1>1, <1>4, <1>6, <1>9, <1>10 DEF Accounted, Known
<1> QED BY <1>6, <1>8, <1>9, <1>11 DEF OrderInv

LEMMA ShotIsThere ==
  ASSUME NEW p \in Shot
  PROVE  p # NoShot
<1>1. PICK s \in Sources : p \in {s} \X (1..Frames[s])
  BY DEF Shot
<1>2. PICK f \in 1..Frames[s] : p = <<s, f>>
  BY <1>1
<1> QED BY <1>2 DEF NoShot

LEMMA NewSampleOrder ==
  ASSUME MaxObjects = 1, IInv, OrderInv, NEW s \in Sources, NewSample(s)
  PROVE  OrderInv'
<1> DEFINE shot == encoder[s].shot
<1>1. /\ encoder[s] \in Encode /\ encoder[s].at = "encode" /\ shot \in Shot
      /\ SampleKey(s) = shot
  <2>1. encoder[s].at = "encode" /\ encoder[s] \in Encode
    BY EncoderHand DEF NewSample, IInv
  <2>2. shot \in Shot /\ pending[s] = <<shot>>
    BY <2>1 DEF Encode, IInv, InStep
  <2> QED BY <2>1, <2>2 DEF SampleKey
<1>2. PICK k \in 0..Len(byMessage) :
        LET ms == Matching(SampleKey(s)) \ Expired(k) IN
        /\ forfeited' = forfeited \cup Expired(k)
        /\ IF ms = {}
           THEN Expire(k) /\ encoder' = [encoder EXCEPT ![s] = Idle]
           ELSE \E m \in ms :
                  LET c == [CandidateOf(m) EXCEPT !.jpeg = shot]
                  IN /\ Arrive(c, k)
                     /\ encoder' = [encoder EXCEPT ![s] = Result(c)]
  BY DEF NewSample
<1>3. /\ UNCHANGED <<frame, todo, queue, hand, inbox, acks, readerHand, branch, accepted, offered>>
      /\ captured' = captured \cup {shot}
  BY DEF NewSample, queues, socket
<1>4. /\ Meets /\ Indexed /\ Accounted /\ Rendezvous
      /\ Expired(k) \subseteq Live /\ forfeited' = forfeited \cup Expired(k)
  BY <1>2, Fresh DEF OrderInv, IInv
<1> HIDE DEF shot
\* A candidate of the captured frame is found, unless it has just expired.
<1>5. ASSUME NEW c \in Cands, FrameOf(c.msg) = shot, c.msg \notin Expired(k)
      PROVE  Matching(SampleKey(s)) \ Expired(k) = {c.msg}
  <2>1. shot \in DOMAIN byFrame /\ c.msg \in Message /\ c.msg \in Live
    BY <1>4, <1>5, CandsTyped DEF Indexed
  <2>2. byFrame[shot] \in Message /\ FrameOf(byFrame[shot]) = shot
    BY <1>4, <2>1 DEF Rendezvous, Leads
  <2>3. byFrame[shot] = c.msg
    BY <1>5, <2>1, <2>2, FrameNames
  <2> QED BY <1>1, <1>5, <2>1, <2>3 DEF Matching
<1>6. /\ Indexed' /\ Meets'
      /\ \E e : /\ encoder' = [encoder EXCEPT ![s] = e] /\ e.at # "encode"
                /\ Live \ Expired(k) \subseteq Live' \cup (IF e.at = "send" THEN {e.event} ELSE {})
  <2>1. CASE Matching(SampleKey(s)) \ Expired(k) = {}
    <3>1. Expire(k) /\ encoder' = [encoder EXCEPT ![s] = Idle]
      BY <1>2, <2>1
    <3>2. Indexed' /\ \A x \in Cands' : x \in Cands /\ x.msg \notin Expired(k)
      BY <1>4, <3>1, ExpireCands
    <3>3. \A x \in Cands' : FrameOf(x.msg) # shot
      BY <1>5, <2>1, <3>2
    <3>4. Meets'
      BY <1>3, <1>4, <3>2, <3>3 DEF Meets, Complete
    <3>5. Live' = Live \ Expired(k)
      BY <1>4, <3>1, ExpireEffect
    <3>6. Idle.at = "idle"
      BY DEF Idle
    <3> QED BY <3>1, <3>2, <3>4, <3>5, <3>6
  <2>2. CASE Matching(SampleKey(s)) \ Expired(k) # {}
    <3>1. PICK m \in Matching(shot) \ Expired(k) :
            /\ Arrive([CandidateOf(m) EXCEPT !.jpeg = shot], k)
            /\ encoder' = [encoder EXCEPT ![s] = Result([CandidateOf(m) EXCEPT !.jpeg = shot])]
      BY <1>1, <1>2, <2>2
    <3> DEFINE d == CandidateOf(m)
               c == [d EXCEPT !.jpeg = shot]
    <3>2. /\ m \in Live /\ FrameOf(m) = shot
          /\ d \in Cands /\ d.msg = m /\ d \in Candidates
      BY <1>4, <3>1, Matched, FoundCandidate
    <3> HIDE DEF d
    <3>3. /\ c \in Candidates /\ c.msg = m /\ c.jpeg = shot /\ c.acked = d.acked
      BY <1>1, <3>2 DEF Candidates
    <3>4. Arrive(c, k) /\ encoder' = [encoder EXCEPT ![s] = Result(c)]
      BY <3>1 DEF d
    <3> HIDE DEF c
    <3>5. c.msg \in Live \ Expired(k) /\ OwnPicture(c)
      BY <3>1, <3>2, <3>3 DEF OwnPicture
    <3>6. /\ Indexed'
          /\ \A x \in Cands' : \/ x = c /\ ~ Complete(c)
                               \/ x \in Cands /\ x.msg # m /\ x.msg \notin Expired(k)
          /\ Live \ Expired(k) \subseteq Live' \cup {m}
          /\ ~ Complete(c) => Live \ Expired(k) \subseteq Live'
      BY <1>4, <3>3, <3>4, <3>5, ArriveCands
    <3>7. \A x \in Cands' : x # c => FrameOf(x.msg) # shot
      <4> SUFFICES ASSUME NEW x \in Cands', x # c, FrameOf(x.msg) = shot PROVE FALSE
        OBVIOUS
      <4>1. x \in Cands /\ x.msg # m
        BY <3>6
      <4> QED BY <1>4, <3>2, <4>1, CandsTyped, FrameNames
    <3>8. c.jpeg # NoShot
      BY <1>1, <3>3, ShotIsThere
    <3>9. Meets'
      <4> SUFFICES ASSUME NEW x \in Cands'
                   PROVE  /\ x.msg \in accepted' => x.acked
                          /\ FrameOf(x.msg) \in captured' => x.jpeg # NoShot
                          /\ ~ Complete(x)
        BY DEF Meets, Complete
      <4>1. CASE x = c
        BY <1>3, <1>4, <3>2, <3>3, <3>6, <3>8, <4>1 DEF Meets
      <4>2. CASE x # c
        <5>1. x \in Cands /\ FrameOf(x.msg) # shot
          BY <3>6, <3>7, <4>2
        <5> QED BY <1>3, <1>4, <5>1 DEF Meets
      <4> QED BY <4>1, <4>2
    <3>10. Complete(c) => Result(c).at = "send" /\ Result(c).event = m
      BY <3>3, <3>5, ResultOK, OfferFields
    <3>11. ~ Complete(c) => Result(c).at = "idle"
      BY <3>3, <3>5, ResultOK DEF Idle
    <3> QED BY <3>4, <3>6, <3>9, <3>10, <3>11
  <2> QED BY <2>1, <2>2
<1>7. PICK e : /\ encoder' = [encoder EXCEPT ![s] = e] /\ e.at # "encode"
               /\ Live \ Expired(k) \subseteq Live' \cup (IF e.at = "send" THEN {e.event} ELSE {})
  BY <1>6
<1>8. encoder'[s] = e /\ \A x \in Sources : x # s => encoder'[x] = encoder[x]
  BY <1>7 DEF IInv, TypeOK
<1>9. Passed' \subseteq Passed
  <2> SUFFICES ASSUME NEW p \in Passed' PROVE p \in Passed
    OBVIOUS
  <2>1. p \in Shot /\ \/ p \in captured \/ p = shot
                      \/ \E x \in Sources : p \in ToSet(branch[x])
                      \/ \E x \in Sources : encoder'[x].at = "encode" /\ p = encoder'[x].shot
    BY <1>3 DEF Passed
  <2>2. \A x \in Sources : encoder'[x].at = "encode" => encoder'[x] = encoder[x]
    BY <1>7, <1>8
  <2> QED BY <1>1, <2>1, <2>2 DEF Passed, shot
<1>10. Probing' /\ Ahead' /\ Past'
  BY <1>3, <1>4, <1>9, ProbeWaits
<1>11. InFlight' = InFlight /\ Apart' /\ Once(queue') /\ Unique(acks')
  BY <1>3, FlightKept
<1>12. EventsOf(Offers) \subseteq EventsOf(Offers')
  <2>1. \A x \in Sources : encoder[x].at = "send" => encoder'[x] = encoder[x]
    BY <1>1, <1>8
  <2> QED BY <1>3, <2>1, OffersGrow
<1>13. e.at = "send" => e.event \in EventsOf(Offers')
  BY <1>8 DEF Offers, EventsOf
<1>14. Accounted'
  BY <1>3, <1>4, <1>7, <1>11, <1>12, <1>13 DEF Accounted, Known
<1> QED BY <1>6, <1>10, <1>11, <1>14 DEF OrderInv

LEMMA SampleFailsOrder ==
  ASSUME IInv, OrderInv, NEW s \in Sources, SampleFails(s)
  PROVE  OrderInv'
<1>1. /\ UNCHANGED <<meeting, frame, todo, queue, hand, inbox, acks, readerHand, branch,
                     accepted, offered, captured, forfeited, byMessage>>
      /\ encoder[s].at = "encode" /\ encoder' = [encoder EXCEPT ![s] = Idle]
  BY DEF SampleFails, queues, socket, history, meeting
<1>2. encoder'[s].at = "idle" /\ \A x \in Sources : x # s => encoder'[x] = encoder[x]
  BY <1>1 DEF IInv, TypeOK, Idle
<1>3. Passed' \subseteq Passed
  BY <1>1, <1>2 DEF Passed
<1>4. Probing' /\ Ahead' /\ Past'
  BY <1>1, <1>3, ProbeWaits
<1>5. InFlight' = InFlight /\ Apart' /\ Once(queue') /\ Unique(acks')
  BY <1>1, FlightKept
<1>6. EventsOf(Offers) \subseteq EventsOf(Offers')
  BY <1>1, <1>2, OffersGrow
<1>7. Accounted'
  BY <1>1, <1>5, <1>6 DEF OrderInv, Accounted, Known, Live
<1>8. Meets' /\ Indexed'
  BY <1>1, MeetsKept DEF OrderInv
<1> QED BY <1>4, <1>5, <1>7, <1>8 DEF OrderInv

LEMMA SendFromBranchOrder ==
  ASSUME IInv, OrderInv, NEW s \in Sources, SendFromBranch(s)
  PROVE  OrderInv'
<1>1. /\ UNCHANGED <<meeting, frame, todo, queue, hand, inbox, acks, readerHand, branch,
                     accepted, captured, forfeited, byMessage>>
      /\ encoder[s].at = "send" /\ encoder' = [encoder EXCEPT ![s] = Idle]
      /\ offered' = offered \cup {encoder[s]}
  BY DEF SendFromBranch, queues, socket, history, meeting
<1>2. encoder'[s].at = "idle" /\ \A x \in Sources : x # s => encoder'[x] = encoder[x]
  BY <1>1 DEF IInv, TypeOK, Idle
<1>3. Passed' \subseteq Passed
  BY <1>1, <1>2 DEF Passed
<1>4. Probing' /\ Ahead' /\ Past'
  BY <1>1, <1>3, ProbeWaits
<1>5. InFlight' = InFlight /\ Apart' /\ Once(queue') /\ Unique(acks')
  BY <1>1, FlightKept
<1>6. EventsOf(Offers) \subseteq EventsOf(Offers')
  BY <1>1, <1>2, OffersGrow
<1>7. Accounted'
  BY <1>1, <1>5, <1>6 DEF OrderInv, Accounted, Known, Live
<1>8. Meets' /\ Indexed'
  BY <1>1, MeetsKept DEF OrderInv
<1> QED BY <1>4, <1>5, <1>7, <1>8 DEF OrderInv

LEMMA SendFromReaderOrder ==
  ASSUME IInv, OrderInv, SendFromReader
  PROVE  OrderInv'
<1>1. /\ UNCHANGED <<meeting, frame, todo, queue, hand, inbox, acks, branch, encoder,
                     accepted, captured, forfeited, byMessage>>
      /\ readerHand' = Idle /\ reader = "send"
      /\ offered' = offered \cup {readerHand}
  BY DEF SendFromReader, camera, socket, meeting
<1>2. InReader = {} /\ InReader' = {}
  <2>1. readerHand.at = "send"
    BY <1>1, ReaderHand DEF IInv
  <2> QED BY <1>1, <2>1 DEF InReader, Idle
<1>3. Probing' /\ Ahead' /\ Past'
  BY <1>1, ProbingKept DEF OrderInv
<1>4. /\ Starting' = Starting /\ Queued' = Queued /\ InHand' = InHand /\ Answered' = Answered
      /\ Once(queue') /\ Unique(acks') /\ inbox' = inbox /\ accepted' = accepted
  BY <1>1, SameQueues, StartingKept
<1>5. InFlight' = InFlight /\ Apart'
  BY <1>2, <1>4 DEF OrderInv, InFlight, Apart
<1>6. EventsOf(Offers) \subseteq EventsOf(Offers')
  BY <1>1, OffersGrow
<1>7. Accounted'
  BY <1>1, <1>5, <1>6 DEF OrderInv, Accounted, Known, Live
<1>8. Meets' /\ Indexed'
  BY <1>1, MeetsKept DEF OrderInv
<1> QED BY <1>3, <1>4, <1>5, <1>7, <1>8 DEF OrderInv

LEMMA SubmitAckOrder ==
  ASSUME MaxObjects = 1, IInv, OrderInv, SubmitAck
  PROVE  OrderInv'
<1> DEFINE m == readerHand.msg
<1>1. readerHand \in Ack /\ m \in Message /\ readerHand.at = "ack"
  BY ReaderHand DEF IInv, SubmitAck, Ack
<1>2. PICK k \in 0..Len(byMessage) :
        /\ forfeited' = forfeited \cup Expired(k)
        /\ accepted' = IF readerHand.outcome = "accepted" THEN accepted \cup {m}
                                                          ELSE accepted
        /\ CASE m \notin Live \ Expired(k) -> Expire(k) /\ readerHand' = Idle
             [] m \in Live \ Expired(k) /\ readerHand.outcome # "accepted" ->
                  Drop(m, k) /\ readerHand' = Idle
             [] OTHER ->
                  LET c == [CandidateOf(m) EXCEPT !.acked = TRUE]
                  IN Arrive(c, k) /\ readerHand' = Result(c)
  BY DEF SubmitAck
<1>3. UNCHANGED <<frame, todo, branch, encoder, queue, hand, inbox, acks, captured, offered>>
  BY DEF SubmitAck, camera, queues, socket
<1>4. /\ Meets /\ Indexed /\ Accounted /\ Rendezvous /\ Apart
      /\ Expired(k) \subseteq Live /\ forfeited' = forfeited \cup Expired(k)
  BY <1>2, Fresh DEF OrderInv, IInv
<1>5. InReader = {m}
  BY <1>1 DEF InReader
<1> HIDE DEF m
<1>6. m \notin accepted /\ m \in Known \cup forfeited
  BY <1>4, <1>5 DEF Apart, Accounted, InFlight
<1>7. /\ Indexed' /\ Meets'
      /\ readerHand'.at # "ack"
      /\ \/ Live \ Expired(k) \subseteq Live'
         \/ /\ readerHand'.at = "send" /\ readerHand'.event = m
            /\ Live \ Expired(k) \subseteq Live' \cup {m}
         \/ readerHand.outcome # "accepted" /\ Live \ Expired(k) \subseteq Live' \cup {m}
  <2>1. CASE m \notin Live \ Expired(k)
    <3>1. Expire(k) /\ readerHand' = Idle
      BY <1>2, <2>1
    <3>2. Indexed' /\ \A x \in Cands' : x \in Cands /\ x.msg \notin Expired(k)
      BY <1>4, <3>1, ExpireCands
    <3>3. \A x \in Cands' : x.msg # m
      BY <1>4, <2>1, <3>2, CandsTyped
    <3>4. Meets'
      BY <1>2, <1>3, <1>4, <3>2, <3>3 DEF Meets, Complete
    <3>5. Live' = Live \ Expired(k)
      BY <1>4, <3>1, ExpireEffect
    <3> QED BY <3>1, <3>2, <3>4, <3>5 DEF Idle
  <2>2. CASE m \in Live \ Expired(k) /\ readerHand.outcome # "accepted"
    <3>1. Drop(m, k) /\ readerHand' = Idle /\ accepted' = accepted
      BY <1>2, <2>2
    <3>2. Indexed' /\ \A x \in Cands' : x \in Cands
      BY <1>1, <1>4, <3>1, DropCands DEF m
    <3>3. Live' = Live \ (Expired(k) \cup {m})
      BY <1>4, <3>1, DropEffect
    <3>4. Meets'
      BY <1>3, <1>4, <3>1, <3>2, FewerMeet
    <3> QED BY <2>2, <3>1, <3>2, <3>3, <3>4 DEF Idle
  <2>3. CASE m \in Live \ Expired(k) /\ readerHand.outcome = "accepted"
    <3> DEFINE d == CandidateOf(m)
               c == [d EXCEPT !.acked = TRUE]
    <3>1. Arrive(c, k) /\ readerHand' = Result(c) /\ accepted' = accepted \cup {m}
      BY <1>2, <2>3
    <3>2. d \in Cands /\ d.msg = m /\ d \in Candidates
      BY <1>4, <2>3, FoundCandidate
    <3>3. OwnPicture(d)
      BY <1>4, <3>2 DEF Rendezvous
    <3> HIDE DEF d
    <3>4. /\ c \in Candidates /\ c.msg = m /\ c.jpeg = d.jpeg /\ c.acked
      BY <3>2 DEF Candidates
    <3> HIDE DEF c
    <3>5. c.msg \in Live \ Expired(k) /\ OwnPicture(c)
      BY <2>3, <3>2, <3>3, <3>4 DEF OwnPicture
    <3>6. /\ Indexed'
          /\ \A x \in Cands' : \/ x = c /\ ~ Complete(c)
                               \/ x \in Cands /\ x.msg # m /\ x.msg \notin Expired(k)
          /\ Live \ Expired(k) \subseteq Live' \cup {m}
          /\ ~ Complete(c) => Live \ Expired(k) \subseteq Live'
      BY <1>4, <3>1, <3>4, <3>5, ArriveCands
    <3>7. Meets'
      <4> SUFFICES ASSUME NEW x \in Cands'
                   PROVE  /\ x.msg \in accepted' => x.acked
                          /\ FrameOf(x.msg) \in captured' => x.jpeg # NoShot
                          /\ ~ Complete(x)
        BY DEF Meets, Complete
      <4>1. CASE x = c
        <5>1. ~ Complete(x)
          BY <3>4, <3>6, <4>1
        <5> QED BY <1>3, <1>4, <3>2, <3>4, <4>1, <5>1 DEF Meets
      <4>2. CASE x # c
        <5>1. x \in Cands /\ x.msg # m
          BY <3>6, <4>2
        <5> QED BY <1>3, <1>4, <3>1, <5>1 DEF Meets
      <4> QED BY <4>1, <4>2
    <3>8. Complete(c) => Result(c).at = "send" /\ Result(c).event = m
      BY <3>4, <3>5, ResultOK, OfferFields
    <3>9. ~ Complete(c) => Result(c).at = "idle"
      BY <3>4, <3>5, ResultOK DEF Idle
    <3> QED BY <3>1, <3>6, <3>7, <3>8, <3>9
  <2> QED BY <2>1, <2>2, <2>3
<1>8. Probing' /\ Ahead' /\ Past'
  <2>1. Passed' = Passed
    BY <1>3 DEF Passed
  <2> QED BY <1>3, <1>4, <2>1, ProbeWaits
<1>9. /\ Starting' = Starting /\ Queued' = Queued /\ InHand' = InHand /\ Answered' = Answered
      /\ Once(queue') /\ Unique(acks') /\ inbox' = inbox
  BY <1>3, SameQueues, StartingKept
<1>10. InReader' = {} /\ accepted' \subseteq accepted \cup {m}
  BY <1>2, <1>7 DEF InReader
<1>11. Apart'
  BY <1>4, <1>5, <1>9, <1>10 DEF Apart
<1>12. EventsOf(Offers) \subseteq EventsOf(Offers')
  BY <1>1, <1>3, OffersGrow
<1>13. readerHand'.at = "send" => readerHand'.event \in EventsOf(Offers')
  BY DEF Offers, EventsOf
\* What was declined is the only candidate that goes without a trace, and it is
\* not to be heard of again.
<1>14. Accounted'
  <2>1. InFlight' \cup accepted' \subseteq InFlight \cup accepted
    BY <1>5, <1>9, <1>10 DEF InFlight
  <2>2. Live \subseteq Live' \cup forfeited' \cup EventsOf(Offers')
              \cup (IF readerHand.outcome # "accepted" THEN {m} ELSE {})
    BY <1>4, <1>7, <1>13
  <2>3. readerHand.outcome # "accepted" => m \notin InFlight' \cup accepted'
    <3>1. m \notin Starting \cup Queued \cup InHand \cup inbox \cup Answered
      BY <1>4, <1>5 DEF Apart
    <3> QED BY <1>2, <1>6, <1>9, <1>10, <3>1 DEF InFlight
  <2> QED BY <1>4, <1>12, <2>1, <2>2, <2>3 DEF Accounted, Known
<1> QED BY <1>7, <1>8, <1>9, <1>11, <1>14 DEF OrderInv

LEMMA StopPipelineOrder ==
  ASSUME IInv, OrderInv, StopPipeline
  PROVE  OrderInv'
<1>1. /\ UNCHANGED <<frame, todo, encoder, queue, hand, inbox, acks, readerHand, accepted,
                     captured, offered>>
      /\ branch' = [s \in Sources |-> <<>>] /\ byMessage' = <<>>
      /\ forfeited' = forfeited \cup Live
  BY DEF StopPipeline, queues, socket
<1>2. Cands' = {} /\ Live' = {}
  <2>1. DOMAIN byMessage' = {}
    BY <1>1
  <2>2. ToSet(byMessage') = {}
    BY <2>1 DEF ToSet
  <2> QED BY <2>2 DEF Cands, Live
<1>3. Meets' /\ Indexed'
  BY <1>2 DEF Meets, Indexed
<1>4. Passed' \subseteq Passed
  <2>1. \A s \in Sources : ToSet(branch'[s]) = {}
    BY <1>1 DEF ToSet
  <2> QED BY <1>1, <2>1 DEF Passed
<1>5. Probing' /\ Ahead' /\ Past'
  BY <1>1, <1>4, ProbeWaits
<1>6. InFlight' = InFlight /\ Apart' /\ Once(queue') /\ Unique(acks')
  BY <1>1, FlightKept
<1>7. Offers' = Offers
  BY <1>1 DEF Offers
<1>8. Accounted'
  BY <1>1, <1>6, <1>7 DEF OrderInv, Accounted, Known, EventsOf
<1> QED BY <1>3, <1>5, <1>6, <1>8 DEF OrderInv

LEMMA InitOrder == Init => OrderInv
<1> SUFFICES ASSUME Init PROVE OrderInv
  OBVIOUS
<1>1. /\ ToSet(byMessage) = {} /\ ToSet(queue) = {} /\ ToSet(acks) = {}
      /\ DOMAIN queue = {} /\ DOMAIN acks = {} /\ DOMAIN todo = {}
  BY DEF Init, ToSet
<1>2. Meets /\ Indexed /\ Once(queue) /\ Unique(acks)
  BY <1>1 DEF Meets, Indexed, Cands, Once, Unique
<1>3. /\ Starting = {} /\ Queued = {} /\ InHand = {} /\ Answered = {} /\ InReader = {}
      /\ inbox = {} /\ accepted = {}
  BY <1>1, NotStarting DEF Init, Queued, InHand, Answered, Messages, InReader, Idle
<1>4. Apart /\ Accounted
  BY <1>3 DEF Apart, Accounted, InFlight
<1>5. Passed = {}
  <2>1. captured = {} /\ \A s \in Sources : encoder[s].at # "encode" /\ ToSet(branch[s]) = {}
    BY DEF Init, Idle, ToSet
  <2> QED BY <2>1 DEF Passed
<1>6. Probing /\ Ahead /\ Past
  BY <1>1, <1>5 DEF Init, Probing, Ahead, Past
<1> QED BY <1>2, <1>4, <1>6 DEF OrderInv

LEMMA NextOrder == MaxObjects = 1 /\ IInv /\ OrderInv /\ [Next]_vars => OrderInv'
<1> SUFFICES ASSUME MaxObjects = 1, IInv, OrderInv, [Next]_vars PROVE OrderInv'
  OBVIOUS
<1>1. CASE \E s \in Sources, n \in 1..MaxObjects : HandleBuffer(s, n)
  <2>1. PICK s \in Sources, n \in 1..MaxObjects : HandleBuffer(s, n)
    BY <1>1
  <2>2. n = 1
    OBVIOUS
  <2> QED BY <2>1, <2>2, HandleBufferOrder
<1>2. CASE Probe
  BY <1>2, OnCandidateOrder, EnqueueOrder, PassBufferOrder DEF Probe
<1>3. CASE \E s \in Sources : BranchOf(s)
  BY <1>3, GateBufferOrder, NewSampleOrder, SampleFailsOrder, SendFromBranchOrder DEF BranchOf
<1>4. CASE Sender
  BY <1>4, SenderOrder
<1>5. CASE \E m \in Message, o \in {"accepted", "declined"} : AgentAnswers(m, o)
  BY <1>5, ReaderOrder
<1>6. CASE LoseStep
  BY <1>6, ReaderOrder
<1>7. CASE Reader
  BY <1>7, ReaderOrder, SubmitAckOrder, SendFromReaderOrder DEF Reader
<1>8. CASE StopPipeline \/ StopTransport \/ Stopped
  BY <1>8, ReaderOrder, StopPipelineOrder
<1>9. CASE UNCHANGED vars
  BY <1>9, ReaderOrder
<1> QED BY <1>1, <1>2, <1>3, <1>4, <1>5, <1>6, <1>7, <1>8, <1>9 DEF Next

-----------------------------------------------------------------------------
(* The theorem *)

\* With both halves there, a candidate would be complete; so the evidence is
\* offered, or the candidate was forfeited.
LEMMA OrderSuffices == IInv /\ OrderInv => NeitherOrderLosesEvidence
<1> SUFFICES ASSUME IInv, OrderInv, NEW m \in accepted \ forfeited, FrameOf(m) \in captured
             PROVE  m \in EventsOf(Offers)
  BY DEF NeitherOrderLosesEvidence, EventsOf
<1>1. m \in Live \/ m \in EventsOf(Offers)
  BY DEF OrderInv, Accounted, Known
<1>2. ASSUME m \in Live PROVE FALSE
  <2>1. PICK c \in Cands : c.msg = m
    BY <1>2, LiveIsMessages DEF Messages
  <2> QED BY <2>1 DEF OrderInv, Meets, Complete
<1> QED BY <1>1, <1>2

\* Where a frame holds one object, no snapshot of an accepted event is lost for
\* the order in which picture and acknowledgement came: it was offered, or its
\* candidate had expired or been crowded out.
THEOREM NoOrderLosesEvidence ==
  ASSUME MaxObjects = 1
  PROVE  Spec => []NeitherOrderLosesEvidence
<1>1. IInv /\ OrderInv /\ [Next]_vars => IInv' /\ OrderInv'
  BY NextIInv, NextOrder
<1>2. Init => IInv /\ OrderInv
  BY InitIInv, InitOrder
<1> QED BY <1>1, <1>2, OrderSuffices, PTL DEF Spec
=============================================================================
