------------------------ MODULE BridgeEvidenceProofs ------------------------
(***************************************************************************)
(* Proofs about BridgeEvidence for any cameras, frames, objects per frame  *)
(* and capacities, and any interleaving of the Bridge's threads with an    *)
(* Agent that answers in any order.                                        *)
(***************************************************************************)
EXTENDS BridgeEvidence, SequenceTheorems, TLAPS

-----------------------------------------------------------------------------
(* The inductive invariant *)

\* The rendezvous is a dictionary: one candidate per message.
Unique(q) == \A i, j \in DOMAIN q : q[i].msg = q[j].msg => i = j

Messages(cs) == {c.msg : c \in cs}

\* The index leads to live candidates of the frame it was asked for.
Leads(ix, live) ==
  /\ DOMAIN ix \subseteq Shot /\ ix \in [DOMAIN ix -> Message]
  /\ \A key \in DOMAIN ix : ix[key] \in live /\ FrameOf(ix[key]) = key

Cands == ToSet(byMessage)

\* A candidate holds no picture but the one of its own frame.
OwnPicture(c) == c.jpeg \in {NoShot, FrameOf(c.msg)}

Rendezvous ==
  /\ byMessage \in Seq(Candidates)
  /\ Unique(byMessage)
  /\ Len(byMessage) <= MaxRetained
  /\ Leads(byFrame, Live)
  /\ \A c \in Cands : OwnPicture(c)

\* The numbers kept for pictures are those of the pictures being encoded.
InStep ==
  \A s \in Sources :
    pending[s] = IF encoder[s].at = "encode" THEN <<encoder[s].shot>> ELSE <<>>

\* A camera's branch only ever works for that camera.
OwnBranch ==
  \A s \in Sources :
    /\ \A i \in DOMAIN branch[s] : branch[s][i][1] = s
    /\ encoder[s].at = "encode" => encoder[s].shot[1] = s
    /\ encoder[s].at = "send" => encoder[s].event[1] = s

EventsOf(offers) == {o.event : o \in offers}

\* The messages whose evidence is still to come, on its way or was offered.
Known == Live \cup EventsOf(Offers)

\* All that is known of is of a frame that reached the probe.
Seen ==
  /\ \A m \in Known : m[2] <= frame[m[1]]
  /\ \A i \in DOMAIN todo : todo[i].msg[2] <= frame[todo[i].msg[1]]

\* A message is registered once: what the probe still has to register is new.
StillNew ==
  /\ \A i \in DOMAIN todo : todo[i].do = "register" => todo[i].msg \notin Known
  /\ \A i, j \in DOMAIN todo :
       /\ todo[i].do = "register" /\ todo[j].do = "register"
       /\ todo[i].msg = todo[j].msg
       => i = j

\* An offered event is never a candidate again.
OfferedIsGone == EventsOf(offered) \cap Live = {}

IInv ==
  /\ TypeOK
  /\ MemoryIsBounded
  /\ Rendezvous
  /\ InStep
  /\ OwnBranch
  /\ Seen
  /\ StillNew
  /\ SnapshotShowsItsDetection
  /\ OneSnapshotPerEvent
  /\ OfferedIsGone

-----------------------------------------------------------------------------
(* Sequences of candidates *)

LEMMA Elements ==
  ASSUME NEW S, NEW q \in Seq(S)
  PROVE  /\ Len(q) \in Nat /\ DOMAIN q = 1..Len(q)
         /\ \A i \in DOMAIN q : q[i] \in S
         /\ \A c : c \in ToSet(q) <=> \E i \in DOMAIN q : c = q[i]
BY DEF ToSet

\* The piece of a sequence from m to n.
LEMMA Piece ==
  ASSUME NEW S, NEW q \in Seq(S), NEW m \in Nat, NEW n \in Nat,
         1 <= m, m <= n + 1, n <= Len(q)
  PROVE  LET t == SubSeq(q, m, n)
         IN  /\ t \in Seq(S) /\ Len(t) = n + 1 - m /\ DOMAIN t = 1..(n + 1 - m)
             /\ \A i \in 1..(n + 1 - m) : t[i] = q[m - 1 + i]
<1> DEFINE t == SubSeq(q, m, n)
<1>1. Len(q) \in Nat /\ \A i \in m..n : q[i] \in S
  BY Elements
<1> HIDE DEF t
<1>2. /\ t \in Seq(S) /\ Len(t) = IF m <= n THEN n - m + 1 ELSE 0
      /\ \A i \in 1 .. n - m + 1 : t[i] = q[m + i - 1]
  BY <1>1, SubSeqProperties DEF t
<1>3. Len(t) = n + 1 - m
  BY <1>2
<1>4. ASSUME NEW i \in 1..(n + 1 - m) PROVE t[i] = q[m - 1 + i]
  <2>1. i \in 1 .. n - m + 1 /\ m + i - 1 = m - 1 + i
    OBVIOUS
  <2>2. t[i] = q[m + i - 1]
    BY <1>2, <2>1
  <2> QED BY <2>1, <2>2
<1>5. DOMAIN t = 1..(n + 1 - m)
  BY <1>2, <1>3, Elements
<1> QED BY <1>2, <1>3, <1>4, <1>5 DEF t

\* What is left of the sequence without its first k elements.
LEMMA Cut ==
  ASSUME NEW q \in Seq(Candidates), Unique(q), NEW k \in 0..Len(q)
  PROVE  LET t == SubSeq(q, k + 1, Len(q))
         IN  /\ t \in Seq(Candidates) /\ Len(t) = Len(q) - k /\ Unique(t)
             /\ \A c : c \in ToSet(t) <=> c \in ToSet(q) /\ c.msg \notin {q[i].msg : i \in 1..k}
<1> DEFINE t == SubSeq(q, k + 1, Len(q))
<1>1. /\ Len(q) \in Nat /\ k \in Nat /\ k <= Len(q) /\ DOMAIN q = 1..Len(q)
      /\ \A i \in 1..Len(q) : q[i] \in Candidates
  BY Elements
<1>2. /\ t \in Seq(Candidates) /\ Len(t) = Len(q) - k /\ DOMAIN t = 1..(Len(q) - k)
      /\ \A i \in 1..(Len(q) - k) : t[i] = q[k + i]
  <2> HIDE DEF t
  <2>1. \A l, n \in Nat : n <= l =>
           /\ n + 1 \in Nat /\ 1 <= n + 1 /\ n + 1 <= l + 1 /\ l <= l
           /\ l + 1 - (n + 1) = l - n /\ n + 1 - 1 = n
    OBVIOUS
  <2>2. /\ k + 1 \in Nat /\ 1 <= k + 1 /\ k + 1 <= Len(q) + 1 /\ Len(q) <= Len(q)
        /\ Len(q) + 1 - (k + 1) = Len(q) - k /\ k + 1 - 1 = k
    BY <1>1, <2>1
  <2>3. /\ t \in Seq(Candidates) /\ Len(t) = Len(q) + 1 - (k + 1)
        /\ \A i \in 1..(Len(q) + 1 - (k + 1)) : t[i] = q[k + 1 - 1 + i]
    BY <1>1, <2>2, Piece DEF t
  <2>4. DOMAIN t = 1..Len(t)
    BY <2>3, Elements
  <2> QED BY <2>2, <2>3, <2>4
<1> HIDE DEF t
<1>3. \A i \in DOMAIN t : k + i \in DOMAIN q /\ t[i] = q[k + i] /\ i \in Nat
  <2>1. \A l, n \in Nat : \A j \in 1..(l - n) : n + j \in 1..l /\ j \in Nat
    OBVIOUS
  <2>2. \A j \in 1..(Len(q) - k) : k + j \in 1..Len(q) /\ j \in Nat
    BY <1>1, <2>1
  <2> QED BY <1>1, <1>2, <2>2
<1>4. Unique(t)
  <2> SUFFICES ASSUME NEW i \in DOMAIN t, NEW j \in DOMAIN t, t[i].msg = t[j].msg PROVE i = j
    BY DEF Unique
  <2>1. k + i = k + j
    BY <1>3 DEF Unique
  <2> QED BY <1>1, <1>3, <2>1
<1>5. ASSUME NEW c PROVE c \in ToSet(t) <=> c \in ToSet(q) /\ c.msg \notin {q[i].msg : i \in 1..k}
  <2>1. ASSUME NEW i \in 1..(Len(q) - k), c = t[i]
        PROVE  c \in ToSet(q) /\ c.msg \notin {q[j].msg : j \in 1..k}
    <3>1. c = q[k + i] /\ k + i \in 1..Len(q)
      BY <1>1, <1>2, <2>1
    <3>2. \A j \in 1..k : j \in 1..Len(q) /\ j # k + i
      BY <1>1, <2>1
    <3>3. \A j \in 1..k : q[j].msg # q[k + i].msg
      BY <1>1, <3>1, <3>2 DEF Unique
    <3> QED BY <1>1, <3>1, <3>3, Elements
  <2>2. ASSUME NEW i \in 1..Len(q), c = q[i], c.msg \notin {q[j].msg : j \in 1..k}
        PROVE  c \in ToSet(t)
    <3>1. i \notin 1..k
      BY <2>2
    <3>2. i - k \in 1..(Len(q) - k) /\ k + (i - k) = i
      BY <1>1, <3>1
    <3>3. i - k \in DOMAIN t /\ t[i - k] = q[i]
      BY <1>2, <3>2
    <3> QED BY <1>2, <2>2, <3>3, Elements
  <2>3. c \in ToSet(t) => \E i \in 1..(Len(q) - k) : c = t[i]
    BY <1>2, Elements
  <2>4. c \in ToSet(q) => \E i \in 1..Len(q) : c = q[i]
    BY <1>1, Elements
  <2> QED BY <2>1, <2>2, <2>3, <2>4
<1> QED BY <1>2, <1>4, <1>5 DEF t

\* ... without its i-th element.
LEMMA Removed ==
  ASSUME NEW q \in Seq(Candidates), Unique(q), NEW i \in DOMAIN q
  PROVE  LET t == RemoveAt(q, i)
         IN  /\ t \in Seq(Candidates) /\ Len(t) = Len(q) - 1 /\ Unique(t)
             /\ \A c : c \in ToSet(t) <=> c \in ToSet(q) /\ c.msg # q[i].msg
<1> DEFINE a == SubSeq(q, 1, i - 1)
           b == SubSeq(q, i + 1, Len(q))
           t == a \o b
<1>1. /\ Len(q) \in Nat /\ DOMAIN q = 1..Len(q) /\ i \in 1..Len(q)
      /\ \A j \in 1..Len(q) : q[j] \in Candidates
  BY Elements
<1>2. a \in Seq(Candidates) /\ Len(a) = i - 1 /\ \A j \in 1..(i - 1) : a[j] = q[j]
  <2> HIDE DEF a
  <2>1. i - 1 \in Nat /\ i - 1 + 1 - 1 = i - 1
    BY <1>1
  <2>2. /\ a \in Seq(Candidates) /\ Len(a) = i - 1 + 1 - 1
        /\ \A j \in 1..(i - 1 + 1 - 1) : a[j] = q[1 - 1 + j]
    BY <1>1, <2>1, Piece DEF a
  <2>3. \A j \in 1..(i - 1) : 1 - 1 + j = j
    OBVIOUS
  <2> QED BY <2>1, <2>2, <2>3
<1>3. b \in Seq(Candidates) /\ Len(b) = Len(q) - i /\ \A j \in 1..(Len(q) - i) : b[j] = q[i + j]
  <2> HIDE DEF b
  <2>1. /\ i + 1 \in Nat /\ 1 <= i + 1 /\ i + 1 <= Len(q) + 1 /\ Len(q) <= Len(q)
        /\ Len(q) + 1 - (i + 1) = Len(q) - i /\ i + 1 - 1 = i
    BY <1>1
  <2>2. /\ b \in Seq(Candidates) /\ Len(b) = Len(q) + 1 - (i + 1)
        /\ \A j \in 1..(Len(q) + 1 - (i + 1)) : b[j] = q[i + 1 - 1 + j]
    BY <1>1, <2>1, Piece DEF b
  <2> QED BY <2>1, <2>2
<1> HIDE DEF a, b
<1>4. /\ t \in Seq(Candidates) /\ Len(t) = Len(q) - 1
      /\ \A j \in 1..(Len(q) - 1) : t[j] = IF j < i THEN q[j] ELSE q[j + 1]
  <2>1. /\ t \in Seq(Candidates) /\ Len(t) = Len(a) + Len(b)
        /\ \A j \in 1 .. Len(a) + Len(b) : t[j] = IF j <= Len(a) THEN a[j] ELSE b[j - Len(a)]
    BY <1>2, <1>3, ConcatProperties
  <2>2. Len(a) + Len(b) = Len(q) - 1
    BY <1>1, <1>2, <1>3
  <2>3. ASSUME NEW j \in 1..(Len(q) - 1) PROVE t[j] = IF j < i THEN q[j] ELSE q[j + 1]
    <3>1. t[j] = IF j <= i - 1 THEN a[j] ELSE b[j - (i - 1)]
      BY <1>2, <2>1, <2>2
    <3>2. CASE j < i
      <4>1. j <= i - 1 /\ j \in 1..(i - 1)
        BY <1>1, <3>2
      <4> QED BY <1>2, <3>1, <3>2, <4>1
    <3>3. CASE ~ (j < i)
      <4>1. /\ ~ (j <= i - 1) /\ j - (i - 1) \in 1..(Len(q) - i)
            /\ i + (j - (i - 1)) = j + 1
        BY <1>1, <3>3
      <4>2. b[j - (i - 1)] = q[i + (j - (i - 1))]
        BY <1>3, <4>1
      <4> QED BY <3>1, <3>3, <4>1, <4>2
    <3> QED BY <3>2, <3>3
  <2> QED BY <2>1, <2>2, <2>3
<1>5. t = RemoveAt(q, i)
  BY DEF RemoveAt, a, b
<1> HIDE DEF t
<1>6. DOMAIN t = 1..(Len(q) - 1)
  BY <1>4, Elements
<1> DEFINE From(j) == IF j < i THEN j ELSE j + 1
<1>7. \A j \in DOMAIN t : t[j] = q[From(j)] /\ From(j) \in DOMAIN q /\ From(j) # i
  BY <1>1, <1>4, <1>6
<1>8. \A j, n \in DOMAIN t : From(j) = From(n) => j = n
  BY <1>1, <1>6
<1>9. \A n \in DOMAIN q : n # i => \E j \in DOMAIN t : From(j) = n
  <2> SUFFICES ASSUME NEW n \in DOMAIN q, n # i PROVE \E j \in DOMAIN t : From(j) = n
    OBVIOUS
  <2>1. CASE n < i
    <3>1. n \in DOMAIN t /\ From(n) = n
      BY <1>1, <1>6, <2>1
    <3> QED BY <3>1
  <2>2. CASE n > i
    <3>1. n - 1 \in DOMAIN t /\ From(n - 1) = n
      BY <1>1, <1>6, <2>2
    <3> QED BY <3>1
  <2> QED BY <1>1, <2>1, <2>2
<1> HIDE DEF From
<1>10. Unique(t)
  BY <1>7, <1>8 DEF Unique
<1>11. ASSUME NEW c PROVE c \in ToSet(t) <=> c \in ToSet(q) /\ c.msg # q[i].msg
  <2>1. ASSUME NEW j \in DOMAIN t, c = t[j] PROVE c \in ToSet(q) /\ c.msg # q[i].msg
    <3>1. c = q[From(j)] /\ From(j) \in DOMAIN q /\ From(j) # i
      BY <1>7, <2>1
    <3> QED BY <3>1, Elements DEF Unique
  <2>2. ASSUME NEW n \in DOMAIN q, c = q[n], c.msg # q[i].msg PROVE c \in ToSet(t)
    <3>1. PICK j \in DOMAIN t : From(j) = n
      BY <1>9, <2>2
    <3> QED BY <1>4, <1>7, <2>2, <3>1, Elements
  <2> QED BY <1>4, <2>1, <2>2, Elements
<1> QED BY <1>4, <1>5, <1>10, <1>11

\* ... with candidate c in the place of the one of its message.
LEMMA Replaced ==
  ASSUME NEW q \in Seq(Candidates), Unique(q), NEW c \in Candidates,
         c.msg \in Messages(ToSet(q))
  PROVE  LET t == [i \in 1..Len(q) |-> IF q[i].msg = c.msg THEN c ELSE q[i]]
         IN  /\ t \in Seq(Candidates) /\ Len(t) = Len(q) /\ Unique(t)
             /\ \A x : x \in ToSet(t) <=> x = c \/ (x \in ToSet(q) /\ x.msg # c.msg)
<1> DEFINE t == [i \in 1..Len(q) |-> IF q[i].msg = c.msg THEN c ELSE q[i]]
<1>1. /\ Len(q) \in Nat /\ DOMAIN q = 1..Len(q)
      /\ \A j \in 1..Len(q) : q[j] \in Candidates
  BY Elements
<1>2. /\ t \in Seq(Candidates) /\ Len(t) = Len(q) /\ DOMAIN t = 1..Len(q)
      /\ \A j \in 1..Len(q) : t[j] = IF q[j].msg = c.msg THEN c ELSE q[j]
  BY <1>1
<1> HIDE DEF t
<1>3. Unique(t)
  BY <1>1, <1>2 DEF Unique
<1>4. PICK n \in 1..Len(q) : q[n].msg = c.msg
  BY <1>1, Elements DEF Messages
<1>5. ASSUME NEW x PROVE x \in ToSet(t) <=> x = c \/ (x \in ToSet(q) /\ x.msg # c.msg)
  BY <1>1, <1>2, <1>4, Elements
<1> QED BY <1>2, <1>3, <1>5 DEF t

\* ... with one candidate more.
LEMMA Added ==
  ASSUME NEW q \in Seq(Candidates), Unique(q), NEW c \in Candidates,
         c.msg \notin Messages(ToSet(q))
  PROVE  LET t == Append(q, c)
         IN  /\ t \in Seq(Candidates) /\ Len(t) = Len(q) + 1 /\ Unique(t)
             /\ \A x : x \in ToSet(t) <=> x = c \/ x \in ToSet(q)
             /\ t[Len(q) + 1] = c
<1> DEFINE t == Append(q, c)
<1>1. /\ Len(q) \in Nat /\ DOMAIN q = 1..Len(q)
      /\ \A j \in 1..Len(q) : q[j] \in Candidates
  BY Elements
<1>2. /\ t \in Seq(Candidates) /\ Len(t) = Len(q) + 1
      /\ \A j \in 1..Len(q) : t[j] = q[j]
      /\ t[Len(q) + 1] = c
  BY AppendProperties
<1> HIDE DEF t
<1>3. DOMAIN t = 1..(Len(q) + 1)
  BY <1>1, <1>2, Elements
<1>4. \A j \in 1..Len(q) : q[j].msg # c.msg
  BY <1>1, Elements DEF Messages
<1>5. Unique(t)
  BY <1>1, <1>2, <1>3, <1>4 DEF Unique
<1>6. ASSUME NEW x PROVE x \in ToSet(t) <=> x = c \/ x \in ToSet(q)
  <2>1. ASSUME NEW j \in 1..Len(q), x = q[j] PROVE x \in ToSet(t)
    BY <1>1, <1>2, <1>3, <2>1, Elements
  <2>2. c \in ToSet(t)
    BY <1>1, <1>2, <1>3, Elements
  <2>3. ASSUME NEW j \in 1..(Len(q) + 1), x = t[j] PROVE x = c \/ x \in ToSet(q)
    BY <1>1, <1>2, <2>3, Elements
  <2> QED BY <1>1, <1>2, <1>3, <2>1, <2>2, <2>3, Elements
<1> QED BY <1>2, <1>5, <1>6 DEF t

-----------------------------------------------------------------------------
(* The methods of the rendezvous, for whatever of it has expired *)

LEMMA FrameOfMessage ==
  ASSUME NEW m \in Message
  PROVE  /\ FrameOf(m) \in Shot /\ m = <<m[1], m[2], m[3]>>
         /\ m[1] \in Sources /\ m[2] \in 1..Frames[m[1]] /\ m[2] \in Nat
         /\ m[3] \in 1..MaxObjects
<1>1. PICK s \in Sources : m \in {s} \X (1..Frames[s]) \X (1..MaxObjects)
  BY DEF Message
<1>2. m[1] = s /\ m[2] \in 1..Frames[s] /\ m[3] \in 1..MaxObjects /\ m = <<m[1], m[2], m[3]>>
  BY <1>1
<1>3. FrameOf(m) \in {s} \X (1..Frames[s])
  BY <1>2 DEF FrameOf
<1>4. FrameOf(m) \in Shot
  BY <1>3 DEF Shot
<1>5. m[2] \in Nat
  BY <1>2
<1> QED BY <1>2, <1>4, <1>5

LEMMA CandidateFields ==
  ASSUME NEW c \in Candidates
  PROVE  /\ c.msg \in Message /\ c.matched \in BOOLEAN /\ c.acked \in BOOLEAN
         /\ c.jpeg \in Shot \cup {NoShot}
         /\ c = [msg |-> c.msg, matched |-> c.matched, jpeg |-> c.jpeg, acked |-> c.acked]
BY DEF Candidates

LEMMA LiveIsMessages == Live = Messages(Cands)
BY DEF Live, Messages, Cands

\* An index without the frames of some messages leads to none of them.
LEMMA WithoutOK ==
  ASSUME NEW ix, NEW live, Leads(ix, live), NEW gone
  PROVE  Leads(Without(ix, {FrameOf(m) : m \in gone}), live \ gone)
<1> DEFINE F == {FrameOf(m) : m \in gone}
           w == Without(ix, F)
<1>1. DOMAIN w = DOMAIN ix \ F /\ \A key \in DOMAIN w : w[key] = ix[key]
  BY DEF Without
<1>2. w = [key \in DOMAIN w |-> w[key]]
  BY DEF Without
<1>3. \A key \in DOMAIN w : key \notin F
  BY <1>1
<1> HIDE DEF w
<1>4. \A key \in DOMAIN w : w[key] \in Message /\ w[key] \in live /\ FrameOf(w[key]) = key
  BY <1>1 DEF Leads
<1>5. \A key \in DOMAIN w : w[key] \notin gone
  BY <1>3, <1>4
<1>6. w \in [DOMAIN w -> Message] /\ DOMAIN w \subseteq Shot
  BY <1>1, <1>2, <1>4 DEF Leads
<1>7. Leads(w, live \ gone)
  BY <1>4, <1>5, <1>6 DEF Leads
<1> QED BY <1>7 DEF w

LEMMA LeadsFurther ==
  ASSUME NEW ix, NEW live, Leads(ix, live), NEW more, live \subseteq more
  PROVE  Leads(ix, more)
BY DEF Leads

\* What a method finds after it dropped the oldest k candidates.
LEMMA Fresh ==
  ASSUME Rendezvous, NEW k \in 0..Len(byMessage)
  PROVE  /\ FreshOnes(k) \in Seq(Candidates) /\ Unique(FreshOnes(k))
         /\ Len(FreshOnes(k)) \in Nat /\ Len(FreshOnes(k)) <= MaxRetained
         /\ \A c : c \in ToSet(FreshOnes(k)) <=> c \in Cands /\ c.msg \notin Expired(k)
         /\ Messages(ToSet(FreshOnes(k))) = Live \ Expired(k)
         /\ \A c \in ToSet(FreshOnes(k)) : c \in Candidates /\ OwnPicture(c)
         /\ Leads(FreshIndex(k), Live \ Expired(k))
         /\ Expired(k) \subseteq Live
<1> DEFINE q == byMessage
           t == SubSeq(q, k + 1, Len(q))
<1>1. q \in Seq(Candidates) /\ Unique(q) /\ Len(q) <= MaxRetained /\ Len(q) \in Nat
  BY Elements DEF Rendezvous
<1>2. FreshOnes(k) = t /\ Expired(k) = {q[i].msg : i \in 1..k}
  BY DEF FreshOnes, Expired
<1>3. /\ t \in Seq(Candidates) /\ Len(t) = Len(q) - k /\ Unique(t)
      /\ \A c : c \in ToSet(t) <=> c \in ToSet(q) /\ c.msg \notin {q[i].msg : i \in 1..k}
  <2>1. k \in 0..Len(q)
    OBVIOUS
  <2> HIDE DEF q
  <2> QED BY <1>1, <2>1, Cut
<1> HIDE DEF q, t
<1>4. Len(t) \in Nat /\ Len(t) <= MaxRetained
  BY <1>1, <1>3, BridgeAssumption DEF q
<1>5. \A c : c \in ToSet(t) <=> c \in Cands /\ c.msg \notin Expired(k)
  BY <1>2, <1>3 DEF Cands, q
<1>6. Messages(ToSet(t)) = Live \ Expired(k)
  BY <1>5, LiveIsMessages DEF Messages
<1>7. \A c \in ToSet(t) : c \in Candidates /\ OwnPicture(c)
  <2>1. \A c \in ToSet(t) : c \in Candidates
    BY <1>3, Elements
  <2> QED BY <1>5, <2>1 DEF Rendezvous
<1>8. Leads(FreshIndex(k), Live \ Expired(k))
  <2>1. Leads(byFrame, Live)
    BY DEF Rendezvous
  <2> QED BY <2>1, WithoutOK DEF FreshIndex
<1>9. Expired(k) \subseteq Live
  <2> SUFFICES ASSUME NEW i \in 1..k PROVE q[i].msg \in Live
    BY <1>2
  <2>1. i \in DOMAIN q
    BY <1>1, Elements DEF q
  <2>2. q[i] \in ToSet(q)
    BY <1>1, <2>1, Elements
  <2> QED BY <2>2 DEF Live, q
<1> QED BY <1>2, <1>3, <1>4, <1>5, <1>6, <1>7, <1>8, <1>9

LEMMA ExpireEffect ==
  ASSUME Rendezvous, NEW k \in 0..Len(byMessage), Expire(k)
  PROVE  Rendezvous' /\ Live' = Live \ Expired(k)
<1>1. byMessage' = FreshOnes(k) /\ byFrame' = FreshIndex(k)
  BY DEF Expire
<1>2. Cands' = ToSet(FreshOnes(k))
  BY <1>1 DEF Cands
<1>3. Live' = Live \ Expired(k)
  <2>1. Live' = Messages(Cands')
    BY DEF Live, Messages, Cands
  <2> QED BY <1>2, <2>1, Fresh
<1>4. Rendezvous'
  <2>1. byMessage' \in Seq(Candidates) /\ Unique(byMessage') /\ Len(byMessage') <= MaxRetained
    BY <1>1, Fresh
  <2>2. Leads(byFrame', Live')
    BY <1>1, <1>3, Fresh
  <2>3. \A c \in Cands' : OwnPicture(c)
    BY <1>2, Fresh
  <2> QED BY <2>1, <2>2, <2>3 DEF Rendezvous, OwnPicture
<1> QED BY <1>3, <1>4

LEMMA UpdateEffect ==
  ASSUME Rendezvous, NEW k \in 0..Len(byMessage), NEW c \in Candidates,
         c.msg \in Live \ Expired(k), OwnPicture(c), Update(c, k)
  PROVE  Rendezvous' /\ Live' = Live \ Expired(k)
<1> DEFINE q == FreshOnes(k)
           t == [i \in 1..Len(q) |-> IF q[i].msg = c.msg THEN c ELSE q[i]]
<1>1. byMessage' = t /\ byFrame' = FreshIndex(k)
  BY DEF Update
<1>2. /\ q \in Seq(Candidates) /\ Unique(q) /\ Len(q) <= MaxRetained
      /\ Messages(ToSet(q)) = Live \ Expired(k)
      /\ \A x \in ToSet(q) : OwnPicture(x)
  BY Fresh
<1> HIDE DEF q
<1>3. /\ t \in Seq(Candidates) /\ Len(t) = Len(q) /\ Unique(t)
      /\ \A x : x \in ToSet(t) <=> x = c \/ (x \in ToSet(q) /\ x.msg # c.msg)
  BY <1>2, Replaced
<1> HIDE DEF t
<1>4. Cands' = ToSet(t)
  BY <1>1 DEF Cands
<1>5. Messages(ToSet(t)) = Messages(ToSet(q))
  BY <1>2, <1>3 DEF Messages
<1>6. Live' = Live \ Expired(k)
  <2>1. Live' = Messages(Cands')
    BY DEF Live, Messages, Cands
  <2> QED BY <1>2, <1>4, <1>5, <2>1
<1>7. Rendezvous'
  <2>1. byMessage' \in Seq(Candidates) /\ Unique(byMessage') /\ Len(byMessage') <= MaxRetained
    BY <1>1, <1>2, <1>3
  <2>2. Leads(byFrame', Live')
    BY <1>1, <1>6, Fresh
  <2>3. \A x \in Cands' : OwnPicture(x)
    BY <1>2, <1>3, <1>4
  <2> QED BY <2>1, <2>2, <2>3 DEF Rendezvous, OwnPicture
<1> QED BY <1>6, <1>7

LEMMA DropEffect ==
  ASSUME Rendezvous, NEW k \in 0..Len(byMessage), NEW m, Drop(m, k)
  PROVE  Rendezvous' /\ Live' = Live \ (Expired(k) \cup {m})
<1> DEFINE q == FreshOnes(k)
<1>1. /\ q \in Seq(Candidates) /\ Unique(q) /\ Len(q) \in Nat /\ Len(q) <= MaxRetained
      /\ Messages(ToSet(q)) = Live \ Expired(k)
      /\ \A x \in ToSet(q) : OwnPicture(x)
      /\ Leads(FreshIndex(k), Live \ Expired(k))
  BY Fresh
<1>2. PICK i \in DOMAIN q : q[i].msg = m /\ byMessage' = RemoveAt(q, i)
  BY DEF Drop
<1>3. byFrame' = Without(FreshIndex(k), {FrameOf(m)})
  BY DEF Drop
<1> DEFINE t == RemoveAt(q, i)
<1> HIDE DEF q
<1>4. /\ t \in Seq(Candidates) /\ Len(t) = Len(q) - 1 /\ Unique(t)
      /\ \A x : x \in ToSet(t) <=> x \in ToSet(q) /\ x.msg # q[i].msg
  BY <1>1, Removed
<1> HIDE DEF t
<1>5. Cands' = ToSet(t)
  BY <1>2 DEF Cands, t
<1>6. Messages(ToSet(t)) = Messages(ToSet(q)) \ {m}
  BY <1>2, <1>4 DEF Messages
<1>7. Live' = Live \ (Expired(k) \cup {m})
  <2>1. Live' = Messages(Cands')
    BY DEF Live, Messages, Cands
  <2> QED BY <1>1, <1>5, <1>6, <2>1
<1>8. Rendezvous'
  <2>1. byMessage' \in Seq(Candidates) /\ Unique(byMessage') /\ Len(byMessage') <= MaxRetained
    BY <1>1, <1>2, <1>4, BridgeAssumption DEF t
  <2>2. Leads(byFrame', Live')
    <3>1. {FrameOf(x) : x \in {m}} = {FrameOf(m)}
      OBVIOUS
    <3>2. Leads(Without(FreshIndex(k), {FrameOf(m)}), (Live \ Expired(k)) \ {m})
      BY <1>1, <3>1, WithoutOK
    <3>3. Live' = (Live \ Expired(k)) \ {m}
      BY <1>7
    <3> QED BY <1>3, <3>2, <3>3
  <2>3. \A x \in Cands' : OwnPicture(x)
    BY <1>1, <1>4, <1>5
  <2> QED BY <2>1, <2>2, <2>3 DEF Rendezvous, OwnPicture
<1> QED BY <1>7, <1>8

LEMMA ArriveEffect ==
  ASSUME Rendezvous, NEW k \in 0..Len(byMessage), NEW c \in Candidates,
         c.msg \in Live \ Expired(k), OwnPicture(c), Arrive(c, k)
  PROVE  /\ Rendezvous' /\ Live' \subseteq Live
         /\ Complete(c) => c.msg \notin Live'
<1>1. CASE Complete(c)
  <2>1. Drop(c.msg, k)
    BY <1>1 DEF Arrive
  <2> QED BY <2>1, DropEffect
<1>2. CASE ~ Complete(c)
  <2>1. Update(c, k)
    BY <1>2 DEF Arrive
  <2> QED BY <1>2, <2>1, UpdateEffect
<1> QED BY <1>1, <1>2

\* A new candidate may crowd out old ones, itself never.
LEMMA RecordEffect ==
  ASSUME Rendezvous, NEW k \in 0..Len(byMessage), NEW m \in Message, m \notin Live,
         RecordDetection(m, k)
  PROVE  Rendezvous' /\ Live' \subseteq Live \cup {m}
<1> DEFINE q == FreshOnes(k)
           cs == Append(q, Candidate(m))
           n == Overflow(cs)
           gone == {cs[i].msg : i \in 1..n}
           t == SubSeq(cs, n + 1, Len(cs))
           ix == [key \in DOMAIN FreshIndex(k) \cup {FrameOf(m)} |->
                    IF key = FrameOf(m) THEN m ELSE FreshIndex(k)[key]]
<1>1. byMessage' = t /\ byFrame' = Without(ix, {FrameOf(g) : g \in gone})
  BY DEF RecordDetection
<1>2. /\ q \in Seq(Candidates) /\ Unique(q) /\ Len(q) \in Nat /\ Len(q) <= MaxRetained
      /\ Messages(ToSet(q)) = Live \ Expired(k)
      /\ \A x \in ToSet(q) : OwnPicture(x)
      /\ Leads(FreshIndex(k), Live \ Expired(k))
  BY Fresh
<1> DEFINE c == Candidate(m)
<1>3. c \in Candidates /\ c.msg = m /\ OwnPicture(c)
  BY DEF Candidate, Candidates, OwnPicture
<1> DEFINE u == Append(q, c)
<1>4. cs = u
  OBVIOUS
<1> HIDE DEF q, c
<1>5. /\ u \in Seq(Candidates) /\ Len(u) = Len(q) + 1 /\ Unique(u)
      /\ \A x : x \in ToSet(u) <=> x = c \/ x \in ToSet(q)
  <2>1. c.msg \notin Messages(ToSet(q))
    BY <1>2, <1>3
  <2> QED BY <1>2, <1>3, <2>1, Added
<1> HIDE DEF cs, u
<1>6. n \in 0..Len(u) /\ Len(u) - n <= MaxRetained
  <2>1. Len(u) \in Nat /\ MaxRetained \in Nat
    BY <1>2, <1>5, BridgeAssumption
  <2>2. n = IF Len(u) > MaxRetained THEN Len(u) - MaxRetained ELSE 0
    BY <1>4 DEF Overflow
  <2> QED BY <2>1, <2>2
<1> HIDE DEF n
<1>7. /\ t \in Seq(Candidates) /\ Len(t) = Len(u) - n /\ Unique(t)
      /\ \A x : x \in ToSet(t) <=> x \in ToSet(u) /\ x.msg \notin gone
  <2> DEFINE v == SubSeq(u, n + 1, Len(u))
             out == {u[i].msg : i \in 1..n}
  <2>1. t = v /\ gone = out
    BY <1>4
  <2>2. /\ v \in Seq(Candidates) /\ Len(v) = Len(u) - n /\ Unique(v)
        /\ \A x : x \in ToSet(v) <=> x \in ToSet(u) /\ x.msg \notin out
    BY <1>5, <1>6, Cut
  <2> HIDE DEF v, out, t, gone
  <2> QED BY <2>1, <2>2
<1> HIDE DEF t, gone
<1>8. Cands' = ToSet(t)
  BY <1>1 DEF Cands
<1>9. Messages(ToSet(t)) = Messages(ToSet(u)) \ gone
  BY <1>7 DEF Messages
<1>10. Messages(ToSet(u)) = (Live \ Expired(k)) \cup {m}
  BY <1>2, <1>3, <1>5 DEF Messages
<1>11. Live' = ((Live \ Expired(k)) \cup {m}) \ gone
  <2>1. Live' = Messages(Cands')
    BY DEF Live, Messages, Cands
  <2> QED BY <1>8, <1>9, <1>10, <2>1
<1>12. Leads(ix, (Live \ Expired(k)) \cup {m})
  <2> DEFINE old == FreshIndex(k)
             live == Live \ Expired(k)
  <2>1. DOMAIN old \subseteq Shot /\ \A key \in DOMAIN old :
          old[key] \in Message /\ old[key] \in live /\ FrameOf(old[key]) = key
    BY <1>2 DEF Leads
  <2>2. FrameOf(m) \in Shot
    BY FrameOfMessage
  <2> HIDE DEF old, live
  <2>3. /\ DOMAIN ix = DOMAIN old \cup {FrameOf(m)}
        /\ \A key \in DOMAIN ix : ix[key] = IF key = FrameOf(m) THEN m ELSE old[key]
    BY DEF old
  <2>4. ix = [key \in DOMAIN ix |-> ix[key]]
    OBVIOUS
  <2> HIDE DEF ix
  <2>5. \A key \in DOMAIN ix :
          ix[key] \in Message /\ ix[key] \in live \cup {m} /\ FrameOf(ix[key]) = key
    BY <2>1, <2>3
  <2>6. DOMAIN ix \subseteq Shot /\ ix \in [DOMAIN ix -> Message]
    BY <2>1, <2>2, <2>3, <2>4, <2>5
  <2>7. Leads(ix, live \cup {m})
    BY <2>5, <2>6 DEF Leads
  <2> QED BY <2>7 DEF live
<1> HIDE DEF ix
<1>13. Leads(byFrame', Live')
  BY <1>1, <1>11, <1>12, WithoutOK
<1>14. \A x \in Cands' : OwnPicture(x)
  BY <1>2, <1>3, <1>5, <1>7, <1>8
<1>15. byMessage' \in Seq(Candidates) /\ Unique(byMessage') /\ Len(byMessage') <= MaxRetained
  BY <1>1, <1>6, <1>7
<1>16. Rendezvous'
  BY <1>13, <1>14, <1>15 DEF Rendezvous, OwnPicture
<1> QED BY <1>11, <1>16

\* What the methods look up.
LEMMA Lookup ==
  ASSUME Rendezvous, NEW m \in Live
  PROVE  /\ CandidateOf(m) \in Candidates /\ CandidateOf(m).msg = m
         /\ OwnPicture(CandidateOf(m)) /\ m \in Message
<1>1. \E c \in ToSet(byMessage) : c.msg = m
  BY DEF Live
<1>2. CandidateOf(m) \in Cands /\ CandidateOf(m).msg = m
  BY <1>1 DEF CandidateOf, Cands
<1>3. CandidateOf(m) \in Candidates
  BY <1>2, Elements DEF Cands, Rendezvous
<1> QED BY <1>2, <1>3, CandidateFields DEF Rendezvous

LEMMA Matched ==
  ASSUME Rendezvous, NEW key, NEW m \in Matching(key)
  PROVE  m \in Live /\ FrameOf(m) = key /\ key \in Shot
<1>1. key \in DOMAIN byFrame /\ m = byFrame[key] /\ m \in Live
  BY DEF Matching
<1> QED BY <1>1 DEF Rendezvous, Leads

-----------------------------------------------------------------------------
(* The threads' hands and the queues *)

LEMMA FirstAndRest ==
  ASSUME NEW S, NEW q \in Seq(S), q # <<>>
  PROVE  /\ Head(q) \in S /\ Head(q) = q[1] /\ 1 \in DOMAIN q
         /\ Tail(q) \in Seq(S) /\ Len(Tail(q)) = Len(q) - 1 /\ Len(q) >= 1
         /\ \A i \in DOMAIN Tail(q) : i + 1 \in DOMAIN q /\ Tail(q)[i] = q[i + 1] /\ i \in Nat
<1>1. Len(q) \in Nat /\ Len(q) >= 1 /\ DOMAIN q = 1..Len(q) /\ q[1] \in S
  BY EmptySeq, Elements
<1>2. Tail(q) \in Seq(S) /\ Len(Tail(q)) = Len(q) - 1
  BY HeadTailProperties
<1>3. DOMAIN Tail(q) = 1..(Len(q) - 1)
  BY <1>2, Elements
<1>4. \A i \in 1..(Len(q) - 1) : Tail(q)[i] = q[i + 1]
  BY <1>1, HeadTailProperties
<1>5. \A i \in 1..(Len(q) - 1) : i + 1 \in 1..Len(q) /\ i \in Nat
  BY <1>1
<1>6. Head(q) = q[1]
  BY HeadTailProperties
<1> QED BY <1>1, <1>2, <1>3, <1>4, <1>5, <1>6

LEMMA PutOK ==
  ASSUME NEW S, NEW q \in Seq(S), NEW item \in S, NEW capacity \in Nat, Len(q) <= capacity
  PROVE  /\ Put(q, item, capacity) \in Seq(S)
         /\ Len(Put(q, item, capacity)) <= capacity
<1>1. Len(q) \in Nat /\ Append(q, item) \in Seq(S) /\ Len(Append(q, item)) = Len(q) + 1
  BY AppendProperties, Elements
<1>2. CASE Len(q) < capacity
  BY <1>1, <1>2 DEF Put
<1>3. CASE ~ (Len(q) < capacity)
  BY <1>3 DEF Put
<1> QED BY <1>2, <1>3

LEMMA ReaderHand ==
  ASSUME TypeOK
  PROVE  /\ readerHand.at = "send" <=> reader = "send"
         /\ reader = "send" => readerHand \in Offer
         /\ reader = "dispatch" => readerHand \in Ack
         /\ reader \notin {"dispatch", "send"} => readerHand = Idle
BY DEF TypeOK, Offer, Ack, Idle

LEMMA EncoderHand ==
  ASSUME TypeOK, NEW s \in Sources
  PROVE  /\ encoder[s] = Idle \/ encoder[s] \in Encode \/ encoder[s] \in Offer
         /\ encoder[s].at = "send" <=> encoder[s] \in Offer
         /\ encoder[s].at = "encode" <=> encoder[s] \in Encode
         /\ encoder[s].at = "idle" <=> encoder[s] = Idle
BY DEF TypeOK, Offer, Encode, Idle

LEMMA OfferFields ==
  ASSUME NEW o \in Offer
  PROVE  o.at = "send" /\ o.event \in Message /\ o.jpeg \in Shot
BY DEF Offer

LEMMA WhoOffers ==
  ASSUME NEW o
  PROVE  o \in Offers <=> \/ o \in offered
                          \/ o.at = "send" /\ \E s \in Sources : o = encoder[s]
                          \/ o.at = "send" /\ o = readerHand
BY DEF Offers

LEMMA OffersTyped ==
  ASSUME TypeOK
  PROVE  Offers \subseteq Offer
<1> SUFFICES ASSUME NEW o \in Offers PROVE o \in Offer
  OBVIOUS
<1>1. CASE o \in offered
  BY <1>1 DEF TypeOK
<1>2. CASE o.at = "send" /\ \E s \in Sources : o = encoder[s]
  BY <1>2, EncoderHand
<1>3. CASE o.at = "send" /\ o = readerHand
  BY <1>3, ReaderHand
<1> QED BY <1>1, <1>2, <1>3, WhoOffers

\* A completed candidate is the snapshot of its frame.
LEMMA ResultOK ==
  ASSUME NEW c \in Candidates, OwnPicture(c)
  PROVE  /\ Complete(c) => /\ Result(c) \in Offer /\ Result(c).event = c.msg
                           /\ Result(c).jpeg = FrameOf(c.msg)
         /\ ~ Complete(c) => Result(c) = Idle
<1>1. CASE Complete(c)
  <2>1. c.jpeg # NoShot
    BY <1>1 DEF Complete
  <2>2. Result(c) = [at |-> "send", event |-> c.msg, jpeg |-> c.jpeg]
    BY <1>1 DEF Result
  <2>3. c.jpeg \in Shot /\ c.jpeg = FrameOf(c.msg) /\ c.msg \in Message
    BY <2>1, CandidateFields DEF OwnPicture
  <2> QED BY <1>1, <2>2, <2>3 DEF Offer
<1>2. CASE ~ Complete(c)
  BY <1>2 DEF Result
<1> QED BY <1>1, <1>2

LEMMA MeetingKept ==
  ASSUME Rendezvous, UNCHANGED meeting
  PROVE  Rendezvous' /\ Live' = Live
<1>1. byMessage' = byMessage /\ byFrame' = byFrame
  BY DEF meeting
<1>2. Live' = Live /\ Cands' = Cands
  BY <1>1 DEF Live, Cands
<1> QED BY <1>1, <1>2 DEF Rendezvous, OwnPicture

\* What the probe knows and has still to do.
LEMMA ProbeStep ==
  ASSUME Seen, StillNew, todo \in Seq(Step), frame' = frame,
         \/ todo' = todo /\ Known' \subseteq Known
         \/ todo' = <<>> /\ Known' \subseteq Known
         \/ todo # <<>> /\ todo' = Tail(todo) /\ Known' \subseteq Known
         \/ /\ todo # <<>> /\ todo' = Tail(todo) /\ Head(todo).do = "register"
            /\ Known' \subseteq Known \cup {Head(todo).msg}
  PROVE  Seen' /\ StillNew'
<1>1. CASE todo' = todo /\ Known' \subseteq Known
  BY <1>1 DEF Seen, StillNew
<1>2. CASE todo' = <<>> /\ Known' \subseteq Known
  BY <1>2 DEF Seen, StillNew
<1>3. CASE todo # <<>> /\ todo' = Tail(todo)
  <2>1. /\ Head(todo) = todo[1] /\ 1 \in DOMAIN todo
        /\ \A i \in DOMAIN todo' : i + 1 \in DOMAIN todo /\ todo'[i] = todo[i + 1] /\ i \in Nat
    BY <1>3, FirstAndRest
  <2>2. CASE Known' \subseteq Known
    <3>1. Seen'
      BY <2>1, <2>2 DEF Seen
    <3>2. \A i \in DOMAIN todo' : todo'[i].do = "register" => todo'[i].msg \notin Known'
      BY <2>1, <2>2 DEF StillNew
    <3>3. ASSUME NEW i \in DOMAIN todo', NEW j \in DOMAIN todo',
                 todo'[i].do = "register", todo'[j].do = "register",
                 todo'[i].msg = todo'[j].msg
          PROVE  i = j
      <4>1. i + 1 = j + 1
        BY <2>1, <3>3 DEF StillNew
      <4> QED BY <2>1, <4>1
    <3> QED BY <3>1, <3>2, <3>3 DEF StillNew
  <2>3. CASE Head(todo).do = "register" /\ Known' \subseteq Known \cup {Head(todo).msg}
    <3>1. Seen'
      BY <2>1, <2>3 DEF Seen
    <3>2. ASSUME NEW i \in DOMAIN todo', todo'[i].do = "register"
          PROVE  todo'[i].msg \notin Known'
      <4>1. todo[i + 1].msg \notin Known
        BY <2>1, <3>2 DEF StillNew
      <4>2. i + 1 # 1
        BY <2>1
      <4>3. todo[i + 1].msg # todo[1].msg
        BY <2>1, <2>3, <3>2, <4>2 DEF StillNew
      <4> QED BY <2>1, <2>3, <4>1, <4>3
    <3>3. ASSUME NEW i \in DOMAIN todo', NEW j \in DOMAIN todo',
                 todo'[i].do = "register", todo'[j].do = "register",
                 todo'[i].msg = todo'[j].msg
          PROVE  i = j
      <4>1. i + 1 = j + 1
        BY <2>1, <3>3 DEF StillNew
      <4> QED BY <2>1, <4>1
    <3> QED BY <3>1, <3>2, <3>3 DEF StillNew
  <2> QED BY <1>3, <2>2, <2>3
<1> QED BY <1>1, <1>2, <1>3

-----------------------------------------------------------------------------
(* The invariant is inductive *)

LEMMA InitIInv == Init => IInv
<1> SUFFICES ASSUME Init PROVE IInv
  OBVIOUS
<1>1. /\ byMessage = <<>> /\ DOMAIN byFrame = {} /\ Cands = {} /\ Live = {}
      /\ byMessage \in Seq(Candidates) /\ Len(byMessage) = 0
  <2>1. byMessage = <<>> /\ DOMAIN byFrame = {} /\ DOMAIN byMessage = {}
    BY DEF Init
  <2>2. ToSet(byMessage) = {}
    BY <2>1 DEF ToSet
  <2> QED BY <2>1, <2>2 DEF Cands, Live
<1>2. Offers = {} /\ Known = {}
  <2>1. offered = {} /\ readerHand.at # "send" /\ \A s \in Sources : encoder[s].at # "send"
    BY DEF Init, Idle
  <2>2. Offers = {}
    BY <2>1, WhoOffers
  <2> QED BY <1>1, <2>2 DEF Known, EventsOf
<1>3. TypeOK
  <2>1. frame \in [Sources -> Nat] /\ \A s \in Sources : frame[s] <= Frames[s]
    BY BridgeAssumption DEF Init
  <2>2. DOMAIN byFrame \subseteq Shot /\ byFrame \in [DOMAIN byFrame -> Message]
    BY <1>1 DEF Init
  <2>3. /\ todo \in Seq(Step) /\ queue \in Seq(Message) /\ snapQueue \in Seq(Offer)
        /\ acks \in Seq(Ack)
    BY DEF Init
  <2>4. branch \in [Sources -> Seq(Shot)] /\ pending \in [Sources -> Seq(Shot)]
    BY DEF Init
  <2>5. encoder \in [Sources -> {Idle} \cup Encode \cup Offer]
    BY DEF Init
  <2> QED BY <1>1, <2>1, <2>2, <2>3, <2>4, <2>5 DEF Init, TypeOK
<1>4. MemoryIsBounded
  BY <1>1, BridgeAssumption DEF Init, MemoryIsBounded
<1>5. Rendezvous
  <2>1. Leads(byFrame, Live)
    BY <1>1, <1>3 DEF Leads, TypeOK
  <2> QED BY <1>1, <2>1, BridgeAssumption DEF Rendezvous, Unique
<1>6. InStep /\ OwnBranch
  BY DEF Init, InStep, OwnBranch, Idle
<1>7. Seen /\ StillNew
  BY <1>2 DEF Init, Seen, StillNew
<1>8. SnapshotShowsItsDetection /\ OneSnapshotPerEvent /\ OfferedIsGone
  BY <1>1, <1>2 DEF Init, Idle, SnapshotShowsItsDetection, OneSnapshotPerEvent, OfferedIsGone,
                    EventsOf
<1> QED BY <1>3, <1>4, <1>5, <1>6, <1>7, <1>8 DEF IInv

\* The snapshots on their way are as they were, and so is all they meet.
LEMMA QuietStep ==
  ASSUME IInv, TypeOK', UNCHANGED <<meeting, encoder, branch, pending, frame, offered>>,
         \/ todo' = todo
         \/ todo # <<>> /\ todo' = Tail(todo)
         \/ todo' = <<>>,
         readerHand' = readerHand \/ readerHand'.at # "send",
         Len(queue') <= QueueCapacity, Len(snapQueue') <= SnapCapacity
  PROVE  IInv'
<1>1. Rendezvous' /\ Live' = Live
  BY MeetingKept DEF IInv
<1>2. Offers' \subseteq Offers
  BY DEF Offers
<1>3. Known' \subseteq Known
  BY <1>1, <1>2 DEF Known, EventsOf
<1>4. Seen' /\ StillNew'
  <2>1. Seen /\ StillNew /\ todo \in Seq(Step)
    BY DEF IInv, TypeOK
  <2> QED BY <1>3, <2>1, ProbeStep
<1>5. MemoryIsBounded'
  <2>1. Len(byMessage') <= MaxRetained
    BY <1>1 DEF Rendezvous
  <2>2. \A key \in DOMAIN byFrame' : byFrame'[key] \in Live' /\ FrameOf(byFrame'[key]) = key
    BY <1>1 DEF Rendezvous, Leads
  <2>3. \A s \in Sources : Len(branch'[s]) <= BranchCapacity /\ Len(pending'[s]) <= 1
    BY DEF IInv, MemoryIsBounded
  <2> QED BY <2>1, <2>2, <2>3 DEF MemoryIsBounded
<1>6. InStep' /\ OwnBranch'
  BY DEF IInv, InStep, OwnBranch
<1>7. SnapshotShowsItsDetection'
  BY <1>2 DEF IInv, SnapshotShowsItsDetection
<1>8. OneSnapshotPerEvent'
  BY <1>1 DEF IInv, OneSnapshotPerEvent
<1>9. OfferedIsGone'
  BY <1>1 DEF IInv, OfferedIsGone, EventsOf
<1> QED BY <1>1, <1>4, <1>5, <1>6, <1>7, <1>8, <1>9 DEF IInv

LEMMA NoAcks == <<>> \in Seq(Ack)
BY EmptySeq

LEMMA SenderStep ==
  ASSUME IInv, Sender
  PROVE  IInv'
<1>1. CASE SenderTakesSnapshot
  <2>1. /\ Head(snapQueue) \in Offer /\ Tail(snapQueue) \in Seq(Offer)
        /\ Len(Tail(snapQueue)) <= SnapCapacity
    <3>1. snapQueue \in Seq(Offer) /\ Len(snapQueue) <= SnapCapacity /\ snapQueue # <<>>
      BY <1>1 DEF IInv, TypeOK, MemoryIsBounded, SenderTakesSnapshot
    <3>2. Len(snapQueue) \in Nat
      BY <3>1, Elements
    <3> QED BY <3>1, <3>2, FirstAndRest, BridgeAssumption
  <2>2. TypeOK'
    BY <1>1, <2>1 DEF IInv, TypeOK, SenderTakesSnapshot, camera, meeting, queues, socket, history
  <2>3. /\ UNCHANGED <<meeting, encoder, branch, pending, frame, offered, todo, readerHand>>
        /\ Len(queue') <= QueueCapacity /\ Len(snapQueue') <= SnapCapacity
    BY <1>1, <2>1 DEF IInv, MemoryIsBounded, SenderTakesSnapshot, camera, meeting, queues, socket, history
  <2> QED BY <2>2, <2>3, QuietStep
<1>2. CASE SenderPolls
  <2>1. TypeOK'
    BY <1>2 DEF IInv, TypeOK, SenderPolls, camera, meeting, queues, socket, history
  <2>2. /\ UNCHANGED <<meeting, encoder, branch, pending, frame, offered, todo>>
        /\ readerHand' = readerHand \/ readerHand'.at # "send"
        /\ Len(queue') <= QueueCapacity /\ Len(snapQueue') <= SnapCapacity
    BY <1>2 DEF IInv, TypeOK, MemoryIsBounded, SenderPolls, camera, meeting, queues, socket, history, Ack, Idle
  <2> QED BY <2>1, <2>2, QuietStep
<1>3. CASE SenderTakesDetection
  <2>1. /\ Head(queue) \in Message /\ Tail(queue) \in Seq(Message)
        /\ Len(Tail(queue)) <= QueueCapacity
    <3>1. queue \in Seq(Message) /\ Len(queue) <= QueueCapacity /\ queue # <<>>
      BY <1>3 DEF IInv, TypeOK, MemoryIsBounded, SenderTakesDetection
    <3>2. Len(queue) \in Nat
      BY <3>1, Elements
    <3> QED BY <3>1, <3>2, FirstAndRest, BridgeAssumption
  <2>2. TypeOK'
    BY <1>3, <2>1 DEF IInv, TypeOK, SenderTakesDetection, Detection, camera, meeting, queues, socket, history
  <2>3. /\ UNCHANGED <<meeting, encoder, branch, pending, frame, offered, todo, readerHand>>
        /\ Len(queue') <= QueueCapacity /\ Len(snapQueue') <= SnapCapacity
    BY <1>3, <2>1 DEF IInv, MemoryIsBounded, SenderTakesDetection, camera, meeting, queues, socket, history
  <2> QED BY <2>2, <2>3, QuietStep
<1>4. CASE PollTimesOut
  <2>1. TypeOK'
    BY <1>4 DEF IInv, TypeOK, PollTimesOut, camera, meeting, queues, socket, history
  <2>2. /\ UNCHANGED <<meeting, encoder, branch, pending, frame, offered, todo>>
        /\ readerHand' = readerHand \/ readerHand'.at # "send"
        /\ Len(queue') <= QueueCapacity /\ Len(snapQueue') <= SnapCapacity
    BY <1>4 DEF IInv, TypeOK, MemoryIsBounded, PollTimesOut, camera, meeting, queues, socket, history, Ack, Idle
  <2> QED BY <2>1, <2>2, QuietStep
<1>5. CASE SenderEnds
  <2>1. TypeOK'
    BY <1>5 DEF IInv, TypeOK, SenderEnds, camera, meeting, queues, socket, history
  <2>2. /\ UNCHANGED <<meeting, encoder, branch, pending, frame, offered, todo>>
        /\ readerHand' = readerHand \/ readerHand'.at # "send"
        /\ Len(queue') <= QueueCapacity /\ Len(snapQueue') <= SnapCapacity
    BY <1>5 DEF IInv, TypeOK, MemoryIsBounded, SenderEnds, camera, meeting, queues, socket, history, Ack, Idle
  <2> QED BY <2>1, <2>2, QuietStep
<1>6. CASE SenderConnects
  <2>1. TypeOK'
    BY <1>6, NoAcks DEF IInv, TypeOK, SenderConnects, camera, meeting, queues, socket, history
  <2>2. /\ UNCHANGED <<meeting, encoder, branch, pending, frame, offered, todo>>
        /\ readerHand' = readerHand \/ readerHand'.at # "send"
        /\ Len(queue') <= QueueCapacity /\ Len(snapQueue') <= SnapCapacity
    BY <1>6 DEF IInv, TypeOK, MemoryIsBounded, SenderConnects, camera, meeting, queues, socket, history, Ack, Idle
  <2> QED BY <2>1, <2>2, QuietStep
<1>7. CASE ConnectFails
  <2>1. TypeOK'
    BY <1>7 DEF IInv, TypeOK, ConnectFails, camera, meeting, queues, socket, history
  <2>2. /\ UNCHANGED <<meeting, encoder, branch, pending, frame, offered, todo>>
        /\ readerHand' = readerHand \/ readerHand'.at # "send"
        /\ Len(queue') <= QueueCapacity /\ Len(snapQueue') <= SnapCapacity
    BY <1>7 DEF IInv, TypeOK, MemoryIsBounded, ConnectFails, camera, meeting, queues, socket, history, Ack, Idle
  <2> QED BY <2>1, <2>2, QuietStep
<1>8. CASE Write
  <2>1. TypeOK'
    BY <1>8 DEF IInv, TypeOK, Write, Detection, Offer, Idle, Close, camera, meeting, queues, socket, history
  <2>2. /\ UNCHANGED <<meeting, encoder, branch, pending, frame, offered, todo>>
        /\ readerHand' = readerHand \/ readerHand'.at # "send"
        /\ Len(queue') <= QueueCapacity /\ Len(snapQueue') <= SnapCapacity
    BY <1>8 DEF IInv, TypeOK, MemoryIsBounded, Write, camera, meeting, queues, socket, history, Ack, Idle
  <2> QED BY <2>1, <2>2, QuietStep
<1>9. CASE WriteFails
  <2>1. TypeOK'
    BY <1>9, NoAcks DEF IInv, TypeOK, WriteFails, Detection, Offer, Idle, Close, camera, meeting, queues, socket, history
  <2>2. /\ UNCHANGED <<meeting, encoder, branch, pending, frame, offered, todo>>
        /\ readerHand' = readerHand \/ readerHand'.at # "send"
        /\ Len(queue') <= QueueCapacity /\ Len(snapQueue') <= SnapCapacity
    BY <1>9 DEF IInv, TypeOK, MemoryIsBounded, WriteFails, camera, meeting, queues, socket, history, Ack, Idle
  <2> QED BY <2>1, <2>2, QuietStep
<1>10. CASE SenderDies
  <2>1. TypeOK'
    BY <1>10 DEF IInv, TypeOK, SenderDies, camera, meeting, queues, socket, history
  <2>2. /\ UNCHANGED <<meeting, encoder, branch, pending, frame, offered, todo>>
        /\ readerHand' = readerHand \/ readerHand'.at # "send"
        /\ Len(queue') <= QueueCapacity /\ Len(snapQueue') <= SnapCapacity
    BY <1>10 DEF IInv, TypeOK, MemoryIsBounded, SenderDies, camera, meeting, queues, socket, history, Ack, Idle
  <2> QED BY <2>1, <2>2, QuietStep
<1> QED BY <1>1, <1>2, <1>3, <1>4, <1>5, <1>6, <1>7, <1>8, <1>9, <1>10 DEF Sender

\* The Agent, and the reader apart from what it does with an answer.
LEMMA ReaderStep ==
  ASSUME IInv,
         \/ \E m \in Message, o \in {"accepted", "declined"} : AgentAnswers(m, o)
         \/ LoseStep \/ ReadFrame \/ Misread \/ ReaderCloses \/ ReaderEnds
         \/ StopTransport \/ Stopped
  PROVE  IInv'
<1> DEFINE Answer == \E m \in Message, o \in {"accepted", "declined"} : AgentAnswers(m, o)
<1>1. CASE Answer
  <2>1. PICK m \in Message, o \in {"accepted", "declined"} : AgentAnswers(m, o)
    BY <1>1
  <2>2. [at |-> "ack", msg |-> m, outcome |-> o] \in Ack
    BY DEF Ack
  <2>3. Append(acks, [at |-> "ack", msg |-> m, outcome |-> o]) \in Seq(Ack)
    BY <2>2 DEF IInv, TypeOK
  <2>4. TypeOK'
    BY <2>1, <2>3 DEF IInv, TypeOK, AgentAnswers, camera, meeting, queues, socket, history
  <2>5. /\ UNCHANGED <<meeting, encoder, branch, pending, frame, offered, todo, readerHand>>
        /\ Len(queue') <= QueueCapacity /\ Len(snapQueue') <= SnapCapacity
    BY <2>1 DEF IInv, MemoryIsBounded, AgentAnswers, camera, meeting, queues, socket, history
  <2> QED BY <2>4, <2>5, QuietStep
<1>2. CASE LoseStep
  <2>1. TypeOK'
    BY <1>2 DEF IInv, TypeOK, LoseStep, camera, meeting, queues, socket, history
  <2>2. /\ UNCHANGED <<meeting, encoder, branch, pending, frame, offered, todo>>
        /\ readerHand' = readerHand \/ readerHand'.at # "send"
        /\ Len(queue') <= QueueCapacity /\ Len(snapQueue') <= SnapCapacity
    BY <1>2 DEF IInv, TypeOK, MemoryIsBounded, LoseStep, camera, meeting, queues, socket, history, Ack, Idle
  <2> QED BY <2>1, <2>2, QuietStep
<1>3. CASE ReadFrame
  <2>1. Head(acks) \in Ack /\ Tail(acks) \in Seq(Ack) /\ Head(acks).at # "send"
    <3>1. acks \in Seq(Ack) /\ acks # <<>>
      BY <1>3 DEF IInv, TypeOK, ReadFrame
    <3>2. Head(acks) \in Ack /\ Tail(acks) \in Seq(Ack)
      BY <3>1, FirstAndRest
    <3> QED BY <3>2 DEF Ack
  <2>2. TypeOK'
    BY <1>3, <2>1 DEF IInv, TypeOK, ReadFrame, camera, meeting, queues, socket, history
  <2>3. /\ UNCHANGED <<meeting, encoder, branch, pending, frame, offered, todo>>
        /\ readerHand'.at # "send"
        /\ Len(queue') <= QueueCapacity /\ Len(snapQueue') <= SnapCapacity
    BY <1>3, <2>1 DEF IInv, MemoryIsBounded, ReadFrame, camera, meeting, queues, socket, history
  <2> QED BY <2>2, <2>3, QuietStep
<1>4. CASE Misread
  <2>1. Tail(acks) \in Seq(Ack)
    <3>1. acks \in Seq(Ack) /\ acks # <<>>
      BY <1>4 DEF IInv, TypeOK, Misread
    <3> QED BY <3>1, FirstAndRest
  <2>2. TypeOK'
    BY <1>4, <2>1 DEF IInv, TypeOK, Misread, camera, meeting, queues, socket, history
  <2>3. /\ UNCHANGED <<meeting, encoder, branch, pending, frame, offered, todo, readerHand>>
        /\ Len(queue') <= QueueCapacity /\ Len(snapQueue') <= SnapCapacity
    BY <1>4 DEF IInv, MemoryIsBounded, Misread, camera, meeting, queues, socket, history
  <2> QED BY <2>2, <2>3, QuietStep
<1>5. CASE ReaderCloses
  <2>1. TypeOK'
    BY <1>5, NoAcks DEF IInv, TypeOK, ReaderCloses, Close, camera, meeting, queues, socket, history
  <2>2. /\ UNCHANGED <<meeting, encoder, branch, pending, frame, offered, todo>>
        /\ readerHand' = readerHand \/ readerHand'.at # "send"
        /\ Len(queue') <= QueueCapacity /\ Len(snapQueue') <= SnapCapacity
    BY <1>5 DEF IInv, TypeOK, MemoryIsBounded, ReaderCloses, Close, camera, meeting, queues, socket, history, Ack, Idle
  <2> QED BY <2>1, <2>2, QuietStep
<1>6. CASE ReaderEnds
  <2>1. TypeOK'
    BY <1>6 DEF IInv, TypeOK, ReaderEnds, camera, meeting, queues, socket, history
  <2>2. /\ UNCHANGED <<meeting, encoder, branch, pending, frame, offered, todo>>
        /\ readerHand' = readerHand \/ readerHand'.at # "send"
        /\ Len(queue') <= QueueCapacity /\ Len(snapQueue') <= SnapCapacity
    BY <1>6 DEF IInv, TypeOK, MemoryIsBounded, ReaderEnds, camera, meeting, queues, socket, history, Ack, Idle
  <2> QED BY <2>1, <2>2, QuietStep
<1>7. CASE StopTransport
  <2>1. TypeOK'
    BY <1>7, NoAcks DEF IInv, TypeOK, StopTransport, Close, camera, meeting, queues, socket, history
  <2>2. /\ UNCHANGED <<meeting, encoder, branch, pending, frame, offered, todo>>
        /\ readerHand' = readerHand \/ readerHand'.at # "send"
        /\ Len(queue') <= QueueCapacity /\ Len(snapQueue') <= SnapCapacity
    BY <1>7 DEF IInv, TypeOK, MemoryIsBounded, StopTransport, Close, camera, meeting, queues, socket, history, Ack, Idle
  <2> QED BY <2>1, <2>2, QuietStep
<1>8. CASE Stopped
  <2>1. TypeOK'
    BY <1>8 DEF IInv, TypeOK, Stopped, vars, camera, meeting, queues, socket, history
  <2>2. /\ UNCHANGED <<meeting, encoder, branch, pending, frame, offered, todo>>
        /\ readerHand' = readerHand \/ readerHand'.at # "send"
        /\ Len(queue') <= QueueCapacity /\ Len(snapQueue') <= SnapCapacity
    BY <1>8 DEF IInv, TypeOK, MemoryIsBounded, Stopped, vars, camera, meeting, queues, socket, history, Ack, Idle
  <2> QED BY <2>1, <2>2, QuietStep
<1> QED BY <1>1, <1>2, <1>3, <1>4, <1>5, <1>6, <1>7, <1>8

\* The work on a buffer: two steps per object, and each object once.
LEMMA StepsOK ==
  ASSUME NEW s \in Sources, NEW f \in 1..Frames[s], NEW n \in 1..MaxObjects
  PROVE  LET t == Steps(s, f, n)
         IN  /\ t \in Seq(Step)
             /\ \A i \in DOMAIN t : t[i].msg[1] = s /\ t[i].msg[2] = f
             /\ \A i, j \in DOMAIN t :
                  t[i].do = "register" /\ t[j].do = "register" /\ t[i].msg = t[j].msg => i = j
<1> DEFINE t == Steps(s, f, n)
<1>1. n \in Nat /\ MaxObjects \in Nat /\ n <= MaxObjects /\ n >= 1
  BY BridgeAssumption
<1>2. \A o \in 1..n : <<s, f, o>> \in Message
  <2> SUFFICES ASSUME NEW o \in 1..n PROVE <<s, f, o>> \in Message
    OBVIOUS
  <2>1. o \in 1..MaxObjects
    BY <1>1
  <2> QED BY <2>1 DEF Message
<1>3. /\ DOMAIN t = 1..(2 * n + 1)
      /\ \A i \in 1..(2 * n + 1) :
           t[i] = IF i > 2 * n THEN [do |-> "pass", msg |-> <<s, f, 1>>]
                  ELSE [do |-> IF i % 2 = 1 THEN "register" ELSE "enqueue",
                        msg |-> <<s, f, (i + 1) \div 2>>]
  BY DEF Steps
<1>4. \A i \in 1..(2 * n + 1) : i <= 2 * n => (i + 1) \div 2 \in 1..n
  BY <1>1
<1>5. 1 \in 1..n
  BY <1>1
<1>6. \A i \in 1..(2 * n + 1) : t[i] \in Step /\ t[i].msg[1] = s /\ t[i].msg[2] = f
  <2> SUFFICES ASSUME NEW i \in 1..(2 * n + 1)
               PROVE  t[i] \in Step /\ t[i].msg[1] = s /\ t[i].msg[2] = f
    OBVIOUS
  <2> HIDE DEF t
  <2>1. CASE i > 2 * n
    <3>1. t[i] = [do |-> "pass", msg |-> <<s, f, 1>>]
      BY <1>3, <2>1
    <3> QED BY <1>2, <1>5, <3>1 DEF Step
  <2>2. CASE ~ (i > 2 * n)
    <3>1. (i + 1) \div 2 \in 1..n
      BY <1>1, <1>4, <2>2
    <3> DEFINE o == (i + 1) \div 2
               w == IF i % 2 = 1 THEN "register" ELSE "enqueue"
    <3>2. t[i] = [do |-> w, msg |-> <<s, f, o>>] /\ o \in 1..n
      BY <1>3, <2>2, <3>1
    <3>3. w \in {"register", "enqueue", "pass"}
      OBVIOUS
    <3> HIDE DEF o, w
    <3> QED BY <1>2, <3>2, <3>3 DEF Step
  <2> QED BY <2>1, <2>2
<1>7. t \in Seq(Step)
  <2>1. 2 * n + 1 \in Nat
    BY <1>1
  <2> QED BY <1>6, <2>1 DEF Steps
<1>8. ASSUME NEW i \in 1..(2 * n + 1), NEW j \in 1..(2 * n + 1),
             t[i].do = "register", t[j].do = "register", t[i].msg = t[j].msg
      PROVE  i = j
  <2> HIDE DEF t
  <2>1. \A l \in 1..(2 * n + 1) : t[l].do = "register" =>
           /\ l % 2 = 1 /\ t[l].msg[3] = (l + 1) \div 2 /\ l <= 2 * n
    <3> SUFFICES ASSUME NEW l \in 1..(2 * n + 1), t[l].do = "register"
                 PROVE  /\ l % 2 = 1 /\ t[l].msg[3] = (l + 1) \div 2 /\ l <= 2 * n
      OBVIOUS
    <3> DEFINE o == (l + 1) \div 2
               odd == l % 2 = 1
    <3>1. t[l] = IF l > 2 * n THEN [do |-> "pass", msg |-> <<s, f, 1>>]
                 ELSE [do |-> IF odd THEN "register" ELSE "enqueue", msg |-> <<s, f, o>>]
      BY <1>3
    <3> HIDE DEF o, odd
    <3>2. ~ (l > 2 * n) /\ odd /\ t[l].msg[3] = o
      BY <3>1
    <3> QED BY <1>1, <3>2 DEF o, odd
  <2>2. i % 2 = 1 /\ j % 2 = 1 /\ (i + 1) \div 2 = (j + 1) \div 2
    BY <1>8, <2>1
  <2> QED BY <1>1, <2>2
<1> QED BY <1>3, <1>6, <1>7, <1>8

LEMMA HandleBufferStep ==
  ASSUME IInv, NEW s \in Sources, NEW n \in 1..MaxObjects, HandleBuffer(s, n)
  PROVE  IInv'
<1> DEFINE f == frame[s] + 1
<1>1. /\ frame[s] \in Nat /\ Frames[s] \in Nat /\ f \in 1..Frames[s] /\ f \in Nat
      /\ frame' = [frame EXCEPT ![s] = f]
      /\ frame' \in [Sources -> Nat] /\ \A x \in Sources : frame'[x] <= Frames[x]
  <2>1. frame[s] \in Nat /\ Frames[s] \in Nat /\ frame[s] < Frames[s]
    BY BridgeAssumption DEF IInv, TypeOK, HandleBuffer
  <2>2. f \in 1..Frames[s] /\ f \in Nat
    BY <2>1
  <2>3. frame' = [frame EXCEPT ![s] = f]
    BY DEF HandleBuffer
  <2> QED BY <2>1, <2>2, <2>3 DEF IInv, TypeOK
<1>2. todo' = Steps(s, f, n)
  BY DEF HandleBuffer
<1> HIDE DEF f
<1>3. /\ todo' \in Seq(Step)
      /\ \A i \in DOMAIN todo' : todo'[i].msg[1] = s /\ todo'[i].msg[2] = f
      /\ \A i, j \in DOMAIN todo' :
           /\ todo'[i].do = "register" /\ todo'[j].do = "register"
           /\ todo'[i].msg = todo'[j].msg
           => i = j
  BY <1>1, <1>2, StepsOK
<1>4. /\ UNCHANGED <<byMessage, byFrame, encoder, branch, pending, queue, snapQueue,
                     readerHand, offered>>
  BY DEF HandleBuffer, camera, meeting, queues, socket, history
<1>5. TypeOK'
  BY <1>1, <1>3 DEF IInv, TypeOK, HandleBuffer, camera, meeting, queues, socket, history
<1>6. Rendezvous' /\ Live' = Live
  BY <1>4, MeetingKept DEF IInv, meeting
<1>7. Offers' = Offers /\ Known' = Known
  <2>1. Offers' = Offers
    BY <1>4 DEF Offers
  <2> QED BY <1>6, <2>1 DEF Known, EventsOf
<1>8. Known \subseteq Message
  BY OffersTyped, OfferFields, Lookup DEF IInv, Known, EventsOf
<1>9. \A m \in Known : m[1] \in Sources /\ m[2] \in Nat /\ m[2] <= frame[m[1]]
  BY <1>8, FrameOfMessage DEF IInv, Seen
<1>10. Seen'
  <2>1. \A m \in Known : m[2] <= frame'[m[1]]
    <3> SUFFICES ASSUME NEW m \in Known PROVE m[2] <= frame'[m[1]]
      OBVIOUS
    <3>1. CASE m[1] = s
      <4>1. frame'[m[1]] = f /\ f = frame[s] + 1 /\ m[2] \in Nat /\ m[2] <= frame[s]
        BY <1>1, <1>9, <3>1 DEF IInv, TypeOK, f
      <4> QED BY <1>1, <4>1
    <3>2. CASE m[1] # s
      BY <1>1, <1>9, <3>2 DEF IInv, TypeOK
    <3> QED BY <3>1, <3>2
  <2>2. \A i \in DOMAIN todo' : todo'[i].msg[2] <= frame'[todo'[i].msg[1]]
    BY <1>1, <1>3, SMTT(30) DEF IInv, TypeOK
  <2> QED BY <1>7, <2>1, <2>2 DEF Seen
<1>11. StillNew'
  <2>1. ASSUME NEW i \in DOMAIN todo' PROVE todo'[i].msg \notin Known
    <3>1. todo'[i].msg[1] = s /\ todo'[i].msg[2] = frame[s] + 1
      BY <1>3 DEF f
    <3> QED BY <1>1, <1>9, <3>1
  <2> QED BY <1>3, <1>7, <2>1 DEF StillNew
<1>12. MemoryIsBounded'
  BY <1>4, <1>6 DEF IInv, MemoryIsBounded
<1>13. InStep' /\ OwnBranch'
  BY <1>4 DEF IInv, InStep, OwnBranch
<1>14. SnapshotShowsItsDetection'
  BY <1>7 DEF IInv, SnapshotShowsItsDetection
<1>15. OneSnapshotPerEvent' /\ OfferedIsGone'
  BY <1>4, <1>6 DEF IInv, OneSnapshotPerEvent, OfferedIsGone, EventsOf
<1> QED BY <1>5, <1>6, <1>10, <1>11, <1>12, <1>13, <1>14, <1>15 DEF IInv

LEMMA EnqueueStep ==
  ASSUME IInv, Enqueue
  PROVE  IInv'
<1>1. /\ todo \in Seq(Step) /\ todo # <<>> /\ todo' = Tail(todo)
      /\ queue' = Put(queue, Head(todo).msg, QueueCapacity)
  BY DEF IInv, TypeOK, Enqueue
<1>2. Head(todo) \in Step /\ Tail(todo) \in Seq(Step)
  BY <1>1, FirstAndRest
<1>3. queue' \in Seq(Message) /\ Len(queue') <= QueueCapacity
  <2>1. Head(todo).msg \in Message
    BY <1>2 DEF Step
  <2> QED BY <1>1, <2>1, PutOK, BridgeAssumption DEF IInv, TypeOK, MemoryIsBounded
<1>4. TypeOK'
  BY <1>1, <1>2, <1>3 DEF IInv, TypeOK, Enqueue, camera, meeting, queues, socket, history
<1>5. /\ UNCHANGED <<meeting, encoder, branch, pending, frame, offered, readerHand>>
      /\ Len(snapQueue') <= SnapCapacity
  BY DEF IInv, MemoryIsBounded, Enqueue, camera, meeting, queues, socket, history
<1> QED BY <1>1, <1>3, <1>4, <1>5, QuietStep

LEMMA LiveMessages ==
  ASSUME Rendezvous
  PROVE  Live \subseteq Message /\ \A k \in 0..Len(byMessage) : Expired(k) \subseteq Message
BY Lookup, Fresh

\* The rendezvous' part of the shape of the state.
LEMMA RendezvousTyped ==
  ASSUME Rendezvous
  PROVE  /\ byMessage \in Seq(Candidates)
         /\ DOMAIN byFrame \subseteq Shot /\ byFrame \in [DOMAIN byFrame -> Message]
         /\ Len(byMessage) <= MaxRetained
         /\ \A key \in DOMAIN byFrame : byFrame[key] \in Live /\ FrameOf(byFrame[key]) = key
BY DEF Rendezvous, Leads

\* The evidence that moves on is that of candidates, and none is added.
LEMMA EvidenceStep ==
  ASSUME IInv, TypeOK', Rendezvous', Live' \subseteq Live, InStep', OwnBranch',
         \A s \in Sources : Len(branch'[s]) <= BranchCapacity /\ Len(pending'[s]) <= 1,
         Len(queue') <= QueueCapacity, Len(snapQueue') <= SnapCapacity, frame' = frame,
         \/ todo' = todo
         \/ todo # <<>> /\ todo' = Tail(todo)
         \/ todo' = <<>>,
         NEW new, Offers' \subseteq Offers \cup new,
         \A o \in new : o.event \in Known /\ o.jpeg = FrameOf(o.event),
         OneSnapshotPerEvent', OfferedIsGone'
  PROVE  IInv'
<1>1. Known' \subseteq Known
  BY DEF Known, EventsOf
<1>2. Seen' /\ StillNew'
  <2>1. Seen /\ StillNew /\ todo \in Seq(Step)
    BY DEF IInv, TypeOK
  <2> QED BY <1>1, <2>1, ProbeStep
<1>3. MemoryIsBounded'
  <2>1. /\ Len(byMessage') <= MaxRetained
        /\ \A key \in DOMAIN byFrame' : byFrame'[key] \in Live' /\ FrameOf(byFrame'[key]) = key
    BY DEF Rendezvous, Leads
  <2> QED BY <2>1 DEF MemoryIsBounded
<1>4. SnapshotShowsItsDetection'
  BY DEF IInv, SnapshotShowsItsDetection
<1> QED BY <1>2, <1>3, <1>4 DEF IInv

LEMMA PassBufferStep ==
  ASSUME IInv, PassBuffer
  PROVE  IInv'
<1> DEFINE shot == FrameOf(Head(todo).msg)
           s == shot[1]
           q == branch[s]
           r == IF Len(q) < BranchCapacity THEN q ELSE Tail(q)
<1>1. Head(todo) \in Step
  <2>1. todo \in Seq(Step) /\ todo # <<>>
    BY DEF IInv, TypeOK, PassBuffer
  <2> QED BY <2>1, FirstAndRest
<1>2. shot \in Shot /\ s \in Sources
  <2>1. Head(todo).msg \in Message
    BY <1>1 DEF Step
  <2>2. shot[1] = Head(todo).msg[1]
    BY DEF FrameOf
  <2> QED BY <2>1, <2>2, FrameOfMessage
<1>3. branch' = [branch EXCEPT ![s] = Append(r, shot)] /\ todo' = <<>>
  BY DEF PassBuffer
<1>4. /\ UNCHANGED <<byMessage, byFrame, encoder, pending, frame, queue, snapQueue,
                     readerHand, offered>>
  BY DEF PassBuffer, camera, meeting, queues, socket, history
<1>5. /\ q \in Seq(Shot) /\ Len(q) <= BranchCapacity /\ Len(q) \in Nat
      /\ \A i \in DOMAIN q : q[i][1] = s
  BY <1>2, Elements DEF IInv, TypeOK, MemoryIsBounded, OwnBranch
<1> HIDE DEF shot, q, s
<1>6. /\ r \in Seq(Shot) /\ Len(r) + 1 <= BranchCapacity
      /\ \A i \in DOMAIN r : r[i][1] = s
  <2>1. CASE Len(q) < BranchCapacity
    BY <1>5, <2>1, BridgeAssumption
  <2>2. CASE ~ (Len(q) < BranchCapacity)
    <3>1. q # <<>> /\ r = Tail(q) /\ Len(q) = BranchCapacity
      BY <1>5, <2>2, BridgeAssumption
    <3>2. /\ Tail(q) \in Seq(Shot) /\ Len(Tail(q)) = Len(q) - 1
          /\ \A i \in DOMAIN Tail(q) : i + 1 \in DOMAIN q /\ Tail(q)[i] = q[i + 1]
      BY <1>5, <3>1, FirstAndRest
    <3> QED BY <1>5, <3>1, <3>2, BridgeAssumption
  <2> QED BY <2>1, <2>2
<1> HIDE DEF r
<1> DEFINE t == Append(r, shot)
<1>7. /\ t \in Seq(Shot) /\ Len(t) <= BranchCapacity
      /\ \A i \in DOMAIN t : t[i][1] = s
  <2>1. /\ t \in Seq(Shot) /\ Len(t) = Len(r) + 1 /\ Len(r) \in Nat
        /\ \A i \in 1..Len(r) : t[i] = r[i]
        /\ t[Len(r) + 1] = shot
    BY <1>2, <1>6, AppendProperties
  <2>2. DOMAIN t = 1..(Len(r) + 1) /\ DOMAIN r = 1..Len(r)
    BY <1>6, <2>1, Elements
  <2> HIDE DEF t
  <2>3. shot[1] = s
    BY DEF s
  <2>4. \A i \in 1..(Len(r) + 1) : i \in 1..Len(r) \/ i = Len(r) + 1
    BY <2>1
  <2> QED BY <1>6, <2>1, <2>2, <2>3, <2>4
<1> HIDE DEF t
<1>8. branch' = [branch EXCEPT ![s] = t]
  BY <1>3 DEF t
<1>9. TypeOK'
  <2>1. branch' \in [Sources -> Seq(Shot)]
    BY <1>7, <1>8 DEF IInv, TypeOK
  <2>2. todo' \in Seq(Step)
    BY <1>3, EmptySeq
  <2> QED BY <2>1, <2>2, SMTT(30) DEF IInv, TypeOK, PassBuffer, camera, meeting, queues, socket, history
<1>10. Rendezvous' /\ Live' = Live
  BY <1>4, MeetingKept DEF IInv, meeting
<1>11. Offers' = Offers
  BY <1>4 DEF Offers
<1>12. InStep' /\ OwnBranch'
  BY <1>4, <1>7, <1>8 DEF IInv, InStep, OwnBranch, TypeOK
<1>13. OneSnapshotPerEvent' /\ OfferedIsGone'
  BY <1>4, <1>10 DEF IInv, OneSnapshotPerEvent, OfferedIsGone, EventsOf
<1>14. \A x \in Sources : Len(branch'[x]) <= BranchCapacity /\ Len(pending'[x]) <= 1
  BY <1>4, <1>7, <1>8 DEF IInv, MemoryIsBounded, TypeOK
<1>15. Len(queue') <= QueueCapacity /\ Len(snapQueue') <= SnapCapacity
  BY <1>4 DEF IInv, MemoryIsBounded
<1> DEFINE none == {}
<1>16. Offers' \subseteq Offers \cup none
  BY <1>11
<1>17. \A o \in none : o.event \in Known /\ o.jpeg = FrameOf(o.event)
  OBVIOUS
<1>18. Live' \subseteq Live /\ frame' = frame
  BY <1>4, <1>10
<1> HIDE DEF none
<1> QED BY <1>3, <1>9, <1>10, <1>12, <1>13, <1>14, <1>15, <1>16, <1>17, <1>18, EvidenceStep

LEMMA OnCandidateStep ==
  ASSUME IInv, OnCandidate
  PROVE  IInv'
<1> DEFINE m == Head(todo).msg
<1>1. /\ todo \in Seq(Step) /\ todo # <<>> /\ Head(todo).do = "register"
      /\ todo' = Tail(todo)
  BY DEF IInv, TypeOK, OnCandidate
<1>2. /\ Head(todo) \in Step /\ Head(todo) = todo[1] /\ 1 \in DOMAIN todo
      /\ Tail(todo) \in Seq(Step)
  BY <1>1, FirstAndRest
<1>3. m \in Message /\ m \notin Known
  BY <1>1, <1>2 DEF Step, IInv, StillNew
<1>4. PICK k \in 0..Len(byMessage) : RecordDetection(m, k)
  BY DEF OnCandidate
<1>5. /\ UNCHANGED <<life, frame, branch, encoder, pending, queue, snapQueue, sender, hand,
                     reader, readerHand, connected, synced, inbox, acks, splits,
                     accepted, captured, offered>>
  BY DEF OnCandidate, camera, meeting, queues, socket, history
<1> HIDE DEF m
<1>6. m \notin Live
  BY <1>3 DEF Known
<1>7. Rendezvous' /\ Live' \subseteq Live \cup {m}
  BY <1>3, <1>4, <1>6, RecordEffect DEF IInv
<1>8. forfeited' \subseteq Message
  <2> DEFINE cs == Append(FreshOnes(k), Candidate(m))
             gone == {cs[i].msg : i \in 1..Overflow(cs)}
  <2>1. forfeited' = forfeited \cup Expired(k) \cup gone
    BY <1>4 DEF RecordDetection
  <2>2. FreshOnes(k) \in Seq(Candidates) /\ Candidate(m) \in Candidates
    BY <1>3, Fresh DEF IInv, Candidate, Candidates
  <2>3. cs \in Seq(Candidates) /\ Len(cs) \in Nat
    BY <2>2, AppendProperties, Elements
  <2> HIDE DEF cs
  <2>4. \A i \in 1..Overflow(cs) : i \in DOMAIN cs
    BY <2>3, Elements, BridgeAssumption DEF Overflow
  <2>5. gone \subseteq Message
    BY <2>3, <2>4, Elements, CandidateFields
  <2> QED BY <2>1, <2>5, LiveMessages DEF IInv, TypeOK
<1>9. TypeOK'
  <2>1. /\ byMessage' \in Seq(Candidates)
        /\ DOMAIN byFrame' \subseteq Shot /\ byFrame' \in [DOMAIN byFrame' -> Message]
    BY <1>7 DEF Rendezvous, Leads
  <2>2. todo' \in Seq(Step)
    BY <1>1, <1>2
  <2> QED BY <1>5, <1>8, <2>1, <2>2 DEF IInv, TypeOK
<1>10. Offers' = Offers
  BY <1>5 DEF Offers
<1>11. Known' \subseteq Known \cup {m}
  BY <1>7, <1>10 DEF Known, EventsOf
<1>12. Seen' /\ StillNew'
  <2>1. Seen /\ StillNew /\ frame' = frame
    BY <1>5 DEF IInv
  <2> QED BY <1>1, <1>11, <2>1, ProbeStep DEF m
<1>13. MemoryIsBounded'
  <2>1. /\ Len(byMessage') <= MaxRetained
        /\ \A key \in DOMAIN byFrame' : byFrame'[key] \in Live' /\ FrameOf(byFrame'[key]) = key
    BY <1>7 DEF Rendezvous, Leads
  <2> QED BY <1>5, <2>1 DEF IInv, MemoryIsBounded
<1>14. InStep' /\ OwnBranch'
  BY <1>5 DEF IInv, InStep, OwnBranch
<1>15. SnapshotShowsItsDetection'
  BY <1>10 DEF IInv, SnapshotShowsItsDetection
<1>16. /\ m \notin EventsOf(offered)
       /\ \A s \in Sources : encoder[s].at = "send" => encoder[s].event # m
       /\ readerHand.at = "send" => readerHand.event # m
  BY <1>3, WhoOffers DEF Known, EventsOf
<1>17. OneSnapshotPerEvent'
  BY <1>5, <1>7, <1>16 DEF IInv, OneSnapshotPerEvent
<1>18. OfferedIsGone'
  BY <1>5, <1>7, <1>16 DEF IInv, OfferedIsGone, EventsOf
<1> QED BY <1>7, <1>9, <1>12, <1>13, <1>14, <1>15, <1>17, <1>18 DEF IInv

LEMMA GateBufferStep ==
  ASSUME IInv, NEW s \in Sources, GateBuffer(s)
  PROVE  IInv'
<1> DEFINE shot == Head(branch[s])
<1>1. /\ branch[s] \in Seq(Shot) /\ branch[s] # <<>> /\ encoder[s] = Idle
      /\ branch' = [branch EXCEPT ![s] = Tail(branch[s])]
  BY DEF IInv, TypeOK, GateBuffer
<1>2. /\ shot \in Shot /\ shot[1] = s /\ Tail(branch[s]) \in Seq(Shot)
      /\ Len(Tail(branch[s])) <= BranchCapacity
      /\ \A i \in DOMAIN Tail(branch[s]) : Tail(branch[s])[i][1] = s
  <2>1. /\ Head(branch[s]) \in Shot /\ Head(branch[s]) = branch[s][1] /\ 1 \in DOMAIN branch[s]
        /\ Tail(branch[s]) \in Seq(Shot) /\ Len(Tail(branch[s])) = Len(branch[s]) - 1
        /\ \A i \in DOMAIN Tail(branch[s]) :
              i + 1 \in DOMAIN branch[s] /\ Tail(branch[s])[i] = branch[s][i + 1]
    BY <1>1, FirstAndRest
  <2>2. Len(branch[s]) \in Nat /\ Len(branch[s]) <= BranchCapacity
    BY <1>1, Elements DEF IInv, MemoryIsBounded
  <2>3. \A i \in DOMAIN branch[s] : branch[s][i][1] = s
    BY DEF IInv, OwnBranch
  <2> QED BY <2>1, <2>2, <2>3, BridgeAssumption
<1>3. PICK k \in 0..Len(byMessage) :
        LET ms == Matching(GateKey(shot)) \ Expired(k)
            found == {m \in ms : ~CandidateOf(m).matched}
        IN /\ forfeited' = forfeited \cup Expired(k)
           /\ IF found = {}
              THEN Expire(k) /\ UNCHANGED <<encoder, pending>>
              ELSE /\ \E m \in found :
                        Update([CandidateOf(m) EXCEPT !.matched = TRUE], k)
                   /\ encoder' = [encoder EXCEPT ![s] = [at |-> "encode", shot |-> shot]]
                   /\ pending' = [pending EXCEPT ![s] = Append(@, shot)]
  BY DEF GateBuffer
<1>4. UNCHANGED <<life, frame, todo, queue, snapQueue, sender, hand, reader,
                     readerHand, connected, synced, inbox, acks, splits,
                     accepted, captured, offered>>
  BY DEF GateBuffer, camera, meeting, queues, socket, history
<1> HIDE DEF shot
<1>5. Rendezvous' /\ Live' \subseteq Live
  <2>1. CASE Expire(k)
    BY <2>1, ExpireEffect DEF IInv
  <2>2. ASSUME NEW m \in Matching(GateKey(shot)) \ Expired(k),
               Update([CandidateOf(m) EXCEPT !.matched = TRUE], k)
        PROVE  Rendezvous' /\ Live' \subseteq Live
    <3> DEFINE c == [CandidateOf(m) EXCEPT !.matched = TRUE]
    <3>1. m \in Live
      BY <2>2, Matched DEF IInv
    <3>2. /\ CandidateOf(m) \in Candidates /\ CandidateOf(m).msg = m
          /\ OwnPicture(CandidateOf(m))
      BY <3>1, Lookup DEF IInv
    <3>3. c \in Candidates /\ c.msg = m /\ OwnPicture(c)
      BY <3>2 DEF Candidates, OwnPicture
    <3> HIDE DEF c
    <3>4. Update(c, k) /\ c.msg \in Live \ Expired(k)
      BY <2>2, <3>1, <3>3 DEF c
    <3> QED BY <3>3, <3>4, UpdateEffect DEF IInv
  <2> QED BY <1>3, <2>1, <2>2
<1>6. \/ encoder' = encoder /\ pending' = pending
      \/ /\ encoder' = [encoder EXCEPT ![s] = [at |-> "encode", shot |-> shot]]
         /\ pending' = [pending EXCEPT ![s] = <<shot>>]
  <2>1. pending[s] = <<>>
    <3>1. encoder[s].at # "encode"
      BY <1>1 DEF Idle
    <3> QED BY <3>1 DEF IInv, InStep
  <2>2. Append(pending[s], shot) = <<shot>>
    BY <2>1
  <2> QED BY <1>3, <2>2
<1>7. /\ encoder' \in [Sources -> {Idle} \cup Encode \cup Offer]
      /\ pending' \in [Sources -> Seq(Shot)]
      /\ \A x \in Sources : encoder'[x] = encoder[x] \/ encoder'[x].at = "encode"
  <2>1. [at |-> "encode", shot |-> shot] \in Encode /\ <<shot>> \in Seq(Shot)
    BY <1>2 DEF Encode
  <2>2. /\ encoder \in [Sources -> {Idle} \cup Encode \cup Offer]
        /\ pending \in [Sources -> Seq(Shot)]
    BY DEF IInv, TypeOK
  <2>3. CASE encoder' = encoder /\ pending' = pending
    BY <2>2, <2>3
  <2>4. CASE /\ encoder' = [encoder EXCEPT ![s] = [at |-> "encode", shot |-> shot]]
             /\ pending' = [pending EXCEPT ![s] = <<shot>>]
    <3>1. /\ encoder' \in [Sources -> {Idle} \cup Encode \cup Offer]
          /\ pending' \in [Sources -> Seq(Shot)]
      BY <2>1, <2>2, <2>4
    <3>2. \A x \in Sources : encoder'[x] = encoder[x] \/ encoder'[x].at = "encode"
      BY <2>2, <2>4
    <3> QED BY <3>1, <3>2
  <2> QED BY <1>6, <2>3, <2>4
<1>8. branch' \in [Sources -> Seq(Shot)]
  BY <1>1, <1>2 DEF IInv, TypeOK
<1>9. TypeOK'
  <2>1. forfeited' \subseteq Message
    BY <1>3, LiveMessages DEF IInv, TypeOK
  <2>2. /\ byMessage' \in Seq(Candidates)
        /\ DOMAIN byFrame' \subseteq Shot /\ byFrame' \in [DOMAIN byFrame' -> Message]
    BY <1>5 DEF Rendezvous, Leads
  <2> QED BY <1>4, <1>7, <1>8, <2>1, <2>2 DEF IInv, TypeOK
<1>10. InStep'
  BY <1>6 DEF IInv, InStep, TypeOK
<1>11. OwnBranch'
  BY <1>1, <1>2, <1>6, SMTT(30) DEF IInv, OwnBranch, TypeOK
<1>12. \A x \in Sources : Len(branch'[x]) <= BranchCapacity /\ Len(pending'[x]) <= 1
  <2>1. \A x \in Sources : Len(branch[x]) <= BranchCapacity /\ Len(pending[x]) <= 1
    BY DEF IInv, MemoryIsBounded
  <2>2. \A x \in Sources : Len(branch'[x]) <= BranchCapacity
    BY <1>1, <1>2, <2>1 DEF IInv, TypeOK
  <2>3. Len(<<shot>>) = 1
    OBVIOUS
  <2>4. \A x \in Sources : pending'[x] = pending[x] \/ pending'[x] = <<shot>>
    BY <1>6 DEF IInv, TypeOK
  <2>5. ASSUME NEW x \in Sources PROVE Len(pending'[x]) <= 1
    <3>1. CASE pending'[x] = pending[x]
      BY <2>1, <3>1
    <3>2. CASE pending'[x] = <<shot>>
      <4>1. Len(pending'[x]) = 1
        BY <2>3, <3>2
      <4> QED BY <4>1
    <3> QED BY <2>4, <3>1, <3>2
  <2> QED BY <2>2, <2>5
<1>13. Len(queue') <= QueueCapacity /\ Len(snapQueue') <= SnapCapacity
  BY <1>4 DEF IInv, MemoryIsBounded
<1> DEFINE none == {}
<1>14. Offers' \subseteq Offers \cup none
  BY <1>4, <1>7 DEF Offers
<1>15. \A o \in none : o.event \in Known /\ o.jpeg = FrameOf(o.event)
  OBVIOUS
<1>16. OneSnapshotPerEvent' /\ OfferedIsGone'
  BY <1>4, <1>5, <1>7 DEF IInv, OneSnapshotPerEvent, OfferedIsGone, EventsOf
<1>17. todo' = todo /\ frame' = frame
  BY <1>4
<1> HIDE DEF none
<1> QED BY <1>5, <1>9, <1>10, <1>11, <1>12, <1>13, <1>14, <1>15, <1>16, <1>17, EvidenceStep

LEMMA NewSampleStep ==
  ASSUME IInv, NEW s \in Sources, NewSample(s)
  PROVE  IInv'
<1> DEFINE shot == encoder[s].shot
<1>1. /\ encoder[s] \in Encode /\ shot \in Shot /\ shot[1] = s
      /\ pending[s] = <<shot>> /\ SampleKey(s) = shot
      /\ pending' = [pending EXCEPT ![s] = <<>>]
  <2>1. encoder[s].at = "encode" /\ encoder[s] \in Encode
    BY EncoderHand DEF NewSample, IInv
  <2>2. shot \in Shot /\ shot[1] = s /\ pending[s] = <<shot>>
    BY <2>1 DEF Encode, IInv, InStep, OwnBranch
  <2>3. Tail(pending[s]) = <<>> /\ Head(pending[s]) = shot
    BY <2>2
  <2> QED BY <2>1, <2>2, <2>3 DEF NewSample, SampleKey
<1>2. PICK k \in 0..Len(byMessage) :
        LET ms == Matching(SampleKey(s)) \ Expired(k) IN
        /\ forfeited' = forfeited \cup Expired(k)
        /\ IF ms = {}
           THEN Expire(k) /\ encoder' = [encoder EXCEPT ![s] = Idle]
           ELSE \E m \in ms :
                  LET c == [CandidateOf(m) EXCEPT !.jpeg = shot]
                  IN /\ Arrive(c, k)
                     /\ encoder' = [encoder EXCEPT ![s] = Result(c)]
  BY DEF NewSample
<1>3. /\ UNCHANGED <<life, frame, todo, queue, snapQueue, sender, hand, reader,
                     readerHand, connected, synced, inbox, acks, splits,
                     branch, accepted, offered>>
      /\ captured' = captured \cup {shot}
  BY DEF NewSample, camera, meeting, queues, socket, history
<1> HIDE DEF shot
<1>4. /\ Rendezvous' /\ Live' \subseteq Live
      /\ \E e : /\ encoder' = [encoder EXCEPT ![s] = e]
              /\ \/ e = Idle
                 \/ /\ e \in Offer /\ e.event \in Live /\ e.event \notin Live'
                    /\ e.event[1] = s /\ e.jpeg = FrameOf(e.event)
  <2>1. CASE Matching(SampleKey(s)) \ Expired(k) = {}
    <3>1. Expire(k) /\ encoder' = [encoder EXCEPT ![s] = Idle]
      BY <1>2, <2>1
    <3> QED BY <3>1, ExpireEffect DEF IInv
  <2>2. CASE Matching(SampleKey(s)) \ Expired(k) # {}
    <3>1. PICK m \in Matching(shot) \ Expired(k) :
            /\ Arrive([CandidateOf(m) EXCEPT !.jpeg = shot], k)
            /\ encoder' = [encoder EXCEPT ![s] = Result([CandidateOf(m) EXCEPT !.jpeg = shot])]
      BY <1>1, <1>2, <2>2
    <3> DEFINE c == [CandidateOf(m) EXCEPT !.jpeg = shot]
    <3>2. m \in Live /\ FrameOf(m) = shot
      BY Matched DEF IInv
    <3>3. /\ CandidateOf(m) \in Candidates /\ CandidateOf(m).msg = m
      BY <3>2, Lookup DEF IInv
    <3>4. c \in Candidates /\ c.msg = m /\ OwnPicture(c)
      BY <1>1, <3>2, <3>3 DEF Candidates, OwnPicture
    <3>5. m[1] = s
      <4>1. FrameOf(m)[1] = m[1]
        BY DEF FrameOf
      <4> QED BY <1>1, <3>2, <4>1
    <3> HIDE DEF c
    <3>6. Arrive(c, k) /\ encoder' = [encoder EXCEPT ![s] = Result(c)]
      BY <3>1 DEF c
    <3>7. Rendezvous' /\ Live' \subseteq Live /\ (Complete(c) => m \notin Live')
      BY <3>2, <3>4, <3>6, ArriveEffect DEF IInv
    <3>8. CASE Complete(c)
      <4>1. /\ Result(c) \in Offer /\ Result(c).event = m /\ Result(c).jpeg = FrameOf(m)
        BY <3>4, <3>8, ResultOK
      <4> QED BY <3>2, <3>5, <3>6, <3>7, <3>8, <4>1
    <3>9. CASE ~ Complete(c)
      <4>1. Result(c) = Idle
        BY <3>4, <3>9, ResultOK
      <4> QED BY <3>6, <3>7, <4>1
    <3> QED BY <3>8, <3>9
  <2> QED BY <2>1, <2>2
<1>5. PICK e : /\ encoder' = [encoder EXCEPT ![s] = e]
               /\ \/ e = Idle
                  \/ /\ e \in Offer /\ e.event \in Live /\ e.event \notin Live'
                     /\ e.event[1] = s /\ e.jpeg = FrameOf(e.event)
  BY <1>4
<1>6. /\ encoder' \in [Sources -> {Idle} \cup Encode \cup Offer]
      /\ encoder'[s] = e /\ \A x \in Sources : x # s => encoder'[x] = encoder[x]
  BY <1>5 DEF IInv, TypeOK
<1>7. e.at # "encode" /\ (e.at = "send" => e \in Offer)
  BY <1>5, OfferFields DEF Idle
<1>8. TypeOK'
  <2>1. forfeited' \subseteq Message
    BY <1>2, LiveMessages DEF IInv, TypeOK
  <2>2. /\ byMessage' \in Seq(Candidates)
        /\ DOMAIN byFrame' \subseteq Shot /\ byFrame' \in [DOMAIN byFrame' -> Message]
    BY <1>4 DEF Rendezvous, Leads
  <2>3. pending' \in [Sources -> Seq(Shot)]
    BY <1>1, EmptySeq DEF IInv, TypeOK
  <2> QED BY <1>1, <1>3, <1>6, <2>1, <2>2, <2>3 DEF IInv, TypeOK
<1>9. InStep'
  BY <1>1, <1>6, <1>7 DEF IInv, InStep, TypeOK
<1>10. OwnBranch'
  BY <1>3, <1>5, <1>6, <1>7 DEF IInv, OwnBranch, Idle
<1>11. \A x \in Sources : Len(branch'[x]) <= BranchCapacity /\ Len(pending'[x]) <= 1
  BY <1>1, <1>3 DEF IInv, MemoryIsBounded, TypeOK
<1>12. Len(queue') <= QueueCapacity /\ Len(snapQueue') <= SnapCapacity
  BY <1>3 DEF IInv, MemoryIsBounded
<1> DEFINE new == IF e = Idle THEN {} ELSE {e}
<1>13. Offers' \subseteq Offers \cup new
  BY <1>3, <1>6 DEF Offers, Idle
<1>14. \A o \in new : o.event \in Known /\ o.jpeg = FrameOf(o.event)
  BY <1>5 DEF Known
<1>15. OneSnapshotPerEvent'
  <2>1. ASSUME NEW x \in Sources, encoder'[x].at = "send"
        PROVE  /\ encoder'[x].event \notin EventsOf(offered)
               /\ readerHand.at = "send" => readerHand.event # encoder'[x].event
               /\ encoder'[x].event \notin Live'
    <3>1. CASE x = s
      <4>1. encoder'[x] = e /\ e.event \in Live /\ e.event \notin Live'
        BY <1>5, <1>6, <2>1, <3>1 DEF Idle
      <4> QED BY <4>1 DEF IInv, OfferedIsGone, OneSnapshotPerEvent
    <3>2. CASE x # s
      BY <1>4, <1>6, <2>1, <3>2 DEF IInv, OneSnapshotPerEvent, EventsOf
    <3> QED BY <3>1, <3>2
  <2>2. readerHand.at = "send" =>
          readerHand.event \notin EventsOf(offered) /\ readerHand.event \notin Live'
    BY <1>4 DEF IInv, OneSnapshotPerEvent, EventsOf
  <2>3. readerHand' = readerHand /\ offered' = offered
    BY <1>3
  <2> QED BY <2>1, <2>2, <2>3 DEF OneSnapshotPerEvent, EventsOf
<1>16. OfferedIsGone'
  BY <1>3, <1>4 DEF IInv, OfferedIsGone, EventsOf
<1>17. todo' = todo /\ frame' = frame
  BY <1>3
<1> HIDE DEF new
<1> QED BY <1>4, <1>8, <1>9, <1>10, <1>11, <1>12, <1>13, <1>14, <1>15, <1>16, <1>17, EvidenceStep

LEMMA SampleFailsStep ==
  ASSUME IInv, NEW s \in Sources, SampleFails(s)
  PROVE  IInv'
<1>1. /\ pending[s] = <<encoder[s].shot>> /\ pending' = [pending EXCEPT ![s] = <<>>]
      /\ encoder' = [encoder EXCEPT ![s] = Idle]
  <2>1. pending[s] = <<encoder[s].shot>> /\ pending' = [pending EXCEPT ![s] = Tail(@)]
    BY DEF IInv, InStep, SampleFails
  <2>2. Tail(pending[s]) = <<>>
    BY <2>1
  <2> QED BY <2>1, <2>2 DEF SampleFails
<1>2. UNCHANGED <<frame, todo, branch, byMessage, byFrame, queue, snapQueue, readerHand, offered>>
  BY DEF SampleFails, camera, meeting, queues, socket, history
<1>3. /\ encoder' \in [Sources -> {Idle} \cup Encode \cup Offer]
      /\ encoder'[s] = Idle /\ Idle.at = "idle"
      /\ \A x \in Sources : x # s => encoder'[x] = encoder[x]
  BY <1>1 DEF IInv, TypeOK, Idle
<1>4. TypeOK'
  <2>1. pending' \in [Sources -> Seq(Shot)]
    BY <1>1, EmptySeq DEF IInv, TypeOK
  <2> QED BY <1>3, <2>1 DEF IInv, TypeOK, SampleFails, camera, meeting, queues, socket, history
<1>5. Rendezvous' /\ Live' = Live
  BY <1>2, MeetingKept DEF IInv, meeting
<1>6. InStep' /\ OwnBranch'
  BY <1>1, <1>2, <1>3 DEF IInv, InStep, OwnBranch, TypeOK
<1>7. \A x \in Sources : Len(branch'[x]) <= BranchCapacity /\ Len(pending'[x]) <= 1
  BY <1>1, <1>2 DEF IInv, MemoryIsBounded, TypeOK
<1>8. Len(queue') <= QueueCapacity /\ Len(snapQueue') <= SnapCapacity
  BY <1>2 DEF IInv, MemoryIsBounded
<1> DEFINE none == {}
<1>9. Offers' \subseteq Offers \cup none
  BY <1>2, <1>3 DEF Offers
<1>10. \A o \in none : o.event \in Known /\ o.jpeg = FrameOf(o.event)
  OBVIOUS
<1>11. OneSnapshotPerEvent' /\ OfferedIsGone'
  BY <1>2, <1>3, <1>5 DEF IInv, OneSnapshotPerEvent, OfferedIsGone, EventsOf
<1>12. todo' = todo /\ frame' = frame /\ Live' \subseteq Live
  BY <1>2, <1>5
<1> HIDE DEF none
<1> QED BY <1>4, <1>5, <1>6, <1>7, <1>8, <1>9, <1>10, <1>11, <1>12, EvidenceStep

LEMMA SendFromBranchStep ==
  ASSUME IInv, NEW s \in Sources, SendFromBranch(s)
  PROVE  IInv'
<1> DEFINE e == encoder[s]
<1>1. /\ e \in Offer /\ e.at = "send" /\ offered' = offered \cup {e}
      /\ encoder' = [encoder EXCEPT ![s] = Idle]
  BY EncoderHand DEF IInv, SendFromBranch
<1>2. snapQueue' \in Seq(Offer) /\ Len(snapQueue') <= SnapCapacity
  BY <1>1, PutOK, BridgeAssumption DEF IInv, TypeOK, MemoryIsBounded, SendFromBranch
<1>3. UNCHANGED <<frame, todo, branch, pending, byMessage, byFrame, queue, readerHand>>
  BY DEF SendFromBranch, camera, meeting, queues, socket, history
<1>4. /\ encoder' \in [Sources -> {Idle} \cup Encode \cup Offer]
      /\ encoder'[s] = Idle /\ Idle.at = "idle"
      /\ \A x \in Sources : x # s => encoder'[x] = encoder[x]
  BY <1>1 DEF IInv, TypeOK, Idle
<1>5. TypeOK'
  BY <1>1, <1>2, <1>4 DEF IInv, TypeOK, SendFromBranch, camera, meeting, queues, socket, history
<1>6. Rendezvous' /\ Live' = Live
  BY <1>3, MeetingKept DEF IInv, meeting
<1>7. InStep' /\ OwnBranch'
  BY <1>1, <1>3, <1>4 DEF IInv, InStep, OwnBranch, TypeOK
<1>8. \A x \in Sources : Len(branch'[x]) <= BranchCapacity /\ Len(pending'[x]) <= 1
  BY <1>3 DEF IInv, MemoryIsBounded
<1>9. Len(queue') <= QueueCapacity
  BY <1>3 DEF IInv, MemoryIsBounded
<1> DEFINE none == {}
<1>10. Offers' \subseteq Offers \cup none
  BY <1>1, <1>3, <1>4 DEF Offers
<1>11. \A o \in none : o.event \in Known /\ o.jpeg = FrameOf(o.event)
  OBVIOUS
<1>12. EventsOf(offered') = EventsOf(offered) \cup {e.event}
  BY <1>1 DEF EventsOf
<1>13. /\ e.event \notin EventsOf(offered) /\ e.event \notin Live /\ e.event[1] = s
       /\ readerHand.at = "send" => readerHand.event # e.event
  BY <1>1 DEF IInv, OneSnapshotPerEvent, OwnBranch, EventsOf
<1> HIDE DEF e
<1>14. OneSnapshotPerEvent'
  <2>1. ASSUME NEW x \in Sources, encoder'[x].at = "send"
        PROVE  /\ encoder'[x].event \notin EventsOf(offered')
               /\ readerHand.at = "send" => readerHand.event # encoder'[x].event
               /\ encoder'[x].event \notin Live'
    <3>1. x # s /\ encoder'[x] = encoder[x]
      BY <1>4, <2>1
    <3>2. encoder[x].event[1] = x
      BY <2>1, <3>1 DEF IInv, OwnBranch
    <3> QED BY <1>6, <1>12, <1>13, <2>1, <3>1, <3>2 DEF IInv, OneSnapshotPerEvent, EventsOf
  <2>2. readerHand.at = "send" =>
          readerHand.event \notin EventsOf(offered') /\ readerHand.event \notin Live'
    BY <1>6, <1>12, <1>13 DEF IInv, OneSnapshotPerEvent, EventsOf
  <2>3. readerHand' = readerHand
    BY <1>3
  <2> QED BY <2>1, <2>2, <2>3 DEF OneSnapshotPerEvent, EventsOf
<1>15. OfferedIsGone'
  BY <1>6, <1>12, <1>13 DEF IInv, OfferedIsGone, EventsOf
<1>16. todo' = todo /\ frame' = frame /\ Live' \subseteq Live
  BY <1>3, <1>6
<1> HIDE DEF none
<1> QED BY <1>2, <1>5, <1>6, <1>7, <1>8, <1>9, <1>10, <1>11, <1>14, <1>15, <1>16, EvidenceStep

LEMMA SendFromReaderStep ==
  ASSUME IInv, SendFromReader
  PROVE  IInv'
<1>1. /\ readerHand \in Offer /\ readerHand.at = "send"
      /\ offered' = offered \cup {readerHand}
      /\ readerHand' = Idle /\ Idle.at = "idle" /\ reader' = "idle"
  BY ReaderHand DEF IInv, SendFromReader, Idle
<1>2. snapQueue' \in Seq(Offer) /\ Len(snapQueue') <= SnapCapacity
  BY <1>1, PutOK, BridgeAssumption DEF IInv, TypeOK, MemoryIsBounded, SendFromReader
<1>3. UNCHANGED <<frame, todo, branch, pending, encoder, byMessage, byFrame, queue>>
  BY DEF SendFromReader, camera, meeting, queues, socket, history
<1>4. TypeOK'
  BY <1>1, <1>2 DEF IInv, TypeOK, SendFromReader, camera, meeting, queues, socket, history
<1>5. Rendezvous' /\ Live' = Live
  BY <1>3, MeetingKept DEF IInv, meeting
<1>6. InStep' /\ OwnBranch'
  BY <1>3 DEF IInv, InStep, OwnBranch
<1>7. \A x \in Sources : Len(branch'[x]) <= BranchCapacity /\ Len(pending'[x]) <= 1
  BY <1>3 DEF IInv, MemoryIsBounded
<1>8. Len(queue') <= QueueCapacity
  BY <1>3 DEF IInv, MemoryIsBounded
<1> DEFINE none == {}
<1>9. Offers' \subseteq Offers \cup none
  BY <1>1, <1>3 DEF Offers
<1>10. \A o \in none : o.event \in Known /\ o.jpeg = FrameOf(o.event)
  OBVIOUS
<1>11. EventsOf(offered') = EventsOf(offered) \cup {readerHand.event}
  BY <1>1 DEF EventsOf
<1>12. OneSnapshotPerEvent' /\ OfferedIsGone'
  <2>1. /\ readerHand.event \notin Live
        /\ \A s \in Sources : encoder[s].at = "send" => encoder[s].event # readerHand.event
    BY <1>1 DEF IInv, OneSnapshotPerEvent
  <2> QED BY <1>1, <1>3, <1>5, <1>11, <2>1 DEF IInv, OneSnapshotPerEvent, OfferedIsGone, EventsOf
<1>13. todo' = todo /\ frame' = frame /\ Live' \subseteq Live
  BY <1>3, <1>5
<1> HIDE DEF none
<1> QED BY <1>2, <1>4, <1>5, <1>6, <1>7, <1>8, <1>9, <1>10, <1>12, <1>13, EvidenceStep

LEMMA SubmitAckStep ==
  ASSUME IInv, SubmitAck
  PROVE  IInv'
<1> DEFINE m == readerHand.msg
<1>1. readerHand \in Ack /\ m \in Message /\ readerHand.at = "ack"
  BY ReaderHand DEF IInv, SubmitAck, Ack
<1>2. PICK k \in 0..Len(byMessage) :
        /\ forfeited' = forfeited \cup Expired(k)
        /\ accepted' = IF readerHand.outcome = "accepted" THEN accepted \cup {m}
                                                          ELSE accepted
        /\ CASE m \notin Live \ Expired(k) -> Expire(k) /\ readerHand' = Idle
             [] m \in Live \ Expired(k) /\ readerHand.outcome # "accepted" ->
                  Drop(m, k) /\ readerHand' = Idle
             [] OTHER ->
                  LET c == [CandidateOf(m) EXCEPT !.acked = TRUE]
                  IN Arrive(c, k) /\ readerHand' = Result(c)
  BY DEF SubmitAck
<1>3. /\ UNCHANGED <<life, frame, todo, branch, encoder, pending, queue, snapQueue, sender,
                     hand, connected, synced, inbox, acks, splits, captured, offered>>
      /\ reader' = IF readerHand'.at = "send" THEN "send" ELSE "idle"
  BY DEF SubmitAck, camera, meeting, queues, socket, history
<1> HIDE DEF m
<1>4. /\ Rendezvous' /\ Live' \subseteq Live
      /\ \/ readerHand' = Idle
         \/ /\ readerHand' \in Offer /\ readerHand'.event \in Live
            /\ readerHand'.event \notin Live' /\ readerHand'.jpeg = FrameOf(readerHand'.event)
  <2>1. CASE m \notin Live \ Expired(k)
    <3>1. Expire(k) /\ readerHand' = Idle
      BY <1>2, <2>1
    <3> QED BY <3>1, ExpireEffect DEF IInv
  <2>2. CASE m \in Live \ Expired(k) /\ readerHand.outcome # "accepted"
    <3>1. Drop(m, k) /\ readerHand' = Idle
      BY <1>2, <2>2
    <3> QED BY <3>1, DropEffect DEF IInv
  <2>3. CASE m \in Live \ Expired(k) /\ readerHand.outcome = "accepted"
    <3> DEFINE c == [CandidateOf(m) EXCEPT !.acked = TRUE]
    <3>1. Arrive(c, k) /\ readerHand' = Result(c)
      BY <1>2, <2>3
    <3>2. /\ CandidateOf(m) \in Candidates /\ CandidateOf(m).msg = m
          /\ OwnPicture(CandidateOf(m))
      BY <2>3, Lookup DEF IInv
    <3>3. c \in Candidates /\ c.msg = m /\ OwnPicture(c)
      BY <3>2 DEF Candidates, OwnPicture
    <3> HIDE DEF c
    <3>4. Rendezvous' /\ Live' \subseteq Live /\ (Complete(c) => m \notin Live')
      BY <2>3, <3>1, <3>3, ArriveEffect DEF IInv
    <3>5. CASE Complete(c)
      BY <2>3, <3>1, <3>3, <3>4, <3>5, ResultOK
    <3>6. CASE ~ Complete(c)
      BY <3>1, <3>3, <3>4, <3>6, ResultOK
    <3> QED BY <3>5, <3>6
  <2> QED BY <2>1, <2>2, <2>3
<1>5. TypeOK'
  <2>1. forfeited' \subseteq Message /\ accepted' \subseteq Message
    BY <1>1, <1>2, LiveMessages DEF IInv, TypeOK
  <2>2. /\ byMessage' \in Seq(Candidates)
        /\ DOMAIN byFrame' \subseteq Shot /\ byFrame' \in [DOMAIN byFrame' -> Message]
    BY <1>4 DEF Rendezvous, Leads
  <2>3. \/ readerHand' = Idle /\ reader' = "idle"
        \/ readerHand' \in Offer /\ reader' = "send"
    BY <1>3, <1>4, OfferFields DEF Idle
  <2> QED BY <1>3, <2>1, <2>2, <2>3 DEF IInv, TypeOK
<1>6. InStep' /\ OwnBranch'
  BY <1>3 DEF IInv, InStep, OwnBranch
<1>7. \A x \in Sources : Len(branch'[x]) <= BranchCapacity /\ Len(pending'[x]) <= 1
  BY <1>3 DEF IInv, MemoryIsBounded
<1>8. Len(queue') <= QueueCapacity /\ Len(snapQueue') <= SnapCapacity
  BY <1>3 DEF IInv, MemoryIsBounded
<1> DEFINE e == readerHand'
           new == IF e = Idle THEN {} ELSE {e}
<1>9. Offers' \subseteq Offers \cup new
  BY <1>3 DEF Offers, Idle
<1>10. \A o \in new : o.event \in Known /\ o.jpeg = FrameOf(o.event)
  BY <1>4 DEF Known
<1>11. OneSnapshotPerEvent'
  <2>1. readerHand'.at = "send" => readerHand'.event \in Live /\ readerHand'.event \notin Live'
    BY <1>4 DEF Idle
  <2>2. readerHand'.at = "send" => readerHand'.event \notin EventsOf(offered)
    BY <2>1 DEF IInv, OfferedIsGone
  <2>3. ASSUME NEW x \in Sources, encoder[x].at = "send"
        PROVE  /\ encoder[x].event \notin EventsOf(offered)
               /\ readerHand'.at = "send" => readerHand'.event # encoder[x].event
               /\ encoder[x].event \notin Live'
    BY <1>4, <2>1, <2>3 DEF IInv, OneSnapshotPerEvent, EventsOf
  <2>4. encoder' = encoder /\ offered' = offered
    BY <1>3
  <2> QED BY <2>1, <2>2, <2>3, <2>4 DEF OneSnapshotPerEvent, EventsOf
<1>12. OfferedIsGone'
  BY <1>3, <1>4 DEF IInv, OfferedIsGone, EventsOf
<1>13. todo' = todo /\ frame' = frame
  BY <1>3
<1> HIDE DEF new
<1> QED BY <1>4, <1>5, <1>6, <1>7, <1>8, <1>9, <1>10, <1>11, <1>12, <1>13, EvidenceStep

LEMMA StopPipelineStep ==
  ASSUME IInv, StopPipeline
  PROVE  IInv'
<1>1. /\ branch' = [s \in Sources |-> <<>>] /\ pending' = [s \in Sources |-> <<>>]
      /\ byMessage' = <<>> /\ byFrame' = [key \in {} |-> NoShot]
      /\ forfeited' = forfeited \cup Live
      /\ encoder' = encoder /\ \A s \in Sources : encoder[s] = Idle
  BY DEF StopPipeline
<1>2. UNCHANGED <<frame, todo, queue, snapQueue, readerHand, offered>>
  BY DEF StopPipeline, camera, meeting, queues, socket, history
<1>3. /\ DOMAIN byFrame' = {} /\ Cands' = {} /\ Live' = {}
      /\ byMessage' \in Seq(Candidates) /\ Len(byMessage') = 0 /\ DOMAIN byMessage' = {}
      /\ byFrame' \in [DOMAIN byFrame' -> Message]
  <2>1. byMessage' = <<>> /\ DOMAIN byFrame' = {} /\ DOMAIN byMessage' = {}
    BY <1>1
  <2>2. ToSet(byMessage') = {}
    BY <2>1 DEF ToSet
  <2> QED BY <1>1, <2>1, <2>2 DEF Cands, Live
<1>4. TypeOK'
  <2>1. branch' \in [Sources -> Seq(Shot)] /\ pending' \in [Sources -> Seq(Shot)]
    BY <1>1, EmptySeq
  <2>2. forfeited' \subseteq Message
    BY <1>1, LiveMessages DEF IInv, TypeOK
  <2> QED BY <1>3, <2>1, <2>2 DEF IInv, TypeOK, StopPipeline, camera, meeting, queues, socket, history
<1>5. Rendezvous'
  <2>1. Leads(byFrame', Live')
    BY <1>3 DEF Leads
  <2> QED BY <1>3, <2>1, BridgeAssumption DEF Rendezvous, Unique
<1>6. InStep' /\ OwnBranch'
  BY <1>1 DEF InStep, OwnBranch, Idle
<1>7. \A x \in Sources : Len(branch'[x]) <= BranchCapacity /\ Len(pending'[x]) <= 1
  BY <1>1, BridgeAssumption
<1>8. Len(queue') <= QueueCapacity /\ Len(snapQueue') <= SnapCapacity
  BY <1>2 DEF IInv, MemoryIsBounded
<1> DEFINE none == {}
<1>9. Offers' \subseteq Offers \cup none
  BY <1>1, <1>2 DEF Offers
<1>10. \A o \in none : o.event \in Known /\ o.jpeg = FrameOf(o.event)
  OBVIOUS
<1>11. OneSnapshotPerEvent' /\ OfferedIsGone'
  BY <1>1, <1>2, <1>3 DEF IInv, OneSnapshotPerEvent, OfferedIsGone, EventsOf
<1>12. todo' = todo /\ frame' = frame /\ Live' \subseteq Live
  BY <1>2, <1>3
<1> HIDE DEF none
<1> QED BY <1>4, <1>5, <1>6, <1>7, <1>8, <1>9, <1>10, <1>11, <1>12, EvidenceStep

LEMMA StutterStep ==
  ASSUME IInv, UNCHANGED vars
  PROVE  IInv'
<1>1. TypeOK'
  BY DEF IInv, TypeOK, vars, camera, meeting, queues, socket, history
<1>2. /\ UNCHANGED <<meeting, encoder, branch, pending, frame, offered, todo, readerHand>>
      /\ Len(queue') <= QueueCapacity /\ Len(snapQueue') <= SnapCapacity
  BY DEF IInv, MemoryIsBounded, vars, camera, meeting, queues, socket, history
<1> QED BY <1>1, <1>2, QuietStep

LEMMA NextIInv == IInv /\ [Next]_vars => IInv'
<1> SUFFICES ASSUME IInv, [Next]_vars PROVE IInv'
  OBVIOUS
<1>1. CASE \E s \in Sources, n \in 1..MaxObjects : HandleBuffer(s, n)
  BY <1>1, HandleBufferStep
<1>2. CASE Probe
  BY <1>2, OnCandidateStep, EnqueueStep, PassBufferStep DEF Probe
<1>3. CASE \E s \in Sources : BranchOf(s)
  BY <1>3, GateBufferStep, NewSampleStep, SampleFailsStep, SendFromBranchStep DEF BranchOf
<1>4. CASE Sender
  BY <1>4, SenderStep
<1>5. CASE \E m \in Message, o \in {"accepted", "declined"} : AgentAnswers(m, o)
  BY <1>5, ReaderStep
<1>6. CASE LoseStep
  BY <1>6, ReaderStep
<1>7. CASE Reader
  BY <1>7, ReaderStep, SubmitAckStep, SendFromReaderStep DEF Reader
<1>8. CASE StopPipeline \/ StopTransport \/ Stopped
  BY <1>8, ReaderStep, StopPipelineStep
<1>9. CASE UNCHANGED vars
  BY <1>9, StutterStep
<1> QED BY <1>1, <1>2, <1>3, <1>4, <1>5, <1>6, <1>7, <1>8, <1>9 DEF Next

LEMMA Inductive == Spec => []IInv
BY InitIInv, NextIInv, PTL DEF Spec

-----------------------------------------------------------------------------
(* The theorems *)

\* Every thread, queue and candidate of the Bridge keeps its shape.
THEOREM TypeCorrect == Spec => []TypeOK
<1>1. IInv => TypeOK
  BY DEF IInv
<1> QED BY <1>1, Inductive, PTL

\* However long the Bridge runs and whatever the Agent leaves unanswered, the
\* rendezvous, its index, the two queues and the branches keep to their bounds.
THEOREM MemoryStaysBounded == Spec => []MemoryIsBounded
<1>1. IInv => MemoryIsBounded
  BY DEF IInv
<1> QED BY <1>1, Inductive, PTL

\* Whatever the branch queues leak, the appsink fails to map, and the order of
\* picture and acknowledgement: a snapshot is sent under the event of its frame.
THEOREM SnapshotsShowTheirDetection == Spec => []SnapshotShowsItsDetection
<1>1. IInv => SnapshotShowsItsDetection
  BY DEF IInv
<1> QED BY <1>1, Inductive, PTL

\* The branch threads and the reader never offer the same event twice.
THEOREM SnapshotsAreSentOnce == Spec => []OneSnapshotPerEvent
<1>1. IInv => OneSnapshotPerEvent
  BY DEF IInv
<1> QED BY <1>1, Inductive, PTL
=============================================================================
