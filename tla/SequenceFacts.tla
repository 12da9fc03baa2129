---------------------------- MODULE SequenceFacts ----------------------------
(***************************************************************************)
(* What Append, Tail, Reverse, RemoveAt and an update of one element make  *)
(* of a sequence, in terms of its length, its elements and their set.      *)
(* These are the operations the models apply to the ingest queue, to the   *)
(* list of Bridge processes and to the running components.                 *)
(***************************************************************************)
EXTENDS Integers, Sequences, SequencesExt, SequenceTheorems, TLAPS

IsSeq(q) == q \in Seq(ToSet(q))

\* A sequence is a function on 1..Len, and its set is the set of its values.
LEMMA Elements ==
  ASSUME NEW q, IsSeq(q)
  PROVE  /\ Len(q) \in Nat /\ DOMAIN q = 1..Len(q) /\ q = [i \in 1..Len(q) |-> q[i]]
         /\ \A x : x \in ToSet(q) <=> \E i \in DOMAIN q : x = q[i]
<1>1. q \in Seq(ToSet(q))
  BY DEF IsSeq
<1>2. Len(q) \in Nat /\ DOMAIN q = 1..Len(q) /\ q = [i \in 1..Len(q) |-> q[i]]
  BY <1>1
<1> QED BY <1>2 DEF ToSet

\* A function on 1..n is a sequence of length n.
LEMMA SeqIs ==
  ASSUME NEW n \in Nat, NEW q, q = [i \in 1..n |-> q[i]]
  PROVE  IsSeq(q) /\ Len(q) = n
<1>1. DOMAIN q = 1..n
  OBVIOUS
<1>2. \A i \in 1..n : q[i] \in ToSet(q)
  BY <1>1 DEF ToSet
<1> DEFINE S == ToSet(q)
<1> HIDE DEF S
<1>3. q \in Seq(S)
  BY <1>2, IsASeq DEF S
<1>4. Len(q) = n
  BY <1>1, <1>3
<1> QED BY <1>3, <1>4 DEF IsSeq, S

\* A sequence over any set is one over its own elements.
LEMMA Subsequence ==
  ASSUME NEW S, NEW q \in Seq(S)
  PROVE  IsSeq(q)
<1>1. Len(q) \in Nat /\ q = [i \in 1..Len(q) |-> q[i]]
  OBVIOUS
<1> QED BY <1>1, SeqIs

\* The empty sequence has no element.
LEMMA EmptyIsSeq ==
  ASSUME NEW q, q = <<>>
  PROVE  IsSeq(q) /\ Len(q) = 0 /\ DOMAIN q = {} /\ ToSet(q) = {}
<1>1. q \in Seq({}) /\ Len(q) = 0
  BY EmptySeq
<1>2. IsSeq(q)
  BY <1>1, Subsequence
<1>3. DOMAIN q = {}
  BY <1>1, <1>2, Elements
<1> QED BY <1>1, <1>2, <1>3, Elements

\* Append adds one element, at the end.
LEMMA Appended ==
  ASSUME NEW q, IsSeq(q), NEW x
  PROVE  /\ IsSeq(Append(q, x)) /\ Len(Append(q, x)) = Len(q) + 1
         /\ DOMAIN Append(q, x) = 1..(Len(q) + 1)
         /\ \A i \in 1..Len(q) : Append(q, x)[i] = q[i]
         /\ Append(q, x)[Len(q) + 1] = x
         /\ \A y : y \in ToSet(Append(q, x)) <=> y = x \/ y \in ToSet(q)
<1> DEFINE S == ToSet(q) \cup {x}
           t == Append(q, x)
<1>1. q \in Seq(ToSet(q)) /\ Len(q) \in Nat /\ DOMAIN q = 1..Len(q)
  BY Elements DEF IsSeq
<1>2. q \in Seq(S)
  BY <1>1
<1>3. x \in S
  OBVIOUS
<1> HIDE DEF S
<1>4. /\ t \in Seq(S) /\ Len(t) = Len(q) + 1
      /\ \A i \in 1..Len(q) : t[i] = q[i]
      /\ t[Len(q) + 1] = x
  BY <1>2, <1>3, AppendProperties
<1> HIDE DEF t
<1>5. IsSeq(t)
  BY <1>4, Subsequence
<1>6. DOMAIN t = 1..(Len(q) + 1)
  BY <1>4, <1>5, Elements
<1>7. ASSUME NEW y PROVE y \in ToSet(t) <=> y = x \/ y \in ToSet(q)
  <2>1. \A i \in 1..(Len(q) + 1) : i \in 1..Len(q) \/ i = Len(q) + 1
    BY <1>1
  <2>2. \A i \in 1..Len(q) : i \in 1..(Len(q) + 1)
    BY <1>1
  <2>3. Len(q) + 1 \in 1..(Len(q) + 1)
    BY <1>1
  <2>4. ASSUME NEW i \in DOMAIN t, y = t[i] PROVE y = x \/ y \in ToSet(q)
    BY <1>1, <1>4, <1>6, <2>1, <2>4, Elements
  <2>5. ASSUME NEW i \in DOMAIN q, y = q[i] PROVE y \in ToSet(t)
    BY <1>1, <1>4, <1>5, <1>6, <2>2, <2>5, Elements
  <2>6. x \in ToSet(t)
    BY <1>4, <1>5, <1>6, <2>3, Elements
  <2> QED BY <1>5, <2>4, <2>5, <2>6, Elements
<1> QED BY <1>4, <1>5, <1>6, <1>7 DEF t

\* Head is one of the elements, Tail holds no other.
LEMMA FirstAndRest ==
  ASSUME NEW q, IsSeq(q), q # <<>>
  PROVE  /\ Head(q) \in ToSet(q) /\ IsSeq(Tail(q)) /\ Len(Tail(q)) = Len(q) - 1
         /\ ToSet(Tail(q)) \subseteq ToSet(q)
<1> DEFINE S == ToSet(q)
<1>1. q \in Seq(S)
  BY DEF IsSeq
<1> HIDE DEF S
<1>2. Head(q) \in S /\ Tail(q) \in Seq(S) /\ Len(Tail(q)) = Len(q) - 1
  BY <1>1, HeadTailProperties
<1>3. IsSeq(Tail(q))
  BY <1>2, Subsequence
<1>4. ToSet(Tail(q)) \subseteq S
  <2> DEFINE t == Tail(q)
  <2>1. t \in Seq(S) /\ IsSeq(t)
    BY <1>2, <1>3
  <2> HIDE DEF t
  <2>2. \A i \in DOMAIN t : t[i] \in S
    BY <2>1
  <2>3. ToSet(t) \subseteq S
    BY <2>2 DEF ToSet
  <2> QED BY <2>3 DEF t
<1> QED BY <1>2, <1>3, <1>4 DEF S

\* EXCEPT changes one element and no length.
LEMMA OneChanged ==
  ASSUME NEW q, IsSeq(q), NEW i, NEW x
  PROVE  LET t == [q EXCEPT ![i] = x]
         IN  /\ IsSeq(t) /\ Len(t) = Len(q) /\ DOMAIN t = DOMAIN q
             /\ \A j \in DOMAIN q : t[j] = IF j = i THEN x ELSE q[j]
<1> DEFINE t == [q EXCEPT ![i] = x]
<1>1. Len(q) \in Nat /\ DOMAIN q = 1..Len(q)
  BY Elements
<1>2. /\ t = [j \in 1..Len(q) |-> IF j = i THEN x ELSE q[j]] /\ DOMAIN t = 1..Len(q)
      /\ \A j \in DOMAIN q : t[j] = IF j = i THEN x ELSE q[j]
  BY <1>1
<1> HIDE DEF t
<1>3. t = [j \in 1..Len(q) |-> t[j]]
  BY <1>2
<1>4. IsSeq(t) /\ Len(t) = Len(q)
  BY <1>1, <1>3, SeqIs
<1> QED BY <1>1, <1>2, <1>4 DEF t

\* Tail moves every element one place forward.
LEMMA RestMoves ==
  ASSUME NEW q, IsSeq(q), q # <<>>
  PROVE  LET t == Tail(q)
         IN  /\ IsSeq(t) /\ Len(t) = Len(q) - 1 /\ DOMAIN t = 1..(Len(q) - 1)
             /\ 1 \in DOMAIN q /\ Head(q) = q[1]
             /\ \A i \in DOMAIN t : i + 1 \in DOMAIN q /\ t[i] = q[i + 1]
<1> DEFINE S == ToSet(q)
           t == Tail(q)
<1>1. q \in Seq(S) /\ DOMAIN q = 1..Len(q) /\ Len(q) \in Nat
  BY Elements DEF IsSeq
<1> HIDE DEF S
<1>2. /\ Head(q) \in S /\ t \in Seq(S) /\ Len(t) = Len(q) - 1
      /\ \A i \in 1..(Len(q) - 1) : t[i] = q[i + 1]
  BY <1>1, HeadTailProperties
<1>3. IsSeq(t)
  BY <1>2, Subsequence
<1> HIDE DEF t
<1>4. DOMAIN t = 1..(Len(q) - 1)
  BY <1>2, <1>3, Elements
<1>5. Len(q) > 0
  BY <1>1, EmptySeq
<1>6. 1 \in DOMAIN q /\ Head(q) = q[1]
  BY <1>1, <1>5
<1> QED BY <1>1, <1>2, <1>3, <1>4, <1>6 DEF t

\* Reverse keeps the elements and turns their order round.
LEMMA Reversed ==
  ASSUME NEW q, IsSeq(q)
  PROVE  LET t == Reverse(q)
         IN  /\ IsSeq(t) /\ Len(t) = Len(q) /\ DOMAIN t = DOMAIN q
             /\ \A i \in DOMAIN q : Len(q) - i + 1 \in DOMAIN q /\ t[i] = q[Len(q) - i + 1]
             /\ \A x : x \in ToSet(t) <=> x \in ToSet(q)
<1> DEFINE t == Reverse(q)
<1>1. Len(q) \in Nat /\ DOMAIN q = 1..Len(q)
  BY Elements
<1>2. t = [i \in 1..Len(q) |-> q[(Len(q) - i) + 1]]
  BY DEF Reverse
<1> HIDE DEF t
<1>3. t = [i \in 1..Len(q) |-> t[i]]
  BY <1>2
<1>4. IsSeq(t) /\ Len(t) = Len(q)
  BY <1>1, <1>3, SeqIs
<1>5. \A i \in DOMAIN q : Len(q) - i + 1 \in DOMAIN q /\ t[i] = q[Len(q) - i + 1]
  BY <1>1, <1>2
<1>6. DOMAIN t = DOMAIN q
  BY <1>1, <1>2
<1>7. ASSUME NEW x PROVE x \in ToSet(t) <=> x \in ToSet(q)
  <2>1. \A i \in DOMAIN q : Len(q) - (Len(q) - i + 1) + 1 = i
    BY <1>1
  <2>2. ASSUME NEW i \in DOMAIN q, x = q[i] PROVE x \in ToSet(t)
    <3>1. Len(q) - i + 1 \in DOMAIN t /\ t[Len(q) - i + 1] = q[i]
      BY <1>5, <1>6, <2>1
    <3> QED BY <1>4, <2>2, <3>1, Elements
  <2>3. ASSUME NEW i \in DOMAIN t, x = t[i] PROVE x \in ToSet(q)
    BY <1>5, <1>6, <2>3, Elements
  <2> QED BY <1>4, <2>2, <2>3, Elements
<1> QED BY <1>4, <1>5, <1>6, <1>7 DEF t

\* RemoveAt takes one element out and keeps the others in their order.
LEMMA Removed ==
  ASSUME NEW q, IsSeq(q), NEW i \in DOMAIN q
  PROVE  LET t == RemoveAt(q, i)
         IN  /\ IsSeq(t) /\ Len(t) = Len(q) - 1 /\ DOMAIN t = 1..(Len(q) - 1)
             /\ \A j \in DOMAIN t : /\ j \in DOMAIN q /\ j + 1 \in DOMAIN q
                                   /\ t[j] = IF j < i THEN q[j] ELSE q[j + 1]
             /\ \A j \in DOMAIN q : j # i => q[j] \in ToSet(t)
             /\ ToSet(t) \subseteq ToSet(q)
<1> DEFINE S == ToSet(q)
           a == SubSeq(q, 1, i - 1)
           b == SubSeq(q, i + 1, Len(q))
           t == a \o b
<1>1. /\ Len(q) \in Nat /\ DOMAIN q = 1..Len(q) /\ i \in 1..Len(q)
      /\ \A j \in 1..Len(q) : q[j] \in S
  BY Elements
<1> HIDE DEF S
<1>2. a \in Seq(S) /\ Len(a) = i - 1 /\ \A j \in 1..(i - 1) : a[j] = q[j]
  <2>1. \A j \in 1..(i - 1) : q[j] \in S
    BY <1>1
  <2>2. 1 \in Int /\ i - 1 \in Int
    BY <1>1
  <2> HIDE DEF a
  <2>3. /\ a \in Seq(S)
        /\ Len(a) = IF 1 <= i - 1 THEN (i - 1) - 1 + 1 ELSE 0
        /\ \A j \in 1 .. (i - 1) - 1 + 1 : a[j] = q[1 + j - 1]
    BY <2>1, <2>2, SubSeqProperties DEF a
  <2>4. (i - 1) - 1 + 1 = i - 1 /\ \A j \in 1..(i - 1) : 1 + j - 1 = j
    BY <1>1
  <2>5. Len(a) = i - 1
    BY <1>1, <2>3
  <2> QED BY <2>3, <2>4, <2>5
<1>3. b \in Seq(S) /\ Len(b) = Len(q) - i /\ \A j \in 1..(Len(q) - i) : b[j] = q[i + j]
  <2>1. \A j \in (i + 1)..Len(q) : q[j] \in S
    BY <1>1
  <2>2. i + 1 \in Int /\ Len(q) \in Int
    BY <1>1
  <2> HIDE DEF b
  <2>3. /\ b \in Seq(S)
        /\ Len(b) = IF i + 1 <= Len(q) THEN Len(q) - (i + 1) + 1 ELSE 0
        /\ \A j \in 1 .. Len(q) - (i + 1) + 1 : b[j] = q[(i + 1) + j - 1]
    BY <2>1, <2>2, SubSeqProperties, SMTT(30) DEF b
  <2>4. Len(q) - (i + 1) + 1 = Len(q) - i /\ \A j \in 1..(Len(q) - i) : (i + 1) + j - 1 = i + j
    BY <1>1
  <2>5. Len(b) = Len(q) - i
    BY <1>1, <2>3
  <2> QED BY <2>3, <2>4, <2>5
<1> HIDE DEF a, b
<1>4. /\ t \in Seq(S) /\ Len(t) = Len(q) - 1
      /\ \A j \in 1..(Len(q) - 1) : t[j] = IF j < i THEN q[j] ELSE q[j + 1]
  <2>1. /\ t \in Seq(S) /\ Len(t) = Len(a) + Len(b)
        /\ \A j \in 1 .. Len(a) + Len(b) : t[j] = IF j <= Len(a) THEN a[j] ELSE b[j - Len(a)]
    BY <1>2, <1>3, ConcatProperties
  <2>2. Len(a) + Len(b) = Len(q) - 1
    BY <1>1, <1>2, <1>3
  <2>3. ASSUME NEW j \in 1..(Len(q) - 1) PROVE t[j] = IF j < i THEN q[j] ELSE q[j + 1]
    <3>1. t[j] = IF j <= i - 1 THEN a[j] ELSE b[j - (i - 1)]
      BY <1>2, <2>1, <2>2
    <3>2. CASE j < i
      <4>1. j <= i - 1 /\ j \in 1..(i - 1)
        BY <1>1, <3>2
      <4> QED BY <1>2, <3>1, <3>2, <4>1
    <3>3. CASE ~ (j < i)
      <4>1. /\ ~ (j <= i - 1) /\ j - (i - 1) \in 1..(Len(q) - i)
            /\ i + (j - (i - 1)) = j + 1
        BY <1>1, <3>3
      <4>2. b[j - (i - 1)] = q[i + (j - (i - 1))]
        BY <1>3, <4>1
      <4> QED BY <3>1, <3>3, <4>1, <4>2
    <3> QED BY <3>2, <3>3
  <2> QED BY <2>1, <2>2, <2>3
<1>5. t = RemoveAt(q, i)
  BY DEF RemoveAt, a, b
<1> HIDE DEF t
<1>6. IsSeq(t)
  BY <1>4, Subsequence
<1>7. DOMAIN t = 1..(Len(q) - 1)
  BY <1>4, <1>6, Elements
<1>8. \A j \in DOMAIN t : /\ j \in DOMAIN q /\ j + 1 \in DOMAIN q
                         /\ t[j] = IF j < i THEN q[j] ELSE q[j + 1]
  BY <1>1, <1>4, <1>7
<1>9. ASSUME NEW j \in DOMAIN q, j # i PROVE q[j] \in ToSet(t)
  <2>1. CASE j < i
    <3>1. j \in DOMAIN t /\ t[j] = q[j]
      BY <1>1, <1>7, <1>8, <2>1
    <3> QED BY <1>6, <3>1, Elements
  <2>2. CASE j > i
    <3>1. j - 1 \in DOMAIN t /\ ~ (j - 1 < i) /\ (j - 1) + 1 = j
      BY <1>1, <1>7, <2>2
    <3>2. t[j - 1] = q[j]
      BY <1>8, <3>1
    <3> QED BY <1>6, <3>1, <3>2, Elements
  <2> QED BY <1>1, <1>9, <2>1, <2>2
<1>10. ToSet(t) \subseteq ToSet(q)
  <2> SUFFICES ASSUME NEW x \in ToSet(t) PROVE x \in ToSet(q)
    OBVIOUS
  <2>1. PICK j \in DOMAIN t : x = t[j]
    BY <1>6, Elements
  <2>2. \E k \in DOMAIN q : x = q[k]
    BY <1>8, <2>1
  <2> QED BY <2>2, Elements
<1> QED BY <1>4, <1>5, <1>6, <1>7, <1>8, <1>9, <1>10
=============================================================================
