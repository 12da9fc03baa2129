---------------------- MODULE OperationalRuntimeProofs ----------------------
(***************************************************************************)
(* Proofs about OperationalRuntime, for every list of components that the  *)
(* factories compose and every bound on the faults: its type, that no      *)
(* Bridge lives without a bound socket, and that what has finished         *)
(* stopping holds nothing, both with the exceptions the properties state.  *)
(*                                                                         *)
(* The two properties are about the end of a pass; the invariant says what *)
(* holds at each of its awaits.  A component is out once it is not in      *)
(* Left, and from then on it is Stopped: a pass goes through all that is   *)
(* tracked, and a component leaves the tracked ones only when its stop has *)
(* gone far enough.  Progress says how far that is for the component being *)
(* stopped.  Because ingest comes first in a start it comes last in a      *)
(* pass, when everything else that a pass began with is Stopped: that is   *)
(* why the listener may be closed.  That each component in the list is     *)
(* another one is used when one leaves: it must not still be in the rest.  *)
(*                                                                         *)
(* The one thing that need not be over in time is the Bridge of a          *)
(* configuration task that died: its stop raises, and BridgeLeft exempts   *)
(* that Bridge until a later stop comes as far as the child.               *)
(***************************************************************************)
EXTENDS OperationalRuntime, SequenceFacts

Distinct(q) == \A i, j \in DOMAIN q : q[i] = q[j] => i = j
Clients == {"backend", "validation"}
Tasks == {"configuration"} \cup Workers
Owners == {"deepstream", "configuration"}
InPass == pass # "none" /\ todo # <<>>

(* The shape of the state. *)
Shape ==
  /\ components \in Deployments /\ phase \in Phases
  /\ made \subseteq Clients /\ closed \subseteq Clients \cup ComponentNames
  /\ dead \subseteq ComponentNames /\ torn \subseteq TornParts
  /\ locked \in BOOLEAN
  /\ monitor \in {"none", "polling", "locking", "done"}
  /\ pass \in {"none", "rollback", "lock", "retry", "last", "backend"}
  /\ step \in 1..5 /\ server \in BOOLEAN /\ connected \in BOOLEAN
  /\ held \subseteq IngestParts
  /\ bridge \in {"none", "alive", "ending"} /\ bridgeRunning \in BOOLEAN
  /\ faults \in 0..MaxFaults

(* What is tracked, and what is left of a pass: no component twice; ingest *)
(* is tracked first and stopped last.                                      *)
Ordered ==
  /\ IsSeq(tracked) /\ Distinct(tracked) /\ ToSet(tracked) \subseteq ToSet(components)
  /\ IsSeq(todo) /\ Distinct(todo) /\ ToSet(todo) \subseteq ToSet(tracked)
  /\ \A i \in DOMAIN tracked : tracked[i] = "ingest" => i = 1
  /\ \A i \in DOMAIN todo : todo[i] = "ingest" => i = Len(todo)

(* Which passes the lifespan's phases and the monitor allow, and what a    *)
(* start that is under way has done.                                       *)
Phased ==
  /\ phase = "loading" => tracked = <<>> /\ todo = <<>> /\ torn = {}
  /\ phase \in {"loading", "starting"} => ~locked /\ monitor = "none"
  /\ phase \notin {"serving", "closing", "down"} => dead = {} /\ ~BridgeLeft
  /\ phase = "starting" /\ pass = "none" =>
       /\ Len(tracked) <= Len(components)
       /\ \A i \in DOMAIN tracked : tracked[i] = components[i]
       /\ "ingest" \in ToSet(tracked) => held = IngestParts
  /\ pass = "rollback" => phase = "starting"
  /\ monitor = "locking" <=> pass \in {"lock", "retry"}
  /\ pass \in {"last", "backend"} => Closing /\ monitor \in {"none", "done"}
  /\ pass = "backend" =>
       todo = <<>> /\ \A c \in made \ closed : c \in torn \cup {"backend"}
  /\ InPass => step <= Len(Awaits(Current))

(* The components that may still run; those that do not any more, but for  *)
(* the Bridge a dead configuration task has left.                          *)
Left == IF pass = "none" THEN ToSet(tracked) ELSE ToSet(todo)
Stopped(c) ==
  /\ c \notin tasks
  /\ c \in Owners => bridge = "none" \/ BridgeLeft
  /\ c = "ingest" => ~server
Owned ==
  /\ tasks \subseteq Tasks \cap ToSet(components) /\ dead \cap tasks = {}
  /\ BridgeLeft => bridgeRunning /\ "configuration" \in ToSet(components) \ tasks
  /\ bridge # "none" => \E c \in Owners : c \in ToSet(components)
  /\ bridge # "none" /\ "deepstream" \notin ToSet(components) => bridgeRunning
  /\ connected => bridge # "none"
  /\ server => "ingest" \in ToSet(components)
  /\ \A c \in ToSet(components) : c \notin Left => Stopped(c)

(* How far the stop of the current component has come. *)
Progress ==
  InPass =>
    /\ Current \in Tasks /\ step >= 2 => Current \notin tasks
    /\ Current = "configuration" /\ step >= 4 => bridge = "none"
    /\ Current = "ingest" /\ step >= 2 => ~server
    /\ Current = "ingest" /\ step >= 3 => "listener" \notin held
    /\ Current = "ingest" /\ step >= 5 => "connections" \notin held

(* A Bridge, and a task that can spawn one, have a bound socket. *)
Listening ==
  (bridge # "none" \/ "configuration" \in tasks)
    /\ "ingest" \in ToSet(components) /\ ~BridgeLeft
    => "listener" \in held

(* Ingest holds nothing, is in its stop, or has its handle; it takes       *)
(* connections where it keeps them.                                        *)
Accepting == connected \/ "listener" \in held => "connections" \in held
Released ==
  "ingest" \notin torn =>
    /\ server \/ held = {} \/ (InPass /\ Current = "ingest" /\ step >= 2)
    /\ Accepting

IInv ==
  /\ Shape /\ Ordered /\ Phased /\ Owned /\ Progress /\ Listening /\ Released
  /\ StoppedIsReleased

-----------------------------------------------------------------------------
(* The lists of components, and the awaits of a stop. *)

\* What the assumption says of the components of the state.
LEMMA Composed ==
  ASSUME Shape
  PROVE  /\ IsSeq(components) /\ ToSet(components) \subseteq ComponentNames
         /\ Distinct(components)
         /\ \A i \in DOMAIN components : components[i] = "ingest" => i = 1
         /\ ~ ("deepstream" \in ToSet(components) /\ "configuration" \in ToSet(components))
<1>1. /\ components \in Seq(ComponentNames) /\ Distinct(components)
      /\ \A i \in DOMAIN components : components[i] = "ingest" => i = 1
      /\ ~ {"deepstream", "configuration"} \subseteq ToSet(components)
  BY RuntimeAssumption DEF Shape, Distinct
<1>2. IsSeq(components)
  BY <1>1, Subsequence
<1> DEFINE N == ComponentNames
<1> HIDE DEF N
<1>3. \A i \in DOMAIN components : components[i] \in N
  BY <1>1 DEF N
<1>4. ToSet(components) \subseteq N
  BY <1>3 DEF ToSet
<1> QED BY <1>1, <1>2, <1>4 DEF N

\* The component being stopped is one of the registered ones.
LEMMA CurrentIs ==
  ASSUME Shape, Ordered, InPass
  PROVE  Current \in ToSet(todo) /\ Current \in ToSet(components) /\ Current \in ComponentNames
<1>1. Current \in ToSet(todo)
  BY FirstAndRest DEF Ordered, InPass, Current
<1> QED BY <1>1, Composed DEF Ordered

\* Every stop has an await, and its number of awaits.
LEMMA AwaitsOf ==
  /\ Len(Awaits("ingest")) = 5 /\ Len(Awaits("deepstream")) = 2
  /\ Len(Awaits("configuration")) = 4 /\ \A c \in Workers : Len(Awaits(c)) = 2
  /\ \A c \in ComponentNames : Len(Awaits(c)) \in 2..5
<1>1. Len(Awaits("ingest")) = 5 /\ Len(Awaits("deepstream")) = 2
  BY DEF Awaits
<1>2. Len(Awaits("configuration")) = 4 /\ \A c \in Workers : Len(Awaits(c)) = 2
  BY DEF Awaits, Workers
<1> QED BY <1>1, <1>2 DEF ComponentNames

\* An await belongs to some components' stops, at one place in them.
LEMMA AwaitAt ==
  ASSUME Shape, Ordered, Phased, NEW s, At(s)
  PROVE  /\ InPass
         /\ s = "enter" => Current = "ingest" /\ step = 1
         /\ s = "yields" => Current = "ingest" /\ step = 2
         /\ s = "closed" => Current = "ingest" /\ step = 3
         /\ s = "connections" => Current = "ingest" /\ step = 4
         /\ s = "consumer" => Current = "ingest" /\ step = 5
         /\ s = "signal" => \/ Current = "deepstream" /\ step = 1
                            \/ Current = "configuration" /\ step = 2
         /\ s = "reap" => \/ Current = "deepstream" /\ step = 2
                          \/ Current = "configuration" /\ step = 3
         /\ s = "task" => Current \in Tasks /\ step = 1
         /\ s = "client" => \/ Current \in Workers /\ step = 2
                            \/ Current = "configuration" /\ step = 4
<1>1. InPass /\ Awaits(Current)[step] = s
  BY DEF At, InPass
<1>2. Current \in ComponentNames /\ step \in 1..5 /\ step <= Len(Awaits(Current))
  BY <1>1, CurrentIs DEF Shape, Phased
<1> DEFINE c == Current
<1>3. c \in ComponentNames /\ step \in 1..5 /\ step <= Len(Awaits(c)) /\ Awaits(c)[step] = s
  BY <1>1, <1>2
<1> HIDE DEF c
<1>4. CASE c = "ingest"
  <2>1. Awaits(c) = <<"enter", "yields", "closed", "connections", "consumer">>
    BY <1>4 DEF Awaits
  <2> QED BY <1>1, <1>3, <1>4, <2>1 DEF c
<1>5. CASE c = "deepstream"
  <2>1. Awaits(c) = <<"signal", "reap">>
    BY <1>5 DEF Awaits
  <2> QED BY <1>1, <1>3, <1>5, <2>1 DEF c
<1>6. CASE c = "configuration"
  <2>1. Awaits(c) = <<"task", "signal", "reap", "client">>
    BY <1>6 DEF Awaits
  <2> QED BY <1>1, <1>3, <1>6, <2>1 DEF c, Tasks
<1>7. CASE c \in Workers
  <2>1. Awaits(c) = <<"task", "client">>
    BY <1>7 DEF Awaits, Workers
  <2> QED BY <1>1, <1>3, <1>7, <2>1 DEF c, Tasks, Workers
<1> QED BY <1>3, <1>4, <1>5, <1>6, <1>7 DEF ComponentNames

\* When it is ingest's turn, nothing else is left of the pass.
LEMMA IngestIsLast ==
  ASSUME Ordered, InPass, Current = "ingest"
  PROVE  ToSet(todo) = {"ingest"}
<1>1. 1 \in DOMAIN todo /\ Head(todo) = todo[1]
  BY RestMoves DEF Ordered, InPass
<1>2. Len(todo) = 1
  BY <1>1 DEF Ordered, Current
<1>3. DOMAIN todo = 1..1
  BY <1>2, Elements DEF Ordered
<1>4. ASSUME NEW x PROVE x \in ToSet(todo) <=> x = "ingest"
  <2>1. \A i \in DOMAIN todo : i = 1
    BY <1>3
  <2> QED BY <1>1, <2>1, Elements DEF Ordered, Current
<1> QED BY <1>4

-----------------------------------------------------------------------------
(* How a pass moves: Begin, the end of one component's stop, the end of it. *)

\* Distinctness at the primed state, for a list that changed.
LEMMA DistinctTail ==
  ASSUME NEW q, IsSeq(q), Distinct(q), q # <<>>
  PROVE  /\ Distinct(Tail(q)) /\ Head(q) \notin ToSet(Tail(q))
         /\ \A x \in ToSet(q) : x = Head(q) \/ x \in ToSet(Tail(q))
<1> DEFINE t == Tail(q)
<1>1. /\ IsSeq(t) /\ Len(t) = Len(q) - 1 /\ DOMAIN t = 1..(Len(q) - 1)
      /\ 1 \in DOMAIN q /\ Head(q) = q[1]
      /\ \A i \in DOMAIN t : i + 1 \in DOMAIN q /\ t[i] = q[i + 1]
  BY RestMoves
<1>2. Len(q) \in Nat /\ DOMAIN q = 1..Len(q)
  BY Elements
<1> HIDE DEF t
<1>3. Distinct(t)
  <2> SUFFICES ASSUME NEW i \in DOMAIN t, NEW j \in DOMAIN t, t[i] = t[j] PROVE i = j
    BY DEF Distinct
  <2>1. i + 1 = j + 1
    BY <1>1 DEF Distinct
  <2> QED BY <1>1, <1>2, <2>1
<1>4. Head(q) \notin ToSet(t)
  <2> SUFFICES ASSUME NEW i \in DOMAIN t, Head(q) = t[i] PROVE FALSE
    BY <1>1, Elements
  <2>1. i + 1 = 1
    BY <1>1 DEF Distinct
  <2> QED BY <1>1, <1>2, <2>1
<1>5. ASSUME NEW x \in ToSet(q) PROVE x = Head(q) \/ x \in ToSet(t)
  <2>1. PICK i \in DOMAIN q : x = q[i]
    BY Elements
  <2>2. CASE i = 1
    BY <1>1, <2>1, <2>2
  <2>3. CASE i # 1
    <3>1. i - 1 \in DOMAIN t /\ (i - 1) + 1 = i
      BY <1>1, <1>2, <2>3
    <3>2. x = t[i - 1]
      BY <1>1, <2>1, <3>1
    <3> QED BY <1>1, <3>1, <3>2, Elements
  <2> QED BY <2>2, <2>3
<1> QED BY <1>3, <1>4, <1>5 DEF t

\* A removal keeps the elements different and in their order.
LEMMA DistinctRemoved ==
  ASSUME NEW q, IsSeq(q), Distinct(q), NEW i \in DOMAIN q,
         \A j \in DOMAIN q : q[j] = "ingest" => j = 1
  PROVE  LET t == RemoveAt(q, i)
         IN  /\ IsSeq(t) /\ Distinct(t) /\ ToSet(t) \subseteq ToSet(q)
             /\ \A j \in DOMAIN t : t[j] = "ingest" => j = 1
             /\ \A x \in ToSet(q) : x # q[i] => x \in ToSet(t)
<1> DEFINE t == RemoveAt(q, i)
<1>1. /\ IsSeq(t) /\ Len(t) = Len(q) - 1 /\ DOMAIN t = 1..(Len(q) - 1)
      /\ \A j \in DOMAIN t : /\ j \in DOMAIN q /\ j + 1 \in DOMAIN q
                            /\ t[j] = IF j < i THEN q[j] ELSE q[j + 1]
      /\ \A j \in DOMAIN q : j # i => q[j] \in ToSet(t)
      /\ ToSet(t) \subseteq ToSet(q)
  BY Removed
<1>2. Len(q) \in Nat /\ DOMAIN q = 1..Len(q)
  BY Elements
<1> HIDE DEF t
<1>3. Distinct(t)
  <2> SUFFICES ASSUME NEW j \in DOMAIN t, NEW k \in DOMAIN t, t[j] = t[k] PROVE j = k
    BY DEF Distinct
  <2> DEFINE J == IF j < i THEN j ELSE j + 1
             K == IF k < i THEN k ELSE k + 1
  <2>1. J \in DOMAIN q /\ K \in DOMAIN q /\ q[J] = q[K]
    BY <1>1
  <2>2. J = K
    BY <2>1 DEF Distinct
  <2> QED BY <1>1, <1>2, <2>2
<1>4. ASSUME NEW j \in DOMAIN t, t[j] = "ingest" PROVE j = 1
  BY <1>1, <1>2, <1>4
<1>5. ASSUME NEW x \in ToSet(q), x # q[i] PROVE x \in ToSet(t)
  BY <1>1, <1>5, Elements
<1> QED BY <1>1, <1>3, <1>4, <1>5 DEF t

\* A pass begins with all that is tracked, ingest at the end.
LEMMA Begins ==
  ASSUME Ordered, NEW kind, Begin(kind), UNCHANGED <<components, tracked>>
  PROVE  Ordered' /\ \A c : c \in ToSet(todo)' <=> c \in ToSet(tracked)
<1> DEFINE t == Reverse(tracked)
<1>1. todo' = t
  BY DEF Begin, Order
<1>2. /\ IsSeq(t) /\ Len(t) = Len(tracked) /\ DOMAIN t = DOMAIN tracked
      /\ \A i \in DOMAIN tracked : /\ Len(tracked) - i + 1 \in DOMAIN tracked
                                   /\ t[i] = tracked[Len(tracked) - i + 1]
      /\ \A x : x \in ToSet(t) <=> x \in ToSet(tracked)
  BY Reversed DEF Ordered
<1>3. Len(tracked) \in Nat /\ DOMAIN tracked = 1..Len(tracked)
  BY Elements DEF Ordered
<1> HIDE DEF t
<1>4. Distinct(t)
  <2> SUFFICES ASSUME NEW i \in DOMAIN t, NEW j \in DOMAIN t, t[i] = t[j] PROVE i = j
    BY DEF Distinct
  <2>1. Len(tracked) - i + 1 = Len(tracked) - j + 1
    BY <1>2 DEF Ordered, Distinct
  <2> QED BY <1>2, <1>3, <2>1
<1>5. ASSUME NEW i \in DOMAIN t, t[i] = "ingest" PROVE i = Len(t)
  <2>1. Len(tracked) - i + 1 = 1
    BY <1>2, <1>5 DEF Ordered
  <2> QED BY <1>2, <1>3, <2>1
<1>6. Ordered'
  BY <1>1, <1>2, <1>4, <1>5 DEF Ordered
<1> QED BY <1>1, <1>2, <1>6

\* When the stop of a component is over, it is not in the rest of the pass.
LEMMA Leaves ==
  ASSUME Ordered, InPass, todo' = Tail(todo), Untrack \/ UNCHANGED tracked,
         UNCHANGED components
  PROVE  Ordered' /\ \A c \in ToSet(todo) : c = Current \/ c \in ToSet(todo)'
<1> DEFINE t == Tail(todo)
<1>1. /\ IsSeq(t) /\ Len(t) = Len(todo) - 1 /\ DOMAIN t = 1..(Len(todo) - 1)
      /\ \A i \in DOMAIN t : i + 1 \in DOMAIN todo /\ t[i] = todo[i + 1]
  BY RestMoves DEF Ordered, InPass
<1>2. /\ Distinct(t) /\ Current \notin ToSet(t)
      /\ \A x \in ToSet(todo) : x = Current \/ x \in ToSet(t)
  BY DistinctTail DEF Ordered, InPass, Current
<1>3. ToSet(t) \subseteq ToSet(todo)
  BY FirstAndRest DEF Ordered, InPass
<1>4. Len(todo) \in Nat /\ DOMAIN todo = 1..Len(todo)
  BY Elements DEF Ordered
<1>5. todo' = t
  OBVIOUS
<1> HIDE DEF t
<1>6. ASSUME NEW i \in DOMAIN t, t[i] = "ingest" PROVE i = Len(t)
  <2>1. i + 1 = Len(todo)
    BY <1>1, <1>6 DEF Ordered
  <2> QED BY <1>1, <1>4, <2>1
<1>7. /\ IsSeq(tracked') /\ Distinct(tracked') /\ ToSet(tracked') \subseteq ToSet(tracked)
      /\ \A j \in DOMAIN tracked' : tracked'[j] = "ingest" => j = 1
      /\ \A x \in ToSet(tracked) : x # Current => x \in ToSet(tracked')
  <2>1. CASE Untrack
    <3>1. PICK i \in DOMAIN tracked :
            tracked[i] = Current /\ tracked' = RemoveAt(tracked, i)
      BY <2>1 DEF Untrack
    <3> QED BY <3>1, DistinctRemoved DEF Ordered
  <2>2. CASE UNCHANGED tracked
    BY <2>2 DEF Ordered
  <2> QED BY <2>1, <2>2
<1>8. ToSet(t) \subseteq ToSet(tracked')
  BY <1>2, <1>3, <1>7 DEF Ordered
<1>9. Ordered'
  BY <1>1, <1>2, <1>5, <1>6, <1>7, <1>8 DEF Ordered
<1> QED BY <1>2, <1>5, <1>9

\* At its end nothing is left of a pass.
LEMMA NothingLeft ==
  ASSUME Ordered, PassOver
  PROVE  Left = {}
BY EmptyIsSeq DEF PassOver, Left

\* A pass that is over, or is cut short, leaves no list behind.
LEMMA Ends ==
  ASSUME Ordered, todo' = <<>>, UNCHANGED <<components, tracked>>
  PROVE  Ordered'
<1>1. IsSeq(todo') /\ DOMAIN todo' = {} /\ ToSet(todo') = {}
  BY EmptyIsSeq
<1> QED BY <1>1 DEF Ordered, Distinct

-----------------------------------------------------------------------------
(* The steps of a pass. *)
PassStep == Stopping \/ StopClientFails \/ ConnectionReset
Stays == UNCHANGED <<todo, tracked>> /\ step' = step + 1 /\ step < Len(Awaits(Current))
Moves == todo' = Tail(todo) /\ step' = 1 /\ (Untrack \/ UNCHANGED tracked)
IStep == Shape /\ Ordered /\ Phased /\ Owned /\ Progress /\ Listening /\ Released

\* While a pass is under way the runtime is neither loading nor down.
LEMMA PassPhase ==
  ASSUME Shape, Phased, StoppedIsReleased, pass # "none"
  PROVE  phase \notin {"loading", "failed", "down"}
BY DEF Shape, Phased, StoppedIsReleased, Closing

\* A step of a pass stays with a component or leaves it for the next.
LEMMA PassMoves ==
  ASSUME Shape, Ordered, Phased, PassStep
  PROVE  /\ InPass /\ (Stays \/ Moves)
         /\ UNCHANGED <<components, phase, made, locked, monitor, pass, python312>>
<1>1. InPass
  BY AwaitAt DEF PassStep, Stopping, StopTask, StopTaskRaises, StopSignal, StopReap,
     StopClient, StopEnters,
     StopYields, StopListening, StopConnections, StopConsumer, StopClientFails,
     ConnectionReset
<1>2. Advance \/ Over \/ Raise => (Stays \/ Moves) /\ UNCHANGED pass
  BY DEF Advance, Over, Raise, Stays, Moves
<1>3. Advance \/ Over \/ Raise
  BY DEF PassStep, Stopping, StopTask, StopTaskRaises, StopSignal, StopReap, StopClient,
     StopEnters,
     StopYields, StopListening, StopConnections, StopConsumer, StopClientFails,
     ConnectionReset
<1>4. UNCHANGED <<components, phase, made, locked, monitor, python312>>
  BY DEF PassStep, Stopping, StopTask, StopTaskRaises, StopSignal, StopReap, StopClient,
     StopEnters,
     StopYields, StopListening, StopConnections, StopConsumer, StopClientFails,
     ConnectionReset, clients
<1> QED BY <1>1, <1>2, <1>3, <1>4

\* Shape, order and phase, across a step of a pass.
LEMMA PassShape ==
  ASSUME Shape, Ordered, Phased, StoppedIsReleased, PassStep
  PROVE  Shape' /\ Ordered' /\ Phased' /\ StoppedIsReleased'
<1>1. /\ InPass /\ (Stays \/ Moves)
      /\ UNCHANGED <<components, phase, made, locked, monitor, pass, python312>>
  BY PassMoves
<1>2. Current \in ComponentNames /\ Len(Awaits(Current)) \in 2..5
  BY <1>1, CurrentIs, AwaitsOf
<1>3. phase \notin {"loading", "failed", "down"} /\ pass # "none"
  BY <1>1, PassPhase DEF InPass
<1>4. Ordered'
  <2>1. CASE Stays
    BY <1>1, <2>1 DEF Stays, Ordered, Distinct
  <2>2. CASE Moves
    BY <1>1, <2>2, Leaves DEF Moves
  <2> QED BY <1>1, <2>1, <2>2
<1>5. InPass' => step' <= Len(Awaits(Current))'
  <2>1. CASE Stays
    <3>1. Current' = Current
      BY <2>1 DEF Stays, Current
    <3>2. Awaits(Current)' = Awaits(Current)
      BY <3>1 DEF Awaits
    <3> QED BY <1>2, <2>1, <3>2 DEF Stays, Shape
  <2>2. CASE Moves
    <3>1. \A c : Len(Awaits(c)) \in {2, 4, 5}
      BY DEF Awaits
    <3>2. Len(Awaits(Current))' \in {2, 4, 5}
      BY <3>1, <1>4, <1>1 DEF Awaits
    <3> QED BY <2>2, <3>2 DEF Moves
  <2> QED BY <1>1, <2>1, <2>2
<1>6. BridgeLeft' => BridgeLeft \/ dead # {}
  BY DEF BridgeLeft, PassStep, Stopping, StopTask, StopTaskRaises, StopSignal, StopReap,
     StopClient, StopEnters, StopYields, StopListening, StopConnections, StopConsumer,
     StopClientFails, ConnectionReset
<1>7. dead' \subseteq dead
  BY DEF PassStep, Stopping, StopTask, StopTaskRaises, StopSignal, StopReap,
     StopClient, StopEnters, StopYields, StopListening, StopConnections, StopConsumer,
     StopClientFails, ConnectionReset, background
<1>8. Phased'
  BY <1>1, <1>3, <1>5, <1>6, <1>7 DEF Phased, Closing, InPass
<1>9. StoppedIsReleased'
  BY <1>1, <1>3 DEF StoppedIsReleased
<1>10. step' \in 1..5
  <2> DEFINE n == Len(Awaits(Current))
  <2>1. n \in 2..5 /\ step \in 1..5
    BY <1>2 DEF Shape
  <2>2. (step' = step + 1 /\ step < n) \/ step' = 1
    BY <1>1 DEF Stays, Moves
  <2> HIDE DEF n
  <2> QED BY <2>1, <2>2
<1>11. closed' \subseteq Clients \cup ComponentNames
  BY <1>2 DEF Shape, PassStep, Stopping, StopTask, StopTaskRaises, StopSignal, StopReap,
     StopClient,
     StopEnters, StopYields, StopListening, StopConnections, StopConsumer,
     StopClientFails, ConnectionReset, clients
<1>12. /\ server' \in BOOLEAN /\ connected' \in BOOLEAN
       /\ held' \subseteq IngestParts
       /\ bridge' \in {"none", "alive", "ending"} /\ bridgeRunning' \in BOOLEAN
  BY DEF Shape, PassStep, Stopping, StopTask, StopTaskRaises, StopSignal, StopReap,
     StopClient,
     StopEnters, StopYields, StopListening, StopConnections, StopConsumer,
     StopClientFails, ConnectionReset, ingest, process, configuration
<1>13. torn' \subseteq TornParts
  <2>1. CASE StopTaskRaises
    <3>1. Current \in {"configuration"} \cup Workers
      BY <2>1, AwaitAt DEF StopTaskRaises, Tasks
    <3> QED BY <2>1, <3>1 DEF StopTaskRaises, Shape, TornParts
  <2>2. CASE ~ StopTaskRaises
    BY <2>2 DEF Shape, TornParts, PassStep, Stopping, StopTask, StopSignal, StopReap,
       StopClient, StopEnters, StopYields, StopListening, StopConnections, StopConsumer,
       StopClientFails, ConnectionReset
  <2> QED BY <2>1, <2>2
<1>14. faults' \in 0..MaxFaults
  BY RuntimeAssumption DEF Shape, PassStep, Stopping, StopTask, StopTaskRaises, StopSignal,
     StopReap, StopClient,
     StopEnters, StopYields, StopListening, StopConnections, StopConsumer,
     StopClientFails, ConnectionReset, Faulty
<1> QED BY <1>1, <1>4, <1>8, <1>9, <1>10, <1>11, <1>12, <1>14, <1>7, <1>13 DEF Shape

\* What a step of a pass may undo: tasks, the Bridge's life and the handle
\* only go, and a Bridge left running is one of a dead task.
LEMMA PassUndoes ==
  ASSUME Shape, Ordered, Phased, Owned, Progress, PassStep
  PROVE  /\ tasks' \subseteq tasks /\ dead' \subseteq dead
         /\ bridge' = "none" <=> bridge = "none"
         /\ (server' => server) /\ (connected' => connected)
         /\ BridgeLeft => BridgeLeft' \/ bridge' = "none"
<1>1. /\ tasks' \subseteq tasks /\ dead' \subseteq dead
      /\ bridge' = "none" <=> bridge = "none"
  BY DEF PassStep, Stopping, StopTask, StopTaskRaises, StopSignal, StopReap, StopClient,
     StopEnters, StopYields, StopListening, StopConnections, StopConsumer,
     StopClientFails, ConnectionReset, process, background
<1>2. (server' => server) /\ (connected' => connected)
  BY DEF PassStep, Stopping, StopTask, StopTaskRaises, StopSignal, StopReap, StopClient,
     StopEnters, StopYields, StopListening, StopConnections, StopConsumer,
     StopClientFails, ConnectionReset, ingest, process
<1>3. ASSUME BridgeLeft PROVE BridgeLeft' \/ bridge' = "none"
  <2>1. CASE StopReap
    <3>1. bridgeRunning /\ UNCHANGED bridge
      BY <1>3, <2>1 DEF Owned, StopReap, process
    <3>2. Wanted
      BY <3>1 DEF Wanted
    <3> QED BY <2>1, <3>1, <3>2 DEF StopReap
  <2>2. CASE ~ StopReap
    BY <1>3, <2>2 DEF BridgeLeft, PassStep, Stopping, StopTask, StopTaskRaises, StopSignal,
       StopClient, StopEnters, StopYields, StopListening, StopConnections, StopConsumer,
       StopClientFails, ConnectionReset
  <2> QED BY <2>1, <2>2
<1> QED BY <1>1, <1>2, <1>3

\* A stopped component stays stopped through a step of a pass.
Out(c) ==
  /\ c \notin tasks'
  /\ c \in Owners => bridge' = "none" \/ BridgeLeft'
  /\ c = "ingest" => ~server'
LEMMA StaysStopped ==
  ASSUME Shape, Ordered, Phased, Owned, Progress, PassStep, NEW c, Stopped(c)
  PROVE  Out(c)
BY PassUndoes DEF Stopped, Out

\* A component that a step of a pass leaves is stopped then.
LEMMA PassStops ==
  ASSUME Shape, Ordered, Phased, Owned, Progress, PassStep
  PROVE  Stays \/ Out(Current)
<1>1. Stays \/ Stopped(Current) \/ Out(Current)
  <2>1. step < Len(Awaits(Current)) /\ Advance => Stays
    BY DEF Advance, Stays
  <2>2. CASE StopTask
    <3>1. Current \in Tasks /\ step = 1 /\ Advance
      BY <2>2, AwaitAt DEF StopTask
    <3>2. step < Len(Awaits(Current))
      BY <3>1, AwaitsOf DEF Tasks, ComponentNames
    <3> QED BY <2>1, <3>1, <3>2
  <2>3. CASE StopTaskRaises
    <3>1. Current \in Tasks /\ Current \in dead
      BY <2>3, AwaitAt DEF StopTaskRaises
    <3>2. Current \notin tasks /\ UNCHANGED <<tasks, bridge>>
      BY <2>3, <3>1 DEF Owned, StopTaskRaises, process
    <3>3. Current \in ToSet(components)
      BY <2>3, AwaitAt, CurrentIs DEF StopTaskRaises
    <3>4. Current \in Owners => bridge' = "none" \/ BridgeLeft'
      <4>1. Current \in Owners => Current = "configuration" /\ Current \notin Workers
        BY <3>1 DEF Tasks, Owners, Workers
      <4>2. CASE bridgeRunning
        BY <2>3, <4>1, <4>2 DEF StopTaskRaises, BridgeLeft
      <4>3. CASE ~ bridgeRunning
        <5>1. Current = "configuration" => "deepstream" \notin ToSet(components)
          BY <3>3, Composed
        <5> QED BY <3>2, <4>1, <4>3, <5>1 DEF Owned
      <4> QED BY <4>2, <4>3
    <3> QED BY <3>1, <3>2, <3>4 DEF Out, Tasks, Workers
  <2>4. CASE StopSignal
    <3>1. /\ Advance
          /\ \/ Current = "deepstream" /\ step = 1
             \/ Current = "configuration" /\ step = 2
      BY <2>4, AwaitAt DEF StopSignal
    <3>2. step < Len(Awaits(Current))
      BY <3>1, AwaitsOf, SMTT(30)
    <3> QED BY <2>1, <3>1, <3>2
  <2>5. CASE StopReap
    <3>1. /\ Advance /\ (Wanted => bridge = "none")
          /\ \/ Current = "deepstream" /\ step = 2
             \/ Current = "configuration" /\ step = 3
      BY <2>5, AwaitAt DEF StopReap
    <3>2. CASE Current = "configuration"
      <4>1. step = 3 /\ Len(Awaits(Current)) = 4
        BY <3>1, <3>2, AwaitsOf
      <4> QED BY <2>1, <3>1, <4>1
    <3>3. CASE Current = "deepstream"
      <4>1. bridge = "none"
        BY <3>1, <3>3 DEF Wanted
      <4>2. "deepstream" \notin tasks
        BY DEF Owned, Tasks, Workers
      <4> QED BY <3>3, <4>1, <4>2 DEF Stopped
    <3> QED BY <3>1, <3>2, <3>3
  <2>6. CASE StopClient \/ StopClientFails
    <3>1. /\ InPass
          /\ \/ Current \in Workers /\ step = 2
             \/ Current = "configuration" /\ step = 4
      BY <2>6, AwaitAt DEF StopClient, StopClientFails
    <3>2. Current \in Tasks /\ step >= 2 /\ (Current = "configuration" => step >= 4)
      BY <3>1 DEF Tasks, Workers
    <3>3. Current \notin tasks /\ (Current = "configuration" => bridge = "none")
      BY <3>1, <3>2 DEF Progress
    <3> QED BY <3>1, <3>3 DEF Stopped, Owners, Workers
  <2>7. CASE StopEnters
    <3>1. Current = "ingest" /\ step = 1
      BY <2>7, AwaitAt DEF StopEnters
    <3>2. CASE server
      <4>1. Advance /\ step < Len(Awaits(Current))
        BY <2>7, <3>1, <3>2, AwaitsOf DEF StopEnters
      <4> QED BY <2>1, <4>1
    <3>3. CASE ~ server
      <4>1. "ingest" \notin tasks
        BY DEF Owned, Tasks, Workers
      <4> QED BY <3>1, <3>3, <4>1 DEF Stopped, Owners
    <3> QED BY <3>2, <3>3
  <2>8. CASE \/ StopYields \/ StopListening \/ StopConnections \/ StopConsumer
             \/ ConnectionReset
    <3>1. InPass /\ Current = "ingest" /\ step \in 2..5
      BY <2>8, AwaitAt DEF StopYields, StopListening, StopConnections, StopConsumer,
         ConnectionReset
    <3>2. ~ server
      BY <3>1 DEF Progress
    <3>3. "ingest" \notin tasks
      BY DEF Owned, Tasks, Workers
    <3> QED BY <3>1, <3>2, <3>3 DEF Stopped, Owners
  <2> QED BY <2>2, <2>3, <2>4, <2>5, <2>6, <2>7, <2>8 DEF PassStep, Stopping
<1> QED BY <1>1, StaysStopped

\* What is owned, across a step of a pass.
LEMMA PassOwned ==
  ASSUME Shape, Ordered, Phased, Owned, Progress, PassStep
  PROVE  Owned'
<1>1. /\ InPass /\ (Stays \/ Moves)
      /\ UNCHANGED <<components, phase, made, locked, monitor, pass, python312>>
  BY PassMoves
<1>2. /\ tasks' \subseteq tasks /\ dead' \subseteq dead
      /\ bridge' = "none" <=> bridge = "none"
      /\ (server' => server) /\ (connected' => connected)
      /\ Stays \/ Out(Current)
  BY PassUndoes, PassStops
<1>3. bridge' # "none" /\ "deepstream" \notin ToSet(components) => bridgeRunning'
  <2>1. CASE StopReap
    <3>1. /\ Wanted => bridge = "none"
          /\ Current \in {"deepstream", "configuration"} /\ InPass
      BY <2>1, AwaitAt DEF StopReap
    <3>2. Current \in ToSet(components)
      BY <3>1, CurrentIs
    <3>3. CASE Current = "deepstream"
      BY <3>2, <3>3
    <3>4. CASE Current = "configuration"
      BY <1>2, <3>1, <3>4 DEF Wanted, Owned
    <3> QED BY <3>1, <3>3, <3>4
  <2>2. CASE ~ StopReap
    <3>1. bridgeRunning' = bridgeRunning
      BY <2>2 DEF PassStep, Stopping, StopTask, StopTaskRaises, StopSignal, StopClient,
         StopEnters, StopYields, StopListening, StopConnections, StopConsumer,
         StopClientFails, ConnectionReset, configuration
    <3> QED BY <1>2, <3>1 DEF Owned
  <2> QED BY <2>1, <2>2
<1>4. ASSUME NEW c \in ToSet(components), c \notin Left'
      PROVE  Out(c)
  <2>1. c \notin ToSet(todo')
    BY <1>1, <1>4 DEF Left, InPass
  <2>2. CASE c \notin ToSet(todo)
    <3>1. Stopped(c)
      BY <1>1, <2>2 DEF Owned, Left, InPass
    <3> QED BY <3>1, StaysStopped
  <2>3. CASE c \in ToSet(todo)
    <3>1. ~ Stays
      BY <2>1, <2>3 DEF Stays
    <3>2. c = Current
      BY <1>1, <2>1, <2>3, <3>1, Leaves DEF Moves
    <3> QED BY <1>2, <3>1, <3>2
  <2> QED BY <2>2, <2>3
<1>5. ASSUME BridgeLeft'
      PROVE  bridgeRunning' /\ "configuration" \in ToSet(components) \ tasks
  <2>1. CASE StopTaskRaises /\ ~BridgeLeft
    <3>1. bridgeRunning /\ Current = "configuration" /\ Current \in dead
      BY <1>5, <2>1 DEF StopTaskRaises, BridgeLeft
    <3>2. UNCHANGED bridgeRunning
      BY <2>1 DEF StopTaskRaises, configuration
    <3> QED BY <1>1, <3>1, <3>2, CurrentIs DEF Owned
  <2>2. CASE BridgeLeft
    <3>1. ~ StopReap
      <4>1. ASSUME StopReap PROVE FALSE
        <5>1. Current \in {"deepstream", "configuration"} /\ Current \in ToSet(components)
          BY <1>1, <4>1, AwaitAt, CurrentIs DEF StopReap
        <5>2. Current = "configuration"
          BY <2>2, <5>1, Composed DEF Owned
        <5> QED BY <1>5, <4>1, <5>2 DEF StopReap, BridgeLeft
      <4> QED BY <4>1
    <3>2. bridgeRunning' = bridgeRunning
      BY <3>1 DEF PassStep, Stopping, StopTask, StopTaskRaises, StopSignal, StopClient,
         StopEnters, StopYields, StopListening, StopConnections, StopConsumer,
         StopClientFails, ConnectionReset, configuration
    <3> QED BY <2>2, <3>2 DEF Owned
  <2>3. ~ BridgeLeft => StopTaskRaises
    BY <1>5 DEF BridgeLeft, PassStep, Stopping, StopTask, StopTaskRaises, StopSignal,
       StopReap,
       StopClient, StopEnters, StopYields, StopListening, StopConnections, StopConsumer,
       StopClientFails, ConnectionReset
  <2> QED BY <2>1, <2>2, <2>3
<1> QED BY <1>1, <1>2, <1>3, <1>4, <1>5 DEF Owned, Stopped, Out

\* How far the stop is, across a step of a pass.
LEMMA PassProgress ==
  ASSUME Shape, Ordered, Phased, Owned, Progress, PassStep
  PROVE  Progress'
<1>1. /\ InPass /\ (Stays \/ Moves)
      /\ UNCHANGED <<components, phase, made, locked, monitor, pass, python312>>
  BY PassMoves
<1>2. CASE Moves
  <2>1. step' = 1
    BY <1>2 DEF Moves
  <2> QED BY <2>1 DEF Progress
<1>3. CASE Stays
  <2>1. todo' = todo /\ Current' = Current /\ step' = step + 1 /\ step \in 1..5
    BY <1>3 DEF Stays, Current, Shape
  <2>2. /\ tasks' \subseteq tasks /\ (bridge' = "none" <=> bridge = "none")
        /\ server' => server
    BY PassUndoes
  <2>3. ~ StopTaskRaises
    BY <1>3, <2>1 DEF StopTaskRaises, Raise, Shape
  <2>4. held' \subseteq held
    BY DEF PassStep, Stopping, StopTask, StopTaskRaises, StopSignal, StopReap, StopClient,
       StopEnters, StopYields, StopListening, StopConnections, StopConsumer,
       StopClientFails, ConnectionReset, ingest
  <2>5. Current \in Tasks /\ step' >= 2 => Current \notin tasks'
    <3>1. CASE StopTask
      BY <3>1 DEF StopTask
    <3>2. CASE ~ StopTask
      <4>1. Current \in Tasks => step # 1
        <5>1. CASE StopSignal \/ StopReap \/ StopClient \/ StopClientFails
          BY <5>1, AwaitAt DEF StopSignal, StopReap, StopClient, StopClientFails, Tasks,
             Workers
        <5>2. CASE \/ StopEnters \/ StopYields \/ StopListening \/ StopConnections
                   \/ StopConsumer \/ ConnectionReset
          BY <5>2, AwaitAt DEF StopEnters, StopYields, StopListening, StopConnections,
             StopConsumer, ConnectionReset, Tasks, Workers
        <5> QED BY <2>3, <3>2, <5>1, <5>2 DEF PassStep, Stopping
      <4>2. Current \in Tasks => step >= 2
        BY <2>1, <4>1
      <4> QED BY <1>1, <2>2, <4>2 DEF Progress
    <3> QED BY <3>1, <3>2
  <2>6. Current = "configuration" /\ step' >= 4 => bridge' = "none"
    <3> SUFFICES ASSUME Current = "configuration", step' >= 4 PROVE bridge' = "none"
      OBVIOUS
    <3>1. CASE step >= 4
      BY <1>1, <2>2, <3>1 DEF Progress
    <3>2. CASE step = 3
      <4>1. StopReap
        <5>1. CASE StopTask \/ StopSignal \/ StopClient \/ StopClientFails
          BY <3>2, <5>1, AwaitAt DEF StopTask, StopSignal, StopClient, StopClientFails,
             Workers
        <5>2. CASE \/ StopEnters \/ StopYields \/ StopListening \/ StopConnections
                   \/ StopConsumer \/ ConnectionReset
          BY <5>2, AwaitAt DEF StopEnters, StopYields, StopListening, StopConnections,
             StopConsumer, ConnectionReset
        <5> QED BY <2>3, <5>1, <5>2 DEF PassStep, Stopping
      <4>2. bridgeRunning => bridge = "none"
        BY <4>1 DEF StopReap, Wanted
      <4>3. Current \in ToSet(components)
        BY <1>1, CurrentIs
      <4>4. "deepstream" \notin ToSet(components)
        BY <4>3, Composed
      <4> QED BY <2>2, <4>2, <4>4 DEF Owned
    <3> QED BY <2>1, <3>1, <3>2
  <2>7. Current = "ingest" => ~server'
    <3> SUFFICES ASSUME Current = "ingest" PROVE ~server'
      OBVIOUS
    <3>1. CASE StopEnters
      BY <3>1 DEF StopEnters
    <3>2. CASE ~ StopEnters
      <4>1. step >= 2
        <5>1. CASE StopTask \/ StopSignal \/ StopReap \/ StopClient \/ StopClientFails
          BY <5>1, AwaitAt DEF StopTask, StopSignal, StopReap, StopClient, StopClientFails,
             Tasks, Workers
        <5>2. CASE \/ StopYields \/ StopListening \/ StopConnections
                   \/ StopConsumer \/ ConnectionReset
          BY <5>2, AwaitAt DEF StopYields, StopListening, StopConnections,
             StopConsumer, ConnectionReset
        <5> QED BY <2>3, <3>2, <5>1, <5>2 DEF PassStep, Stopping
      <4> QED BY <1>1, <2>2, <4>1 DEF Progress
    <3> QED BY <3>1, <3>2
  <2>8. Current = "ingest" /\ step' >= 3 => "listener" \notin held'
    <3> SUFFICES ASSUME Current = "ingest", step' >= 3 PROVE "listener" \notin held'
      OBVIOUS
    <3>1. CASE step >= 3
      BY <1>1, <2>4, <3>1 DEF Progress
    <3>2. CASE step = 2
      <4>1. StopYields
        <5>1. CASE StopTask \/ StopSignal \/ StopReap \/ StopClient \/ StopClientFails
          BY <5>1, AwaitAt DEF StopTask, StopSignal, StopReap, StopClient, StopClientFails,
             Tasks, Workers
        <5>2. CASE \/ StopEnters \/ StopListening \/ StopConnections
                   \/ StopConsumer \/ ConnectionReset
          BY <3>2, <5>2, AwaitAt DEF StopEnters, StopListening, StopConnections,
             StopConsumer, ConnectionReset
        <5> QED BY <2>3, <5>1, <5>2 DEF PassStep, Stopping
      <4> QED BY <4>1 DEF StopYields
    <3> QED BY <2>1, <3>1, <3>2
  <2>9. Current = "ingest" /\ step' >= 5 => "connections" \notin held'
    <3> SUFFICES ASSUME Current = "ingest", step' >= 5 PROVE "connections" \notin held'
      OBVIOUS
    <3>1. CASE step >= 5
      BY <1>1, <2>4, <3>1 DEF Progress
    <3>2. CASE step = 4
      <4>1. StopConnections \/ ConnectionReset
        <5>1. CASE StopTask \/ StopSignal \/ StopReap \/ StopClient \/ StopClientFails
          BY <5>1, AwaitAt DEF StopTask, StopSignal, StopReap, StopClient, StopClientFails,
             Tasks, Workers
        <5>2. CASE StopEnters \/ StopYields \/ StopListening \/ StopConsumer
          BY <3>2, <5>2, AwaitAt DEF StopEnters, StopYields, StopListening, StopConsumer
        <5> QED BY <2>3, <5>1, <5>2 DEF PassStep, Stopping
      <4>2. ~ ConnectionReset
        BY <1>3, <2>1 DEF ConnectionReset, Raise, Shape
      <4> QED BY <4>1, <4>2 DEF StopConnections
    <3> QED BY <2>1, <3>1, <3>2
  <2> QED BY <2>1, <2>5, <2>6, <2>7, <2>8, <2>9 DEF Progress
<1> QED BY <1>1, <1>2, <1>3

\* The listener goes in ingest's turn only, when all else is stopped.
LEMMA PassListening ==
  ASSUME Shape, Ordered, Phased, Owned, Progress, Listening, PassStep
  PROVE  Listening'
<1>1. UNCHANGED components
  BY PassMoves
<1>2. /\ tasks' \subseteq tasks /\ (bridge' = "none" <=> bridge = "none")
      /\ BridgeLeft => BridgeLeft' \/ bridge' = "none"
  BY PassUndoes
<1>3. CASE StopYields
  <2>1. InPass /\ Current = "ingest"
    BY <1>3, AwaitAt DEF StopYields
  <2>2. Left = {"ingest"}
    BY <2>1, IngestIsLast DEF Left, InPass
  <2>3. bridge = "none" \/ BridgeLeft
    BY <2>2 DEF Owned, Stopped, Owners
  <2>4. "configuration" \notin tasks
    BY <2>2 DEF Owned, Stopped
  <2> QED BY <1>2, <2>3, <2>4 DEF Listening
<1>4. CASE ~ StopYields
  <2>1. "listener" \in held => "listener" \in held'
    BY <1>4 DEF PassStep, Stopping, StopTask, StopTaskRaises, StopSignal, StopReap,
       StopClient,
       StopEnters, StopYields, StopListening, StopConnections, StopConsumer,
       StopClientFails, ConnectionReset, ingest
  <2> QED BY <1>1, <1>2, <2>1 DEF Listening, Owned
<1> QED BY <1>3, <1>4

\* A stop of ingest that is not cut short releases all it holds.
LEMMA PassReleased ==
  ASSUME Shape, Ordered, Phased, Owned, Progress, Released, PassStep
  PROVE  Released'
<1>1. /\ InPass /\ (Stays \/ Moves)
      /\ UNCHANGED <<components, phase, made, locked, monitor, pass, python312>>
  BY PassMoves
<1>2. CASE StopTask \/ StopTaskRaises \/ StopSignal \/ StopReap \/ StopClient \/ StopClientFails
  <2>1. Current # "ingest"
    BY <1>2, AwaitAt DEF StopTask, StopTaskRaises, StopSignal, StopReap, StopClient,
       StopClientFails,
       Tasks, Workers
  <2>2. UNCHANGED <<server, held, connected>> /\ ("ingest" \in torn => "ingest" \in torn')
    BY <1>2, <2>1 DEF StopTask, StopTaskRaises, StopSignal, StopReap, StopClient,
       StopClientFails, ingest, process
  <2> QED BY <2>1, <2>2 DEF Released, Accepting
<1>3. CASE StopEnters
  <2>1. Current = "ingest" /\ step = 1 /\ UNCHANGED <<held, torn, connected>>
    BY <1>3, AwaitAt DEF StopEnters, process
  <2>2. CASE server
    <3>1. Stays
      BY <1>3, <2>1, <2>2, AwaitsOf DEF StopEnters, Advance, Stays
    <3>2. InPass' /\ Current' = "ingest" /\ step' = 2
      BY <1>1, <2>1, <3>1 DEF InPass, Stays, Current
    <3> QED BY <2>1, <3>2 DEF Released, Accepting
  <2>3. CASE ~ server
    BY <2>1, <2>3 DEF Released, Accepting
  <2> QED BY <2>2, <2>3
<1>4. CASE StopYields \/ StopListening \/ StopConnections
  <2>1. /\ Current = "ingest" /\ step \in 2..4 /\ Advance
    BY <1>4, AwaitAt DEF StopYields, StopListening, StopConnections
  <2>2. Stays
    BY <2>1, AwaitsOf DEF Advance, Stays
  <2>3. InPass' /\ Current' = "ingest" /\ step' >= 2
    BY <1>1, <2>1, <2>2 DEF InPass, Stays, Current
  <2>4. UNCHANGED torn /\ (Accepting => Accepting')
    <3>1. CASE StopYields \/ StopListening
      BY <3>1 DEF StopYields, StopListening, Accepting, ingest, process
    <3>2. CASE StopConnections
      <4>1. "listener" \notin held
        BY <3>2, AwaitAt DEF StopConnections, Progress
      <4> QED BY <3>2, <4>1 DEF StopConnections, Accepting
    <3> QED BY <1>4, <3>1, <3>2
  <2> QED BY <2>3, <2>4 DEF Released
<1>5. CASE ConnectionReset
  BY <1>5 DEF ConnectionReset, Released
<1>6. CASE StopConsumer
  <2>1. InPass /\ Current = "ingest" /\ step = 5
    BY <1>6, AwaitAt DEF StopConsumer
  <2>2. "listener" \notin held /\ "connections" \notin held
    BY <2>1 DEF Progress
  <2>3. held' = {}
    BY <1>6, <2>2 DEF StopConsumer, Shape, IngestParts
  <2>4. UNCHANGED <<torn, connected>>
    BY <1>6 DEF StopConsumer, process
  <2> QED BY <2>2, <2>3, <2>4 DEF Released, Accepting
<1> QED BY <1>2, <1>3, <1>4, <1>5, <1>6 DEF PassStep, Stopping

-----------------------------------------------------------------------------
(* The steps of a startup, and those that only move the lifespan. *)
Lifespan ==
  \/ FoundationFails \/ MakeClients \/ StartupRefused \/ StartupLocked
  \/ EnterOperational \/ StartMonitor \/ CacheUnreadable \/ Signal

\* Before the start, and after it, no pass is under way.
LEMMA NoPass ==
  ASSUME Shape, Phased, pass # "none"
  PROVE  phase # "loading" /\ (phase = "starting" => pass = "rollback")
BY DEF Shape, Phased, Closing

\* With nothing left nothing runs but the Bridge of a dead task.
LEMMA NothingRuns ==
  ASSUME Shape, Owned, Left = {}
  PROVE  tasks = {} /\ (Quiet \/ BridgeLeft) /\ ~server
<1>1. tasks = {}
  BY DEF Owned, Stopped
<1>2. bridge = "none" \/ BridgeLeft
  BY DEF Owned, Stopped, Owners
<1> QED BY <1>1, <1>2 DEF Quiet, Owned, Stopped

\* The lifespan's own steps keep everything.
LEMMA LifespanStep ==
  ASSUME IInv, Lifespan
  PROVE  IInv'
<1>1. UNCHANGED <<components, tracked, passing, ingest, background, torn, process,
                  configuration>>
  BY DEF Lifespan, FoundationFails, MakeClients, StartupRefused, StartupLocked,
     EnterOperational, StartMonitor, CacheUnreadable, Signal
<1> USE DEF IInv
<1>2. UNCHANGED <<pass, todo, step, failed, server, held, tasks, dead, torn, bridge,
                  connected, bridgeRunning, BridgeLeft, Accepting>>
  BY <1>1 DEF passing, ingest, background, process, configuration, BridgeLeft, Accepting
<1>3. UNCHANGED Current /\ UNCHANGED Awaits(Current)
  BY <1>2 DEF Current, Awaits
<1>4. Ordered' /\ Owned' /\ Progress' /\ Listening' /\ Released'
  BY <1>1, <1>2, <1>3 DEF Ordered, Distinct, Owned, Stopped, Left, Progress, Listening,
     Released, InPass
<1>5. Shape'
  <2>1. faults' \in 0..MaxFaults
    BY RuntimeAssumption DEF Shape, Faulty, Lifespan,
       FoundationFails, MakeClients, StartupRefused, StartupLocked,
       EnterOperational, StartMonitor, CacheUnreadable, Signal
  <2>2. made' \subseteq Clients /\ closed' \subseteq Clients \cup ComponentNames
    BY DEF Shape, Clients, clients, Lifespan,
       FoundationFails, MakeClients, StartupRefused, StartupLocked,
       EnterOperational, StartMonitor, CacheUnreadable, Signal
  <2>3. phase' \in Phases /\ locked' \in BOOLEAN
    BY DEF Shape, Phases, Lifespan,
       FoundationFails, MakeClients, StartupRefused, StartupLocked,
       EnterOperational, StartMonitor, CacheUnreadable, Signal
  <2>4. monitor' \in {"none", "polling", "locking", "done"}
    BY DEF Shape, Lifespan,
       FoundationFails, MakeClients, StartupRefused, StartupLocked,
       EnterOperational, StartMonitor, CacheUnreadable, Signal
  <2> QED BY <1>1, <1>2, <2>1, <2>2, <2>3, <2>4 DEF Shape
<1>6. phase = "loading" => Left = {} /\ ~InPass /\ pass = "none" /\ torn = {}
  BY NoPass, EmptyIsSeq DEF Phased, Left, InPass
<1>7. phase = "loading" => Quiet /\ held = {} /\ ~connected
  <2> SUFFICES ASSUME phase = "loading" PROVE Quiet /\ held = {} /\ ~connected
    OBVIOUS
  <2>1. tasks = {} /\ Quiet /\ ~server
    BY <1>6, NothingRuns DEF BridgeLeft
  <2> QED BY <1>6, <2>1 DEF Owned, Released, Quiet
<1>8. Phased'
  <2>1. CASE FoundationFails
    BY <1>1, <1>2, <1>3, <1>6, <2>1 DEF Phased, FoundationFails, Closing, InPass
  <2>2. CASE MakeClients
    BY <1>1, <1>2, <1>3, <2>2 DEF Phased, MakeClients, Closing, InPass
  <2>3. CASE StartupRefused \/ StartupLocked
    BY <1>1, <1>2, <1>3, <1>6, <2>3 DEF Phased, StartupRefused, StartupLocked, Closing, InPass
  <2>4. CASE EnterOperational
    <3>1. tracked = <<>> /\ Len(components) \in Nat
      BY <2>4, Composed, Elements DEF Phased, EnterOperational
    <3>2. Len(tracked) = 0 /\ DOMAIN tracked = {} /\ ToSet(tracked) = {}
      BY <3>1, EmptyIsSeq
    <3> QED BY <1>1, <1>2, <1>3, <1>6, <2>4, <3>1, <3>2
            DEF Phased, EnterOperational, Closing, InPass
  <2>5. CASE StartMonitor \/ CacheUnreadable
    BY <1>1, <1>2, <1>3, <2>5
       DEF Phased, StartMonitor, CacheUnreadable, Starting, Closing, InPass
  <2>6. CASE Signal
    BY <1>1, <1>2, <1>3, <2>6 DEF Phased, Signal, Closing, InPass
  <2> QED BY <2>1, <2>2, <2>3, <2>4, <2>5, <2>6 DEF Lifespan
<1>9. StoppedIsReleased'
  <2>1. CASE FoundationFails
    <3>1. made' = {} /\ monitor' = "none" /\ phase' = "failed"
      BY <2>1 DEF FoundationFails, clients, Phased
    <3>2. Quiet' /\ held' = {} /\ ~connected'
      BY <1>2, <1>7, <2>1 DEF Quiet, FoundationFails
    <3> QED BY <3>1, <3>2 DEF StoppedIsReleased
  <2>2. CASE MakeClients \/ StartupRefused \/ EnterOperational \/ CacheUnreadable \/ Signal
    BY <2>2 DEF StoppedIsReleased, MakeClients, StartupRefused, EnterOperational,
       CacheUnreadable, Signal
  <2>3. CASE StartupLocked
    BY <1>1, <1>2, <1>7, <2>3 DEF StoppedIsReleased, Quiet, StartupLocked
  <2>4. CASE StartMonitor
    BY <2>4 DEF StoppedIsReleased, StartMonitor, Starting, Phased
  <2> QED BY <2>1, <2>2, <2>3, <2>4 DEF Lifespan
<1> QED BY <1>4, <1>5, <1>8, <1>9

\* A factory that fails: there is nothing but clients to close.
LEMMA FactoryStep ==
  ASSUME IInv, FactoryFails
  PROVE  IInv'
<1> USE DEF IInv
<1>1. /\ phase = "loading" /\ phase' = "failing" /\ pass' = "last"
      /\ made' = (IF made = {} THEN {"backend"} ELSE made)
      /\ UNCHANGED <<components, closed, locked, tracked, monitor, todo, step, failed, server,
                     held, tasks, dead, bridge, connected, bridgeRunning, torn>>
  BY DEF FactoryFails, ingest, background, process, configuration
<1>2. /\ tracked = <<>> /\ todo = <<>> /\ torn = {} /\ dead = {} /\ monitor = "none"
      /\ pass = "none" /\ ToSet(tracked) = {} /\ ToSet(todo) = {}
  BY <1>1, NoPass, EmptyIsSeq DEF Phased
<1>3. faults' \in 0..MaxFaults
  BY RuntimeAssumption DEF FactoryFails, Faulty, Shape
<1>4. Shape'
  BY <1>1, <1>3 DEF Shape, Phases, Clients
<1>5. Ordered'
  BY <1>1 DEF Ordered, Distinct
<1>6. Phased'
  BY <1>1, <1>2 DEF Phased, Closing, InPass, BridgeLeft
<1>7. Owned'
  BY <1>1, <1>2 DEF Owned, Stopped, Left, BridgeLeft
<1>8. Progress' /\ Listening' /\ Released'
  BY <1>1, <1>2 DEF Progress, Listening, Released, Accepting, InPass, BridgeLeft
<1> QED BY <1>1, <1>4, <1>5, <1>6, <1>7, <1>8 DEF StoppedIsReleased

\* Starting one more component: the order of the list, and that ingest is
\* there before any other.
LEMMA Tracks ==
  ASSUME Shape, Ordered, Phased, More, Track, UNCHANGED <<components, todo>>
  PROVE  /\ Ordered' /\ ToStart \in ToSet(components) /\ ToStart \notin ToSet(tracked)
         /\ \A c : c \in ToSet(tracked)' <=> c = ToStart \/ c \in ToSet(tracked)
         /\ Len(tracked') <= Len(components)
         /\ \A i \in DOMAIN tracked' : tracked'[i] = components[i]
         /\ "ingest" \in ToSet(components) /\ ToStart # "ingest" => "ingest" \in ToSet(tracked)
<1> DEFINE n == Len(tracked) + 1
           t == Append(tracked, ToStart)
<1>1. /\ IsSeq(components) /\ Distinct(components)
      /\ \A i \in DOMAIN components : components[i] = "ingest" => i = 1
  BY Composed
<1>2. Len(components) \in Nat /\ DOMAIN components = 1..Len(components)
  BY <1>1, Elements
<1>3. Len(tracked) \in Nat /\ DOMAIN tracked = 1..Len(tracked)
  BY Elements DEF Ordered
<1>4. \A i \in DOMAIN tracked : tracked[i] = components[i]
  BY DEF More, Starting, Phased
<1>5. n \in DOMAIN components /\ ToStart = components[n]
  BY <1>2, <1>3 DEF More, ToStart
<1>6. /\ IsSeq(t) /\ Len(t) = n /\ DOMAIN t = 1..n
      /\ \A i \in 1..Len(tracked) : t[i] = tracked[i]
      /\ t[n] = ToStart
      /\ \A y : y \in ToSet(t) <=> y = ToStart \/ y \in ToSet(tracked)
  BY Appended DEF Ordered
<1>7. tracked' = t
  BY DEF Track
<1> HIDE DEF t
<1>8. \A i \in DOMAIN t : t[i] = components[i] /\ i \in DOMAIN components
  <2> SUFFICES ASSUME NEW i \in DOMAIN t
               PROVE  t[i] = components[i] /\ i \in DOMAIN components
    OBVIOUS
  <2>1. CASE i = n
    BY <1>5, <1>6, <2>1
  <2>2. CASE i # n
    <3>1. i \in 1..Len(tracked)
      BY <1>3, <1>6, <2>2
    <3>2. i \in DOMAIN components
      BY <1>2, <1>3, <1>5, <3>1
    <3> QED BY <1>3, <1>4, <1>6, <3>1, <3>2
  <2> QED BY <2>1, <2>2
<1>9. Distinct(t)
  <2> SUFFICES ASSUME NEW i \in DOMAIN t, NEW j \in DOMAIN t, t[i] = t[j] PROVE i = j
    BY DEF Distinct
  <2> QED BY <1>1, <1>8 DEF Distinct
<1>10. \A i \in DOMAIN t : t[i] = "ingest" => i = 1
  BY <1>1, <1>8
<1>11. ToStart \in ToSet(components)
  BY <1>1, <1>5, Elements
<1>12. ToStart \notin ToSet(tracked)
  <2> SUFFICES ASSUME NEW i \in DOMAIN tracked, ToStart = tracked[i] PROVE FALSE
    BY Elements DEF Ordered
  <2>1. i \in DOMAIN components
    BY <1>2, <1>3, <1>5
  <2>2. i \in DOMAIN components /\ components[i] = components[n]
    BY <1>4, <1>5, <2>1
  <2>3. i = n
    BY <1>1, <1>5, <2>2 DEF Distinct
  <2> QED BY <1>3, <2>3
<1>13. ASSUME "ingest" \in ToSet(components), ToStart # "ingest"
       PROVE  "ingest" \in ToSet(tracked)
  <2>1. PICK i \in DOMAIN components : "ingest" = components[i]
    BY <1>1, <1>13, Elements
  <2>2. i = 1
    BY <1>1, <2>1
  <2>3. n # 1
    BY <1>5, <1>13, <2>1, <2>2
  <2>4. 1 \in DOMAIN tracked
    BY <1>3, <2>3
  <2>5. tracked[1] = "ingest"
    BY <1>4, <2>1, <2>2, <2>4
  <2> QED BY <2>4, <2>5, Elements DEF Ordered
<1>14. Ordered'
  BY <1>6, <1>7, <1>9, <1>10, <1>11 DEF Ordered, Distinct
<1>15. Len(t) <= Len(components)
  BY <1>2, <1>5, <1>6
<1> QED BY <1>6, <1>7, <1>8, <1>11, <1>12, <1>13, <1>14, <1>15

ComponentStarts == StartIngest \/ StartDeepStream \/ StartConfiguration \/ StartWorker

\* A component starts.
LEMMA StartStep ==
  ASSUME IInv, ComponentStarts
  PROVE  IInv'
<1> USE DEF IInv
<1>1. /\ More /\ Track
      /\ UNCHANGED <<components, phase, made, closed, locked, monitor, pass, todo, step,
                     failed, dead, torn, connected, faults>>
  BY DEF ComponentStarts, StartIngest, StartDeepStream, StartConfiguration, StartWorker,
     clients, passing, ingest, process, background
<1>2. phase = "starting" /\ pass = "none"
  BY <1>1 DEF More, Starting
<1>3. dead = {} /\ ~BridgeLeft /\ ~BridgeLeft'
  BY <1>1, <1>2 DEF Phased, BridgeLeft
<1>4. /\ Ordered' /\ ToStart \in ToSet(components) /\ ToStart \notin ToSet(tracked)
      /\ \A c : c \in ToSet(tracked)' <=> c = ToStart \/ c \in ToSet(tracked)
      /\ Len(tracked') <= Len(components)
      /\ \A i \in DOMAIN tracked' : tracked'[i] = components[i]
      /\ "ingest" \in ToSet(components) /\ ToStart # "ingest" => "ingest" \in ToSet(tracked)
  BY <1>1, Tracks
<1>5. Stopped(ToStart)
  BY <1>2, <1>4 DEF Owned, Left
<1>6. "ingest" \in ToSet(components) /\ ToStart # "ingest" => held = IngestParts
  BY <1>2, <1>4 DEF Phased
<1>7. ToStart # "ingest" => UNCHANGED <<held, server>>
  BY DEF ComponentStarts, StartIngest, StartDeepStream, StartConfiguration, StartWorker,
     ingest
<1>8. ToStart = "ingest" => held' = IngestParts /\ server'
                            /\ UNCHANGED <<tasks, bridge, bridgeRunning>>
  BY DEF background, ComponentStarts, StartIngest, StartDeepStream, StartConfiguration,
     StartWorker,
     process, configuration, Workers
<1>9. ToStart = "deepstream" => bridge' = "alive" /\ UNCHANGED <<tasks, bridgeRunning>>
  BY DEF background, ComponentStarts, StartIngest, StartDeepStream, StartConfiguration,
     StartWorker,
     configuration, Workers
<1>10. ToStart = "configuration" =>
        /\ bridge' \in {"none", "alive"} /\ bridgeRunning' = (bridge' = "alive")
        /\ tasks' = tasks \cup {ToStart}
  BY DEF ComponentStarts, StartIngest, StartDeepStream, StartConfiguration, StartWorker,
     Workers
<1>11. ToStart \in Workers => tasks' = tasks \cup {ToStart} /\ UNCHANGED <<bridge,
                                                                           bridgeRunning>>
  BY DEF ComponentStarts, StartIngest, StartDeepStream, StartConfiguration, StartWorker,
     process, configuration, Workers
<1>12. ToStart \in ComponentNames
  BY <1>4, Composed
<1>13. ~ ("deepstream" \in ToSet(components) /\ "configuration" \in ToSet(components))
  BY Composed
<1>14. CASE ToStart = "ingest"
  <2>1. Shape'
    BY <1>1, <1>8, <1>14 DEF Shape
  <2>2. Phased'
    BY <1>3, <1>1, <1>2, <1>4, <1>8, <1>14 DEF Phased, Closing, InPass
  <2>3. Owned'
    BY <1>3, <1>1, <1>2, <1>4, <1>8, <1>14 DEF Owned, Left, Stopped, Owners
  <2>4. Listening'
    BY <1>1, <1>8, <1>14 DEF Listening, IngestParts
  <2>5. Released'
    BY <1>8, <1>14 DEF Released, Accepting, IngestParts
  <2> QED BY <1>1, <1>2, <1>4, <2>1, <2>2, <2>3, <2>4, <2>5
          DEF Progress, InPass, StoppedIsReleased
<1>15. CASE ToStart = "deepstream"
  <2>1. Shape'
    BY <1>1, <1>7, <1>9, <1>15 DEF Shape
  <2>2. Phased'
    BY <1>3, <1>1, <1>2, <1>4, <1>6, <1>7, <1>15 DEF Phased, Closing, InPass
  <2>3. Owned'
    BY <1>3, <1>1, <1>2, <1>4, <1>7, <1>9, <1>13, <1>15 DEF Owned, Left, Stopped, Owners
  <2>4. Listening'
    BY <1>1, <1>6, <1>7, <1>15 DEF Listening, IngestParts
  <2>5. Released'
    BY <1>1, <1>2, <1>7, <1>15 DEF Released, Accepting, InPass
  <2> QED BY <1>1, <1>2, <1>4, <2>1, <2>2, <2>3, <2>4, <2>5
          DEF Progress, InPass, StoppedIsReleased
<1>16. CASE ToStart = "configuration"
  <2>1. Shape'
    BY <1>1, <1>7, <1>10, <1>16 DEF Shape
  <2>2. Phased'
    BY <1>3, <1>1, <1>2, <1>4, <1>6, <1>7, <1>16 DEF Phased, Closing, InPass
  <2>3. Owned'
    <3>1. bridge = "none" /\ ~connected
      BY <1>5, <1>16, <1>3 DEF Stopped, Owners, Owned
    <3>2. tasks' \subseteq Tasks \cap ToSet(components)
      BY <1>4, <1>10, <1>16 DEF Owned, Tasks
    <3>3. ASSUME NEW c \in ToSet(components), c \notin ToSet(tracked)'
          PROVE  c \notin tasks' /\ c \notin Owners /\ (c = "ingest" => ~server')
      <4>1. c # "configuration" /\ c # "deepstream" /\ c \notin ToSet(tracked)
        BY <1>4, <1>13, <1>16, <3>3
      <4>2. c \notin tasks /\ (c = "ingest" => ~server)
        BY <1>2, <4>1 DEF Owned, Left, Stopped
      <4> QED BY <1>7, <1>10, <1>16, <4>1, <4>2 DEF Owners
    <3>4. bridge' # "none" => bridgeRunning' /\ "configuration" \in Owners
      BY <1>10, <1>16 DEF Owners
    <3>5. ASSUME NEW c \in ToSet(components), c \notin Left' PROVE Stopped(c)'
      BY <1>1, <1>2, <3>3, <3>5 DEF Left, Stopped
    <3>6. server' => "ingest" \in ToSet(components)
      BY <1>7, <1>16 DEF Owned
    <3> QED BY <1>1, <1>4, <1>16, <3>1, <3>2, <3>4, <3>5, <3>6, <1>3 DEF Owned
  <2>4. Listening'
    BY <1>1, <1>6, <1>7, <1>16 DEF Listening, IngestParts
  <2>5. Released'
    BY <1>1, <1>2, <1>7, <1>16 DEF Released, Accepting, InPass
  <2> QED BY <1>1, <1>2, <1>4, <2>1, <2>2, <2>3, <2>4, <2>5
          DEF Progress, InPass, StoppedIsReleased
<1>17. CASE ToStart \in Workers
  <2>1. ToStart # "ingest" /\ ToStart # "configuration" /\ ToStart # "deepstream"
    BY <1>17 DEF Workers
  <2>2. Shape'
    BY <1>1, <1>7, <1>11, <1>17, <2>1 DEF Shape
  <2>3. Phased'
    BY <1>3, <1>1, <1>2, <1>4, <1>6, <1>7, <2>1 DEF Phased, Closing, InPass
  <2>4. Owned'
    <3>1. tasks' \subseteq Tasks \cap ToSet(components)
      BY <1>4, <1>11, <1>17 DEF Owned, Tasks
    <3>2. ASSUME NEW c \in ToSet(components), c \notin Left' PROVE Stopped(c)'
      <4>1. c # ToStart /\ c \notin ToSet(tracked)
        BY <1>1, <1>2, <1>4, <3>2 DEF Left
      <4>2. Stopped(c)
        BY <1>2, <4>1 DEF Owned, Left
      <4> QED BY <1>7, <1>11, <1>17, <1>3, <2>1, <4>1, <4>2 DEF Stopped
    <3> QED BY <1>1, <1>7, <1>11, <1>17, <2>1, <3>1, <3>2, <1>3 DEF Owned
  <2>5. Listening'
    BY <1>1, <1>7, <1>11, <1>17, <1>3, <2>1 DEF Listening
  <2>6. Released'
    BY <1>1, <1>2, <1>7, <2>1 DEF Released, Accepting, InPass
  <2> QED BY <1>1, <1>2, <1>4, <2>2, <2>3, <2>4, <2>5, <2>6
          DEF Progress, InPass, StoppedIsReleased
<1> QED BY <1>12, <1>14, <1>15, <1>16, <1>17 DEF ComponentNames

-----------------------------------------------------------------------------
(* A pass begins, ends, or is cut short. *)

\* All a pass begins with may still run, whatever was left of the last one.
LEMMA PassBegins ==
  ASSUME Shape, Ordered, Owned, Listening, Released, ~InPass, NEW kind, kind # "none",
         Begin(kind),
         UNCHANGED <<components, tracked, server, background, process, configuration>>,
         UNCHANGED <<held, torn>> \/ (torn' = torn \cup {"ingest"} /\ "listener" \in held')
  PROVE  /\ Ordered' /\ Owned' /\ Progress' /\ Listening' /\ Released'
         /\ pass' = kind /\ step' = 1 /\ (InPass' => step' <= Len(Awaits(Current))')
<1>1. /\ Ordered' /\ pass' = kind /\ step' = 1
      /\ \A c : c \in ToSet(todo)' <=> c \in ToSet(tracked)
  BY Begins DEF Begin
<1>2. UNCHANGED <<server, tasks, dead, bridge, connected, bridgeRunning, BridgeLeft>>
  BY DEF background, process, configuration, BridgeLeft
<1>3. Left \subseteq ToSet(tracked)
  BY DEF Left, Ordered
<1>4. Owned'
  <2>1. \A c \in ToSet(components) : c \notin Left' => c \notin Left
    BY <1>1, <1>3 DEF Left
  <2> QED BY <1>2, <2>1 DEF Owned, Stopped
<1>5. Progress' /\ Listening' /\ Released'
  BY <1>1, <1>2 DEF Progress, Listening, Released, Accepting
<1>6. \A c : Len(Awaits(c)) \in {2, 4, 5}
  BY DEF Awaits
<1>7. Len(Awaits(Current))' \in {2, 4, 5}
  BY <1>6 DEF Awaits
<1> QED BY <1>1, <1>4, <1>5, <1>7

\* A failed start begins a rollback.
LEMMA StartFailsStep ==
  ASSUME IInv, StartFails
  PROVE  IInv'
<1> USE DEF IInv
<1>1. /\ phase = "starting" /\ pass = "none" /\ ~InPass
      /\ UNCHANGED <<components, phase, clients, locked, tracked, monitor, server, background,
                     process, configuration, python312>>
  BY DEF StartFails, More, Starting, InPass
<1>2. UNCHANGED <<held, torn>> \/ (torn' = torn \cup {"ingest"} /\ "listener" \in held')
  BY DEF StartFails
<1>3. /\ Ordered' /\ Owned' /\ Progress' /\ Listening' /\ Released'
      /\ pass' = "rollback" /\ step' = 1 /\ (InPass' => step' <= Len(Awaits(Current))')
  BY <1>1, <1>2, PassBegins DEF StartFails
<1>4. UNCHANGED <<server, tasks, dead, bridge, connected, bridgeRunning, made, closed>>
  BY <1>1 DEF background, process, configuration, clients
<1>5. faults' \in 0..MaxFaults
  BY RuntimeAssumption DEF StartFails, Faulty, Shape
<1>6. held' \subseteq IngestParts /\ torn' \subseteq TornParts
  BY DEF StartFails, Shape, IngestParts, TornParts
<1>7. Shape'
  BY <1>1, <1>3, <1>4, <1>5, <1>6 DEF Shape
<1>8. Phased'
  BY <1>1, <1>2, <1>3, <1>4 DEF Phased, Closing, BridgeLeft
<1>9. StoppedIsReleased'
  BY <1>1, <1>3 DEF StoppedIsReleased
<1> QED BY <1>3, <1>7, <1>8, <1>9

\* The monitor locks the runtime and stops what runs.
LEMMA MonitorEndsStep ==
  ASSUME IInv, MonitorEnds
  PROVE  IInv'
<1> USE DEF IInv
<1>1. /\ phase = "serving" /\ pass = "none" /\ ~InPass /\ monitor' = "locking" /\ locked'
      /\ UNCHANGED <<components, phase, clients, tracked, ingest, background, torn,
                     process, configuration, python312, faults>>
  BY DEF MonitorEnds, InPass
<1>2. PICK kind \in {"lock", "retry"} : Begin(kind)
  BY DEF MonitorEnds
<1>3. /\ Ordered' /\ Owned' /\ Progress' /\ Listening' /\ Released'
      /\ pass' = kind /\ step' = 1 /\ (InPass' => step' <= Len(Awaits(Current))')
  BY <1>1, <1>2, PassBegins DEF ingest
<1>4. UNCHANGED <<server, held, tasks, dead, torn, bridge, connected, bridgeRunning, made,
                  closed>>
  BY <1>1 DEF ingest, background, process, configuration, clients
<1>5. locked' \in BOOLEAN
  BY DEF MonitorEnds
<1>6. Shape'
  BY <1>1, <1>2, <1>3, <1>4, <1>5 DEF Shape
<1>7. Phased'
  BY <1>1, <1>2, <1>3, <1>4 DEF Phased, Closing, BridgeLeft
<1>8. StoppedIsReleased'
  BY <1>1, <1>2, <1>3 DEF StoppedIsReleased
<1> QED BY <1>3, <1>6, <1>7, <1>8

\* The last pass of a shutdown.
LEMMA LastPassStep ==
  ASSUME IInv, LastPass
  PROVE  IInv'
<1> USE DEF IInv
<1>1. /\ Closing /\ pass = "none" /\ ~InPass /\ monitor \in {"none", "done"} /\ locked'
      /\ UNCHANGED <<components, phase, clients, tracked, monitor, ingest, background, torn,
                     process, configuration, python312, faults>>
  BY DEF LastPass, InPass
<1>2. /\ Ordered' /\ Owned' /\ Progress' /\ Listening' /\ Released'
      /\ pass' = "last" /\ step' = 1 /\ (InPass' => step' <= Len(Awaits(Current))')
  BY <1>1, PassBegins DEF LastPass, ingest
<1>3. UNCHANGED <<server, held, tasks, dead, torn, bridge, connected, bridgeRunning, made,
                  closed>>
  BY <1>1 DEF ingest, background, process, configuration, clients
<1>4. locked' \in BOOLEAN
  BY DEF LastPass
<1>5. Shape'
  BY <1>1, <1>2, <1>3, <1>4 DEF Shape
<1>6. Phased'
  BY <1>1, <1>2, <1>3 DEF Phased, Closing, BridgeLeft
<1>7. StoppedIsReleased'
  BY <1>1, <1>2 DEF StoppedIsReleased, Closing
<1> QED BY <1>2, <1>5, <1>6, <1>7

\* Ending a pass leaves what is tracked, at least what was left of it.
LEMMA PassEnds ==
  ASSUME Shape, Ordered, Owned, Listening, Released, pass' = "none",
         UNCHANGED <<components, tracked, server, held, background, process, configuration>>,
         Ordered',
         \/ torn' = torn \cup {"ingest"}
         \/ UNCHANGED torn /\ ~(InPass /\ Current = "ingest" /\ step >= 2)
  PROVE  Owned' /\ Progress' /\ Listening' /\ Released'
<1>1. UNCHANGED <<tasks, dead, bridge, connected, bridgeRunning, BridgeLeft>>
  BY DEF background, process, configuration, BridgeLeft
<1>2. \A c \in ToSet(components) : c \notin Left' => c \notin Left
  BY DEF Left, Ordered
<1> QED BY <1>1, <1>2 DEF Owned, Stopped, Progress, Listening, Released, Accepting, InPass

\* A rollback is over, or a locked runtime is at rest.
LEMMA IdleStep ==
  ASSUME IInv, RolledBack \/ (MonitorStops /\ Idle)
  PROVE  IInv'
<1> USE DEF IInv
<1>1. /\ PassOver /\ Idle /\ ~InPass
      /\ UNCHANGED <<components, clients, locked, tracked, ingest, background, torn, process,
                     configuration, python312, faults>>
  BY DEF RolledBack, MonitorStops, PassOver, InPass
<1>2. /\ pass' = "none" /\ UNCHANGED <<todo, step, failed, made, closed>>
      /\ UNCHANGED <<server, held, tasks, dead, torn, bridge, connected, bridgeRunning>>
  BY <1>1 DEF Idle, ingest, background, process, configuration, clients
<1>3. Ordered'
  BY <1>1, <1>2 DEF Ordered, Distinct
<1>4. Owned' /\ Progress' /\ Listening' /\ Released'
  BY <1>1, <1>2, <1>3, PassEnds
<1>5. Left = {}
  BY <1>1, NothingLeft
<1>6. tasks = {} /\ (Quiet \/ BridgeLeft)
  BY <1>5, NothingRuns
<1>7. CASE RolledBack
  <2>1. phase' = "failing" /\ pass = "rollback" /\ UNCHANGED monitor
    BY <1>7 DEF RolledBack
  <2>2. Shape'
    BY <1>1, <1>2, <2>1 DEF Shape, Phases
  <2>3. Phased'
    BY <1>1, <1>2, <2>1 DEF Phased, InPass, BridgeLeft
  <2> QED BY <1>3, <1>4, <2>1, <2>2, <2>3 DEF StoppedIsReleased
<1>8. CASE MonitorStops /\ Idle
  <2>1. pass \in {"lock", "retry"} /\ monitor' = "done" /\ UNCHANGED phase
    BY <1>2, <1>8 DEF MonitorStops, Begin
  <2>2. phase \notin {"loading", "starting", "failed", "down"}
    BY <2>1 DEF Phased, StoppedIsReleased
  <2>3. Shape'
    BY <1>1, <1>2, <2>1 DEF Shape
  <2>4. Phased'
    BY <1>1, <1>2, <2>1, <2>2 DEF Phased, InPass, BridgeLeft
  <2>5. StoppedIsReleased'
    BY <1>2, <1>6, <2>1, <2>2 DEF StoppedIsReleased, Quiet, BridgeLeft
  <2> QED BY <1>3, <1>4, <2>3, <2>4, <2>5
<1> QED BY <1>7, <1>8

Closes == CloseValidation \/ CloseValidationFails \/ CloseBackend \/ CloseBackendFails

\* The clients close, or fail to, when nothing is left of the last pass.
LEMMA CloseStep ==
  ASSUME IInv, Closes
  PROVE  IInv'
<1> USE DEF IInv
<1>1. /\ PassOver /\ pass \in {"last", "backend"} /\ ~InPass /\ pass' \in {"none", "backend"}
      /\ UNCHANGED <<components, made, locked, tracked, monitor, todo, step, failed, ingest,
                     background, process, configuration, python312>>
  BY DEF Closes, CloseValidation, CloseValidationFails, CloseBackend, CloseBackendFails, Idle,
     PassOver, InPass, clients
<1>2. UNCHANGED <<server, held, tasks, dead, bridge, connected, bridgeRunning>>
  BY <1>1 DEF ingest, background, process, configuration
<1>3. /\ closed \subseteq closed' /\ closed' \subseteq closed \cup made
      /\ torn \subseteq torn' /\ torn' \subseteq torn \cup Clients
  BY DEF Closes, CloseValidation, CloseValidationFails, CloseBackend, CloseBackendFails,
     Close,
     Clients, clients
<1>4. UNCHANGED <<BridgeLeft, Quiet>> /\ ("ingest" \in torn' <=> "ingest" \in torn)
  BY <1>2, <1>3 DEF BridgeLeft, Quiet, Clients
<1>5. Closing /\ monitor \in {"none", "done"} /\ todo = <<>> /\ Left = {}
  BY <1>1, NothingLeft DEF Phased, PassOver
<1>6. tasks = {} /\ (Quiet \/ BridgeLeft) /\ ~server
  BY <1>5, NothingRuns
<1>7. "ingest" \in torn \/ (held = {} /\ ~connected)
  BY <1>1, <1>6 DEF Released, Accepting
<1>8. Ordered' /\ Owned' /\ Progress' /\ Listening' /\ Released'
  <2>1. Ordered'
    BY <1>1 DEF Ordered, Distinct
  <2>2. ~InPass'
    BY <1>1, <1>5 DEF InPass
  <2>3. \A c \in ToSet(components) : Stopped(c)
    BY <1>5 DEF Owned
  <2>4. Owned'
    BY <1>1, <1>2, <1>4, <2>3 DEF Owned, Stopped
  <2> QED BY <1>1, <1>2, <1>4, <2>1, <2>2, <2>4, <1>6, <1>7
          DEF Progress, Listening, Released, Accepting
<1>9. /\ phase' = phase \/ (phase = "failing" /\ phase' = "failed") \/ phase' = "down"
      /\ phase' = "down" => phase = "closing"
  BY <1>5 DEF Closes, CloseValidation, CloseValidationFails, CloseBackend, CloseBackendFails,
     LastPhase, Closing
<1>10. phase' = phase <=> pass' = "backend"
  BY <1>1, <1>5 DEF Closes, CloseValidation, CloseValidationFails, CloseBackend,
     CloseBackendFails, LastPhase, Closing, Idle
<1>11. pass' = "backend" => \A c \in made' \ closed' : c \in torn' \cup {"backend"}
  <2> SUFFICES ASSUME pass' = "backend", NEW c \in made \ closed', c # "backend"
               PROVE  c \in torn'
    BY <1>1
  <2>1. c = "validation"
    BY DEF Shape, Clients
  <2>2. CloseValidation \/ CloseValidationFails
    BY DEF Closes, CloseBackend, CloseBackendFails, Idle
  <2> QED BY <2>1, <2>2 DEF CloseValidation, CloseValidationFails, Close
<1>12. ASSUME pass' = "none", NEW c \in made' \ closed'
       PROVE  c \in torn' \/ (phase' = "failed" /\ "validation" \in torn')
  <2>1. CASE CloseBackend \/ CloseBackendFails
    <3>1. c \in torn \cup {"backend"}
      BY <1>1, <1>3, <1>12, <2>1 DEF CloseBackend, CloseBackendFails, Phased
    <3>2. c = "backend" => c \in closed' \/ c \in torn'
      BY <1>1, <1>12, <2>1 DEF CloseBackend, CloseBackendFails, Close
    <3> QED BY <1>3, <1>12, <3>1, <3>2
  <2>2. CASE CloseValidation \/ CloseValidationFails
    BY <1>12, <2>2 DEF CloseValidation, CloseValidationFails, LastPhase
  <2> QED BY <2>1, <2>2 DEF Closes
<1>13. Shape'
  <2>1. faults' \in 0..MaxFaults
    BY RuntimeAssumption DEF Shape, Faulty, Closes, CloseValidation, CloseValidationFails,
       CloseBackend, CloseBackendFails
  <2>2. phase' \in Phases
    BY <1>9 DEF Shape, Phases
  <2>3. torn' \subseteq TornParts /\ closed' \subseteq Clients \cup ComponentNames
    BY <1>3 DEF Shape, TornParts, Clients
  <2> QED BY <1>1, <1>2, <2>1, <2>2, <2>3 DEF Shape
<1>14. Phased'
  BY <1>1, <1>2, <1>4, <1>5, <1>9, <1>10, <1>11 DEF Phased, Closing, InPass
<1>15. StoppedIsReleased'
  <2>1. CASE pass' = "backend"
    BY <1>5, <1>10, <2>1 DEF StoppedIsReleased, Closing
  <2>2. CASE pass' = "none"
    <3>1. phase' \in {"failed", "down"}
      BY <1>9, <1>10, <2>2
    <3>2. phase' = "failed" => Quiet
      BY <1>5, <1>6, <1>9, <1>10, <2>2 DEF Phased, Closing
    <3> QED BY <1>1, <1>2, <1>4, <1>5, <1>6, <1>7, <1>12, <2>2, <3>1, <3>2
            DEF StoppedIsReleased
  <2> QED BY <1>1, <2>1, <2>2
<1> QED BY <1>8, <1>13, <1>14, <1>15

\* The monitor's first pass failed: it goes over what is tracked once more.
LEMMA RetryStep ==
  ASSUME IInv, MonitorStops, ~Idle
  PROVE  IInv'
<1> USE DEF IInv
<1>1. /\ PassOver /\ ~InPass /\ pass \in {"lock", "retry"} /\ Begin("retry")
      /\ UNCHANGED <<components, phase, clients, locked, tracked, ingest, background, torn,
                     process,
                     configuration, monitor, python312, faults>>
  BY DEF MonitorStops, PassOver, InPass
<1>2. /\ Ordered' /\ Owned' /\ Progress' /\ Listening' /\ Released'
      /\ pass' = "retry" /\ step' = 1 /\ (InPass' => step' <= Len(Awaits(Current))')
  BY <1>1, PassBegins DEF ingest
<1>3. UNCHANGED <<server, held, tasks, dead, torn, bridge, connected, bridgeRunning, made,
                  closed>>
  BY <1>1 DEF ingest, background, process, configuration, clients
<1>4. phase \notin {"loading", "starting", "failed", "down"}
  BY <1>1 DEF Phased, StoppedIsReleased
<1>5. Shape'
  BY <1>1, <1>2, <1>3 DEF Shape
<1>6. Phased'
  BY <1>1, <1>2, <1>3, <1>4 DEF Phased, BridgeLeft
<1>7. StoppedIsReleased'
  BY <1>1, <1>2, <1>4 DEF StoppedIsReleased
<1> QED BY <1>2, <1>5, <1>6, <1>7

\* The monitor's task is cancelled, where it polls or in a pass.
LEMMA CancelStep ==
  ASSUME IInv, CancelMonitor
  PROVE  IInv'
<1> USE DEF IInv
<1>1. /\ Closing /\ monitor \in {"polling", "locking"} /\ (monitor = "locking" => Raises)
      /\ torn' = torn \cup (IF At("yields") \/ At("closed") THEN {"ingest"} ELSE {})
      /\ monitor' = "done" /\ pass' = "none" /\ todo' = <<>> /\ step' = 1
      /\ UNCHANGED <<components, phase, made, closed, locked, tracked, failed, server, held,
                     background,
                     process, configuration, python312, faults>>
  BY DEF CancelMonitor, clients, ingest
<1>2. UNCHANGED <<tasks, dead, bridge, connected, bridgeRunning, BridgeLeft>>
  BY <1>1 DEF background, process, configuration, BridgeLeft
<1>3. Ordered'
  BY <1>1, Ends
<1>4. \/ torn' = torn \cup {"ingest"}
      \/ UNCHANGED torn /\ ~(InPass /\ Current = "ingest" /\ step >= 2)
  <2>1. CASE At("yields") \/ At("closed")
    BY <1>1, <2>1
  <2>2. CASE ~ (At("yields") \/ At("closed"))
    <3>1. torn' = torn
      BY <1>1, <2>2 DEF Shape
    <3>2. CASE monitor = "polling"
      <4>1. pass = "none"
        BY <1>1, <3>2 DEF Phased, Shape, Closing
      <4> QED BY <3>1, <4>1 DEF InPass
    <3>3. CASE monitor = "locking"
      <4>1. At("reap") \/ At("client")
        BY <1>1, <2>2, <3>3 DEF Raises
      <4>2. Current # "ingest"
        BY <4>1, AwaitAt DEF Workers
      <4> QED BY <3>1, <4>2
    <3> QED BY <1>1, <3>2, <3>3
  <2> QED BY <2>1, <2>2
<1>5. Owned' /\ Progress' /\ Listening' /\ Released'
  BY <1>1, <1>3, <1>4, PassEnds
<1>6. torn' \subseteq TornParts
  BY <1>1, <1>4 DEF Shape, TornParts
<1>7. Shape'
  BY <1>1, <1>2, <1>6 DEF Shape
<1>8. Phased'
  BY <1>1, <1>2 DEF Phased, Closing, InPass
<1>9. StoppedIsReleased'
  BY <1>1 DEF StoppedIsReleased, Closing
<1> QED BY <1>3, <1>5, <1>7, <1>8, <1>9

-----------------------------------------------------------------------------
(* The child process, and the configuration task that restarts it. *)
Applies == ApplyStops \/ ApplyReaps \/ ApplySpawns \/ ApplySpawnFails
Background == Child \/ Applies

\* Neither the child nor the configuration task touches a pass, and a
\* configuration task that is alive is still left of any pass.
LEMMA BackgroundStep ==
  ASSUME IInv, Background
  PROVE  IInv'
<1> USE DEF IInv
<1>1. UNCHANGED <<components, phase, clients, locked, tracked, monitor, passing, ingest,
                  background, torn,
                  python312>>
  BY DEF Background, Child, Connect, BridgeEnds, BridgeExits, Applies, ApplyStops,
     ApplyReaps, ApplySpawns, ApplySpawnFails
<1>2. UNCHANGED <<made, closed, pass, todo, step, failed, server, held, tasks, dead, torn,
                  BridgeLeft>>
  BY <1>1 DEF clients, passing, ingest, background, BridgeLeft
<1>3. UNCHANGED Current /\ UNCHANGED Awaits(Current)
  BY <1>2 DEF Current, Awaits
<1>4. faults' \in 0..MaxFaults
  BY RuntimeAssumption DEF Shape, Faulty, Background, Child, Connect, BridgeEnds, BridgeExits,
     Applies, ApplyStops, ApplyReaps, ApplySpawns, ApplySpawnFails
<1>5. /\ bridge' \in {"none", "alive", "ending"} /\ connected' \in BOOLEAN
      /\ bridgeRunning' \in BOOLEAN
  BY DEF Shape, Background, Child, Connect, BridgeEnds, BridgeExits, Gone, Flag, process,
     configuration, Applies, ApplyStops, ApplyReaps, ApplySpawns, ApplySpawnFails
<1>6. Shape' /\ Ordered' /\ Phased'
  BY <1>1, <1>2, <1>3, <1>4, <1>5 DEF Shape, Ordered, Distinct, Phased, Closing, InPass
<1>7. Released'
  <2>1. Accepting => Accepting'
    BY <1>2 DEF Accepting, Background, Child, Connect, BridgeEnds, BridgeExits, Gone, process,
       Applies, ApplyStops, ApplyReaps, ApplySpawns, ApplySpawnFails
  <2> QED BY <1>2, <1>3, <2>1 DEF Released, InPass
<1>8. CASE ~ ApplySpawns
  <2>1. /\ bridge = "none" => bridge' = "none"
        /\ connected' => bridge' # "none"
        /\ bridge' # "none" => UNCHANGED bridgeRunning
    BY <1>8 DEF Background, Child, Connect, BridgeEnds, BridgeExits, Gone, Flag, process,
       Applies, ApplyStops, ApplyReaps, ApplySpawnFails, Owned, configuration
  <2>2. Owned'
    <3>1. BridgeLeft => UNCHANGED bridgeRunning
      BY <1>8 DEF Owned, Background, Child, Connect, BridgeEnds, BridgeExits, Applies,
         Applying,
         ApplyStops, ApplyReaps, ApplySpawnFails, Flag, configuration
    <3> QED BY <1>1, <1>2, <2>1, <3>1 DEF Owned, Stopped, Left
  <2>3. Progress' /\ Listening'
    BY <1>1, <1>2, <1>3, <2>1 DEF Progress, Listening, InPass
  <2>4. Quiet => Quiet'
    BY <1>2, <2>1 DEF Quiet
  <2>5. StoppedIsReleased'
    <3>1. held = {} => (connected' => connected)
      BY <1>8 DEF Background, Child, Connect, BridgeEnds, BridgeExits, Gone, process, Applies,
         ApplyStops, ApplyReaps, ApplySpawnFails
    <3> QED BY <1>1, <1>2, <2>4, <3>1 DEF StoppedIsReleased
  <2> QED BY <1>6, <1>7, <2>2, <2>3, <2>5
<1>9. CASE ApplySpawns
  <2>1. /\ "configuration" \in tasks /\ bridge' = "alive" /\ bridgeRunning'
        /\ UNCHANGED connected
    BY <1>9 DEF ApplySpawns, Applying
  <2>2. "configuration" \in ToSet(components) /\ "deepstream" \notin ToSet(components)
    BY <2>1, Composed DEF Owned
  <2>3. "configuration" \in Left
    BY <2>1, <2>2 DEF Owned, Stopped
  <2>4. ASSUME NEW c \in ToSet(components), c \notin Left' PROVE Stopped(c)'
    <3>1. c \notin Left /\ c # "configuration" /\ c # "deepstream"
      BY <1>1, <1>2, <2>2, <2>3, <2>4 DEF Left
    <3> QED BY <1>1, <1>2, <3>1 DEF Owned, Stopped, Owners
  <2>5. Owned'
    BY <1>1, <1>2, <2>1, <2>2, <2>4 DEF Owned, Owners
  <2>6. Progress'
    <3>1. InPass /\ Current = "configuration" => ~ step >= 2
      BY <2>1 DEF Progress, Tasks
    <3>2. step >= 4 => step >= 2
      BY DEF Shape
    <3> QED BY <1>1, <1>2, <1>3, <3>1, <3>2 DEF Progress, InPass
  <2>7. Listening'
    BY <1>1, <1>2, <2>1 DEF Listening
  <2>8. StoppedIsReleased'
    BY <1>1, <1>2, <2>1 DEF StoppedIsReleased, Quiet
  <2> QED BY <1>6, <1>7, <2>5, <2>6, <2>7, <2>8
<1> QED BY <1>8, <1>9

\* A background task dies: it leaves a Bridge where it is.
LEMMA TaskDiesStep ==
  ASSUME IInv, NEW c \in tasks, TaskDies(c)
  PROVE  IInv'
<1> USE DEF IInv
<1>1. /\ tasks' = tasks \ {c} /\ dead' = dead \cup {c} /\ phase \in {"serving", "closing"}
      /\ UNCHANGED <<components, phase, clients, locked, tracked, monitor, passing, ingest,
                     process, configuration, torn, python312>>
  BY DEF TaskDies
<1>2. UNCHANGED <<made, closed, pass, todo, step, failed, server, held, bridge, connected,
                  bridgeRunning, BridgeLeft>>
  BY <1>1 DEF clients, passing, ingest, process, configuration, BridgeLeft
<1>3. UNCHANGED Current /\ UNCHANGED Awaits(Current)
  BY <1>2 DEF Current, Awaits
<1>4. Shape'
  <2>1. faults' \in 0..MaxFaults
    BY RuntimeAssumption DEF Shape, Faulty, TaskDies
  <2>2. dead' \subseteq ComponentNames
    BY <1>1 DEF Shape, Owned, Tasks, ComponentNames
  <2> QED BY <1>1, <1>2, <2>1, <2>2 DEF Shape
<1>5. Ordered' /\ Phased'
  BY <1>1, <1>2, <1>3 DEF Ordered, Distinct, Phased, Closing, InPass
<1>6. Owned'
  BY <1>1, <1>2 DEF Owned, Stopped, Left
<1>7. Progress' /\ Listening' /\ Released'
  BY <1>1, <1>2, <1>3 DEF Progress, Listening, Released, Accepting, InPass
<1>8. StoppedIsReleased'
  BY <1>1, <1>2 DEF StoppedIsReleased, Quiet
<1> QED BY <1>4, <1>5, <1>6, <1>7, <1>8

-----------------------------------------------------------------------------
(* The invariant, and what it gives. *)

\* The invariant holds initially.
LEMMA InitIInv == ASSUME Init PROVE IInv
<1>1. /\ IsSeq(tracked) /\ Len(tracked) = 0 /\ DOMAIN tracked = {} /\ ToSet(tracked) = {}
      /\ IsSeq(todo) /\ Len(todo) = 0 /\ DOMAIN todo = {} /\ ToSet(todo) = {}
  BY EmptyIsSeq DEF Init
<1>2. Shape
  <2>1. faults \in 0..MaxFaults /\ step \in 1..5
    BY RuntimeAssumption DEF Init
  <2> QED BY <2>1 DEF Init, Shape, Phases
<1>3. Ordered
  BY <1>1 DEF Ordered, Distinct
<1>4. Phased
  BY <1>1 DEF Init, Phased, Closing, InPass, BridgeLeft
<1>5. Owned
  BY <1>1 DEF Init, Owned, Left, Stopped, BridgeLeft
<1>6. Progress /\ Listening /\ Released /\ StoppedIsReleased
  BY DEF Init, Progress, InPass, Listening, Released, StoppedIsReleased, BridgeLeft,
     Accepting
<1> QED BY <1>2, <1>3, <1>4, <1>5, <1>6 DEF IInv

\* The invariant is kept by every step.
LEMMA NextIInv == ASSUME IInv, [Next]_vars PROVE IInv'
<1>1. CASE PassStep
  <2>1. Shape' /\ Ordered' /\ Phased' /\ StoppedIsReleased'
    BY <1>1, PassShape DEF IInv
  <2>2. Owned' /\ Progress' /\ Listening' /\ Released'
    BY <1>1, PassOwned, PassProgress, PassListening, PassReleased DEF IInv
  <2> QED BY <2>1, <2>2 DEF IInv
<1>2. CASE Lifespan
  BY <1>2, LifespanStep
<1>3. CASE ComponentStarts
  BY <1>3, StartStep
<1>4. CASE StartFails \/ MonitorEnds \/ LastPass
  BY <1>4, StartFailsStep, MonitorEndsStep, LastPassStep
<1>5. CASE RolledBack \/ MonitorStops \/ Closes \/ FactoryFails
  BY <1>5, IdleStep, RetryStep, CloseStep, FactoryStep
<1>6. CASE CancelMonitor
  BY <1>6, CancelStep
<1>7. CASE Background \/ \E c \in tasks : TaskDies(c)
  BY <1>7, BackgroundStep, TaskDiesStep
<1>8. CASE UNCHANGED vars
  <2>1. UNCHANGED <<components, phase, clients, locked, tracked, monitor, passing, ingest,
                    background, torn,
                    process, configuration, python312, faults>>
    BY <1>8 DEF vars
  <2>2. UNCHANGED <<made, closed, pass, todo, step, failed, server, held, tasks, dead,
                    torn, bridge, connected, bridgeRunning, BridgeLeft, Accepting>>
    BY <2>1 DEF clients, passing, ingest, background, process, configuration, BridgeLeft,
       Accepting
  <2>3. UNCHANGED Current /\ UNCHANGED Awaits(Current)
    BY <2>2 DEF Current, Awaits
  <2>4. Shape' /\ Ordered' /\ Phased'
    BY <2>1, <2>2, <2>3 DEF IInv, Shape, Ordered, Distinct, Phased, Closing, InPass
  <2>5. Owned' /\ Progress' /\ Listening' /\ Released'
    BY <2>1, <2>2, <2>3
       DEF IInv, Owned, Stopped, Left, Progress, Listening, Released, InPass
  <2>6. StoppedIsReleased'
    BY <2>1, <2>2 DEF IInv, StoppedIsReleased, Quiet
  <2> QED BY <2>4, <2>5, <2>6 DEF IInv
<1> QED BY <1>1, <1>2, <1>3, <1>4, <1>5, <1>6, <1>7, <1>8
        DEF Next, Startup, Stopping, Ending, Failing, Finished, PassStep, Lifespan,
            ComponentStarts, Background, Applies, Closes, Configuration

\* The invariant holds of every behaviour.
LEMMA Invariance == Spec => []IInv
<1>1. Init => IInv
  BY InitIInv
<1>2. IInv /\ [Next]_vars => IInv'
  BY NextIInv
<1> QED BY <1>1, <1>2, PTL DEF Spec

\* The state keeps its shape: what is tracked is registered, and what is
\* left of a pass is tracked.
THEOREM TypeCorrect == Spec => []TypeOK
<1>1. IInv => TypeOK
  <2> SUFFICES ASSUME IInv PROVE TypeOK
    OBVIOUS
  <2>1. ToSet(components) \subseteq ComponentNames
    BY Composed DEF IInv
  <2>2. tasks \subseteq ComponentNames
    BY <2>1 DEF IInv, Owned
  <2>3. dead \subseteq ComponentNames \ tasks
    BY DEF IInv, Shape, Owned
  <2> QED BY <2>2, <2>3, RuntimeAssumption DEF IInv, Shape, Ordered, TypeOK, Clients
<1> QED BY <1>1, Invariance, PTL

\* Whatever order starts, failed starts, failed and cancelled stops and
\* restarts by the configuration task come in, no Bridge process lives
\* without a bound socket where ingest is deployed, unless it is the one
\* that the stop of a dead configuration task raised before.
THEOREM BridgeFindsListener == Spec => []BridgeHasListener
<1>1. IInv => BridgeHasListener
  BY DEF IInv, Listening, BridgeHasListener
<1> QED BY <1>1, Invariance, PTL

\* A runtime that has finished stopping runs no task, and no Bridge but one
\* that the stop of a dead configuration task has left; after a failed
\* startup it runs nothing.  Its clients are closed but for those whose
\* close raised, or was skipped for such a one, and ingest holds nothing
\* unless a start or a stop of it was left half way.
THEOREM StoppedReleases == Spec => []StoppedIsReleased
<1>1. IInv => StoppedIsReleased
  BY DEF IInv
<1> QED BY <1>1, Invariance, PTL
=============================================================================
