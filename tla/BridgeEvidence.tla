--------------------------- MODULE BridgeEvidence ---------------------------
(***************************************************************************)
(* The running DeepStream Bridge: the threads that turn one detection into *)
(* a message to the Agent and, when the Agent accepts it, into the JPEG of *)
(* its frame.                                                              *)
(*                                                                         *)
(* Per camera a buffer first passes the metadata probe, which registers a  *)
(* candidate and enqueues a detection for every object in the frame, and   *)
(* then the camera's snapshot branch, whose valve lets only candidate      *)
(* frames through to the JPEG encoder.  A sender thread drains the two     *)
(* bounded queues into the Agent's socket and a reader thread dispatches   *)
(* the Agent's acknowledgements.  JPEG and acknowledgement meet, in either *)
(* order, in the rendezvous (snapshot.py), whose lock makes each of its    *)
(* methods one step here.                                                  *)
(*                                                                         *)
(* A message is the triple <<source, frame, object>>; the Agent's event id *)
(* for it is the message itself.  The Agent and GStreamer are external:    *)
(* the Agent answers, or not, what it is sent, and a camera's branch is a  *)
(* queue followed by one synchronous push per buffer.                      *)
(***************************************************************************)
EXTENDS Naturals, Sequences, SequencesExt, FiniteSets

CONSTANTS
  Sources,        \* the cameras, by source_index
  Frames,         \* bound, per camera: the frames it delivers
  MaxObjects,     \* bound: objects detected in one frame
  MaxRetained,    \* max_retained of the rendezvous
  QueueCapacity,  \* capacity of the detection queue
  SnapCapacity,   \* capacity of the snapshot queue
  BranchCapacity, \* max-size-buffers of a camera's leaky snapshot queue
  MaxSplits       \* bound: acknowledgement frames that arrive in two parts

ASSUME BridgeAssumption ==
  /\ Frames \in [Sources -> Nat] /\ MaxObjects \in Nat \ {0} /\ MaxSplits \in Nat
  /\ MaxRetained \in Nat \ {0} /\ QueueCapacity \in Nat \ {0}
  /\ SnapCapacity \in Nat \ {0} /\ BranchCapacity \in Nat \ {0}

VARIABLES
  life,      \* "running", "stopping" once the pipeline is down, then "stopped"
  frame,     \* per source: how many frames have reached the metadata probe
  todo,      \* the probe thread's work on its buffer: steps still to do
  branch,    \* per source: frames waiting in the snapshot branch's queue
  encoder,   \* per source: what its branch thread is doing
  pending,   \* per source: frame numbers gated through, not yet encoded
  byMessage, \* the rendezvous' candidates, oldest first
  byFrame,   \* the rendezvous' index from <<source, frame>> to a message
  queue, snapQueue,                 \* the transport's two bounded queues
  sender, hand,                     \* the sender thread and its item
  reader, readerHand,               \* the reader thread and its item
  connected, synced,                \* the socket, and its byte stream in step
  inbox, acks,                      \* the Agent's unanswered and answered
  accepted, captured, forfeited, offered, splits   \* history, see below

camera  == <<frame, todo, branch, encoder, pending>>
meeting == <<byMessage, byFrame>>
queues  == <<queue, snapQueue>>
socket  == <<connected, synced, inbox, acks, splits>>
history == <<accepted, captured, forfeited, offered>>
vars == <<life, camera, meeting, queues, sender, hand, reader, readerHand,
          socket, history>>

Shot == UNION {{s} \X (1..Frames[s]) : s \in Sources}
Message == UNION {{s} \X (1..Frames[s]) \X (1..MaxObjects) : s \in Sources}
FrameOf(m) == <<m[1], m[2]>>
NoShot == <<>>
Idle == [at |-> "idle"]

(* _Candidate: its message, whether the valve was opened for it, the       *)
(* picture it holds and whether it was acknowledged as accepted.           *)
Candidate(m) == [msg |-> m, matched |-> FALSE, jpeg |-> NoShot, acked |-> FALSE]
Live == {c.msg : c \in ToSet(byMessage)}
CandidateOf(m) == CHOOSE c \in ToSet(byMessage) : c.msg = m
(* Bug: the index forgets whose frame it was. *)
FaultyMatching(key) == {byFrame[k] : k \in {l \in DOMAIN byFrame : l[2] = key[2]}} \cap Live
Matching(key) == IF key \in DOMAIN byFrame THEN {byFrame[key]} \cap Live ELSE {}

-----------------------------------------------------------------------------
(* The rendezvous, on candidates cs and index ix.  Every method first      *)
(* drops the candidates whose time is up.  All live equally long, so those *)
(* are the oldest k, for any k: time may have passed since the last call.  *)

Without(ix, keys) == [k \in DOMAIN ix \ keys |-> ix[k]]
Expired(k) == {byMessage[i].msg : i \in 1..k}
FreshOnes(k) == SubSeq(byMessage, k + 1, Len(byMessage))
FreshIndex(k) == Without(byFrame, {FrameOf(m) : m \in Expired(k)})

(* Bug: the store is trimmed before the new candidate counts. *)
FaultyOverflow(cs) == IF Len(cs) > MaxRetained + 1 THEN Len(cs) - MaxRetained ELSE 0
(* popitem while over max_retained, after the new candidate was appended. *)
Overflow(cs) == IF Len(cs) > MaxRetained THEN Len(cs) - MaxRetained ELSE 0

RecordDetection(m, k) ==
  LET cs == Append(FreshOnes(k), Candidate(m))
      gone == {cs[i].msg : i \in 1..Overflow(cs)}
      ix == [key \in DOMAIN FreshIndex(k) \cup {FrameOf(m)} |->
               IF key = FrameOf(m) THEN m ELSE FreshIndex(k)[key]]
  IN /\ byMessage' = SubSeq(cs, Overflow(cs) + 1, Len(cs))
     /\ byFrame' = Without(ix, {FrameOf(g) : g \in gone})
     /\ forfeited' = forfeited \cup Expired(k) \cup gone

(* Bug: a completed candidate stays. *)
FaultyDrop(m, k) == byMessage' = FreshOnes(k) /\ byFrame' = FreshIndex(k)
Drop(m, k) ==
  /\ \E i \in DOMAIN FreshOnes(k) :
       FreshOnes(k)[i].msg = m /\ byMessage' = RemoveAt(FreshOnes(k), i)
  /\ byFrame' = Without(FreshIndex(k), {FrameOf(m)})

Update(c, k) ==
  /\ byMessage' = [i \in 1..Len(FreshOnes(k)) |->
       IF FreshOnes(k)[i].msg = c.msg THEN c ELSE FreshOnes(k)[i]]
  /\ byFrame' = FreshIndex(k)

Expire(k) == /\ byMessage' = FreshOnes(k)
             /\ byFrame' = FreshIndex(k)

(* Bug: an acknowledgement alone completes. *)
FaultyComplete(c) == c.acked
(* _try_complete_locked: both halves are there. *)
Complete(c) == c.acked /\ c.jpeg # NoShot

(* Bug: the first half uses the candidate up. *)
FaultyArrive(c, k) == Drop(c.msg, k)
(* A half arrived for the candidate, which is now c: result gets the       *)
(* snapshot to send, when there is one, as the thread's next step.         *)
Arrive(c, k) == IF Complete(c) THEN Drop(c.msg, k) ELSE Update(c, k)
Result(c) == IF Complete(c) THEN [at |-> "send", event |-> c.msg, jpeg |-> c.jpeg]
                            ELSE Idle

(* enqueue_snapshot and enqueue: put_nowait, or shed the newest. *)
Put(q, item, capacity) == IF Len(q) < capacity THEN Append(q, item) ELSE q

-----------------------------------------------------------------------------
Init ==
  /\ life = "running"
  /\ frame = [s \in Sources |-> 0]
  /\ todo = <<>>
  /\ branch = [s \in Sources |-> <<>>]
  /\ encoder = [s \in Sources |-> Idle]
  /\ pending = [s \in Sources |-> <<>>]
  /\ byMessage = <<>> /\ byFrame = [key \in {} |-> NoShot]
  /\ queue = <<>> /\ snapQueue = <<>>
  /\ sender = "top" /\ hand = Idle
  /\ reader = "idle" /\ readerHand = Idle
  /\ connected = FALSE /\ synced = TRUE /\ inbox = {} /\ acks = <<>>
  /\ accepted = {} /\ captured = {} /\ forfeited = {} /\ offered = {}
  /\ splits = 0

(* The metadata probe.  handle_buffer extracts the frame's objects and,    *)
(* one after the other, registers and enqueues each, then the buffer       *)
(* travels on to its camera's branch.                                      *)
Steps(s, f, n) ==
  [i \in 1..(2 * n + 1) |->
     IF i > 2 * n THEN [do |-> "pass", msg |-> <<s, f, 1>>]
     ELSE [do |-> IF i % 2 = 1 THEN "register" ELSE "enqueue",
           msg |-> <<s, f, (i + 1) \div 2>>]]

HandleBuffer(s, n) ==
  /\ life = "running" /\ todo = <<>> /\ frame[s] < Frames[s]
  /\ frame' = [frame EXCEPT ![s] = @ + 1]
  /\ todo' = Steps(s, frame[s] + 1, n)
  /\ UNCHANGED <<life, branch, encoder, pending, meeting, queues, sender, hand,
                 reader, readerHand, socket, history>>

OnCandidate ==
  /\ todo # <<>> /\ Head(todo).do = "register"
  /\ todo' = Tail(todo)
  /\ \E k \in 0..Len(byMessage) : RecordDetection(Head(todo).msg, k)
  /\ UNCHANGED <<life, frame, branch, encoder, pending, queues, sender, hand,
                 reader, readerHand, socket, accepted, captured, offered>>

Enqueue ==
  /\ todo # <<>> /\ Head(todo).do = "enqueue"
  /\ todo' = Tail(todo)
  /\ queue' = Put(queue, Head(todo).msg, QueueCapacity)
  /\ UNCHANGED <<life, frame, branch, encoder, pending, meeting, snapQueue,
                 sender, hand, reader, readerHand, socket, history>>

(* The snapshot branch's queue leaks: a full one makes room for the newest *)
(* buffer, so that it never holds up the camera's live output.             *)
PassBuffer ==
  /\ todo # <<>> /\ Head(todo).do = "pass"
  /\ todo' = <<>>
  /\ LET shot == FrameOf(Head(todo).msg)
         q == branch[shot[1]]
     IN branch' = [branch EXCEPT ![shot[1]] =
                     Append(IF Len(q) < BranchCapacity THEN q ELSE Tail(q), shot)]
  /\ UNCHANGED <<life, frame, encoder, pending, meeting, queues, sender, hand,
                 reader, readerHand, socket, history>>

(* The valve probe.  The index is looked up with the branch's own source   *)
(* and the frame's number, and the number kept for the encoded picture,    *)
(* which no longer carries it.                                             *)
GateKey(shot) == shot
GateBuffer(s) ==
  /\ life = "running" /\ encoder[s] = Idle /\ branch[s] # <<>>
  /\ branch' = [branch EXCEPT ![s] = Tail(@)]
  /\ \E k \in 0..Len(byMessage) :
       LET shot == Head(branch[s])
           ms == Matching(GateKey(shot)) \ Expired(k)
           found == {m \in ms : ~CandidateOf(m).matched}
       IN /\ forfeited' = forfeited \cup Expired(k)
          /\ IF found = {}
             THEN Expire(k) /\ UNCHANGED <<encoder, pending>>
             ELSE /\ \E m \in found :
                       Update([CandidateOf(m) EXCEPT !.matched = TRUE], k)
                  /\ encoder' = [encoder EXCEPT ![s] = [at |-> "encode", shot |-> shot]]
                  /\ pending' = [pending EXCEPT ![s] = Append(@, shot)]
  /\ UNCHANGED <<life, frame, todo, queues, sender, hand, reader, readerHand,
                 socket, accepted, captured, offered>>

(* appsink's new-sample: the oldest gated number names the picture. *)
SampleKey(s) == Head(pending[s])
NewSample(s) ==
  /\ encoder[s].at = "encode"
  /\ pending' = [pending EXCEPT ![s] = Tail(@)]
  /\ captured' = captured \cup {encoder[s].shot}
  /\ \E k \in 0..Len(byMessage) :
       LET ms == Matching(SampleKey(s)) \ Expired(k) IN
       /\ forfeited' = forfeited \cup Expired(k)
       /\ IF ms = {}
          THEN Expire(k) /\ encoder' = [encoder EXCEPT ![s] = Idle]
          ELSE \E m \in ms :
                 LET c == [CandidateOf(m) EXCEPT !.jpeg = encoder[s].shot]
                 IN /\ Arrive(c, k)
                    /\ encoder' = [encoder EXCEPT ![s] = Result(c)]
  /\ UNCHANGED <<life, frame, todo, branch, queues, sender, hand, reader,
                 readerHand, socket, accepted, offered>>

(* The buffer could not be mapped: the number is used up all the same. *)
SampleFails(s) ==
  /\ encoder[s].at = "encode"
  /\ pending' = [pending EXCEPT ![s] = Tail(@)]
  /\ encoder' = [encoder EXCEPT ![s] = Idle]
  /\ UNCHANGED <<life, frame, todo, branch, meeting, queues, sender, hand,
                 reader, readerHand, socket, history>>

SendFromBranch(s) ==
  /\ encoder[s].at = "send"
  /\ encoder' = [encoder EXCEPT ![s] = Idle]
  /\ snapQueue' = Put(snapQueue, encoder[s], SnapCapacity)
  /\ offered' = offered \cup {encoder[s]}
  /\ UNCHANGED <<life, frame, todo, branch, pending, meeting, queue, sender,
                 hand, reader, readerHand, socket, accepted, captured, forfeited>>

-----------------------------------------------------------------------------
(* The sender thread.  Only a snapshot that is there at the top of the     *)
(* loop goes first: a detection ends the poll that follows.                *)

SenderTakesSnapshot ==
  /\ sender = "top" /\ life = "running" /\ snapQueue # <<>>
  /\ hand' = Head(snapQueue) /\ snapQueue' = Tail(snapQueue)
  /\ sender' = "connect"
  /\ UNCHANGED <<life, camera, meeting, queue, reader, readerHand, socket, history>>

SenderPolls ==
  /\ sender = "top" /\ life = "running" /\ snapQueue = <<>>
  /\ sender' = "poll"
  /\ UNCHANGED <<life, camera, meeting, queues, hand, reader, readerHand, socket,
                 history>>

SenderTakesDetection ==
  /\ sender = "poll" /\ queue # <<>>
  /\ hand' = [at |-> "detection", msg |-> Head(queue)] /\ queue' = Tail(queue)
  /\ sender' = "connect"
  /\ UNCHANGED <<life, camera, meeting, snapQueue, reader, readerHand, socket,
                 history>>

(* Bug: a poll that found nothing polls again. *)
FaultyPollTimesOut == sender = "poll" /\ queue = <<>> /\ UNCHANGED vars

PollTimesOut ==
  /\ sender = "poll" /\ queue = <<>>
  /\ sender' = "top"
  /\ UNCHANGED <<life, camera, meeting, queues, hand, reader, readerHand, socket,
                 history>>

SenderEnds ==
  /\ sender = "top" /\ life # "running"
  /\ sender' = "ended"
  /\ UNCHANGED <<life, camera, meeting, queues, hand, reader, readerHand, socket,
                 history>>

(* _send looks at the socket and connects when there is none ... *)
SenderConnects ==
  /\ sender = "connect"
  /\ sender' = "write"
  /\ connected' = TRUE
  /\ IF connected THEN UNCHANGED <<synced, inbox, acks>>
                  ELSE synced' = TRUE /\ inbox' = {} /\ acks' = <<>>
  /\ UNCHANGED <<life, camera, meeting, queues, hand, reader, readerHand, splits,
                 history>>

ConnectFails ==
  /\ sender = "connect" /\ ~connected
  /\ sender' = "top" /\ hand' = Idle
  /\ UNCHANGED <<life, camera, meeting, queues, reader, readerHand, socket, history>>

(* ... and then writes to it, unless the reader closed it in between: the  *)
(* assertion that it is there fails and is not among the errors caught.    *)
Write ==
  /\ sender = "write" /\ connected
  /\ sender' = "top" /\ hand' = Idle
  /\ inbox' = IF hand.at = "detection" THEN inbox \cup {hand.msg} ELSE inbox
  /\ UNCHANGED <<life, camera, meeting, queues, reader, readerHand, connected,
                 synced, acks, splits, history>>

(* _close_socket: what the Agent still had to answer on it is never read. *)
Close == connected' = FALSE /\ synced' = TRUE /\ inbox' = {} /\ acks' = <<>>

WriteFails ==
  /\ sender = "write" /\ connected
  /\ sender' = "top" /\ hand' = Idle
  /\ Close
  /\ UNCHANGED <<life, camera, meeting, queues, reader, readerHand, splits, history>>

SenderDies ==
  /\ sender = "write" /\ ~connected
  /\ sender' = "dead"
  /\ UNCHANGED <<life, camera, meeting, queues, hand, reader, readerHand, socket,
                 history>>

-----------------------------------------------------------------------------
(* The Agent, which is external to the Bridge, answers at most once, and   *)
(* in any order for all the Bridge knows.  "declined" stands for           *)
(* suppressed, rejected, and accepted without snapshotRequired.            *)
AgentAnswers(m, outcome) ==
  /\ m \in inbox
  /\ inbox' = inbox \ {m}
  /\ acks' = Append(acks, [at |-> "ack", msg |-> m, outcome |-> outcome])
  /\ UNCHANGED <<life, camera, meeting, queues, sender, hand, reader, readerHand,
                 connected, synced, splits, history>>

(* The reader thread takes one whole frame off the socket ... *)
ReadFrame ==
  /\ reader = "idle" /\ life = "running" /\ connected /\ synced /\ acks # <<>>
  /\ reader' = "dispatch" /\ readerHand' = Head(acks) /\ acks' = Tail(acks)
  /\ UNCHANGED <<life, camera, meeting, queues, sender, hand, connected, synced,
                 inbox, splits, history>>

(* ... but one of which only a part comes in time: _recv_exact forgets the *)
(* part, and from then on the stream is read out of step.                  *)
LoseStep ==
  /\ reader = "idle" /\ life = "running" /\ connected /\ synced /\ acks # <<>>
  /\ splits < MaxSplits /\ splits' = splits + 1
  /\ synced' = FALSE
  /\ UNCHANGED <<life, camera, meeting, queues, sender, hand, reader, readerHand,
                 connected, inbox, acks, history>>

(* Out of step, bytes that are no header either pass for a frame to ignore *)
(* or announce an oversized one, for which the connection is given up.     *)
Misread ==
  /\ reader = "idle" /\ life = "running" /\ connected /\ ~synced /\ acks # <<>>
  /\ \/ acks' = Tail(acks) /\ UNCHANGED reader
     \/ reader' = "close" /\ UNCHANGED acks
  /\ UNCHANGED <<life, camera, meeting, queues, sender, hand, readerHand,
                 connected, synced, inbox, splits, history>>

ReaderCloses ==
  /\ reader = "close"
  /\ reader' = "idle"
  /\ Close
  /\ UNCHANGED <<life, camera, meeting, queues, sender, hand, readerHand, splits,
                 history>>

(* SnapshotAcknowledgementHandler -> submit_ack. *)
SubmitAck ==
  /\ reader = "dispatch"
  /\ \E k \in 0..Len(byMessage) :
       LET m == readerHand.msg IN
       /\ forfeited' = forfeited \cup Expired(k)
       /\ accepted' = IF readerHand.outcome = "accepted" THEN accepted \cup {m}
                                                         ELSE accepted
       /\ CASE m \notin Live \ Expired(k) -> Expire(k) /\ readerHand' = Idle
            [] m \in Live \ Expired(k) /\ readerHand.outcome # "accepted" ->
                 Drop(m, k) /\ readerHand' = Idle
            [] OTHER ->
                 LET c == [CandidateOf(m) EXCEPT !.acked = TRUE]
                 IN Arrive(c, k) /\ readerHand' = Result(c)
  /\ reader' = IF readerHand'.at = "send" THEN "send" ELSE "idle"
  /\ UNCHANGED <<life, camera, queues, sender, hand, socket, captured, offered>>

SendFromReader ==
  /\ reader = "send"
  /\ reader' = "idle" /\ readerHand' = Idle
  /\ snapQueue' = Put(snapQueue, readerHand, SnapCapacity)
  /\ offered' = offered \cup {readerHand}
  /\ UNCHANGED <<life, camera, meeting, queue, sender, hand, socket, accepted,
                 captured, forfeited>>

ReaderEnds ==
  /\ reader = "idle" /\ life # "running"
  /\ reader' = "ended"
  /\ UNCHANGED <<life, camera, meeting, queues, sender, hand, readerHand, socket,
                 history>>

-----------------------------------------------------------------------------
(* A signal, the end of the stream or a bus error ends the main loop.  The *)
(* pipeline goes to NULL, for which GStreamer waits for the streaming      *)
(* threads, then the rendezvous is cleared and the transport told to stop. *)
StopPipeline ==
  /\ life = "running"
  /\ todo = <<>> /\ \A s \in Sources : encoder[s] = Idle
  /\ life' = "stopping"
  /\ branch' = [s \in Sources |-> <<>>]
  /\ pending' = [s \in Sources |-> <<>>]
  /\ byMessage' = <<>> /\ byFrame' = [key \in {} |-> NoShot]
  /\ forfeited' = forfeited \cup Live
  /\ UNCHANGED <<frame, todo, encoder, queues, sender, hand, reader, readerHand,
                 socket, accepted, captured, offered>>

(* TransportWorker.stop joins both threads and closes the socket. *)
StopTransport ==
  /\ life = "stopping"
  /\ sender \in {"ended", "dead"} /\ reader = "ended"
  /\ life' = "stopped"
  /\ Close
  /\ UNCHANGED <<camera, meeting, queues, sender, hand, reader, readerHand, splits,
                 history>>

Probe == OnCandidate \/ Enqueue \/ PassBuffer
BranchOf(s) == GateBuffer(s) \/ NewSample(s) \/ SampleFails(s) \/ SendFromBranch(s)
Sender == \/ SenderTakesSnapshot \/ SenderPolls \/ SenderTakesDetection
          \/ PollTimesOut \/ SenderEnds \/ SenderConnects \/ ConnectFails
          \/ Write \/ WriteFails \/ SenderDies
Reader == ReadFrame \/ Misread \/ ReaderCloses \/ SubmitAck \/ SendFromReader
          \/ ReaderEnds
Stopped == life = "stopped" /\ UNCHANGED vars

Next ==
  \/ \E s \in Sources, n \in 1..MaxObjects : HandleBuffer(s, n)
  \/ Probe
  \/ \E s \in Sources : BranchOf(s)
  \/ Sender
  \/ \E m \in Message, o \in {"accepted", "declined"} : AgentAnswers(m, o)
  \/ LoseStep
  \/ Reader
  \/ StopPipeline \/ StopTransport
  \/ Stopped

(* The Bridge's own two threads go on whenever they can, and so does the   *)
(* main thread once it stops the transport.  Nothing makes a camera        *)
(* deliver, an Agent answer or the Bridge stop.                            *)
Fairness == WF_vars(Sender) /\ WF_vars(Reader) /\ WF_vars(StopTransport)

Spec == Init /\ [][Next]_vars
FairSpec == Spec /\ Fairness

-----------------------------------------------------------------------------
(* The shape of the state, for every thread, queue and candidate. *)
Step == [do : {"register", "enqueue", "pass"}, msg : Message]
Encode == [at : {"encode"}, shot : Shot]
Offer == [at : {"send"}, event : Message, jpeg : Shot]
Detection == [at : {"detection"}, msg : Message]
Ack == [at : {"ack"}, msg : Message, outcome : {"accepted", "declined"}]
Candidates == [msg : Message, matched : BOOLEAN, jpeg : Shot \cup {NoShot}, acked : BOOLEAN]
TypeOK ==
  /\ life \in {"running", "stopping", "stopped"}
  /\ frame \in [Sources -> Nat] /\ \A s \in Sources : frame[s] <= Frames[s]
  /\ todo \in Seq(Step)
  /\ branch \in [Sources -> Seq(Shot)] /\ pending \in [Sources -> Seq(Shot)]
  /\ encoder \in [Sources -> {Idle} \cup Encode \cup Offer]
  /\ byMessage \in Seq(Candidates)
  /\ DOMAIN byFrame \subseteq Shot /\ byFrame \in [DOMAIN byFrame -> Message]
  /\ queue \in Seq(Message) /\ snapQueue \in Seq(Offer)
  /\ sender \in {"top", "poll", "connect", "write", "ended", "dead"}
  /\ hand \in {Idle} \cup Detection \cup Offer
  /\ reader \in {"idle", "dispatch", "close", "send", "ended"}
  /\ CASE reader = "dispatch" -> readerHand \in Ack
       [] reader = "send" -> readerHand \in Offer
       [] OTHER -> readerHand = Idle
  /\ connected \in BOOLEAN /\ synced \in BOOLEAN
  /\ inbox \subseteq Message /\ acks \in Seq(Ack)
  /\ accepted \subseteq Message /\ captured \subseteq Shot
  /\ forfeited \subseteq Message /\ offered \subseteq Offer

(* Bounds the Bridge promises on memory: max_retained candidates, the      *)
(* index no larger than they are (each entry leads to one of them, so its  *)
(* own trimming never has work), the queues and a camera's branch.         *)
MemoryIsBounded ==
  /\ Len(byMessage) <= MaxRetained
  /\ \A key \in DOMAIN byFrame : byFrame[key] \in Live /\ FrameOf(byFrame[key]) = key
  /\ Len(queue) <= QueueCapacity /\ Len(snapQueue) <= SnapCapacity
  /\ \A s \in Sources : Len(branch[s]) <= BranchCapacity /\ Len(pending[s]) <= 1

(* What a thread holds to send and what was ever put to the transport. *)
Offers == offered \cup {o \in {encoder[s] : s \in Sources} \cup {readerHand} : o.at = "send"}

(* A snapshot the Bridge sends is the picture of the very frame its event  *)
(* was detected in, on the camera it was detected on, whatever the order   *)
(* of the frames, the leaks of the branch queue and the failed samples.    *)
SnapshotShowsItsDetection == \A o \in Offers : o.jpeg = FrameOf(o.event)

(* "exactly one snapshot sent": an event has at most one thread sending    *)
(* its snapshot and is never offered again once it was.                    *)
OneSnapshotPerEvent ==
  /\ \A s \in Sources : encoder[s].at = "send" =>
       /\ encoder[s].event \notin {o.event : o \in offered}
       /\ readerHand.at = "send" => readerHand.event # encoder[s].event
       /\ encoder[s].event \notin Live
  /\ readerHand.at = "send" =>
       /\ readerHand.event \notin {o.event : o \in offered}
       /\ readerHand.event \notin Live

(* "Both orderings are legitimate and neither may lose the snapshot": an   *)
(* event that was accepted and whose frame was captured has been offered,  *)
(* or is about to be, unless its candidate expired or was crowded out.     *)
NeitherOrderLosesEvidence ==
  \A m \in accepted \ forfeited :
     FrameOf(m) \in captured => m \in {o.event : o \in Offers}

(* A stop always ends, with nothing retained and the socket closed.        *)
StopReleasesEverything ==
  life = "stopping" ~> life = "stopped" /\ byMessage = <<>> /\ ~connected
=============================================================================
