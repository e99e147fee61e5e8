-------------------------- MODULE ProgramokProofs ---------------------------
(***************************************************************************)
(* Proofs about the programs of ProgramokMC, for every set of answers, points *)
(* and lines, every capacity of the pipes and any number of runs.            *)
(***************************************************************************)
EXTENDS ProgramokMC, Functions, SequenceTheorems, TLAPS

(***************************************************************************)
(* The steps of ZhIpc: what a step moves, and how a semaphore of value 1     *)
(* keeps all but one process out of the labels inside it                     *)
(***************************************************************************)

\* p has gone from one label to another and nobody else has moved.
Moved(p, from, to) ==
  /\ pc[p] = from /\ pc'[p] = to /\ DOMAIN pc' = DOMAIN pc
  /\ \A q \in DOMAIN pc : q # p => pc'[q] = pc[q]

LEMMA StepMoves ==
  ASSUME NEW p \in DOMAIN pc, NEW from, NEW to, Step(p, from, to) PROVE Moved(p, from, to)
BY DEF Step, Moved

\* The semaphore exists and its value says whether somebody is inside, who is
\* then alone.
Nobody(inside) == \A p \in DOMAIN pc : pc[p] \notin inside
Somebody(inside) ==
  \E p \in DOMAIN pc : pc[p] \in inside /\ \A q \in DOMAIN pc : pc[q] \in inside => q = p
Mutex(inside) ==
  /\ "sem" \in exists
  /\ (sem = 1 /\ Nobody(inside)) \/ (sem = 0 /\ Somebody(inside))

\* Nobody has entered or left.
Settled(inside) ==
  /\ DOMAIN pc' = DOMAIN pc
  /\ \A p \in DOMAIN pc : pc'[p] \in inside <=> pc[p] \in inside

LEMMA MutexKept ==
  ASSUME NEW inside, Mutex(inside), Settled(inside), UNCHANGED <<sem, exists>>
  PROVE  Mutex(inside)'
BY DEF Mutex, Nobody, Somebody, Settled

LEMMA MutexDown ==
  ASSUME NEW inside, Mutex(inside), NEW p \in DOMAIN pc, NEW from, NEW to,
         SemOp(p, from, to, -1), to \in inside
  PROVE  Mutex(inside)' /\ Nobody(inside)
<1>1. Moved(p, from, to)
  BY StepMoves DEF SemOp
<1>2. sem = 1 /\ sem' = 0 /\ exists' = exists /\ Nobody(inside)
  BY DEF SemOp, Mutex
<1> QED BY <1>1, <1>2 DEF Mutex, Nobody, Somebody, Moved

LEMMA MutexUp ==
  ASSUME NEW inside, Mutex(inside), NEW p \in DOMAIN pc, NEW from, NEW to,
         SemOp(p, from, to, 1), from \in inside, to \notin inside
  PROVE  Mutex(inside)'
<1>1. Moved(p, from, to)
  BY StepMoves DEF SemOp
<1>2. sem = 0 /\ sem' = 1 /\ exists' = exists
  BY <1>1 DEF SemOp, Mutex, Nobody, Moved
<1> QED BY <1>1, <1>2 DEF Mutex, Nobody, Somebody, Moved

\* A semaphore that main removes on its way to the labels in removed
Lock(inside, removed) ==
  /\ sem \in 0..1
  /\ pc["main"] \in removed => "sem" \notin exists
  /\ pc["main"] \notin removed \cup {"off"} => Mutex(inside)

LEMMA LockKept ==
  ASSUME NEW inside, NEW removed, Lock(inside, removed), Settled(inside), UNCHANGED <<sem, exists>>,
         pc["main"] # "off", pc'["main"] \in removed <=> pc["main"] \in removed
  PROVE  Lock(inside, removed)'
<1>1. CASE pc["main"] \notin removed \cup {"off"}
  BY <1>1, MutexKept DEF Lock
<1>2. CASE pc["main"] \in removed
  BY <1>2 DEF Lock
<1> QED BY <1>1, <1>2

LEMMA LockDown ==
  ASSUME NEW inside, NEW removed, Lock(inside, removed), NEW p \in DOMAIN pc, "main" \in DOMAIN pc,
         NEW from, NEW to, SemOp(p, from, to, -1), to \in inside, pc["main"] # "off",
         p = "main" => from \notin removed /\ to \notin removed
  PROVE  Lock(inside, removed)' /\ (pc["main"] \notin removed => Nobody(inside))
<1>1. Moved(p, from, to) /\ UNCHANGED exists
  BY StepMoves DEF SemOp
<1>2. CASE pc["main"] \notin removed
  <2>1. Mutex(inside)
    BY <1>2 DEF Lock
  <2>2. Mutex(inside)' /\ Nobody(inside)
    BY <2>1, MutexDown
  <2>3. pc'["main"] \notin removed
    BY <1>1, <1>2 DEF Moved
  <2> QED BY <2>2, <2>3 DEF Lock, Mutex
<1>3. CASE pc["main"] \in removed
  <2>1. p # "main" /\ pc'["main"] = pc["main"]
    BY <1>1, <1>3 DEF Moved
  <2>2. sem' = sem
    BY <1>3 DEF Lock, SemOp
  <2> QED BY <1>1, <1>3, <2>1, <2>2 DEF Lock
<1> QED BY <1>2, <1>3

LEMMA LockUp ==
  ASSUME NEW inside, NEW removed, Lock(inside, removed), NEW p \in DOMAIN pc, "main" \in DOMAIN pc,
         NEW from, NEW to, SemOp(p, from, to, 1), from \in inside, to \notin inside,
         pc["main"] # "off", p = "main" => from \notin removed /\ to \notin removed
  PROVE  Lock(inside, removed)'
<1>1. Moved(p, from, to) /\ UNCHANGED exists
  BY StepMoves DEF SemOp
<1>2. CASE pc["main"] \notin removed
  <2>1. Mutex(inside)
    BY <1>2 DEF Lock
  <2>2. Mutex(inside)'
    BY <2>1, MutexUp
  <2>3. pc'["main"] \notin removed
    BY <1>1, <1>2 DEF Moved
  <2> QED BY <2>2, <2>3 DEF Lock, Mutex
<1>3. CASE pc["main"] \in removed
  <2>1. p # "main" /\ pc'["main"] = pc["main"]
    BY <1>1, <1>3 DEF Moved
  <2>2. sem' = sem
    BY <1>3 DEF Lock, SemOp
  <2> QED BY <1>1, <1>3, <2>1, <2>2 DEF Lock
<1> QED BY <1>2, <1>3

\* A run starts, main removes the semaphore, and a run is interrupted.
LEMMA LockStarted ==
  ASSUME NEW inside, NEW removed, sem' = 1, "sem" \in exists', \A p \in DOMAIN pc' : pc'[p] \notin inside,
         pc'["main"] \notin removed
  PROVE  Lock(inside, removed)'
BY DEF Lock, Mutex, Nobody

LEMMA LockRemoved ==
  ASSUME NEW inside, NEW removed, Lock(inside, removed), pc'["main"] \in removed,
         UNCHANGED sem, "sem" \notin exists'
  PROVE  Lock(inside, removed)'
BY DEF Lock

LEMMA LockOff ==
  ASSUME NEW inside, NEW removed, Lock(inside, removed), pc'["main"] = "off", "off" \notin removed,
         UNCHANGED sem
  PROVE  Lock(inside, removed)'
BY DEF Lock

-----------------------------------------------------------------------------
(* The signals of two children: main has heard at most as many as were sent. *)

Signalled(c) == IF pc[c] \in {"off", "start"} THEN 0 ELSE 1
Heard(c1, c2) ==
  /\ pending \in BOOLEAN /\ ready \in 0..2
  /\ pc["main"] # "off" => ready + (IF pending THEN 1 ELSE 0) <= Signalled(c1) + Signalled(c2)

LEMMA HeardKept ==
  ASSUME NEW c1, NEW c2, Heard(c1, c2), UNCHANGED <<pending, ready>>,
         pc["main"] # "off" \/ pc'["main"] = "off",
         pc'["main"] # "off" =>
           /\ pc'[c1] \in {"off", "start"} => pc[c1] \in {"off", "start"}
           /\ pc'[c2] \in {"off", "start"} => pc[c2] \in {"off", "start"}
  PROVE  Heard(c1, c2)'
BY DEF Heard, Signalled

LEMMA HeardKill ==
  ASSUME NEW c1, NEW c2, Heard(c1, c2), UNCHANGED ready, pending' \in BOOLEAN, pc["main"] # "off",
         \/ pc[c1] = "start" /\ pc'[c1] \notin {"off", "start"} /\ pc'[c2] = pc[c2]
         \/ pc[c2] = "start" /\ pc'[c2] \notin {"off", "start"} /\ pc'[c1] = pc[c1]
  PROVE  Heard(c1, c2)'
<1>1. Signalled(c1)' + Signalled(c2)' = Signalled(c1) + Signalled(c2) + 1
  BY DEF Signalled
<1>2. Signalled(c1) \in Int /\ Signalled(c2) \in Int /\ Signalled(c1)' \in Int /\ Signalled(c2)' \in Int
  BY DEF Signalled
<1> QED BY <1>1, <1>2 DEF Heard

LEMMA HeardDelivered ==
  ASSUME NEW c1, NEW c2, Heard(c1, c2), Deliver
  PROVE  Heard(c1, c2)'
<1>1. /\ UNCHANGED pc /\ pending /\ pending' = FALSE /\ ready' = ready + 1
      /\ pc["main"] # "off"
  BY DEF Heard, Deliver, Alive, Gone
<1>2. Signalled(c1) \in 0..1 /\ Signalled(c2) \in 0..1
  BY DEF Signalled
<1>3. Signalled(c1)' = Signalled(c1) /\ Signalled(c2)' = Signalled(c2)
  BY <1>1 DEF Signalled
<1>4. ready + 1 <= Signalled(c1) + Signalled(c2)
  BY <1>1 DEF Heard
<1>5. ready \in 0..2 /\ ready' \in 0..2
  BY <1>1, <1>2, <1>4 DEF Heard
<1>6. pending' \in BOOLEAN /\ (IF pending' THEN 1 ELSE 0) = 0
  BY <1>1, Zenon
<1>7. ready' + (IF pending' THEN 1 ELSE 0) <= Signalled(c1)' + Signalled(c2)'
  BY <1>1, <1>3, <1>4, <1>5, <1>6
<1> QED BY <1>5, <1>6, <1>7 DEF Heard

LEMMA HeardStarted ==
  ASSUME NEW c1, NEW c2, pending' = FALSE, ready' = 0,
         pc'[c1] = "off", pc'[c2] = "off"
  PROVE  Heard(c1, c2)'
<1>1. Signalled(c1)' \in 0..1 /\ Signalled(c2)' \in 0..1
  BY DEF Signalled
<1>2. (IF pending' THEN 1 ELSE 0) = 0
  OBVIOUS
<1>3. pending' \in BOOLEAN /\ ready' \in 0..2
  <2>1. pending' \in BOOLEAN
    BY Zenon
  <2>2. ready' \in 0..2
    OBVIOUS
  <2> QED BY <2>1, <2>2
<1>4. ready' + (IF pending' THEN 1 ELSE 0) <= Signalled(c1)' + Signalled(c2)'
  BY <1>1, <1>2
<1> QED BY <1>3, <1>4 DEF Heard

LEMMA HeardInitially ==
  ASSUME NEW c1, NEW c2, pending = FALSE, ready = 0, pc["main"] = "off" PROVE Heard(c1, c2)
<1>1. pending \in BOOLEAN
  BY Zenon
<1> QED BY <1>1 DEF Heard

-----------------------------------------------------------------------------
(* Messages and pipes: what a queue holds after a message was sent or taken *)

LEMMA Appended ==
  ASSUME NEW M, NEW s \in Seq(M), NEW m \in M
  PROVE  Append(s, m) \in Seq(M) /\ Range(Append(s, m)) = Range(s) \cup {m}
<1>1. /\ Append(s, m) \in Seq(M) /\ Len(Append(s, m)) = Len(s) + 1
      /\ \A k \in 1..Len(s) : Append(s, m)[k] = s[k]
      /\ Append(s, m)[Len(s) + 1] = m
  OBVIOUS
<1>2. DOMAIN s = 1..Len(s) /\ Len(s) \in Nat /\ DOMAIN Append(s, m) = 1..(Len(s) + 1)
  BY <1>1
<1>3. ASSUME NEW x \in Range(Append(s, m)) PROVE x \in Range(s) \cup {m}
  BY <1>1, <1>2, <1>3 DEF Range
<1>4. ASSUME NEW x \in Range(s) \cup {m} PROVE x \in Range(Append(s, m))
  <2>1. CASE x = m
    <3>1. Len(s) + 1 \in 1..(Len(s) + 1)
      BY <1>2
    <3> QED BY <2>1, <3>1, <1>1, <1>2 DEF Range
  <2>2. CASE x \in Range(s)
    BY <2>2, <1>1, <1>2 DEF Range
  <2> QED BY <1>4, <2>1, <2>2
<1> QED BY <1>1, <1>3, <1>4

\* The sequence s without its k-th element
Without(s, k) == SubSeq(s, 1, k - 1) \o SubSeq(s, k + 1, Len(s))
LEMMA Removed ==
  ASSUME NEW M, NEW s \in Seq(M), NEW k \in DOMAIN s
  PROVE  /\ Without(s, k) \in Seq(M) /\ Range(Without(s, k)) \subseteq Range(s)
         /\ Len(Without(s, k)) < Len(s)
<1> DEFINE a == SubSeq(s, 1, k - 1)
           b == SubSeq(s, k + 1, Len(s))
<1>1. k \in 1..Len(s) /\ Len(s) \in Nat /\ DOMAIN s = 1..Len(s)
  OBVIOUS
<1>2. /\ a \in Seq(M) /\ Len(a) = k - 1 /\ \A j \in 1..(k - 1) : a[j] = s[j]
      /\ b \in Seq(M) /\ Len(b) = Len(s) - k /\ \A j \in 1..(Len(s) - k) : b[j] = s[k + j]
  <2>1. a \in Seq(M) /\ Len(a) = k - 1 /\ \A j \in 1..(k - 1) : a[j] = s[j]
    BY <1>1
  <2>2. b \in Seq(M) /\ Len(b) = Len(s) - k /\ \A j \in 1..(Len(s) - k) : b[j] = s[k + j]
    BY <1>1
  <2> QED BY <2>1, <2>2
<1>3. Without(s, k) = a \o b
  BY DEF Without
<1> HIDE DEF a, b
<1>4. /\ a \o b \in Seq(M) /\ Len(a \o b) = Len(s) - 1
      /\ \A j \in 1..(Len(s) - 1) : (a \o b)[j] = IF j <= k - 1 THEN a[j] ELSE b[j - (k - 1)]
  <2>1. /\ a \o b \in Seq(M) /\ Len(a \o b) = Len(a) + Len(b)
        /\ \A j \in 1..(Len(a) + Len(b)) : (a \o b)[j] = IF j <= Len(a) THEN a[j] ELSE b[j - Len(a)]
    BY <1>2, ConcatProperties
  <2>2. Len(a) + Len(b) = Len(s) - 1
    BY <1>1, <1>2
  <2> QED BY <1>2, <2>1, <2>2
<1>5. ASSUME NEW j \in 1..(Len(s) - 1) PROVE (a \o b)[j] \in Range(s)
  <2>1. CASE j <= k - 1
    <3>1. j \in 1..(k - 1) /\ j \in DOMAIN s
      BY <2>1, <1>1
    <3>2. (a \o b)[j] = s[j]
      BY <2>1, <3>1, <1>2, <1>4
    <3> QED BY <3>1, <3>2 DEF Range
  <2>2. CASE ~(j <= k - 1)
    <3>1. j - (k - 1) \in 1..(Len(s) - k) /\ k + (j - (k - 1)) = j + 1 /\ j + 1 \in DOMAIN s
      BY <2>2, <1>1
    <3>2. (a \o b)[j] = s[j + 1]
      BY <2>2, <3>1, <1>2, <1>4
    <3> QED BY <3>1, <3>2 DEF Range
  <2> QED BY <2>1, <2>2
<1>6. DOMAIN (a \o b) = 1..(Len(s) - 1)
  BY <1>4, <1>1
<1>7. Len(a \o b) < Len(s)
  BY <1>1, <1>4
<1> QED BY <1>3, <1>4, <1>5, <1>6, <1>7 DEF Range

\* p has taken a message out of the queue, or found no queue.
Received(x, type) ==
  /\ \/ "queue" \notin exists /\ UNCHANGED mem
     \/ \E m \in Range(queue) : m.type = type /\ mem' = [mem EXCEPT ![x] = m]
  /\ Range(queue') \subseteq Range(queue)
  /\ UNCHANGED <<pending, ready, reaped, pipe, sem, shm, exists, run>>

LEMMA Receives ==
  ASSUME NEW M, queue \in Seq(M), NEW p, NEW from, NEW to, NEW type, NEW x,
         MsgRcv(p, from, to, type, x)
  PROVE  queue' \in Seq(M) /\ Len(queue') <= Len(queue) /\ Received(x, type)
<1>1. UNCHANGED <<pending, ready, reaped, pipe, sem, shm, exists, run>>
  BY DEF MsgRcv
<1>2. CASE "queue" \in exists
  <2>1. PICK k \in DOMAIN queue :
          queue[k].type = type /\ mem' = [mem EXCEPT ![x] = queue[k]] /\ queue' = Without(queue, k)
    BY <1>2 DEF MsgRcv, Without
  <2>2. queue' \in Seq(M) /\ Range(queue') \subseteq Range(queue) /\ Len(queue') < Len(queue)
    BY <2>1, Removed
  <2>3. queue[k] \in Range(queue)
    BY DEF Range
  <2>4. Len(queue') <= Len(queue)
    BY <2>2
  <2> QED BY <1>1, <2>1, <2>2, <2>3, <2>4 DEF Received
<1>3. CASE "queue" \notin exists
  BY <1>1, <1>3 DEF MsgRcv, Received
<1> QED BY <1>2, <1>3

-----------------------------------------------------------------------------
(* Pipes that hold at most two entries *)

LEMMA ShortPipes ==
  ASSUME NEW a, NEW b
  PROVE  /\ Append(<<>>, a) = <<a>> /\ Append(<<a>>, b) = <<a, b>>
         /\ Head(<<a>>) = a /\ Tail(<<a>>) = <<>>
         /\ Head(<<a, b>>) = a /\ Tail(<<a, b>>) = <<b>>
<1> DEFINE M == {a, b}
<1>1. <<>> \in Seq(M) /\ <<a>> \in Seq(M) /\ <<b>> \in Seq(M) /\ <<a, b>> \in Seq(M)
  OBVIOUS
<1>2. Append(<<>>, a) = <<a>>
  OBVIOUS
<1>3. Append(<<a>>, b) = <<a, b>>
  <2>1. /\ Append(<<a>>, b) \in Seq(M) /\ Len(Append(<<a>>, b)) = 2
        /\ Append(<<a>>, b)[1] = a /\ Append(<<a>>, b)[2] = b
    BY <1>1
  <2>2. <<a, b>> \in Seq(M) /\ Len(<<a, b>>) = 2 /\ <<a, b>>[1] = a /\ <<a, b>>[2] = b
    BY <1>1
  <2>3. \A i \in 1..Len(<<a, b>>) : <<a, b>>[i] = Append(<<a>>, b)[i]
    BY <2>1, <2>2
  <2> HIDE DEF M
  <2> QED BY <2>1, <2>2, <2>3, SeqEqual, Zenon
<1>4. Tail(<<a>>) = <<>>
  OBVIOUS
<1>5. Tail(<<a, b>>) = <<b>>
  OBVIOUS
<1>6. Head(<<a>>) = a /\ Head(<<a, b>>) = a
  OBVIOUS
<1> QED BY <1>2, <1>3, <1>4, <1>5, <1>6

\* A read() from a pipe that holds v, and a write() to an empty one
LEMMA ReadOne == \A s, v : s = <<v>> => Head(s) = v /\ Tail(s) = <<>>
BY ShortPipes

LEMMA WriteOne == \A v : Append(<<>>, v) = <<v>>
BY ShortPipes

-----------------------------------------------------------------------------
(* What is in the pipes, and that they hold no more than they can *)

Channels(M) ==
  \A d \in DOMAIN pipe : pipe[d] \in Seq(M) /\ Len(pipe[d]) <= PipeCapacity

LEMMA ChannelsWrite ==
  ASSUME NEW M, Channels(M), NEW d \in DOMAIN pipe, NEW item \in M, Len(pipe[d]) < PipeCapacity,
         pipe' = [pipe EXCEPT ![d] = Append(pipe[d], item)]
  PROVE  Channels(M)' /\ DOMAIN pipe' = DOMAIN pipe
<1>1. ASSUME NEW s \in Seq(M), Len(s) < PipeCapacity
      PROVE  Append(s, item) \in Seq(M) /\ Len(Append(s, item)) <= PipeCapacity
  BY <1>1, PipeCapacityAssumption
<1>2. DOMAIN pipe' = DOMAIN pipe /\ pipe'[d] = Append(pipe[d], item)
      /\ \A c \in DOMAIN pipe : c # d => pipe'[c] = pipe[c]
  OBVIOUS
<1>3. Append(pipe[d], item) \in Seq(M) /\ Len(Append(pipe[d], item)) <= PipeCapacity
  BY <1>1 DEF Channels
<1> QED BY <1>2, <1>3 DEF Channels

LEMMA ChannelsRead ==
  ASSUME NEW M, Channels(M), NEW d \in DOMAIN pipe, pipe[d] # <<>>,
         pipe' = [pipe EXCEPT ![d] = Tail(pipe[d])]
  PROVE  Channels(M)' /\ DOMAIN pipe' = DOMAIN pipe /\ Head(pipe[d]) \in M
<1>1. ASSUME NEW s \in Seq(M), Len(s) <= PipeCapacity, s # <<>>
      PROVE  Tail(s) \in Seq(M) /\ Len(Tail(s)) <= PipeCapacity /\ Head(s) \in M
  BY <1>1, PipeCapacityAssumption
<1>2. DOMAIN pipe' = DOMAIN pipe /\ pipe'[d] = Tail(pipe[d])
      /\ \A c \in DOMAIN pipe : c # d => pipe'[c] = pipe[c]
  OBVIOUS
<1>3. /\ Tail(pipe[d]) \in Seq(M) /\ Len(Tail(pipe[d])) <= PipeCapacity
      /\ Head(pipe[d]) \in M
  BY <1>1 DEF Channels
<1> QED BY <1>2, <1>3 DEF Channels

LEMMA ChannelsStarted ==
  ASSUME NEW M, NEW D, pipe' = [d \in D |-> <<>>]
  PROVE  Channels(M)' /\ DOMAIN pipe' = D
<1>1. <<>> \in Seq(M) /\ Len(<<>>) <= PipeCapacity
  BY PipeCapacityAssumption
<1> QED BY <1>1 DEF Channels

\* What a read() brings and a write() takes
LEMMA ReadsWrites ==
  ASSUME NEW M, Channels(M), NEW p, NEW from, NEW to, NEW d \in DOMAIN pipe, NEW x
  PROVE  /\ Read(p, from, to, d, x) =>
              /\ Channels(M)' /\ DOMAIN pipe' = DOMAIN pipe
              /\ \E v \in M : mem' = [mem EXCEPT ![x] = v]
         /\ x \in M /\ Write(p, from, to, d, x) => Channels(M)' /\ DOMAIN pipe' = DOMAIN pipe
<1>1. ASSUME Read(p, from, to, d, x) PROVE /\ Channels(M)' /\ DOMAIN pipe' = DOMAIN pipe
                                           /\ \E v \in M : mem' = [mem EXCEPT ![x] = v]
  <2>1. /\ pipe[d] # <<>> /\ pipe' = [pipe EXCEPT ![d] = Tail(pipe[d])]
        /\ mem' = [mem EXCEPT ![x] = Head(pipe[d])]
    BY <1>1 DEF Read
  <2> QED BY <2>1, ChannelsRead
<1>2. ASSUME x \in M, Write(p, from, to, d, x) PROVE Channels(M)' /\ DOMAIN pipe' = DOMAIN pipe
  <2>1. Len(pipe[d]) < PipeCapacity /\ pipe' = [pipe EXCEPT ![d] = Append(pipe[d], x)]
    BY <1>2 DEF Write
  <2> QED BY <1>2, <2>1, ChannelsWrite
<1> QED BY <1>1, <1>2

\* m was sent, or the queue was gone.
LEMMA Sends ==
  ASSUME NEW M, queue \in Seq(M), NEW m \in M, queue' = Append(queue, m) \/ queue' = queue
  PROVE  /\ queue' \in Seq(M) /\ Range(queue') \subseteq Range(queue) \cup {m}
         /\ Len(queue') <= Len(queue) + 1
<1>1. Append(queue, m) \in Seq(M) /\ Range(Append(queue, m)) = Range(queue) \cup {m}
  BY Appended
<1>2. ASSUME NEW s \in Seq(M) PROVE Len(Append(s, m)) <= Len(s) + 1 /\ Len(s) <= Len(s) + 1
  OBVIOUS
<1>3. Len(queue') <= Len(queue) + 1
  BY <1>2
<1> QED BY <1>1, <1>3

(***************************************************************************)
(* The quiz                                                                *)
(***************************************************************************)

\* Nobody is there before the program starts, and no player before its fork.
VForked ==
  /\ DOMAIN pc = V!Processes
  /\ pc["main"] = "off" => pc["firstPlayer"] = "off" /\ pc["secPlayer"] = "off"
  /\ pc["main"] \in {"fork1", "fork2"} => pc["secPlayer"] = "off"
  /\ pc["main"] = "fork1" => pc["firstPlayer"] = "off"

\* While the semaphore exists it is a lock; once main has gone on to remove it
\* one of the players has left.
VInside == {"store", "unlock", "print1", "print2"}
VRemoved == {"msgctl", "done"}
VLeft ==
  pc["main"] \in VRemoved \cup {"semaphoreDelete"} => \E p \in V!Players : pc[p] = "exited"

VControl ==
  /\ VForked /\ VLeft
  /\ Lock(VInside, VRemoved) /\ Heard("firstPlayer", "secPlayer")

LEMMA VIsIpc ==
  /\ \A p, from, to : V!Step(p, from, to) <=> Step(p, from, to)
  /\ \A p, from, to, op : V!SemOp(p, from, to, op) <=> SemOp(p, from, to, op)
BY DEF V!Step, Step, V!SemOp, SemOp

LEMMA VInitControl == V!Init => VControl
<1> SUFFICES ASSUME V!Init PROVE VControl
  OBVIOUS
<1>1. /\ pc = [p \in V!Processes |-> "off"] /\ sem = 0
      /\ pending = FALSE /\ ready = 0
  BY DEF V!Init, V!IpcInit
<1>2. pending \in BOOLEAN
  BY <1>1, Zenon
<1> QED BY <1>1, <1>2
  DEF VControl, VForked, VLeft, VRemoved, Lock, Heard, V!Processes, V!Players

\* A player has moved and keeps the lock or has not used it.
LEMMA VPlayerControl ==
  ASSUME VControl, NEW p \in V!Players, NEW from, NEW to, Step(p, from, to),
         from \notin {"off", "exited"}, to # "off", Lock(VInside, VRemoved)',
         Heard("firstPlayer", "secPlayer")'
  PROVE  VControl'
<1>1. Moved(p, from, to)
  BY StepMoves DEF VControl, VForked, V!Processes
<1> QED BY <1>1 DEF VControl, VForked, VLeft, Moved, V!Processes, V!Players

LEMMA VFirstControl == ASSUME VControl, V!firstPlayer PROVE VControl'
<1> USE DEF V!Processes, V!Players
<1>0. pc["main"] # "off" /\ DOMAIN pc = V!Processes
  BY DEF VControl, VForked, V!firstPlayer, V!Kill, V!Write, V!Read, V!Assign, V!SemOp, V!StoreShm,
         V!Step
<1>1. CASE V!SemOp("firstPlayer", "lock", "store", -1)
  <2>1. /\ SemOp("firstPlayer", "lock", "store", -1) /\ Step("firstPlayer", "lock", "store")
        /\ Moved("firstPlayer", "lock", "store")
    BY <1>0, <1>1, VIsIpc, StepMoves DEF SemOp
  <2>2. Lock(VInside, VRemoved)'
    BY <1>0, <2>1, LockDown DEF VControl, VInside
  <2>3. Heard("firstPlayer", "secPlayer")'
    BY <1>0, <2>1, HeardKept DEF VControl, SemOp, Moved
  <2> QED BY <2>1, <2>2, <2>3, VPlayerControl
<1>2. CASE V!SemOp("firstPlayer", "unlock", "exited", 1)
  <2>1. /\ SemOp("firstPlayer", "unlock", "exited", 1) /\ Step("firstPlayer", "unlock", "exited")
        /\ Moved("firstPlayer", "unlock", "exited")
    BY <1>0, <1>2, VIsIpc, StepMoves DEF SemOp
  <2>2. Lock(VInside, VRemoved)'
    BY <1>0, <2>1, LockUp DEF VControl, VInside
  <2>3. Heard("firstPlayer", "secPlayer")'
    BY <1>0, <2>1, HeardKept DEF VControl, SemOp, Moved
  <2> QED BY <2>1, <2>2, <2>3, VPlayerControl
<1>3. CASE V!Kill("firstPlayer", "start", "name") /\ UNCHANGED V!ipc
  <2>1. /\ Step("firstPlayer", "start", "name") /\ UNCHANGED <<ready, sem, exists>>
        /\ pending' \in BOOLEAN /\ Moved("firstPlayer", "start", "name")
    BY <1>0, <1>3, VIsIpc, StepMoves DEF V!Kill, V!Alive, V!ipc
  <2>2. Settled(VInside) /\ pc'["main"] = pc["main"]
    BY <1>0, <2>1 DEF Settled, VInside, Moved
  <2>3. Lock(VInside, VRemoved)'
    BY <1>0, <2>1, <2>2, LockKept DEF VControl
  <2>4. Heard("firstPlayer", "secPlayer")'
    BY <1>0, <2>1, HeardKill DEF VControl, Moved
  <2> QED BY <2>1, <2>3, <2>4, VPlayerControl
<1>4. CASE /\ ~V!SemOp("firstPlayer", "lock", "store", -1)
           /\ ~V!SemOp("firstPlayer", "unlock", "exited", 1)
           /\ ~(V!Kill("firstPlayer", "start", "name") /\ UNCHANGED V!ipc)
  <2>1. /\ UNCHANGED <<pending, ready, sem, exists>> /\ Settled(VInside)
        /\ pc'["main"] = pc["main"] /\ pc'["secPlayer"] = pc["secPlayer"]
        /\ pc["firstPlayer"] \notin {"off", "exited"} /\ pc'["firstPlayer"] \notin {"off", "start"}
    BY <1>0, <1>4 DEF V!firstPlayer, V!Write, V!Read, V!Assign, V!StoreShm, V!Step, V!ipc,
                Settled, VInside
  <2>2. Lock(VInside, VRemoved)' /\ Heard("firstPlayer", "secPlayer")'
    BY <1>0, <2>1, LockKept, HeardKept DEF VControl
  <2>3. VForked'
    BY <1>0, <2>1 DEF VControl, VForked, Settled
  <2>4. VLeft'
    BY <1>0, <2>1 DEF VControl, VLeft
  <2> QED BY <2>2, <2>3, <2>4 DEF VControl
<1> QED BY <1>1, <1>2, <1>3, <1>4 DEF V!firstPlayer

LEMMA VSecControl == ASSUME VControl, V!secPlayer PROVE VControl'
<1> USE DEF V!Processes, V!Players
<1>0. pc["main"] # "off" /\ DOMAIN pc = V!Processes
  BY DEF VControl, VForked, V!secPlayer, V!Kill, V!Write, V!Read, V!Assign, V!MsgSnd, V!SemOp, V!StoreShm,
         V!Step
<1>1. CASE V!SemOp("secPlayer", "lock", "store", -1)
  <2>1. /\ SemOp("secPlayer", "lock", "store", -1) /\ Step("secPlayer", "lock", "store")
        /\ Moved("secPlayer", "lock", "store")
    BY <1>0, <1>1, VIsIpc, StepMoves DEF SemOp
  <2>2. Lock(VInside, VRemoved)'
    BY <1>0, <2>1, LockDown DEF VControl, VInside
  <2>3. Heard("firstPlayer", "secPlayer")'
    BY <1>0, <2>1, HeardKept DEF VControl, SemOp, Moved
  <2> QED BY <2>1, <2>2, <2>3, VPlayerControl
<1>2. CASE V!SemOp("secPlayer", "unlock", "exited", 1)
  <2>1. /\ SemOp("secPlayer", "unlock", "exited", 1) /\ Step("secPlayer", "unlock", "exited")
        /\ Moved("secPlayer", "unlock", "exited")
    BY <1>0, <1>2, VIsIpc, StepMoves DEF SemOp
  <2>2. Lock(VInside, VRemoved)'
    BY <1>0, <2>1, LockUp DEF VControl, VInside
  <2>3. Heard("firstPlayer", "secPlayer")'
    BY <1>0, <2>1, HeardKept DEF VControl, SemOp, Moved
  <2> QED BY <2>1, <2>2, <2>3, VPlayerControl
<1>3. CASE V!Kill("secPlayer", "start", "name") /\ UNCHANGED V!ipc
  <2>1. /\ Step("secPlayer", "start", "name") /\ UNCHANGED <<ready, sem, exists>>
        /\ pending' \in BOOLEAN /\ Moved("secPlayer", "start", "name")
    BY <1>0, <1>3, VIsIpc, StepMoves DEF V!Kill, V!Alive, V!ipc
  <2>2. Settled(VInside) /\ pc'["main"] = pc["main"]
    BY <1>0, <2>1 DEF Settled, VInside, Moved
  <2>3. Lock(VInside, VRemoved)'
    BY <1>0, <2>1, <2>2, LockKept DEF VControl
  <2>4. Heard("firstPlayer", "secPlayer")'
    BY <1>0, <2>1, HeardKill DEF VControl, Moved
  <2> QED BY <2>1, <2>3, <2>4, VPlayerControl
<1>4. CASE /\ ~V!SemOp("secPlayer", "lock", "store", -1)
           /\ ~V!SemOp("secPlayer", "unlock", "exited", 1)
           /\ ~(V!Kill("secPlayer", "start", "name") /\ UNCHANGED V!ipc)
  <2>1. /\ UNCHANGED <<pending, ready, sem, exists>> /\ Settled(VInside)
        /\ pc'["main"] = pc["main"] /\ pc'["firstPlayer"] = pc["firstPlayer"]
        /\ pc["secPlayer"] \notin {"off", "exited"} /\ pc'["secPlayer"] \notin {"off", "start"}
    BY <1>0, <1>4 DEF V!secPlayer, V!Write, V!Read, V!Assign, V!MsgSnd, V!StoreShm, V!Step, V!ipc,
                Settled, VInside
  <2>2. Lock(VInside, VRemoved)' /\ Heard("firstPlayer", "secPlayer")'
    BY <1>0, <2>1, LockKept, HeardKept DEF VControl
  <2>3. VForked'
    BY <1>0, <2>1 DEF VControl, VForked, Settled
  <2>4. VLeft'
    BY <1>0, <2>1 DEF VControl, VLeft
  <2> QED BY <2>2, <2>3, <2>4 DEF VControl
<1> QED BY <1>1, <1>2, <1>3, <1>4 DEF V!secPlayer

LEMMA VMainStartControl == ASSUME VControl, V!mainStart PROVE VControl'
<1> USE DEF V!Processes, V!Players
<1>0. UNCHANGED <<pending, ready, sem, exists>> /\ DOMAIN pc = V!Processes
  BY DEF VControl, VForked, V!mainStart, V!Fork, V!AwaitReady, V!ipc
<1>1. \/ /\ pc["main"] = "fork1" /\ pc'["main"] \in {"fork2", "exited"}
         /\ pc'["secPlayer"] = pc["secPlayer"]
      \/ /\ pc["main"] = "fork2" /\ pc'["main"] \in {"ready1", "exited"}
         /\ pc'["firstPlayer"] = pc["firstPlayer"]
      \/ /\ pc["main"] \in {"ready1", "ready2"} /\ pc'["main"] \in {"ready2", "name1"}
         /\ pc'["firstPlayer"] = pc["firstPlayer"] /\ pc'["secPlayer"] = pc["secPlayer"]
  BY <1>0 DEF V!mainStart, V!Fork, V!AwaitReady, V!Step
<1>2. /\ DOMAIN pc' = V!Processes
      /\ \A p \in V!Players : pc'[p] = pc[p] \/ (pc[p] = "off" /\ pc'[p] = "start")
  BY <1>0 DEF VControl, VForked, V!mainStart, V!Fork, V!AwaitReady, V!Step
<1>3. Settled(VInside)
  BY <1>0, <1>1, <1>2 DEF Settled, VInside
<1>4. Lock(VInside, VRemoved)' /\ Heard("firstPlayer", "secPlayer")'
  BY <1>0, <1>1, <1>2, <1>3, LockKept, HeardKept DEF VControl, VRemoved
<1>5. VForked'
  BY <1>1, <1>2 DEF VControl, VForked
<1>6. VLeft'
  BY <1>1 DEF VLeft, VRemoved
<1> QED BY <1>4, <1>5, <1>6 DEF VControl

\* Main has moved behind the forks; the players have not.
LEMMA VMainControl ==
  ASSUME VControl, NEW from, NEW to, Step("main", from, to),
         from # "off", to \notin {"off", "fork1", "fork2"},
         to \in VRemoved \cup {"semaphoreDelete"} =>
           from \in VRemoved \cup {"semaphoreDelete"} \/ \E p \in V!Players : pc[p] = "exited",
         UNCHANGED <<pending, ready>>, Lock(VInside, VRemoved)'
  PROVE  VControl'
<1>1. Moved("main", from, to)
  BY StepMoves DEF VControl, VForked, V!Processes
<1>2. Heard("firstPlayer", "secPlayer")'
  BY <1>1, HeardKept DEF VControl, VForked, Moved, V!Processes, V!Players
<1> QED BY <1>1, <1>2 DEF VControl, VForked, VLeft, Moved, V!Processes, V!Players

\* The labels of main from its first read to the verdict, and behind it
VRound == {"name1", "name2", "generate", "ask1", "ask2", "answer1", "answer2", "msgrcv", "verdict"}
VClosing == {"lock", "print1", "print2", "unlock", "wait", "semaphoreDelete", "msgctl", "done"}

LEMMA VMainRoundControl == ASSUME VControl, V!mainRound PROVE VControl'
<1>1. /\ UNCHANGED <<pending, ready, sem, exists>> /\ pc["main"] \in VRound
      /\ Step("main", pc["main"], pc'["main"]) /\ pc'["main"] \in VRound
  BY DEF V!mainRound, V!Read, V!Write, V!Assign, V!MsgRcv, V!Step, Step, V!ipc, VRound,
         VControl, VForked, V!Processes
<1>2. Settled(VInside)
  BY <1>1, StepMoves DEF VControl, VForked, Moved, Settled, VInside, VRound, V!Processes, V!Players
<1>3. Lock(VInside, VRemoved)'
  BY <1>1, <1>2, LockKept DEF VControl, VRound, VRemoved
<1> QED BY <1>1, <1>3, VMainControl DEF VRound, VRemoved

LEMMA VMainEndControl == ASSUME VControl, V!mainEnd PROVE VControl'
<1> USE DEF V!Processes, V!Players
<1>0. DOMAIN pc = V!Processes
  BY DEF VControl, VForked
<1>1. CASE V!SemOp("main", "lock", "print1", -1)
  <2>1. /\ SemOp("main", "lock", "print1", -1) /\ Step("main", "lock", "print1")
        /\ UNCHANGED <<pending, ready>>
    BY <1>1, VIsIpc DEF SemOp
  <2>2. pc["main"] = "lock"
    BY <2>1 DEF Step
  <2>3. Lock(VInside, VRemoved)'
    BY <1>0, <2>1, <2>2, LockDown DEF VControl, VInside, VRemoved
  <2> QED BY <2>1, <2>3, VMainControl DEF VRemoved
<1>2. CASE V!SemOp("main", "unlock", "wait", 1)
  <2>1. /\ SemOp("main", "unlock", "wait", 1) /\ Step("main", "unlock", "wait")
        /\ UNCHANGED <<pending, ready>>
    BY <1>2, VIsIpc DEF SemOp
  <2>2. pc["main"] = "unlock"
    BY <2>1 DEF Step
  <2>3. Lock(VInside, VRemoved)'
    BY <1>0, <2>1, <2>2, LockUp DEF VControl, VInside, VRemoved
  <2> QED BY <2>1, <2>3, VMainControl DEF VRemoved
<1>3. CASE V!RemoveSem("semaphoreDelete", "msgctl")
  <2>1. /\ Step("main", "semaphoreDelete", "msgctl") /\ UNCHANGED <<pending, ready, sem>>
        /\ "sem" \notin exists'
    BY <1>3, VIsIpc DEF V!RemoveSem
  <2>2. Lock(VInside, VRemoved)'
    BY <1>0, <2>1, LockRemoved, StepMoves DEF VControl, VRemoved, Moved
  <2> QED BY <2>1, <2>2, VMainControl DEF VRemoved
<1>4. CASE V!RemoveQueue("msgctl")
  <2>1. /\ Step("main", "msgctl", "done") /\ UNCHANGED <<pending, ready, sem>>
        /\ exists' \subseteq exists /\ pc["main"] = "msgctl"
    BY <1>4, VIsIpc DEF V!RemoveQueue, Step
  <2>2. Lock(VInside, VRemoved)'
    BY <1>0, <2>1, LockRemoved, StepMoves DEF VControl, VRemoved, Moved, Lock
  <2> QED BY <2>1, <2>2, VMainControl DEF VRemoved
<1>5. CASE /\ ~V!SemOp("main", "lock", "print1", -1) /\ ~V!SemOp("main", "unlock", "wait", 1)
           /\ ~V!RemoveSem("semaphoreDelete", "msgctl") /\ ~V!RemoveQueue("msgctl")
  <2>1. /\ UNCHANGED <<pending, ready, sem, exists>>
        /\ Step("main", pc["main"], pc'["main"])
        /\ pc["main"] \in {"verdict", "print1", "print2", "wait"}
        /\ pc'["main"] \in {"lock", "print2", "unlock", "semaphoreDelete"}
        /\ pc["main"] \in VInside <=> pc'["main"] \in VInside
        /\ pc'["main"] = "semaphoreDelete" => \E p \in V!Players : pc[p] = "exited"
    BY <1>0, <1>5 DEF V!mainEnd, V!Assign, V!Wait, V!LoadShm, V!Step, Step, V!ipc, VInside
  <2>2. Settled(VInside)
    BY <1>0, <2>1, StepMoves DEF Moved, Settled, VInside
  <2>3. Lock(VInside, VRemoved)'
    BY <2>1, <2>2, LockKept DEF VControl, VRemoved
  <2> QED BY <2>1, <2>3, VMainControl DEF VRemoved
<1> QED BY <1>1, <1>2, <1>3, <1>4, <1>5

LEMMA VControlInductive == ASSUME VControl, V!Next PROVE VControl'
<1> USE DEF V!Processes, V!Players
<1>1. CASE V!Start(V!Processes, V!Pipes, V!NoLocals, V!semaphoreCreation(1))
  <2>1. /\ pc' = [p \in V!Processes |-> IF p = "main" THEN "fork1" ELSE "off"]
        /\ sem' = 1 /\ "sem" \in exists' /\ pending' = FALSE /\ ready' = 0
    BY <1>1 DEF V!Start, V!semaphoreCreation
  <2>2. /\ DOMAIN pc' = V!Processes /\ pc'["main"] = "fork1"
        /\ pc'["firstPlayer"] = "off" /\ pc'["secPlayer"] = "off"
    BY <2>1
  <2>3. \A p \in DOMAIN pc' : pc'[p] \notin VInside
    BY <2>2 DEF VInside
  <2>4. Lock(VInside, VRemoved)'
    BY <2>1, <2>2, <2>3, LockStarted DEF VRemoved
  <2>5. Heard("firstPlayer", "secPlayer")'
    BY <2>1, <2>2, HeardStarted
  <2> QED BY <2>2, <2>4, <2>5 DEF VControl, VForked, VLeft, VRemoved
<1>2. CASE V!Interrupt(V!Processes)
  <2>1. pc' = [p \in V!Processes |-> "off"] /\ UNCHANGED <<pending, ready, sem>>
    BY <1>2 DEF V!Interrupt, V!ipc
  <2>2. /\ DOMAIN pc' = V!Processes /\ pc'["main"] = "off"
        /\ pc'["firstPlayer"] = "off" /\ pc'["secPlayer"] = "off"
    BY <2>1
  <2>3. Lock(VInside, VRemoved)' /\ Heard("firstPlayer", "secPlayer")'
    BY <2>1, <2>2, LockOff, HeardKept DEF VControl, VRemoved
  <2> QED BY <2>2, <2>3 DEF VControl, VForked, VLeft, VRemoved
<1>3. CASE V!Deliver /\ UNCHANGED V!ipc
  <2>1. UNCHANGED <<pc, sem, exists>> /\ Deliver
    BY <1>3 DEF V!Deliver, Deliver, V!ipc, V!Alive, Alive, V!Gone, Gone
  <2>2. Heard("firstPlayer", "secPlayer")'
    BY <2>1, HeardDelivered DEF VControl
  <2> QED BY <2>1, <2>2 DEF VControl, VForked, VLeft, Lock, Mutex, Nobody, Somebody
<1> QED BY <1>1, <1>2, <1>3, VFirstControl, VSecControl, VMainStartControl, VMainRoundControl,
           VMainEndControl
    DEF V!Next, V!Main

LEMMA VExclusion == VControl => V!Exclusion
<1> SUFFICES ASSUME VControl, NEW p \in V!Processes, NEW q \in V!Processes,
                    V!InShm(p), V!InShm(q) PROVE p = q
  BY DEF V!Exclusion
<1> USE DEF VControl, VForked, V!Processes, V!Players
<1>1. CASE pc["main"] \notin VRemoved \cup {"off"}
  BY <1>1 DEF Lock, Mutex, Nobody, Somebody, VInside, V!InShm
<1>2. CASE pc["main"] \in VRemoved \cup {"off"}
  BY <1>2 DEF VLeft, VRemoved, V!InShm
<1> QED BY <1>1, <1>2

-----------------------------------------------------------------------------
(* What a player tells the host over its pipe d: a name and an answer *)

VNameless == {"off", "start", "name"}
VThinking == {"question", "think", "answer"}

\* The host has read nothing at the labels in unread, the name at those in
\* named, and behind them it has seen the answer.
Dialogue(p, d, answer, seen, unread, named) ==
  /\ mem[seen] # "unset" => mem[seen] = mem[answer]
  /\ pc["main"] # "off" =>
       /\ pc["main"] \in unread \cup named => mem[seen] = "unset"
       /\ pc[p] \in VNameless => pc["main"] \in unread /\ pipe[d] = <<>>
       /\ pc[p] \in VThinking =>
            \/ pc["main"] \in unread /\ pipe[d] = <<"a name">>
            \/ pc["main"] \in named /\ pipe[d] = <<>>
       /\ pc[p] \notin VNameless \cup VThinking =>
            \/ pc["main"] \in unread /\ pipe[d] = <<"a name", mem[answer]>>
            \/ pc["main"] \in named /\ pipe[d] = <<mem[answer]>>
            \/ pc["main"] \notin unread \cup named /\ pipe[d] = <<>> /\ mem[seen] = mem[answer]

\* Nothing of it has changed.
DialogueSame(p, d, answer, seen, unread, named) ==
  /\ pipe'[d] = pipe[d] /\ mem'[answer] = mem[answer] /\ mem'[seen] = mem[seen]
  /\ pc["main"] # "off" /\ pc'["main"] # "off"
  /\ pc'["main"] \in unread <=> pc["main"] \in unread
  /\ pc'["main"] \in named <=> pc["main"] \in named
  /\ pc'[p] \in VNameless <=> pc[p] \in VNameless
  /\ pc'[p] \in VThinking <=> pc[p] \in VThinking

LEMMA DialogueKept ==
  ASSUME NEW p, NEW d, NEW answer, NEW seen, NEW unread, NEW named,
         Dialogue(p, d, answer, seen, unread, named),
         DialogueSame(p, d, answer, seen, unread, named)
  PROVE  Dialogue(p, d, answer, seen, unread, named)'
BY DEF Dialogue, DialogueSame

\* The player writes its name, has an answer, and writes it.
LEMMA DialogueSpoken ==
  ASSUME NEW p, NEW d, NEW answer, NEW seen, NEW unread, NEW named, unread \cap named = {},
         Dialogue(p, d, answer, seen, unread, named),
         pc["main"] # "off", pc'["main"] = pc["main"], mem'[seen] = mem[seen],
         \/ /\ pc[p] = "name" /\ pc'[p] = "question"
            /\ pipe'[d] = Append(pipe[d], "a name") /\ mem'[answer] = mem[answer]
         \/ pc[p] = "think" /\ pc'[p] = "answer" /\ pipe'[d] = pipe[d]
         \/ /\ pc[p] = "answer" /\ pc'[p] \notin VNameless \cup VThinking
            /\ pipe'[d] = Append(pipe[d], mem[answer]) /\ mem'[answer] = mem[answer]
  PROVE  Dialogue(p, d, answer, seen, unread, named)'
<1>1. CASE pc[p] = "name"
  <2>1. pc["main"] \in unread /\ pipe'[d] = <<"a name">> /\ mem'[answer] = mem[answer]
    BY <1>1, ShortPipes DEF Dialogue, VNameless
  <2> QED BY <1>1, <2>1 DEF Dialogue, VNameless, VThinking
<1>2. CASE pc[p] = "think"
  BY <1>2 DEF Dialogue, VNameless, VThinking
<1>3. CASE pc[p] = "answer"
  <2>1. \/ pc["main"] \in unread /\ pipe'[d] = <<"a name", mem[answer]>>
        \/ pc["main"] \in named /\ pipe'[d] = <<mem[answer]>>
    <3>1. \/ pc["main"] \in unread /\ pipe[d] = <<"a name">>
          \/ pc["main"] \in named /\ pipe[d] = <<>>
      BY <1>3 DEF Dialogue, VThinking
    <3>2. pipe'[d] = Append(pipe[d], mem[answer])
      BY <1>3
    <3>3. /\ Append(<<"a name">>, mem[answer]) = <<"a name", mem[answer]>>
          /\ Append(<<>>, mem[answer]) = <<mem[answer]>>
      BY ShortPipes
    <3> QED BY <3>1, <3>2, <3>3
  <2> QED BY <1>3, <2>1 DEF Dialogue, VNameless, VThinking
<1> QED BY <1>1, <1>2, <1>3

\* The host reads the name, and then the answer.
LEMMA DialogueHeard ==
  ASSUME NEW p, NEW d, NEW answer, NEW seen, NEW unread, NEW named, unread \cap named = {},
         Dialogue(p, d, answer, seen, unread, named),
         pc["main"] # "off", pc'["main"] # "off", pc'[p] = pc[p], mem'[answer] = mem[answer],
         pipe[d] # <<>>, pipe'[d] = Tail(pipe[d]),
         \/ pc["main"] \in unread /\ pc'["main"] \in named /\ mem'[seen] = mem[seen]
         \/ /\ pc["main"] \in named /\ pc'["main"] \notin unread \cup named
            /\ mem'[seen] = Head(pipe[d])
  PROVE  Dialogue(p, d, answer, seen, unread, named)'
<1>1. CASE pc["main"] \in unread
  <2>1. pc["main"] \notin named /\ pc'["main"] \notin unread
    BY <1>1
  <2>2. \/ pc[p] \in VThinking /\ pipe'[d] = <<>>
        \/ pc[p] \notin VNameless \cup VThinking /\ pipe'[d] = <<mem[answer]>>
    <3>1. \/ pc[p] \in VThinking /\ pipe[d] = <<"a name">>
          \/ pc[p] \notin VNameless \cup VThinking /\ pipe[d] = <<"a name", mem[answer]>>
      BY <1>1, <2>1 DEF Dialogue
    <3>2. Tail(<<"a name">>) = <<>> /\ Tail(<<"a name", mem[answer]>>) = <<mem[answer]>>
      BY ShortPipes
    <3> QED BY <3>1, <3>2
  <2>3. mem'[seen] = "unset" /\ pc'["main"] \in named
    BY <1>1, <2>1 DEF Dialogue
  <2> QED BY <2>1, <2>2, <2>3 DEF Dialogue, VNameless, VThinking
<1>2. CASE pc["main"] \in named
  <2>1. pc["main"] \notin unread
    BY <1>2
  <2>2. pc[p] \notin VNameless \cup VThinking /\ pipe[d] = <<mem[answer]>>
    BY <1>2, <2>1 DEF Dialogue
  <2>3. pipe'[d] = <<>> /\ mem'[seen] = mem[answer]
    BY <1>2, <2>1, <2>2, ShortPipes
  <2> QED BY <1>2, <2>1, <2>2, <2>3 DEF Dialogue
<1> QED BY <1>1, <1>2

-----------------------------------------------------------------------------
(* The verdict *)

VNotRead == {"exited", "fork1", "fork2", "ready1", "ready2", "name1"}
VAsking == {"generate", "ask1", "ask2", "answer1"}
VDialogue1 ==
  Dialogue("firstPlayer", "io_pipes1", "answer1", "firstAnswer", VNotRead, VAsking \cup {"name2"})
VDialogue2 ==
  Dialogue("secPlayer", "io_pipes3", "answer2", "secondAnswer",
           VNotRead \cup {"name2"}, VAsking \cup {"answer2"})

VMessages == [from : {"secPlayer"}, run : Nat, type : {5}, text : {"unset", "h", "j"}]
VTypes ==
  /\ DOMAIN mem = V!Locals /\ DOMAIN pipe = V!Pipes
  /\ run \in Nat /\ queue \in Seq(VMessages) /\ mem["puffer"] \in {"unset", "h", "j"}

\* A message of this run, in the queue or taken from it, is the guess of the
\* second player, who has gone on.
VGuessed == {"off", "lock", "store", "unlock", "exited"}
VGuess ==
  \A m \in Range(queue) \cup {mem["ms"]} :
    /\ m.run \in Nat /\ m.run <= run
    /\ m.run = run => /\ m.text = mem["puffer"] /\ pc["secPlayer"] \in VGuessed
                      /\ pc["main"] \notin {"fork1", "fork2"}

\* There is no verdict before the answers and the guess are read; it is the
\* one they call for.
VNoVerdict == VNotRead \cup VAsking \cup {"name2", "answer2", "msgrcv", "verdict"}
VDeserved ==
  mem["verdict"] # "unset" /\ mem["ms"].run = run
    => (mem["verdict"] = "mikulas"
          <=> mem["puffer"] = IF mem["answer1"] = mem["goodAnswer"] THEN "j" ELSE "h")
VJudged == VDeserved /\ (pc["main"] \in VNoVerdict => mem["verdict"] = "unset")

VData == VTypes /\ VDialogue1 /\ VDialogue2 /\ VGuess /\ VJudged

LEMMA VFirstData == ASSUME VControl, VData, V!firstPlayer PROVE VData'
<1> USE DEF VControl, VForked, V!Processes, V!Players
<1>1. /\ pc["main"] # "off" /\ pc'["main"] = pc["main"] /\ pc'["secPlayer"] = pc["secPlayer"]
      /\ DOMAIN mem' = V!Locals /\ DOMAIN pipe' = V!Pipes
      /\ \A x \in V!Locals \ {"answer1", "question1"} : mem'[x] = mem[x]
      /\ pipe'["io_pipes3"] = pipe["io_pipes3"] /\ UNCHANGED <<queue, run>>
      /\ mem'["answer1"] # mem["answer1"] => pc["firstPlayer"] = "think"
  BY ZenonT(60) DEF V!firstPlayer, V!Kill, V!Write, V!Read, V!Assign, V!SemOp, V!StoreShm, V!Step, V!ipc,
         VData, VTypes, V!Locals, V!Pipes
<1>2. VDialogue1'
  <2>1. \/ DialogueSame("firstPlayer", "io_pipes1", "answer1", "firstAnswer", VNotRead,
                        VAsking \cup {"name2"})
        \/ /\ pc["firstPlayer"] = "name" /\ pc'["firstPlayer"] = "question"
           /\ pipe'["io_pipes1"] = Append(pipe["io_pipes1"], "a name")
           /\ mem'["answer1"] = mem["answer1"]
        \/ /\ pc["firstPlayer"] = "think" /\ pc'["firstPlayer"] = "answer"
           /\ pipe'["io_pipes1"] = pipe["io_pipes1"]
        \/ /\ pc["firstPlayer"] = "answer" /\ pc'["firstPlayer"] = "lock"
           /\ pipe'["io_pipes1"] = Append(pipe["io_pipes1"], mem["answer1"])
           /\ mem'["answer1"] = mem["answer1"]
    BY <1>1, ZenonT(60) DEF V!firstPlayer, V!Kill, V!Write, V!Read, V!Assign, V!SemOp, V!StoreShm, V!Step,
         V!ipc, VData, VTypes, V!Locals, V!Pipes, DialogueSame, VNameless, VThinking
  <2>2. VNotRead \cap (VAsking \cup {"name2"}) = {} /\ mem'["firstAnswer"] = mem["firstAnswer"]
    BY <1>1 DEF VNotRead, VAsking, V!Locals
  <2>3. "lock" \notin VNameless \cup VThinking
    BY DEF VNameless, VThinking
  <2> QED BY <1>1, <2>1, <2>2, <2>3, DialogueKept, DialogueSpoken DEF VData, VDialogue1
<1>3. VDialogue2'
  <2>1. DialogueSame("secPlayer", "io_pipes3", "answer2", "secondAnswer", VNotRead \cup {"name2"},
                     VAsking \cup {"answer2"})
    BY <1>1 DEF DialogueSame, V!Locals
  <2> QED BY <2>1, DialogueKept DEF VData, VDialogue2
<1>4. VTypes' /\ VGuess'
  BY <1>1 DEF VData, VTypes, VGuess, V!Locals
<1>5. VJudged'
  <2>1. pc["firstPlayer"] = "think" => mem["verdict"] = "unset"
    BY <1>1 DEF VData, VDialogue1, Dialogue, VThinking, VNameless, VNotRead, VAsking, VJudged, VNoVerdict
  <2> QED BY <1>1, <2>1 DEF VData, VJudged, VDeserved, V!Locals
<1> QED BY <1>2, <1>3, <1>4, <1>5 DEF VData

LEMMA VSecData == ASSUME VControl, VData, V!secPlayer PROVE VData'
<1> USE DEF VControl, VForked, V!Processes, V!Players
<1>1. /\ pc["main"] # "off" /\ pc'["main"] = pc["main"] /\ pc'["firstPlayer"] = pc["firstPlayer"]
      /\ DOMAIN mem' = V!Locals /\ DOMAIN pipe' = V!Pipes
      /\ \A x \in V!Locals \ {"answer2", "question2", "puffer"} : mem'[x] = mem[x]
      /\ pipe'["io_pipes1"] = pipe["io_pipes1"] /\ UNCHANGED run
  BY ZenonT(60) DEF V!secPlayer, V!Kill, V!Write, V!Read, V!Assign, V!MsgSnd, V!SemOp, V!StoreShm, V!Step,
         V!ipc, VData, VTypes, V!Locals, V!Pipes
<1>2. VDialogue2'
  <2>1. \/ DialogueSame("secPlayer", "io_pipes3", "answer2", "secondAnswer", VNotRead \cup {"name2"},
                        VAsking \cup {"answer2"})
        \/ /\ pc["secPlayer"] = "name" /\ pc'["secPlayer"] = "question"
           /\ pipe'["io_pipes3"] = Append(pipe["io_pipes3"], "a name")
           /\ mem'["answer2"] = mem["answer2"]
        \/ /\ pc["secPlayer"] = "think" /\ pc'["secPlayer"] = "answer"
           /\ pipe'["io_pipes3"] = pipe["io_pipes3"]
        \/ /\ pc["secPlayer"] = "answer" /\ pc'["secPlayer"] = "guess"
           /\ pipe'["io_pipes3"] = Append(pipe["io_pipes3"], mem["answer2"])
           /\ mem'["answer2"] = mem["answer2"]
    <3>1. CASE V!MsgSnd("secPlayer", "msgsnd", "lock", 5, mem["puffer"])
      BY <1>1, <3>1 DEF V!MsgSnd, V!Step, DialogueSame, VNameless, VThinking
    <3>2. CASE ~V!MsgSnd("secPlayer", "msgsnd", "lock", 5, mem["puffer"])
      BY <1>1, <3>2, ZenonT(60) DEF V!secPlayer, V!Kill, V!Write, V!Read, V!Assign, V!SemOp, V!StoreShm,
           V!Step, V!ipc, VData, VTypes, V!Locals, V!Pipes, DialogueSame, VNameless, VThinking
    <3> QED BY <3>1, <3>2
  <2>2. /\ (VNotRead \cup {"name2"}) \cap (VAsking \cup {"answer2"}) = {}
        /\ mem'["secondAnswer"] = mem["secondAnswer"]
    BY <1>1 DEF VNotRead, VAsking, V!Locals
  <2>3. "guess" \notin VNameless \cup VThinking
    BY DEF VNameless, VThinking
  <2> QED BY <1>1, <2>1, <2>2, <2>3, DialogueKept, DialogueSpoken DEF VData, VDialogue2
<1>3. VDialogue1'
  <2>1. DialogueSame("firstPlayer", "io_pipes1", "answer1", "firstAnswer", VNotRead,
                     VAsking \cup {"name2"})
    BY <1>1 DEF DialogueSame, V!Locals
  <2> QED BY <2>1, DialogueKept DEF VData, VDialogue1
<1>4. CASE V!MsgSnd("secPlayer", "msgsnd", "lock", 5, mem["puffer"])
  <2> DEFINE m == [from |-> "secPlayer", run |-> run, type |-> 5, text |-> mem["puffer"]]
  <2>1. m \in VMessages
    BY DEF VData, VTypes, VMessages
  <2>2. queue' \in Seq(VMessages) /\ Range(queue') \subseteq Range(queue) \cup {m}
    <3>1. queue' = Append(queue, m) \/ queue' = queue
      BY <1>4 DEF V!MsgSnd, V!Message
    <3>2. queue \in Seq(VMessages)
      BY DEF VData, VTypes
    <3> HIDE DEF m
    <3>3. Append(queue, m) \in Seq(VMessages) /\ Range(Append(queue, m)) = Range(queue) \cup {m}
      BY <2>1, <3>2, Appended
    <3> QED BY <3>1, <3>2, <3>3
  <2>3. pc["secPlayer"] = "msgsnd" /\ pc'["secPlayer"] = "lock" /\ UNCHANGED mem
    BY <1>4 DEF V!MsgSnd, V!Step
  <2>4. pc["main"] \notin {"fork1", "fork2"}
    BY <2>3
  <2>5. VGuess'
    <3> SUFFICES ASSUME NEW x \in Range(queue') \cup {mem'["ms"]}
                 PROVE  /\ x.run \in Nat /\ x.run <= run'
                        /\ x.run = run' => /\ x.text = mem'["puffer"] /\ pc'["secPlayer"] \in VGuessed
                                           /\ pc'["main"] \notin {"fork1", "fork2"}
      BY DEF VGuess
    <3>1. CASE x = m
      BY <1>1, <2>3, <2>4, <3>1 DEF VData, VTypes, VGuessed
    <3>2. CASE x \in Range(queue) \cup {mem["ms"]}
      BY <1>1, <2>3, <2>4, <3>2 DEF VData, VGuess, VGuessed
    <3> QED BY <2>2, <2>3, <3>1, <3>2
  <2>6. VTypes' /\ VJudged'
    BY <1>1, <2>2, <2>3 DEF VData, VTypes, VJudged, VDeserved
  <2> QED BY <1>2, <1>3, <2>5, <2>6 DEF VData
<1>5. CASE ~V!MsgSnd("secPlayer", "msgsnd", "lock", 5, mem["puffer"])
  <2>1. /\ UNCHANGED queue /\ (pc["secPlayer"] \in VGuessed => pc'["secPlayer"] \in VGuessed)
        /\ mem'["puffer"] # mem["puffer"] => pc["secPlayer"] \notin VGuessed
        /\ mem'["puffer"] \in {"unset", "h", "j"}
    BY <1>5 DEF V!secPlayer, V!Kill, V!Write, V!Read, V!Assign, V!SemOp, V!StoreShm, V!Step,
         V!ipc, VData, VTypes, V!Locals, VGuessed
  <2>2. VTypes' /\ VGuess'
    BY <1>1, <2>1 DEF VData, VTypes, VGuess, V!Locals
  <2>3. mem["ms"].run = run => mem'["puffer"] = mem["puffer"]
    BY <2>1 DEF VData, VGuess
  <2>4. VJudged'
    BY <1>1, <2>3 DEF VData, VJudged, VDeserved, V!Locals
  <2> QED BY <1>2, <1>3, <2>2, <2>4 DEF VData
<1> QED BY <1>4, <1>5

LEMMA VMainStartData == ASSUME VControl, VData, V!mainStart PROVE VData'
<1> USE DEF VControl, VForked, V!Processes, V!Players
<1>1. /\ UNCHANGED <<mem, pipe, queue, run>>
      /\ pc["main"] \in VNotRead /\ pc'["main"] \in VNotRead
      /\ pc'["main"] \in {"fork1", "fork2"} => pc["main"] \in {"fork1", "fork2"}
      /\ \A p \in V!Players : pc'[p] = pc[p] \/ (pc[p] = "off" /\ pc'[p] = "start")
      /\ pc'["secPlayer"] # pc["secPlayer"] => pc["main"] = "fork2"
  BY DEF V!mainStart, V!Fork, V!AwaitReady, V!Step, V!ipc, VNotRead
<1>2. VDialogue1' /\ VDialogue2'
  <2>1. DialogueSame("firstPlayer", "io_pipes1", "answer1", "firstAnswer", VNotRead,
                     VAsking \cup {"name2"})
    BY <1>1 DEF DialogueSame, VNotRead, VAsking, VNameless, VThinking
  <2>2. DialogueSame("secPlayer", "io_pipes3", "answer2", "secondAnswer", VNotRead \cup {"name2"},
                     VAsking \cup {"answer2"})
    BY <1>1 DEF DialogueSame, VNotRead, VAsking, VNameless, VThinking
  <2> QED BY <2>1, <2>2, DialogueKept DEF VData, VDialogue1, VDialogue2
<1>3. VTypes' /\ VGuess' /\ VJudged'
  BY <1>1 DEF VData, VTypes, VGuess, VJudged, VDeserved, VNoVerdict
<1> QED BY <1>2, <1>3 DEF VData

LEMMA VMainRoundData == ASSUME VControl, VData, V!mainRound PROVE VData'
<1> USE DEF VControl, VForked, V!Processes, V!Players
<1>1. /\ pc["main"] \in VRound /\ pc'["main"] \in VRound
      /\ pc'["firstPlayer"] = pc["firstPlayer"] /\ pc'["secPlayer"] = pc["secPlayer"]
      /\ DOMAIN mem' = V!Locals /\ DOMAIN pipe' = V!Pipes /\ UNCHANGED run
      /\ \A x \in {"answer1", "answer2", "puffer", "verdict"} : mem'[x] = mem[x]
  BY ZenonT(60) DEF V!mainRound, V!Read, V!Write, V!Assign, V!MsgRcv, V!Step, V!ipc, VRound,
         VData, VTypes, V!Locals, V!Pipes
<1>2. CASE V!MsgRcv("main", "msgrcv", "verdict", 5, "ms")
  <2>1. MsgRcv("main", "msgrcv", "verdict", 5, "ms")
    BY <1>2 DEF V!MsgRcv, MsgRcv, V!Step, Step
  <2>2. queue \in Seq(VMessages)
    BY DEF VData, VTypes
  <2>3. queue' \in Seq(VMessages) /\ Received("ms", 5)
    BY <2>1, <2>2, Receives
  <2>4. pc["main"] = "msgrcv" /\ pc'["main"] = "verdict"
    BY <1>2 DEF V!MsgRcv, V!Step
  <2>5. /\ \A x \in V!Locals \ {"ms"} : mem'[x] = mem[x]
        /\ mem'["ms"] \in Range(queue) \cup {mem["ms"]}
        /\ Range(queue') \subseteq Range(queue) /\ UNCHANGED pipe
    BY <2>3 DEF Received, VData, VTypes, V!Locals
  <2>6. VTypes'
    BY <1>1, <2>3 DEF VData, VTypes
  <2>7. VGuess'
    BY <1>1, <2>4, <2>5 DEF VData, VGuess
  <2>8. VJudged'
    BY <1>1, <2>4 DEF VData, VJudged, VDeserved, VNoVerdict
  <2>9. VDialogue1' /\ VDialogue2'
    <3>1. DialogueSame("firstPlayer", "io_pipes1", "answer1", "firstAnswer", VNotRead,
                       VAsking \cup {"name2"})
      BY <1>1, <2>4, <2>5 DEF DialogueSame, VNotRead, VAsking, V!Locals
    <3>2. DialogueSame("secPlayer", "io_pipes3", "answer2", "secondAnswer", VNotRead \cup {"name2"},
                       VAsking \cup {"answer2"})
      BY <1>1, <2>4, <2>5 DEF DialogueSame, VNotRead, VAsking, V!Locals
    <3> QED BY <3>1, <3>2, DialogueKept DEF VData, VDialogue1, VDialogue2
  <2> QED BY <2>6, <2>7, <2>8, <2>9 DEF VData
<1>3. CASE ~V!MsgRcv("main", "msgrcv", "verdict", 5, "ms")
  <2>1. UNCHANGED queue /\ mem'["ms"] = mem["ms"]
        /\ pc["main"] \in VNoVerdict /\ pc'["main"] \in VNoVerdict
    BY <1>3 DEF V!mainRound, V!Read, V!Write, V!Assign, V!Step, V!ipc, VData, VTypes, V!Locals,
                VNoVerdict, VNotRead, VAsking
  <2>2. VTypes' /\ VJudged'
    BY <1>1, <2>1 DEF VData, VTypes, VJudged, VDeserved
  <2>3. VGuess'
    BY <1>1, <2>1 DEF VData, VGuess, VRound
  <2>4. VDialogue1'
    <3>1. \/ DialogueSame("firstPlayer", "io_pipes1", "answer1", "firstAnswer", VNotRead,
                          VAsking \cup {"name2"})
          \/ /\ pipe["io_pipes1"] # <<>> /\ pipe'["io_pipes1"] = Tail(pipe["io_pipes1"])
             /\ \/ /\ pc["main"] = "name1" /\ pc'["main"] = "name2"
                   /\ mem'["firstAnswer"] = mem["firstAnswer"]
                \/ /\ pc["main"] = "answer1" /\ pc'["main"] = "answer2"
                   /\ mem'["firstAnswer"] = Head(pipe["io_pipes1"])
      <4>1. CASE pc["main"] = "name1"
        <5>1. V!Read("main", "name1", "name2", "io_pipes1", "firstPlayerName")
          BY <1>3, <4>1 DEF V!mainRound, V!Read, V!Write, V!Assign, V!Step
        <5> QED BY <4>1, <5>1 DEF V!Read, V!Step, VData, VTypes, V!Locals, V!Pipes
      <4>2. CASE pc["main"] = "answer1"
        <5>1. V!Read("main", "answer1", "answer2", "io_pipes1", "firstAnswer")
          BY <1>3, <4>2 DEF V!mainRound, V!Read, V!Write, V!Assign, V!Step
        <5> QED BY <4>2, <5>1 DEF V!Read, V!Step, VData, VTypes, V!Locals, V!Pipes
      <4>3. CASE pc["main"] \notin {"name1", "answer1"}
        BY <1>1, <1>3, <4>3, ZenonT(60) DEF V!mainRound, V!Read, V!Write, V!Assign, V!Step, V!ipc, VData,
           VTypes, V!Locals, V!Pipes, DialogueSame, VNotRead, VAsking, VRound
      <4> QED BY <4>1, <4>2, <4>3
    <3>2. VNotRead \cap (VAsking \cup {"name2"}) = {}
      BY DEF VNotRead, VAsking
    <3>3. /\ "name1" \in VNotRead /\ "name2" \in VAsking \cup {"name2"}
          /\ "answer1" \in VAsking \cup {"name2"}
          /\ "answer2" \notin VNotRead \cup (VAsking \cup {"name2"})
      BY DEF VNotRead, VAsking
    <3> QED BY <1>1, <3>1, <3>2, <3>3, DialogueKept, DialogueHeard DEF VData, VDialogue1
  <2>5. VDialogue2'
    <3>1. \/ DialogueSame("secPlayer", "io_pipes3", "answer2", "secondAnswer",
                          VNotRead \cup {"name2"}, VAsking \cup {"answer2"})
          \/ /\ pipe["io_pipes3"] # <<>> /\ pipe'["io_pipes3"] = Tail(pipe["io_pipes3"])
             /\ \/ /\ pc["main"] = "name2" /\ pc'["main"] = "generate"
                   /\ mem'["secondAnswer"] = mem["secondAnswer"]
                \/ /\ pc["main"] = "answer2" /\ pc'["main"] = "msgrcv"
                   /\ mem'["secondAnswer"] = Head(pipe["io_pipes3"])
      <4>1. CASE pc["main"] = "name2"
        <5>1. V!Read("main", "name2", "generate", "io_pipes3", "secPlayerName")
          BY <1>3, <4>1 DEF V!mainRound, V!Read, V!Write, V!Assign, V!Step
        <5> QED BY <4>1, <5>1 DEF V!Read, V!Step, VData, VTypes, V!Locals, V!Pipes
      <4>2. CASE pc["main"] = "answer2"
        <5>1. V!Read("main", "answer2", "msgrcv", "io_pipes3", "secondAnswer")
          BY <1>3, <4>2 DEF V!mainRound, V!Read, V!Write, V!Assign, V!Step
        <5> QED BY <4>2, <5>1 DEF V!Read, V!Step, VData, VTypes, V!Locals, V!Pipes
      <4>3. CASE pc["main"] \notin {"name2", "answer2"}
        <5>1. /\ pipe'["io_pipes3"] = pipe["io_pipes3"] /\ mem'["secondAnswer"] = mem["secondAnswer"]
              /\ \/ pc["main"] = "name1" /\ pc'["main"] = "name2"
                 \/ pc["main"] \in VAsking /\ pc'["main"] \in VAsking \cup {"answer2"}
          BY <1>3, <4>3 DEF V!mainRound, V!Read, V!Write, V!Assign, V!Step, VData, VTypes,
             V!Locals, V!Pipes, VAsking
        <5> QED BY <1>1, <5>1 DEF DialogueSame, VNotRead, VAsking
      <4> QED BY <4>1, <4>2, <4>3
    <3>2. (VNotRead \cup {"name2"}) \cap (VAsking \cup {"answer2"}) = {}
      BY DEF VNotRead, VAsking
    <3>3. /\ "name2" \in VNotRead \cup {"name2"} /\ "generate" \in VAsking \cup {"answer2"}
          /\ "answer2" \in VAsking \cup {"answer2"}
          /\ "msgrcv" \notin (VNotRead \cup {"name2"}) \cup (VAsking \cup {"answer2"})
      BY DEF VNotRead, VAsking
    <3> QED BY <1>1, <3>1, <3>2, <3>3, DialogueKept, DialogueHeard DEF VData, VDialogue2
  <2> QED BY <2>2, <2>3, <2>4, <2>5 DEF VData
<1> QED BY <1>2, <1>3

LEMMA VMainEndData == ASSUME VControl, VData, V!mainEnd PROVE VData'
<1> USE DEF VControl, VForked, V!Processes, V!Players
<1>1. /\ pc["main"] \in VClosing \cup {"verdict"} /\ pc'["main"] \in VClosing
      /\ pc'["firstPlayer"] = pc["firstPlayer"] /\ pc'["secPlayer"] = pc["secPlayer"]
      /\ DOMAIN mem' = V!Locals /\ UNCHANGED <<pipe, run>>
      /\ \A x \in V!Locals \ {"verdict", "firstPrinted", "secPrinted"} : mem'[x] = mem[x]
  BY DEF V!mainEnd, V!Assign, V!Wait, V!SemOp, V!LoadShm, V!RemoveSem, V!RemoveQueue, V!Step,
         V!ipc, VData, VTypes, V!Locals, VClosing
<1>2. queue' = queue \/ queue' = <<>>
  BY DEF V!mainEnd, V!SemOp, V!LoadShm, V!RemoveSem, V!RemoveQueue, V!ipc
<1>3. VDialogue1' /\ VDialogue2'
  <2>1. DialogueSame("firstPlayer", "io_pipes1", "answer1", "firstAnswer", VNotRead,
                     VAsking \cup {"name2"})
    BY <1>1 DEF DialogueSame, VNotRead, VAsking, VClosing, V!Locals
  <2>2. DialogueSame("secPlayer", "io_pipes3", "answer2", "secondAnswer", VNotRead \cup {"name2"},
                     VAsking \cup {"answer2"})
    BY <1>1 DEF DialogueSame, VNotRead, VAsking, VClosing, V!Locals
  <2> QED BY <2>1, <2>2, DialogueKept DEF VData, VDialogue1, VDialogue2
<1>4. VTypes' /\ VGuess'
  <2>1. queue' \in Seq(VMessages) /\ Range(queue') \subseteq Range(queue)
    <3>1. <<>> \in Seq(VMessages) /\ Range(<<>>) = {}
      BY DEF Range
    <3> QED BY <1>2, <3>1 DEF VData, VTypes
  <2> QED BY <1>1, <2>1 DEF VData, VTypes, VGuess, V!Locals, VClosing
<1>5. VJudged'
  <2>1. pc'["main"] \notin VNoVerdict
    BY <1>1 DEF VClosing, VNoVerdict, VNotRead, VAsking
  <2>2. CASE pc["main"] = "verdict"
    <3>1. mem' = [mem EXCEPT !["verdict"] = V!reward]
      BY <2>2 DEF V!mainEnd, V!Assign, V!Wait, V!SemOp, V!LoadShm, V!RemoveSem, V!RemoveQueue, V!Step
    <3>2. mem'["verdict"] = V!reward
      BY <3>1 DEF VData, VTypes, V!Locals
    <3>3. mem["firstAnswer"] = mem["answer1"]
      BY <2>2 DEF VData, VDialogue1, Dialogue, VNotRead, VAsking
    <3>4. mem["ms"].run = run => mem["ms"].text = mem["puffer"]
      BY DEF VData, VGuess
    <3>5. VDeserved'
      BY <1>1, <3>2, <3>3, <3>4 DEF VDeserved, V!reward, V!evaluate, V!Locals
    <3> QED BY <2>1, <3>5 DEF VJudged
  <2>3. CASE pc["main"] # "verdict"
    <3>1. mem'["verdict"] = mem["verdict"]
      BY <2>3 DEF V!mainEnd, V!Assign, V!Wait, V!SemOp, V!LoadShm, V!RemoveSem, V!RemoveQueue,
                  V!Step, VData, VTypes, V!Locals
    <3> QED BY <1>1, <2>1, <3>1 DEF VData, VJudged, VDeserved, V!Locals
  <2> QED BY <2>2, <2>3
<1> QED BY <1>3, <1>4, <1>5 DEF VData

LEMMA VInitData == V!Init => VData
<1> SUFFICES ASSUME V!Init PROVE VData
  OBVIOUS
<1>1. /\ pc = [p \in V!Processes |-> "off"] /\ pipe = [d \in V!Pipes |-> <<>>]
      /\ mem = V!NoLocals /\ queue = <<>> /\ run = 0
  BY DEF V!Init, V!IpcInit
<1>2. /\ DOMAIN mem = V!Locals /\ mem["ms"] = V!NoMessage
      /\ \A x \in V!Locals \ {"ms"} : mem[x] = "unset"
  BY <1>1 DEF V!NoLocals, V!Locals
<1>3. pc["main"] = "off" /\ pc["secPlayer"] = "off" /\ DOMAIN pipe = V!Pipes
  BY <1>1 DEF V!Processes, V!Players
<1>4. queue \in Seq(VMessages) /\ Range(queue) = {}
  BY <1>1 DEF Range
<1>5. VTypes /\ VDialogue1 /\ VDialogue2 /\ VJudged
  BY <1>1, <1>2, <1>3, <1>4
  DEF VTypes, VDialogue1, VDialogue2, Dialogue, VJudged, VDeserved, VNoVerdict, VNotRead,
      VAsking, V!Locals
<1>6. VGuess
  BY <1>1, <1>2, <1>3, <1>4 DEF VGuess, VGuessed, V!NoMessage, V!Locals
<1> QED BY <1>5, <1>6 DEF VData

LEMMA VStartData ==
  ASSUME VData, V!Start(V!Processes, V!Pipes, V!NoLocals, V!semaphoreCreation(1)) PROVE VData'
<1>1. /\ pc' = [p \in V!Processes |-> IF p = "main" THEN "fork1" ELSE "off"]
      /\ pipe' = [d \in V!Pipes |-> <<>>] /\ mem' = V!NoLocals
      /\ UNCHANGED queue /\ run' = run + 1
  BY DEF V!Start
<1>2. /\ DOMAIN mem' = V!Locals /\ mem'["ms"] = V!NoMessage
      /\ \A x \in V!Locals \ {"ms"} : mem'[x] = "unset"
  BY <1>1 DEF V!NoLocals, V!Locals
<1>3. /\ pc'["main"] = "fork1" /\ pc'["firstPlayer"] = "off" /\ pc'["secPlayer"] = "off"
      /\ DOMAIN pipe' = V!Pipes /\ pipe'["io_pipes1"] = <<>> /\ pipe'["io_pipes3"] = <<>>
  BY <1>1 DEF V!Processes, V!Players, V!Pipes
<1>4. VTypes'
  BY <1>1, <1>2, <1>3 DEF VData, VTypes, V!Locals
<1>5. VDialogue1' /\ VDialogue2' /\ VJudged'
  BY <1>2, <1>3 DEF VDialogue1, VDialogue2, Dialogue, VNotRead, VAsking, VNameless, VThinking,
                    VJudged, VDeserved, V!Locals
\* No message of an earlier run is one of this run.
<1>6. VGuess'
  BY <1>1, <1>2 DEF VData, VTypes, VGuess, V!NoMessage
<1> QED BY <1>4, <1>5, <1>6 DEF VData

LEMMA VDataInductive == ASSUME VControl, VData, V!Next PROVE VData'
<1>1. CASE V!Interrupt(V!Processes)
  <2>1. pc' = [p \in V!Processes |-> "off"] /\ UNCHANGED <<mem, pipe, queue, run>>
    BY <1>1 DEF V!Interrupt, V!ipc
  <2>2. pc'["main"] = "off" /\ pc'["secPlayer"] = "off"
    BY <2>1 DEF V!Processes, V!Players
  <2> QED BY <2>1, <2>2
    DEF VData, VTypes, VDialogue1, VDialogue2, Dialogue, VGuess, VGuessed, VJudged, VDeserved,
        VNoVerdict, VNotRead, VAsking
<1>2. CASE V!Deliver /\ UNCHANGED V!ipc
  <2>1. UNCHANGED <<pc, mem, pipe, queue, run>>
    BY <1>2 DEF V!Deliver, V!ipc
  <2>2. VTypes' /\ VGuess' /\ VJudged'
    BY <2>1 DEF VData, VTypes, VGuess, VJudged, VDeserved
  <2>3. VDialogue1' /\ VDialogue2'
    BY <2>1 DEF VData, VDialogue1, VDialogue2, Dialogue
  <2> QED BY <2>2, <2>3 DEF VData
<1> QED BY <1>1, <1>2, VStartData, VFirstData, VSecData, VMainStartData, VMainRoundData, VMainEndData
    DEF V!Next, V!Main

LEMMA VVerdict == VData => V!VerdictDeserved
BY DEF VData, VDialogue1, VDialogue2, Dialogue, VJudged, VDeserved, V!VerdictDeserved

-----------------------------------------------------------------------------
(* What the players leave in shared memory *)

VKept ==
  /\ DOMAIN shm = {"firstPlayerAnswer", "secPlayerAnswer"}
  /\ pc["firstPlayer"] \in {"unlock", "exited"} => shm["firstPlayerAnswer"] = mem["answer1"]
  /\ pc["secPlayer"] \in {"unlock", "exited"} => shm["secPlayerAnswer"] = mem["answer2"]

LEMMA VInitKept == V!Init => VKept
<1> SUFFICES ASSUME V!Init PROVE VKept
  OBVIOUS
<1>1. /\ pc = [p \in V!Processes |-> "off"]
      /\ shm = [f \in {"firstPlayerAnswer", "secPlayerAnswer"} |-> "zero"]
  BY DEF V!Init, V!IpcInit
<1> QED BY <1>1 DEF VKept, V!Processes, V!Players

LEMMA VKeptInductive == ASSUME VControl, VTypes, VKept, V!Next PROVE VKept'
<1> USE DEF VControl, VForked, VTypes, VKept, V!Processes, V!Players
<1>1. CASE V!firstPlayer
  BY <1>1, ZenonT(60) DEF V!firstPlayer, V!Kill, V!Write, V!Read, V!Assign, V!SemOp, V!StoreShm, V!Step,
              V!ipc, V!Locals
<1>2. CASE V!secPlayer
  BY <1>2, ZenonT(60) DEF V!secPlayer, V!Kill, V!Write, V!Read, V!Assign, V!MsgSnd, V!SemOp, V!StoreShm,
              V!Step, V!ipc, V!Locals
<1>3. CASE V!Main
  <2>1. /\ UNCHANGED shm /\ mem'["answer1"] = mem["answer1"] /\ mem'["answer2"] = mem["answer2"]
        /\ \A p \in V!Players : pc'[p] = pc[p] \/ pc'[p] = "start"
    <3>1. CASE V!mainStart
      BY <3>1 DEF V!mainStart, V!Fork, V!AwaitReady, V!Step, V!ipc
    <3>2. CASE V!mainRound
      <4>1. CASE V!MsgRcv("main", "msgrcv", "verdict", 5, "ms")
        BY <4>1 DEF V!MsgRcv, V!Step, V!Locals
      <4>2. CASE ~V!MsgRcv("main", "msgrcv", "verdict", 5, "ms")
        BY <3>2, <4>2, ZenonT(60) DEF V!mainRound, V!Read, V!Write, V!Assign, V!Step, V!ipc, V!Locals
      <4> QED BY <4>1, <4>2
    <3>3. CASE V!mainEnd
      BY <3>3 DEF V!mainEnd, V!Assign, V!Wait, V!SemOp, V!LoadShm, V!RemoveSem, V!RemoveQueue,
                  V!Step, V!ipc, V!Locals
    <3> QED BY <1>3, <3>1, <3>2, <3>3 DEF V!Main
  <2> QED BY <2>1
<1>4. CASE V!Start(V!Processes, V!Pipes, V!NoLocals, V!semaphoreCreation(1))
  BY <1>4 DEF V!Start
<1>5. CASE V!Interrupt(V!Processes)
  BY <1>5 DEF V!Interrupt, V!ipc
<1>6. CASE V!Deliver /\ UNCHANGED V!ipc
  BY <1>6 DEF V!Deliver, V!ipc
<1> QED BY <1>1, <1>2, <1>3, <1>4, <1>5, <1>6 DEF V!Next

\* What the variables, the memory and the pipes may hold.
VItems == Answers \cup {"a name", "a question", "unset"}
VAnswered == {"answer", "guess", "msgsnd", "lock", "store", "unlock", "exited"}
VPlain ==
  /\ reaped \subseteq V!Players /\ exists \subseteq {"sem", "queue"} /\ run <= MaxRuns
  /\ mem["answer1"] \in Answers \cup {"unset"} /\ mem["answer2"] \in Answers \cup {"unset"}
  /\ mem["goodAnswer"] \in Answers \cup {"unset"}
  /\ mem["firstPlayerName"] \in {"a name", "unset"} /\ mem["secPlayerName"] \in {"a name", "unset"}
  /\ pc["firstPlayer"] \in VAnswered => mem["answer1"] \in Answers
  /\ pc["secPlayer"] \in VAnswered => mem["answer2"] \in Answers
  /\ shm["firstPlayerAnswer"] \in Answers \cup {"zero"}
  /\ shm["secPlayerAnswer"] \in Answers \cup {"zero"}
VValues == VPlain /\ Channels(VItems)

\* Whatever a step writes into a pipe or reads from it
LEMMA VChannels ==
  ASSUME VTypes, Channels(VItems),
         \/ UNCHANGED pipe
         \/ \E d \in V!Pipes : pipe[d] # <<>> /\ pipe' = [pipe EXCEPT ![d] = Tail(pipe[d])]
         \/ \E d \in V!Pipes, x \in VItems :
              Len(pipe[d]) < PipeCapacity /\ pipe' = [pipe EXCEPT ![d] = Append(pipe[d], x)]
  PROVE  Channels(VItems)'
<1>1. CASE UNCHANGED pipe
  BY <1>1 DEF Channels
<1>2. ASSUME NEW d \in V!Pipes, pipe[d] # <<>>, pipe' = [pipe EXCEPT ![d] = Tail(pipe[d])]
      PROVE  Channels(VItems)'
  BY <1>2, ChannelsRead DEF VTypes
<1>3. ASSUME NEW d \in V!Pipes, NEW x \in VItems, Len(pipe[d]) < PipeCapacity,
             pipe' = [pipe EXCEPT ![d] = Append(pipe[d], x)]
      PROVE  Channels(VItems)'
  BY <1>3, ChannelsWrite DEF VTypes
<1> QED BY <1>1, <1>2, <1>3

LEMMA VFirstValues == ASSUME VControl, VTypes, VKept, VValues, V!firstPlayer PROVE VValues'
<1> USE DEF VTypes, V!Processes, V!Players, V!Pipes, V!Locals, V!Step, V!ipc
<1>0. DOMAIN pc = V!Processes /\ DOMAIN shm = {"firstPlayerAnswer", "secPlayerAnswer"}
  BY DEF VControl, VForked, VKept
<1>1. CASE \/ V!Kill("firstPlayer", "start", "name") /\ UNCHANGED V!ipc
           \/ V!SemOp("firstPlayer", "lock", "store", -1)
           \/ V!SemOp("firstPlayer", "unlock", "exited", 1)
  <2>1. /\ \/ pc["firstPlayer"] = "start" /\ pc' = [pc EXCEPT !["firstPlayer"] = "name"]
           \/ pc["firstPlayer"] = "lock" /\ pc' = [pc EXCEPT !["firstPlayer"] = "store"]
           \/ pc["firstPlayer"] = "unlock" /\ pc' = [pc EXCEPT !["firstPlayer"] = "exited"]
        /\ UNCHANGED <<reaped, pipe, mem, shm, exists, run>>
    BY <1>0, <1>1 DEF V!Kill, V!SemOp
  <2>2. Channels(VItems)'
    BY <2>1, VChannels DEF VValues, VItems
  <2>3. /\ pc'["firstPlayer"] \in VAnswered => pc["firstPlayer"] \in VAnswered
        /\ pc'["secPlayer"] = pc["secPlayer"]
    BY <1>0, <2>1 DEF VAnswered
  <2>4. VPlain'
    BY <2>1, <2>3 DEF VValues, VPlain
  <2> QED BY <2>2, <2>4 DEF VValues
<1>2. CASE V!Write("firstPlayer", "name", "question", "io_pipes1", "a name") /\ UNCHANGED V!ipc
  <2>1. /\ pc["firstPlayer"] = "name" /\ pc' = [pc EXCEPT !["firstPlayer"] = "question"]
        /\ Len(pipe["io_pipes1"]) < PipeCapacity
        /\ pipe' = [pipe EXCEPT !["io_pipes1"] = Append(pipe["io_pipes1"], "a name")]
        /\ UNCHANGED <<reaped, mem, shm, exists, run>>
    BY <1>0, <1>2 DEF V!Write
  <2>2. Channels(VItems)'
    BY <2>1, VChannels DEF VValues, VItems
  <2>3. VPlain'
    BY <1>0, <2>1 DEF VValues, VPlain, VAnswered
  <2> QED BY <2>2, <2>3 DEF VValues
<1>3. CASE V!Read("firstPlayer", "question", "think", "io_pipes", "question1") /\ UNCHANGED V!ipc
  <2>1. /\ pc["firstPlayer"] = "question" /\ pc' = [pc EXCEPT !["firstPlayer"] = "think"]
        /\ pipe["io_pipes"] # <<>>
        /\ pipe' = [pipe EXCEPT !["io_pipes"] = Tail(pipe["io_pipes"])]
        /\ \A x \in V!Locals \ {"question1"} : mem'[x] = mem[x]
        /\ UNCHANGED <<reaped, shm, exists, run>>
    BY <1>0, <1>3 DEF V!Read
  <2>2. Channels(VItems)'
    BY <2>1, VChannels DEF VValues, VItems
  <2>3. VPlain'
    BY <1>0, <2>1 DEF VValues, VPlain, VAnswered
  <2> QED BY <2>2, <2>3 DEF VValues
<1>4. CASE (\E a \in Answers : V!Assign("firstPlayer", "think", "answer", "answer1", a)) /\ UNCHANGED V!ipc
  <2>1. /\ pc["firstPlayer"] = "think" /\ pc' = [pc EXCEPT !["firstPlayer"] = "answer"]
        /\ mem'["answer1"] \in Answers /\ \A x \in V!Locals \ {"answer1"} : mem'[x] = mem[x]
        /\ UNCHANGED <<reaped, pipe, shm, exists, run>>
    BY <1>0, <1>4 DEF V!Assign
  <2>2. Channels(VItems)'
    BY <2>1, VChannels DEF VValues, VItems
  <2>3. VPlain'
    BY <1>0, <2>1 DEF VValues, VPlain, VAnswered
  <2> QED BY <2>2, <2>3 DEF VValues
<1>5. CASE V!Write("firstPlayer", "answer", "lock", "io_pipes1", mem["answer1"]) /\ UNCHANGED V!ipc
  <2>1. /\ pc["firstPlayer"] = "answer" /\ pc' = [pc EXCEPT !["firstPlayer"] = "lock"]
        /\ Len(pipe["io_pipes1"]) < PipeCapacity
        /\ pipe' = [pipe EXCEPT !["io_pipes1"] = Append(pipe["io_pipes1"], mem["answer1"])]
        /\ UNCHANGED <<reaped, mem, shm, exists, run>>
    BY <1>0, <1>5 DEF V!Write
  <2>2. Channels(VItems)'
    BY <2>1, VChannels DEF VValues, VItems, VPlain
  <2>3. VPlain'
    BY <1>0, <2>1 DEF VValues, VPlain, VAnswered
  <2> QED BY <2>2, <2>3 DEF VValues
<1>6. CASE V!StoreShm("firstPlayer", "store", "unlock", "firstPlayerAnswer", mem["answer1"])
  <2>1. /\ pc["firstPlayer"] = "store" /\ pc' = [pc EXCEPT !["firstPlayer"] = "unlock"]
        /\ shm' = [shm EXCEPT !["firstPlayerAnswer"] = mem["answer1"]]
        /\ UNCHANGED <<reaped, pipe, mem, exists, run>>
    BY <1>0, <1>6 DEF V!StoreShm
  <2>2. Channels(VItems)'
    BY <2>1, VChannels DEF VValues, VItems
  <2>3. VPlain'
    BY <1>0, <2>1 DEF VValues, VPlain, VAnswered
  <2> QED BY <2>2, <2>3 DEF VValues
<1> QED BY <1>1, <1>2, <1>3, <1>4, <1>5, <1>6 DEF V!firstPlayer

LEMMA VSecValues == ASSUME VControl, VTypes, VKept, VValues, V!secPlayer PROVE VValues'
<1> USE DEF VTypes, V!Processes, V!Players, V!Pipes, V!Locals, V!Step, V!ipc
<1>0. DOMAIN pc = V!Processes /\ DOMAIN shm = {"firstPlayerAnswer", "secPlayerAnswer"}
  BY DEF VControl, VForked, VKept
<1>1. CASE \/ V!Kill("secPlayer", "start", "name") /\ UNCHANGED V!ipc
           \/ V!SemOp("secPlayer", "lock", "store", -1)
           \/ V!SemOp("secPlayer", "unlock", "exited", 1)
           \/ V!MsgSnd("secPlayer", "msgsnd", "lock", 5, mem["puffer"])
  <2>1. /\ \/ pc["secPlayer"] = "start" /\ pc' = [pc EXCEPT !["secPlayer"] = "name"]
           \/ pc["secPlayer"] = "lock" /\ pc' = [pc EXCEPT !["secPlayer"] = "store"]
           \/ pc["secPlayer"] = "unlock" /\ pc' = [pc EXCEPT !["secPlayer"] = "exited"]
           \/ pc["secPlayer"] = "msgsnd" /\ pc' = [pc EXCEPT !["secPlayer"] = "lock"]
        /\ UNCHANGED <<reaped, pipe, mem, shm, exists, run>>
    BY <1>0, <1>1 DEF V!Kill, V!SemOp, V!MsgSnd
  <2>2. Channels(VItems)'
    BY <2>1, VChannels DEF VValues, VItems
  <2>3. /\ pc'["secPlayer"] \in VAnswered => pc["secPlayer"] \in VAnswered
        /\ pc'["firstPlayer"] = pc["firstPlayer"]
    BY <1>0, <2>1 DEF VAnswered
  <2>4. VPlain'
    BY <2>1, <2>3 DEF VValues, VPlain
  <2> QED BY <2>2, <2>4 DEF VValues
<1>2. CASE V!Write("secPlayer", "name", "question", "io_pipes3", "a name") /\ UNCHANGED V!ipc
  <2>1. /\ pc["secPlayer"] = "name" /\ pc' = [pc EXCEPT !["secPlayer"] = "question"]
        /\ Len(pipe["io_pipes3"]) < PipeCapacity
        /\ pipe' = [pipe EXCEPT !["io_pipes3"] = Append(pipe["io_pipes3"], "a name")]
        /\ UNCHANGED <<reaped, mem, shm, exists, run>>
    BY <1>0, <1>2 DEF V!Write
  <2>2. Channels(VItems)'
    BY <2>1, VChannels DEF VValues, VItems
  <2>3. VPlain'
    BY <1>0, <2>1 DEF VValues, VPlain, VAnswered
  <2> QED BY <2>2, <2>3 DEF VValues
<1>3. CASE V!Read("secPlayer", "question", "think", "io_pipes2", "question2") /\ UNCHANGED V!ipc
  <2>1. /\ pc["secPlayer"] = "question" /\ pc' = [pc EXCEPT !["secPlayer"] = "think"]
        /\ pipe["io_pipes2"] # <<>>
        /\ pipe' = [pipe EXCEPT !["io_pipes2"] = Tail(pipe["io_pipes2"])]
        /\ \A x \in V!Locals \ {"question2"} : mem'[x] = mem[x]
        /\ UNCHANGED <<reaped, shm, exists, run>>
    BY <1>0, <1>3 DEF V!Read
  <2>2. Channels(VItems)'
    BY <2>1, VChannels DEF VValues, VItems
  <2>3. VPlain'
    BY <1>0, <2>1 DEF VValues, VPlain, VAnswered
  <2> QED BY <2>2, <2>3 DEF VValues
<1>4. CASE (\E a \in Answers : V!Assign("secPlayer", "think", "answer", "answer2", a)) /\ UNCHANGED V!ipc
  <2>1. /\ pc["secPlayer"] = "think" /\ pc' = [pc EXCEPT !["secPlayer"] = "answer"]
        /\ mem'["answer2"] \in Answers /\ \A x \in V!Locals \ {"answer2"} : mem'[x] = mem[x]
        /\ UNCHANGED <<reaped, pipe, shm, exists, run>>
    BY <1>0, <1>4 DEF V!Assign
  <2>2. Channels(VItems)'
    BY <2>1, VChannels DEF VValues, VItems
  <2>3. VPlain'
    BY <1>0, <2>1 DEF VValues, VPlain, VAnswered
  <2> QED BY <2>2, <2>3 DEF VValues
<1>5. CASE V!Write("secPlayer", "answer", "guess", "io_pipes3", mem["answer2"]) /\ UNCHANGED V!ipc
  <2>1. /\ pc["secPlayer"] = "answer" /\ pc' = [pc EXCEPT !["secPlayer"] = "guess"]
        /\ Len(pipe["io_pipes3"]) < PipeCapacity
        /\ pipe' = [pipe EXCEPT !["io_pipes3"] = Append(pipe["io_pipes3"], mem["answer2"])]
        /\ UNCHANGED <<reaped, mem, shm, exists, run>>
    BY <1>0, <1>5 DEF V!Write
  <2>2. Channels(VItems)'
    BY <2>1, VChannels DEF VValues, VItems, VPlain
  <2>3. VPlain'
    BY <1>0, <2>1 DEF VValues, VPlain, VAnswered
  <2> QED BY <2>2, <2>3 DEF VValues
<1>6. CASE (\E g \in {"h", "j"} : V!Assign("secPlayer", "guess", "msgsnd", "puffer", g)) /\ UNCHANGED V!ipc
  <2>1. /\ pc["secPlayer"] = "guess" /\ pc' = [pc EXCEPT !["secPlayer"] = "msgsnd"]
        /\ \A x \in V!Locals \ {"puffer"} : mem'[x] = mem[x]
        /\ UNCHANGED <<reaped, pipe, shm, exists, run>>
    BY <1>0, <1>6 DEF V!Assign
  <2>2. Channels(VItems)'
    BY <2>1, VChannels DEF VValues, VItems
  <2>3. VPlain'
    BY <1>0, <2>1 DEF VValues, VPlain, VAnswered
  <2> QED BY <2>2, <2>3 DEF VValues
<1>7. CASE V!StoreShm("secPlayer", "store", "unlock", "secPlayerAnswer", mem["answer2"])
  <2>1. /\ pc["secPlayer"] = "store" /\ pc' = [pc EXCEPT !["secPlayer"] = "unlock"]
        /\ shm' = [shm EXCEPT !["secPlayerAnswer"] = mem["answer2"]]
        /\ UNCHANGED <<reaped, pipe, mem, exists, run>>
    BY <1>0, <1>7 DEF V!StoreShm
  <2>2. Channels(VItems)'
    BY <2>1, VChannels DEF VValues, VItems
  <2>3. VPlain'
    BY <1>0, <2>1 DEF VValues, VPlain, VAnswered
  <2> QED BY <2>2, <2>3 DEF VValues
<1> QED BY <1>1, <1>2, <1>3, <1>4, <1>5, <1>6, <1>7 DEF V!secPlayer

LEMMA VMainValues ==
  ASSUME VControl, VTypes, VDialogue1, VDialogue2, VKept, VValues, V!Main PROVE VValues'
<1> USE DEF VTypes, V!Processes, V!Players, V!Pipes, V!Locals, V!Step, V!ipc
<1>0. DOMAIN pc = V!Processes /\ DOMAIN shm = {"firstPlayerAnswer", "secPlayerAnswer"}
  BY DEF VControl, VForked, VKept
<1>1. CASE V!mainStart
  <2>1. /\ UNCHANGED <<reaped, pipe, mem, shm, exists, run>>
        /\ \/ /\ pc["firstPlayer"] = "off"
              /\ pc' = [pc EXCEPT !["main"] = "fork2", !["firstPlayer"] = "start"]
           \/ /\ pc["secPlayer"] = "off"
              /\ pc' = [pc EXCEPT !["main"] = "ready1", !["secPlayer"] = "start"]
           \/ \E to \in {"exited", "ready2", "name1"} : pc' = [pc EXCEPT !["main"] = to]
    BY <1>0, <1>1 DEF V!mainStart, V!Fork, V!AwaitReady, VControl, VForked
  <2>2. Channels(VItems)'
    BY <2>1, VChannels DEF VValues, VItems
  <2>3. /\ pc'["firstPlayer"] = pc["firstPlayer"] \/ pc'["firstPlayer"] = "start"
        /\ pc'["secPlayer"] = pc["secPlayer"] \/ pc'["secPlayer"] = "start"
    BY <1>0, <2>1
  <2>4. VPlain'
    BY <2>1, <2>3 DEF VValues, VPlain, VAnswered
  <2> QED BY <2>2, <2>4 DEF VValues
<1>2. CASE V!Read("main", "name1", "name2", "io_pipes1", "firstPlayerName") /\ UNCHANGED V!ipc
  <2>1. /\ pc["main"] = "name1" /\ pc' = [pc EXCEPT !["main"] = "name2"]
        /\ pipe["io_pipes1"] # <<>> /\ pipe' = [pipe EXCEPT !["io_pipes1"] = Tail(pipe["io_pipes1"])]
        /\ mem'["firstPlayerName"] = Head(pipe["io_pipes1"])
        /\ \A x \in V!Locals \ {"firstPlayerName"} : mem'[x] = mem[x]
        /\ UNCHANGED <<reaped, shm, exists, run>>
    BY <1>0, <1>2 DEF V!Read
  <2>4. Head(pipe["io_pipes1"]) = "a name"
    <3>1. pipe["io_pipes1"] = <<"a name">> \/ pipe["io_pipes1"] = <<"a name", mem["answer1"]>>
      BY <2>1 DEF VDialogue1, Dialogue, VNotRead, VAsking
    <3> QED BY <3>1, ShortPipes
  <2>2. Channels(VItems)'
    BY <2>1, VChannels DEF VValues, VItems
  <2>3. VPlain'
    BY <1>0, <2>1, <2>4 DEF VValues, VPlain, VAnswered
  <2> QED BY <2>2, <2>3 DEF VValues
<1>3. CASE V!Read("main", "name2", "generate", "io_pipes3", "secPlayerName") /\ UNCHANGED V!ipc
  <2>1. /\ pc["main"] = "name2" /\ pc' = [pc EXCEPT !["main"] = "generate"]
        /\ pipe["io_pipes3"] # <<>> /\ pipe' = [pipe EXCEPT !["io_pipes3"] = Tail(pipe["io_pipes3"])]
        /\ mem'["secPlayerName"] = Head(pipe["io_pipes3"])
        /\ \A x \in V!Locals \ {"secPlayerName"} : mem'[x] = mem[x]
        /\ UNCHANGED <<reaped, shm, exists, run>>
    BY <1>0, <1>3 DEF V!Read
  <2>4. Head(pipe["io_pipes3"]) = "a name"
    <3>1. pipe["io_pipes3"] = <<"a name">> \/ pipe["io_pipes3"] = <<"a name", mem["answer2"]>>
      BY <2>1 DEF VDialogue2, Dialogue, VNotRead, VAsking
    <3> QED BY <3>1, ShortPipes
  <2>2. Channels(VItems)'
    BY <2>1, VChannels DEF VValues, VItems
  <2>3. VPlain'
    BY <1>0, <2>1, <2>4 DEF VValues, VPlain, VAnswered
  <2> QED BY <2>2, <2>3 DEF VValues
<1>4. CASE (\E a \in Answers : V!Assign("main", "generate", "ask1", "goodAnswer", a)) /\ UNCHANGED V!ipc
  <2>1. /\ pc' = [pc EXCEPT !["main"] = "ask1"] /\ mem'["goodAnswer"] \in Answers
        /\ \A x \in V!Locals \ {"goodAnswer"} : mem'[x] = mem[x]
        /\ UNCHANGED <<reaped, pipe, shm, exists, run>>
    BY <1>0, <1>4 DEF V!Assign
  <2>2. Channels(VItems)'
    BY <2>1, VChannels DEF VValues, VItems
  <2>3. VPlain'
    BY <1>0, <2>1 DEF VValues, VPlain, VAnswered
  <2> QED BY <2>2, <2>3 DEF VValues
<1>5. CASE \/ V!Write("main", "ask1", "ask2", "io_pipes", "a question") /\ UNCHANGED V!ipc
           \/ V!Write("main", "ask2", "answer1", "io_pipes2", "a question") /\ UNCHANGED V!ipc
  <2>1. /\ \E to \in {"ask2", "answer1"} : pc' = [pc EXCEPT !["main"] = to]
        /\ \E d \in {"io_pipes", "io_pipes2"} :
             /\ Len(pipe[d]) < PipeCapacity
             /\ pipe' = [pipe EXCEPT ![d] = Append(pipe[d], "a question")]
        /\ UNCHANGED <<reaped, mem, shm, exists, run>>
    BY <1>0, <1>5 DEF V!Write
  <2>2. Channels(VItems)'
    BY <2>1, VChannels DEF VValues, VItems
  <2>3. VPlain'
    BY <1>0, <2>1 DEF VValues, VPlain, VAnswered
  <2> QED BY <2>2, <2>3 DEF VValues
<1>6. CASE \/ V!Read("main", "answer1", "answer2", "io_pipes1", "firstAnswer") /\ UNCHANGED V!ipc
           \/ V!Read("main", "answer2", "msgrcv", "io_pipes3", "secondAnswer") /\ UNCHANGED V!ipc
  <2>1. /\ \E to \in {"answer2", "msgrcv"} : pc' = [pc EXCEPT !["main"] = to]
        /\ \E d \in {"io_pipes1", "io_pipes3"} :
             pipe[d] # <<>> /\ pipe' = [pipe EXCEPT ![d] = Tail(pipe[d])]
        /\ \A x \in V!Locals \ {"firstAnswer", "secondAnswer"} : mem'[x] = mem[x]
        /\ UNCHANGED <<reaped, shm, exists, run>>
    BY <1>0, <1>6 DEF V!Read
  <2>2. Channels(VItems)'
    BY <2>1, VChannels DEF VValues, VItems
  <2>3. VPlain'
    BY <1>0, <2>1 DEF VValues, VPlain, VAnswered
  <2> QED BY <2>2, <2>3 DEF VValues
<1>7. CASE V!MsgRcv("main", "msgrcv", "verdict", 5, "ms")
  <2>1. /\ pc' = [pc EXCEPT !["main"] = "verdict"]
        /\ \A x \in V!Locals \ {"ms"} : mem'[x] = mem[x]
        /\ UNCHANGED <<reaped, pipe, shm, exists, run>>
    BY <1>0, <1>7 DEF V!MsgRcv
  <2>2. Channels(VItems)'
    BY <2>1, VChannels DEF VValues, VItems
  <2>3. VPlain'
    BY <1>0, <2>1 DEF VValues, VPlain, VAnswered
  <2> QED BY <2>2, <2>3 DEF VValues
<1>8. CASE \/ V!Assign("main", "verdict", "lock", "verdict", V!reward) /\ UNCHANGED V!ipc
           \/ V!LoadShm("main", "print1", "print2", "firstPlayerAnswer", "firstPrinted")
           \/ V!LoadShm("main", "print2", "unlock", "secPlayerAnswer", "secPrinted")
  <2>1. /\ \E to \in {"lock", "print2", "unlock"} : pc' = [pc EXCEPT !["main"] = to]
        /\ \A x \in V!Locals \ {"verdict", "firstPrinted", "secPrinted"} : mem'[x] = mem[x]
        /\ UNCHANGED <<reaped, pipe, shm, exists, run>>
    BY <1>0, <1>8 DEF V!Assign, V!LoadShm
  <2>2. Channels(VItems)'
    BY <2>1, VChannels DEF VValues, VItems
  <2>3. VPlain'
    BY <1>0, <2>1 DEF VValues, VPlain, VAnswered
  <2> QED BY <2>2, <2>3 DEF VValues
<1>9. CASE \/ V!Wait(V!Players, "wait", "semaphoreDelete") /\ UNCHANGED V!ipc
           \/ V!SemOp("main", "lock", "print1", -1)
           \/ V!SemOp("main", "unlock", "wait", 1)
           \/ V!RemoveSem("semaphoreDelete", "msgctl")
           \/ V!RemoveQueue("msgctl")
  <2>1. /\ \E to \in {"semaphoreDelete", "print1", "wait", "msgctl", "done"} :
             pc' = [pc EXCEPT !["main"] = to]
        /\ exists' \subseteq exists /\ reaped' \subseteq reaped \cup V!Players
        /\ UNCHANGED <<pipe, mem, shm, run>>
    BY <1>0, <1>9 DEF V!Wait, V!SemOp, V!RemoveSem, V!RemoveQueue
  <2>2. Channels(VItems)'
    BY <2>1, VChannels DEF VValues, VItems
  <2>3. VPlain'
    BY <1>0, <2>1 DEF VValues, VPlain, VAnswered
  <2> QED BY <2>2, <2>3 DEF VValues
<1> QED BY <1>1, <1>2, <1>3, <1>4, <1>5, <1>6, <1>7, <1>8, <1>9 DEF V!Main, V!mainRound, V!mainEnd

LEMMA VValuesInductive ==
  /\ V!Init => VValues
  /\ VControl /\ VData /\ VKept /\ VValues /\ V!Next => VValues'
<1> USE DEF V!Processes, V!Players, V!Pipes, V!Locals
<1>1. ASSUME V!Init PROVE VValues
  <2>1. VPlain
    BY <1>1, MaxRunsAssumption DEF V!Init, V!IpcInit, V!NoLocals, VPlain, VAnswered
  <2>2. Channels(VItems)
    <3>1. pipe = [d \in V!Pipes |-> <<>>]
      BY <1>1 DEF V!Init, V!IpcInit
    <3>2. <<>> \in Seq(VItems) /\ Len(<<>>) <= PipeCapacity
      BY PipeCapacityAssumption
    <3> QED BY <3>1, <3>2 DEF Channels
  <2> QED BY <2>1, <2>2 DEF VValues
<1>2. ASSUME VControl, VData, VKept, VValues, V!Next PROVE VValues'
  <2>1. CASE V!Start(V!Processes, V!Pipes, V!NoLocals, V!semaphoreCreation(1))
    <3>1. /\ pc' = [p \in V!Processes |-> IF p = "main" THEN "fork1" ELSE "off"]
          /\ reaped' = {} /\ run < MaxRuns /\ run' = run + 1
          /\ pipe' = [d \in V!Pipes |-> <<>>] /\ mem' = V!NoLocals
          /\ exists' = exists \cup {"sem", "queue"} /\ UNCHANGED shm
      BY <2>1 DEF V!Start
    <3>2. run' <= MaxRuns
      BY <1>2, <3>1, MaxRunsAssumption DEF VData, VTypes
    <3>3. VPlain'
      BY <1>2, <3>1, <3>2 DEF VValues, VPlain, V!NoLocals, VAnswered
    <3>4. Channels(VItems)'
      BY <3>1, ChannelsStarted
    <3> QED BY <3>3, <3>4 DEF VValues
  <2>2. CASE V!Interrupt(V!Processes)
    <3>1. pc' = [p \in V!Processes |-> "off"] /\ UNCHANGED <<reaped, pipe, mem, shm, exists, run>>
      BY <2>2 DEF V!Interrupt, V!ipc
    <3> QED BY <1>2, <3>1 DEF VValues, VPlain, VAnswered, Channels
  <2>3. CASE V!Deliver /\ UNCHANGED V!ipc
    <3>1. UNCHANGED <<pc, reaped, pipe, mem, shm, exists, run>>
      BY <2>3 DEF V!Deliver, V!ipc
    <3> QED BY <1>2, <3>1 DEF VValues, VPlain, Channels
  <2>4. CASE V!Main \/ V!firstPlayer \/ V!secPlayer
    BY <1>2, <2>4, VFirstValues, VSecValues, VMainValues DEF VData
  <2> QED BY <1>2, <2>1, <2>2, <2>3, <2>4 DEF V!Next
<1> QED BY <1>1, <1>2

LEMMA VTypeOK == VControl /\ VData /\ VKept /\ VValues => V!TypeOK
<1> SUFFICES ASSUME VControl, VData, VKept, VValues PROVE V!TypeOK
  OBVIOUS
<1>1. pending \in BOOLEAN /\ ready \in 0..2 /\ DOMAIN pc = V!Processes /\ sem \in 0..1
  BY DEF VControl, VForked, Heard, Lock
<1>2. \A d \in V!Pipes : Len(pipe[d]) \in 0..PipeCapacity
  <2>1. ASSUME NEW s \in Seq(VItems), Len(s) <= PipeCapacity PROVE Len(s) \in 0..PipeCapacity
    BY <2>1, PipeCapacityAssumption
  <2> QED BY <2>1 DEF VValues, Channels, VData, VTypes
<1>3. run \in 0..MaxRuns
  <2>1. run \in Nat /\ run <= MaxRuns
    BY Zenon DEF VValues, VPlain, VData, VTypes
  <2> QED BY <2>1, MaxRunsAssumption
<1>4. \A f \in DOMAIN shm : shm[f] \in Answers \cup {"zero"}
  BY DEF VKept, VValues, VPlain
<1>5. \A x \in {"answer1", "answer2", "goodAnswer", "firstAnswer", "secondAnswer"} :
        mem[x] \in Answers \cup {"unset"}
  BY DEF VValues, VPlain, VData, VDialogue1, VDialogue2, Dialogue
<1>6. \A x \in {"firstPlayerName", "secPlayerName"} : mem[x] \in {"a name", "unset"}
  BY DEF VValues, VPlain
<1> QED BY <1>1, <1>2, <1>3, <1>4, <1>5, <1>6, Zenon DEF V!TypeOK, VValues, VPlain

VInv == VControl /\ VData /\ VKept /\ VValues

LEMMA VInvariant ==
  /\ V!Init => VInv
  /\ VInv /\ (V!Next \/ UNCHANGED vars) => VInv'
  /\ VInv => V!TypeOK /\ V!Exclusion /\ V!KeptAtTheEnd /\ V!VerdictDeserved
<1>1. V!Init => VInv
  BY VInitControl, VInitData, VInitKept, VValuesInductive DEF VInv
<1>2. ASSUME VInv, V!Next PROVE VInv'
  BY <1>2, VControlInductive, VDataInductive, VKeptInductive, VValuesInductive DEF VInv, VData
<1>3. ASSUME VInv, UNCHANGED vars PROVE VInv'
  <2>1. UNCHANGED <<pc, pending, ready, reaped, pipe, mem, sem, queue, shm, exists, run>>
    BY <1>3 DEF vars, zhVars, ipc
  <2>2. VControl' /\ VKept'
    BY <1>3, <2>1
    DEF VInv, VControl, VForked, VLeft, Lock, Mutex, Nobody, Somebody, VKept, Heard, Signalled
  <2>3. VTypes' /\ VGuess' /\ VJudged'
    BY <1>3, <2>1 DEF VInv, VData, VTypes, VGuess, VJudged, VDeserved
  <2>4. VDialogue1' /\ VDialogue2'
    BY <1>3, <2>1 DEF VInv, VData, VDialogue1, VDialogue2, Dialogue
  <2>5. VPlain'
    BY <1>3, <2>1 DEF VInv, VValues, VPlain
  <2>6. Channels(VItems)'
    BY <1>3, <2>1 DEF VInv, VValues, Channels
  <2> QED BY <2>2, <2>3, <2>4, <2>5, <2>6 DEF VInv, VData, VValues
<1>4. ASSUME VInv PROVE V!TypeOK /\ V!Exclusion /\ V!KeptAtTheEnd /\ V!VerdictDeserved
  <2>1. V!KeptAtTheEnd
    BY <1>4 DEF VInv, VKept, V!KeptAtTheEnd, V!Players
  <2> QED BY <1>4, <2>1, VExclusion, VVerdict, VTypeOK DEF VInv
<1> QED BY <1>1, <1>2, <1>3, <1>4

(***************************************************************************)
(* The press conference                                                    *)
(***************************************************************************)

\* Nobody is there before the program starts, and no officer before its fork.
TKForked ==
  /\ DOMAIN pc = TK!Processes /\ DOMAIN mem = TK!Locals /\ DOMAIN pipe = TK!Pipes
  /\ DOMAIN shm = {"text"}
  /\ pc["main"] = "off" => pc["policeOfficer"] = "off" /\ pc["chiefMedicalOfficer"] = "off"
  /\ pc["main"] \in {"fork1", "fork2"} => pc["chiefMedicalOfficer"] = "off"
  /\ pc["main"] = "fork1" => pc["policeOfficer"] = "off"

\* While the semaphore exists it says who is in the shared memory, at most one.
TKLock ==
  /\ sem \in 0..1 /\ exists \subseteq {"sem", "queue"}
  /\ pc["main"] \in {"msgctl", "done"} => "sem" \notin exists
  /\ pc["main"] \notin {"msgctl", "done", "off"} =>
       /\ "sem" \in exists
       /\ sem = 1 => pc["main"] \notin {"print", "unlock"}
                     /\ pc["chiefMedicalOfficer"] \notin {"store", "unlock"}
       /\ sem = 0 => \/ /\ pc["main"] \in {"print", "unlock"}
                        /\ pc["chiefMedicalOfficer"] \notin {"store", "unlock"}
                     \/ /\ pc["main"] \notin {"print", "unlock"}
                        /\ pc["chiefMedicalOfficer"] \in {"store", "unlock"}

\* Question and answer: each pipe holds what was said and not yet heard.
TKAnswered == {"msgrcv", "lock", "print", "unlock", "wait", "semaphoreDelete", "msgctl", "done"}
TKTalk ==
  /\ pipe["io_pipes1"] \in {<<>>, <<"Maszk?">>} /\ pipe["io_pipes"] \in {<<>>, <<"Igen">>}
  /\ mem["puffer"] \in {"unset", "Igen"} /\ mem["question"] \in {"unset", "Maszk?"}
  /\ pc["main"] \notin TKAnswered \cup {"read", "off"} => pipe["io_pipes1"] = <<>>
  /\ pc["policeOfficer"] \in {"write", "exited"} => mem["question"] = "Maszk?"
  /\ pipe["io_pipes"] # <<>> /\ pc["main"] # "off" => pc["policeOfficer"] = "exited"
  /\ pc["main"] \in TKAnswered => mem["puffer"] = "Igen"
  /\ mem["puffer"] = "Igen" /\ pc["main"] # "off" => pc["policeOfficer"] = "exited"
  /\ pc["main"] \notin TKAnswered \cup {"off"} => mem["ms"].from = "nobody"
  /\ TK!InOrder

\* The new data stays once it is written.
TKText ==
  /\ shm["text"] \in {"zero", "238"} /\ mem["printed"] \in {"unset", "zero", "238"}
  /\ pc["chiefMedicalOfficer"] \in {"unlock", "exited"} => shm["text"] = "238"
  /\ run \in 0..MaxRuns /\ reaped \subseteq TK!Children

TKInv == TKForked /\ TKLock /\ TKTalk /\ TKText /\ Heard("policeOfficer", "chiefMedicalOfficer")

LEMMA TKInitially == TK!Init => TKInv
<1> SUFFICES ASSUME TK!Init PROVE TKInv
  OBVIOUS
<1> USE DEF TK!Init, TK!IpcInit, TK!Processes, TK!Children, TK!Pipes, TK!Locals, TK!NoLocals,
            TK!NoMessage
<1>1. TKForked /\ TKLock
  BY DEF TKForked, TKLock
<1>2. TKTalk
  BY DEF TKTalk, TKAnswered, TK!InOrder
<1>3. TKText
  BY MaxRunsAssumption DEF TKText
<1>4. Heard("policeOfficer", "chiefMedicalOfficer")
  BY HeardInitially
<1> QED BY <1>1, <1>2, <1>3, <1>4 DEF TKInv

LEMMA TKPolice == ASSUME TKInv, TK!policeOfficer PROVE TKInv'
<1> USE DEF TKForked, TK!Processes, TK!Children, TK!Pipes, TK!Locals, TK!Step, TK!ipc
<1>1. CASE TK!Kill("policeOfficer", "start", "read") /\ UNCHANGED TK!ipc
  <2>1. TKForked' /\ TKLock' /\ TKTalk' /\ TKText'
    BY <1>1 DEF TKInv, TK!Kill, TKLock, TKTalk, TKText, TKAnswered, TK!InOrder
  <2>2. Heard("policeOfficer", "chiefMedicalOfficer")'
    BY <1>1, HeardKill DEF TKInv, TK!Kill, TK!Alive
  <2> QED BY <2>1, <2>2 DEF TKInv
<1>2. CASE TK!Read("policeOfficer", "read", "write", "io_pipes1", "question") /\ UNCHANGED TK!ipc
  <2>1. TKForked' /\ TKLock' /\ TKText'
    BY <1>2 DEF TKInv, TK!Read, TKLock, TKText
  <2>2. TKTalk'
    <3>1. /\ pipe["io_pipes1"] = <<"Maszk?">>
          /\ pipe' = [pipe EXCEPT !["io_pipes1"] = Tail(pipe["io_pipes1"])]
          /\ mem' = [mem EXCEPT !["question"] = Head(pipe["io_pipes1"])]
      BY <1>2 DEF TKInv, TK!Read, TKTalk
    <3>2. mem' = [mem EXCEPT !["question"] = "Maszk?"] /\ pipe' = [pipe EXCEPT !["io_pipes1"] = <<>>]
      BY <3>1, ReadOne
    <3>3. pc["policeOfficer"] = "read" /\ pc' = [pc EXCEPT !["policeOfficer"] = "write"]
      BY <1>2 DEF TK!Read
    <3> QED BY <3>2, <3>3 DEF TKInv, TKTalk, TKAnswered, TK!InOrder
  <2>3. Heard("policeOfficer", "chiefMedicalOfficer")'
    BY <1>2, HeardKept DEF TKInv, TK!Read
  <2> QED BY <2>1, <2>2, <2>3 DEF TKInv
<1>3. CASE TK!Write("policeOfficer", "write", "exited", "io_pipes", "Igen") /\ UNCHANGED TK!ipc
  <2>1. TKForked' /\ TKLock' /\ TKText'
    BY <1>3 DEF TKInv, TK!Write, TKLock, TKText
  <2>2. TKTalk'
    <3>1. /\ pc["policeOfficer"] = "write" /\ pc' = [pc EXCEPT !["policeOfficer"] = "exited"]
          /\ pipe' = [pipe EXCEPT !["io_pipes"] = Append(pipe["io_pipes"], "Igen")] /\ UNCHANGED mem
      BY <1>3 DEF TK!Write
    <3> QED BY <3>1, WriteOne DEF TKInv, TKTalk, TKAnswered, TK!InOrder
  <2>3. Heard("policeOfficer", "chiefMedicalOfficer")'
    BY <1>3, HeardKept DEF TKInv, TK!Write
  <2> QED BY <2>1, <2>2, <2>3 DEF TKInv
<1> QED BY <1>1, <1>2, <1>3 DEF TK!policeOfficer

LEMMA TKMedical == ASSUME TKInv, TK!chiefMedicalOfficer PROVE TKInv'
<1> USE DEF TKForked, TK!Processes, TK!Children, TK!Pipes, TK!Locals, TK!Step, TK!ipc
<1>1. CASE TK!Kill("chiefMedicalOfficer", "start", "msgsnd") /\ UNCHANGED TK!ipc
  <2>1. TKForked' /\ TKLock' /\ TKTalk' /\ TKText'
    BY <1>1 DEF TKInv, TK!Kill, TKLock, TKTalk, TKText, TKAnswered, TK!InOrder
  <2>2. Heard("policeOfficer", "chiefMedicalOfficer")'
    BY <1>1, HeardKill DEF TKInv, TK!Kill, TK!Alive
  <2> QED BY <2>1, <2>2 DEF TKInv
<1>2. CASE \/ TK!MsgSnd("chiefMedicalOfficer", "msgsnd", "lock", 5, "A maszk fontos")
           \/ TK!StoreShm("chiefMedicalOfficer", "store", "unlock", "text", "238")
  <2>1. /\ UNCHANGED <<pending, ready, reaped, pipe, mem, sem, exists, run>>
        /\ \/ /\ pc["chiefMedicalOfficer"] = "msgsnd" /\ UNCHANGED shm
              /\ pc' = [pc EXCEPT !["chiefMedicalOfficer"] = "lock"]
           \/ /\ pc["chiefMedicalOfficer"] = "store" /\ shm' = [shm EXCEPT !["text"] = "238"]
              /\ pc' = [pc EXCEPT !["chiefMedicalOfficer"] = "unlock"]
    BY <1>2 DEF TK!MsgSnd, TK!StoreShm
  <2>2. TKForked' /\ TKLock'
    BY <2>1 DEF TKInv, TKLock
  <2>3. TKTalk' /\ TKText'
    BY <2>1 DEF TKInv, TKTalk, TKText, TKAnswered, TK!InOrder
  <2>4. Heard("policeOfficer", "chiefMedicalOfficer")'
    BY <2>1, HeardKept DEF TKInv
  <2> QED BY <2>2, <2>3, <2>4 DEF TKInv
<1>3. CASE \/ TK!SemOp("chiefMedicalOfficer", "lock", "store", -1)
           \/ TK!SemOp("chiefMedicalOfficer", "unlock", "exited", 1)
  <2>1. UNCHANGED <<pending, ready, reaped, pipe, mem, shm, exists, run>>
    BY <1>3 DEF TK!SemOp
  <2>2. TKForked'
    BY <1>3 DEF TKInv, TK!SemOp
  <2>3. TKLock'
    <3>1. CASE TK!SemOp("chiefMedicalOfficer", "lock", "store", -1)
      <4>1. /\ pc["chiefMedicalOfficer"] = "lock" /\ pc' = [pc EXCEPT !["chiefMedicalOfficer"] = "store"]
            /\ IF "sem" \in exists THEN sem = 1 /\ sem' = 0 ELSE sem' = sem
        BY <3>1 DEF TKInv, TK!SemOp, TKLock
      <4> QED BY <2>1, <4>1 DEF TKInv, TKLock
    <3>2. CASE TK!SemOp("chiefMedicalOfficer", "unlock", "exited", 1)
      <4>1. /\ pc["chiefMedicalOfficer"] = "unlock" /\ pc' = [pc EXCEPT !["chiefMedicalOfficer"] = "exited"]
            /\ IF "sem" \in exists THEN sem' = sem + 1 ELSE sem' = sem
        BY <3>2 DEF TK!SemOp
      <4> QED BY <2>1, <4>1 DEF TKInv, TKLock
    <3> QED BY <1>3, <3>1, <3>2
  <2>4. TKTalk' /\ TKText'
    BY <1>3, <2>1 DEF TKInv, TK!SemOp, TKTalk, TKText, TKAnswered, TK!InOrder
  <2>5. Heard("policeOfficer", "chiefMedicalOfficer")'
    BY <1>3, <2>1, HeardKept DEF TKInv, TK!SemOp
  <2> QED BY <2>2, <2>3, <2>4, <2>5 DEF TKInv
<1> QED BY <1>1, <1>2, <1>3 DEF TK!chiefMedicalOfficer

LEMMA TKMain == ASSUME TKInv, TK!Main PROVE TKInv'
<1> USE DEF TKForked, TK!Processes, TK!Children, TK!Pipes, TK!Locals, TK!Step, TK!ipc
<1>1. CASE TK!MsgRcv("main", "msgrcv", "lock", 5, "ms")
  <2>1. /\ pc["main"] = "msgrcv" /\ pc' = [pc EXCEPT !["main"] = "lock"] /\ DOMAIN mem' = TK!Locals
        /\ \A x \in {"puffer", "question", "printed"} : mem'[x] = mem[x]
        /\ UNCHANGED <<pending, ready, reaped, pipe, sem, shm, exists, run>>
    BY <1>1 DEF TKInv, TK!MsgRcv
  <2>2. TKForked' /\ TKLock' /\ TKText'
    BY <2>1 DEF TKInv, TKLock, TKText
  <2>3. TKTalk'
    BY <2>1 DEF TKInv, TKTalk, TKAnswered, TK!InOrder
  <2>4. Heard("policeOfficer", "chiefMedicalOfficer")'
    BY <2>1, HeardKept DEF TKInv
  <2> QED BY <2>2, <2>3, <2>4 DEF TKInv
<1>2. CASE TK!Read("main", "read", "msgrcv", "io_pipes", "puffer") /\ UNCHANGED TK!ipc
  <2>1. /\ pipe["io_pipes"] = <<"Igen">>
        /\ pipe' = [pipe EXCEPT !["io_pipes"] = Tail(pipe["io_pipes"])]
        /\ mem' = [mem EXCEPT !["puffer"] = Head(pipe["io_pipes"])]
    BY <1>2 DEF TKInv, TK!Read, TKTalk
  <2>2. mem' = [mem EXCEPT !["puffer"] = "Igen"] /\ pipe' = [pipe EXCEPT !["io_pipes"] = <<>>]
    BY <2>1, ReadOne
  <2>3. /\ pc["main"] = "read" /\ pc' = [pc EXCEPT !["main"] = "msgrcv"]
        /\ UNCHANGED <<pending, ready, reaped, sem, shm, exists, run>>
    BY <1>2 DEF TK!Read
  <2>4. TKForked' /\ TKLock' /\ TKText'
    BY <2>2, <2>3 DEF TKInv, TKLock, TKText
  <2>5. TKTalk'
    BY <2>1, <2>2, <2>3 DEF TKInv, TKTalk, TKAnswered, TK!InOrder
  <2>6. Heard("policeOfficer", "chiefMedicalOfficer")'
    BY <2>3, HeardKept DEF TKInv
  <2> QED BY <2>4, <2>5, <2>6 DEF TKInv
<1>3. CASE TK!Write("main", "write", "read", "io_pipes1", "Maszk?") /\ UNCHANGED TK!ipc
  <2>1. /\ pc["main"] = "write" /\ pc' = [pc EXCEPT !["main"] = "read"]
        /\ pipe' = [pipe EXCEPT !["io_pipes1"] = Append(pipe["io_pipes1"], "Maszk?")]
        /\ UNCHANGED <<pending, ready, reaped, mem, sem, shm, exists, run>>
    BY <1>3 DEF TK!Write
  <2>2. TKForked' /\ TKLock' /\ TKText'
    BY <2>1 DEF TKInv, TKLock, TKText
  <2>3. TKTalk'
    BY <2>1, WriteOne DEF TKInv, TKTalk, TKAnswered, TK!InOrder
  <2>4. Heard("policeOfficer", "chiefMedicalOfficer")'
    BY <2>1, HeardKept DEF TKInv
  <2> QED BY <2>2, <2>3, <2>4 DEF TKInv
<1>4. CASE ~ \/ TK!MsgRcv("main", "msgrcv", "lock", 5, "ms")
             \/ TK!Read("main", "read", "msgrcv", "io_pipes", "puffer") /\ UNCHANGED TK!ipc
             \/ TK!Write("main", "write", "read", "io_pipes1", "Maszk?") /\ UNCHANGED TK!ipc
  <2> USE DEF TK!Main, TK!Fork, TK!AwaitReady, TK!Wait, TK!SemOp, TK!LoadShm, TK!RemoveSem,
              TK!RemoveQueue
  <2>1. /\ UNCHANGED <<pending, ready, pipe, shm, run>> /\ reaped' \subseteq TK!Children
        /\ DOMAIN mem' = TK!Locals /\ mem'["printed"] \in {mem["printed"], shm["text"]}
        /\ \A x \in TK!Locals \ {"printed"} : mem'[x] = mem[x]
    BY <1>4 DEF TKInv, TKText
  <2>2. TKForked'
    BY <1>4 DEF TKInv
  <2>3. TKLock'
    <3>1. CASE TK!SemOp("main", "lock", "print", -1)
      <4>1. /\ pc["main"] = "lock" /\ pc' = [pc EXCEPT !["main"] = "print"]
            /\ sem = 1 /\ sem' = 0 /\ UNCHANGED exists
        BY <3>1 DEF TKInv, TKLock
      <4> QED BY <4>1 DEF TKInv, TKLock
    <3>2. CASE TK!SemOp("main", "unlock", "wait", 1)
      <4>1. /\ pc["main"] = "unlock" /\ pc' = [pc EXCEPT !["main"] = "wait"]
            /\ sem = 0 /\ sem' = 1 /\ UNCHANGED exists
        BY <3>2 DEF TKInv, TKLock
      <4> QED BY <4>1 DEF TKInv, TKLock
    <3>3. CASE ~TK!SemOp("main", "lock", "print", -1) /\ ~TK!SemOp("main", "unlock", "wait", 1)
      BY <1>4, <3>3 DEF TKInv, TKLock
    <3> QED BY <3>1, <3>2, <3>3
  <2>4. TKTalk'
    <3>1. /\ pc["main"] # "off" /\ pc'["main"] \notin {"off", "read"} /\ pc["main"] # "read"
          /\ pc'["main"] \in TKAnswered <=> pc["main"] \in TKAnswered
          /\ \/ pc'["policeOfficer"] = pc["policeOfficer"]
             \/ pc["policeOfficer"] = "off" /\ pc'["policeOfficer"] = "start"
      BY <1>4 DEF TKInv, TKAnswered
    <3> QED BY <2>1, <3>1 DEF TKInv, TKTalk, TK!InOrder
  <2>5. TKText'
    BY <1>4, <2>1 DEF TKInv, TKText
  <2>6. Heard("policeOfficer", "chiefMedicalOfficer")'
    BY <1>4, <2>1, HeardKept DEF TKInv
  <2> QED BY <2>2, <2>3, <2>4, <2>5, <2>6 DEF TKInv
<1> QED BY <1>1, <1>2, <1>3, <1>4 DEF TK!Main

LEMMA TKInductive == ASSUME TKInv, TK!Next PROVE TKInv'
<1> USE DEF TKForked, TK!Processes, TK!Children, TK!Pipes, TK!Locals, TK!ipc
<1>1. CASE TK!Start(TK!Processes, TK!Pipes, TK!NoLocals, TK!semaphoreCreation(1))
  <2> USE <1>1 DEF TK!Start
  <2>1. TKForked' /\ TKLock'
    BY DEF TKInv, TK!NoLocals, TKLock, TK!semaphoreCreation
  <2>2. TKTalk'
    BY DEF TKInv, TKTalk, TKAnswered, TK!InOrder, TK!NoLocals, TK!NoMessage
  <2>3. TKText'
    BY MaxRunsAssumption DEF TKInv, TKText, TK!NoLocals
  <2>4. Heard("policeOfficer", "chiefMedicalOfficer")'
    <3>1. pc'["policeOfficer"] = "off" /\ pc'["chiefMedicalOfficer"] = "off"
      OBVIOUS
    <3> QED BY <3>1, HeardStarted
  <2> QED BY <2>1, <2>2, <2>3, <2>4 DEF TKInv
<1>2. CASE TK!Interrupt(TK!Processes)
  <2> USE <1>2 DEF TK!Interrupt
  <2>1. TKForked' /\ TKLock' /\ TKText'
    BY DEF TKInv, TKLock, TKText
  <2>2. TKTalk'
    BY DEF TKInv, TKTalk, TKAnswered, TK!InOrder
  <2>3. Heard("policeOfficer", "chiefMedicalOfficer")'
    BY DEF TKInv, Heard
  <2> QED BY <2>1, <2>2, <2>3 DEF TKInv
<1>3. CASE TK!Deliver /\ UNCHANGED TK!ipc
  <2>1. Deliver /\ UNCHANGED <<pc, reaped, pipe, mem, sem, shm, exists, run>>
    BY <1>3 DEF TK!Deliver, Deliver, TK!Alive, Alive, TK!Gone, Gone
  <2>2. TKForked' /\ TKLock' /\ TKTalk' /\ TKText'
    BY <2>1 DEF TKInv, TKLock, TKText, TKTalk, TK!InOrder
  <2>3. Heard("policeOfficer", "chiefMedicalOfficer")'
    BY <2>1, HeardDelivered DEF TKInv
  <2> QED BY <2>2, <2>3 DEF TKInv
<1> QED BY <1>1, <1>2, <1>3, TKPolice, TKMedical, TKMain DEF TK!Next

LEMMA TKInvariant ==
  /\ TK!Init => TKInv
  /\ TKInv /\ (TK!Next \/ UNCHANGED vars) => TKInv'
  /\ TKInv => TK!TypeOK /\ TK!Exclusion /\ TK!InOrder /\ TK!KeptAtTheEnd
<1>1. ASSUME TKInv, UNCHANGED vars PROVE TKInv'
  <2>1. UNCHANGED <<pc, pending, ready, reaped, pipe, mem, sem, queue, shm, exists, run>>
    BY <1>1 DEF vars, zhVars, ipc
  <2>2. TKForked' /\ TKLock' /\ TKTalk' /\ TKText'
    BY <1>1, <2>1 DEF TKInv, TKForked, TKLock, TKText, TKTalk, TK!InOrder
  <2> QED BY <1>1, <2>1, <2>2 DEF TKInv, Heard, Signalled
<1>2. ASSUME TKInv PROVE TK!TypeOK
  <2>1. \A d \in TK!Pipes : Len(pipe[d]) \in 0..PipeCapacity
    <3>1. ASSUME NEW v PROVE Len(<<>>) \in 0..PipeCapacity /\ Len(<<v>>) \in 0..PipeCapacity
      BY PipeCapacityAssumption
    <3> QED BY <1>2, <3>1 DEF TKInv, TKTalk, TK!Pipes
  <2> QED BY <1>2, <2>1 DEF TK!TypeOK, TKInv, TKForked, TKLock, TKTalk, TKText, Heard
<1>3. TKInv => TK!Exclusion
  BY DEF TKInv, TKLock, TK!Exclusion
<1>4. TKInv => TK!InOrder /\ TK!KeptAtTheEnd
  BY DEF TKInv, TKTalk, TKText, TK!KeptAtTheEnd
<1> QED BY <1>1, <1>2, <1>3, <1>4, TKInitially, TKInductive

(***************************************************************************)
(* The press conference of the other group                                 *)
(***************************************************************************)

T19Forked ==
  /\ DOMAIN pc = TK19!Processes /\ DOMAIN mem = TK19!Locals /\ DOMAIN pipe = TK19!Pipes
  /\ pc["main"] = "off" => pc["policeOfficer"] = "off" /\ pc["chiefMedicalOfficer"] = "off"
  /\ pc["main"] \in {"fork1", "fork2"} => pc["chiefMedicalOfficer"] = "off"
  /\ pc["main"] = "fork1" => pc["policeOfficer"] = "off"

\* Question and answer, as in the other program
T19Answered == {"msgrcv", "wait", "msgctl", "done"}
T19Talk ==
  /\ pipe["io_pipes1"] \in {<<>>, <<"Maszk?">>} /\ pipe["io_pipes"] \in {<<>>, <<"Igen">>}
  /\ mem["puffer"] \in {"unset", "Igen"} /\ mem["question"] \in {"unset", "Maszk?"}
  /\ pc["main"] \notin T19Answered \cup {"read", "off"} => pipe["io_pipes1"] = <<>>
  /\ pc["policeOfficer"] \in {"write", "exited"} => mem["question"] = "Maszk?"
  /\ pipe["io_pipes"] # <<>> /\ pc["main"] # "off" => pc["policeOfficer"] = "exited"
  /\ pc["main"] \in T19Answered => mem["puffer"] = "Igen"
  /\ mem["puffer"] = "Igen" /\ pc["main"] # "off" => pc["policeOfficer"] = "exited"
  /\ pc["main"] \notin T19Answered \cup {"off"} => mem["ms"].from = "nobody"
  /\ TK19!InOrder

\* A comment of this run is there only after the medical officer has sent it.
T19Messages ==
  [from : {"chiefMedicalOfficer"}, run : Nat, type : {5}, text : {"A maszk fontos"}]
T19Comment ==
  /\ sem \in 0..1 /\ exists \subseteq {"sem", "queue"} /\ reaped \subseteq TK19!Children
  /\ run \in Nat /\ run <= MaxRuns /\ queue \in Seq(T19Messages)
  /\ pc["main"] \notin {"done", "off"} => "queue" \in exists
  /\ \A m \in Range(queue) :
       /\ m.run \in 0..run
       /\ m.run = run /\ pc["main"] # "off" => pc["chiefMedicalOfficer"] = "exited"
  /\ pc["main"] \in {"wait", "msgctl", "done"} =>
       mem["ms"].run < run \/ pc["chiefMedicalOfficer"] = "exited"

T19Inv == T19Forked /\ T19Talk /\ T19Comment /\ Heard("policeOfficer", "chiefMedicalOfficer")

LEMMA T19Initially == TK19!Init => T19Inv
<1> SUFFICES ASSUME TK19!Init PROVE T19Inv
  OBVIOUS
<1> USE DEF TK19!Init, TK19!IpcInit, TK19!Processes, TK19!Children, TK19!Pipes, TK19!Locals,
            TK19!NoLocals, TK19!NoMessage
<1>1. T19Forked
  BY DEF T19Forked
<1>2. T19Talk
  BY DEF T19Talk, T19Answered, TK19!InOrder
<1>3. T19Comment
  <2>1. queue \in Seq(T19Messages) /\ Range(queue) = {}
    BY DEF Range
  <2> QED BY <2>1, MaxRunsAssumption DEF T19Comment
<1>4. Heard("policeOfficer", "chiefMedicalOfficer")
  BY HeardInitially
<1> QED BY <1>1, <1>2, <1>3, <1>4 DEF T19Inv

LEMMA T19Police == ASSUME T19Inv, TK19!policeOfficer PROVE T19Inv'
<1> USE DEF T19Forked, TK19!Processes, TK19!Children, TK19!Pipes, TK19!Locals, TK19!Step, TK19!ipc
<1>1. CASE TK19!Kill("policeOfficer", "start", "read") /\ UNCHANGED TK19!ipc
  <2>1. T19Forked' /\ T19Talk' /\ T19Comment'
    BY <1>1 DEF T19Inv, TK19!Kill, T19Talk, T19Comment, T19Answered, TK19!InOrder
  <2>2. Heard("policeOfficer", "chiefMedicalOfficer")'
    BY <1>1, HeardKill DEF T19Inv, TK19!Kill, TK19!Alive
  <2> QED BY <2>1, <2>2 DEF T19Inv
<1>2. CASE TK19!Read("policeOfficer", "read", "write", "io_pipes1", "question") /\ UNCHANGED TK19!ipc
  <2>1. T19Forked' /\ T19Comment'
    BY <1>2 DEF T19Inv, TK19!Read, T19Comment
  <2>2. T19Talk'
    <3>1. /\ pipe["io_pipes1"] = <<"Maszk?">>
          /\ pipe' = [pipe EXCEPT !["io_pipes1"] = Tail(pipe["io_pipes1"])]
          /\ mem' = [mem EXCEPT !["question"] = Head(pipe["io_pipes1"])]
      BY <1>2 DEF T19Inv, TK19!Read, T19Talk
    <3>2. mem' = [mem EXCEPT !["question"] = "Maszk?"] /\ pipe' = [pipe EXCEPT !["io_pipes1"] = <<>>]
      BY <3>1, ReadOne
    <3>3. pc["policeOfficer"] = "read" /\ pc' = [pc EXCEPT !["policeOfficer"] = "write"]
      BY <1>2 DEF TK19!Read
    <3> QED BY <3>2, <3>3 DEF T19Inv, T19Talk, T19Answered, TK19!InOrder
  <2>3. Heard("policeOfficer", "chiefMedicalOfficer")'
    BY <1>2, HeardKept DEF T19Inv, TK19!Read
  <2> QED BY <2>1, <2>2, <2>3 DEF T19Inv
<1>3. CASE TK19!Write("policeOfficer", "write", "exited", "io_pipes", "Igen") /\ UNCHANGED TK19!ipc
  <2>1. T19Forked' /\ T19Comment'
    BY <1>3 DEF T19Inv, TK19!Write, T19Comment
  <2>2. T19Talk'
    <3>1. /\ pc["policeOfficer"] = "write" /\ pc' = [pc EXCEPT !["policeOfficer"] = "exited"]
          /\ pipe' = [pipe EXCEPT !["io_pipes"] = Append(pipe["io_pipes"], "Igen")] /\ UNCHANGED mem
      BY <1>3 DEF TK19!Write
    <3> QED BY <3>1, WriteOne DEF T19Inv, T19Talk, T19Answered, TK19!InOrder
  <2>3. Heard("policeOfficer", "chiefMedicalOfficer")'
    BY <1>3, HeardKept DEF T19Inv, TK19!Write
  <2> QED BY <2>1, <2>2, <2>3 DEF T19Inv
<1> QED BY <1>1, <1>2, <1>3 DEF TK19!policeOfficer

LEMMA T19Medical == ASSUME T19Inv, TK19!chiefMedicalOfficer PROVE T19Inv'
<1> USE DEF T19Forked, TK19!Processes, TK19!Children, TK19!Pipes, TK19!Locals, TK19!Step, TK19!ipc
<1>1. CASE TK19!Kill("chiefMedicalOfficer", "start", "msgsnd") /\ UNCHANGED TK19!ipc
  <2>1. T19Forked' /\ T19Talk' /\ T19Comment'
    BY <1>1 DEF T19Inv, TK19!Kill, T19Talk, T19Comment, T19Answered, TK19!InOrder
  <2>2. Heard("policeOfficer", "chiefMedicalOfficer")'
    BY <1>1, HeardKill DEF T19Inv, TK19!Kill, TK19!Alive
  <2> QED BY <2>1, <2>2 DEF T19Inv
<1>2. CASE TK19!MsgSnd("chiefMedicalOfficer", "msgsnd", "exited", 5, "A maszk fontos")
  <2>1. /\ pc["chiefMedicalOfficer"] = "msgsnd" /\ pc' = [pc EXCEPT !["chiefMedicalOfficer"] = "exited"]
        /\ UNCHANGED <<pending, ready, reaped, pipe, mem, sem, shm, exists, run>>
    BY <1>2 DEF TK19!MsgSnd
  <2>2. T19Forked' /\ T19Talk'
    BY <2>1 DEF T19Inv, T19Talk, T19Answered, TK19!InOrder
  <2>3. T19Comment'
    <3> DEFINE m == [from |-> "chiefMedicalOfficer", run |-> run, type |-> 5,
                     text |-> "A maszk fontos"]
    <3>1. queue' = Append(queue, m) \/ queue' = queue
      BY <1>2 DEF TK19!MsgSnd, TK19!Message
    <3>2. m \in T19Messages /\ m.run = run
      BY DEF T19Inv, T19Comment, T19Messages
    <3> HIDE DEF m
    <3>3. queue' \in Seq(T19Messages) /\ Range(queue') \subseteq Range(queue) \cup {m}
      BY <3>1, <3>2, Sends DEF T19Inv, T19Comment
    <3> QED BY <2>1, <3>2, <3>3 DEF T19Inv, T19Comment
  <2>4. Heard("policeOfficer", "chiefMedicalOfficer")'
    BY <2>1, HeardKept DEF T19Inv
  <2> QED BY <2>2, <2>3, <2>4 DEF T19Inv
<1> QED BY <1>1, <1>2 DEF TK19!chiefMedicalOfficer

LEMMA T19Main == ASSUME T19Inv, TK19!Main PROVE T19Inv'
<1> USE DEF T19Forked, TK19!Processes, TK19!Children, TK19!Pipes, TK19!Locals, TK19!Step, TK19!ipc
<1>1. CASE TK19!MsgRcv("main", "msgrcv", "wait", 5, "ms")
  <2>1. /\ pc["main"] = "msgrcv" /\ pc' = [pc EXCEPT !["main"] = "wait"] /\ DOMAIN mem' = TK19!Locals
        /\ \A x \in {"puffer", "question"} : mem'[x] = mem[x]
        /\ UNCHANGED <<pending, ready, reaped, pipe, sem, shm, exists, run>>
    BY <1>1 DEF T19Inv, TK19!MsgRcv
  <2>2. T19Forked'
    BY <2>1 DEF T19Inv
  <2>3. T19Talk'
    BY <2>1 DEF T19Inv, T19Talk, T19Answered, TK19!InOrder
  <2>4. T19Comment'
    <3>1. MsgRcv("main", "msgrcv", "wait", 5, "ms")
      BY <1>1 DEF TK19!MsgRcv, MsgRcv, Step
    <3>2. queue' \in Seq(T19Messages) /\ Received("ms", 5)
      BY <3>1, Receives DEF T19Inv, T19Comment
    <3>3. Range(queue') \subseteq Range(queue) /\ mem'["ms"] \in Range(queue)
      BY <2>1, <3>2 DEF Received, T19Inv, T19Comment
    <3> QED BY <2>1, <3>2, <3>3 DEF T19Inv, T19Comment
  <2>5. Heard("policeOfficer", "chiefMedicalOfficer")'
    BY <2>1, HeardKept DEF T19Inv
  <2> QED BY <2>2, <2>3, <2>4, <2>5 DEF T19Inv
<1>2. CASE TK19!Read("main", "read", "msgrcv", "io_pipes", "puffer") /\ UNCHANGED TK19!ipc
  <2>1. /\ pipe["io_pipes"] = <<"Igen">>
        /\ pipe' = [pipe EXCEPT !["io_pipes"] = Tail(pipe["io_pipes"])]
        /\ mem' = [mem EXCEPT !["puffer"] = Head(pipe["io_pipes"])]
    BY <1>2 DEF T19Inv, TK19!Read, T19Talk
  <2>2. mem' = [mem EXCEPT !["puffer"] = "Igen"] /\ pipe' = [pipe EXCEPT !["io_pipes"] = <<>>]
    BY <2>1, ReadOne
  <2>3. /\ pc["main"] = "read" /\ pc' = [pc EXCEPT !["main"] = "msgrcv"]
        /\ UNCHANGED <<pending, ready, reaped, sem, queue, shm, exists, run>>
    BY <1>2 DEF TK19!Read
  <2>4. T19Forked' /\ T19Comment'
    BY <2>2, <2>3 DEF T19Inv, T19Comment
  <2>5. T19Talk'
    BY <2>1, <2>2, <2>3 DEF T19Inv, T19Talk, T19Answered, TK19!InOrder
  <2>6. Heard("policeOfficer", "chiefMedicalOfficer")'
    BY <2>3, HeardKept DEF T19Inv
  <2> QED BY <2>4, <2>5, <2>6 DEF T19Inv
<1>3. CASE TK19!Write("main", "write", "read", "io_pipes1", "Maszk?") /\ UNCHANGED TK19!ipc
  <2>1. /\ pc["main"] = "write" /\ pc' = [pc EXCEPT !["main"] = "read"]
        /\ pipe' = [pipe EXCEPT !["io_pipes1"] = Append(pipe["io_pipes1"], "Maszk?")]
        /\ UNCHANGED <<pending, ready, reaped, mem, sem, queue, shm, exists, run>>
    BY <1>3 DEF TK19!Write
  <2>2. T19Forked' /\ T19Comment'
    BY <2>1 DEF T19Inv, T19Comment
  <2>3. T19Talk'
    BY <2>1, WriteOne DEF T19Inv, T19Talk, T19Answered, TK19!InOrder
  <2>4. Heard("policeOfficer", "chiefMedicalOfficer")'
    BY <2>1, HeardKept DEF T19Inv
  <2> QED BY <2>2, <2>3, <2>4 DEF T19Inv
<1>4. CASE TK19!RemoveQueue("msgctl")
  <2>1. /\ pc["main"] = "msgctl" /\ pc' = [pc EXCEPT !["main"] = "done"]
        /\ queue' = <<>> /\ exists' \subseteq exists
        /\ UNCHANGED <<pending, ready, reaped, pipe, mem, sem, shm, run>>
    BY <1>4 DEF TK19!RemoveQueue
  <2>2. T19Forked' /\ T19Talk'
    BY <2>1 DEF T19Inv, T19Talk, T19Answered, TK19!InOrder
  <2>3. T19Comment'
    <3>1. queue' \in Seq(T19Messages) /\ Range(queue') = {}
      BY <2>1 DEF Range
    <3> QED BY <2>1, <3>1 DEF T19Inv, T19Comment
  <2>4. Heard("policeOfficer", "chiefMedicalOfficer")'
    BY <2>1, HeardKept DEF T19Inv
  <2> QED BY <2>2, <2>3, <2>4 DEF T19Inv
<1>5. CASE /\ \/ TK19!Fork("policeOfficer", "fork1", "fork2")
              \/ TK19!Fork("chiefMedicalOfficer", "fork2", "ready1")
              \/ TK19!AwaitReady(1, "ready1", "ready2")
              \/ TK19!AwaitReady(2, "ready2", "write")
              \/ TK19!Wait(TK19!Children, "wait", "msgctl")
           /\ UNCHANGED TK19!ipc
  <2> USE DEF TK19!Fork, TK19!AwaitReady, TK19!Wait
  <2>1. UNCHANGED <<pending, ready, pipe, mem, sem, queue, exists, run>> /\ reaped' \subseteq TK19!Children
    BY <1>5 DEF T19Inv, T19Comment
  <2>2. T19Forked'
    BY <1>5 DEF T19Inv
  <2>3. /\ pc["main"] # "off" /\ pc'["main"] \notin {"off", "read", "done"} /\ pc["main"] \notin {"read", "done"}
        /\ pc'["main"] \in T19Answered <=> pc["main"] \in T19Answered
        /\ pc'["main"] \in {"wait", "msgctl"} <=> pc["main"] \in {"wait", "msgctl"}
        /\ \A p \in TK19!Children : pc'[p] = pc[p] \/ (pc[p] = "off" /\ pc'[p] = "start")
    BY <1>5 DEF T19Inv, T19Answered
  <2>4. T19Talk'
    BY <2>1, <2>3 DEF T19Inv, T19Talk, TK19!InOrder
  <2>5. T19Comment'
    BY <2>1, <2>3 DEF T19Inv, T19Comment
  <2>6. Heard("policeOfficer", "chiefMedicalOfficer")'
    BY <1>5, <2>1, HeardKept DEF T19Inv
  <2> QED BY <2>2, <2>4, <2>5, <2>6 DEF T19Inv
<1> QED BY <1>1, <1>2, <1>3, <1>4, <1>5 DEF TK19!Main

LEMMA T19Inductive == ASSUME T19Inv, TK19!Next PROVE T19Inv'
<1> USE DEF T19Forked, TK19!Processes, TK19!Children, TK19!Pipes, TK19!Locals, TK19!ipc
<1>1. CASE TK19!Start(TK19!Processes, TK19!Pipes, TK19!NoLocals, TK19!semaphoreCreation(1))
  <2> USE <1>1 DEF TK19!Start
  <2>1. T19Forked'
    BY DEF T19Inv, TK19!NoLocals
  <2>2. T19Talk'
    BY DEF T19Inv, T19Talk, T19Answered, TK19!InOrder, TK19!NoLocals, TK19!NoMessage
  <2>3. T19Comment'
    BY MaxRunsAssumption DEF T19Inv, T19Comment, TK19!semaphoreCreation
  <2>4. Heard("policeOfficer", "chiefMedicalOfficer")'
    <3>1. pc'["policeOfficer"] = "off" /\ pc'["chiefMedicalOfficer"] = "off"
      OBVIOUS
    <3> QED BY <3>1, HeardStarted
  <2> QED BY <2>1, <2>2, <2>3, <2>4 DEF T19Inv
<1>2. CASE TK19!Interrupt(TK19!Processes)
  <2> USE <1>2 DEF TK19!Interrupt
  <2>1. T19Forked' /\ T19Comment'
    BY DEF T19Inv, T19Comment
  <2>2. T19Talk'
    BY DEF T19Inv, T19Talk, T19Answered, TK19!InOrder
  <2>3. Heard("policeOfficer", "chiefMedicalOfficer")'
    BY DEF T19Inv, Heard
  <2> QED BY <2>1, <2>2, <2>3 DEF T19Inv
<1>3. CASE TK19!Deliver /\ UNCHANGED TK19!ipc
  <2>1. Deliver /\ UNCHANGED <<pc, reaped, pipe, mem, sem, queue, shm, exists, run>>
    BY <1>3 DEF TK19!Deliver, Deliver, TK19!Alive, Alive, TK19!Gone, Gone
  <2>2. T19Forked' /\ T19Talk' /\ T19Comment'
    BY <2>1 DEF T19Inv, T19Comment, T19Talk, TK19!InOrder
  <2>3. Heard("policeOfficer", "chiefMedicalOfficer")'
    BY <2>1, HeardDelivered DEF T19Inv
  <2> QED BY <2>2, <2>3 DEF T19Inv
<1> QED BY <1>1, <1>2, <1>3, T19Police, T19Medical, T19Main DEF TK19!Next

LEMMA T19Invariant ==
  /\ TK19!Init => T19Inv
  /\ T19Inv /\ (TK19!Next \/ UNCHANGED vars) => T19Inv'
  /\ T19Inv => TK19!TypeOK /\ TK19!InOrder /\ TK19!NoUseAfterRemoval
<1>1. ASSUME T19Inv, UNCHANGED vars PROVE T19Inv'
  <2>1. UNCHANGED <<pc, pending, ready, reaped, pipe, mem, sem, queue, shm, exists, run>>
    BY <1>1 DEF vars, zhVars, ipc
  <2>2. T19Forked' /\ T19Talk' /\ T19Comment'
    BY <1>1, <2>1 DEF T19Inv, T19Forked, T19Comment, T19Talk, TK19!InOrder
  <2> QED BY <1>1, <2>1, <2>2 DEF T19Inv, Heard, Signalled
<1>2. ASSUME T19Inv PROVE TK19!TypeOK
  <2>1. \A d \in TK19!Pipes : Len(pipe[d]) \in 0..PipeCapacity
    <3>1. ASSUME NEW v PROVE Len(<<>>) \in 0..PipeCapacity /\ Len(<<v>>) \in 0..PipeCapacity
      BY PipeCapacityAssumption
    <3> QED BY <1>2, <3>1 DEF T19Inv, T19Talk, TK19!Pipes
  <2> QED BY <1>2, <2>1 DEF TK19!TypeOK, T19Inv, T19Forked, T19Talk, T19Comment, Heard
<1>3. T19Inv => TK19!NoUseAfterRemoval
  BY DEF T19Inv, T19Forked, T19Comment, TK19!NoUseAfterRemoval
<1>4. T19Inv => TK19!InOrder
  BY DEF T19Inv, T19Talk
<1> QED BY <1>1, <1>2, <1>3, <1>4, T19Initially, T19Inductive

(***************************************************************************)
(* The Teams meeting                                                       *)
(***************************************************************************)

TForked ==
  /\ DOMAIN pc = T!Processes /\ DOMAIN mem = T!Locals /\ DOMAIN pipe = T!Pipes
  /\ DOMAIN shm = {"text"}
  /\ pc["main"] = "off" => pc["teacher"] = "off" /\ pc["student"] = "off"
  /\ pc["main"] \in {"fork1", "fork2", "exited"} => pc["student"] = "off"
  /\ pc["main"] = "fork1" => pc["teacher"] = "off"

\* Main waits for both, and removes the semaphore and the queue after them.
TGone == {"semaphoreDelete", "msgctl", "done"}
TLeft ==
  /\ reaped \subseteq T!Children
  /\ pc["main"] # "off" => \A c \in reaped : pc[c] = "exited"
  /\ pc["main"] = "wait2" => reaped # {}
  /\ T!NoUseAfterRemoval

\* The semaphore says who is in the shared memory, at most one.
TLock ==
  /\ sem \in 0..1 /\ exists \subseteq {"sem", "queue"}
  /\ pc["main"] \notin TGone \cup {"off"} =>
       /\ "sem" \in exists
       /\ sem = 1 => pc["teacher"] \notin {"load", "unlock"} /\ pc["student"] \notin {"store", "unlock"}
       /\ sem = 0 => \/ /\ pc["teacher"] \in {"load", "unlock"}
                        /\ pc["student"] \notin {"store", "unlock"}
                     \/ /\ pc["teacher"] \notin {"load", "unlock"}
                        /\ pc["student"] \in {"store", "unlock"}

\* The question goes from the teacher to main and from main to the student.
TAsked == {"lock", "load", "unlock", "exited"}
TPassed == {"wait1", "wait2"} \cup TGone
TTalk ==
  /\ pipe["io_pipes"] \in {<<>>, <<"Melyik?">>} /\ pipe["io_pipes2"] \in {<<>>, <<"Melyik?">>}
  /\ mem["puffer"] \in {"unset", "Melyik?"} /\ mem["question"] \in {"unset", "Melyik?"}
  /\ pc["main"] # "off" /\ pc["teacher"] \notin TAsked => pipe["io_pipes"] = <<>>
  /\ pc["main"] \in TPassed \cup {"write"} => pc["teacher"] \in TAsked /\ mem["puffer"] = "Melyik?"
  /\ pc["main"] \notin TPassed \cup {"off"} => pipe["io_pipes2"] = <<>>
  /\ pc["student"] \in TAsked \cup {"store"} => pc["main"] \in TPassed /\ mem["question"] = "Melyik?"

\* The contents of the shared memory, and what the teacher has read there
TText ==
  /\ shm["text"] \in {"zero", "CFS"} /\ mem["text"] \in {"unset", "zero", "CFS"}
  /\ run \in 0..MaxRuns

TInv == TForked /\ TLeft /\ TLock /\ TTalk /\ TText /\ Heard("teacher", "student")

LEMMA TInitially == T!Init => TInv
<1> SUFFICES ASSUME T!Init PROVE TInv
  OBVIOUS
<1> USE DEF T!Init, T!IpcInit, T!Processes, T!Children, T!Pipes, T!Locals, T!NoLocals, T!NoMessage
<1>1. TForked /\ TLeft /\ TLock
  BY DEF TForked, TLock, TLeft, T!NoUseAfterRemoval
<1>2. TTalk
  BY DEF TTalk, TAsked, TPassed, TGone
<1>3. TText
  BY MaxRunsAssumption DEF TText
<1>4. Heard("teacher", "student")
  BY HeardInitially
<1> QED BY <1>1, <1>2, <1>3, <1>4 DEF TInv

LEMMA TStudent == ASSUME TInv, T!student PROVE TInv'
<1> USE DEF TForked, T!Processes, T!Children, T!Pipes, T!Locals, T!Step, T!ipc
<1>1. CASE T!Kill("student", "start", "msgsnd") /\ UNCHANGED T!ipc
  <2>1. TForked' /\ TLeft' /\ TLock' /\ TTalk' /\ TText'
    BY <1>1 DEF TInv, T!Kill, TLeft, TLock, TTalk, TText, TAsked, T!NoUseAfterRemoval
  <2>2. Heard("teacher", "student")'
    BY <1>1, HeardKill DEF TInv, T!Kill, T!Alive
  <2> QED BY <2>1, <2>2 DEF TInv
<1>2. CASE T!Read("student", "read", "lock", "io_pipes2", "question") /\ UNCHANGED T!ipc
  <2>1. /\ pc["student"] = "read" /\ pc' = [pc EXCEPT !["student"] = "lock"]
        /\ pipe["io_pipes2"] = <<"Melyik?">>
        /\ pipe' = [pipe EXCEPT !["io_pipes2"] = Tail(pipe["io_pipes2"])]
        /\ mem' = [mem EXCEPT !["question"] = Head(pipe["io_pipes2"])]
        /\ UNCHANGED <<pending, ready, reaped, sem, shm, exists, run>>
    BY <1>2 DEF TInv, T!Read, TTalk
  <2>2. mem' = [mem EXCEPT !["question"] = "Melyik?"] /\ pipe' = [pipe EXCEPT !["io_pipes2"] = <<>>]
    BY <2>1, ReadOne
  <2>3. TForked' /\ TLeft' /\ TLock' /\ TText'
    BY <2>1, <2>2 DEF TInv, TLeft, TLock, TText, T!NoUseAfterRemoval
  <2>4. TTalk'
    BY <2>1, <2>2 DEF TInv, TTalk, TAsked
  <2>5. Heard("teacher", "student")'
    BY <2>1, HeardKept DEF TInv
  <2> QED BY <2>3, <2>4, <2>5 DEF TInv
<1>3. CASE \/ T!MsgSnd("student", "msgsnd", "read", 5, "Jo napot.")
           \/ T!StoreShm("student", "store", "unlock", "text", "CFS")
  <2>1. /\ UNCHANGED <<pending, ready, reaped, pipe, mem, sem, exists, run>>
        /\ \/ /\ pc["student"] = "msgsnd" /\ pc' = [pc EXCEPT !["student"] = "read"]
              /\ UNCHANGED shm
           \/ /\ pc["student"] = "store" /\ pc' = [pc EXCEPT !["student"] = "unlock"]
              /\ shm' = [shm EXCEPT !["text"] = "CFS"]
    BY <1>3 DEF T!MsgSnd, T!StoreShm
  <2>2. TForked' /\ TLeft' /\ TLock' /\ TText'
    BY <2>1 DEF TInv, TLeft, TLock, TText, T!NoUseAfterRemoval
  <2>3. TTalk'
    BY <2>1 DEF TInv, TTalk, TAsked
  <2>4. Heard("teacher", "student")'
    BY <2>1, HeardKept DEF TInv
  <2> QED BY <2>2, <2>3, <2>4 DEF TInv
<1>4. CASE \/ T!SemOp("student", "lock", "store", -1)
           \/ T!SemOp("student", "unlock", "exited", 1)
  <2>1. /\ UNCHANGED <<pending, ready, reaped, pipe, mem, shm, exists, run>>
        /\ \/ /\ pc["student"] = "lock" /\ pc' = [pc EXCEPT !["student"] = "store"]
              /\ sem = 1 /\ sem' = 0
           \/ /\ pc["student"] = "unlock" /\ pc' = [pc EXCEPT !["student"] = "exited"]
              /\ sem = 0 /\ sem' = 1
    <3>1. "sem" \in exists /\ sem \in 0..1 /\ (pc["student"] = "unlock" => sem = 0)
      BY <1>4 DEF TInv, T!SemOp, TLock, TLeft, TGone, T!NoUseAfterRemoval
    <3> QED BY <1>4, <3>1 DEF T!SemOp
  <2>2. TForked' /\ TLeft' /\ TText'
    BY <2>1 DEF TInv, TLeft, TText, T!NoUseAfterRemoval
  <2>3. TLock'
    BY <2>1 DEF TInv, TLock, TLeft, TGone, T!NoUseAfterRemoval
  <2>4. TTalk'
    BY <2>1 DEF TInv, TTalk, TAsked
  <2>5. Heard("teacher", "student")'
    BY <2>1, HeardKept DEF TInv
  <2> QED BY <2>2, <2>3, <2>4, <2>5 DEF TInv
<1> QED BY <1>1, <1>2, <1>3, <1>4 DEF T!student

LEMMA TTeacher == ASSUME TInv, T!teacher PROVE TInv'
<1> USE DEF TForked, T!Processes, T!Children, T!Pipes, T!Locals, T!Step, T!ipc
<1>1. CASE T!Kill("teacher", "start", "msgrcv") /\ UNCHANGED T!ipc
  <2>1. TForked' /\ TLeft' /\ TLock' /\ TTalk' /\ TText'
    BY <1>1 DEF TInv, T!Kill, TLeft, TLock, TTalk, TText, TAsked, T!NoUseAfterRemoval
  <2>2. Heard("teacher", "student")'
    BY <1>1, HeardKill DEF TInv, T!Kill, T!Alive
  <2> QED BY <2>1, <2>2 DEF TInv
<1>2. CASE T!Write("teacher", "write", "lock", "io_pipes", "Melyik?") /\ UNCHANGED T!ipc
  <2>1. /\ pc["teacher"] = "write" /\ pc' = [pc EXCEPT !["teacher"] = "lock"]
        /\ pipe' = [pipe EXCEPT !["io_pipes"] = Append(pipe["io_pipes"], "Melyik?")]
        /\ UNCHANGED <<pending, ready, reaped, mem, sem, shm, exists, run>>
    BY <1>2 DEF T!Write
  <2>2. TForked' /\ TLeft' /\ TLock' /\ TText'
    BY <2>1 DEF TInv, TLeft, TLock, TText, T!NoUseAfterRemoval
  <2>3. TTalk'
    BY <2>1, WriteOne DEF TInv, TTalk, TAsked
  <2>4. Heard("teacher", "student")'
    BY <2>1, HeardKept DEF TInv
  <2> QED BY <2>2, <2>3, <2>4 DEF TInv
<1>3. CASE \/ T!MsgRcv("teacher", "msgrcv", "write", 5, "ms")
           \/ T!LoadShm("teacher", "load", "unlock", "text", "text")
  <2>1. /\ UNCHANGED <<pending, ready, reaped, pipe, sem, shm, exists, run>>
        /\ DOMAIN mem' = T!Locals /\ \A x \in {"puffer", "question"} : mem'[x] = mem[x]
        /\ \/ /\ pc["teacher"] = "msgrcv" /\ pc' = [pc EXCEPT !["teacher"] = "write"]
              /\ mem'["text"] = mem["text"]
           \/ /\ pc["teacher"] = "load" /\ pc' = [pc EXCEPT !["teacher"] = "unlock"]
              /\ mem'["text"] = shm["text"]
    <3>1. CASE T!MsgRcv("teacher", "msgrcv", "write", 5, "ms")
      BY <3>1 DEF TInv, T!MsgRcv
    <3>2. CASE T!LoadShm("teacher", "load", "unlock", "text", "text")
      BY <3>2 DEF TInv, T!LoadShm
    <3> QED BY <1>3, <3>1, <3>2
  <2>2. TForked' /\ TLeft' /\ TLock' /\ TText'
    BY <2>1 DEF TInv, TLeft, TLock, TText, T!NoUseAfterRemoval
  <2>3. TTalk'
    BY <2>1 DEF TInv, TTalk, TAsked
  <2>4. Heard("teacher", "student")'
    BY <2>1, HeardKept DEF TInv
  <2> QED BY <2>2, <2>3, <2>4 DEF TInv
<1>4. CASE \/ T!SemOp("teacher", "lock", "load", -1)
           \/ T!SemOp("teacher", "unlock", "exited", 1)
  <2>1. /\ UNCHANGED <<pending, ready, reaped, pipe, mem, shm, exists, run>>
        /\ \/ /\ pc["teacher"] = "lock" /\ pc' = [pc EXCEPT !["teacher"] = "load"]
              /\ sem = 1 /\ sem' = 0
           \/ /\ pc["teacher"] = "unlock" /\ pc' = [pc EXCEPT !["teacher"] = "exited"]
              /\ sem = 0 /\ sem' = 1
    <3>1. "sem" \in exists /\ sem \in 0..1 /\ (pc["teacher"] = "unlock" => sem = 0)
      BY <1>4 DEF TInv, T!SemOp, TLock, TLeft, TGone, T!NoUseAfterRemoval
    <3> QED BY <1>4, <3>1 DEF T!SemOp
  <2>2. TForked' /\ TLeft' /\ TText'
    BY <2>1 DEF TInv, TLeft, TText, T!NoUseAfterRemoval
  <2>3. TLock'
    BY <2>1 DEF TInv, TLock, TLeft, TGone, T!NoUseAfterRemoval
  <2>4. TTalk'
    BY <2>1 DEF TInv, TTalk, TAsked
  <2>5. Heard("teacher", "student")'
    BY <2>1, HeardKept DEF TInv
  <2> QED BY <2>2, <2>3, <2>4, <2>5 DEF TInv
<1> QED BY <1>1, <1>2, <1>3, <1>4 DEF T!teacher

LEMMA TMain == ASSUME TInv, T!Main PROVE TInv'
<1> USE DEF TForked, T!Processes, T!Children, T!Pipes, T!Locals, T!Step, T!ipc
<1>1. CASE T!Read("main", "read", "write", "io_pipes", "puffer") /\ UNCHANGED T!ipc
  <2>1. /\ pc["main"] = "read" /\ pc' = [pc EXCEPT !["main"] = "write"]
        /\ pipe["io_pipes"] = <<"Melyik?">>
        /\ pipe' = [pipe EXCEPT !["io_pipes"] = Tail(pipe["io_pipes"])]
        /\ mem' = [mem EXCEPT !["puffer"] = Head(pipe["io_pipes"])]
        /\ UNCHANGED <<pending, ready, reaped, sem, shm, exists, run>>
    BY <1>1 DEF TInv, T!Read, TTalk
  <2>2. mem' = [mem EXCEPT !["puffer"] = "Melyik?"] /\ pipe' = [pipe EXCEPT !["io_pipes"] = <<>>]
    BY <2>1, ReadOne
  <2>3. TForked' /\ TLeft' /\ TLock' /\ TText'
    BY <2>1, <2>2 DEF TInv, TLeft, TLock, TText, TGone, T!NoUseAfterRemoval
  <2>4. TTalk'
    BY <2>1, <2>2 DEF TInv, TTalk, TPassed, TGone
  <2>5. Heard("teacher", "student")'
    BY <2>1, HeardKept DEF TInv
  <2> QED BY <2>3, <2>4, <2>5 DEF TInv
<1>2. CASE T!Write("main", "write", "wait1", "io_pipes2", mem["puffer"]) /\ UNCHANGED T!ipc
  <2>1. /\ pc["main"] = "write" /\ pc' = [pc EXCEPT !["main"] = "wait1"]
        /\ pipe["io_pipes2"] = <<>> /\ mem["puffer"] = "Melyik?"
        /\ pipe' = [pipe EXCEPT !["io_pipes2"] = Append(pipe["io_pipes2"], mem["puffer"])]
        /\ UNCHANGED <<pending, ready, reaped, mem, sem, shm, exists, run>>
    BY <1>2 DEF TInv, T!Write, TTalk, TPassed, TGone
  <2>2. pipe' = [pipe EXCEPT !["io_pipes2"] = <<"Melyik?">>]
    BY <2>1, WriteOne
  <2>3. TForked' /\ TLeft' /\ TLock' /\ TText'
    BY <2>1 DEF TInv, TLeft, TLock, TText, TGone, T!NoUseAfterRemoval
  <2>4. TTalk'
    BY <2>1, <2>2 DEF TInv, TTalk, TPassed, TGone
  <2>5. Heard("teacher", "student")'
    BY <2>1, HeardKept DEF TInv
  <2> QED BY <2>3, <2>4, <2>5 DEF TInv
<1>3. CASE /\ \/ T!Fork("teacher", "fork1", "fork2")
              \/ T!Fork("student", "fork2", "ready1")
              \/ T!AwaitReady(1, "ready1", "ready2")
              \/ T!AwaitReady(2, "ready2", "read")
           /\ UNCHANGED T!ipc
  <2> USE DEF T!Fork, T!AwaitReady
  <2>1. /\ UNCHANGED <<pending, ready, reaped, pipe, mem, sem, shm, exists, run>>
        /\ pc["main"] \notin {"off", "write"} \cup TPassed
        /\ pc'["main"] \notin {"off", "write"} \cup TPassed
        /\ \A c \in T!Children : pc'[c] = pc[c] \/ (pc[c] = "off" /\ pc'[c] = "start")
    BY <1>3 DEF TInv, TPassed, TGone
  <2>2. TForked'
    BY <1>3, <2>1 DEF TInv
  <2>3. TLeft' /\ TLock' /\ TText'
    BY <2>1, <2>2 DEF TInv, TLeft, TLock, TText, TPassed, TGone, T!NoUseAfterRemoval
  <2>4. TTalk'
    BY <2>1 DEF TInv, TTalk, TAsked
  <2>5. Heard("teacher", "student")'
    BY <1>3, <2>1, HeardKept DEF TInv
  <2> QED BY <2>2, <2>3, <2>4, <2>5 DEF TInv
<1>4. CASE \/ T!Wait(T!Children, "wait1", "wait2") /\ UNCHANGED T!ipc
           \/ T!Wait(T!Children, "wait2", "semaphoreDelete") /\ UNCHANGED T!ipc
           \/ T!RemoveSem("semaphoreDelete", "msgctl")
           \/ T!RemoveQueue("msgctl")
  <2> USE DEF T!Wait, T!RemoveSem, T!RemoveQueue
  <2>1. /\ UNCHANGED <<pending, ready, pipe, mem, sem, shm, run>> /\ exists' \subseteq exists
        /\ pc["main"] \in TPassed /\ pc'["main"] \in TPassed \ {"wait1"}
        /\ \A c \in T!Children : pc'[c] = pc[c]
        /\ pc'["main"] = "wait2" => UNCHANGED exists /\ pc["main"] = "wait1"
    BY <1>4 DEF TInv, TPassed, TGone
  <2>2. TForked'
    BY <1>4, <2>1 DEF TInv, TPassed, TGone
  <2>3. TLeft'
    <3>1. CASE pc["main"] \in {"wait1", "wait2"}
      <4>1. PICK c \in T!Children \ reaped : pc[c] = "exited" /\ reaped' = reaped \cup {c}
        BY <1>4, <3>1
      <4>2. pc'["main"] = IF pc["main"] = "wait1" THEN "wait2" ELSE "semaphoreDelete"
        BY <1>4, <3>1 DEF TInv
      <4>3. reaped' \subseteq T!Children /\ reaped' # {} /\ \A d \in reaped' : pc'[d] = "exited"
        BY <2>1, <3>1, <4>1 DEF TInv, TLeft
      <4>4. pc["main"] = "wait2" => pc'["teacher"] = "exited" /\ pc'["student"] = "exited"
        <5>1. ASSUME pc["main"] = "wait2"
              PROVE  \E d \in T!Children : d # c /\ pc[d] = "exited"
          BY <4>1, <5>1 DEF TInv, TLeft
        <5> QED BY <2>1, <4>1, <5>1
      <4> QED BY <3>1, <4>2, <4>3, <4>4 DEF TLeft, T!NoUseAfterRemoval
    <3>2. CASE pc["main"] \notin {"wait1", "wait2"}
      <4>1. UNCHANGED reaped /\ pc["main"] \in TGone /\ pc'["main"] \in TGone
        BY <1>4, <3>2 DEF TInv, TGone
      <4> QED BY <2>1, <4>1 DEF TInv, TLeft, TGone, T!NoUseAfterRemoval
    <3> QED BY <3>1, <3>2
  <2>4. TLock' /\ TText'
    BY <2>1 DEF TInv, TLock, TText, TPassed, TGone
  <2>5. TTalk'
    BY <2>1 DEF TInv, TTalk, TPassed, TGone
  <2>6. Heard("teacher", "student")'
    BY <2>1, <2>2, HeardKept DEF TInv, TPassed, TGone
  <2> QED BY <2>2, <2>3, <2>4, <2>5, <2>6 DEF TInv
<1> QED BY <1>1, <1>2, <1>3, <1>4 DEF T!Main

LEMMA TInductive == ASSUME TInv, T!Next PROVE TInv'
<1> USE DEF TForked, T!Processes, T!Children, T!Pipes, T!Locals, T!ipc
<1>1. CASE T!Start(T!Processes, T!Pipes, T!NoLocals, T!semaphoreCreation(1))
  <2> USE <1>1 DEF T!Start
  <2>1. TForked' /\ TLeft' /\ TLock'
    BY DEF TInv, T!NoLocals, TLeft, TLock, TGone, T!semaphoreCreation, T!NoUseAfterRemoval
  <2>2. TTalk'
    BY DEF TInv, TTalk, TAsked, TPassed, TGone, T!NoLocals, T!NoMessage
  <2>3. TText'
    BY MaxRunsAssumption DEF TInv, TText, T!NoLocals
  <2>4. Heard("teacher", "student")'
    <3>1. pc'["teacher"] = "off" /\ pc'["student"] = "off"
      OBVIOUS
    <3> QED BY <3>1, HeardStarted
  <2> QED BY <2>1, <2>2, <2>3, <2>4 DEF TInv
<1>2. CASE T!Interrupt(T!Processes)
  <2> USE <1>2 DEF T!Interrupt
  <2>1. TForked' /\ TLeft' /\ TLock' /\ TText'
    BY DEF TInv, TLeft, TLock, TText, TGone, T!NoUseAfterRemoval
  <2>2. TTalk'
    BY DEF TInv, TTalk, TAsked, TPassed, TGone
  <2>3. Heard("teacher", "student")'
    BY DEF TInv, Heard
  <2> QED BY <2>1, <2>2, <2>3 DEF TInv
<1>3. CASE T!Deliver /\ UNCHANGED T!ipc
  <2>1. Deliver /\ UNCHANGED <<pc, reaped, pipe, mem, sem, shm, exists, run>>
    BY <1>3 DEF T!Deliver, Deliver, T!Alive, Alive, T!Gone, Gone
  <2>2. TForked' /\ TLeft' /\ TLock' /\ TTalk' /\ TText'
    BY <2>1 DEF TInv, TLeft, TLock, TText, TTalk, T!NoUseAfterRemoval
  <2>3. Heard("teacher", "student")'
    BY <2>1, HeardDelivered DEF TInv
  <2> QED BY <2>2, <2>3 DEF TInv
<1> QED BY <1>1, <1>2, <1>3, TStudent, TTeacher, TMain DEF T!Next

LEMMA TInvariant ==
  /\ T!Init => TInv
  /\ TInv /\ (T!Next \/ UNCHANGED vars) => TInv'
  /\ TInv => T!TypeOK /\ T!Exclusion /\ T!NoUseAfterRemoval /\ T!InOrder
<1>1. ASSUME TInv, UNCHANGED vars PROVE TInv'
  <2>1. UNCHANGED <<pc, pending, ready, reaped, pipe, mem, sem, queue, shm, exists, run>>
    BY <1>1 DEF vars, zhVars, ipc
  <2>2. TForked' /\ TLeft' /\ TLock' /\ TTalk' /\ TText'
    BY <1>1, <2>1 DEF TInv, TForked, TLeft, TLock, TText, TTalk, T!NoUseAfterRemoval
  <2> QED BY <1>1, <2>1, <2>2 DEF TInv, Heard, Signalled
<1>2. ASSUME TInv PROVE T!TypeOK
  <2>1. \A d \in T!Pipes : Len(pipe[d]) \in 0..PipeCapacity
    <3>1. ASSUME NEW v PROVE Len(<<>>) \in 0..PipeCapacity /\ Len(<<v>>) \in 0..PipeCapacity
      BY PipeCapacityAssumption
    <3> QED BY <1>2, <3>1 DEF TInv, TTalk, T!Pipes
  <2> QED BY <1>2, <2>1 DEF T!TypeOK, TInv, TForked, TLeft, TLock, TTalk, TText, Heard
<1>3. TInv => T!Exclusion /\ T!NoUseAfterRemoval
  BY DEF TInv, TForked, TLeft, TLock, TGone, T!Children, T!Exclusion, T!NoUseAfterRemoval
<1>4. TInv => T!InOrder
  BY DEF TInv, TTalk, TPassed, TAsked, TGone, T!InOrder
<1> QED BY <1>1, <1>2, <1>3, <1>4, TInitially, TInductive

(***************************************************************************)
(* The parachute jump                                                      *)
(***************************************************************************)

EForked ==
  /\ DOMAIN pc = E!Processes /\ DOMAIN pipe = E!Pipes /\ DOMAIN shm = {"point"}
  /\ DOMAIN mem = E!Locals \cup {"counter", "mainCounter"}
  /\ pc["main"] \in {"off", "fork1", "exited"} => pc["student"] = "off"

\* One child, one signal
EHeard ==
  /\ pending \in BOOLEAN /\ ready \in {0, 1}
  /\ pc["main"] # "off" /\ pc["student"] \in {"off", "start"} => ~pending /\ ready = 0
  /\ pc["main"] # "off" /\ pending => ready = 0

\* The instructor waits for the student before he removes anything, and the
\* semaphore says who is in the shared memory, at most one.
ELock ==
  /\ sem \in 0..1 /\ exists \subseteq {"sem", "queue"} /\ reaped \subseteq {"student"}
  /\ pc["main"] \in {"semaphoreDelete", "msgctl", "done"} => pc["student"] = "exited"
  /\ pc["main"] \notin {"msgctl", "done", "off"} =>
       /\ "sem" \in exists /\ "queue" \in exists
       /\ sem = 1 => pc["main"] \notin {"store", "unlock"} /\ pc["student"] \notin {"print", "unlock"}
       /\ sem = 0 => \/ /\ pc["main"] \in {"store", "unlock"}
                        /\ pc["student"] \notin {"print", "unlock"}
                     \/ /\ pc["main"] \notin {"store", "unlock"}
                        /\ pc["student"] \in {"print", "unlock"}

\* What the instructor has said is what the student has repeated and what is
\* in the pipe.
ESaid == mem["mainCounter"] + (IF pc["main"] = "counted" THEN 1 ELSE 0)
ERepeated == mem["counter"] + (IF pc["student"] = "counted" THEN 1 ELSE 0)
ECount ==
  /\ pipe["io_pipes"] \in Seq({"counting"}) /\ Len(pipe["io_pipes"]) <= PipeCapacity
  /\ mem["counter"] \in 1..4 /\ (pc["student"] = "counted" => mem["counter"] < 4)
  /\ mem["mainCounter"] \in 1..4 /\ (pc["main"] = "counted" => mem["mainCounter"] < 4)
  /\ pc["main"] # "off" => ERepeated + Len(pipe["io_pipes"]) = ESaid

\* Messages and points
EMessages ==
  [from : E!Processes, run : Nat, type : {5}, text : {"Mit csinaljak?", "Rantsd meg a zsinort!"}]
EData ==
  /\ queue \in Seq(EMessages) /\ \A m \in Range(queue) : m.from \in E!Processes
  /\ mem["ms"].from \in E!Processes \cup {"nobody"}
  /\ mem["msFromParent"].from \in E!Processes \cup {"nobody"}
  /\ run \in Nat /\ run <= MaxRuns + 1
  /\ shm["point"] \in Points \cup {"zero"}
  /\ pc["main"] \in {"lock", "store"} => mem["resultPoint"] \in Points

EInv == EForked /\ EHeard /\ ELock /\ ECount /\ EData

LEMMA EInitially == E!Init => EInv
<1> SUFFICES ASSUME E!Init PROVE EInv
  OBVIOUS
<1> USE DEF E!Init, E!IpcInit, E!Processes, E!Pipes, E!Locals, E!NoLocals, E!NoMessage
<1>1. EForked /\ ELock
  BY DEF EForked, ELock
<1>2. EHeard
  <2>1. pending \in BOOLEAN
    BY Zenon
  <2> QED BY <2>1 DEF EHeard
<1>3. ECount
  <2>1. mem["counter"] = 1 /\ mem["mainCounter"] = 1 /\ pipe["io_pipes"] = <<>> /\ pc["main"] = "off"
        /\ pc["student"] = "off"
    OBVIOUS
  <2> QED BY <2>1, PipeCapacityAssumption DEF ECount
<1>4. EData
  <2>1. mem["ms"].from = "nobody" /\ mem["msFromParent"].from = "nobody"
    OBVIOUS
  <2>2. queue \in Seq(EMessages) /\ Range(queue) = {}
    BY DEF Range
  <2> QED BY <2>1, <2>2, MaxRunsAssumption DEF EData
<1> QED BY <1>1, <1>2, <1>3, <1>4 DEF EInv

LEMMA EStudentCount == ASSUME EInv, E!studentCount PROVE EInv'
<1> USE DEF EForked, E!Processes, E!Pipes, E!Locals, E!Step, E!ipc
<1>1. CASE E!Kill("student", "start", "count") /\ UNCHANGED E!ipc
  <2>1. /\ pc["student"] = "start" /\ pc' = [pc EXCEPT !["student"] = "count"]
        /\ UNCHANGED <<ready, reaped, pipe, mem, sem, queue, shm, exists, run>>
    BY <1>1 DEF E!Kill
  <2>2. EForked' /\ ELock' /\ ECount' /\ EData'
    BY <2>1 DEF EInv, ELock, ECount, ESaid, ERepeated, EData
  <2>3. EHeard'
    <3>1. pending' \in BOOLEAN
      BY <1>1 DEF E!Kill, E!Alive
    <3> QED BY <2>1, <3>1 DEF EInv, EHeard
  <2> QED BY <2>2, <2>3 DEF EInv
<1>2. CASE mem["counter"] < 4 /\ E!Read("student", "count", "counted", "io_pipes", "sign")
           /\ UNCHANGED E!ipc
  <2>1. /\ pc["student"] = "count" /\ pc' = [pc EXCEPT !["student"] = "counted"]
        /\ pipe["io_pipes"] # <<>> /\ pipe' = [pipe EXCEPT !["io_pipes"] = Tail(pipe["io_pipes"])]
        /\ DOMAIN mem' = DOMAIN mem /\ \A x \in DOMAIN mem \ {"sign"} : mem'[x] = mem[x]
        /\ UNCHANGED <<pending, ready, reaped, sem, queue, shm, exists, run>>
    BY <1>2 DEF EInv, E!Read
  <2>2. EForked' /\ ELock' /\ EData' /\ EHeard'
    BY <2>1 DEF EInv, ELock, EData, EHeard
  <2>3. ECount'
    <3>1. ASSUME NEW s \in Seq({"counting"}), s # <<>>
          PROVE  Tail(s) \in Seq({"counting"}) /\ Len(Tail(s)) = Len(s) - 1
      BY <3>1
    <3>2. Tail(pipe["io_pipes"]) \in Seq({"counting"})
          /\ Len(Tail(pipe["io_pipes"])) = Len(pipe["io_pipes"]) - 1
      BY <2>1, <3>1 DEF EInv, ECount
    <3>3. Len(pipe["io_pipes"]) \in Nat /\ pipe'["io_pipes"] = Tail(pipe["io_pipes"])
      BY <2>1 DEF EInv, ECount
    <3>4. /\ mem'["counter"] = mem["counter"] /\ mem'["mainCounter"] = mem["mainCounter"]
          /\ pc'["student"] = "counted" /\ pc'["main"] = pc["main"]
      BY <2>1 DEF EInv
    <3> QED BY <1>2, <2>1, <3>2, <3>3, <3>4, PipeCapacityAssumption
            DEF EInv, ECount, ESaid, ERepeated
  <2> QED BY <2>2, <2>3 DEF EInv
<1>3. CASE \/ E!Assign("student", "counted", "count", "counter", mem["counter"] + 1) /\ UNCHANGED E!ipc
           \/ mem["counter"] = 4 /\ E!Jump("student", "count", "msgsnd") /\ UNCHANGED E!ipc
  <2>1. /\ UNCHANGED <<pending, ready, reaped, pipe, sem, queue, shm, exists, run>>
        /\ \/ /\ pc["student"] = "counted" /\ pc' = [pc EXCEPT !["student"] = "count"]
              /\ mem' = [mem EXCEPT !["counter"] = mem["counter"] + 1]
           \/ /\ pc["student"] = "count" /\ pc' = [pc EXCEPT !["student"] = "msgsnd"]
              /\ UNCHANGED mem
    BY <1>3 DEF E!Assign, E!Jump
  <2>2. EForked' /\ ELock' /\ EData' /\ EHeard'
    BY <2>1 DEF EInv, ELock, EData, EHeard
  <2>3. ECount'
    <3>1. Len(pipe["io_pipes"]) \in Nat
      BY DEF EInv, ECount
    <3> QED BY <2>1, <3>1 DEF EInv, ECount, ESaid, ERepeated
  <2> QED BY <2>2, <2>3 DEF EInv
<1> QED BY <1>1, <1>2, <1>3 DEF E!studentCount

LEMMA EStudentJump == ASSUME EInv, E!studentJump PROVE EInv'
<1> USE DEF EForked, E!Processes, E!Pipes, E!Locals, E!Step, E!ipc
<1>1. CASE E!MsgSnd("student", "msgsnd", "msgrcv", 5, "Mit csinaljak?")
  <2>1. /\ pc["student"] = "msgsnd" /\ pc' = [pc EXCEPT !["student"] = "msgrcv"]
        /\ UNCHANGED <<pending, ready, reaped, pipe, mem, sem, shm, exists, run>>
    BY <1>1 DEF E!MsgSnd
  <2>2. EForked' /\ EHeard' /\ ELock' /\ ECount'
    BY <2>1 DEF EInv, ELock, EHeard, ECount, ESaid, ERepeated
  <2>3. EData'
    <3> DEFINE m == [from |-> "student", run |-> run, type |-> 5, text |-> "Mit csinaljak?"]
    <3>1. queue' = Append(queue, m) \/ queue' = queue
      BY <1>1 DEF E!MsgSnd, E!Message
    <3>2. m \in EMessages /\ m.from = "student"
      BY DEF EInv, EData, EMessages
    <3> HIDE DEF m
    <3>3. queue' \in Seq(EMessages) /\ Range(queue') \subseteq Range(queue) \cup {m}
      BY <3>1, <3>2, Sends DEF EInv, EData
    <3> QED BY <2>1, <3>2, <3>3 DEF EInv, EData
  <2> QED BY <2>2, <2>3 DEF EInv
<1>2. CASE E!MsgRcv("student", "msgrcv", "lock", 5, "msFromParent")
  <2>1. /\ pc["student"] = "msgrcv" /\ pc' = [pc EXCEPT !["student"] = "lock"]
        /\ DOMAIN mem' = DOMAIN mem /\ \A x \in DOMAIN mem \ {"msFromParent"} : mem'[x] = mem[x]
        /\ UNCHANGED <<pending, ready, reaped, pipe, sem, shm, exists, run>>
    BY <1>2 DEF E!MsgRcv
  <2>2. EForked' /\ EHeard' /\ ELock' /\ ECount'
    BY <2>1 DEF EInv, ELock, EHeard, ECount, ESaid, ERepeated
  <2>3. EData'
    <3>1. MsgRcv("student", "msgrcv", "lock", 5, "msFromParent")
      BY <1>2 DEF E!MsgRcv, MsgRcv, Step
    <3>2. queue' \in Seq(EMessages) /\ Received("msFromParent", 5)
      BY <3>1, Receives DEF EInv, EData
    <3>3. /\ Range(queue') \subseteq Range(queue)
          /\ mem'["msFromParent"] \in Range(queue) \cup {mem["msFromParent"]}
      BY <2>1, <3>2 DEF Received, EInv
    <3> QED BY <2>1, <3>2, <3>3 DEF EInv, EData
  <2> QED BY <2>2, <2>3 DEF EInv
<1>3. CASE \/ E!SemOp("student", "lock", "print", -1)
           \/ E!SemOp("student", "unlock", "exited", 1)
  <2>1. /\ UNCHANGED <<pending, ready, reaped, pipe, mem, queue, shm, exists, run>>
        /\ \/ /\ pc["student"] = "lock" /\ pc' = [pc EXCEPT !["student"] = "print"]
              /\ sem = 1 /\ sem' = 0
           \/ /\ pc["student"] = "unlock" /\ pc' = [pc EXCEPT !["student"] = "exited"]
              /\ sem = 0 /\ sem' = 1
    <3>1. "sem" \in exists /\ sem \in 0..1 /\ (pc["student"] = "unlock" => sem = 0)
      BY <1>3 DEF EInv, E!SemOp, ELock
    <3> QED BY <1>3, <3>1 DEF E!SemOp
  <2>2. EForked' /\ EHeard' /\ ELock'
    BY <2>1 DEF EInv, ELock, EHeard
  <2>3. ECount' /\ EData'
    BY <2>1 DEF EInv, ECount, ESaid, ERepeated, EData
  <2> QED BY <2>2, <2>3 DEF EInv
<1>4. CASE E!LoadShm("student", "print", "unlock", "point", "printed")
  <2>1. /\ pc["student"] = "print" /\ pc' = [pc EXCEPT !["student"] = "unlock"]
        /\ DOMAIN mem' = DOMAIN mem /\ \A x \in DOMAIN mem \ {"printed"} : mem'[x] = mem[x]
        /\ UNCHANGED <<pending, ready, reaped, pipe, sem, queue, shm, exists, run>>
    BY <1>4 DEF E!LoadShm
  <2>2. EForked' /\ EHeard' /\ ELock'
    BY <2>1 DEF EInv, ELock, EHeard
  <2>3. ECount' /\ EData'
    BY <2>1 DEF EInv, ECount, ESaid, ERepeated, EData
  <2> QED BY <2>2, <2>3 DEF EInv
<1> QED BY <1>1, <1>2, <1>3, <1>4 DEF E!studentJump

LEMMA EMainCount == ASSUME EInv, E!mainCount PROVE EInv'
<1> USE DEF EForked, E!Processes, E!Pipes, E!Locals, E!Step, E!ipc
<1>1. CASE E!Fork("student", "fork1", "ready1") /\ UNCHANGED E!ipc
  <2>1. /\ pc["main"] = "fork1" /\ pc["student"] = "off"
        /\ \/ pc' = [pc EXCEPT !["main"] = "ready1", !["student"] = "start"]
           \/ pc' = [pc EXCEPT !["main"] = "exited"]
        /\ UNCHANGED <<pending, ready, reaped, pipe, mem, sem, queue, shm, exists, run>>
    BY <1>1 DEF E!Fork, EInv
  <2>2. EForked' /\ EHeard' /\ ELock'
    BY <2>1 DEF EInv, ELock, EHeard
  <2>3. ECount' /\ EData'
    BY <2>1 DEF EInv, ECount, ESaid, ERepeated, EData
  <2> QED BY <2>2, <2>3 DEF EInv
<1>2. CASE E!AwaitReady(1, "ready1", "count") /\ UNCHANGED E!ipc
  <2>1. /\ pc["main"] = "ready1" /\ pc' = [pc EXCEPT !["main"] = "count"]
        /\ UNCHANGED <<pending, ready, reaped, pipe, mem, sem, queue, shm, exists, run>>
    BY <1>2 DEF E!AwaitReady
  <2>2. EForked' /\ EHeard' /\ ELock'
    BY <2>1 DEF EInv, ELock, EHeard
  <2>3. ECount' /\ EData'
    BY <2>1 DEF EInv, ECount, ESaid, ERepeated, EData
  <2> QED BY <2>2, <2>3 DEF EInv
<1>3. CASE mem["mainCounter"] < 4 /\ E!Write("main", "count", "counted", "io_pipes", "counting")
           /\ UNCHANGED E!ipc
  <2>1. /\ pc["main"] = "count" /\ pc' = [pc EXCEPT !["main"] = "counted"]
        /\ Len(pipe["io_pipes"]) < PipeCapacity
        /\ pipe' = [pipe EXCEPT !["io_pipes"] = Append(pipe["io_pipes"], "counting")]
        /\ UNCHANGED <<pending, ready, reaped, mem, sem, queue, shm, exists, run>>
    BY <1>3 DEF EInv, E!Write
  <2>2. EForked' /\ ELock' /\ EData' /\ EHeard'
    BY <2>1 DEF EInv, ELock, EData, EHeard
  <2>3. ECount'
    <3>1. ASSUME NEW s \in Seq({"counting"}), Len(s) < PipeCapacity
          PROVE  /\ Append(s, "counting") \in Seq({"counting"})
                 /\ Len(Append(s, "counting")) = Len(s) + 1
                 /\ Len(Append(s, "counting")) <= PipeCapacity
      BY <3>1, PipeCapacityAssumption
    <3>2. /\ pipe'["io_pipes"] \in Seq({"counting"})
          /\ Len(pipe'["io_pipes"]) = Len(pipe["io_pipes"]) + 1
          /\ Len(pipe'["io_pipes"]) <= PipeCapacity
      BY <2>1, <3>1 DEF EInv, ECount
    <3>3. Len(pipe["io_pipes"]) \in Nat
      BY DEF EInv, ECount
    <3>4. pc'["student"] = pc["student"] /\ pc'["main"] = "counted"
      BY <2>1 DEF EInv
    <3> QED BY <1>3, <2>1, <3>2, <3>3, <3>4 DEF EInv, ECount, ESaid, ERepeated
  <2> QED BY <2>2, <2>3 DEF EInv
<1>4. CASE \/ E!Assign("main", "counted", "count", "mainCounter", mem["mainCounter"] + 1)
              /\ UNCHANGED E!ipc
           \/ mem["mainCounter"] = 4 /\ E!Jump("main", "count", "msgrcv") /\ UNCHANGED E!ipc
  <2>1. /\ UNCHANGED <<pending, ready, reaped, pipe, sem, queue, shm, exists, run>>
        /\ \/ /\ pc["main"] = "counted" /\ pc' = [pc EXCEPT !["main"] = "count"]
              /\ mem' = [mem EXCEPT !["mainCounter"] = mem["mainCounter"] + 1]
           \/ /\ pc["main"] = "count" /\ pc' = [pc EXCEPT !["main"] = "msgrcv"]
              /\ UNCHANGED mem
    BY <1>4 DEF E!Assign, E!Jump
  <2>2. EForked' /\ ELock' /\ EData' /\ EHeard'
    BY <2>1 DEF EInv, ELock, EData, EHeard
  <2>3. ECount'
    <3>1. Len(pipe["io_pipes"]) \in Nat
      BY DEF EInv, ECount
    <3> QED BY <2>1, <3>1 DEF EInv, ECount, ESaid, ERepeated
  <2> QED BY <2>2, <2>3 DEF EInv
<1> QED BY <1>1, <1>2, <1>3, <1>4 DEF E!mainCount

LEMMA EMainPoints == ASSUME EInv, E!mainPoints PROVE EInv'
<1> USE DEF EForked, E!Processes, E!Pipes, E!Locals, E!Step, E!ipc
<1>1. CASE E!MsgRcv("main", "msgrcv", "msgsnd", 5, "ms")
  <2>1. /\ pc["main"] = "msgrcv" /\ pc' = [pc EXCEPT !["main"] = "msgsnd"]
        /\ DOMAIN mem' = DOMAIN mem /\ \A x \in DOMAIN mem \ {"ms"} : mem'[x] = mem[x]
        /\ UNCHANGED <<pending, ready, reaped, pipe, sem, shm, exists, run>>
    BY <1>1 DEF E!MsgRcv
  <2>2. EForked' /\ EHeard' /\ ELock' /\ ECount'
    BY <2>1 DEF EInv, ELock, EHeard, ECount, ESaid, ERepeated
  <2>3. EData'
    <3>1. MsgRcv("main", "msgrcv", "msgsnd", 5, "ms")
      BY <1>1 DEF E!MsgRcv, MsgRcv, Step
    <3>2. queue' \in Seq(EMessages) /\ Received("ms", 5)
      BY <3>1, Receives DEF EInv, EData
    <3>3. /\ Range(queue') \subseteq Range(queue)
          /\ mem'["ms"] \in Range(queue) \cup {mem["ms"]}
      BY <2>1, <3>2 DEF Received, EInv
    <3> QED BY <2>1, <3>2, <3>3 DEF EInv, EData
  <2> QED BY <2>2, <2>3 DEF EInv
<1>2. CASE E!MsgSnd("main", "msgsnd", "rand_point", 5, "Rantsd meg a zsinort!")
  <2>1. /\ pc["main"] = "msgsnd" /\ pc' = [pc EXCEPT !["main"] = "rand_point"]
        /\ UNCHANGED <<pending, ready, reaped, pipe, mem, sem, shm, exists, run>>
    BY <1>2 DEF E!MsgSnd
  <2>2. EForked' /\ EHeard' /\ ELock' /\ ECount'
    BY <2>1 DEF EInv, ELock, EHeard, ECount, ESaid, ERepeated
  <2>3. EData'
    <3> DEFINE m == [from |-> "main", run |-> run, type |-> 5, text |-> "Rantsd meg a zsinort!"]
    <3>1. queue' = Append(queue, m) \/ queue' = queue
      BY <1>2 DEF E!MsgSnd, E!Message
    <3>2. m \in EMessages /\ m.from = "main"
      BY DEF EInv, EData, EMessages
    <3> HIDE DEF m
    <3>3. queue' \in Seq(EMessages) /\ Range(queue') \subseteq Range(queue) \cup {m}
      BY <3>1, <3>2, Sends DEF EInv, EData
    <3> QED BY <2>1, <3>2, <3>3 DEF EInv, EData
  <2> QED BY <2>2, <2>3 DEF EInv
<1>3. CASE \E p \in Points : E!Assign("main", "rand_point", "lock", "resultPoint", p)
           /\ UNCHANGED E!ipc
  <2>1. PICK p \in Points :
          /\ pc["main"] = "rand_point" /\ pc' = [pc EXCEPT !["main"] = "lock"]
          /\ mem' = [mem EXCEPT !["resultPoint"] = p]
          /\ UNCHANGED <<pending, ready, reaped, pipe, sem, queue, shm, exists, run>>
    BY <1>3 DEF E!Assign
  <2>2. EForked' /\ EHeard' /\ ELock'
    BY <2>1 DEF EInv, ELock, EHeard
  <2>3. ECount' /\ EData'
    BY <2>1 DEF EInv, ECount, ESaid, ERepeated, EData
  <2> QED BY <2>2, <2>3 DEF EInv
<1>4. CASE E!SemOp("main", "lock", "store", -1) \/ E!SemOp("main", "unlock", "wait", 1)
  <2>1. /\ UNCHANGED <<pending, ready, reaped, pipe, mem, queue, shm, exists, run>>
        /\ \/ /\ pc["main"] = "lock" /\ pc' = [pc EXCEPT !["main"] = "store"]
              /\ sem = 1 /\ sem' = 0
           \/ /\ pc["main"] = "unlock" /\ pc' = [pc EXCEPT !["main"] = "wait"]
              /\ sem = 0 /\ sem' = 1
    <3>1. "sem" \in exists /\ sem \in 0..1 /\ (pc["main"] = "unlock" => sem = 0)
      BY <1>4 DEF EInv, E!SemOp, ELock
    <3> QED BY <1>4, <3>1 DEF E!SemOp
  <2>2. EForked' /\ EHeard' /\ ELock'
    BY <2>1 DEF EInv, ELock, EHeard
  <2>3. ECount' /\ EData'
    BY <2>1 DEF EInv, ECount, ESaid, ERepeated, EData
  <2> QED BY <2>2, <2>3 DEF EInv
<1>5. CASE E!StoreShm("main", "store", "unlock", "point", mem["resultPoint"])
  <2>1. /\ pc["main"] = "store" /\ pc' = [pc EXCEPT !["main"] = "unlock"]
        /\ shm' = [shm EXCEPT !["point"] = mem["resultPoint"]]
        /\ UNCHANGED <<pending, ready, reaped, pipe, mem, sem, queue, exists, run>>
    BY <1>5 DEF E!StoreShm
  <2>2. EForked' /\ EHeard' /\ ELock'
    BY <2>1 DEF EInv, ELock, EHeard
  <2>3. ECount' /\ EData'
    BY <2>1 DEF EInv, ECount, ESaid, ERepeated, EData
  <2> QED BY <2>2, <2>3 DEF EInv
<1> QED BY <1>1, <1>2, <1>3, <1>4, <1>5 DEF E!mainPoints

LEMMA EMainEnd == ASSUME EInv, E!mainEnd PROVE EInv'
<1> USE DEF EForked, E!Processes, E!Pipes, E!Locals, E!Step, E!ipc
<1>1. CASE E!Wait({"student"}, "wait", "semaphoreDelete") /\ UNCHANGED E!ipc
  <2>1. /\ pc["main"] = "wait" /\ pc["student"] = "exited"
        /\ pc' = [pc EXCEPT !["main"] = "semaphoreDelete"] /\ reaped' \subseteq {"student"}
        /\ UNCHANGED <<pending, ready, pipe, mem, sem, queue, shm, exists, run>>
    BY <1>1 DEF E!Wait, EInv, ELock
  <2>2. EForked' /\ EHeard' /\ ELock'
    BY <2>1 DEF EInv, ELock, EHeard
  <2>3. ECount' /\ EData'
    BY <2>1 DEF EInv, ECount, ESaid, ERepeated, EData
  <2> QED BY <2>2, <2>3 DEF EInv
<1>2. CASE E!RemoveSem("semaphoreDelete", "msgctl")
  <2>1. /\ pc["main"] = "semaphoreDelete" /\ pc' = [pc EXCEPT !["main"] = "msgctl"]
        /\ exists' = exists \ {"sem"}
        /\ UNCHANGED <<pending, ready, reaped, pipe, mem, sem, queue, shm, run>>
    BY <1>2 DEF E!RemoveSem
  <2>2. EForked' /\ EHeard' /\ ELock'
    BY <2>1 DEF EInv, ELock, EHeard
  <2>3. ECount' /\ EData'
    BY <2>1 DEF EInv, ECount, ESaid, ERepeated, EData
  <2> QED BY <2>2, <2>3 DEF EInv
<1>3. CASE E!RemoveQueue("msgctl")
  <2>1. /\ pc["main"] = "msgctl" /\ pc' = [pc EXCEPT !["main"] = "done"]
        /\ exists' = exists \ {"queue"} /\ queue' = <<>>
        /\ UNCHANGED <<pending, ready, reaped, pipe, mem, sem, shm, run>>
    BY <1>3 DEF E!RemoveQueue
  <2>2. EForked' /\ EHeard' /\ ELock'
    BY <2>1 DEF EInv, ELock, EHeard
  <2>3. ECount'
    BY <2>1 DEF EInv, ECount, ESaid, ERepeated
  <2>4. queue' \in Seq(EMessages) /\ Range(queue') = {}
    BY <2>1 DEF Range
  <2>5. EData'
    BY <2>1, <2>4 DEF EInv, EData
  <2> QED BY <2>2, <2>3, <2>5 DEF EInv
<1> QED BY <1>1, <1>2, <1>3 DEF E!mainEnd

LEMMA EInductive == ASSUME EInv, E!Next PROVE EInv'
<1> USE DEF EForked, E!Processes, E!Pipes, E!Locals, E!NoLocals, E!Step, E!ipc
<1>1. CASE E!Start(E!Processes, E!Pipes, E!NoLocals, E!semaphoreCreation(1))
  <2>1. /\ pc' = [p \in E!Processes |-> IF p = "main" THEN "fork1" ELSE "off"]
        /\ pending' = FALSE /\ ready' = 0 /\ reaped' = {} /\ run < MaxRuns + 1 /\ run' = run + 1
        /\ pipe' = [d \in E!Pipes |-> <<>>] /\ mem' = E!NoLocals
        /\ sem' = 1 /\ exists' = exists \cup {"sem", "queue"} /\ UNCHANGED <<queue, shm>>
    BY <1>1 DEF E!Start, E!semaphoreCreation
  <2>2. EForked' /\ ELock'
    BY <2>1 DEF EInv, ELock
  <2>3. EHeard'
    <3>1. pending' \in BOOLEAN
      BY <2>1, Zenon
    <3> QED BY <2>1, <3>1 DEF EHeard
  <2>4. ECount'
    <3>1. mem'["counter"] = 1 /\ mem'["mainCounter"] = 1 /\ pipe'["io_pipes"] = <<>>
          /\ pc'["main"] = "fork1" /\ pc'["student"] = "off"
      BY <2>1
    <3> QED BY <3>1, PipeCapacityAssumption DEF ECount, ESaid, ERepeated
  <2>5. EData'
    <3>1. mem'["ms"].from = "nobody" /\ mem'["msFromParent"].from = "nobody" /\ pc'["main"] = "fork1"
      BY <2>1 DEF E!NoMessage
    <3>2. run' \in Nat /\ run' <= MaxRuns + 1
      BY <2>1, MaxRunsAssumption DEF EInv, EData
    <3> QED BY <2>1, <3>1, <3>2 DEF EInv, EData
  <2> QED BY <2>2, <2>3, <2>4, <2>5 DEF EInv
<1>2. CASE E!Interrupt(E!Processes)
  <2>1. /\ pc' = [p \in E!Processes |-> "off"]
        /\ UNCHANGED <<pending, ready, reaped, pipe, mem, sem, queue, shm, exists, run>>
    BY <1>2 DEF E!Interrupt
  <2>2. EForked' /\ EHeard' /\ ELock'
    BY <2>1 DEF EInv, ELock, EHeard
  <2>3. ECount' /\ EData'
    BY <2>1 DEF EInv, ECount, ESaid, ERepeated, EData
  <2> QED BY <2>2, <2>3 DEF EInv
<1>3. CASE E!Main
  BY <1>3, EMainCount, EMainPoints, EMainEnd DEF E!Main
<1>4. CASE E!student
  BY <1>4, EStudentCount, EStudentJump DEF E!student
<1>5. CASE E!Deliver /\ UNCHANGED E!ipc
  <2>1. /\ pending /\ pending' = FALSE /\ ready' = ready + 1 /\ pc["main"] # "off"
        /\ UNCHANGED <<pc, reaped, pipe, mem, sem, queue, shm, exists, run>>
    BY <1>5 DEF E!Deliver, E!Alive, E!Gone
  <2>2. EForked' /\ ELock'
    BY <2>1 DEF EInv, ELock
  <2>3. EHeard'
    <3>1. pending' \in BOOLEAN
      BY <2>1, Zenon
    <3> QED BY <2>1, <3>1 DEF EInv, EHeard
  <2>4. ECount' /\ EData'
    BY <2>1 DEF EInv, ECount, ESaid, ERepeated, EData
  <2> QED BY <2>2, <2>3, <2>4 DEF EInv
<1> QED BY <1>1, <1>2, <1>3, <1>4, <1>5 DEF E!Next

LEMMA EInvariant ==
  /\ E!Init => EInv
  /\ EInv /\ (E!Next \/ UNCHANGED vars) => EInv'
  /\ EInv => E!TypeOK /\ E!Exclusion /\ E!NeverAhead /\ E!NoUseAfterRemoval
<1>1. ASSUME EInv, UNCHANGED vars PROVE EInv'
  <2>1. UNCHANGED <<pc, pending, ready, reaped, pipe, mem, sem, queue, shm, exists, run>>
    BY <1>1 DEF vars, zhVars, ipc
  <2>2. EForked' /\ EHeard' /\ ELock' /\ ECount' /\ EData'
    BY <1>1, <2>1 DEF EInv, EForked, EHeard, ELock, ECount, ESaid, ERepeated, EData
  <2> QED BY <2>2 DEF EInv
<1>2. ASSUME EInv PROVE E!Exclusion /\ E!NoUseAfterRemoval
  <2>1. E!Exclusion
    BY <1>2 DEF EInv, ELock, E!Exclusion
  <2>2. ASSUME pc["student"] \in {"msgsnd", "msgrcv", "lock", "print", "unlock"}
        PROVE  exists = {"sem", "queue"}
    <3>1. pc["main"] \notin {"msgctl", "done", "off"}
      BY <1>2, <2>2 DEF EInv, EForked, ELock
    <3> QED BY <1>2, <3>1 DEF EInv, ELock
  <2> QED BY <2>1, <2>2 DEF E!NoUseAfterRemoval
<1>3. EInv => Len(pipe["io_pipes"]) \in 0..PipeCapacity
  <2>1. ASSUME NEW s \in Seq({"counting"}), Len(s) <= PipeCapacity PROVE Len(s) \in 0..PipeCapacity
    BY <2>1, PipeCapacityAssumption
  <2> QED BY <2>1 DEF EInv, ECount
<1>4. ASSUME EInv PROVE E!NeverAhead
  <2>1. Len(pipe["io_pipes"]) >= 0 /\ Len(pipe["io_pipes"]) \in Int
    BY <1>3, <1>4, PipeCapacityAssumption
  <2>2. CASE pc["main"] # "off"
    <3>1. ERepeated + Len(pipe["io_pipes"]) = ESaid /\ mem["counter"] \in Int /\ mem["mainCounter"] \in Int
      BY <1>4, <2>2 DEF EInv, ECount
    <3>2. mem["counter"] <= ERepeated /\ ERepeated \in Int /\ ESaid \in Int
      BY <3>1 DEF ERepeated, ESaid
    <3>3. mem["counter"] <= ESaid
      BY <2>1, <3>1, <3>2
    <3> QED BY <3>3 DEF ESaid, E!NeverAhead
  <2>3. CASE pc["main"] = "off"
    BY <2>3 DEF E!NeverAhead, E!Alive, E!Gone
  <2> QED BY <2>2, <2>3
<1>5. ASSUME EInv PROVE E!TypeOK
  <2>1. /\ DOMAIN pc = E!Processes /\ ready \in 0..1 /\ reaped \subseteq {"student"}
        /\ sem \in 0..1 /\ exists \subseteq {"sem", "queue"}
    BY <1>5 DEF EInv, EForked, EHeard, ELock
  <2>2. mem["counter"] \in 1..4 /\ mem["mainCounter"] \in 1..4
    BY <1>5 DEF EInv, ECount
  <2>3. run \in 0..(MaxRuns + 1)
    BY <1>5, MaxRunsAssumption DEF EInv, EData
  <2>4. \A m \in {mem["ms"], mem["msFromParent"]} : m.from \in E!Processes \cup {"nobody"}
    BY <1>5 DEF EInv, EData
  <2>5. pending \in BOOLEAN /\ shm["point"] \in Points \cup {"zero"}
    BY <1>5, Zenon DEF EInv, EHeard, EData
  <2> QED BY <1>3, <1>5, <2>1, <2>2, <2>3, <2>4, <2>5, Zenon DEF E!TypeOK
<1> QED BY <1>1, <1>2, <1>3, <1>4, <1>5, EInitially, EInductive

(***************************************************************************)
(* Text under a semaphore, with the length of the text (7. Gyak)           *)
(***************************************************************************)

\* The child is there from its fork to its exit, and removal comes after it.
S2Forked ==
  /\ DOMAIN pc = S2!Processes /\ DOMAIN shm = {"text", "textSize"}
  /\ DOMAIN mem = {"buffer", "typed", "read", "previous"}
  /\ pc["main"] \in {"off", "fork1", "exited"} => pc["child"] = "off"
  /\ pc["main"] \in {"szemafor_torles", "shmctl", "done"} => pc["child"] = "exited"
  /\ run \in Nat /\ run <= MaxRuns /\ reaped \subseteq {"child"}

\* The semaphore says who is in the shared memory, at most one.
S2Parent == {"strcpy", "length", "up"}
S2Child == {"print", "strlen", "up"}
S2Lock ==
  /\ sem \in {0, 1} /\ exists \subseteq {"sem", "queue"}
  /\ pc["main"] \notin {"shmctl", "done", "off"} =>
       /\ "sem" \in exists
       /\ sem = 1 => pc["main"] \notin S2Parent /\ pc["child"] \notin S2Child
       /\ sem = 0 => \/ pc["main"] \in S2Parent /\ pc["child"] \notin S2Child
                     \/ pc["main"] \notin S2Parent /\ pc["child"] \in S2Child

\* Whoever is inside finds there what it has put there or read.
S2Text ==
  /\ S2!Exclusion
  /\ shm["text"] \in S2!Texts /\ shm["textSize"] \in S2!Texts
  /\ mem["typed"] \in 0..(MaxLines + 1) /\ mem["buffer"] \in S2!Texts \cup {"unset"}
  /\ pc["main"] \in {"down", "strcpy"} => mem["buffer"] \in S2!Texts
  /\ pc["main"] \in {"fork1", "fgets"} => mem["typed"] <= MaxLines
  /\ pc["main"] \in {"down", "strcpy", "length", "up"} /\ mem["buffer"] # "exit"
       => mem["typed"] <= MaxLines
  /\ pc["child"] = "exited" => mem["read"] = "exit"

S2Inv == S2Forked /\ S2Lock /\ S2Text

LEMMA S2Initially == ASSUME S2!Init PROVE S2Inv
<1> USE DEF S2!Init, S2!IpcInit, S2!Processes, S2!NoLocals, S2!Zero
<1>1. S2Forked /\ S2Lock
  BY MaxRunsAssumption DEF S2Forked, S2Lock
<1>2. S2Text
  <2>1. S2!Exclusion
    BY DEF S2!Exclusion
  <2>2. 0 \in 0..(MaxLines + 1) /\ 0 <= MaxLines
    BY MaxLinesAssumption
  <2> QED BY <2>1, <2>2 DEF S2Text, S2!Texts
<1> QED BY <1>1, <1>2 DEF S2Inv

LEMMA S2ParentSteps == ASSUME S2Inv, S2!parent PROVE S2Inv'
<1> USE DEF S2Forked, S2!Processes, S2!Step, S2!ipc
<1>1. CASE S2!fgets
  <2>1. PICK line \in Lines \cup {"exit"} :
          /\ mem["typed"] < MaxLines \/ line = "exit"
          /\ mem' = [mem EXCEPT !["buffer"] = line, !["typed"] = mem["typed"] + 1]
          /\ pc["main"] = "fgets" /\ pc' = [pc EXCEPT !["main"] = "down"]
          /\ UNCHANGED <<pending, ready, reaped, pipe, sem, queue, shm, exists, run>>
    BY <1>1 DEF S2!fgets, S2Inv
  <2>2. S2Forked' /\ S2Lock'
    BY <2>1 DEF S2Inv, S2Lock, S2Parent, S2Child
  <2>3. S2!Exclusion'
    BY <2>1 DEF S2Inv, S2Text, S2!Exclusion
  <2>4. S2Text'
    BY <2>1, <2>3, MaxLinesAssumption DEF S2Inv, S2Text, S2!Texts
  <2> QED BY <2>2, <2>4 DEF S2Inv
<1>2. CASE \/ S2!SemOp("main", "down", "strcpy", -1)
           \/ S2!SemOp("main", "up", IF mem["buffer"] = "exit" THEN "wait" ELSE "fgets", 1)
  <2>1. /\ UNCHANGED <<pending, ready, reaped, pipe, mem, queue, shm, exists, run>>
        /\ \/ /\ pc["main"] = "down" /\ pc' = [pc EXCEPT !["main"] = "strcpy"]
              /\ sem = 1 /\ sem' = 0
           \/ /\ pc["main"] = "up" /\ mem["buffer"] = "exit" /\ pc' = [pc EXCEPT !["main"] = "wait"]
              /\ sem = 0 /\ sem' = 1
           \/ /\ pc["main"] = "up" /\ mem["buffer"] # "exit" /\ pc' = [pc EXCEPT !["main"] = "fgets"]
              /\ sem = 0 /\ sem' = 1
    <3>1. "sem" \in exists /\ sem \in {0, 1} /\ (pc["main"] = "up" => sem = 0)
      BY <1>2 DEF S2Inv, S2!SemOp, S2Lock, S2Parent
    <3> QED BY <1>2, <3>1 DEF S2!SemOp
  <2>2. S2Forked' /\ S2Lock'
    BY <2>1 DEF S2Inv, S2Lock, S2Parent, S2Child
  <2>3. S2!Exclusion'
    BY <2>1 DEF S2Inv, S2Text, S2!Exclusion
  <2>4. S2Text'
    BY <2>1, <2>3 DEF S2Inv, S2Text, S2!Texts
  <2> QED BY <2>2, <2>4 DEF S2Inv
<1>3. CASE S2!StoreShm("main", "strcpy", "length", "text", mem["buffer"])
  <2>1. /\ pc["main"] = "strcpy" /\ pc' = [pc EXCEPT !["main"] = "length"]
        /\ shm' = [shm EXCEPT !["text"] = mem["buffer"]]
        /\ UNCHANGED <<pending, ready, reaped, pipe, mem, sem, queue, exists, run>>
    BY <1>3 DEF S2!StoreShm
  <2>2. S2Forked' /\ S2Lock'
    BY <2>1 DEF S2Inv, S2Lock, S2Parent, S2Child
  <2>3. pc["child"] \notin S2Child
    BY <2>1 DEF S2Inv, S2Lock, S2Parent, S2Child
  <2>4. S2!Exclusion'
    BY <2>1, <2>3 DEF S2Inv, S2Text, S2!Exclusion, S2Child
  <2>5. S2Text'
    BY <2>1, <2>4 DEF S2Inv, S2Text, S2!Texts
  <2> QED BY <2>2, <2>5 DEF S2Inv
<1>4. CASE S2!LoadShm("main", "length", "up", "textSize", "previous")
  <2>1. /\ pc["main"] = "length" /\ pc' = [pc EXCEPT !["main"] = "up"]
        /\ mem' = [mem EXCEPT !["previous"] = shm["textSize"]]
        /\ UNCHANGED <<pending, ready, reaped, pipe, sem, queue, shm, exists, run>>
    BY <1>4 DEF S2!LoadShm
  <2>2. S2Forked' /\ S2Lock'
    BY <2>1 DEF S2Inv, S2Lock, S2Parent, S2Child
  <2>3. S2!Exclusion'
    BY <2>1 DEF S2Inv, S2Text, S2!Exclusion
  <2>4. S2Text'
    BY <2>1, <2>3 DEF S2Inv, S2Text, S2!Texts
  <2> QED BY <2>2, <2>4 DEF S2Inv
<1> QED BY <1>1, <1>2, <1>3, <1>4 DEF S2!parent

LEMMA S2ChildSteps == ASSUME S2Inv, S2!child PROVE S2Inv'
<1> USE DEF S2Forked, S2!Processes, S2!Step, S2!ipc
<1>1. CASE \/ S2!SemOp("child", "start", "print", -1)
           \/ S2!SemOp("child", "up", IF mem["read"] = "exit" THEN "exited" ELSE "start", 1)
  <2>1. /\ UNCHANGED <<pending, ready, reaped, pipe, mem, queue, shm, exists, run>>
        /\ \/ /\ pc["child"] = "start" /\ pc' = [pc EXCEPT !["child"] = "print"]
              /\ sem = 1 /\ sem' = 0
           \/ /\ pc["child"] = "up" /\ mem["read"] = "exit" /\ pc' = [pc EXCEPT !["child"] = "exited"]
              /\ sem = 0 /\ sem' = 1
           \/ /\ pc["child"] = "up" /\ mem["read"] # "exit" /\ pc' = [pc EXCEPT !["child"] = "start"]
              /\ sem = 0 /\ sem' = 1
    <3>1. "sem" \in exists /\ sem \in {0, 1} /\ (pc["child"] = "up" => sem = 0)
      BY <1>1 DEF S2Inv, S2!SemOp, S2Lock, S2Child
    <3> QED BY <1>1, <3>1 DEF S2!SemOp
  <2>2. S2Forked' /\ S2Lock'
    BY <2>1 DEF S2Inv, S2Lock, S2Parent, S2Child
  <2>3. S2!Exclusion'
    BY <2>1 DEF S2Inv, S2Text, S2!Exclusion
  <2>4. S2Text'
    BY <2>1, <2>3 DEF S2Inv, S2Text, S2!Texts
  <2> QED BY <2>2, <2>4 DEF S2Inv
<1>2. CASE S2!LoadShm("child", "print", "strlen", "text", "read")
  <2>1. /\ pc["child"] = "print" /\ pc' = [pc EXCEPT !["child"] = "strlen"]
        /\ mem' = [mem EXCEPT !["read"] = shm["text"]]
        /\ UNCHANGED <<pending, ready, reaped, pipe, sem, queue, shm, exists, run>>
    BY <1>2 DEF S2!LoadShm
  <2>2. S2Forked' /\ S2Lock'
    BY <2>1 DEF S2Inv, S2Lock, S2Parent, S2Child
  <2>3. S2!Exclusion'
    BY <2>1 DEF S2Inv, S2Text, S2!Exclusion
  <2>4. S2Text'
    BY <2>1, <2>3 DEF S2Inv, S2Text, S2!Texts
  <2> QED BY <2>2, <2>4 DEF S2Inv
<1>3. CASE S2!StoreShm("child", "strlen", "up", "textSize", shm["text"])
  <2>1. /\ pc["child"] = "strlen" /\ pc' = [pc EXCEPT !["child"] = "up"]
        /\ shm' = [shm EXCEPT !["textSize"] = shm["text"]]
        /\ UNCHANGED <<pending, ready, reaped, pipe, mem, sem, queue, exists, run>>
    BY <1>3 DEF S2!StoreShm
  <2>2. S2Forked' /\ S2Lock'
    BY <2>1 DEF S2Inv, S2Lock, S2Parent, S2Child
  <2>3. pc["main"] \notin S2Parent
    BY <2>1 DEF S2Inv, S2Lock, S2Parent, S2Child
  <2>4. S2!Exclusion'
    BY <2>1, <2>3 DEF S2Inv, S2Text, S2!Exclusion, S2Parent
  <2>5. S2Text'
    BY <2>1, <2>4 DEF S2Inv, S2Text, S2!Texts
  <2> QED BY <2>2, <2>5 DEF S2Inv
<1> QED BY <1>1, <1>2, <1>3 DEF S2!child

LEMMA S2Inductive == ASSUME S2Inv, S2!Next PROVE S2Inv'
<1> USE DEF S2Forked, S2!Processes, S2!Step, S2!ipc
<1>1. CASE S2!Start(S2!Processes, {}, S2!NoLocals, S2!semaphoreCreation(1))
  <2>1. /\ pc' = [p \in S2!Processes |-> IF p = "main" THEN "fork1" ELSE "off"]
        /\ run < MaxRuns /\ run' = run + 1 /\ reaped' = {}
        /\ mem' = S2!NoLocals /\ sem' = 1 /\ exists' = exists \cup {"sem", "queue"}
        /\ UNCHANGED <<queue, shm>>
    BY <1>1 DEF S2!Start, S2!semaphoreCreation
  <2>2. run' \in Nat /\ run' <= MaxRuns
    BY <2>1, MaxRunsAssumption DEF S2Inv
  <2>3. S2Forked' /\ S2Lock'
    BY <2>1, <2>2 DEF S2Inv, S2Lock, S2Parent, S2Child, S2!NoLocals
  <2>4. S2!Exclusion'
    BY <2>1 DEF S2!Exclusion
  <2>5. 0 \in 0..(MaxLines + 1) /\ 0 <= MaxLines
    BY MaxLinesAssumption
  <2>6. S2Text'
    BY <2>1, <2>4, <2>5 DEF S2Inv, S2Text, S2!Texts, S2!NoLocals
  <2> QED BY <2>3, <2>6 DEF S2Inv
<1>2. CASE S2!Interrupt(S2!Processes)
  <2>1. /\ pc' = [p \in S2!Processes |-> "off"]
        /\ UNCHANGED <<pending, ready, reaped, pipe, mem, sem, queue, shm, exists, run>>
    BY <1>2 DEF S2!Interrupt
  <2>2. S2Forked' /\ S2Lock'
    BY <2>1 DEF S2Inv, S2Lock
  <2>3. S2!Exclusion'
    BY <2>1 DEF S2!Exclusion
  <2>4. S2Text'
    BY <2>1, <2>3 DEF S2Inv, S2Text, S2!Texts
  <2> QED BY <2>2, <2>4 DEF S2Inv
<1>3. CASE S2!Fork("child", "fork1", "fgets") /\ UNCHANGED S2!ipc
  <2>1. /\ pc["main"] = "fork1" /\ pc["child"] = "off"
        /\ \/ pc' = [pc EXCEPT !["main"] = "fgets", !["child"] = "start"]
           \/ pc' = [pc EXCEPT !["main"] = "exited"]
        /\ UNCHANGED <<pending, ready, reaped, pipe, mem, sem, queue, shm, exists, run>>
    BY <1>3 DEF S2!Fork, S2Inv
  <2>2. S2Forked' /\ S2Lock'
    BY <2>1 DEF S2Inv, S2Lock, S2Parent, S2Child
  <2>3. S2!Exclusion'
    BY <2>1 DEF S2Inv, S2Text, S2!Exclusion
  <2>4. S2Text'
    BY <2>1, <2>3 DEF S2Inv, S2Text, S2!Texts
  <2> QED BY <2>2, <2>4 DEF S2Inv
<1>4. CASE S2!Wait({"child"}, "wait", "szemafor_torles") /\ UNCHANGED S2!ipc
  <2>1. /\ pc["main"] = "wait" /\ pc["child"] = "exited"
        /\ pc' = [pc EXCEPT !["main"] = "szemafor_torles"] /\ reaped' \subseteq {"child"}
        /\ UNCHANGED <<pending, ready, pipe, mem, sem, queue, shm, exists, run>>
    BY <1>4 DEF S2!Wait, S2Inv
  <2>2. S2Forked' /\ S2Lock'
    BY <2>1 DEF S2Inv, S2Lock, S2Parent, S2Child
  <2>3. S2!Exclusion'
    BY <2>1 DEF S2Inv, S2Text, S2!Exclusion
  <2>4. S2Text'
    BY <2>1, <2>3 DEF S2Inv, S2Text, S2!Texts
  <2> QED BY <2>2, <2>4 DEF S2Inv
<1>5. CASE S2!RemoveSem("szemafor_torles", "shmctl")
  <2>1. /\ pc["main"] = "szemafor_torles" /\ pc' = [pc EXCEPT !["main"] = "shmctl"]
        /\ exists' = exists \ {"sem"}
        /\ UNCHANGED <<pending, ready, reaped, pipe, mem, sem, queue, shm, run>>
    BY <1>5 DEF S2!RemoveSem
  <2>2. S2Forked' /\ S2Lock'
    BY <2>1 DEF S2Inv, S2Lock
  <2>3. S2!Exclusion'
    BY <2>1 DEF S2Inv, S2Text, S2!Exclusion
  <2>4. S2Text'
    BY <2>1, <2>3 DEF S2Inv, S2Text, S2!Texts
  <2> QED BY <2>2, <2>4 DEF S2Inv
<1>6. CASE S2!RemoveShm("shmctl", S2!Zero)
  <2>1. /\ pc["main"] = "shmctl" /\ pc["child"] = "exited"
        /\ pc' = [pc EXCEPT !["main"] = "done"] /\ shm' = S2!Zero
        /\ UNCHANGED <<pending, ready, reaped, pipe, mem, sem, queue, exists, run>>
    BY <1>6 DEF S2!RemoveShm, S2Inv
  <2>2. S2Forked' /\ S2Lock'
    BY <2>1 DEF S2Inv, S2Lock, S2!Zero
  <2>3. S2!Exclusion'
    BY <2>1 DEF S2!Exclusion, S2Inv
  <2>4. S2Text'
    BY <2>1, <2>3 DEF S2Inv, S2Text, S2!Texts, S2!Zero
  <2> QED BY <2>2, <2>4 DEF S2Inv
<1> QED BY <1>1, <1>2, <1>3, <1>4, <1>5, <1>6, S2ParentSteps, S2ChildSteps DEF S2!Next, S2!Main

LEMMA S2Invariant ==
  /\ S2!Init => S2Inv
  /\ S2Inv /\ (S2!Next \/ UNCHANGED vars) => S2Inv'
  /\ S2Inv => S2!TypeOK /\ S2!Exclusion /\ S2!NoUseAfterRemoval
<1>1. ASSUME S2Inv, UNCHANGED vars PROVE S2Inv'
  <2>1. UNCHANGED <<pc, pending, ready, reaped, pipe, mem, sem, queue, shm, exists, run>>
    BY <1>1 DEF vars, zhVars, ipc
  <2>2. S2Forked' /\ S2Lock' /\ S2Text'
    BY <1>1, <2>1 DEF S2Inv, S2Forked, S2Lock, S2Text, S2!Exclusion
  <2> QED BY <2>2 DEF S2Inv
<1>2. ASSUME S2Inv PROVE S2!TypeOK
  <2>1. run \in 0..MaxRuns
    BY <1>2, MaxRunsAssumption DEF S2Inv, S2Forked
  <2>2. sem \in 0..1
    BY <1>2 DEF S2Inv, S2Lock
  <2> QED BY <1>2, <2>1, <2>2, Zenon DEF S2!TypeOK, S2Inv, S2Forked, S2Lock, S2Text
<1>3. S2Inv => S2!Exclusion /\ S2!NoUseAfterRemoval
  BY DEF S2Inv, S2Forked, S2Lock, S2Text, S2!NoUseAfterRemoval
<1> QED BY <1>1, <1>2, <1>3, S2Initially, S2Inductive

(***************************************************************************)
(* Messages in both directions (6. Gyak/uzenet2.c)                         *)
(***************************************************************************)

\* The child is there from its fork to its exit, and the queue is removed after that.
UForked ==
  /\ DOMAIN pc = U!Processes /\ DOMAIN mem = {"fromChild", "fromParent"}
  /\ pc["main"] \in {"off", "fork1", "exited"} => pc["gyerek"] = "off"
  /\ pc["main"] \in {"msgctl", "done"} => pc["gyerek"] = "exited"
  /\ pc["main"] \notin {"off", "done"} => "queue" \in exists
  /\ exists \subseteq {"sem", "queue"} /\ run \in Nat /\ run <= MaxRuns + 1
  /\ reaped \subseteq {"gyerek"}

\* Each type has its sender, also in what interrupted runs have left.
UMessages ==
  [from : U!Processes, run : Nat, type : {4, 5}, text : {"Hajra Fradi!", "asdasd"}]
UQueue ==
  /\ queue \in Seq(UMessages) /\ U!FromTheOther
  /\ \A m \in Range(queue) :
       \/ m.type = 5 /\ m.from = "main"
       \/ m.type = 4 /\ m.from = "gyerek"

UInv == UForked /\ UQueue

LEMMA UInitially == ASSUME U!Init PROVE UInv
<1> USE DEF U!Init, U!IpcInit, U!Processes, U!NoLocals, U!NoMessage
<1>1. UForked
  BY MaxRunsAssumption DEF UForked
<1>2. queue \in Seq(UMessages) /\ Range(queue) = {}
  BY DEF Range
<1>3. U!FromTheOther
  BY DEF U!FromTheOther
<1> QED BY <1>1, <1>2, <1>3 DEF UInv, UQueue

\* A send by either of them
LEMMA USends ==
  ASSUME UInv, NEW p \in U!Processes, NEW to, NEW type \in {4, 5}, NEW text \in {"Hajra Fradi!", "asdasd"},
         NEW from, U!MsgSnd(p, from, to, type, text),
         (p = "main" /\ type = 5) \/ (p = "gyerek" /\ type = 4)
  PROVE  UQueue'
<1> DEFINE m == [from |-> p, run |-> run, type |-> type, text |-> text]
<1>1. (queue' = Append(queue, m) \/ queue' = queue) /\ UNCHANGED mem
  BY DEF U!MsgSnd, U!Message
<1>2. m \in UMessages /\ ((m.type = 5 /\ m.from = "main") \/ (m.type = 4 /\ m.from = "gyerek"))
  <2>1. m \in UMessages
    BY DEF UInv, UForked, UMessages
  <2>2. m.type = type /\ m.from = p
    OBVIOUS
  <2> QED BY <2>1, <2>2
<1> HIDE DEF m
<1>3. queue' \in Seq(UMessages) /\ Range(queue') \subseteq Range(queue) \cup {m}
  BY <1>1, <1>2, Sends DEF UInv, UQueue
<1> QED BY <1>1, <1>2, <1>3 DEF UInv, UQueue, U!FromTheOther

\* A receive by either of them
LEMMA UReceives ==
  ASSUME UInv, NEW p, NEW from, NEW to, NEW type, NEW x,
         U!MsgRcv(p, from, to, type, x),
         (x = "fromChild" /\ type = 4) \/ (x = "fromParent" /\ type = 5)
  PROVE  UQueue' /\ DOMAIN mem' = DOMAIN mem
<1>1. MsgRcv(p, from, to, type, x)
  BY DEF U!MsgRcv, MsgRcv, U!Step, Step
<1>2. queue' \in Seq(UMessages) /\ Received(x, type)
  BY <1>1, Receives DEF UInv, UQueue
<1>3. Range(queue') \subseteq Range(queue)
  BY <1>2 DEF Received
<1>4. UNCHANGED mem \/ \E m \in Range(queue) : m.type = type /\ mem' = [mem EXCEPT ![x] = m]
  BY <1>2 DEF Received
<1>5. U!FromTheOther' /\ DOMAIN mem' = DOMAIN mem
  <2>1. CASE UNCHANGED mem
    BY <2>1 DEF UInv, UQueue, U!FromTheOther
  <2>2. CASE \E m \in Range(queue) : m.type = type /\ mem' = [mem EXCEPT ![x] = m]
    <3>1. PICK m \in Range(queue) : m.type = type /\ mem' = [mem EXCEPT ![x] = m]
      BY <2>2
    <3>2. m.from = IF type = 5 THEN "main" ELSE "gyerek"
      BY <3>1 DEF UInv, UQueue
    <3> QED BY <3>1, <3>2 DEF UInv, UForked, UQueue, U!FromTheOther
  <2> QED BY <1>4, <2>1, <2>2
<1> QED BY <1>2, <1>3, <1>5 DEF UInv, UQueue

LEMMA USteps == ASSUME UInv, U!szulo \/ U!gyerek PROVE UInv'
<1> USE DEF UForked, U!Processes, U!Step
<1>1. CASE U!MsgSnd("main", "msgsnd", "msgrcv", 5, "Hajra Fradi!")
  <2>1. /\ pc["main"] = "msgsnd" /\ pc' = [pc EXCEPT !["main"] = "msgrcv"]
        /\ UNCHANGED <<reaped, mem, exists, run>>
    BY <1>1 DEF U!MsgSnd
  <2>2. UQueue'
    BY <1>1, <2>1, USends
  <2> QED BY <2>1, <2>2 DEF UInv
<1>2. CASE U!MsgRcv("main", "msgrcv", "wait", 4, "fromChild")
  <2>1. /\ pc["main"] = "msgrcv" /\ pc' = [pc EXCEPT !["main"] = "wait"]
        /\ UNCHANGED <<reaped, exists, run>>
    BY <1>2 DEF U!MsgRcv
  <2>2. UQueue' /\ DOMAIN mem' = DOMAIN mem
    BY <1>2, UReceives
  <2> QED BY <2>1, <2>2 DEF UInv
<1>3. CASE U!MsgSnd("gyerek", "start", "msgrcv", 4, "asdasd")
  <2>1. /\ pc["gyerek"] = "start" /\ pc' = [pc EXCEPT !["gyerek"] = "msgrcv"]
        /\ UNCHANGED <<reaped, mem, exists, run>>
    BY <1>3 DEF U!MsgSnd
  <2>2. UQueue'
    BY <1>3, <2>1, USends
  <2> QED BY <2>1, <2>2 DEF UInv
<1>4. CASE U!MsgRcv("gyerek", "msgrcv", "exited", 5, "fromParent")
  <2>1. /\ pc["gyerek"] = "msgrcv" /\ pc' = [pc EXCEPT !["gyerek"] = "exited"]
        /\ UNCHANGED <<reaped, exists, run>>
    BY <1>4 DEF U!MsgRcv
  <2>2. UQueue' /\ DOMAIN mem' = DOMAIN mem
    BY <1>4, UReceives
  <2> QED BY <2>1, <2>2 DEF UInv
<1> QED BY <1>1, <1>2, <1>3, <1>4 DEF U!szulo, U!gyerek

LEMMA UInductive == ASSUME UInv, U!Next PROVE UInv'
<1> USE DEF UForked, U!Processes, U!Step, U!ipc
<1>1. CASE U!Start(U!Processes, {}, U!NoLocals, 0)
  <2>1. /\ pc' = [p \in U!Processes |-> IF p = "main" THEN "fork1" ELSE "off"]
        /\ run < MaxRuns + 1 /\ run' = run + 1 /\ reaped' = {}
        /\ mem' = U!NoLocals /\ exists' = exists \cup {"sem", "queue"} /\ UNCHANGED queue
    BY <1>1 DEF U!Start
  <2>2. run' \in Nat /\ run' <= MaxRuns + 1
    BY <2>1, MaxRunsAssumption DEF UInv
  <2>3. UQueue'
    BY <2>1 DEF UInv, UQueue, U!FromTheOther, U!NoLocals, U!NoMessage
  <2> QED BY <2>1, <2>2, <2>3 DEF UInv, U!NoLocals
<1>2. CASE U!Interrupt(U!Processes)
  <2>1. /\ pc' = [p \in U!Processes |-> "off"] /\ UNCHANGED <<reaped, mem, queue, exists, run>>
    BY <1>2 DEF U!Interrupt
  <2> QED BY <2>1 DEF UInv, UQueue, U!FromTheOther
<1>3. CASE U!Fork("gyerek", "fork1", "msgsnd") /\ UNCHANGED U!ipc
  <2>1. /\ pc["main"] = "fork1" /\ pc["gyerek"] = "off"
        /\ \/ pc' = [pc EXCEPT !["main"] = "msgsnd", !["gyerek"] = "start"]
           \/ pc' = [pc EXCEPT !["main"] = "exited"]
        /\ UNCHANGED <<reaped, mem, queue, exists, run>>
    BY <1>3 DEF U!Fork, UInv
  <2> QED BY <2>1 DEF UInv, UQueue, U!FromTheOther
<1>4. CASE U!Wait({"gyerek"}, "wait", "msgctl") /\ UNCHANGED U!ipc
  <2>1. /\ pc["main"] = "wait" /\ pc["gyerek"] = "exited"
        /\ pc' = [pc EXCEPT !["main"] = "msgctl"] /\ reaped' \subseteq {"gyerek"}
        /\ UNCHANGED <<mem, queue, exists, run>>
    BY <1>4 DEF U!Wait, UInv
  <2> QED BY <2>1 DEF UInv, UQueue, U!FromTheOther
<1>5. CASE U!RemoveQueue("msgctl")
  <2>1. /\ pc["main"] = "msgctl" /\ pc' = [pc EXCEPT !["main"] = "done"]
        /\ exists' = exists \ {"queue"} /\ queue' = <<>>
        /\ UNCHANGED <<reaped, mem, run>>
    BY <1>5 DEF U!RemoveQueue
  <2>2. queue' \in Seq(UMessages) /\ Range(queue') = {}
    BY <2>1 DEF Range
  <2>3. UQueue'
    BY <2>1, <2>2 DEF UInv, UQueue, U!FromTheOther
  <2> QED BY <2>1, <2>3 DEF UInv
<1> QED BY <1>1, <1>2, <1>3, <1>4, <1>5, USteps DEF U!Next, U!Main

LEMMA UInvariant ==
  /\ U!Init => UInv
  /\ UInv /\ (U!Next \/ UNCHANGED vars) => UInv'
  /\ UInv => U!TypeOK /\ U!FromTheOther /\ U!NoUseAfterRemoval
<1>1. ASSUME UInv, UNCHANGED vars PROVE UInv'
  BY <1>1 DEF vars, zhVars, ipc, UInv, UForked, UQueue, U!FromTheOther
<1>2. ASSUME UInv PROVE U!TypeOK
  <2>1. run \in 0..(MaxRuns + 1)
    BY <1>2, MaxRunsAssumption DEF UInv, UForked
  <2>2. \A k \in DOMAIN queue : queue[k].type \in {4, 5}
    BY <1>2 DEF UInv, UQueue, Range
  <2> QED BY <1>2, <2>1, <2>2, Zenon DEF U!TypeOK, UInv, UForked
<1>3. UInv => U!FromTheOther /\ U!NoUseAfterRemoval
  BY DEF UInv, UForked, UQueue, U!NoUseAfterRemoval
<1> QED BY <1>1, <1>2, <1>3, UInitially, UInductive

(***************************************************************************)
(* A message to the child (6. Gyak/uzenet.c)                               *)
(***************************************************************************)

\* The child is there from its fork to its exit, and the queue is removed after that.
U1Forked ==
  /\ DOMAIN pc = U1!Processes /\ DOMAIN mem = {"uz"}
  /\ pc["main"] \in {"off", "fork1", "exited"} => pc["gyerek"] = "off"
  /\ pc["main"] \in {"msgctl", "done"} => pc["gyerek"] = "exited"
  /\ pc["main"] \notin {"off", "done"} => "queue" \in exists
  /\ exists \subseteq {"sem", "queue"} /\ run \in Nat /\ run <= MaxRuns + 1
  /\ reaped \subseteq {"gyerek"}

\* Every run sends one message, and only parents send.
U1Messages == [from : {"main"}, run : Nat, type : {5}, text : {"Hajra Fradi!"}]
U1Queue ==
  /\ queue \in Seq(U1Messages) /\ \A m \in Range(queue) : m.from = "main"
  /\ Len(queue) <= run
  /\ pc["main"] \in {"fork1", "szulo"} => Len(queue) + 1 <= run
  /\ U1!FromTheParent

U1Inv == U1Forked /\ U1Queue

LEMMA U1Initially == ASSUME U1!Init PROVE U1Inv
<1> USE DEF U1!Init, U1!IpcInit, U1!Processes, U1!NoLocals, U1!NoMessage
<1>1. U1Forked
  BY MaxRunsAssumption DEF U1Forked
<1>2. queue \in Seq(U1Messages) /\ Range(queue) = {} /\ Len(queue) = 0
  BY DEF Range
<1> QED BY <1>1, <1>2 DEF U1Inv, U1Queue, U1!FromTheParent

LEMMA U1Length == U1Inv => Len(queue) \in Nat
<1>1. ASSUME NEW s \in Seq(U1Messages) PROVE Len(s) \in Nat
  OBVIOUS
<1> QED BY <1>1 DEF U1Inv, U1Queue

LEMMA U1Steps == ASSUME U1Inv, U1!szulo \/ U1!gyerek PROVE U1Inv'
<1> USE DEF U1Forked, U1!Processes, U1!Step
<1>1. CASE U1!szulo
  <2> DEFINE m == [from |-> "main", run |-> run, type |-> 5, text |-> "Hajra Fradi!"]
  <2>1. /\ pc["main"] = "szulo" /\ pc' = [pc EXCEPT !["main"] = "wait"]
        /\ queue' = Append(queue, m) \/ queue' = queue
        /\ UNCHANGED <<reaped, mem, exists, run>>
    BY <1>1 DEF U1!szulo, U1!MsgSnd, U1!Message
  <2>2. m \in U1Messages /\ m.from = "main"
    BY DEF U1Inv, U1Messages
  <2> HIDE DEF m
  <2>3. queue' \in Seq(U1Messages) /\ Range(queue') \subseteq Range(queue) \cup {m}
        /\ Len(queue') <= Len(queue) + 1
    BY <2>1, <2>2, Sends DEF U1Inv, U1Queue
  <2>4. Len(queue') \in Nat
    <3>1. ASSUME NEW s \in Seq(U1Messages) PROVE Len(s) \in Nat
      OBVIOUS
    <3> QED BY <2>3, <3>1
  <2>5. Len(queue') <= run
    BY <2>1, <2>3, <2>4, U1Length DEF U1Inv, U1Queue
  <2>6. U1Forked' /\ U1!FromTheParent'
    BY <2>1 DEF U1Inv, U1Queue, U1!FromTheParent
  <2> QED BY <2>1, <2>2, <2>3, <2>5, <2>6 DEF U1Inv, U1Queue
<1>2. CASE U1!gyerek
  <2>1. /\ pc["gyerek"] = "start" /\ pc' = [pc EXCEPT !["gyerek"] = "exited"]
        /\ UNCHANGED <<reaped, exists, run>>
    BY <1>2 DEF U1!gyerek, U1!MsgRcv
  <2>2. MsgRcv("gyerek", "start", "exited", 5, "uz")
    BY <1>2 DEF U1!gyerek, U1!MsgRcv, MsgRcv, Step
  <2>3. queue' \in Seq(U1Messages) /\ Len(queue') <= Len(queue) /\ Received("uz", 5)
    BY <2>2, Receives DEF U1Inv, U1Queue
  <2>4. /\ Range(queue') \subseteq Range(queue) /\ DOMAIN mem' = DOMAIN mem
        /\ mem'["uz"] \in Range(queue)
    <3>1. "queue" \in exists
      BY <2>1 DEF U1Inv
    <3> QED BY <2>3, <3>1 DEF Received, U1Inv
  <2>5. Len(queue') \in Nat
    <3>1. ASSUME NEW s \in Seq(U1Messages) PROVE Len(s) \in Nat
      OBVIOUS
    <3> QED BY <2>3, <3>1
  <2>6. /\ Len(queue') <= run'
        /\ pc'["main"] \in {"fork1", "szulo"} => Len(queue') + 1 <= run'
    BY <2>1, <2>3, <2>5, U1Length DEF U1Inv, U1Queue
  <2>7. U1!FromTheParent'
    BY <2>4 DEF U1Inv, U1Queue, U1!FromTheParent
  <2> QED BY <2>1, <2>3, <2>4, <2>6, <2>7 DEF U1Inv, U1Queue
<1> QED BY <1>1, <1>2

LEMMA U1Inductive == ASSUME U1Inv, U1!Next PROVE U1Inv'
<1> USE DEF U1Forked, U1!Processes, U1!Step, U1!ipc
<1>1. CASE U1!Start(U1!Processes, {}, U1!NoLocals, 0)
  <2>1. /\ pc' = [p \in U1!Processes |-> IF p = "main" THEN "fork1" ELSE "off"]
        /\ run < MaxRuns + 1 /\ run' = run + 1 /\ reaped' = {}
        /\ mem' = U1!NoLocals /\ exists' = exists \cup {"sem", "queue"} /\ UNCHANGED queue
    BY <1>1 DEF U1!Start
  <2>2. run' \in Nat /\ run' <= MaxRuns + 1 /\ Len(queue) <= run' /\ Len(queue) + 1 <= run'
    BY <2>1, MaxRunsAssumption, U1Length DEF U1Inv, U1Queue
  <2>3. U1Queue'
    BY <2>1, <2>2 DEF U1Inv, U1Queue, U1!FromTheParent
  <2> QED BY <2>1, <2>2, <2>3 DEF U1Inv, U1!NoLocals
<1>2. CASE U1!Interrupt(U1!Processes)
  <2>1. /\ pc' = [p \in U1!Processes |-> "off"] /\ UNCHANGED <<reaped, mem, queue, exists, run>>
    BY <1>2 DEF U1!Interrupt
  <2> QED BY <2>1 DEF U1Inv, U1Queue, U1!FromTheParent
<1>3. CASE U1!Fork("gyerek", "fork1", "szulo") /\ UNCHANGED U1!ipc
  <2>1. /\ pc["main"] = "fork1" /\ pc["gyerek"] = "off"
        /\ \/ pc' = [pc EXCEPT !["main"] = "szulo", !["gyerek"] = "start"]
           \/ pc' = [pc EXCEPT !["main"] = "exited"]
        /\ UNCHANGED <<reaped, mem, queue, exists, run>>
    BY <1>3 DEF U1!Fork, U1Inv
  <2> QED BY <2>1 DEF U1Inv, U1Queue, U1!FromTheParent
<1>4. CASE U1!Wait({"gyerek"}, "wait", "msgctl") /\ UNCHANGED U1!ipc
  <2>1. /\ pc["main"] = "wait" /\ pc["gyerek"] = "exited"
        /\ pc' = [pc EXCEPT !["main"] = "msgctl"] /\ reaped' \subseteq {"gyerek"}
        /\ UNCHANGED <<mem, queue, exists, run>>
    BY <1>4 DEF U1!Wait, U1Inv
  <2> QED BY <2>1 DEF U1Inv, U1Queue, U1!FromTheParent
<1>5. CASE U1!RemoveQueue("msgctl")
  <2>1. /\ pc["main"] = "msgctl" /\ pc' = [pc EXCEPT !["main"] = "done"]
        /\ exists' = exists \ {"queue"} /\ queue' = <<>>
        /\ UNCHANGED <<reaped, mem, run>>
    BY <1>5 DEF U1!RemoveQueue
  <2>2. queue' \in Seq(U1Messages) /\ Range(queue') = {} /\ Len(queue') = 0
    BY <2>1 DEF Range
  <2>3. U1!FromTheParent'
    BY <2>1 DEF U1Inv, U1Queue, U1!FromTheParent
  <2>4. U1Queue'
    BY <2>1, <2>2, <2>3 DEF U1Inv, U1Queue
  <2> QED BY <2>1, <2>4 DEF U1Inv
<1> QED BY <1>1, <1>2, <1>3, <1>4, <1>5, U1Steps DEF U1!Next, U1!Main

LEMMA U1Invariant ==
  /\ U1!Init => U1Inv
  /\ U1Inv /\ (U1!Next \/ UNCHANGED vars) => U1Inv'
  /\ U1Inv => U1!TypeOK /\ U1!FromTheParent /\ U1!NoUseAfterRemoval
<1>1. ASSUME U1Inv, UNCHANGED vars PROVE U1Inv'
  BY <1>1 DEF vars, zhVars, ipc, U1Inv, U1Forked, U1Queue, U1!FromTheParent
<1>2. ASSUME U1Inv PROVE U1!TypeOK
  <2>1. run \in 0..(MaxRuns + 1)
    BY <1>2, MaxRunsAssumption DEF U1Inv, U1Forked
  <2>2. Len(queue) <= MaxRuns + 1
    BY <1>2, <2>1, U1Length, MaxRunsAssumption DEF U1Inv, U1Queue
  <2> QED BY <1>2, <2>1, <2>2, Zenon DEF U1!TypeOK, U1Inv, U1Forked
<1>3. U1Inv => U1!FromTheParent /\ U1!NoUseAfterRemoval
  BY DEF U1Inv, U1Forked, U1Queue, U1!NoUseAfterRemoval
<1> QED BY <1>1, <1>2, <1>3, U1Initially, U1Inductive

(***************************************************************************)
(* Text under a semaphore (7. Gyak/szemafor.c, gy6/pos_szemafor.c).  The    *)
(* two instances of Szemafor differ in how a run finds its semaphore only.  *)
(***************************************************************************)

\* The child is there from its fork to its exit, and removal comes after that.
SText == "I like Illes"
SForked ==
  /\ DOMAIN pc = S!Processes /\ DOMAIN mem = {"eredmeny"} /\ DOMAIN shm = {"s"}
  /\ pc["child"] \in {"off", "start", "print", "up", "exited"}
  /\ pc["main"] \in {"off", "fork1", "exited"} => pc["child"] = "off"
  /\ pc["main"] \in {"szemafor_torles", "shmctl", "done"} => pc["child"] = "exited"
  /\ pc["main"] \notin {"off", "shmctl", "done"} => "sem" \in exists
  /\ pc["main"] \in {"shmctl", "done"} => "sem" \notin exists
  /\ exists \subseteq {"sem", "queue"} /\ run \in Nat /\ run <= MaxRuns + 1

\* The units there are, the one the child has taken included: at most one, or
\* with a name at most one for every run.
SUnits == sem + (IF pc["child"] \in {"print", "up"} THEN 1 ELSE 0)
SBound == IF Is("pos_szemafor") THEN run ELSE 1
SCount ==
  /\ sem \in Nat
  /\ SUnits + (IF pc["main"] \in {"fork1", "strcpy", "up", "exited"} THEN 1 ELSE 0) <= SBound

\* Where there is a unit there is a text.
SMemory ==
  /\ shm["s"] \in {"zero", SText} /\ mem["eredmeny"] \in {"unset", SText}
  /\ "sem" \in exists /\ SUnits > 0 => shm["s"] = SText
  /\ pc["main"] \in {"up", "wait", "szemafor_torles", "shmctl"} => shm["s"] = SText
  /\ pc["child"] \in {"up", "exited"} => mem["eredmeny"] = SText

SInv == SForked /\ SCount /\ SMemory

\* What the two instances share
LEMMA SChild == ASSUME SInv, S!child, UNCHANGED program PROVE SInv'
<1> USE DEF S!Processes, S!Step, S!ipc
<1>1. CASE S!SemOp("child", "start", "print", -1) \/ S!SemOp("child", "up", "exited", 1)
  <2>1. /\ UNCHANGED <<mem, shm, exists, run, program>>
        /\ \/ /\ pc["child"] = "start" /\ pc' = [pc EXCEPT !["child"] = "print"]
              /\ sem - 1 >= 0 /\ sem' = sem - 1
           \/ /\ pc["child"] = "up" /\ pc' = [pc EXCEPT !["child"] = "exited"]
              /\ sem' = sem + 1
    <3>1. "sem" \in exists /\ sem \in Nat
      BY <1>1 DEF SInv, SForked, SCount, S!SemOp
    <3> QED BY <1>1, <3>1 DEF S!SemOp
  <2>2. SForked'
    BY <2>1 DEF SInv, SForked
  <2>3. SCount' /\ SUnits' = SUnits
    BY <2>1 DEF SInv, SForked, SCount, SUnits, SBound, Is
  <2>4. SMemory'
    BY <2>1, <2>3 DEF SInv, SForked, SMemory
  <2> QED BY <2>2, <2>3, <2>4 DEF SInv
<1>2. CASE S!LoadShm("child", "print", "up", "s", "eredmeny")
  <2>1. /\ pc["child"] = "print" /\ pc' = [pc EXCEPT !["child"] = "up"]
        /\ mem' = [mem EXCEPT !["eredmeny"] = shm["s"]]
        /\ UNCHANGED <<sem, shm, exists, run, program>>
    BY <1>2 DEF S!LoadShm
  <2>2. SForked'
    BY <2>1 DEF SInv, SForked
  <2>3. SCount' /\ SUnits' = SUnits
    BY <2>1 DEF SInv, SForked, SCount, SUnits, SBound, Is
  <2>4. "sem" \in exists /\ SUnits > 0
    BY <2>1 DEF SInv, SForked, SCount, SUnits
  <2>5. shm["s"] = SText
    BY <2>4 DEF SInv, SMemory
  <2>6. SMemory'
    BY <2>1, <2>3, <2>5 DEF SInv, SForked, SMemory
  <2> QED BY <2>2, <2>3, <2>6 DEF SInv
<1> QED BY <1>1, <1>2 DEF S!child

LEMMA SMain ==
  ASSUME SInv, S!Main \/ S!Interrupt(S!Processes), UNCHANGED program PROVE SInv'
<1> USE DEF S!Processes, S!Step, S!ipc
<1>1. CASE S!Interrupt(S!Processes)
  <2>1. /\ pc' = [p \in S!Processes |-> "off"] /\ UNCHANGED <<mem, sem, shm, exists, run, program>>
    BY <1>1 DEF S!Interrupt
  <2>2. SForked'
    BY <2>1 DEF SInv, SForked
  <2>3. SCount' /\ (SUnits' > 0 => SUnits > 0)
    <3>1. SUnits' = sem /\ sem \in Nat /\ SUnits \in {sem, sem + 1} /\ SBound' = SBound
      BY <2>1 DEF SInv, SCount, SUnits, SBound, Is
    <3>2. SBound \in Int
      BY DEF SInv, SForked, SBound
    <3> QED BY <2>1, <3>1, <3>2 DEF SInv, SCount
  <2>4. SMemory'
    BY <2>1, <2>3 DEF SInv, SForked, SMemory
  <2> QED BY <2>2, <2>3, <2>4 DEF SInv
<1>2. CASE S!Fork("child", "fork1", "strcpy") /\ UNCHANGED S!ipc
  <2>1. /\ pc["main"] = "fork1" /\ pc["child"] = "off"
        /\ \/ pc' = [pc EXCEPT !["main"] = "strcpy", !["child"] = "start"]
           \/ pc' = [pc EXCEPT !["main"] = "exited"]
        /\ UNCHANGED <<mem, sem, shm, exists, run, program>>
    BY <1>2 DEF S!Fork, SInv, SForked
  <2>2. SForked'
    BY <2>1 DEF SInv, SForked
  <2>3. SCount' /\ SUnits' = SUnits
    BY <2>1 DEF SInv, SForked, SCount, SUnits, SBound, Is
  <2>4. SMemory'
    BY <2>1, <2>3 DEF SInv, SForked, SMemory
  <2> QED BY <2>2, <2>3, <2>4 DEF SInv
<1>3. CASE S!StoreShm("main", "strcpy", "up", "s", "I like Illes")
  <2>1. /\ pc["main"] = "strcpy" /\ pc' = [pc EXCEPT !["main"] = "up"]
        /\ shm' = [shm EXCEPT !["s"] = SText] /\ UNCHANGED <<mem, sem, exists, run, program>>
    BY <1>3 DEF S!StoreShm, SText
  <2>2. SForked'
    BY <2>1 DEF SInv, SForked
  <2>3. SCount' /\ SUnits' = SUnits
    BY <2>1 DEF SInv, SForked, SCount, SUnits, SBound, Is
  <2>4. SMemory'
    BY <2>1, <2>3 DEF SInv, SForked, SMemory
  <2> QED BY <2>2, <2>3, <2>4 DEF SInv
<1>4. CASE S!SemOp("main", "up", "wait", 1)
  <2>1. /\ pc["main"] = "up" /\ pc' = [pc EXCEPT !["main"] = "wait"] /\ sem' = sem + 1
        /\ UNCHANGED <<mem, shm, exists, run, program>>
    BY <1>4 DEF S!SemOp, SInv, SForked
  <2>2. SForked'
    BY <2>1 DEF SInv, SForked
  <2>3. SCount'
    BY <2>1 DEF SInv, SForked, SCount, SUnits, SBound, Is
  <2>4. SMemory'
    BY <2>1 DEF SInv, SForked, SMemory
  <2> QED BY <2>2, <2>3, <2>4 DEF SInv
<1>5. CASE S!Wait({"child"}, "wait", "szemafor_torles") /\ UNCHANGED S!ipc
  <2>1. /\ pc["main"] = "wait" /\ pc["child"] = "exited"
        /\ pc' = [pc EXCEPT !["main"] = "szemafor_torles"]
        /\ UNCHANGED <<mem, sem, shm, exists, run, program>>
    BY <1>5 DEF S!Wait
  <2>2. SForked'
    BY <2>1 DEF SInv, SForked
  <2>3. SCount' /\ SUnits' = SUnits
    BY <2>1 DEF SInv, SForked, SCount, SUnits, SBound, Is
  <2>4. SMemory'
    BY <2>1, <2>3 DEF SInv, SForked, SMemory
  <2> QED BY <2>2, <2>3, <2>4 DEF SInv
<1>6. CASE S!RemoveSem("szemafor_torles", "shmctl")
  <2>1. /\ pc["main"] = "szemafor_torles" /\ pc' = [pc EXCEPT !["main"] = "shmctl"]
        /\ exists' = exists \ {"sem"} /\ UNCHANGED <<mem, sem, shm, run, program>>
    BY <1>6 DEF S!RemoveSem
  <2>2. SForked'
    BY <2>1 DEF SInv, SForked
  <2>3. SCount' /\ SUnits' = SUnits
    BY <2>1 DEF SInv, SForked, SCount, SUnits, SBound, Is
  <2>4. SMemory'
    BY <2>1, <2>3 DEF SInv, SForked, SMemory
  <2> QED BY <2>2, <2>3, <2>4 DEF SInv
<1>7. CASE S!RemoveShm("shmctl", S!NoText)
  <2>1. /\ pc["main"] = "shmctl" /\ pc' = [pc EXCEPT !["main"] = "done"]
        /\ shm' = S!NoText /\ UNCHANGED <<mem, sem, exists, run, program>>
    BY <1>7 DEF S!RemoveShm
  <2>2. SForked'
    BY <2>1 DEF SInv, SForked, S!NoText
  <2>3. SCount' /\ SUnits' = SUnits
    BY <2>1 DEF SInv, SForked, SCount, SUnits, SBound, Is
  <2>4. "sem" \notin exists'
    BY <2>1 DEF SInv, SForked
  <2>5. SMemory'
    BY <2>1, <2>3, <2>4 DEF SInv, SForked, SMemory, S!NoText
  <2> QED BY <2>2, <2>3, <2>5 DEF SInv
<1> QED BY <1>1, <1>2, <1>3, <1>4, <1>5, <1>6, <1>7 DEF S!Main

\* A run starts with a new semaphore of value 0, or with what is left of the one
\* with the name.
LEMMA SStarts ==
  ASSUME SInv, UNCHANGED program, \A p \in S!Processes : pc[p] \in {"off", "exited", "done"},
         run < MaxRuns + 1, run' = run + 1, mem' = S!NoLocals, exists' = exists \cup {"sem", "queue"},
         pc' = [p \in S!Processes |-> IF p = "main" THEN "fork1" ELSE "off"], UNCHANGED shm,
         sem' = 0 \/ (sem' = sem /\ "sem" \in exists /\ Is("pos_szemafor"))
  PROVE  SInv'
<1> USE DEF S!Processes
<1>1. run' \in Nat /\ run' <= MaxRuns + 1
  BY MaxRunsAssumption DEF SInv, SForked
<1>2. SForked'
  BY <1>1 DEF SInv, SForked, S!NoLocals
<1>3. SUnits' = sem' /\ pc'["main"] = "fork1" /\ pc'["child"] = "off" /\ pc["child"] \in {"off", "exited"}
  <2>1. pc'["main"] = "fork1" /\ pc'["child"] = "off" /\ pc["child"] \in {"off", "exited"}
    BY DEF SInv, SForked
  <2>2. sem' \in Nat
    BY DEF SInv, SCount
  <2>3. SUnits' = sem' + 0
    BY <2>1, Zenon DEF SUnits
  <2>4. \A n \in Nat : n + 0 = n
    OBVIOUS
  <2>5. SUnits' = sem'
    BY <2>2, <2>3, <2>4, Zenon
  <2> QED BY <2>1, <2>5, Zenon
<1>4. CASE sem' = 0
  <2>1. SCount'
    BY <1>1, <1>3, <1>4 DEF SInv, SForked, SCount, SBound
  <2>2. SMemory'
    BY <1>3, <1>4 DEF SInv, SForked, SMemory, S!NoLocals
  <2> QED BY <1>2, <2>1, <2>2 DEF SInv
<1>5. CASE sem' = sem /\ "sem" \in exists /\ Is("pos_szemafor")
  <2>1. SUnits = sem /\ sem \in Nat /\ sem <= run /\ SBound' = run'
    BY <1>3, <1>5 DEF SInv, SForked, SCount, SUnits, SBound, Is
  <2>2. SCount'
    BY <1>1, <1>3, <1>5, <2>1 DEF SInv, SForked, SCount
  <2>3. SMemory'
    BY <1>3, <1>5, <2>1 DEF SInv, SForked, SMemory, S!NoLocals
  <2> QED BY <1>2, <2>2, <2>3 DEF SInv
<1> QED BY <1>4, <1>5

LEMMA SInvariant ==
  /\ S!Init => SInv
  /\ SInv /\ (S!Next \/ UNCHANGED vars) /\ UNCHANGED program => SInv'
  /\ SInv /\ Is("szemafor") => S!TypeOK
  /\ SInv => S!ReadsTheText /\ S!NoUseAfterRemoval
<1>1. ASSUME S!Init PROVE SInv
  <2>1. SForked
    BY <1>1, MaxRunsAssumption
       DEF S!Init, S!IpcInit, S!Processes, S!NoLocals, S!NoText, SForked
  <2>2. sem = 0 /\ run = 0 /\ exists = {} /\ pc["main"] = "off" /\ pc["child"] = "off"
        /\ mem["eredmeny"] = "unset" /\ shm["s"] = "zero"
    BY <1>1 DEF S!Init, S!IpcInit, S!Processes, S!NoLocals, S!NoText
  <2> QED BY <2>1, <2>2 DEF SInv, SCount, SMemory, SUnits, SBound
<1>2. ASSUME SInv, S!Start(S!Processes, {}, S!NoLocals, S!szemafor_letrehozas), UNCHANGED program
      PROVE  SInv'
  <2>1. /\ \A p \in S!Processes : pc[p] \in {"off", "exited", "done"}
        /\ run < MaxRuns + 1 /\ run' = run + 1 /\ mem' = S!NoLocals
        /\ pc' = [p \in S!Processes |-> IF p = "main" THEN "fork1" ELSE "off"] /\ UNCHANGED shm
        /\ exists' = exists \cup {"sem", "queue"} /\ sem' = 0
    BY <1>2 DEF S!Start, S!Alive, S!Gone, S!szemafor_letrehozas, S!semaphoreCreation
  <2> QED BY <1>2, <2>1, SStarts
<1>3. ASSUME SInv, UNCHANGED vars, UNCHANGED program PROVE SInv'
  BY <1>3 DEF vars, zhVars, ipc, SInv, SForked, SCount, SUnits, SBound, SMemory, Is
<1>4. ASSUME SInv, Is("szemafor") PROVE S!TypeOK
  <2>1. run \in 0..(MaxRuns + 1)
    BY <1>4, MaxRunsAssumption DEF SInv, SForked
  <2>2. sem \in 0..1
    BY <1>4 DEF SInv, SCount, SUnits, SBound, Is
  <2> QED BY <1>4, <2>1, <2>2, Zenon DEF S!TypeOK, SInv, SForked, SMemory, SText
<1>5. SInv => S!ReadsTheText /\ S!NoUseAfterRemoval
  BY DEF SInv, SForked, SMemory, SText, S!ReadsTheText, S!NoUseAfterRemoval
<1> QED BY <1>1, <1>2, <1>3, <1>4, <1>5, SChild, SMain DEF S!Next

LEMMA PSInvariant ==
  /\ PS!Init => SInv
  /\ SInv /\ (PS!Next \/ UNCHANGED vars) /\ UNCHANGED program /\ Is("pos_szemafor") => SInv'
  /\ SInv /\ Is("pos_szemafor") => PS!TypeOK
  /\ SInv => PS!ReadsTheText /\ PS!NoUseAfterRemoval
<1>1. PS!Init => SInv
  BY SInvariant DEF PS!Init, PS!IpcInit, PS!Processes, PS!NoLocals, PS!NoText,
                    S!Init, S!IpcInit, S!Processes, S!NoLocals, S!NoText
<1>2. ASSUME SInv, PS!Start(PS!Processes, {}, PS!NoLocals, PS!szemafor_letrehozas),
             UNCHANGED program, Is("pos_szemafor")
      PROVE  SInv'
  <2>1. /\ \A p \in S!Processes : pc[p] \in {"off", "exited", "done"}
        /\ run < MaxRuns + 1 /\ run' = run + 1 /\ mem' = S!NoLocals
        /\ pc' = [p \in S!Processes |-> IF p = "main" THEN "fork1" ELSE "off"] /\ UNCHANGED shm
        /\ exists' = exists \cup {"sem", "queue"}
        /\ sem' = 0 \/ (sem' = sem /\ "sem" \in exists)
    BY <1>2 DEF PS!Start, PS!Alive, PS!Gone, PS!szemafor_letrehozas, PS!semaphoreCreation,
                PS!Processes, S!Processes, PS!NoLocals, S!NoLocals
  <2> QED BY <1>2, <2>1, SStarts
<1>3. PS!child => S!child
  BY DEF PS!child, S!child, PS!SemOp, S!SemOp, PS!LoadShm, S!LoadShm, PS!Step, S!Step, PS!ipc, S!ipc
<1>4. PS!Main => S!Main
  BY DEF PS!Main, S!Main, PS!Fork, S!Fork, PS!StoreShm, S!StoreShm, PS!SemOp, S!SemOp, PS!Wait, S!Wait,
         PS!RemoveSem, S!RemoveSem, PS!RemoveShm, S!RemoveShm, PS!NoText, S!NoText, PS!Step, S!Step,
         PS!ipc, S!ipc
<1>5. PS!Interrupt(PS!Processes) => S!Interrupt(S!Processes)
  BY DEF PS!Interrupt, S!Interrupt, PS!Alive, S!Alive, PS!Gone, S!Gone, PS!Processes, S!Processes,
         PS!ipc, S!ipc
<1>6. SInv /\ UNCHANGED vars /\ UNCHANGED program => SInv'
  BY SInvariant
<1>7. ASSUME SInv, Is("pos_szemafor") PROVE PS!TypeOK
  <2>1. run \in 0..(MaxRuns + 1)
    BY <1>7, MaxRunsAssumption DEF SInv, SForked
  <2>2. sem \in 0..(MaxRuns + 1)
    BY <1>7, MaxRunsAssumption DEF SInv, SForked, SCount, SUnits, SBound, Is
  <2> QED BY <1>7, <2>1, <2>2, Zenon
          DEF PS!TypeOK, PS!Processes, S!Processes, SInv, SForked, SMemory, SText
<1>8. SInv => PS!ReadsTheText /\ PS!NoUseAfterRemoval
  BY DEF SInv, SForked, SMemory, SText, PS!ReadsTheText, PS!NoUseAfterRemoval
<1> QED BY <1>1, <1>2, <1>3, <1>4, <1>5, <1>6, <1>7, <1>8, SChild, SMain DEF PS!Next

(***************************************************************************)
(* The POSIX message queue (6. Gyak/mq_uzenet.c)                           *)
(***************************************************************************)

MQForked ==
  /\ DOMAIN pc = MQ!Processes /\ DOMAIN mem = {"rcv_buf", "notify"}
  /\ pc["child"] \in {"off", "start", "exited"}
  /\ pc["main"] \in {"off", "fork1", "mq_notify", "fork", "exited"} => pc["child"] = "off"
  /\ pc["main"] \notin {"off", "done"} => "queue" \in exists
  /\ exists \subseteq {"sem", "queue"} /\ run \in Nat /\ run <= MaxRuns
  /\ pending \in BOOLEAN /\ mem["notify"] \in BOOLEAN /\ ready \in {0, 1}

\* A queue that holds at most one message, the child's of a run
MQMessages == [from : {"child"}, run : Nat, type : {30}, text : {"Hajra Vasas!"}]
MQQueue ==
  /\ queue \in Seq(MQMessages) /\ Len(queue) <= 1
  /\ pc["main"] \in {"mq_notify", "fork", "exited"} => queue = <<>>
  /\ pc["child"] = "start" => queue = <<>>

\* The child has not sent yet and main waits for its signal, or it has sent and
\* its signal, which the empty queue made sure of, is pending or heard.
MQSignal ==
  /\ pc["main"] \in {"fork1", "mq_notify", "fork", "exited"} => ~pending /\ ready = 0
  /\ pc["main"] = "fork" => mem["notify"]
  /\ pc["child"] = "start" =>
       ~pending /\ ready = 0 /\ mem["notify"] /\ pc["main"] \in {"waitpid", "code"}
  /\ pc["main"] # "off" /\ pending => ready = 0 /\ pc["main"] \in {"waitpid", "code"}
  /\ pc["main"] # "off" /\ (pending \/ ready = 1) => pc["child"] = "exited"
  /\ pc["main"] \in {"mq_receive", "mq_unlink", "done"} => ready = 1

\* The message is there from its send to its receipt.
MQMessage ==
  /\ pc["main"] \in {"waitpid", "code", "mq_receive"} /\ pc["child"] = "exited"
       => queue # <<>> /\ \A m \in Range(queue) : m.run = run
  /\ pc["main"] \in {"mq_unlink", "done"} => mem["rcv_buf"].run = run

MQInv == MQForked /\ MQQueue /\ MQSignal /\ MQMessage

LEMMA MQInitially == ASSUME MQ!Init PROVE MQInv
<1> USE DEF MQ!Init, MQ!IpcInit, MQ!Processes, MQ!NoLocals
<1>1. pending \in BOOLEAN /\ mem["notify"] \in BOOLEAN
  BY Zenon
<1>2. MQForked
  BY <1>1, MaxRunsAssumption DEF MQForked
<1>3. queue \in Seq(MQMessages) /\ Len(queue) <= 1
  OBVIOUS
<1> QED BY <1>2, <1>3 DEF MQInv, MQQueue, MQSignal, MQMessage

\* The child's message
LEMMA MQSend == ASSUME MQInv, MQ!mq_send PROVE MQInv'
<1> USE DEF MQ!Processes, MQ!Step
<1> DEFINE m == [from |-> "child", run |-> run, type |-> 30, text |-> "Hajra Vasas!"]
<1>1. /\ pc["child"] = "start" /\ pc' = [pc EXCEPT !["child"] = "exited"]
      /\ queue' = Append(queue, m) /\ UNCHANGED <<ready, exists, run>>
  BY DEF MQ!mq_send, MQ!Message
<1>2. queue = <<>> /\ ~pending /\ ready = 0 /\ mem["notify"] /\ pc["main"] \in {"waitpid", "code"}
  BY <1>1 DEF MQInv, MQQueue, MQSignal
<1>3. pending' /\ pending' \in BOOLEAN /\ mem' = [mem EXCEPT !["notify"] = FALSE]
  BY <1>2 DEF MQ!mq_send
<1>4. m \in MQMessages /\ m.run = run
  BY DEF MQInv, MQForked, MQMessages
<1> HIDE DEF m
<1>5. queue' = <<m>>
  BY <1>1, <1>2, WriteOne
<1>6. queue' \in Seq(MQMessages) /\ Len(queue') <= 1 /\ queue' # <<>> /\ \A n \in Range(queue') : n.run = run
  BY <1>4, <1>5 DEF Range
<1>7. mem'["notify"] \in BOOLEAN /\ DOMAIN mem' = DOMAIN mem /\ mem'["rcv_buf"] = mem["rcv_buf"]
  <2>1. DOMAIN mem' = DOMAIN mem /\ mem'["rcv_buf"] = mem["rcv_buf"] /\ mem'["notify"] = FALSE
    BY <1>3 DEF MQInv, MQForked
  <2> QED BY <2>1, Zenon
<1>8. MQForked'
  BY <1>1, <1>2, <1>3, <1>7 DEF MQInv, MQForked
<1>9. MQQueue' /\ MQSignal' /\ MQMessage'
  BY <1>1, <1>2, <1>3, <1>6, <1>7 DEF MQInv, MQForked, MQQueue, MQSignal, MQMessage
<1> QED BY <1>8, <1>9 DEF MQInv

\* Main up to the receipt
LEMMA MQMain == ASSUME MQInv, MQ!Main PROVE MQInv'
<1> USE DEF MQ!Processes, MQ!Step, MQ!ipc
<1>1. CASE MQ!mq_unlink
  <2>1. /\ pc["main"] = "fork1" /\ pc' = [pc EXCEPT !["main"] = "mq_notify"] /\ queue' = <<>>
        /\ UNCHANGED <<pending, ready, mem, exists, run>>
    BY <1>1 DEF MQ!mq_unlink
  <2>2. queue' \in Seq(MQMessages) /\ Len(queue') <= 1
    BY <2>1
  <2> QED BY <2>1, <2>2 DEF MQInv, MQForked, MQQueue, MQSignal, MQMessage
<1>2. CASE MQ!mq_notify /\ UNCHANGED MQ!ipc
  <2>1. /\ pc["main"] = "mq_notify" /\ pc' = [pc EXCEPT !["main"] = "fork"]
        /\ mem' = [mem EXCEPT !["notify"] = TRUE]
        /\ UNCHANGED <<pending, ready, queue, exists, run>>
    BY <1>2 DEF MQ!mq_notify, MQ!Assign
  <2>2. /\ DOMAIN mem' = DOMAIN mem /\ mem'["rcv_buf"] = mem["rcv_buf"] /\ mem'["notify"] = TRUE
    BY <2>1 DEF MQInv, MQForked
  <2>3. mem'["notify"] \in BOOLEAN /\ mem'["notify"]
    BY <2>2, Zenon
  <2>4. MQForked'
    BY <2>1, <2>2, <2>3 DEF MQInv, MQForked
  <2>5. MQQueue' /\ MQSignal' /\ MQMessage'
    BY <2>1, <2>2, <2>3 DEF MQInv, MQForked, MQQueue, MQSignal, MQMessage
  <2> QED BY <2>4, <2>5 DEF MQInv
<1>3. CASE MQ!Fork("child", "fork", "waitpid") /\ UNCHANGED MQ!ipc
  <2>1. /\ pc["main"] = "fork" /\ pc["child"] = "off"
        /\ \/ pc' = [pc EXCEPT !["main"] = "waitpid", !["child"] = "start"]
           \/ pc' = [pc EXCEPT !["main"] = "exited"]
        /\ UNCHANGED <<pending, ready, mem, queue, exists, run>>
    BY <1>3 DEF MQ!Fork, MQInv, MQForked
  <2> QED BY <2>1 DEF MQInv, MQForked, MQQueue, MQSignal, MQMessage
<1>4. CASE \/ MQ!waitpid /\ UNCHANGED MQ!ipc
           \/ MQ!AwaitReady(1, "code", "mq_receive") /\ UNCHANGED MQ!ipc
  <2>1. /\ \/ pc["main"] = "waitpid" /\ pc' = [pc EXCEPT !["main"] = "code"]
           \/ pc["main"] = "code" /\ ready >= 1 /\ pc' = [pc EXCEPT !["main"] = "mq_receive"]
        /\ UNCHANGED <<pending, ready, mem, queue, exists, run>>
    BY <1>4 DEF MQ!waitpid, MQ!Wait, MQ!Jump, MQ!AwaitReady
  <2>2. ready >= 1 => ready = 1
    BY DEF MQInv, MQForked
  <2> QED BY <2>1, <2>2 DEF MQInv, MQForked, MQQueue, MQSignal, MQMessage
<1>5. CASE MQ!MsgRcv("main", "mq_receive", "mq_unlink", 30, "rcv_buf")
  <2>1. /\ pc["main"] = "mq_receive" /\ pc' = [pc EXCEPT !["main"] = "mq_unlink"]
        /\ UNCHANGED <<pending, ready, exists, run>>
    BY <1>5 DEF MQ!MsgRcv
  <2>2. MsgRcv("main", "mq_receive", "mq_unlink", 30, "rcv_buf")
    BY <1>5 DEF MQ!MsgRcv, MsgRcv, Step
  <2>3. queue' \in Seq(MQMessages) /\ Len(queue') <= Len(queue) /\ Received("rcv_buf", 30)
    BY <2>2, Receives DEF MQInv, MQQueue
  <2>4. PICK m \in Range(queue) : mem' = [mem EXCEPT !["rcv_buf"] = m]
    <3>1. "queue" \in exists
      BY <2>1 DEF MQInv, MQForked
    <3> QED BY <2>3, <3>1 DEF Received
  <2>5. ready = 1 /\ pc["child"] = "exited" /\ m.run = run
    BY <2>1 DEF MQInv, MQForked, MQSignal, MQMessage
  <2>6. DOMAIN mem' = DOMAIN mem /\ mem'["rcv_buf"] = m /\ mem'["notify"] = mem["notify"]
    BY <2>4 DEF MQInv, MQForked
  <2>7. Len(queue') <= 1
    <3>1. ASSUME NEW s \in Seq(MQMessages), NEW t \in Seq(MQMessages), Len(t) <= Len(s), Len(s) <= 1
          PROVE  Len(t) <= 1
      BY <3>1
    <3> QED BY <2>3, <3>1 DEF MQInv, MQQueue
  <2>8. MQForked'
    BY <2>1, <2>6 DEF MQInv, MQForked
  <2>9. MQQueue' /\ MQSignal' /\ MQMessage'
    BY <2>1, <2>3, <2>5, <2>6, <2>7 DEF MQInv, MQForked, MQQueue, MQSignal, MQMessage
  <2> QED BY <2>8, <2>9 DEF MQInv
<1>6. CASE MQ!RemoveQueue("mq_unlink")
  <2>1. /\ pc["main"] = "mq_unlink" /\ pc' = [pc EXCEPT !["main"] = "done"]
        /\ exists' = exists \ {"queue"} /\ queue' = <<>>
        /\ UNCHANGED <<pending, ready, mem, run>>
    BY <1>6 DEF MQ!RemoveQueue
  <2>2. queue' \in Seq(MQMessages) /\ Len(queue') <= 1
    BY <2>1
  <2> QED BY <2>1, <2>2 DEF MQInv, MQForked, MQQueue, MQSignal, MQMessage
<1> QED BY <1>1, <1>2, <1>3, <1>4, <1>5, <1>6 DEF MQ!Main

LEMMA MQInductive == ASSUME MQInv, MQ!Next PROVE MQInv'
<1> USE DEF MQ!Processes, MQ!Step, MQ!ipc
<1>1. CASE MQ!Start(MQ!Processes, {}, MQ!NoLocals, 0)
  <2>1. /\ pc' = [p \in MQ!Processes |-> IF p = "main" THEN "fork1" ELSE "off"]
        /\ run < MaxRuns /\ run' = run + 1 /\ pending' = FALSE /\ ready' = 0
        /\ mem' = MQ!NoLocals /\ exists' = exists \cup {"sem", "queue"} /\ UNCHANGED queue
    BY <1>1 DEF MQ!Start
  <2>2. run' \in Nat /\ run' <= MaxRuns
    BY <2>1, MaxRunsAssumption DEF MQInv, MQForked
  <2>3. pending' \in BOOLEAN /\ mem'["notify"] \in BOOLEAN
    BY <2>1, Zenon DEF MQ!NoLocals
  <2>4. MQForked'
    BY <2>1, <2>2, <2>3 DEF MQInv, MQForked, MQ!NoLocals
  <2>5. MQQueue' /\ MQSignal' /\ MQMessage'
    BY <2>1 DEF MQInv, MQQueue, MQSignal, MQMessage
  <2> QED BY <2>4, <2>5 DEF MQInv
<1>2. CASE MQ!Interrupt(MQ!Processes)
  <2>1. /\ pc' = [p \in MQ!Processes |-> "off"]
        /\ UNCHANGED <<pending, ready, mem, queue, exists, run>>
    BY <1>2 DEF MQ!Interrupt
  <2> QED BY <2>1 DEF MQInv, MQForked, MQQueue, MQSignal, MQMessage
<1>3. CASE MQ!Deliver /\ UNCHANGED MQ!ipc
  <2>1. /\ pending /\ pending' = FALSE /\ ready' = ready + 1 /\ pc["main"] # "off"
        /\ UNCHANGED <<pc, mem, queue, exists, run>>
    BY <1>3 DEF MQ!Deliver, MQ!Alive, MQ!Gone
  <2>2. pending' \in BOOLEAN
    BY <2>1, Zenon
  <2>3. ready = 0 /\ ready' = 1 /\ pc["main"] \in {"waitpid", "code"} /\ pc["child"] = "exited"
    BY <2>1 DEF MQInv, MQSignal
  <2> QED BY <2>1, <2>2, <2>3 DEF MQInv, MQForked, MQQueue, MQSignal, MQMessage
<1> QED BY <1>1, <1>2, <1>3, MQSend, MQMain DEF MQ!Next

LEMMA MQInvariant ==
  /\ MQ!Init => MQInv
  /\ MQInv /\ (MQ!Next \/ UNCHANGED vars) => MQInv'
  /\ MQInv => MQ!TypeOK /\ MQ!FromTheChild /\ MQ!NoUseAfterRemoval
<1>1. ASSUME MQInv, UNCHANGED vars PROVE MQInv'
  BY <1>1 DEF vars, zhVars, ipc, MQInv, MQForked, MQQueue, MQSignal, MQMessage
<1>2. ASSUME MQInv PROVE MQ!TypeOK
  <2>1. run \in 0..MaxRuns /\ ready \in 0..1
    BY <1>2, MaxRunsAssumption DEF MQInv, MQForked
  <2> QED BY <1>2, <2>1, Zenon DEF MQ!TypeOK, MQInv, MQForked, MQQueue
<1>3. MQInv => MQ!FromTheChild /\ MQ!NoUseAfterRemoval
  BY DEF MQInv, MQForked, MQSignal, MQMessage, MQ!FromTheChild, MQ!NoUseAfterRemoval
<1> QED BY <1>1, <1>2, <1>3, MQInitially, MQInductive

(***************************************************************************)
(* Shared memory without a semaphore (6. Gyak/osztmem.c)                   *)
(***************************************************************************)

OTexts == {"zero", "a part", "Hajra Fradi!"}
LEMMA OText == "zero" \in OTexts /\ "a part" \in OTexts /\ "Hajra Fradi!" \in OTexts /\ "unset" \notin OTexts
BY Zenon DEF OTexts

\* The child is there from its fork to its exit, and the memory is removed after that.
OInv ==
  /\ DOMAIN pc = O!Processes /\ DOMAIN mem = {"eredmeny"} /\ DOMAIN shm = {"s"}
  /\ pc["main"] \in {"off", "fork1", "exited"} => pc["child1"] = "off"
  /\ pc["main"] \in {"shmctl", "done"} => pc["child1"] = "exited"
  /\ run \in Nat /\ run <= MaxRuns
  /\ shm["s"] \in OTexts /\ mem["eredmeny"] \in OTexts \cup {"unset"}
  /\ pc["child1"] = "exited" => mem["eredmeny"] # "unset"
  /\ pc["main"] = "done" => shm = O!NoText

LEMMA OInductive == ASSUME OInv, O!Next PROVE OInv'
<1> USE DEF OInv, O!Processes, O!Step, O!ipc, O!NoText
<1>1. CASE O!Start(O!Processes, {}, O!NoLocals, 0)
  <2>1. /\ pc' = [p \in O!Processes |-> IF p = "main" THEN "fork1" ELSE "off"]
        /\ run < MaxRuns /\ run' = run + 1 /\ mem' = O!NoLocals /\ UNCHANGED shm
    BY <1>1 DEF O!Start
  <2>2. run' \in Nat /\ run' <= MaxRuns
    BY <2>1, MaxRunsAssumption
  <2> QED BY <2>1, <2>2, OText DEF O!NoLocals
<1>2. CASE O!Interrupt(O!Processes)
  BY <1>2 DEF O!Interrupt
<1>3. CASE O!Fork("child1", "fork1", "strcpy") /\ UNCHANGED O!ipc
  BY <1>3 DEF O!Fork
<1>4. CASE \/ O!StoreShm("main", "strcpy", "strcpy end", "s", "a part")
           \/ O!StoreShm("main", "strcpy end", "wait", "s", "Hajra Fradi!")
  <2>1. PICK from \in {"strcpy", "strcpy end"}, to \in {"strcpy end", "wait"}, text \in OTexts :
          /\ pc["main"] = from /\ pc' = [pc EXCEPT !["main"] = to]
          /\ shm' = [shm EXCEPT !["s"] = text] /\ UNCHANGED <<mem, run>>
    BY <1>4, OText, Zenon DEF O!StoreShm
  <2> QED BY <2>1
<1>5. CASE O!Wait({"child1"}, "wait", "shmctl") /\ UNCHANGED O!ipc
  <2>1. pc["main"] = "wait" /\ pc["child1"] = "exited" /\ pc' = [pc EXCEPT !["main"] = "shmctl"]
        /\ UNCHANGED <<mem, shm, run>>
    BY <1>5 DEF O!Wait
  <2> QED BY <2>1
<1>6. CASE O!RemoveShm("shmctl", O!NoText)
  BY <1>6, OText DEF O!RemoveShm
<1>7. CASE O!child1
  BY <1>7, OText DEF O!child1, O!LoadShm
<1> QED BY <1>1, <1>2, <1>3, <1>4, <1>5, <1>6, <1>7 DEF O!Next, O!Main

LEMMA OInvariant ==
  /\ O!Init => OInv
  /\ OInv /\ (O!Next \/ UNCHANGED vars) => OInv'
  /\ OInv => O!TypeOK /\ O!NoUseAfterRemoval
<1>1. O!Init => OInv
  <2>1. ASSUME O!Init
        PROVE  /\ pc = [p \in O!Processes |-> "off"] /\ mem = O!NoLocals /\ shm = O!NoText
               /\ run = 0 /\ run \in Nat /\ run <= MaxRuns
    BY <2>1, MaxRunsAssumption DEF O!Init, O!IpcInit
  <2> QED BY <2>1, OText DEF OInv, O!Processes, O!NoLocals, O!NoText
<1>2. ASSUME OInv, UNCHANGED vars PROVE OInv'
  BY <1>2 DEF vars, zhVars, ipc, OInv
<1>3. ASSUME OInv PROVE O!TypeOK
  <2>1. run \in 0..MaxRuns
    BY <1>3, MaxRunsAssumption DEF OInv
  <2>2. \A x \in {shm["s"], mem["eredmeny"]} : x \in {"zero", "a part", "Hajra Fradi!", "unset"}
    BY <1>3, Zenon DEF OInv, OTexts
  <2> QED BY <1>3, <2>1, <2>2, Zenon DEF O!TypeOK, OInv
<1>4. OInv => O!NoUseAfterRemoval
  BY DEF OInv, O!NoUseAfterRemoval
<1> QED BY <1>1, <1>2, <1>3, <1>4, OInductive

(***************************************************************************)
(* Waiting for data in a FIFO (5.Gyak/poll_cso.c, sel_cso.c, ppoll.cso.c)  *)
(***************************************************************************)

\* Where the child can be when the parent is where it is; in the branch of the
\* child, the parent has no child.
POForked ==
  /\ DOMAIN pc = PO!Processes /\ DOMAIN pipe = {"namedpipe"}
  /\ DOMAIN mem = {"i", "data", "signalled"}
  /\ pc["main"] \in {"off", "fork1", "fork", "exited", "start", "poll", "read"} => pc["child"] = "off"
  /\ pc["main"] \in {"rand", "write", "kill", "wait"} => pc["child"] # "off"
  /\ pc["main"] \in {"unlink", "done"} => pc["child"] \in {"off", "exited"}
  /\ pc["child"] \in {"off", "start", "poll", "read", "unlink", "exited"}
  /\ pc["main"] = "write" => program # "ppoll"
  /\ pc["main"] = "kill" => program = "ppoll"
  /\ mem["signalled"] \in BOOLEAN /\ (mem["signalled"] => program = "ppoll")

PONames ==
  /\ exists \subseteq {"sem", "queue", "fifo"} /\ run \in Nat /\ run <= MaxRuns
  /\ PO!NameRemoved

\* The number is not written yet, or it is in the pipe, or the child has it.
PONothing == pipe["namedpipe"] = <<>> /\ mem["data"] = "unset" /\ pc["child"] # "read"
POInPipe == pipe["namedpipe"] = <<mem["i"]>> /\ mem["data"] = "unset" /\ mem["i"] \in Numbers
PORead ==
  /\ pipe["namedpipe"] = <<>> /\ mem["data"] = mem["i"] /\ mem["i"] \in Numbers
  /\ pc["child"] \in {"unlink", "exited"}
PONumber ==
  /\ pc["main"] \in {"write", "kill"} => mem["i"] \in Numbers
  /\ pc["main"] = "read" => FALSE
  /\ pc["main"] \in {"wait"} \/ (pc["main"] \in {"unlink", "done"} /\ pc["child"] # "off") =>
       IF program = "ppoll" THEN PONothing ELSE POInPipe \/ PORead
  /\ pc["main"] \notin {"off", "wait", "unlink", "done"} \/ (pc["main"] # "off" /\ pc["child"] = "off")
       => PONothing
  /\ mem["data"] \in {"unset", mem["i"]}
  /\ pipe["namedpipe"] = <<>> \/ POInPipe
  /\ program = "sel_cso" /\ pc["child"] \in {"unlink", "exited"} => mem["data"] # "unset"
  /\ program = "sel_cso" /\ pc["main"] \in {"unlink", "done"} => pc["child"] = "exited"

POInv == POForked /\ PONames /\ PONumber

LEMMA POInitially == ASSUME PO!Init, IsPoll PROVE POInv
<1> USE DEF PO!Init, PO!IpcInit, PO!Processes, PO!NoLocals
<1>1. mem["signalled"] = FALSE /\ mem["signalled"] \in BOOLEAN
  BY Zenon
<1>2. POForked
  BY <1>1 DEF POForked
<1>3. PONames
  BY MaxRunsAssumption DEF PONames, PO!NameRemoved
<1>4. PONumber
  BY DEF PONumber
<1> QED BY <1>2, <1>3, <1>4 DEF POInv

\* The branch of the child, by the child
LEMMA POChild == ASSUME POInv, PO!child PROVE POInv'
<1> USE DEF POForked, PO!Processes, PO!Step, PO!ipc
<1>0. UNCHANGED program
  BY DEF PO!child
<1>1. CASE \/ PO!Jump("child", "start", "poll") /\ UNCHANGED PO!ipc
           \/ PO!Poll("child") /\ UNCHANGED PO!ipc
  <2>1. /\ UNCHANGED <<pipe, mem, exists, run>>
        /\ \/ pc["child"] = "start" /\ pc' = [pc EXCEPT !["child"] = "poll"]
           \/ /\ pc["child"] = "poll" /\ pc' = [pc EXCEPT !["child"] = "read"]
              /\ pipe["namedpipe"] # <<>>
           \/ /\ pc["child"] = "poll" /\ pc' = [pc EXCEPT !["child"] = "unlink"]
              /\ mem["signalled"] \/ program # "sel_cso"
    BY <1>1 DEF PO!Poll, PO!Jump
  <2>2. (mem["signalled"] \/ program # "sel_cso") => program # "sel_cso"
    BY DEF POInv
  <2>3. POForked' /\ PONames'
    BY <1>0, <2>1 DEF POInv, PONames, PO!NameRemoved
  <2>4. PONumber'
    BY <1>0, <2>1, <2>2 DEF POInv, PONumber, PONothing, POInPipe, PORead
  <2> QED BY <2>3, <2>4 DEF POInv
<1>2. CASE PO!Read("child", "read", "unlink", "namedpipe", "data") /\ UNCHANGED PO!ipc
  <2>1. /\ pc["child"] = "read" /\ pc' = [pc EXCEPT !["child"] = "unlink"]
        /\ pipe["namedpipe"] # <<>> /\ pipe' = [pipe EXCEPT !["namedpipe"] = Tail(pipe["namedpipe"])]
        /\ mem' = [mem EXCEPT !["data"] = Head(pipe["namedpipe"])] /\ UNCHANGED <<exists, run>>
    BY <1>2 DEF PO!Read, POInv
  <2>2. POInPipe
    BY <2>1 DEF POInv, PONumber
  <2>3. Head(pipe["namedpipe"]) = mem["i"] /\ Tail(pipe["namedpipe"]) = <<>>
    BY <2>2, ReadOne DEF POInPipe
  <2>4. POForked' /\ PONames'
    BY <1>0, <2>1 DEF POInv, PONames, PO!NameRemoved
  <2>5. PONumber'
    BY <1>0, <2>1, <2>2, <2>3, NumbersAssumption
       DEF POInv, PONumber, PONothing, POInPipe, PORead
  <2> QED BY <2>4, <2>5 DEF POInv
<1>3. CASE PO!unlink("child", "exited")
  <2>1. /\ pc["child"] = "unlink" /\ pc' = [pc EXCEPT !["child"] = "exited"]
        /\ exists' = exists \ {"fifo"} /\ UNCHANGED <<pipe, mem, run>>
    BY <1>3 DEF PO!unlink
  <2>2. POForked' /\ PONames'
    BY <1>0, <2>1 DEF POInv, PONames, PO!NameRemoved
  <2>3. PONumber'
    BY <1>0, <2>1 DEF POInv, PONumber, PONothing, POInPipe, PORead
  <2> QED BY <2>2, <2>3 DEF POInv
<1> QED BY <1>1, <1>2, <1>3 DEF PO!child, PO!Branch

\* The same by the parent: nothing comes, so that it never reads
LEMMA POMainBranch ==
  ASSUME POInv, PO!Branch("main", "done"), UNCHANGED program PROVE POInv'
<1> USE DEF POForked, PO!Processes, PO!Step, PO!ipc
<1>1. CASE \/ PO!Jump("main", "start", "poll") /\ UNCHANGED PO!ipc
           \/ PO!Poll("main") /\ UNCHANGED PO!ipc
  <2>1. /\ UNCHANGED <<pipe, mem, exists, run>>
        /\ \/ pc["main"] = "start" /\ pc' = [pc EXCEPT !["main"] = "poll"]
           \/ /\ pc["main"] = "poll" /\ pc' = [pc EXCEPT !["main"] = "read"]
              /\ pipe["namedpipe"] # <<>>
           \/ /\ pc["main"] = "poll" /\ pc' = [pc EXCEPT !["main"] = "unlink"]
              /\ mem["signalled"] \/ program # "sel_cso"
    BY <1>1 DEF PO!Poll, PO!Jump
  <2>2. (mem["signalled"] \/ program # "sel_cso") => program # "sel_cso"
    BY DEF POInv
  <2>3. pipe["namedpipe"] = <<>>
    BY <2>1 DEF POInv, PONumber, PONothing
  <2>4. POForked' /\ PONames'
    BY <2>1 DEF POInv, PONames, PO!NameRemoved
  <2>5. PONumber'
    BY <2>1, <2>2, <2>3 DEF POInv, PONumber, PONothing, POInPipe, PORead
  <2> QED BY <2>4, <2>5 DEF POInv
<1>2. CASE PO!Read("main", "read", "unlink", "namedpipe", "data")
  <2>1. pc["main"] = "read"
    BY <1>2 DEF PO!Read
  <2> QED BY <2>1 DEF POInv, PONumber
<1>3. CASE PO!unlink("main", "done")
  <2>1. /\ pc["main"] = "unlink" /\ pc' = [pc EXCEPT !["main"] = "done"]
        /\ exists' = exists \ {"fifo"} /\ UNCHANGED <<pipe, mem, run>>
    BY <1>3 DEF PO!unlink
  <2>2. POForked' /\ PONames'
    BY <2>1 DEF POInv, PONames, PO!NameRemoved
  <2>3. PONumber'
    BY <2>1 DEF POInv, PONumber, PONothing, POInPipe, PORead
  <2> QED BY <2>2, <2>3 DEF POInv
<1> QED BY <1>1, <1>2, <1>3 DEF PO!Branch

LEMMA POMain == ASSUME POInv, PO!Main PROVE POInv'
<1> USE DEF POForked, PO!Processes, PO!Step, PO!ipc
<1>0. UNCHANGED program
  BY DEF PO!Main
<1>1. CASE PO!mkfifo
  <2>1. /\ \/ pc["main"] = "fork1" /\ pc' = [pc EXCEPT !["main"] = "exited"] /\ UNCHANGED exists
           \/ /\ pc["main"] = "fork1" /\ pc' = [pc EXCEPT !["main"] = "fork"]
              /\ exists' = exists \cup {"fifo"}
        /\ UNCHANGED <<pipe, mem, run>>
    BY <1>1 DEF PO!mkfifo
  <2>2. POForked' /\ PONames'
    BY <1>0, <2>1 DEF POInv, PONames, PO!NameRemoved
  <2>3. PONumber'
    BY <1>0, <2>1 DEF POInv, PONumber, PONothing, POInPipe, PORead
  <2> QED BY <2>2, <2>3 DEF POInv
<1>2. CASE PO!ForkOrBranch /\ UNCHANGED PO!ipc
  <2>1. /\ pc["main"] = "fork" /\ pc["child"] = "off"
        /\ \/ pc' = [pc EXCEPT !["main"] = "rand", !["child"] = "start"]
           \/ pc' = [pc EXCEPT !["main"] = "start"]
        /\ UNCHANGED <<pipe, mem, exists, run>>
    BY <1>2 DEF PO!ForkOrBranch, POInv
  <2>2. POForked' /\ PONames'
    BY <1>0, <2>1 DEF POInv, PONames, PO!NameRemoved
  <2>3. PONumber'
    BY <1>0, <2>1 DEF POInv, PONumber, PONothing, POInPipe, PORead
  <2> QED BY <2>2, <2>3 DEF POInv
<1>3. CASE /\ \E n \in Numbers :
                PO!Assign("main", "rand", IF program = "ppoll" THEN "kill" ELSE "write", "i", n)
           /\ UNCHANGED PO!ipc
  <2>1. PICK n \in Numbers :
          /\ pc["main"] = "rand"
          /\ \/ program = "ppoll" /\ pc' = [pc EXCEPT !["main"] = "kill"]
             \/ program # "ppoll" /\ pc' = [pc EXCEPT !["main"] = "write"]
          /\ mem' = [mem EXCEPT !["i"] = n] /\ UNCHANGED <<pipe, exists, run>>
    BY <1>3 DEF PO!Assign
  <2>2. POForked' /\ PONames'
    BY <1>0, <2>1 DEF POInv, PONames, PO!NameRemoved
  <2>3. PONumber'
    BY <1>0, <2>1 DEF POInv, PONumber, PONothing, POInPipe, PORead
  <2> QED BY <2>2, <2>3 DEF POInv
<1>4. CASE PO!Write("main", "write", "wait", "namedpipe", mem["i"]) /\ UNCHANGED PO!ipc
  <2>1. /\ pc["main"] = "write" /\ pc' = [pc EXCEPT !["main"] = "wait"]
        /\ pipe' = [pipe EXCEPT !["namedpipe"] = Append(pipe["namedpipe"], mem["i"])]
        /\ UNCHANGED <<mem, exists, run>>
    BY <1>4 DEF PO!Write, POInv
  <2>2. pipe["namedpipe"] = <<>> /\ mem["data"] = "unset" /\ mem["i"] \in Numbers
    BY <2>1 DEF POInv, PONumber, PONothing
  <2>3. pipe'["namedpipe"] = <<mem["i"]>>
    BY <2>1, <2>2, WriteOne DEF POInv
  <2>4. POForked' /\ PONames'
    BY <1>0, <2>1 DEF POInv, PONames, PO!NameRemoved
  <2>5. PONumber'
    BY <1>0, <2>1, <2>2, <2>3 DEF POInv, PONumber, PONothing, POInPipe, PORead
  <2> QED BY <2>4, <2>5 DEF POInv
<1>5. CASE PO!KillChild /\ UNCHANGED PO!ipc
  <2>1. /\ pc["main"] = "kill" /\ program = "ppoll"
        /\ pc' = [pc EXCEPT !["main"] = "wait",
                            !["child"] = IF pc["child"] = "start" THEN "exited" ELSE pc["child"]]
        /\ mem' = [mem EXCEPT !["signalled"] = (pc["child"] = "poll")]
        /\ UNCHANGED <<pipe, exists, run>>
    BY <1>5 DEF PO!KillChild, POInv
  <2>2. /\ DOMAIN mem' = DOMAIN mem /\ mem'["i"] = mem["i"] /\ mem'["data"] = mem["data"]
        /\ mem'["signalled"] \in BOOLEAN
    BY <2>1, Zenon DEF POInv
  <2>3. POForked' /\ PONames'
    BY <1>0, <2>1, <2>2 DEF POInv, PONames, PO!NameRemoved
  <2>4. PONumber'
    BY <1>0, <2>1, <2>2 DEF POInv, PONumber, PONothing, POInPipe, PORead
  <2> QED BY <2>3, <2>4 DEF POInv
<1>6. CASE PO!Wait({"child"}, "wait", "unlink") /\ UNCHANGED PO!ipc
  <2>1. /\ pc["main"] = "wait" /\ pc["child"] = "exited" /\ pc' = [pc EXCEPT !["main"] = "unlink"]
        /\ UNCHANGED <<pipe, mem, exists, run>>
    BY <1>6 DEF PO!Wait
  <2>2. POForked' /\ PONames'
    BY <1>0, <2>1 DEF POInv, PONames, PO!NameRemoved
  <2>3. PONumber'
    BY <1>0, <2>1 DEF POInv, PONumber, PONothing, POInPipe, PORead
  <2> QED BY <2>2, <2>3 DEF POInv
<1> QED BY <1>0, <1>1, <1>2, <1>3, <1>4, <1>5, <1>6, POMainBranch DEF PO!Main

LEMMA POInductive == ASSUME POInv, PO!Next PROVE POInv'
<1> USE DEF POForked, PO!Processes, PO!Step, PO!ipc
<1>1. CASE PO!Start(PO!Processes, {"namedpipe"}, PO!NoLocals, 0) /\ UNCHANGED program
  <2>1. /\ pc' = [p \in PO!Processes |-> IF p = "main" THEN "fork1" ELSE "off"]
        /\ run < MaxRuns /\ run' = run + 1 /\ pipe' = [d \in {"namedpipe"} |-> <<>>]
        /\ mem' = PO!NoLocals /\ exists' = exists \cup {"sem", "queue"} /\ UNCHANGED program
    BY <1>1 DEF PO!Start
  <2>2. run' \in Nat /\ run' <= MaxRuns
    BY <2>1, MaxRunsAssumption DEF POInv, PONames
  <2>3. mem'["signalled"] = FALSE /\ mem'["signalled"] \in BOOLEAN
    BY <2>1, Zenon DEF PO!NoLocals
  <2>4. POForked' /\ PONames'
    BY <2>1, <2>2, <2>3 DEF POInv, PONames, PO!NameRemoved, PO!NoLocals
  <2>5. PONumber'
    BY <2>1 DEF PONumber, PONothing, PO!NoLocals
  <2> QED BY <2>4, <2>5 DEF POInv
<1>2. CASE PO!Interrupt(PO!Processes) /\ UNCHANGED program
  <2>1. /\ pc' = [p \in PO!Processes |-> "off"] /\ UNCHANGED <<pipe, mem, exists, run, program>>
    BY <1>2 DEF PO!Interrupt
  <2>2. POForked' /\ PONames'
    BY <2>1 DEF POInv, PONames, PO!NameRemoved
  <2>3. PONumber'
    BY <2>1 DEF POInv, PONumber, PONothing, POInPipe
  <2> QED BY <2>2, <2>3 DEF POInv
<1> QED BY <1>1, <1>2, POMain, POChild DEF PO!Next

LEMMA POInvariant ==
  /\ PO!Init /\ IsPoll => POInv
  /\ POInv /\ (PO!Next \/ UNCHANGED allVars) => POInv'
  /\ POInv => PO!TypeOK /\ PO!ReadsTheNumber /\ PO!NameRemoved
<1>1. ASSUME POInv, UNCHANGED allVars PROVE POInv'
  <2>1. UNCHANGED <<pc, pipe, mem, exists, run, program>>
    BY <1>1 DEF allVars, vars, zhVars, ipc
  <2>2. POForked' /\ PONames'
    BY <1>1, <2>1 DEF POInv, POForked, PONames, PO!NameRemoved
  <2>3. PONumber'
    BY <1>1, <2>1 DEF POInv, PONumber, PONothing, POInPipe, PORead
  <2> QED BY <2>2, <2>3 DEF POInv
<1>2. ASSUME POInv PROVE PO!TypeOK
  <2>1. run \in 0..MaxRuns
    BY <1>2, MaxRunsAssumption DEF POInv, PONames
  <2>2. Len(pipe["namedpipe"]) \in 0..1
    <3>1. ASSUME NEW v PROVE Len(<<>>) \in 0..1 /\ Len(<<v>>) \in 0..1
      OBVIOUS
    <3> QED BY <1>2, <3>1 DEF POInv, PONumber, POInPipe
  <2> QED BY <1>2, <2>1, <2>2 DEF PO!TypeOK, POInv, POForked, PONames
<1>3. ASSUME POInv PROVE PO!ReadsTheNumber
  <2>1. mem["data"] \in {"unset", mem["i"]}
    BY <1>3 DEF POInv, PONumber
  <2>2. ASSUME program # "ppoll", PO!AllForked, PO!AllOver
        PROVE  mem["data"] = "unset" <=> pipe["namedpipe"] = <<mem["i"]>>
    <3>1. pc["main"] = "done" /\ pc["child"] = "exited"
      BY <1>3, <2>2 DEF POInv, POForked, PO!Processes, PO!AllForked, PO!AllOver, PO!Alive, PO!Gone
    <3>2. POInPipe \/ PORead
      BY <1>3, <2>2, <3>1 DEF POInv, PONumber
    <3> QED BY <3>2, NumbersAssumption DEF POInPipe, PORead
  <2>3. program = "sel_cso" /\ pc["main"] = "done" => mem["data"] # "unset"
    BY <1>3 DEF POInv, PONumber
  <2> QED BY <2>1, <2>2, <2>3 DEF PO!ReadsTheNumber
<1>4. POInv => PO!NameRemoved
  BY DEF POInv, PONames
<1> QED BY <1>1, <1>2, <1>3, <1>4, POInitially, POInductive

(***************************************************************************)
(* What holds of all programs                                              *)
(***************************************************************************)

\* The invariant of the program that runs.
ProgramInv ==
  /\ Is("vetelkedo") => VInv
  /\ Is("ejtoernyo") => EInv
  /\ Is("teams") => TInv
  /\ Is("tajekoztato") => TKInv
  /\ Is("tajekoztato19") => T19Inv
  /\ Is("uzenet2") => UInv
  /\ Is("szemafor") => SInv
  /\ Is("pos_szemafor") => SInv
  /\ Is("szemafor2") => S2Inv
  /\ Is("uzenet") => U1Inv
  /\ Is("mq_uzenet") => MQInv
  /\ Is("osztmem") => OInv
  /\ IsPoll => POInv

LEMMA ProgramInvInitially == Init => ProgramInv
BY VInvariant, EInvariant, TInvariant, TKInvariant, T19Invariant, UInvariant, SInvariant,
   PSInvariant, S2Invariant, U1Invariant, MQInvariant, OInvariant, POInvariant
   DEF Init, ProgramInv

LEMMA ProgramInvInductive == ProgramInv /\ [Next]_allVars => ProgramInv'
<1> SUFFICES ASSUME ProgramInv, [Next]_allVars PROVE ProgramInv'
  OBVIOUS
<1>1. UNCHANGED program /\ (UNCHANGED allVars => UNCHANGED vars)
  BY DEF Next, allVars
<1>2. CASE program \in {"vetelkedo", "ejtoernyo", "teams", "tajekoztato", "tajekoztato19"}
  BY <1>1, <1>2, VInvariant, EInvariant, TInvariant, TKInvariant, T19Invariant
     DEF Next, Is, IsPoll, ProgramInv
<1>3. CASE program \in {"uzenet2", "szemafor", "pos_szemafor", "szemafor2"}
  BY <1>1, <1>3, UInvariant, SInvariant, PSInvariant, S2Invariant
     DEF Next, Is, IsPoll, ProgramInv
<1>4. CASE program \in {"uzenet", "mq_uzenet", "osztmem"} \/ IsPoll
  BY <1>1, <1>4, U1Invariant, MQInvariant, OInvariant, POInvariant
     DEF Next, Is, IsPoll, ProgramInv
<1>5. CASE /\ program \notin {"vetelkedo", "ejtoernyo", "teams", "tajekoztato", "tajekoztato19"}
           /\ program \notin {"uzenet2", "szemafor", "pos_szemafor", "szemafor2"}
           /\ program \notin {"uzenet", "mq_uzenet", "osztmem"} /\ ~IsPoll
  BY <1>1, <1>5 DEF Is, IsPoll, ProgramInv
<1> QED BY <1>2, <1>3, <1>4, <1>5

\* Every reachable state satisfies the invariant of its program.
THEOREM ProgramInvHolds == Spec => []ProgramInv
BY ProgramInvInitially, ProgramInvInductive, PTL DEF Spec

\* Every program keeps its variables, its memory and its channels to what they are
\* for, in every run and after every interruption.
THEOREM TypeCorrect == Spec => []TypeOK
<1>1. ProgramInv => TypeOK
  BY VInvariant, EInvariant, TInvariant, TKInvariant, T19Invariant, UInvariant, SInvariant,
     PSInvariant, S2Invariant, U1Invariant, MQInvariant, OInvariant, POInvariant
     DEF ProgramInv, TypeOK
<1> QED BY <1>1, ProgramInvHolds, PTL

\* The quiz: the host judges this game's answers, each as that player's, and
\* rewards the guess that was sent for them.
THEOREM VerdictDeservedHolds == Spec => []VerdictDeserved
<1>1. ProgramInv => VerdictDeserved
  BY VInvariant
     DEF ProgramInv, VerdictDeserved
<1> QED BY <1>1, ProgramInvHolds, PTL

\* What the children had to write is in shared memory at the end: both answers of
\* the quiz, and the new data of the press conference.
THEOREM KeptAtTheEndHolds == Spec => []KeptAtTheEnd
<1>1. ProgramInv => KeptAtTheEnd
  BY VInvariant, TKInvariant
     DEF ProgramInv, KeptAtTheEnd
<1> QED BY <1>1, ProgramInvHolds, PTL

\* No police officer, teacher, student or medical officer answers before it was
\* asked, and the student of the parachute jump repeats no number that was not said.
THEOREM InOrderHolds == Spec => []InOrder
<1>1. ProgramInv => InOrder
  BY EInvariant, TInvariant, TKInvariant, T19Invariant
     DEF ProgramInv, InOrder
<1> QED BY <1>1, ProgramInvHolds, PTL

\* What is in shared memory is used by one process at a time in all programs with
\* a semaphore around it, also by a process that finds its semaphore removed.
THEOREM ExclusionHolds == Spec => []Exclusion
<1>1. ProgramInv => Exclusion
  BY VInvariant, EInvariant, TInvariant, TKInvariant, S2Invariant
     DEF ProgramInv, Exclusion
<1> QED BY <1>1, ProgramInvHolds, PTL

\* Nobody uses a semaphore, a queue or a memory that main has removed, in every
\* program whose main waits for all its children; and no run leaves its FIFO behind.
THEOREM NoUseAfterRemovalHolds == Spec => []NoUseAfterRemoval
<1>1. ProgramInv => NoUseAfterRemoval
  BY EInvariant, TInvariant, T19Invariant, UInvariant, SInvariant, PSInvariant, S2Invariant,
     U1Invariant, MQInvariant, OInvariant, POInvariant
     DEF ProgramInv, NoUseAfterRemoval
<1> QED BY <1>1, ProgramInvHolds, PTL

\* What a process takes from the queue, the memory or the FIFO was meant for it,
\* also when an interrupted run has left a message, a text or a raised semaphore.
THEOREM ReadsWhatWasMeantHolds == Spec => []ReadsWhatWasMeant
<1>1. ProgramInv => ReadsWhatWasMeant
  BY UInvariant, SInvariant, PSInvariant, U1Invariant, MQInvariant, POInvariant
     DEF ProgramInv, ReadsWhatWasMeant
<1> QED BY <1>1, ProgramInvHolds, PTL
=============================================================================
