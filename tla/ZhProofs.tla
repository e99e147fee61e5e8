------------------------------ MODULE ZhProofs ------------------------------
(***************************************************************************)
(* Proofs about the programs of CsovekMC whose pipes carry one item for each *)
(* write(), for every set of counts, numbers and parties, every capacity of   *)
(* the pipes and every bound on what is sent.                                *)
(*                                                                         *)
(* What is in a pipe is never stated by itself: it is the part between what  *)
(* has been read and what has been written of one history, the numbers a     *)
(* process has drawn, say, so that order, size and completeness of what      *)
(* arrives are one fact (Flow, Channel).                                   *)
(***************************************************************************)
EXTENDS CsovekMC, SequenceTheorems, FiniteSetTheorems, WellFoundedInduction, TLAPS

\* The items r+1 to s of those that go through a pipe
Flow(F, r, s) == [k \in 1..(s - r) |-> F[r + k]]
Items(F, s) == {F[k] : k \in 1..s}

LEMMA FlowIs ==
  ASSUME NEW F, NEW r \in Nat, NEW s \in Nat, r <= s
  PROVE  /\ Flow(F, r, s) \in Seq(Items(F, s))
         /\ Len(Flow(F, r, s)) = s - r
         /\ \A k \in 1..(s - r) : Flow(F, r, s)[k] = F[r + k]
<1>1. s - r \in Nat /\ \A k \in 1..(s - r) : r + k \in 1..s
  OBVIOUS
<1>2. Flow(F, r, s) \in [1..(s - r) -> Items(F, s)]
  BY <1>1 DEF Flow, Items
<1>3. DOMAIN Flow(F, r, s) = 1..(s - r)
  BY DEF Flow
<1>4. Flow(F, r, s) \in Seq(Items(F, s))
  BY <1>1, <1>2 DEF Seq
<1>5. Len(Flow(F, r, s)) = s - r
  BY <1>1, <1>3, <1>4, LenProperties
<1>6. \A k \in 1..(s - r) : Flow(F, r, s)[k] = F[r + k]
  BY DEF Flow
<1> QED BY <1>4, <1>5, <1>6

\* A sequence with these items is a flow.
LEMMA IsFlow ==
  ASSUME NEW X, NEW q \in Seq(X), NEW F, NEW r \in Nat, NEW s \in Nat, Len(q) = s - r,
         \A k \in 1..(s - r) : q[k] = F[r + k]
  PROVE  q = Flow(F, r, s)
<1>1. q = [k \in 1..(s - r) |-> q[k]]
  BY LenProperties
<1>2. [k \in 1..(s - r) |-> q[k]] = [k \in 1..(s - r) |-> F[r + k]]
  OBVIOUS
<1> QED BY <1>1, <1>2, Zenon DEF Flow

LEMMA FlowEmpty == ASSUME NEW F, NEW r \in Nat PROVE Flow(F, r, r) = <<>>
<1>1. r - r = 0 /\ r <= r
  OBVIOUS
<1>2. Len(Flow(F, r, r)) = 0 /\ Flow(F, r, r) \in Seq(Items(F, r))
  BY <1>1, FlowIs, Zenon
<1> QED BY <1>2, EmptySeq

\* write() adds the next item,
LEMMA FlowAppend ==
  ASSUME NEW F, NEW r \in Nat, NEW s \in Nat, r <= s
  PROVE  Append(Flow(F, r, s), F[s + 1]) = Flow(F, r, s + 1)
<1>1. s - r \in Nat /\ s + 1 - r = s - r + 1 /\ r + (s - r + 1) = s + 1 /\ s + 1 \in 1..(s + 1)
  OBVIOUS
<1>2. Flow(F, r, s) \in Seq(Items(F, s + 1)) /\ F[s + 1] \in Items(F, s + 1)
  <2>1. \A k \in 1..(s - r) : r + k \in 1..(s + 1)
    OBVIOUS
  <2>2. Flow(F, r, s) \in [1..(s - r) -> Items(F, s + 1)]
    BY <2>1 DEF Flow, Items
  <2>3. F[s + 1] \in Items(F, s + 1)
    BY <1>1, Zenon DEF Items
  <2> QED BY <1>1, <2>2, <2>3 DEF Seq
<1>3. PICK q : q = Append(Flow(F, r, s), F[s + 1])
  OBVIOUS
<1>4. PICK f : f = Flow(F, r, s)
  OBVIOUS
<1>5. Len(f) = s - r /\ \A k \in 1..(s - r) : f[k] = F[r + k]
  BY <1>4, FlowIs, Zenon
<1>6. /\ q \in Seq(Items(F, s + 1)) /\ Len(q) = Len(f) + 1 /\ q[Len(f) + 1] = F[s + 1]
      /\ \A k \in 1..Len(f) : q[k] = f[k]
  <2>1. f \in Seq(Items(F, s + 1)) /\ F[s + 1] \in Items(F, s + 1) /\ q = Append(f, F[s + 1])
    BY <1>2, <1>3, <1>4
  <2>2. Len(f) \in Nat
    BY <2>1, LenProperties
  <2> QED BY <2>1, <2>2, SMT
<1>7. \A k \in 1..(s + 1 - r) : q[k] = F[r + k]
  BY <1>1, <1>5, <1>6
<1>8. q = Flow(F, r, s + 1)
  <2>1. Len(q) = s + 1 - r /\ s + 1 \in Nat
    BY <1>1, <1>5, <1>6
  <2>2. PICK t : t = s + 1
    OBVIOUS
  <2>3. q \in Seq(Items(F, t))
    BY <1>6, <2>2
  <2>4. t \in Nat /\ Len(q) = t - r /\ \A k \in 1..(t - r) : q[k] = F[r + k]
    BY <1>7, <2>1, <2>2
  <2>5. q = Flow(F, r, t)
    BY <2>3, <2>4, IsFlow
  <2> QED BY <2>2, <2>5, Zenon
<1> QED BY <1>3, <1>8

\* read() takes the first one,
LEMMA FlowHead ==
  ASSUME NEW F, NEW r \in Nat, NEW s \in Nat, r <= s, Flow(F, r, s) # <<>>
  PROVE  /\ r + 1 \in 1..s /\ Head(Flow(F, r, s)) = F[r + 1]
         /\ Tail(Flow(F, r, s)) = Flow(F, r + 1, s)
<1>1. PICK q : q = Flow(F, r, s)
  OBVIOUS
<1>2. q \in Seq(Items(F, s)) /\ Len(q) = s - r /\ \A k \in 1..(s - r) : q[k] = F[r + k]
  BY <1>1, FlowIs, Zenon
<1>3. s # r
  BY FlowEmpty
<1>4. r + 1 \in 1..s /\ r + 1 \in Nat /\ s - r - 1 = s - (r + 1) /\ 1 \in 1..(s - r)
  BY <1>3
<1>5. Head(q) = F[r + 1]
  <2>1. Head(q) = q[1]
    BY DEF Head
  <2> QED BY <1>2, <1>4, <2>1
<1>6. /\ Tail(q) \in Seq(Items(F, s)) /\ Len(Tail(q)) = Len(q) - 1
      /\ \A k \in 1..Len(Tail(q)) : Tail(q)[k] = q[k + 1]
  BY <1>1, <1>2, HeadTailProperties, Zenon
<1>7. ASSUME NEW k \in 1..(s - (r + 1)) PROVE Tail(q)[k] = F[r + 1 + k]
  <2>1. k + 1 \in 1..(s - r) /\ r + (k + 1) = r + 1 + k /\ k \in 1..Len(Tail(q))
    BY <1>2, <1>6
  <2> QED BY <1>2, <1>6, <2>1
<1>8. Tail(q) = Flow(F, r + 1, s)
  <2>1. Len(Tail(q)) = s - (r + 1)
    BY <1>2, <1>4, <1>6
  <2>2. PICK t : t = Tail(q)
    OBVIOUS
  <2>3. t \in Seq(Items(F, s)) /\ Len(t) = s - (r + 1) /\ \A k \in 1..(s - (r + 1)) : t[k] = F[r + 1 + k]
    BY <1>6, <1>7, <2>1, <2>2
  <2>4. t = Flow(F, r + 1, s)
    BY <1>4, <2>3, IsFlow
  <2> QED BY <2>2, <2>4
<1> QED BY <1>1, <1>4, <1>5, <1>8

\* and what has been written does not change.
LEMMA FlowSame ==
  ASSUME NEW F, NEW G, NEW r \in Nat, NEW s \in Nat, r <= s, \A k \in 1..s : F[k] = G[k]
  PROVE  Flow(F, r, s) = Flow(G, r, s)
<1>1. \A k \in 1..(s - r) : r + k \in 1..s
  OBVIOUS
<1>2. \A k \in 1..(s - r) : F[r + k] = G[r + k]
  BY <1>1
<1>3. [k \in 1..(s - r) |-> F[r + k]] = [k \in 1..(s - r) |-> G[r + k]]
  BY <1>2
<1> QED BY <1>3 DEF Flow

\* The pipe q holds the items that have been written, s of them, and not read.
Channel(q, F, r, s) ==
  r \in Nat /\ s \in Nat /\ r <= s /\ q = Flow(F, r, s) /\ Len(q) \in 0..PipeCapacity

LEMMA FlowLength ==
  ASSUME NEW F, NEW r \in Nat, NEW s \in Nat, r <= s PROVE Len(Flow(F, r, s)) = s - r
BY FlowIs, Zenon

LEMMA ChannelOpened == ASSUME NEW F PROVE Channel(<<>>, F, 0, 0)
BY FlowEmpty, PipeCapacityAssumption DEF Channel

LEMMA ChannelLength == ASSUME NEW q, NEW F, NEW r, NEW s, Channel(q, F, r, s) PROVE Len(q) = s - r
BY FlowLength, Zenon DEF Channel

LEMMA ChannelEmptied == ASSUME NEW q, NEW F, NEW r, Channel(q, F, r, r) PROVE q = <<>>
BY FlowEmpty, Zenon DEF Channel

LEMMA ChannelWritten ==
  ASSUME NEW q, NEW F, NEW r, NEW s, Channel(q, F, r, s), Len(q) < PipeCapacity
  PROVE  Channel(Append(q, F[s + 1]), F, r, s + 1)
<1>1. r \in Nat /\ s \in Nat /\ r <= s /\ q = Flow(F, r, s)
  BY DEF Channel
<1>2. s + 1 \in Nat /\ r <= s + 1
  BY <1>1
<1>3. Append(q, F[s + 1]) = Flow(F, r, s + 1)
  BY <1>1, FlowAppend, Zenon
<1>4. Len(q) = s - r /\ Len(Append(q, F[s + 1])) = s + 1 - r
  BY <1>1, <1>2, <1>3, FlowLength
<1>5. Len(Append(q, F[s + 1])) \in 0..PipeCapacity
  BY <1>1, <1>4, PipeCapacityAssumption
<1> QED BY <1>1, <1>2, <1>3, <1>5 DEF Channel

LEMMA ChannelRead ==
  ASSUME NEW q, NEW F, NEW r, NEW s, Channel(q, F, r, s), q # <<>>
  PROVE  Channel(Tail(q), F, r + 1, s) /\ Head(q) = F[r + 1] /\ r + 1 \in 1..s
<1>1. r \in Nat /\ s \in Nat /\ r <= s /\ q = Flow(F, r, s) /\ Len(q) \in 0..PipeCapacity
  BY DEF Channel
<1>2. r + 1 \in 1..s /\ Head(q) = F[r + 1] /\ Tail(q) = Flow(F, r + 1, s)
  BY <1>1, FlowHead, Zenon
<1>3. r + 1 \in Nat /\ r + 1 <= s
  BY <1>1, <1>2
<1>4. Len(q) = s - r /\ Len(Tail(q)) = s - (r + 1)
  BY <1>1, <1>2, <1>3, FlowLength
<1>5. Len(Tail(q)) \in 0..PipeCapacity
  BY <1>1, <1>3, <1>4, PipeCapacityAssumption
<1> QED BY <1>1, <1>2, <1>3, <1>5 DEF Channel

LEMMA ChannelSame ==
  ASSUME NEW q, NEW F, NEW G, NEW r, NEW s, Channel(q, F, r, s), \A k \in 1..s : F[k] = G[k]
  PROVE  Channel(q, G, r, s)
<1>1. Flow(F, r, s) = Flow(G, r, s)
  BY FlowSame, Zenon DEF Channel
<1> QED BY <1>1 DEF Channel

(***************************************************************************)
(* A number and its confirmation                                           *)
(***************************************************************************)

\* Each pipe carries one item, and what is still to come is told by the labels.
P2Inv ==
  /\ DOMAIN pc = P2M!Processes /\ reaped \subseteq {"child"} /\ Is("pipe2_mashogy")
  /\ DOMAIN pipe = {"io_pipes", "io_pipes1"} /\ DOMAIN mem = {"r", "arrived", "pufferchar"}
  /\ pc["main"] \in {"fork1", "rand", "write", "read", "wait", "done", "exited"}
  /\ pc["child"] \in {"off", "start", "confirm", "exited"}
  /\ pc["main"] = "fork1" => pc["child"] = "off"
  /\ pc["main"] \in {"write", "read", "wait", "done"} => mem["r"] \in Numbers
  /\ pc["child"] \in {"confirm", "exited"} =>
       mem["arrived"] = mem["r"] /\ pc["main"] \in {"read", "wait", "done"}
  /\ pc["main"] \in {"wait", "done"} => pc["child"] = "exited"
  /\ mem["pufferchar"] # "unset" => pc["child"] = "exited"
  /\ pipe["io_pipes1"] = IF pc["main"] = "read" /\ pc["child"] = "start" THEN <<mem["r"]>> ELSE <<>>
  /\ pipe["io_pipes"] = IF pc["main"] = "read" /\ pc["child"] = "exited" THEN <<"Megkaptam">> ELSE <<>>
  /\ pc["main"] \in {"rand", "write", "read"} => pc["child"] # "off"

LEMMA OneItem ==
  \A v : /\ Append(<<>>, v) = <<v>> /\ Head(<<v>>) = v /\ Tail(<<v>>) = <<>> /\ <<v>> # <<>>
         /\ Len(<<v>>) = 1 /\ Len(<<>>) = 0
OBVIOUS

LEMMA P2Invariant ==
  /\ P2M!Init /\ Is("pipe2_mashogy") => P2Inv
  /\ P2Inv /\ UNCHANGED program /\ (P2M!Next \/ UNCHANGED zhVars) => P2Inv'
  /\ P2Inv => P2M!TypeOK /\ P2M!InOrder
<1> USE DEF P2M!Processes
<1>1. P2M!Init /\ Is("pipe2_mashogy") => P2Inv
  BY DEF P2M!Init, P2Inv
<1>2. ASSUME P2Inv, UNCHANGED program, P2M!Main PROVE P2Inv'
  <2>1. CASE P2M!Fork("child", "fork1", "rand")
    BY <1>2, <2>1 DEF P2Inv, P2M!Fork, Is
  <2>2. CASE \E n \in Numbers : P2M!Assign("main", "rand", "write", "r", n)
    BY <1>2, <2>2 DEF P2Inv, P2M!Assign, P2M!Step, Is
  <2>3. CASE P2M!Write("main", "write", "read", "io_pipes1", mem["r"])
    BY <1>2, <2>3, OneItem DEF P2Inv, P2M!Write, P2M!Step, Is
  <2>4. CASE P2M!Read("main", "read", "wait", "io_pipes", "pufferchar")
    BY <1>2, <2>4, OneItem DEF P2Inv, P2M!Read, P2M!Step, Is
  <2>5. CASE P2M!Wait({"child"}, "wait", "done")
    BY <1>2, <2>5 DEF P2Inv, P2M!Wait, P2M!Step, Is
  <2> QED BY <1>2, <2>1, <2>2, <2>3, <2>4, <2>5 DEF P2M!Main
<1>3. ASSUME P2Inv, UNCHANGED program, P2M!child PROVE P2Inv'
  <2>1. CASE P2M!Read("child", "start", "confirm", "io_pipes1", "arrived")
    <3>1. pc["child"] = "start" /\ pc["main"] = "read" /\ pipe["io_pipes1"] = <<mem["r"]>>
      BY <1>3, <2>1 DEF P2Inv, P2M!Read, P2M!Step
    <3>2. /\ pipe' = [pipe EXCEPT !["io_pipes1"] = <<>>] /\ mem' = [mem EXCEPT !["arrived"] = mem["r"]]
          /\ pc' = [pc EXCEPT !["child"] = "confirm"] /\ UNCHANGED reaped
      BY <1>3, <2>1, <3>1, OneItem DEF P2Inv, P2M!Read, P2M!Step
    <3> QED BY <1>3, <3>1, <3>2 DEF P2Inv, Is
  <2>2. CASE P2M!Write("child", "confirm", "exited", "io_pipes", "Megkaptam")
    BY <1>3, <2>2, OneItem DEF P2Inv, P2M!Write, P2M!Step, Is
  <2> QED BY <1>3, <2>1, <2>2 DEF P2M!child
<1>4. ASSUME P2Inv, UNCHANGED program, UNCHANGED zhVars PROVE P2Inv'
  BY <1>4 DEF P2Inv, zhVars, Is
<1>5. ASSUME P2Inv PROVE P2M!TypeOK /\ P2M!InOrder
  <2>1. P2M!TypeOK
    BY <1>5, OneItem DEF P2Inv, P2M!TypeOK
  <2>2. P2M!InOrder
    BY <1>5 DEF P2Inv, P2M!InOrder
  <2> QED BY <2>1, <2>2
<1> QED BY <1>1, <1>2, <1>3, <1>4, <1>5 DEF P2M!Next

(***************************************************************************)
(* The array of structures                                                 *)
(***************************************************************************)

PSItems == <<PS!Name, PS!Num(PS!daily_num_ready), PS!Workers(PS!daily_num_ready)>>
PSWritten == CASE pc["main"] = "write_num" -> 1 [] pc["main"] = "write_data" -> 2
               [] pc["main"] \in {"wait", "done"} -> 3 [] OTHER -> 0
PSRead == CASE pc["child"] = "read_num" -> 1 [] pc["child"] = "read_data" -> 2
            [] pc["child"] \in {"while", "exited"} -> 3 [] OTHER -> 0

\* What is in the pipe has been written and not read, and the child has what it
\* has read.
PSInv ==
  /\ DOMAIN pc = PS!Processes /\ reaped \subseteq {"child"} /\ Is("pipe_struct")
  /\ DOMAIN pipe = {"io_pipes_out"} /\ DOMAIN mem = {"puffer", "daily_num", "data", "j"}
  /\ pc["main"] \in {"fork1", "write_work", "write_num", "write_data", "wait", "done", "exited"}
  /\ pc["child"] \in {"off", "start", "read_num", "read_data", "while", "exited"}
  /\ pc["main"] = "fork1" => pc["child"] = "off"
  /\ pc["main"] = "exited" => pc["child"] = "off"
  /\ Channel(pipe["io_pipes_out"], PSItems, PSRead, PSWritten)
  /\ pc["child"] \in {"read_data", "while", "exited"} => mem["daily_num"] = PS!Num(3)
  /\ mem["data"] = PS!Workers(IF pc["child"] \in {"while", "exited"} THEN 3 ELSE 0)
  /\ mem["j"] \in 0..mem["data"].val

LEMMA PSItem == /\ PSItems[1] = PS!Name /\ PSItems[2] = PS!Num(3) /\ PSItems[3] = PS!Workers(3)
                /\ PS!Num(3).val = 3 /\ PS!Workers(3).val = 3 /\ PS!Workers(0).val = 0
                /\ PS!Name.size = "char100" /\ PS!Num(3).size = "int"
BY DEF PSItems, PS!Num, PS!Workers, PS!Name, PS!daily_num_ready

\* PSItems does not change.
LEMMA PSConstant ==
  Channel(pipe["io_pipes_out"], PSItems, PSRead, PSWritten)'
    = Channel(pipe'["io_pipes_out"], PSItems, PSRead', PSWritten')
BY DEF PSItems, PS!Num, PS!Workers, PS!Name, PS!daily_num_ready

LEMMA PSMain == ASSUME PSInv, UNCHANGED program, PS!Main PROVE PSInv'
<1> USE DEF PS!Processes
<1>1. ASSUME NEW from, NEW to, NEW s \in 0..2, PSWritten = s, PSWritten' = s + 1,
             PS!Write("main", from, to, "io_pipes_out", PSItems[s + 1]),
             from \in {"write_work", "write_num", "write_data"},
             to \in {"write_num", "write_data", "wait"}
      PROVE  PSInv'
  <2>1. /\ pc' = [pc EXCEPT !["main"] = to] /\ UNCHANGED <<reaped, mem>> /\ pc["main"] = from
        /\ pipe' = [pipe EXCEPT !["io_pipes_out"] = Append(@, PSItems[s + 1])]
        /\ Len(pipe["io_pipes_out"]) < PipeCapacity
    BY <1>1 DEF PS!Write, PS!Step
  <2>2. PSRead' = PSRead
    BY <2>1 DEF PSInv, PSRead
  <2>3. Channel(pipe'["io_pipes_out"], PSItems, PSRead, s + 1)
    BY <1>1, <2>1, ChannelWritten DEF PSInv
  <2>4. Channel(pipe["io_pipes_out"], PSItems, PSRead, PSWritten)'
    BY <1>1, <2>2, <2>3, PSConstant
  <2> QED BY <1>1, <2>1, <2>4 DEF PSInv, Is
<1>2. CASE PS!Write("main", "write_work", "write_num", "io_pipes_out", PS!Name)
  <2>1. PSWritten = 0 /\ PSWritten' = 0 + 1 /\ PS!Name = PSItems[0 + 1]
    BY <1>2, PSItem DEF PSInv, PSWritten, PS!Write, PS!Step
  <2> QED BY <1>1, <1>2, <2>1
<1>3. CASE PS!Write("main", "write_num", "write_data", "io_pipes_out", PS!Num(PS!daily_num_ready))
  <2>1. PSWritten = 1 /\ PSWritten' = 1 + 1 /\ PS!Num(PS!daily_num_ready) = PSItems[1 + 1]
    BY <1>3, PSItem DEF PSInv, PSWritten, PS!Write, PS!Step, PS!daily_num_ready
  <2> QED BY <1>1, <1>3, <2>1
<1>4. CASE PS!Write("main", "write_data", "wait", "io_pipes_out", PS!Workers(PS!daily_num_ready))
  <2>1. PSWritten = 2 /\ PSWritten' = 2 + 1 /\ PS!Workers(PS!daily_num_ready) = PSItems[2 + 1]
    BY <1>4, PSItem DEF PSInv, PSWritten, PS!Write, PS!Step, PS!daily_num_ready
  <2> QED BY <1>1, <1>4, <2>1
<1>5. CASE PS!Fork("child", "fork1", "write_work") \/ PS!Wait({"child"}, "wait", "done")
  <2>1. PSRead' = PSRead /\ PSWritten' = PSWritten /\ UNCHANGED <<pipe, mem>>
    BY <1>5 DEF PSInv, PSRead, PSWritten, PS!Fork, PS!Wait, PS!Step
  <2>2. Channel(pipe["io_pipes_out"], PSItems, PSRead, PSWritten)'
    BY <2>1, PSConstant DEF PSInv
  <2> QED BY <1>5, <2>1, <2>2 DEF PSInv, PS!Fork, PS!Wait, PS!Step, Is
<1> QED BY <1>2, <1>3, <1>4, <1>5 DEF PS!Main

LEMMA PSChild == ASSUME PSInv, UNCHANGED program, PS!child PROVE PSInv'
<1> USE DEF PS!Processes
<1>1. ASSUME NEW from, NEW to, NEW x, NEW r, PSRead = r, PSRead' = r + 1,
             PS!Read("child", from, to, "io_pipes_out", x)
      PROVE  /\ mem' = [mem EXCEPT ![x] = PSItems[r + 1]] /\ pc["child"] = from
             /\ pc' = [pc EXCEPT !["child"] = to] /\ UNCHANGED reaped /\ DOMAIN pipe' = DOMAIN pipe
             /\ Channel(pipe["io_pipes_out"], PSItems, PSRead, PSWritten)'
  <2>1. /\ pc' = [pc EXCEPT !["child"] = to] /\ UNCHANGED reaped /\ pc["child"] = from
        /\ pipe["io_pipes_out"] # <<>> /\ mem' = [mem EXCEPT ![x] = Head(pipe["io_pipes_out"])]
        /\ pipe' = [pipe EXCEPT !["io_pipes_out"] = Tail(@)]
    BY <1>1 DEF PS!Read, PS!Step
  <2>2. PSWritten' = PSWritten
    BY <2>1 DEF PSInv, PSWritten
  <2>3. /\ Channel(pipe'["io_pipes_out"], PSItems, r + 1, PSWritten)
        /\ Head(pipe["io_pipes_out"]) = PSItems[r + 1]
    BY <1>1, <2>1, ChannelRead DEF PSInv
  <2> QED BY <1>1, <2>1, <2>2, <2>3, PSConstant
<1>2. CASE PS!Read("child", "start", "read_num", "io_pipes_out", "puffer")
  <2>1. PSRead = 0 /\ PSRead' = 0 + 1
    BY <1>2 DEF PSInv, PSRead, PS!Read, PS!Step
  <2>2. /\ mem' = [mem EXCEPT !["puffer"] = PSItems[0 + 1]] /\ pc["child"] = "start"
        /\ pc' = [pc EXCEPT !["child"] = "read_num"] /\ UNCHANGED reaped /\ DOMAIN pipe' = DOMAIN pipe
        /\ Channel(pipe["io_pipes_out"], PSItems, PSRead, PSWritten)'
    BY <1>1, <1>2, <2>1
  <2> QED BY <1>2, <2>2 DEF PSInv, Is
<1>3. CASE PS!Read("child", "read_num", "read_data", "io_pipes_out", "daily_num")
  <2>1. PSRead = 1 /\ PSRead' = 1 + 1
    BY <1>3 DEF PSInv, PSRead, PS!Read, PS!Step
  <2>2. /\ mem' = [mem EXCEPT !["daily_num"] = PSItems[1 + 1]] /\ pc["child"] = "read_num"
        /\ pc' = [pc EXCEPT !["child"] = "read_data"] /\ UNCHANGED reaped /\ DOMAIN pipe' = DOMAIN pipe
        /\ Channel(pipe["io_pipes_out"], PSItems, PSRead, PSWritten)'
    BY <1>1, <1>3, <2>1
  <2> QED BY <1>3, <2>2, PSItem DEF PSInv, Is
<1>4. CASE PS!Read("child", "read_data", "while", "io_pipes_out", "data")
  <2>1. PSRead = 2 /\ PSRead' = 2 + 1
    BY <1>4 DEF PSInv, PSRead, PS!Read, PS!Step
  <2>2. /\ mem' = [mem EXCEPT !["data"] = PSItems[2 + 1]] /\ pc["child"] = "read_data"
        /\ pc' = [pc EXCEPT !["child"] = "while"] /\ UNCHANGED reaped /\ DOMAIN pipe' = DOMAIN pipe
        /\ Channel(pipe["io_pipes_out"], PSItems, PSRead, PSWritten)'
    BY <1>1, <1>4, <2>1
  <2>3. mem["j"] = 0
    BY <2>2, PSItem DEF PSInv
  <2> QED BY <1>4, <2>2, <2>3, PSItem DEF PSInv, Is
<1>5. CASE \/ mem["j"] < mem["daily_num"].val /\ PS!Assign("child", "while", "while", "j", mem["j"] + 1)
           \/ mem["j"] >= mem["daily_num"].val /\ PS!Jump("child", "while", "exited")
  <2>1. /\ pc["child"] = "while" /\ pc'["child"] \in {"while", "exited"}
        /\ pc' = [pc EXCEPT !["child"] = pc'["child"]] /\ UNCHANGED <<pipe, reaped>>
    BY <1>5 DEF PSInv, PS!Assign, PS!Jump, PS!Step
  <2>2. mem["daily_num"].val = 3 /\ mem["data"].val = 3 /\ mem["j"] \in 0..3
    BY <2>1, PSItem DEF PSInv
  <2>3. /\ DOMAIN mem' = DOMAIN mem /\ mem'["daily_num"] = mem["daily_num"] /\ mem'["data"] = mem["data"]
        /\ mem'["j"] \in 0..3
    BY <1>5, <2>2 DEF PSInv, PS!Assign, PS!Jump
  <2>4. PSRead' = PSRead /\ PSWritten' = PSWritten
    BY <2>1 DEF PSInv, PSRead, PSWritten
  <2>5. Channel(pipe["io_pipes_out"], PSItems, PSRead, PSWritten)'
    BY <2>1, <2>4, PSConstant DEF PSInv
  <2> QED BY <1>5, <2>1, <2>2, <2>3, <2>5 DEF PSInv, Is
<1> QED BY <1>2, <1>3, <1>4, <1>5 DEF PS!child

LEMMA PSInvariant ==
  /\ PS!Init /\ Is("pipe_struct") => PSInv
  /\ PSInv /\ UNCHANGED program /\ (PS!Next \/ UNCHANGED zhVars) => PSInv'
  /\ PSInv => PS!TypeOK /\ PS!Framed
<1>1. ASSUME PS!Init, Is("pipe_struct") PROVE PSInv
  <2>1. PSRead = 0 /\ PSWritten = 0
    BY <1>1 DEF PS!Init, PS!Processes, PSRead, PSWritten
  <2>2. Channel(pipe["io_pipes_out"], PSItems, PSRead, PSWritten)
    BY <1>1, <2>1, ChannelOpened DEF PS!Init
  <2> QED BY <1>1, <2>2, PSItem DEF PS!Init, PSInv, PS!Processes
<1>2. ASSUME PSInv, UNCHANGED program, UNCHANGED zhVars PROVE PSInv'
  <2>1. UNCHANGED <<pc, pipe, mem, reaped>> /\ PSRead' = PSRead /\ PSWritten' = PSWritten
    BY <1>2 DEF zhVars, PSRead, PSWritten
  <2>2. Channel(pipe["io_pipes_out"], PSItems, PSRead, PSWritten)'
    BY <1>2, <2>1, PSConstant DEF PSInv
  <2> QED BY <1>2, <2>1, <2>2 DEF PSInv, Is
<1>3. ASSUME PSInv PROVE PS!Framed
  <2>1. pipe["io_pipes_out"] # <<>> => Head(pipe["io_pipes_out"]) = PSItems[PSRead + 1]
    BY <1>3, ChannelRead DEF PSInv
  <2>2. /\ pc["child"] = "start" => PSRead + 1 = 1
        /\ pc["child"] = "read_num" => PSRead + 1 = 2
        /\ pc["child"] = "read_data" => PSRead + 1 = 3
    BY DEF PSRead
  <2>3. /\ pc["child"] = "read_data" => mem["daily_num"].val = 3
        /\ mem["j"] <= mem["data"].val
    BY <1>3, PSItem DEF PSInv
  <2> QED BY <2>1, <2>2, <2>3, PSItem DEF PS!Framed
<1>4. PSInv => PS!TypeOK
  BY DEF PSInv, PS!TypeOK, Channel
<1> QED BY <1>1, <1>2, <1>3, <1>4, PSMain, PSChild DEF PS!Next

(***************************************************************************)
(* Counting together                                                       *)
(***************************************************************************)

\* The signs, all alike, that the parent has sent and the child has read
KSigns == [k \in 1..3 |-> "counting"]
KSent == mem["mainszamlalo"] - 1 + (IF pc["main"] = "++" THEN 1 ELSE 0)
KHeard == mem["szamlalo"] - 1 + (IF pc["child"] = "printf" THEN 1 ELSE 0)

KInv ==
  /\ DOMAIN pc = KSZ!Processes /\ reaped \subseteq {"child"} /\ Is("kozos_szamlalas")
  /\ DOMAIN pipe = {"io_pipes1"} /\ DOMAIN mem = {"szamlalo", "mainszamlalo", "sign"}
  /\ pc["main"] \in {"fork1", "while", "++", "wait", "done", "exited"}
  /\ pc["child"] \in {"off", "start", "printf", "exited"}
  /\ pc["main"] = "fork1" => pc["child"] = "off"
  /\ mem["szamlalo"] \in 1..4 /\ mem["mainszamlalo"] \in 1..4
  /\ pc["main"] = "++" => mem["mainszamlalo"] < 4
  /\ pc["child"] = "printf" => mem["szamlalo"] < 4
  /\ pc["child"] = "exited" => mem["szamlalo"] = 4
  /\ pc["main"] \in {"wait", "done"} => mem["mainszamlalo"] = 4
  /\ pc["main"] = "done" => pc["child"] = "exited"
  /\ Channel(pipe["io_pipes1"], KSigns, KHeard, KSent)

LEMMA KConstant ==
  Channel(pipe["io_pipes1"], KSigns, KHeard, KSent)' = Channel(pipe'["io_pipes1"], KSigns, KHeard', KSent')
BY DEF KSigns

LEMMA KMain == ASSUME KInv, UNCHANGED program, KSZ!Main PROVE KInv'
<1> USE DEF KSZ!Processes
<1>1. CASE \/ KSZ!Fork("child", "fork1", "while")
           \/ mem["mainszamlalo"] = 4 /\ KSZ!Jump("main", "while", "wait")
           \/ KSZ!Wait({"child"}, "wait", "done")
           \/ KSZ!Assign("main", "++", "while", "mainszamlalo", mem["mainszamlalo"] + 1)
  <2>1. KHeard' = KHeard /\ KSent' = KSent /\ UNCHANGED pipe
    BY <1>1 DEF KInv, KSent, KHeard, KSZ!Fork, KSZ!Jump, KSZ!Wait, KSZ!Assign, KSZ!Step
  <2>2. Channel(pipe["io_pipes1"], KSigns, KHeard, KSent)'
    BY <2>1, KConstant DEF KInv
  <2>3. CASE KSZ!Fork("child", "fork1", "while")
    BY <1>1, <2>2, <2>3 DEF KInv, KSZ!Fork, Is
  <2>4. CASE mem["mainszamlalo"] = 4 /\ KSZ!Jump("main", "while", "wait")
    BY <1>1, <2>2, <2>4 DEF KInv, KSZ!Jump, KSZ!Step, Is
  <2>5. CASE KSZ!Wait({"child"}, "wait", "done")
    BY <1>1, <2>2, <2>5 DEF KInv, KSZ!Wait, KSZ!Step, Is
  <2>6. CASE KSZ!Assign("main", "++", "while", "mainszamlalo", mem["mainszamlalo"] + 1)
    BY <1>1, <2>2, <2>6 DEF KInv, KSZ!Assign, KSZ!Step, Is
  <2> QED BY <1>1, <2>3, <2>4, <2>5, <2>6
<1>2. CASE mem["mainszamlalo"] < 4 /\ KSZ!Write("main", "while", "++", "io_pipes1", "counting")
  <2>1. /\ pc' = [pc EXCEPT !["main"] = "++"] /\ UNCHANGED <<reaped, mem>> /\ pc["main"] = "while"
        /\ pipe' = [pipe EXCEPT !["io_pipes1"] = Append(@, "counting")] /\ Len(pipe["io_pipes1"]) < PipeCapacity
    BY <1>2 DEF KSZ!Write, KSZ!Step
  <2>2. KHeard' = KHeard /\ KSent' = KSent + 1 /\ KSent + 1 \in 1..3
    BY <1>2, <2>1 DEF KInv, KSent, KHeard
  <2>3. KSigns[KSent + 1] = "counting"
    BY <2>2 DEF KSigns
  <2>4. Channel(pipe["io_pipes1"], KSigns, KHeard, KSent)'
    BY <2>1, <2>2, <2>3, KConstant, ChannelWritten DEF KInv
  <2> QED BY <1>2, <2>1, <2>4 DEF KInv, Is
<1> QED BY <1>1, <1>2 DEF KSZ!Main

LEMMA KChild == ASSUME KInv, UNCHANGED program, KSZ!child PROVE KInv'
<1> USE DEF KSZ!Processes
<1>1. CASE mem["szamlalo"] < 4 /\ KSZ!Read("child", "start", "printf", "io_pipes1", "sign")
  <2>1. /\ pc' = [pc EXCEPT !["child"] = "printf"] /\ UNCHANGED reaped /\ pc["child"] = "start"
        /\ pipe["io_pipes1"] # <<>> /\ pipe' = [pipe EXCEPT !["io_pipes1"] = Tail(@)]
        /\ mem' = [mem EXCEPT !["sign"] = Head(pipe["io_pipes1"])]
    BY <1>1 DEF KSZ!Read, KSZ!Step
  <2>2. KHeard' = KHeard + 1 /\ KSent' = KSent
    BY <2>1 DEF KInv, KSent, KHeard
  <2>3. Channel(pipe["io_pipes1"], KSigns, KHeard, KSent)'
    BY <2>1, <2>2, KConstant, ChannelRead DEF KInv
  <2> QED BY <1>1, <2>1, <2>3 DEF KInv, Is
<1>2. CASE \/ KSZ!Assign("child", "printf", "start", "szamlalo", mem["szamlalo"] + 1)
           \/ mem["szamlalo"] = 4 /\ KSZ!Jump("child", "start", "exited")
  <2>1. KHeard' = KHeard /\ KSent' = KSent /\ UNCHANGED pipe
    BY <1>2 DEF KInv, KSent, KHeard, KSZ!Jump, KSZ!Assign, KSZ!Step
  <2>2. Channel(pipe["io_pipes1"], KSigns, KHeard, KSent)'
    BY <2>1, KConstant DEF KInv
  <2>3. CASE KSZ!Assign("child", "printf", "start", "szamlalo", mem["szamlalo"] + 1)
    BY <1>2, <2>2, <2>3 DEF KInv, KSZ!Assign, KSZ!Step, Is
  <2>4. CASE mem["szamlalo"] = 4 /\ KSZ!Jump("child", "start", "exited")
    BY <1>2, <2>2, <2>4 DEF KInv, KSZ!Jump, KSZ!Step, Is
  <2> QED BY <1>2, <2>3, <2>4
<1> QED BY <1>1, <1>2 DEF KSZ!child

LEMMA KInvariant ==
  /\ KSZ!Init /\ Is("kozos_szamlalas") => KInv
  /\ KInv /\ UNCHANGED program /\ (KSZ!Next \/ UNCHANGED zhVars) => KInv'
  /\ KInv => KSZ!TypeOK /\ KSZ!InOrder
<1>1. ASSUME KSZ!Init, Is("kozos_szamlalas") PROVE KInv
  <2>1. KHeard = 0 /\ KSent = 0
    BY <1>1 DEF KSZ!Init, KSZ!NoLocals, KSZ!Processes, KHeard, KSent
  <2>2. Channel(pipe["io_pipes1"], KSigns, KHeard, KSent)
    BY <1>1, <2>1, ChannelOpened DEF KSZ!Init
  <2> QED BY <1>1, <2>2 DEF KSZ!Init, KSZ!NoLocals, KInv, KSZ!Processes
<1>2. ASSUME KInv, UNCHANGED program, UNCHANGED zhVars PROVE KInv'
  <2>1. UNCHANGED <<pc, pipe, mem, reaped>> /\ KHeard' = KHeard /\ KSent' = KSent
    BY <1>2 DEF zhVars, KHeard, KSent
  <2>2. Channel(pipe["io_pipes1"], KSigns, KHeard, KSent)'
    BY <1>2, <2>1, KConstant DEF KInv
  <2> QED BY <1>2, <2>1, <2>2 DEF KInv, Is
<1>3. ASSUME KInv PROVE KSZ!InOrder
  <2>1. KHeard <= KSent
    BY <1>3 DEF KInv, Channel
  <2>2. mem["szamlalo"] <= mem["mainszamlalo"] + (IF pc["main"] = "++" THEN 1 ELSE 0)
    BY <1>3, <2>1 DEF KInv, KHeard, KSent
  <2>3. ASSUME pc["main"] = "done" PROVE mem["szamlalo"] = 4 /\ pipe["io_pipes1"] = <<>>
    <3>1. KHeard = 3 /\ KSent = 3 /\ mem["szamlalo"] = 4
      BY <1>3, <2>3 DEF KInv, KHeard, KSent
    <3> QED BY <1>3, <3>1, ChannelEmptied DEF KInv
  <2> QED BY <2>2, <2>3 DEF KSZ!InOrder
<1>4. KInv => KSZ!TypeOK
  BY DEF KInv, KSZ!TypeOK, Channel
<1> QED BY <1>1, <1>2, <1>3, <1>4, KMain, KChild DEF KSZ!Next

(***************************************************************************)
(* The number passed on with random numbers                                *)
(***************************************************************************)

CNumber == <<mem["console_num"]>>
CWritten1 == IF pc["main"] \in {"wait", "done"} THEN 1 ELSE 0
CRead1 == IF pc["child_1"] \in {"off", "start"} THEN 0 ELSE 1

\* child_1 sends the number it has got and then its random numbers.
CItem(number, sent, k) == IF k = 1 THEN number ELSE sent[k - 1]
CItems(number, sent) == [k \in 1..(Len(sent) + 1) |-> CItem(number, sent, k)]
CWritten2 == IF pc["child_1"] \in {"while", "exited"} THEN Len(mem["elkuldott"]) + 1 ELSE 0
CRead2 ==
  CASE pc["child_2"] \in {"while", "exited"} -> Len(mem["olvasott"]) + 1
    [] pc["child_2"] = "printf" -> Len(mem["olvasott"]) + 2
    [] OTHER -> 0

CForked ==
  /\ DOMAIN pc = CC!Processes /\ reaped \subseteq CC!Children /\ Is("child_communications")
  /\ pc["main"] \in {"fork1", "fork2", "write", "wait", "done", "exited"}
  /\ pc["child_1"] \in {"off", "start", "write", "while", "exited"}
  /\ pc["child_2"] \in {"off", "start", "while", "printf", "exited"}
  /\ pc["main"] = "fork1" => pc["child_1"] = "off"
  /\ pc["main"] \in {"fork1", "fork2"} => pc["child_2"] = "off"

CLocals == {"console_num", "arrived1", "arrived2", "i", "buffer", "elkuldott", "olvasott"}

CTyped ==
  /\ DOMAIN pipe = CC!Pipes /\ DOMAIN mem = CLocals
  /\ mem["console_num"] \in Counts /\ mem["arrived1"] \in Counts \cup {0}
  /\ mem["buffer"] \in Numbers \cup {0}
  /\ mem["elkuldott"] \in Seq(Numbers) /\ mem["olvasott"] \in Seq(Numbers)

\* child_1 has passed on no more than it was asked for, and in the end as many.
CSends ==
  /\ pc["child_1"] \in {"off", "start"} => mem["arrived1"] = 0
  /\ pc["child_1"] \in {"write", "while", "exited"} => mem["arrived1"] = mem["console_num"]
  /\ pc["child_1"] \in {"off", "start", "write"} => mem["elkuldott"] = <<>>
  /\ mem["i"] = Len(mem["elkuldott"])
  /\ Len(mem["elkuldott"]) = 0 \/ Len(mem["elkuldott"]) <= mem["arrived1"]
  /\ pc["child_1"] = "exited" => Len(mem["elkuldott"]) >= mem["arrived1"]

\* child_2 has printed the first of them.
CPrints ==
  /\ pc["child_2"] \in {"off", "start"} => mem["olvasott"] = <<>>
  /\ pc["child_2"] \in {"while", "printf", "exited"} =>
       mem["arrived2"] = mem["console_num"] /\ pc["child_1"] \in {"while", "exited"}
  /\ pc["child_2"] = "printf" => mem["buffer"] = mem["elkuldott"][Len(mem["olvasott"]) + 1]
  /\ pc["child_2"] = "exited" => Len(mem["olvasott"]) >= mem["arrived2"]
  /\ \A k \in 1..Len(mem["olvasott"]) : mem["olvasott"][k] = mem["elkuldott"][k]

CPipes ==
  /\ Channel(pipe["io_pipes_out"], CNumber, CRead1, CWritten1)
  /\ Channel(pipe["child_communication_out"], CItems(mem["arrived1"], mem["elkuldott"]), CRead2, CWritten2)

CInv == CForked /\ CTyped /\ CSends /\ CPrints /\ CPipes

LEMMA CNumberIs == CNumber[1] = mem["console_num"] /\ CNumber[0 + 1] = mem["console_num"]
BY DEF CNumber

LEMMA CItemIs ==
  ASSUME NEW number, NEW sent \in Seq(Numbers), NEW k \in 1..(Len(sent) + 1)
  PROVE  CItems(number, sent)[k] = CItem(number, sent, k)
BY DEF CItems

\* A step that neither writes nor reads.
LEMMA CPipesKept ==
  ASSUME CPipes, UNCHANGED <<pipe, mem["console_num"], mem["arrived1"], mem["elkuldott"]>>,
         CRead1' = CRead1, CWritten1' = CWritten1, CRead2' = CRead2, CWritten2' = CWritten2
  PROVE  CPipes'
BY DEF CPipes, CNumber

LEMMA CMain == ASSUME CInv, UNCHANGED program, CC!Main PROVE CInv'
<1> USE DEF CC!Processes, CC!Children
<1>1. CASE \/ CC!Fork("child_1", "fork1", "fork2") \/ CC!Fork("child_2", "fork2", "write")
           \/ CC!Wait(CC!Children, "wait", "done")
  <2>1. UNCHANGED <<pipe, mem>> /\ reaped' \subseteq CC!Children
    BY <1>1 DEF CInv, CForked, CC!Fork, CC!Wait
  <2>2. CForked' /\ CRead1' = CRead1 /\ CWritten1' = CWritten1
    BY <1>1, <2>1 DEF CInv, CForked, CRead1, CWritten1, CC!Fork, CC!Wait, CC!Step, Is
  <2>3. CRead2' = CRead2 /\ CWritten2' = CWritten2
    BY <1>1, <2>1 DEF CInv, CForked, CRead2, CWritten2, CC!Fork, CC!Wait, CC!Step
  <2>4. CTyped' /\ CSends' /\ CPrints'
    BY <1>1, <2>1 DEF CInv, CForked, CTyped, CSends, CPrints, CC!Fork, CC!Wait, CC!Step
  <2>5. CPipes'
    BY <2>1, <2>2, <2>3, CPipesKept DEF CInv
  <2> QED BY <2>2, <2>4, <2>5 DEF CInv
<1>2. CASE CC!Write("main", "write", "wait", "io_pipes_out", mem["console_num"])
  <2>1. /\ pc["main"] = "write" /\ pc' = [pc EXCEPT !["main"] = "wait"] /\ UNCHANGED <<reaped, mem>>
        /\ pipe' = [pipe EXCEPT !["io_pipes_out"] = Append(@, mem["console_num"])]
        /\ Len(pipe["io_pipes_out"]) < PipeCapacity
    BY <1>2 DEF CC!Write, CC!Step
  <2>2. CForked'
    BY <1>2, <2>1 DEF CInv, CForked, Is
  <2>3. CTyped' /\ CSends' /\ CPrints'
    BY <2>1 DEF CInv, CForked, CTyped, CSends, CPrints, CC!Pipes
  <2>4. CWritten1 = 0 /\ CWritten1' = 0 + 1 /\ CRead1' = CRead1 /\ CRead2' = CRead2 /\ CWritten2' = CWritten2
    BY <2>1 DEF CInv, CForked, CRead1, CWritten1, CRead2, CWritten2
  <2>5. Channel(pipe'["io_pipes_out"], CNumber, CRead1, 0 + 1)
    BY <2>1, <2>4, ChannelWritten, CNumberIs DEF CInv, CPipes, CTyped, CC!Pipes
  <2>6. CPipes'
    BY <2>1, <2>4, <2>5 DEF CInv, CPipes, CNumber, CTyped, CC!Pipes
  <2> QED BY <2>2, <2>3, <2>6 DEF CInv
<1> QED BY <1>1, <1>2 DEF CC!Main

\* child_1 sends one more number.
LEMMA CSent ==
  ASSUME CInv, NEW n \in Numbers, mem["i"] < mem["arrived1"], CC!Step("child_1", "while", "while"),
         Len(pipe["child_communication_out"]) < PipeCapacity,
         pipe' = [pipe EXCEPT !["child_communication_out"] = Append(@, n)],
         mem' = [mem EXCEPT !["i"] = @ + 1, !["elkuldott"] = Append(@, n)],
         UNCHANGED <<pending, ready, reaped, program>>
  PROVE  CInv'
<1> USE DEF CC!Processes, CC!Children
<1>1. PICK sent, more, q, r : /\ sent = mem["elkuldott"] /\ more = Append(sent, n) /\ r = CRead2
                              /\ q = pipe["child_communication_out"]
  OBVIOUS
<1>2. /\ sent \in Seq(Numbers) /\ more \in Seq(Numbers) /\ Len(more) = Len(sent) + 1 /\ Len(sent) \in Nat
      /\ \A k \in 1..Len(sent) : more[k] = sent[k]
      /\ more[Len(sent) + 1] = n
  BY <1>1 DEF CInv, CTyped
<1>3. /\ pc["child_1"] = "while" /\ DOMAIN pc' = DOMAIN pc /\ pc'["main"] = pc["main"]
      /\ pc'["child_1"] = pc["child_1"] /\ pc'["child_2"] = pc["child_2"] /\ DOMAIN mem' = DOMAIN mem /\ DOMAIN pipe' = DOMAIN pipe
      /\ mem'["elkuldott"] = more /\ mem'["i"] = mem["i"] + 1
      /\ mem'["console_num"] = mem["console_num"] /\ mem'["arrived1"] = mem["arrived1"]
      /\ mem'["arrived2"] = mem["arrived2"] /\ mem'["buffer"] = mem["buffer"]
      /\ mem'["olvasott"] = mem["olvasott"]
      /\ pipe'["io_pipes_out"] = pipe["io_pipes_out"]
      /\ pipe'["child_communication_out"] = Append(q, n)
  BY <1>1 DEF CInv, CForked, CTyped, CC!Step, CLocals, CC!Pipes
<1>4. CForked'
  BY <1>3 DEF CInv, CForked, Is
<1>5. CTyped'
  BY <1>2, <1>3 DEF CInv, CTyped
<1>6. CSends'
  <2>1. mem["arrived1"] \in Int /\ mem["i"] = Len(sent) /\ mem["arrived1"] = mem["console_num"]
    BY <1>1, <1>3, CountsAssumption DEF CInv, CSends, CTyped
  <2>2. mem'["i"] = Len(more) /\ Len(more) <= mem["arrived1"]
    BY <1>2, <1>3, <2>1
  <2> HIDE <1>2
  <2> QED BY <1>3, <2>1, <2>2 DEF CSends
<1>7. CWritten2 = Len(sent) + 1 /\ CWritten2' = Len(sent) + 1 + 1 /\ CRead2' = r
  BY <1>1, <1>2, <1>3 DEF CRead2, CWritten2, CInv, CTyped
<1>8. Channel(q, CItems(mem["arrived1"], sent), r, Len(sent) + 1)
  BY <1>1, <1>7 DEF CInv, CPipes
<1>9. \A k \in 1..(Len(sent) + 1) : CItems(mem["arrived1"], sent)[k] = CItems(mem["arrived1"], more)[k]
  <2>1. ASSUME NEW k \in 1..(Len(sent) + 1)
        PROVE  CItem(mem["arrived1"], sent, k) = CItem(mem["arrived1"], more, k) /\ k \in 1..(Len(more) + 1)
    BY <1>2 DEF CItem
  <2> QED BY <1>2, <2>1, CItemIs
<1>10. Channel(q, CItems(mem["arrived1"], more), r, Len(sent) + 1)
  BY <1>8, <1>9, ChannelSame
<1>11. CItems(mem["arrived1"], more)[Len(sent) + 1 + 1] = n
  <2>1. Len(sent) + 1 + 1 \in 1..(Len(more) + 1) /\ CItem(mem["arrived1"], more, Len(sent) + 1 + 1) = n
    BY <1>2 DEF CItem
  <2> QED BY <1>2, <2>1, CItemIs
<1>12. Channel(pipe'["child_communication_out"], CItems(mem["arrived1"], more), r, Len(sent) + 1 + 1)
  BY <1>1, <1>3, <1>10, <1>11, ChannelWritten
<1>13. CRead1' = CRead1 /\ CWritten1' = CWritten1 /\ mem'["arrived1"] = mem["arrived1"]
       /\ mem'["console_num"] = mem["console_num"]
  BY <1>3 DEF CRead1, CWritten1, CInv, CTyped
<1>14. CPipes'
  BY <1>3, <1>7, <1>12, <1>13 DEF CInv, CPipes, CNumber
<1>15. CPrints'
  <2>1. pc["child_2"] = "printf" => Len(mem["olvasott"]) + 1 \in 1..Len(sent)
    BY <1>1, <1>2, <1>7, <1>8 DEF Channel, CRead2, CInv, CTyped
  <2>2. \A k \in 1..Len(mem["olvasott"]) : k \in 1..Len(sent)
    BY <1>1, <1>2, <1>7, <1>8 DEF Channel, CRead2, CInv, CTyped, CForked, CPrints
  <2>3. \A k \in 1..Len(mem["olvasott"]) : mem["olvasott"][k] = more[k]
    BY <1>1, <1>2, <2>2 DEF CInv, CPrints
  <2>4. pc["child_2"] = "printf" => mem["buffer"] = more[Len(mem["olvasott"]) + 1]
    BY <1>1, <1>2, <2>1 DEF CInv, CPrints
  <2>5. CPrints!1 /\ CPrints!2 /\ CPrints!4
    BY DEF CInv, CPrints
  <2> QED BY <1>3, <2>3, <2>4, <2>5 DEF CPrints
<1> QED BY <1>4, <1>5, <1>6, <1>14, <1>15 DEF CInv

LEMMA CFirst == ASSUME CInv, UNCHANGED program, CC!child_1 PROVE CInv'
<1> USE DEF CC!Processes, CC!Children, CLocals
<1>1. CASE CC!Read("child_1", "start", "write", "io_pipes_out", "arrived1")
  <2>1. /\ pc["child_1"] = "start" /\ pc' = [pc EXCEPT !["child_1"] = "write"] /\ UNCHANGED reaped
        /\ pipe["io_pipes_out"] # <<>> /\ mem' = [mem EXCEPT !["arrived1"] = Head(pipe["io_pipes_out"])]
        /\ pipe' = [pipe EXCEPT !["io_pipes_out"] = Tail(@)]
    BY <1>1 DEF CC!Read, CC!Step
  <2>2. CRead1 = 0 /\ CRead1' = 0 + 1 /\ CWritten1' = CWritten1 /\ CRead2' = CRead2 /\ CWritten2' = CWritten2
    BY <2>1 DEF CInv, CForked, CTyped, CRead1, CWritten1, CRead2, CWritten2
  <2>3. /\ Channel(Tail(pipe["io_pipes_out"]), CNumber, 0 + 1, CWritten1)
        /\ Head(pipe["io_pipes_out"]) = mem["console_num"]
    BY <2>1, <2>2, ChannelRead, CNumberIs DEF CInv, CPipes
  <2>4. CForked' /\ CTyped'
    BY <1>1, <2>1, <2>3 DEF CInv, CForked, CTyped, CC!Pipes, Is
  <2>5. pc["child_2"] \in {"off", "start"} /\ mem["elkuldott"] = <<>> /\ mem["arrived1"] = 0
    BY <2>1 DEF CInv, CForked, CPrints, CSends
  <2>6. /\ mem'["arrived1"] = mem["console_num"] /\ mem'["console_num"] = mem["console_num"]
        /\ \A x \in CLocals \ {"arrived1"} : mem'[x] = mem[x]
        /\ pc'["child_1"] = "write" /\ pc'["child_2"] = pc["child_2"]
    BY <2>1, <2>3 DEF CInv, CForked, CTyped
  <2>10. mem'["elkuldott"] = <<>> /\ Len(mem'["elkuldott"]) = 0 /\ mem'["i"] = 0
    BY <2>5, <2>6, OneItem DEF CInv, CSends
  <2>11. CSends'
    BY <2>6, <2>10 DEF CSends
  <2>12. CPrints'
    BY <2>5, <2>6, OneItem DEF CInv, CPrints
  <2>7. CWritten2 = 0 /\ CRead2 = 0
    BY <2>1, <2>5 DEF CWritten2, CRead2
  <2>8. pipe'["child_communication_out"] = <<>>
    BY <2>1, <2>7, ChannelEmptied DEF CInv, CPipes, CTyped, CC!Pipes
  <2>9. CPipes'
    BY <2>1, <2>2, <2>3, <2>7, <2>8, ChannelOpened DEF CInv, CPipes, CNumber, CTyped, CC!Pipes
  <2> QED BY <2>4, <2>9, <2>11, <2>12 DEF CInv
<1>2. CASE CC!Write("child_1", "write", "while", "child_communication_out", mem["arrived1"])
  <2>1. /\ pc["child_1"] = "write" /\ pc' = [pc EXCEPT !["child_1"] = "while"] /\ UNCHANGED <<reaped, mem>>
        /\ pipe' = [pipe EXCEPT !["child_communication_out"] = Append(@, mem["arrived1"])]
        /\ Len(pipe["child_communication_out"]) < PipeCapacity
    BY <1>2 DEF CC!Write, CC!Step
  <2>2. CForked' /\ CTyped' /\ CSends' /\ CPrints'
    BY <1>2, <2>1, OneItem, CountsAssumption DEF CInv, CForked, CTyped, CSends, CPrints, CC!Pipes, Is
  <2>3. mem["elkuldott"] = <<>> /\ Len(mem["elkuldott"]) = 0
    BY <2>1, OneItem DEF CInv, CSends
  <2>4. CWritten2 = 0 /\ CWritten2' = 0 + 1 /\ CRead2' = CRead2 /\ CRead1' = CRead1 /\ CWritten1' = CWritten1
    BY <2>1, <2>3 DEF CInv, CForked, CRead1, CWritten1, CRead2, CWritten2
  <2>5. CItems(mem["arrived1"], mem["elkuldott"])[0 + 1] = mem["arrived1"]
    <3>1. 0 + 1 \in 1..(Len(mem["elkuldott"]) + 1) /\ CItem(mem["arrived1"], mem["elkuldott"], 0 + 1) = mem["arrived1"]
      BY <2>3 DEF CItem
    <3> QED BY <3>1, CItemIs DEF CInv, CTyped
  <2>6. Channel(pipe'["child_communication_out"], CItems(mem["arrived1"], mem["elkuldott"]), CRead2, 0 + 1)
    BY <2>1, <2>4, <2>5, ChannelWritten DEF CInv, CPipes, CTyped, CC!Pipes
  <2>7. CPipes'
    BY <2>1, <2>4, <2>6 DEF CInv, CPipes, CNumber, CTyped, CC!Pipes
  <2> QED BY <2>2, <2>7 DEF CInv
<1>3. CASE /\ mem["i"] < mem["arrived1"]
           /\ \E n \in Numbers :
                /\ CC!Step("child_1", "while", "while")
                /\ Len(pipe["child_communication_out"]) < PipeCapacity
                /\ pipe' = [pipe EXCEPT !["child_communication_out"] = Append(@, n)]
                /\ mem' = [mem EXCEPT !["i"] = @ + 1, !["elkuldott"] = Append(@, n)]
           /\ UNCHANGED <<pending, ready, reaped>>
  BY <1>3, CSent
<1>4. CASE mem["i"] >= mem["arrived1"] /\ CC!Jump("child_1", "while", "exited")
  <2>1. /\ pc["child_1"] = "while" /\ pc' = [pc EXCEPT !["child_1"] = "exited"]
        /\ UNCHANGED <<reaped, mem, pipe>>
    BY <1>4 DEF CC!Jump, CC!Step
  <2>2. CForked' /\ CTyped' /\ CSends' /\ CPrints'
    BY <1>4, <2>1 DEF CInv, CForked, CTyped, CSends, CPrints, Is
  <2>3. CRead1' = CRead1 /\ CWritten1' = CWritten1 /\ CRead2' = CRead2 /\ CWritten2' = CWritten2
    BY <2>1 DEF CInv, CForked, CRead1, CWritten1, CRead2, CWritten2
  <2>4. CPipes'
    BY <2>1, <2>3, CPipesKept DEF CInv
  <2> QED BY <2>2, <2>4 DEF CInv
<1> QED BY <1>1, <1>2, <1>3, <1>4 DEF CC!child_1

\* What child_2 reads next
LEMMA CNextItem ==
  ASSUME CInv, pipe["child_communication_out"] # <<>>, NEW r, CRead2 = r
  PROVE  /\ Channel(Tail(pipe["child_communication_out"]),
                    CItems(mem["arrived1"], mem["elkuldott"]), r + 1, CWritten2)
         /\ Head(pipe["child_communication_out"]) = CItem(mem["arrived1"], mem["elkuldott"], r + 1)
         /\ pc["child_1"] \in {"while", "exited"} /\ r + 1 \in 1..(Len(mem["elkuldott"]) + 1)
<1>1. /\ Channel(Tail(pipe["child_communication_out"]),
                 CItems(mem["arrived1"], mem["elkuldott"]), r + 1, CWritten2)
      /\ Head(pipe["child_communication_out"]) = CItems(mem["arrived1"], mem["elkuldott"])[r + 1]
      /\ r + 1 \in 1..CWritten2
  BY ChannelRead DEF CInv, CPipes
<1>2. pc["child_1"] \in {"while", "exited"} /\ CWritten2 = Len(mem["elkuldott"]) + 1
  BY <1>1 DEF CWritten2
<1>3. mem["elkuldott"] \in Seq(Numbers)
  BY DEF CInv, CTyped
<1>4. r + 1 \in 1..(Len(mem["elkuldott"]) + 1)
  BY <1>1, <1>2
<1>5. CItems(mem["arrived1"], mem["elkuldott"])[r + 1] = CItem(mem["arrived1"], mem["elkuldott"], r + 1)
  BY <1>3, <1>4, CItemIs, Zenon
<1> QED BY <1>1, <1>2, <1>4, <1>5

LEMMA CSecond == ASSUME CInv, UNCHANGED program, CC!child_2 PROVE CInv'
<1> USE DEF CC!Processes, CC!Children, CLocals
<1>1. CASE CC!Read("child_2", "start", "while", "child_communication_out", "arrived2")
  <2>1. /\ pc["child_2"] = "start" /\ pc' = [pc EXCEPT !["child_2"] = "while"] /\ UNCHANGED reaped
        /\ pipe["child_communication_out"] # <<>>
        /\ mem' = [mem EXCEPT !["arrived2"] = Head(pipe["child_communication_out"])]
        /\ pipe' = [pipe EXCEPT !["child_communication_out"] = Tail(@)]
    BY <1>1 DEF CC!Read, CC!Step
  <2>2. mem["olvasott"] = <<>> /\ Len(mem["olvasott"]) = 0
    BY <2>1, OneItem DEF CInv, CPrints
  <2>3. CRead2 = 0 /\ CRead2' = 0 + 1 /\ CWritten2' = CWritten2 /\ CRead1' = CRead1 /\ CWritten1' = CWritten1
    BY <2>1, <2>2 DEF CInv, CForked, CTyped, CRead1, CWritten1, CRead2, CWritten2
  <2>4. /\ Channel(Tail(pipe["child_communication_out"]),
                   CItems(mem["arrived1"], mem["elkuldott"]), 0 + 1, CWritten2)
        /\ Head(pipe["child_communication_out"]) = CItem(mem["arrived1"], mem["elkuldott"], 0 + 1)
        /\ pc["child_1"] \in {"while", "exited"}
    BY <2>1, <2>3, CNextItem
  <2>5. CItem(mem["arrived1"], mem["elkuldott"], 0 + 1) = mem["arrived1"]
    BY DEF CItem
  <2>6. CForked' /\ CTyped' /\ CSends'
    BY <1>1, <2>1 DEF CInv, CForked, CTyped, CSends, CC!Pipes, Is
  <2>7. CPrints'
    BY <2>1, <2>2, <2>4, <2>5 DEF CInv, CTyped, CSends, CPrints
  <2>8. CPipes'
    BY <2>1, <2>3, <2>4 DEF CInv, CPipes, CNumber, CTyped, CC!Pipes
  <2> QED BY <2>6, <2>7, <2>8 DEF CInv
<1>2. CASE /\ Len(mem["olvasott"]) < mem["arrived2"]
           /\ CC!Read("child_2", "while", "printf", "child_communication_out", "buffer")
  <2>1. /\ pc["child_2"] = "while" /\ pc' = [pc EXCEPT !["child_2"] = "printf"] /\ UNCHANGED reaped
        /\ pipe["child_communication_out"] # <<>>
        /\ mem' = [mem EXCEPT !["buffer"] = Head(pipe["child_communication_out"])]
        /\ pipe' = [pipe EXCEPT !["child_communication_out"] = Tail(@)]
    BY <1>2 DEF CC!Read, CC!Step
  <2>2. PICK n : n = Len(mem["olvasott"]) /\ n \in Nat
    BY DEF CInv, CTyped
  <2>3. CRead2 = n + 1 /\ CRead2' = n + 2 /\ CWritten2' = CWritten2 /\ CRead1' = CRead1 /\ CWritten1' = CWritten1
    BY <2>1, <2>2 DEF CInv, CForked, CTyped, CRead1, CWritten1, CRead2, CWritten2
  <2>4. /\ Channel(Tail(pipe["child_communication_out"]),
                   CItems(mem["arrived1"], mem["elkuldott"]), n + 1 + 1, CWritten2)
        /\ Head(pipe["child_communication_out"]) = CItem(mem["arrived1"], mem["elkuldott"], n + 1 + 1)
        /\ n + 1 + 1 \in 1..(Len(mem["elkuldott"]) + 1)
    BY <2>1, <2>3, CNextItem
  <2>5. n + 1 + 1 = n + 2 /\ n + 1 + 1 # 1 /\ n + 1 + 1 - 1 = n + 1
    BY <2>2
  <2>6. CItem(mem["arrived1"], mem["elkuldott"], n + 1 + 1) = mem["elkuldott"][n + 1]
    <3>0. PICK k : k = n + 1 + 1
      OBVIOUS
    <3>1. k = n + 1 + 1 /\ k # 1 /\ k - 1 = n + 1
      BY <2>2, <3>0
    <3>2. CItem(mem["arrived1"], mem["elkuldott"], k) = mem["elkuldott"][k - 1]
      BY <3>1 DEF CItem
    <3> QED BY <3>1, <3>2
  <2>7. n + 1 \in 1..Len(mem["elkuldott"]) /\ mem["elkuldott"][n + 1] \in Numbers
    <3>1. n + 1 \in 1..Len(mem["elkuldott"])
      BY <2>2, <2>4 DEF CInv, CTyped
    <3> QED BY <3>1, ElementOfSeq DEF CInv, CTyped
  <2>8. CForked' /\ CTyped' /\ CSends'
    BY <1>2, <2>1, <2>4, <2>6, <2>7 DEF CInv, CForked, CTyped, CSends, CC!Pipes, Is
  <2>9. CPrints'
    BY <2>1, <2>2, <2>4, <2>6 DEF CInv, CTyped, CPrints
  <2>10. CPipes'
    BY <2>1, <2>3, <2>4, <2>5 DEF CInv, CPipes, CNumber, CTyped, CC!Pipes
  <2> QED BY <2>8, <2>9, <2>10 DEF CInv
<1>3. CASE CC!Assign("child_2", "printf", "while", "olvasott", Append(mem["olvasott"], mem["buffer"]))
  <2>1. /\ pc["child_2"] = "printf" /\ pc' = [pc EXCEPT !["child_2"] = "while"] /\ UNCHANGED <<reaped, pipe>>
        /\ mem' = [mem EXCEPT !["olvasott"] = Append(mem["olvasott"], mem["buffer"])]
    BY <1>3 DEF CC!Assign, CC!Step
  <2>0. PICK got, more : got = mem["olvasott"] /\ more = Append(got, mem["buffer"])
    OBVIOUS
  <2>14. PICK n : n = Len(got) /\ n \in Nat
    BY <2>0 DEF CInv, CTyped
  <2>2. got = mem["olvasott"] /\ n = Len(got) /\ n \in Nat /\ more = Append(got, mem["buffer"])
    BY <2>0, <2>14
  <2>3. Len(mem["elkuldott"]) \in Nat /\ CRead2 = n + 2 /\ CRead2 <= CWritten2
    BY <2>1, <2>2 DEF CInv, CTyped, CRead2, CPipes, Channel
  <2>4. n + 1 \in 1..Len(mem["elkuldott"])
    BY <2>2, <2>3 DEF CWritten2
  <2>5. mem["buffer"] = mem["elkuldott"][n + 1] /\ mem["buffer"] \in Numbers
    BY <2>1, <2>2, <2>4, ElementOfSeq DEF CInv, CPrints, CTyped
  <2>6. /\ more \in Seq(Numbers) /\ Len(more) = n + 1 /\ more[n + 1] = mem["buffer"]
        /\ \A k \in 1..n : more[k] = got[k]
    BY <2>2, <2>5 DEF CInv, CTyped
  <2>7. \A k \in 1..(n + 1) : more[k] = mem["elkuldott"][k]
    BY <2>2, <2>5, <2>6 DEF CInv, CPrints
  <2>8. /\ mem'["olvasott"] = more /\ DOMAIN mem' = DOMAIN mem
        /\ \A x \in CLocals \ {"olvasott"} : mem'[x] = mem[x]
    BY <2>1, <2>2 DEF CInv, CTyped
  <2>9. CForked' /\ CTyped' /\ CSends'
    BY <1>3, <2>1, <2>6, <2>8 DEF CInv, CForked, CTyped, CSends, Is
  <2>10. CPrints'
    BY <2>1, <2>6, <2>7, <2>8 DEF CInv, CPrints, CForked
  <2>11. CRead1' = CRead1 /\ CWritten1' = CWritten1 /\ CRead2' = CRead2 /\ CWritten2' = CWritten2
    BY <2>1, <2>2, <2>3, <2>6, <2>8 DEF CInv, CForked, CRead1, CWritten1, CRead2, CWritten2
  <2>12. CPipes'
    BY <2>1, <2>8, <2>11, CPipesKept DEF CInv
  <2> QED BY <2>9, <2>10, <2>12 DEF CInv
<1>4. CASE Len(mem["olvasott"]) >= mem["arrived2"] /\ CC!Jump("child_2", "while", "exited")
  <2>1. /\ pc["child_2"] = "while" /\ pc' = [pc EXCEPT !["child_2"] = "exited"]
        /\ UNCHANGED <<reaped, mem, pipe>>
    BY <1>4 DEF CC!Jump, CC!Step
  <2>2. CForked' /\ CTyped' /\ CSends' /\ CPrints'
    BY <1>4, <2>1 DEF CInv, CForked, CTyped, CSends, CPrints, Is
  <2>3. CRead1' = CRead1 /\ CWritten1' = CWritten1 /\ CRead2' = CRead2 /\ CWritten2' = CWritten2
    BY <2>1 DEF CInv, CForked, CRead1, CWritten1, CRead2, CWritten2
  <2>4. CPipes'
    BY <2>1, <2>3, CPipesKept DEF CInv
  <2> QED BY <2>2, <2>4 DEF CInv
<1> QED BY <1>1, <1>2, <1>3, <1>4 DEF CC!child_2

LEMMA PrefixIs ==
  ASSUME NEW X, NEW s \in Seq(X), NEW t \in Seq(X), Len(s) <= Len(t),
         \A k \in 1..Len(s) : s[k] = t[k]
  PROVE  CC!IsPrefix(s, t)
<1>1. SubSeq(s, 1, Len(s)) = SubSeq(t, 1, Len(s))
  BY DEF SubSeq
<1> QED BY <1>1 DEF CC!IsPrefix

LEMMA CInvariant ==
  /\ CC!Init /\ Is("child_communications") => CInv
  /\ CInv /\ UNCHANGED program /\ (CC!Next \/ UNCHANGED zhVars) => CInv'
  /\ CInv => CC!TypeOK /\ CC!InOrder
<1> USE DEF CC!Processes, CC!Children, CLocals
<1>1. ASSUME CC!Init, Is("child_communications") PROVE CInv
  <2>1. /\ pc = [p \in CC!Processes |-> IF p = "main" THEN "fork1" ELSE "off"]
        /\ reaped = {} /\ pipe = [d \in CC!Pipes |-> <<>>]
    BY <1>1 DEF CC!Init
  <2>2. PICK n \in Counts : mem = [CC!NoLocals EXCEPT !["console_num"] = n]
    BY <1>1 DEF CC!Init
  <2>3. /\ DOMAIN mem = CLocals /\ mem["console_num"] = n /\ mem["arrived1"] = 0 /\ mem["i"] = 0
        /\ mem["buffer"] = 0 /\ mem["elkuldott"] = <<>> /\ mem["olvasott"] = <<>>
    BY <2>2 DEF CC!NoLocals
  <2>4. CForked
    BY <1>1, <2>1 DEF CForked
  <2>5. CTyped
    BY <2>1, <2>3, EmptySeq DEF CTyped
  <2>6. CSends /\ CPrints
    BY <2>1, <2>3, OneItem DEF CSends, CPrints
  <2>7. CRead1 = 0 /\ CWritten1 = 0 /\ CRead2 = 0 /\ CWritten2 = 0
    BY <2>1 DEF CRead1, CRead2, CWritten1, CWritten2
  <2>8. CPipes
    BY <2>1, <2>7, ChannelOpened DEF CPipes, CC!Pipes
  <2> QED BY <2>4, <2>5, <2>6, <2>8 DEF CInv
<1>2. ASSUME CInv, UNCHANGED program, UNCHANGED zhVars PROVE CInv'
  <2>1. UNCHANGED <<pc, pipe, mem, reaped>>
    BY <1>2 DEF zhVars
  <2>2. CRead1' = CRead1 /\ CWritten1' = CWritten1 /\ CRead2' = CRead2 /\ CWritten2' = CWritten2
    BY <2>1 DEF CRead1, CWritten1, CRead2, CWritten2
  <2>3. CPipes'
    BY <1>2, <2>1, <2>2, CPipesKept DEF CInv
  <2> QED BY <1>2, <2>1, <2>3 DEF CInv, CForked, CTyped, CSends, CPrints, Is
<1>3. ASSUME CInv PROVE CC!InOrder
  <2>1. PICK got, sent : got = mem["olvasott"] /\ sent = mem["elkuldott"]
    OBVIOUS
  <2>2. /\ got \in Seq(Numbers) /\ sent \in Seq(Numbers) /\ Len(got) \in Nat /\ Len(sent) \in Nat
        /\ \A k \in 1..Len(got) : got[k] = sent[k]
    BY <1>3, <2>1 DEF CInv, CTyped, CPrints
  <2>3. CRead2 <= CWritten2
    BY <1>3 DEF CInv, CPipes, Channel
  <2>4. Len(got) <= Len(sent)
    <3>1. CASE pc["child_2"] \in {"while", "exited", "printf"}
      BY <1>3, <2>1, <2>2, <2>3, <3>1 DEF CRead2, CWritten2, CInv, CPrints
    <3>2. CASE pc["child_2"] \in {"off", "start"}
      BY <1>3, <2>1, <2>2, <3>2, OneItem DEF CInv, CPrints
    <3> QED BY <1>3, <3>1, <3>2 DEF CInv, CForked
  <2>5. CC!IsPrefix(got, sent)
    BY <2>2, <2>4, PrefixIs
  <2>6. ASSUME pc["child_2"] = "exited"
        PROVE  /\ mem["arrived2"] = mem["console_num"]
               /\ got = sent /\ pipe["child_communication_out"] = <<>>
    <3>1. mem["arrived2"] = mem["console_num"] /\ mem["arrived1"] = mem["console_num"]
          /\ mem["arrived1"] \in Int /\ Len(got) >= mem["arrived1"]
          /\ pc["child_1"] \in {"while", "exited"}
      BY <1>3, <2>1, <2>6, CountsAssumption DEF CInv, CPrints, CSends, CTyped
    <3>2. Len(got) = Len(sent)
      BY <1>3, <2>1, <2>2, <2>4, <3>1 DEF CInv, CSends
    <3>3. got = sent
      BY <2>2, <3>2, SeqEqual
    <3>4. CRead2 = CWritten2
      BY <2>1, <2>6, <3>1, <3>2 DEF CRead2, CWritten2
    <3> QED BY <1>3, <3>1, <3>3, <3>4, ChannelEmptied DEF CInv, CPipes
  <2> QED BY <2>1, <2>5, <2>6 DEF CC!InOrder
<1>4. CInv => CC!TypeOK
  BY DEF CInv, CForked, CTyped, CPipes, Channel, CC!TypeOK, CC!Pipes
<1> QED BY <1>1, <1>2, <1>3, <1>4, CMain, CFirst, CSecond DEF CC!Next

\* What FoldSet adds up, in the order in which CHOOSE takes the elements
Pick(s) == CHOOSE x \in s : TRUE
SumsOf(f, S, g) == g = [s \in SUBSET S |-> IF s = {} THEN 0 ELSE f[Pick(s)] + g[s \ {Pick(s)}]]
Sum(f, S) == (CHOOSE g : SumsOf(f, S, g))[S]

LEMMA FoldIsSum ==
  ASSUME NEW S, NEW f PROVE SZ!FoldSet(LAMBDA p, n : f[p] + n, 0, S) = Sum(f, S)
BY DEF SZ!FoldSet, SZ!MapThenFoldSet, Sum, SumsOf, Pick

LEMMA LeastNat ==
  ASSUME NEW S \in SUBSET Nat, S # {}
  PROVE  \E m \in S : \A x \in S : m <= x
<1>1. PICK m \in S : \A y \in S : ~(<<y, m>> \in OpToRel(<, Nat))
  BY NatLessThanWellFounded, WFMin, Zenon
<1>2. \A y \in S : ~(y < m)
  BY <1>1 DEF OpToRel
<1> QED BY <1>2

\* The subsets of S in the order of their size
Small(S, n) == {s \in SUBSET S : Cardinality(s) <= n}

LEMMA Smaller ==
  ASSUME NEW S, IsFiniteSet(S), NEW s \in SUBSET S, s # {}
  PROVE  /\ Pick(s) \in s /\ s \ {Pick(s)} \in SUBSET S
         /\ Cardinality(s) \in Nat \ {0} /\ Cardinality(s \ {Pick(s)}) = Cardinality(s) - 1
<1>1. Pick(s) \in s
  BY DEF Pick
<1>2. IsFiniteSet(s)
  BY FS_Subset
<1>3. Cardinality(s \ {Pick(s)}) = Cardinality(s) - 1 /\ Cardinality(s) \in Nat
  BY <1>1, <1>2, FS_RemoveElement, FS_CardinalityType
<1>4. Cardinality(s) # 0
  BY <1>2, FS_EmptySet
<1> QED BY <1>1, <1>3, <1>4

\* The recursion has a solution for every finite set: one for the small subsets is
\* one step short of one for the next size.
SmallSumsOf(f, S, n, g) ==
  g = [s \in Small(S, n) |-> IF s = {} THEN 0 ELSE f[Pick(s)] + g[s \ {Pick(s)}]]

LEMMA SmallSumsNext ==
  ASSUME NEW S, IsFiniteSet(S), NEW f, NEW n \in Nat, NEW g, SmallSumsOf(f, S, n, g)
  PROVE  \E h : SmallSumsOf(f, S, n + 1, h)
<1>1. PICK h : h = [s \in Small(S, n + 1) |-> IF s = {} THEN 0 ELSE f[Pick(s)] + g[s \ {Pick(s)}]]
  OBVIOUS
<1>2. ASSUME NEW t \in Small(S, n) PROVE g[t] = h[t]
  <2>1. t \in Small(S, n + 1)
    <3>1. IsFiniteSet(t) /\ Cardinality(t) \in Nat
      BY <1>2, FS_Subset, FS_CardinalityType DEF Small
    <3> QED BY <1>2, <3>1 DEF Small
  <2>2. g[t] = IF t = {} THEN 0 ELSE f[Pick(t)] + g[t \ {Pick(t)}]
    BY <1>2 DEF SmallSumsOf
  <2> QED BY <1>1, <2>1, <2>2
<1>3. ASSUME NEW s \in Small(S, n + 1), s # {} PROVE g[s \ {Pick(s)}] = h[s \ {Pick(s)}]
  <2>1. s \ {Pick(s)} \in Small(S, n)
    BY <1>3, Smaller DEF Small
  <2> QED BY <1>2, <2>1
<1>4. h = [s \in Small(S, n + 1) |-> IF s = {} THEN 0 ELSE f[Pick(s)] + h[s \ {Pick(s)}]]
  BY <1>1, <1>3
<1> QED BY <1>4 DEF SmallSumsOf

LEMMA SumsExist == ASSUME NEW S, IsFiniteSet(S), NEW f PROVE \E g : SumsOf(f, S, g)
<1>1. \A n \in Nat : \E g : SmallSumsOf(f, S, n, g)
  <2> DEFINE Missing == {n \in Nat : ~\E g : SmallSumsOf(f, S, n, g)}
  <2> SUFFICES ASSUME Missing # {} PROVE FALSE
    OBVIOUS
  <2>1. PICK m \in Missing : \A x \in Missing : m <= x
    BY LeastNat
  <2>2. m # 0
    <3>1. PICK g : g = [s \in Small(S, 0) |-> 0]
      OBVIOUS
    <3>2. ASSUME NEW s \in Small(S, 0) PROVE s = {}
      <4>1. s \in SUBSET S /\ Cardinality(s) <= 0
        BY DEF Small
      <4>2. s # {} => Cardinality(s) \in Nat \ {0}
        BY <4>1, Smaller
      <4> QED BY <4>1, <4>2
    <3>3. g = [s \in Small(S, 0) |-> IF s = {} THEN 0 ELSE f[Pick(s)] + g[s \ {Pick(s)}]]
      BY <3>1, <3>2
    <3> QED BY <3>3 DEF SmallSumsOf
  <2>3. m - 1 \in Nat /\ m - 1 + 1 = m /\ ~(m <= m - 1)
    BY <2>2
  <2>4. m - 1 \notin Missing
    BY <2>1, <2>3
  <2>5. PICK g : SmallSumsOf(f, S, m - 1, g)
    BY <2>3, <2>4
  <2>6. \E h : SmallSumsOf(f, S, m - 1 + 1, h)
    BY <2>3, <2>5, SmallSumsNext
  <2> QED BY <2>1, <2>3, <2>6
<1>2. Cardinality(S) \in Nat
  BY FS_CardinalityType
<1>3. Small(S, Cardinality(S)) = SUBSET S
  BY FS_Subset DEF Small
<1>4. PICK g : SmallSumsOf(f, S, Cardinality(S), g)
  BY <1>1, <1>2
<1>5. SumsOf(f, S, g)
  BY <1>3, <1>4, Zenon DEF SmallSumsOf, SumsOf
<1> QED BY <1>5

\* A property of the empty set that each element added keeps holds of all finite
\* sets; here of the sums of f and of h, which is f with one more at p.
Raised(f, h, p, S) == \A x \in S : f[x] \in Int /\ h[x] = f[x] + (IF x = p THEN 1 ELSE 0)
RaisedSum(a, b, p, s) == a[s] \in Int /\ b[s] = a[s] + (IF p \in s THEN 1 ELSE 0)

LEMMA SumsRaised ==
  ASSUME NEW S, IsFiniteSet(S), NEW f, NEW h, NEW p, Raised(f, h, p, S),
         NEW a, SumsOf(f, S, a), NEW b, SumsOf(h, S, b)
  PROVE  RaisedSum(a, b, p, S)
<1> DEFINE Wrong == {n \in Nat : \E s \in SUBSET S : Cardinality(s) = n /\ ~RaisedSum(a, b, p, s)}
<1>1. ASSUME NEW n \in Wrong PROVE \E m \in Wrong : m < n
  <2>1. PICK s \in SUBSET S : Cardinality(s) = n /\ ~RaisedSum(a, b, p, s)
    OBVIOUS
  <2>2. /\ a[s] = IF s = {} THEN 0 ELSE f[Pick(s)] + a[s \ {Pick(s)}]
        /\ b[s] = IF s = {} THEN 0 ELSE h[Pick(s)] + b[s \ {Pick(s)}]
    BY DEF SumsOf
  <2>3. s # {}
    BY <2>1, <2>2 DEF RaisedSum
  <2>4. PICK x, t : x = Pick(s) /\ t = s \ {Pick(s)}
    OBVIOUS
  <2>5. x \in s /\ t \in SUBSET S /\ n \in Nat \ {0} /\ Cardinality(t) = n - 1 /\ t = s \ {x}
    BY <2>1, <2>3, <2>4, Smaller
  <2>6. a[s] = f[x] + a[t] /\ b[s] = h[x] + b[t]
    BY <2>2, <2>3, <2>4
  <2>7. f[x] \in Int /\ h[x] = f[x] + (IF x = p THEN 1 ELSE 0)
    BY <2>5 DEF Raised
  <2>8. ~RaisedSum(a, b, p, t)
    <3> SUFFICES ASSUME RaisedSum(a, b, p, t) PROVE FALSE
      OBVIOUS
    <3>1. a[t] \in Int /\ b[t] = a[t] + (IF p \in t THEN 1 ELSE 0)
      BY DEF RaisedSum
    <3>2. (p \in s) <=> (x = p \/ p \in t)
      BY <2>5
    <3>3. ~(x = p /\ p \in t)
      BY <2>5
    <3>4. RaisedSum(a, b, p, s)
      BY <2>6, <2>7, <3>1, <3>2, <3>3 DEF RaisedSum
    <3> QED BY <2>1, <3>4
  <2>9. n - 1 \in Nat /\ n - 1 < n
    BY <2>5
  <2>10. n - 1 \in Wrong
    BY <2>5, <2>8, <2>9
  <2> QED BY <2>9, <2>10
<1>2. Wrong = {}
  <2> SUFFICES ASSUME Wrong # {} PROVE FALSE
    OBVIOUS
  <2>1. PICK m \in Wrong : \A x \in Wrong : m <= x
    BY LeastNat
  <2>2. PICK l \in Wrong : l < m
    BY <1>1
  <2>3. m <= l /\ m \in Nat /\ l \in Nat
    BY <2>1
  <2> QED BY <2>2, <2>3
<1>3. Cardinality(S) \in Nat
  BY FS_CardinalityType
<1> QED BY <1>2, <1>3

LEMMA SumRaised ==
  ASSUME NEW S, IsFiniteSet(S), NEW f, NEW h, NEW p \in S, Raised(f, h, p, S)
  PROVE  Sum(f, S) \in Int /\ Sum(h, S) = Sum(f, S) + 1
<1>1. SumsOf(f, S, CHOOSE g : SumsOf(f, S, g)) /\ SumsOf(h, S, CHOOSE g : SumsOf(h, S, g))
  BY SumsExist
<1>2. RaisedSum(CHOOSE g : SumsOf(f, S, g), CHOOSE g : SumsOf(h, S, g), p, S)
  BY <1>1, SumsRaised
<1> QED BY <1>2 DEF RaisedSum, Sum

\* Nothing added up
LEMMA SumSame ==
  ASSUME NEW S, IsFiniteSet(S), NEW f, \A x \in S : f[x] = 0 PROVE Sum(f, S) = 0
<1>1. PICK a : a = CHOOSE g : SumsOf(f, S, g)
  OBVIOUS
<1>2. SumsOf(f, S, a)
  BY <1>1, SumsExist
<1> DEFINE Wrong == {n \in Nat : \E s \in SUBSET S : Cardinality(s) = n /\ a[s] # 0}
<1>3. ASSUME NEW n \in Wrong PROVE \E m \in Wrong : m < n
  <2>1. PICK s \in SUBSET S : Cardinality(s) = n /\ a[s] # 0
    OBVIOUS
  <2>2. a[s] = IF s = {} THEN 0 ELSE f[Pick(s)] + a[s \ {Pick(s)}]
    BY <1>2 DEF SumsOf
  <2>3. s # {}
    BY <2>1, <2>2
  <2>4. PICK x, t : x = Pick(s) /\ t = s \ {Pick(s)}
    OBVIOUS
  <2>5. x \in S /\ t \in SUBSET S /\ n \in Nat \ {0} /\ Cardinality(t) = n - 1
    BY <2>1, <2>3, <2>4, Smaller
  <2>6. a[t] # 0
    BY <2>1, <2>2, <2>3, <2>4, <2>5
  <2>7. n - 1 \in Nat /\ n - 1 < n
    BY <2>5
  <2> QED BY <2>5, <2>6, <2>7
<1>4. Wrong = {}
  <2> SUFFICES ASSUME Wrong # {} PROVE FALSE
    OBVIOUS
  <2>1. PICK m \in Wrong : \A x \in Wrong : m <= x
    BY LeastNat
  <2>2. PICK l \in Wrong : l < m
    BY <1>3
  <2>3. m <= l /\ m \in Nat /\ l \in Nat
    BY <2>1
  <2> QED BY <2>2, <2>3
<1>5. Cardinality(S) \in Nat
  BY FS_CardinalityType
<1> QED BY <1>1, <1>4, <1>5 DEF Sum

(***************************************************************************)
(* The election                                                            *)
(***************************************************************************)

SZLocals == DOMAIN SZ!NoLocals
Before == {"setup", "fork1", "fork2", "ready1", "ready2", "write_count"}
Collects == {"off", "start", "read_count", "read", "keep"}
Judges == {"write", "judge", "write_j", "count_j", "j++", "exited"}
Counting == {"off", "start", "read_id", "look", "read_puffer", "count"}
Reports == {"write_szavazhat", "write_nem", "vote", "kor++", "exited"}

\* The processes.  The president has forked before it goes on, and as many signals
\* at most have been delivered or are pending as were sent.
SZSignals == (IF pc["ellenorzo_tag"] \in {"off", "start"} THEN 0 ELSE 1)
               + (IF pc["pecsetelo_tag"] \in {"off", "start"} THEN 0 ELSE 1)
SZControl ==
  /\ DOMAIN pc = SZ!Processes /\ DOMAIN pipe = SZ!Pipes /\ DOMAIN mem = SZLocals
  /\ pc["main"] \in Before \cup {"ids", "ids++", "read_count", "read_nem", "fopen", "votes",
                                 "tally", "votes++", "wait", "done", "exited"}
  /\ pc["ellenorzo_tag"] \in Collects \cup Judges /\ pc["pecsetelo_tag"] \in Counting \cup Reports
  /\ pc["main"] \in {"setup", "fork1"} => pc["ellenorzo_tag"] = "off"
  /\ pc["main"] \in {"setup", "fork1", "fork2"} => pc["pecsetelo_tag"] = "off"
  /\ pending \in BOOLEAN /\ ready \in Nat /\ reaped \subseteq SZ!Children
  /\ ready + (IF pending THEN 1 ELSE 0) <= SZSignals
  /\ mem["szavazok"] \in Counts \cup {0} /\ mem["idk"] \in [1..SZ!Voters -> Numbers]

\* From the president to the checker: the number of the ids and the ids.  The checker
\* keeps them.
SZIds == [k \in Nat |-> IF k = 1 THEN SZ!int(mem["szavazok"]) ELSE SZ!int(mem["idk"][k - 1])]
SZWritten1 == CASE pc["main"] \in Before -> 0
                [] pc["main"] = "exited" /\ pc["pecsetelo_tag"] = "off" -> 0
                [] pc["main"] = "ids" -> 1 + mem["i"]
                [] pc["main"] = "ids++" -> 2 + mem["i"]
                [] OTHER -> 1 + SZ!Voters
SZRead1 == CASE pc["ellenorzo_tag"] \in {"off", "start", "read_count"} -> 0
             [] pc["ellenorzo_tag"] = "keep" -> 2 + Len(mem["kapott"])
             [] OTHER -> 1 + Len(mem["kapott"])
SZCollected ==
  /\ Channel(pipe["io_pipes_out"], SZIds, SZRead1, SZWritten1)
  /\ mem["i"] \in 0..SZ!Voters
  /\ pc["main"] \in Before => mem["i"] = 0
  /\ pc["main"] = "ids++" => mem["i"] < SZ!Voters
  /\ mem["kapott"] \in Seq(Numbers) /\ Len(mem["kapott"]) <= SZ!Voters
  /\ \A k \in 1..Len(mem["kapott"]) : mem["kapott"][k] = mem["idk"][k]
  /\ IF pc["ellenorzo_tag"] \in {"off", "start", "read_count"}
       THEN Len(mem["kapott"]) = 0 ELSE mem["szavazoszam"].val = mem["szavazok"]
  /\ pc["ellenorzo_tag"] = "keep" =>
       /\ Len(mem["kapott"]) < SZ!Voters
       /\ mem["szavazo_idje"].val = mem["idk"][Len(mem["kapott"]) + 1]
  /\ pc["ellenorzo_tag"] \in Judges => Len(mem["kapott"]) = SZ!Voters

\* From the checker to the stamper: what has been written is F, an id and a judgement
\* in turn, and -1 at the end; c[k] of the first k judgements are good.
SZWritten2 == CASE pc["ellenorzo_tag"] \in Collects -> 0
                [] pc["ellenorzo_tag"] = "write" -> 2 * mem["j"]
                [] pc["ellenorzo_tag"] \in {"judge", "write_j"} -> 2 * mem["j"] + 1
                [] pc["ellenorzo_tag"] \in {"count_j", "j++"} -> 2 * mem["j"] + 2
                [] OTHER -> 2 * SZ!Voters + 1
SZSeen == Len(mem["latott"])
SZRead2 == CASE pc["pecsetelo_tag"] \in {"off", "start"} -> 0
             [] pc["pecsetelo_tag"] \in {"read_id", "count"} -> 2 * SZSeen
             [] pc["pecsetelo_tag"] = "read_puffer" -> 2 * SZSeen - 1
             [] OTHER -> 2 * SZSeen + 1
SZCounted == IF pc["pecsetelo_tag"] \in {"read_puffer", "count"} THEN SZSeen - 1 ELSE SZSeen

SZPairs(c, F) ==
  /\ c[0] = 0
  /\ \A k \in 1..SZ!Voters : 2 * k - 1 <= SZWritten2 => F[2 * k - 1] = SZ!int(mem["idk"][k])
  /\ \A k \in 1..SZ!Voters : 2 * k <= SZWritten2 =>
       /\ \/ F[2 * k] = SZ!char("h") /\ c[k] = c[k - 1]
          \/ F[2 * k] = SZ!char("j") /\ c[k] = c[k - 1] + 1
       /\ c[k] \in 0..k
  /\ SZWritten2 = 2 * SZ!Voters + 1 => F[2 * SZ!Voters + 1] = SZ!int(-1)

SZChecks(c, F) ==
  /\ mem["j"] \in 0..SZ!Voters
  /\ pc["ellenorzo_tag"] \in Collects => mem["j"] = 0
  /\ pc["ellenorzo_tag"] \in {"judge", "write_j", "count_j", "j++"} => mem["j"] < SZ!Voters
  /\ mem["itelet"] \in {"h", "j"}
  /\ pc["ellenorzo_tag"] = "count_j" => F[2 * mem["j"] + 2] = SZ!char(mem["itelet"])
  /\ mem["jok"] = CASE pc["ellenorzo_tag"] = "exited" -> c[SZ!Voters]
                    [] pc["ellenorzo_tag"] = "j++" -> c[mem["j"] + 1]
                    [] OTHER -> c[mem["j"]]

SZStamps(c, F) ==
  /\ mem["latott"] \in Seq(Numbers) /\ SZSeen <= SZ!Voters
  /\ \A k \in 1..SZSeen : mem["latott"][k] = mem["idk"][k]
  /\ pc["pecsetelo_tag"] \in {"off", "start"} => SZSeen = 0
  /\ pc["pecsetelo_tag"] \in {"read_puffer", "count"} => SZSeen >= 1
  /\ pc["pecsetelo_tag"] \in Reports => SZSeen = SZ!Voters
  /\ pc["pecsetelo_tag"] = "look" => mem["fogadott"] = F[2 * SZSeen + 1]
  /\ pc["pecsetelo_tag"] = "count" => mem["puffer"] = F[2 * SZSeen]
  /\ mem["szavazhat"] = c[SZCounted] /\ mem["nem_szavazhat"] = SZCounted - c[SZCounted]

SZJudged(c, F) ==
  /\ Channel(pipe["ellenorzo_ki"], F, SZRead2, SZWritten2) /\ DOMAIN c = Nat /\ DOMAIN F = Nat
  /\ SZPairs(c, F) /\ SZChecks(c, F) /\ SZStamps(c, F)

\* From the stamper to the president: G, the two counts and the votes.
SZWritten3 == CASE pc["pecsetelo_tag"] = "write_nem" -> 1
                [] pc["pecsetelo_tag"] = "vote" -> 2 + mem["kor"]
                [] pc["pecsetelo_tag"] = "kor++" -> 3 + mem["kor"]
                [] pc["pecsetelo_tag"] = "exited" -> 2 + mem["szavazhat"]
                [] OTHER -> 0
SZRead3 == CASE pc["main"] = "read_nem" -> 1
             [] pc["main"] = "fopen" -> 2
             [] pc["main"] = "votes" -> 2 + mem["i"]
             [] pc["main"] \in {"tally", "votes++"} -> 3 + mem["i"]
             [] pc["main"] \in {"wait", "done"} -> 2 + mem["szavazhat_elnok"].val
             [] pc["main"] = "exited" /\ pc["pecsetelo_tag"] # "off" -> 2
             [] OTHER -> 0
Votes == {SZ!int(p) : p \in Parties}
SZVoted(G) ==
  /\ Channel(pipe["pecsetelo_ki"], G, SZRead3, SZWritten3) /\ DOMAIN G = Nat
  /\ SZWritten3 >= 1 => G[1] = SZ!int(mem["szavazhat"])
  /\ SZWritten3 >= 2 => G[2] = SZ!int(mem["nem_szavazhat"])
  /\ \A k \in 3..SZWritten3 : G[k] \in Votes
  /\ mem["kor"] \in Nat
  /\ pc["pecsetelo_tag"] \in Counting \cup {"write_szavazhat", "write_nem"} => mem["kor"] = 0
  /\ pc["pecsetelo_tag"] \in {"vote", "exited"} => mem["kor"] <= mem["szavazhat"]
  /\ pc["pecsetelo_tag"] = "kor++" => mem["kor"] < mem["szavazhat"]

Tallies == {"votes", "tally", "votes++", "wait", "done"}
Tallied == CASE pc["main"] \in {"votes", "tally"} -> mem["i"]
             [] pc["main"] = "votes++" -> mem["i"] + 1
             [] pc["main"] \in {"wait", "done"} -> mem["szavazhat_elnok"].val
             [] OTHER -> 0
SZTallied(G) ==
  /\ pc["main"] \in Tallies \cup {"read_nem", "fopen"} => mem["szavazhat_elnok"] = G[1]
  /\ pc["main"] \in Tallies \cup {"fopen"} => mem["nem_szavazhat_elnok"] = G[2]
  /\ pc["main"] \in Tallies => mem["i"] <= mem["szavazhat_elnok"].val
  /\ pc["main"] \in {"tally", "votes++"} => mem["i"] < mem["szavazhat_elnok"].val
  /\ pc["main"] \in {"wait", "done"} => mem["i"] = mem["szavazhat_elnok"].val
  /\ pc["main"] = "tally" => mem["szavazat"] = G[3 + mem["i"]]
  /\ mem["partok"] \in [Parties -> Int] /\ Sum(mem["partok"], Parties) = Tallied

SZState(c, F, G) ==
  SZControl /\ SZCollected /\ SZJudged(c, F) /\ SZVoted(G) /\ SZTallied(G)
SZRuns == \E c, F, G : SZState(c, F, G)

\* Or all processes have been ended by SIGINT.
SZOver ==
  /\ pc = [p \in SZ!Processes |-> "exited"]
  /\ SZ!TypeOK /\ SZ!IsPrefix(mem["latott"], mem["idk"])
SZInv == Is("szavazas") /\ (SZOver \/ SZRuns)

LEMMA SZVotersNat ==
  ASSUME SZControl
  PROVE  /\ SZ!Voters \in Nat /\ mem["szavazok"] \in Int
         /\ IF mem["szavazok"] > 0 THEN SZ!Voters = mem["szavazok"] ELSE SZ!Voters = 0
<1>1. mem["szavazok"] \in Counts \cup {0}
  BY DEF SZControl
<1>2. mem["szavazok"] \in Int
  <2>1. 0 \in Int
    OBVIOUS
  <2> QED BY <1>1, <2>1, CountsAssumption, Zenon
<1> QED BY <1>2 DEF SZ!Voters

\* What a step does: process p goes on, x gets a value, the pipe d holds q.
Moves(p, from, to) ==
  /\ pc[p] = from /\ pc'[p] = to /\ DOMAIN pc' = SZ!Processes
  /\ \A o \in SZ!Processes \ {p} : pc'[o] = pc[o]
Sets(x, v) ==
  mem'[x] = v /\ DOMAIN mem' = SZLocals /\ \A y \in SZLocals \ {x} : mem'[y] = mem[y]
Puts(d, q) ==
  pipe'[d] = q /\ DOMAIN pipe' = SZ!Pipes /\ \A e \in SZ!Pipes \ {d} : pipe'[e] = pipe[e]

LEMMA SZEffects ==
  ASSUME SZControl, NEW p \in SZ!Processes, NEW from, NEW to, NEW x \in SZLocals, NEW v,
         NEW d \in SZ!Pipes
  PROVE  /\ SZ!Step(p, from, to) => Moves(p, from, to)
         /\ SZ!Assign(p, from, to, x, v) =>
              Moves(p, from, to) /\ Sets(x, v) /\ UNCHANGED <<pending, ready, reaped, pipe>>
         /\ SZ!Write(p, from, to, d, v) =>
              /\ Moves(p, from, to) /\ Puts(d, Append(pipe[d], v)) /\ Len(pipe[d]) < PipeCapacity
              /\ UNCHANGED <<pending, ready, reaped, mem>>
         /\ SZ!Read(p, from, to, d, x) =>
              /\ Moves(p, from, to) /\ Sets(x, Head(pipe[d])) /\ Puts(d, Tail(pipe[d]))
              /\ pipe[d] # <<>> /\ UNCHANGED <<pending, ready, reaped>>
<1>1. DOMAIN pc = SZ!Processes /\ DOMAIN mem = SZLocals /\ DOMAIN pipe = SZ!Pipes
  BY DEF SZControl
<1>2. SZ!Step(p, from, to) => Moves(p, from, to)
  BY <1>1 DEF SZ!Step, Moves
<1>3. ASSUME NEW w, mem' = [mem EXCEPT ![x] = w] PROVE Sets(x, w)
  BY <1>1, <1>3 DEF Sets
<1>4. ASSUME NEW q, pipe' = [pipe EXCEPT ![d] = q] PROVE Puts(d, q)
  BY <1>1, <1>4 DEF Puts
<1> QED BY <1>2, <1>3, <1>4, Zenon DEF SZ!Assign, SZ!Write, SZ!Read

\* Most steps change nothing of what SZControl is about but a label.
SZLater == (Before \ {"setup", "fork1", "fork2"})
             \cup {"ids", "ids++", "read_count", "read_nem", "fopen", "votes", "tally", "votes++",
                   "wait", "done", "exited"}
SZFixed == mem'["szavazok"] = mem["szavazok"] /\ mem'["idk"] = mem["idk"]
SZDomains == DOMAIN pipe' = SZ!Pipes /\ DOMAIN mem' = SZLocals

LEMMA SZControlKept ==
  ASSUME SZControl, NEW p \in SZ!Processes, NEW from, NEW to, Moves(p, from, to),
         UNCHANGED <<pending, ready>>, reaped' \subseteq SZ!Children, SZFixed, SZDomains,
         \/ p = "main" /\ {from, to} \subseteq SZLater
         \/ p = "ellenorzo_tag" /\ {from, to} \subseteq (Collects \cup Judges) \ {"off", "start"}
         \/ p = "pecsetelo_tag" /\ {from, to} \subseteq (Counting \cup Reports) \ {"off", "start"}
  PROVE  SZControl'
<1>1. SZ!Voters' = SZ!Voters
  BY DEF SZFixed, SZ!Voters
<1>2. SZSignals' = SZSignals
  <2>1. CASE p = "main"
    BY <2>1 DEF SZSignals, Moves, SZ!Processes, SZ!Children
  <2>2. CASE p = "ellenorzo_tag"
    BY <2>2 DEF SZSignals, Moves, SZ!Processes, SZ!Children
  <2>3. CASE p = "pecsetelo_tag"
    BY <2>3 DEF SZSignals, Moves, SZ!Processes, SZ!Children
  <2> QED BY <2>1, <2>2, <2>3
<1>3. /\ DOMAIN pc' = SZ!Processes
      /\ pc'["main"] \in Before \cup {"ids", "ids++", "read_count", "read_nem", "fopen", "votes",
                                      "tally", "votes++", "wait", "done", "exited"}
      /\ pc'["ellenorzo_tag"] \in Collects \cup Judges
      /\ pc'["pecsetelo_tag"] \in Counting \cup Reports
      /\ pc'["main"] \in {"setup", "fork1"} => pc'["ellenorzo_tag"] = "off"
      /\ pc'["main"] \in {"setup", "fork1", "fork2"} => pc'["pecsetelo_tag"] = "off"
  <2>1. CASE p = "main"
    BY <2>1 DEF SZControl, Moves, SZ!Processes, SZ!Children, SZLater, Before
  <2>2. CASE p = "ellenorzo_tag"
    BY <2>2 DEF SZControl, Moves, SZ!Processes, SZ!Children, Collects, Judges
  <2>3. CASE p = "pecsetelo_tag"
    BY <2>3 DEF SZControl, Moves, SZ!Processes, SZ!Children, Counting, Reports
  <2> QED BY <2>1, <2>2, <2>3
<1> QED BY <1>1, <1>2, <1>3 DEF SZControl, SZFixed, SZDomains

LEMMA SZConstant ==
  /\ Channel(pipe["io_pipes_out"], SZIds, SZRead1, SZWritten1)'
       = Channel(pipe'["io_pipes_out"], SZIds', SZRead1', SZWritten1')
  /\ \A F : Channel(pipe["ellenorzo_ki"], F, SZRead2, SZWritten2)'
       = Channel(pipe'["ellenorzo_ki"], F, SZRead2', SZWritten2')
  /\ \A G : Channel(pipe["pecsetelo_ki"], G, SZRead3, SZWritten3)'
       = Channel(pipe'["pecsetelo_ki"], G, SZRead3', SZWritten3')
OBVIOUS

LEMMA SZCollectedKept ==
  ASSUME SZCollected, SZRead1' = SZRead1, SZWritten1' = SZWritten1, SZFixed,
         pipe'["io_pipes_out"] = pipe["io_pipes_out"], mem'["kapott"] = mem["kapott"],
         mem'["szavazoszam"] = mem["szavazoszam"], mem'["szavazo_idje"] = mem["szavazo_idje"],
         mem'["i"] \in 0..SZ!Voters, pc'["main"] \in Before => mem'["i"] = 0,
         pc'["main"] = "ids++" => mem'["i"] < SZ!Voters,
         \/ pc'["ellenorzo_tag"] = pc["ellenorzo_tag"]
         \/ pc["ellenorzo_tag"] \in Judges /\ pc'["ellenorzo_tag"] \in Judges
         \/ {pc["ellenorzo_tag"], pc'["ellenorzo_tag"]} \subseteq {"off", "start", "read_count"}
  PROVE  SZCollected'
<1>1. SZ!Voters' = SZ!Voters /\ SZIds' = SZIds
  BY DEF SZFixed, SZ!Voters, SZIds, SZ!int
<1>2. Channel(pipe["io_pipes_out"], SZIds, SZRead1, SZWritten1)'
  BY <1>1, SZConstant DEF SZCollected
<1>3. CASE pc'["ellenorzo_tag"] = pc["ellenorzo_tag"]
  BY <1>1, <1>2, <1>3 DEF SZCollected, SZFixed
<1>4. CASE pc["ellenorzo_tag"] \in Judges /\ pc'["ellenorzo_tag"] \in Judges
  BY <1>1, <1>2, <1>4 DEF SZCollected, SZFixed, Judges
<1>5. CASE {pc["ellenorzo_tag"], pc'["ellenorzo_tag"]} \subseteq {"off", "start", "read_count"}
  BY <1>1, <1>2, <1>5 DEF SZCollected, SZFixed, Judges
<1> QED BY <1>3, <1>4, <1>5

LEMMA SZPairsKept ==
  ASSUME NEW c, NEW F, SZPairs(c, F), SZWritten2' = SZWritten2, SZFixed PROVE SZPairs(c, F)'
<1>1. SZ!Voters' = SZ!Voters
  BY DEF SZFixed, SZ!Voters
<1> QED BY <1>1 DEF SZPairs, SZFixed, SZ!int, SZ!char

LEMMA SZChecksKept ==
  ASSUME NEW c, NEW F, SZChecks(c, F), SZFixed, mem'["j"] = mem["j"],
         mem'["itelet"] = mem["itelet"], mem'["jok"] = mem["jok"],
         \/ pc'["ellenorzo_tag"] = pc["ellenorzo_tag"]
         \/ pc["ellenorzo_tag"] \in Collects /\ pc'["ellenorzo_tag"] \in Collects \cup {"write"}
  PROVE  SZChecks(c, F)'
<1>1. SZ!Voters' = SZ!Voters
  BY DEF SZFixed, SZ!Voters
<1>2. CASE pc'["ellenorzo_tag"] = pc["ellenorzo_tag"]
  BY <1>1, <1>2 DEF SZChecks, SZ!char
<1>3. CASE pc["ellenorzo_tag"] \in Collects /\ pc'["ellenorzo_tag"] \in Collects \cup {"write"}
  BY <1>1, <1>3 DEF SZChecks, Collects
<1> QED BY <1>2, <1>3

LEMMA SZStampsKept ==
  ASSUME NEW c, NEW F, SZStamps(c, F), SZFixed, mem'["latott"] = mem["latott"],
         mem'["fogadott"] = mem["fogadott"], mem'["puffer"] = mem["puffer"],
         mem'["szavazhat"] = mem["szavazhat"], mem'["nem_szavazhat"] = mem["nem_szavazhat"],
         \/ pc'["pecsetelo_tag"] = pc["pecsetelo_tag"]
         \/ {pc["pecsetelo_tag"], pc'["pecsetelo_tag"]} \subseteq Reports
         \/ /\ pc["pecsetelo_tag"] \in {"off", "start"}
            /\ pc'["pecsetelo_tag"] \in {"off", "start", "read_id"}
  PROVE  SZStamps(c, F)' /\ SZRead2' = SZRead2
<1>1. SZ!Voters' = SZ!Voters /\ SZSeen' = SZSeen
  BY DEF SZFixed, SZ!Voters, SZSeen
<1>2. CASE pc'["pecsetelo_tag"] = pc["pecsetelo_tag"]
  BY <1>1, <1>2 DEF SZStamps, SZFixed, SZCounted, SZRead2
<1>3. CASE {pc["pecsetelo_tag"], pc'["pecsetelo_tag"]} \subseteq Reports
  <2>1. SZCounted' = SZCounted /\ SZRead2' = SZRead2
    BY <1>1, <1>3 DEF SZCounted, SZRead2, Reports
  <2> QED BY <1>1, <1>3, <2>1 DEF SZStamps, SZFixed, Reports
<1>4. CASE /\ pc["pecsetelo_tag"] \in {"off", "start"}
           /\ pc'["pecsetelo_tag"] \in {"off", "start", "read_id"}
  <2>1. SZCounted' = SZCounted /\ SZRead2' = SZRead2
    BY <1>1, <1>4 DEF SZCounted, SZRead2, SZStamps
  <2> QED BY <1>1, <1>4, <2>1 DEF SZStamps, SZFixed, Reports
<1> QED BY <1>2, <1>3, <1>4

LEMMA SZJudgedKept ==
  ASSUME NEW c, NEW F, SZJudged(c, F), SZFixed,
         SZWritten2' = SZWritten2, pipe'["ellenorzo_ki"] = pipe["ellenorzo_ki"],
         SZRead2' = SZRead2, SZChecks(c, F)', SZStamps(c, F)'
  PROVE  SZJudged(c, F)'
BY SZPairsKept, SZConstant DEF SZJudged

LEMMA SZVotedKept ==
  ASSUME NEW G, SZVoted(G), SZRead3' = SZRead3, SZWritten3' = SZWritten3,
         pipe'["pecsetelo_ki"] = pipe["pecsetelo_ki"], mem'["kor"] = mem["kor"],
         \/ /\ pc'["pecsetelo_tag"] = pc["pecsetelo_tag"]
            /\ mem'["szavazhat"] = mem["szavazhat"] /\ mem'["nem_szavazhat"] = mem["nem_szavazhat"]
         \/ /\ pc["pecsetelo_tag"] \in Counting
            /\ pc'["pecsetelo_tag"] \in Counting \cup {"write_szavazhat"}
  PROVE  SZVoted(G)'
<1>1. Channel(pipe["pecsetelo_ki"], G, SZRead3, SZWritten3)'
  BY SZConstant DEF SZVoted
<1>2. CASE /\ pc'["pecsetelo_tag"] = pc["pecsetelo_tag"]
           /\ mem'["szavazhat"] = mem["szavazhat"] /\ mem'["nem_szavazhat"] = mem["nem_szavazhat"]
  BY <1>1, <1>2 DEF SZVoted, SZ!int, Votes
<1>3. CASE /\ pc["pecsetelo_tag"] \in Counting
           /\ pc'["pecsetelo_tag"] \in Counting \cup {"write_szavazhat"}
  <2>1. SZWritten3 = 0
    BY <1>3 DEF SZWritten3, Counting
  <2> QED BY <1>1, <1>3, <2>1 DEF SZVoted, Counting
<1> QED BY <1>2, <1>3

LEMMA SZTalliedKept ==
  ASSUME NEW G, SZTallied(G), mem'["partok"] = mem["partok"],
         \/ /\ pc'["main"] = pc["main"] /\ mem'["szavazhat_elnok"] = mem["szavazhat_elnok"]
            /\ mem'["nem_szavazhat_elnok"] = mem["nem_szavazhat_elnok"]
            /\ mem'["i"] = mem["i"] /\ mem'["szavazat"] = mem["szavazat"]
         \/ {pc["main"], pc'["main"]} \cap (Tallies \cup {"read_nem", "fopen"}) = {}
  PROVE  SZTallied(G)'
<1>1. Sum(mem["partok"], Parties)' = Sum(mem'["partok"], Parties)
  OBVIOUS
<1>2. Tallied' = Tallied
  BY DEF Tallied, Tallies
<1> QED BY <1>1, <1>2 DEF SZTallied, Tallies

\* A step of one process leaves alone what the others have.
Unset(V) == \A y \in SZLocals \ V : mem'[y] = mem[y]
MainVars == {"i", "szavazhat_elnok", "nem_szavazhat_elnok", "szavazat", "partok"}
CheckerVars == {"szavazoszam", "szavazo_idje", "kapott", "j", "itelet", "jok"}
StamperVars == {"fogadott", "puffer", "latott", "szavazhat", "nem_szavazhat", "kor"}

LEMMA SZLocalsAre ==
  SZLocals = {"szavazok", "idk"} \cup MainVars \cup CheckerVars \cup StamperVars
BY DEF SZLocals, SZ!NoLocals, MainVars, CheckerVars, StamperVars

LEMMA SZUnset ==
  ASSUME SZControl, NEW V, NEW x \in SZLocals, NEW v
  PROVE  /\ mem' = mem => Unset(V) /\ DOMAIN mem' = SZLocals
         /\ Sets(x, v) /\ x \in V => Unset(V) /\ DOMAIN mem' = SZLocals
         /\ pipe' = pipe => DOMAIN pipe' = SZ!Pipes
         /\ \A d, q : Puts(d, q) => DOMAIN pipe' = SZ!Pipes
BY DEF SZControl, Sets, Unset, Puts

LEMMA SZByMain ==
  ASSUME NEW c, NEW F, NEW G, SZState(c, F, G), NEW from, NEW to, Moves("main", from, to),
         Unset(MainVars), SZDomains, UNCHANGED <<pending, ready>>, reaped' \subseteq SZ!Children,
         {from, to} \subseteq SZLater, pipe'["ellenorzo_ki"] = pipe["ellenorzo_ki"]
  PROVE  /\ SZControl' /\ SZJudged(c, F)' /\ SZ!Voters' = SZ!Voters /\ SZIds' = SZIds /\ SZFixed
         /\ SZRead1' = SZRead1 /\ SZWritten3' = SZWritten3
         /\ pc'["ellenorzo_tag"] = pc["ellenorzo_tag"] /\ pc'["pecsetelo_tag"] = pc["pecsetelo_tag"]
         /\ \A y \in CheckerVars \cup StamperVars : mem'[y] = mem[y]
<1>1. /\ pc'["ellenorzo_tag"] = pc["ellenorzo_tag"] /\ pc'["pecsetelo_tag"] = pc["pecsetelo_tag"]
  BY DEF Moves, SZ!Processes, SZ!Children
<1>2. /\ mem'["szavazok"] = mem["szavazok"] /\ mem'["idk"] = mem["idk"]
      /\ \A y \in CheckerVars \cup StamperVars : mem'[y] = mem[y]
  BY SZLocalsAre DEF Unset, MainVars, CheckerVars, StamperVars
<1>3. SZFixed /\ SZ!Voters' = SZ!Voters /\ SZIds' = SZIds
  BY <1>2 DEF SZFixed, SZ!Voters, SZIds, SZ!int
<1>4. SZControl'
  BY <1>3, SZControlKept DEF SZState, SZ!Processes
<1>5. SZWritten2' = SZWritten2
  BY <1>1, <1>2, <1>3 DEF SZWritten2, CheckerVars
<1>6. SZChecks(c, F)'
  BY <1>1, <1>2, <1>3, SZChecksKept DEF SZState, SZJudged, CheckerVars
<1>7. SZStamps(c, F)' /\ SZRead2' = SZRead2
  BY <1>1, <1>2, <1>3, SZStampsKept DEF SZState, SZJudged, StamperVars
<1>8. SZJudged(c, F)'
  BY <1>3, <1>5, <1>6, <1>7, SZJudgedKept DEF SZState
<1>9. SZRead1' = SZRead1 /\ SZWritten3' = SZWritten3
  BY <1>1, <1>2 DEF SZRead1, SZWritten3, CheckerVars, StamperVars
<1> QED BY <1>1, <1>2, <1>3, <1>4, <1>8, <1>9

LEMMA SZByChecker ==
  ASSUME NEW c, NEW F, NEW G, SZState(c, F, G), NEW from, NEW to, Moves("ellenorzo_tag", from, to),
         Unset(CheckerVars), UNCHANGED <<ready, reaped>>, pipe'["pecsetelo_ki"] = pipe["pecsetelo_ki"],
         SZDomains
  PROVE  /\ SZVoted(G)' /\ SZTallied(G)' /\ SZStamps(c, F)' /\ SZRead2' = SZRead2 /\ SZFixed
         /\ SZ!Voters' = SZ!Voters /\ SZIds' = SZIds /\ SZWritten1' = SZWritten1 /\ SZSeen' = SZSeen
         /\ SZCounted' = SZCounted
         /\ pc'["main"] = pc["main"] /\ pc'["pecsetelo_tag"] = pc["pecsetelo_tag"]
         /\ \A y \in MainVars \cup StamperVars : mem'[y] = mem[y]
         /\ {from, to} \subseteq (Collects \cup Judges) \ {"off", "start"} /\ UNCHANGED pending => SZControl'
<1>1. /\ pc'["main"] = pc["main"] /\ pc'["pecsetelo_tag"] = pc["pecsetelo_tag"]
  BY DEF Moves, SZ!Processes, SZ!Children
<1>2. /\ mem'["szavazok"] = mem["szavazok"] /\ mem'["idk"] = mem["idk"]
      /\ \A y \in MainVars \cup StamperVars : mem'[y] = mem[y]
  BY SZLocalsAre DEF Unset, MainVars, CheckerVars, StamperVars
<1>3. SZFixed /\ SZ!Voters' = SZ!Voters /\ SZIds' = SZIds
  BY <1>2 DEF SZFixed, SZ!Voters, SZIds, SZ!int
<1>4. SZWritten1' = SZWritten1 /\ SZWritten3' = SZWritten3 /\ SZRead3' = SZRead3
  BY <1>1, <1>2, <1>3 DEF SZWritten1, SZWritten3, SZRead3, MainVars, StamperVars
<1>5. SZStamps(c, F)' /\ SZRead2' = SZRead2
  BY <1>1, <1>2, <1>3, SZStampsKept DEF SZState, SZJudged, StamperVars
<1>6. SZVoted(G)'
  BY <1>1, <1>2, <1>4, SZVotedKept DEF SZState, StamperVars
<1>7. SZTallied(G)'
  BY <1>1, <1>2, SZTalliedKept DEF SZState, MainVars
<1>8. SZSeen' = SZSeen /\ SZCounted' = SZCounted
  BY <1>1, <1>2 DEF SZSeen, SZCounted, StamperVars
<1>9. reaped' \subseteq SZ!Children
  BY DEF SZState, SZControl
<1>10. {from, to} \subseteq (Collects \cup Judges) \ {"off", "start"} /\ UNCHANGED pending => SZControl'
  BY <1>3, <1>9, SZControlKept DEF SZState, SZ!Processes, SZ!Children
<1> QED BY <1>1, <1>2, <1>3, <1>4, <1>5, <1>6, <1>7, <1>8, <1>10

LEMMA SZByStamper ==
  ASSUME NEW c, NEW F, NEW G, SZState(c, F, G), NEW from, NEW to, Moves("pecsetelo_tag", from, to),
         Unset(StamperVars), UNCHANGED <<ready, reaped>>, pipe'["io_pipes_out"] = pipe["io_pipes_out"],
         SZDomains, from # "off", to # "off"
  PROVE  /\ SZCollected' /\ SZTallied(G)' /\ SZChecks(c, F)' /\ SZFixed
         /\ SZ!Voters' = SZ!Voters /\ SZWritten2' = SZWritten2 /\ SZRead3' = SZRead3
         /\ pc'["main"] = pc["main"] /\ pc'["ellenorzo_tag"] = pc["ellenorzo_tag"]
         /\ \A y \in MainVars \cup CheckerVars : mem'[y] = mem[y]
         /\ {from, to} \subseteq (Counting \cup Reports) \ {"off", "start"} /\ UNCHANGED pending => SZControl'
<1>1. /\ pc'["main"] = pc["main"] /\ pc'["ellenorzo_tag"] = pc["ellenorzo_tag"]
      /\ pc["pecsetelo_tag"] # "off" /\ pc'["pecsetelo_tag"] # "off"
  BY DEF Moves, SZ!Processes, SZ!Children
<1>2. /\ mem'["szavazok"] = mem["szavazok"] /\ mem'["idk"] = mem["idk"]
      /\ \A y \in MainVars \cup CheckerVars : mem'[y] = mem[y]
  BY SZLocalsAre DEF Unset, MainVars, CheckerVars, StamperVars
<1>3. SZFixed /\ SZ!Voters' = SZ!Voters /\ SZIds' = SZIds
  BY <1>2 DEF SZFixed, SZ!Voters, SZIds, SZ!int
<1>4. /\ SZWritten1' = SZWritten1 /\ SZRead1' = SZRead1 /\ SZWritten2' = SZWritten2
      /\ SZRead3' = SZRead3
  BY <1>1, <1>2, <1>3 DEF SZWritten1, SZRead1, SZWritten2, SZRead3, MainVars, CheckerVars
<1>5. SZChecks(c, F)'
  BY <1>1, <1>2, <1>3, SZChecksKept DEF SZState, SZJudged, CheckerVars
<1>6. SZTallied(G)'
  BY <1>1, <1>2, SZTalliedKept DEF SZState, MainVars
<1>7. SZCollected'
  <2>1. mem'["i"] = mem["i"] /\ mem["i"] \in 0..SZ!Voters
    BY <1>2 DEF SZState, SZCollected, MainVars
  <2>2. /\ mem'["kapott"] = mem["kapott"] /\ mem'["szavazoszam"] = mem["szavazoszam"]
        /\ mem'["szavazo_idje"] = mem["szavazo_idje"]
    BY <1>2 DEF CheckerVars
  <2>3. (pc["main"] \in Before => mem["i"] = 0) /\ (pc["main"] = "ids++" => mem["i"] < SZ!Voters)
    BY DEF SZState, SZCollected
  <2> QED BY <1>1, <1>3, <1>4, <2>1, <2>2, <2>3, SZCollectedKept DEF SZState
<1>8. reaped' \subseteq SZ!Children
  BY DEF SZState, SZControl
<1>9. {from, to} \subseteq (Counting \cup Reports) \ {"off", "start"} /\ UNCHANGED pending => SZControl'
  BY <1>3, <1>8, SZControlKept DEF SZState, SZ!Processes, SZ!Children
<1> QED BY <1>1, <1>2, <1>3, <1>4, <1>5, <1>6, <1>7, <1>9

\* Nothing comes from the stamper to the president before it counts.
LEMMA SZNotYetTallied ==
  ASSUME NEW c, NEW F, NEW G, SZState(c, F, G), NEW from, NEW to, Moves("main", from, to),
         from \in (Before \cup {"ids", "ids++"}), to \in (Before \cup {"ids", "ids++", "read_count"}),
         SZWritten3' = SZWritten3, mem'["partok"] = mem["partok"],
         pipe'["pecsetelo_ki"] = pipe["pecsetelo_ki"], UNCHANGED <<pending>>,
         pc'["pecsetelo_tag"] = pc["pecsetelo_tag"],
         \A y \in StamperVars : mem'[y] = mem[y]
  PROVE  SZVoted(G)' /\ SZTallied(G)'
<1>1. pc["main"] = from /\ pc'["main"] = to
  BY DEF Moves
<1>2. SZRead3 = 0 /\ SZRead3' = 0
  BY <1>1 DEF SZRead3, Before
<1>3. {pc["main"], pc'["main"]} \cap (Tallies \cup {"read_nem", "fopen"}) = {}
  BY <1>1 DEF Tallies, Before
<1>4. SZVoted(G)'
  BY <1>2, SZVotedKept DEF SZState, StamperVars
<1>5. SZTallied(G)'
  BY <1>3, SZTalliedKept DEF SZState
<1> QED BY <1>4, <1>5

LEMMA SZSendsIds ==
  ASSUME NEW c, NEW F, NEW G, SZState(c, F, G),
         \/ SZ!AwaitReady(1, "ready1", "ready2") \/ SZ!AwaitReady(2, "ready2", "write_count")
         \/ SZ!elnokIds
  PROVE  SZState(c, F, G)'
<1> USE DEF SZState
<1>0. "main" \in SZ!Processes /\ "i" \in SZLocals /\ "io_pipes_out" \in SZ!Pipes /\ "i" \in MainVars
  BY SZLocalsAre DEF SZ!Processes, SZ!Pipes, MainVars
<1>1. /\ SZ!Voters \in Nat /\ mem["szavazok"] \in Int /\ mem["i"] \in 0..SZ!Voters
      /\ IF mem["szavazok"] > 0 THEN SZ!Voters = mem["szavazok"] ELSE SZ!Voters = 0
  BY SZVotersNat DEF SZCollected
<1>a. SZControl /\ SZCollected /\ reaped \subseteq SZ!Children
  BY DEF SZControl
\* What all these steps have in common
<1>2. ASSUME NEW from, NEW to, Moves("main", from, to), Unset({"i"}), SZDomains,
             UNCHANGED <<pending, ready, reaped>>,
             pipe'["ellenorzo_ki"] = pipe["ellenorzo_ki"], pipe'["pecsetelo_ki"] = pipe["pecsetelo_ki"],
             from \in {"ready1", "ready2", "write_count", "ids", "ids++"},
             to \in {"ready2", "write_count", "ids", "ids++", "read_count"},
             Channel(pipe'["io_pipes_out"], SZIds, SZRead1, SZWritten1'),
             mem'["i"] \in 0..SZ!Voters, pc'["main"] \in Before => mem'["i"] = 0,
             pc'["main"] = "ids++" => mem'["i"] < SZ!Voters
      PROVE  SZState(c, F, G)'
  <2>1. {from, to} \subseteq SZLater
    BY <1>2 DEF SZLater, Before
  <2>2. Unset(MainVars) /\ mem'["partok"] = mem["partok"]
    BY <1>2, SZLocalsAre DEF Unset, MainVars
  <2>3. /\ SZControl' /\ SZJudged(c, F)' /\ SZ!Voters' = SZ!Voters /\ SZIds' = SZIds /\ SZFixed
        /\ SZRead1' = SZRead1 /\ SZWritten3' = SZWritten3
        /\ pc'["ellenorzo_tag"] = pc["ellenorzo_tag"] /\ pc'["pecsetelo_tag"] = pc["pecsetelo_tag"]
        /\ \A y \in CheckerVars \cup StamperVars : mem'[y] = mem[y]
    BY <1>2, <1>a, <2>1, <2>2, SZByMain, Zenon
  <2>4. Channel(pipe["io_pipes_out"], SZIds, SZRead1, SZWritten1)'
    BY <1>2, <2>3, SZConstant
  <2>5. /\ mem'["kapott"] = mem["kapott"] /\ mem'["szavazoszam"] = mem["szavazoszam"]
        /\ mem'["szavazo_idje"] = mem["szavazo_idje"]
    BY <2>3 DEF CheckerVars
  <2>6. SZCollected'
    BY <1>2, <2>3, <2>4, <2>5 DEF SZCollected, SZFixed
  <2>7. SZVoted(G)' /\ SZTallied(G)'
    <3>1. from \in (Before \cup {"ids", "ids++"}) /\ to \in (Before \cup {"ids", "ids++", "read_count"})
      BY <1>2 DEF Before
    <3> QED BY <1>2, <2>2, <2>3, <3>1, SZNotYetTallied
  <2> QED BY <2>3, <2>6, <2>7
\* Those that write nothing
<1>3. ASSUME NEW from, NEW to, Moves("main", from, to), pipe' = pipe, Unset({"i"}),
             DOMAIN mem' = SZLocals, UNCHANGED <<pending, ready, reaped>>,
             from \in {"ready1", "ready2", "write_count", "ids", "ids++"},
             to \in {"ready2", "write_count", "ids", "ids++", "read_count"},
             SZWritten1' = SZWritten1,
             mem'["i"] \in 0..SZ!Voters, pc'["main"] \in Before => mem'["i"] = 0,
             pc'["main"] = "ids++" => mem'["i"] < SZ!Voters
      PROVE  SZState(c, F, G)'
  <2>1. Channel(pipe'["io_pipes_out"], SZIds, SZRead1, SZWritten1') /\ SZDomains
    BY <1>3, SZUnset DEF SZCollected, SZDomains, SZControl
  <2> QED BY <1>2, <1>3, <2>1
<1>4. CASE SZ!AwaitReady(1, "ready1", "ready2")
  <2>1. Moves("main", "ready1", "ready2") /\ UNCHANGED <<pending, ready, reaped, pipe, mem>>
    BY <1>0, <1>4, <1>a, SZEffects DEF SZ!AwaitReady
  <2>2. Unset({"i"}) /\ DOMAIN mem' = SZLocals
    BY <2>1, <1>a DEF Unset, SZControl
  <2>3. SZWritten1' = SZWritten1 /\ mem["i"] = 0 /\ mem'["i"] = mem["i"] /\ pc'["main"] = "ready2"
    BY <2>1 DEF Moves, SZWritten1, SZCollected, Before
  <2> QED BY <1>1, <1>3, <2>1, <2>2, <2>3
<1>5. CASE SZ!AwaitReady(2, "ready2", "write_count")
  <2>1. Moves("main", "ready2", "write_count") /\ UNCHANGED <<pending, ready, reaped, pipe, mem>>
    BY <1>0, <1>5, <1>a, SZEffects DEF SZ!AwaitReady
  <2>2. Unset({"i"}) /\ DOMAIN mem' = SZLocals
    BY <2>1, <1>a DEF Unset, SZControl
  <2>3. SZWritten1' = SZWritten1 /\ mem["i"] = 0 /\ mem'["i"] = mem["i"] /\ pc'["main"] = "write_count"
    BY <2>1 DEF Moves, SZWritten1, SZCollected, Before
  <2> QED BY <1>1, <1>3, <2>1, <2>2, <2>3
<1>6. ASSUME NEW from, NEW to, NEW s, NEW v, SZ!Write("main", from, to, "io_pipes_out", v),
             from \in {"write_count", "ids"}, to \in {"ids", "ids++"},
             SZWritten1 = s, SZWritten1' = s + 1, v = SZIds[s + 1],
             to = "ids++" => mem["i"] < SZ!Voters
      PROVE  SZState(c, F, G)'
  <2>1. /\ Moves("main", from, to) /\ UNCHANGED <<pending, ready, reaped, mem>>
        /\ Puts("io_pipes_out", Append(pipe["io_pipes_out"], v)) /\ Len(pipe["io_pipes_out"]) < PipeCapacity
    BY <1>0, <1>6, <1>a, SZEffects
  <2>2. Unset({"i"}) /\ DOMAIN mem' = SZLocals
    BY <2>1, <1>a DEF Unset, SZControl
  <2>3. Channel(pipe'["io_pipes_out"], SZIds, SZRead1, SZWritten1')
    BY <1>6, <2>1, ChannelWritten DEF SZCollected, Puts
  <2>4. /\ DOMAIN pipe' = SZ!Pipes /\ pipe'["ellenorzo_ki"] = pipe["ellenorzo_ki"]
        /\ pipe'["pecsetelo_ki"] = pipe["pecsetelo_ki"]
    BY <2>1 DEF Puts, SZ!Pipes
  <2>5. mem'["i"] = mem["i"] /\ pc'["main"] = to /\ to \notin Before
    BY <1>6, <2>1 DEF Moves, Before
  <2> QED BY <1>1, <1>2, <1>6, <2>1, <2>2, <2>3, <2>4, <2>5 DEF SZDomains
<1>7. CASE SZ!Write("main", "write_count", "ids", "io_pipes_out", SZ!int(mem["szavazok"]))
  <2>0. pc["main"] = "write_count" /\ pc'["main"] = "ids" /\ mem' = mem
    BY <1>0, <1>7, <1>a, SZEffects DEF Moves
  <2>1. pc["main"] = "write_count" /\ pc'["main"] = "ids" /\ mem' = mem /\ mem["i"] = 0
    BY <2>0 DEF SZCollected, Before
  <2>2. SZWritten1 = 0 /\ SZWritten1' = 0 + 1
    BY <2>1 DEF SZWritten1, Before
  <2>3. SZ!int(mem["szavazok"]) = SZIds[0 + 1]
    BY DEF SZIds
  <2> QED BY <1>6, <1>7, <2>2, <2>3
<1>8. CASE /\ mem["i"] < mem["szavazok"]
           /\ SZ!Write("main", "ids", "ids++", "io_pipes_out", SZ!int(mem["idk"][mem["i"] + 1]))
  <2>1. pc["main"] = "ids" /\ pc'["main"] = "ids++" /\ mem' = mem
    BY <1>0, <1>8, <1>a, SZEffects DEF Moves
  <2>2. PICK n \in Nat : n = mem["i"]
    BY <1>1
  <2>3. SZWritten1 = 1 + n /\ SZWritten1' = 2 + n
    BY <2>1, <2>2 DEF SZWritten1, Before
  <2>4. 2 + n = 1 + n + 1 /\ 1 + n + 1 - 1 = n + 1 /\ 1 + n + 1 # 1 /\ 1 + n + 1 \in Nat
    OBVIOUS
  <2>5. SZ!int(mem["idk"][mem["i"] + 1]) = SZIds[1 + n + 1]
    BY <2>2, <2>4 DEF SZIds
  <2>6. mem["i"] < SZ!Voters
    BY <1>1, <1>8
  <2> QED BY <1>6, <1>8, <2>3, <2>4, <2>5, <2>6
<1>9. CASE SZ!Assign("main", "ids++", "ids", "i", mem["i"] + 1)
  <2>1. /\ Moves("main", "ids++", "ids") /\ Sets("i", mem["i"] + 1)
        /\ UNCHANGED <<pending, ready, reaped, pipe>>
    BY <1>0, <1>9, <1>a, SZEffects
  <2>2. pc["main"] = "ids++" /\ pc'["main"] = "ids" /\ mem'["i"] = mem["i"] + 1
    BY <2>1 DEF Moves, Sets
  <2>3. mem["i"] < SZ!Voters
    BY <2>2 DEF SZCollected
  <2>4. SZWritten1' = SZWritten1
    BY <1>1, <2>2 DEF SZWritten1, Before
  <2>5. Unset({"i"}) /\ DOMAIN mem' = SZLocals
    BY <2>1 DEF Sets, Unset
  <2>6. mem'["i"] \in 0..SZ!Voters
    BY <1>1, <2>2, <2>3
  <2> QED BY <1>3, <2>1, <2>2, <2>4, <2>5, <2>6 DEF Before
<1>10. CASE mem["i"] >= mem["szavazok"] /\ SZ!Jump("main", "ids", "read_count")
  <2>1. Moves("main", "ids", "read_count") /\ UNCHANGED <<pending, ready, reaped, pipe, mem>>
    BY <1>0, <1>10, <1>a, SZEffects DEF SZ!Jump
  <2>2. pc["main"] = "ids" /\ pc'["main"] = "read_count" /\ mem["i"] = SZ!Voters
    BY <1>1, <1>10, <2>1 DEF Moves
  <2>3. SZ!Voters' = SZ!Voters
    BY <2>1 DEF SZ!Voters
  <2>4. SZWritten1' = SZWritten1
    BY <2>2, <2>3 DEF SZWritten1, Before
  <2>5. Unset({"i"}) /\ DOMAIN mem' = SZLocals
    BY <2>1, <1>a DEF Unset, SZControl
  <2> QED BY <1>1, <1>3, <2>1, <2>2, <2>4, <2>5 DEF Before
<1> QED BY <1>4, <1>5, <1>7, <1>8, <1>9, <1>10 DEF SZ!elnokIds

\* When the stamper reports it has the -1, and the checker is done.
LEMMA SZReported ==
  ASSUME NEW c, NEW F, NEW G, SZState(c, F, G), pc["pecsetelo_tag"] \in Reports
  PROVE  /\ pc["ellenorzo_tag"] = "exited" /\ mem["szavazhat"] = c[SZ!Voters] /\ mem["jok"] = c[SZ!Voters]
         /\ mem["szavazhat"] \in 0..SZ!Voters /\ mem["nem_szavazhat"] = SZ!Voters - mem["szavazhat"]
         /\ SZSeen = SZ!Voters /\ SZRead2 = SZWritten2 /\ SZWritten2 = 2 * SZ!Voters + 1
<1>1. SZ!Voters \in Nat
  BY SZVotersNat DEF SZState
<1>2. SZSeen = SZ!Voters /\ SZCounted = SZ!Voters /\ SZRead2 = 2 * SZ!Voters + 1
  BY DEF SZState, SZJudged, SZStamps, Reports, SZCounted, SZRead2
<1>3. SZRead2 \in Nat /\ SZWritten2 \in Nat /\ SZRead2 <= SZWritten2
  BY DEF SZState, SZJudged, Channel
<1>4. /\ mem["j"] \in 0..SZ!Voters /\ pc["ellenorzo_tag"] \in Collects \cup Judges
      /\ pc["ellenorzo_tag"] \in {"judge", "write_j", "count_j", "j++"} => mem["j"] < SZ!Voters
  BY DEF SZState, SZJudged, SZChecks, SZControl
<1>5. pc["ellenorzo_tag"] = "exited" /\ SZWritten2 = 2 * SZ!Voters + 1
  BY <1>1, <1>2, <1>3, <1>4 DEF SZWritten2, Collects, Judges
<1>6. c[SZ!Voters] \in 0..SZ!Voters
  <2>1. CASE SZ!Voters = 0
    BY <2>1 DEF SZState, SZJudged, SZPairs
  <2>2. CASE SZ!Voters # 0
    <3>1. SZ!Voters \in 1..SZ!Voters /\ 2 * SZ!Voters <= SZWritten2
      BY <1>1, <1>5, <2>2
    <3> QED BY <3>1 DEF SZState, SZJudged, SZPairs
  <2> QED BY <2>1, <2>2
<1>7. /\ mem["szavazhat"] = c[SZ!Voters] /\ mem["nem_szavazhat"] = SZ!Voters - c[SZ!Voters]
  BY <1>2 DEF SZState, SZJudged, SZStamps
<1>8. mem["jok"] = c[SZ!Voters]
  BY <1>5 DEF SZState, SZJudged, SZChecks
<1> QED BY <1>2, <1>5, <1>6, <1>7, <1>8

\* What the president has read
LEMMA SZRed ==
  ASSUME NEW c, NEW F, NEW G, SZState(c, F, G), NEW n \in Nat, n >= 1, n <= SZWritten3
  PROVE  /\ pc["pecsetelo_tag"] \in Reports /\ G[1] = SZ!int(mem["szavazhat"]) /\ G[1].val = mem["szavazhat"]
         /\ n >= 2 => G[2] = SZ!int(mem["nem_szavazhat"]) /\ G[2].val = mem["nem_szavazhat"]
         /\ n >= 3 => \E p \in Parties : G[n] = SZ!int(p) /\ G[n].val = p
<1>1. SZWritten3 \in Nat
  BY DEF SZState, SZVoted, Channel
<1>2. SZWritten3 >= 1 /\ (n >= 2 => SZWritten3 >= 2) /\ (n >= 3 => n \in 3..SZWritten3)
  BY <1>1
<1>3. pc["pecsetelo_tag"] \in {"write_nem", "vote", "kor++", "exited"}
  BY <1>2 DEF SZWritten3
<1>4. \A v : SZ!int(v).val = v
  BY DEF SZ!int
<1> QED BY <1>2, <1>3, <1>4 DEF SZState, SZVoted, Votes, Reports

LEMMA SZReadsVotes ==
  ASSUME NEW c, NEW F, NEW G, SZState(c, F, G),
         SZ!elnokVotes \/ SZ!Wait(SZ!Children, "wait", "done")
  PROVE  SZState(c, F, G)'
<1> USE DEF SZState
<1>0. /\ "main" \in SZ!Processes /\ "pecsetelo_ki" \in SZ!Pipes /\ MainVars \subseteq SZLocals
      /\ "i" \in MainVars /\ "partok" \in MainVars /\ "szavazat" \in MainVars
      /\ "szavazhat_elnok" \in MainVars /\ "nem_szavazhat_elnok" \in MainVars
  BY SZLocalsAre DEF SZ!Processes, SZ!Pipes, MainVars
<1>1. /\ SZ!Voters \in Nat /\ mem["i"] \in 0..SZ!Voters
  BY SZVotersNat DEF SZCollected
<1>a. SZControl /\ SZCollected /\ reaped \subseteq SZ!Children
  BY DEF SZControl
<1>b. DOMAIN pipe = SZ!Pipes /\ DOMAIN mem = SZLocals
  BY DEF SZControl
\* Where the president is from the counts on, and what is left to show
<1>2. ASSUME NEW from, NEW to, Moves("main", from, to), Unset(MainVars), SZDomains,
             UNCHANGED <<pending, ready>>, reaped' \subseteq SZ!Children,
             pipe'["ellenorzo_ki"] = pipe["ellenorzo_ki"], pipe'["io_pipes_out"] = pipe["io_pipes_out"],
             from \in Tallies \cup {"read_count", "read_nem", "fopen"},
             \/ to \in Tallies \cup {"read_nem", "fopen"}
             \/ to = "exited" /\ pc["pecsetelo_tag"] # "off",
             mem'["i"] \in 0..SZ!Voters,
             Channel(pipe'["pecsetelo_ki"], G, SZRead3', SZWritten3), SZTallied(G)'
      PROVE  SZState(c, F, G)'
  <2>1. {from, to} \subseteq SZLater /\ from \notin Before /\ to \notin Before
    BY <1>2 DEF SZLater, Tallies, Before
  <2>2. /\ SZControl' /\ SZJudged(c, F)' /\ SZ!Voters' = SZ!Voters /\ SZIds' = SZIds /\ SZFixed
        /\ SZRead1' = SZRead1 /\ SZWritten3' = SZWritten3
        /\ pc'["ellenorzo_tag"] = pc["ellenorzo_tag"] /\ pc'["pecsetelo_tag"] = pc["pecsetelo_tag"]
        /\ \A y \in CheckerVars \cup StamperVars : mem'[y] = mem[y]
    BY <1>2, <1>a, <2>1, SZByMain, Zenon
  <2>3. pc["main"] = from /\ pc'["main"] = to
    BY <1>2 DEF Moves
  <2>4. SZWritten1' = SZWritten1
    BY <1>2, <2>2, <2>3 DEF SZWritten1, Before, Tallies
  <2>5. /\ mem'["kapott"] = mem["kapott"] /\ mem'["szavazoszam"] = mem["szavazoszam"]
        /\ mem'["szavazo_idje"] = mem["szavazo_idje"]
    BY <2>2 DEF CheckerVars
  <2>6. to # "ids++"
    BY <1>2 DEF Tallies
  <2>7. SZCollected'
    BY <1>2, <2>1, <2>2, <2>3, <2>4, <2>5, <2>6, SZCollectedKept
  <2>8. Channel(pipe["pecsetelo_ki"], G, SZRead3, SZWritten3)'
    BY <1>2, <2>2, SZConstant
  <2>9. SZVoted(G)'
    BY <2>2, <2>8 DEF SZVoted, StamperVars, SZ!int, Votes
  <2> QED BY <1>2, <2>2, <2>7, <2>9
\* The numbers
<1>3. SZRead3 \in Nat /\ SZWritten3 \in Nat /\ SZRead3 <= SZWritten3
  BY DEF SZVoted, Channel
<1>4. pc["main"] \in Tallies \cup {"read_nem", "fopen"} =>
        /\ mem["szavazhat_elnok"].val = mem["szavazhat"] /\ mem["szavazhat"] \in 0..SZ!Voters
        /\ pc["pecsetelo_tag"] \in Reports
  <2> HAVE pc["main"] \in Tallies \cup {"read_nem", "fopen"}
  <2>1. mem["szavazhat_elnok"] = G[1]
    BY DEF SZTallied
  <2>2. SZRead3 >= 1
    <3>1. CASE pc["main"] \in {"read_nem", "fopen", "votes", "tally", "votes++"}
      BY <1>1, <3>1 DEF SZRead3
    <3>2. CASE pc["main"] \in {"wait", "done"}
      <4>1. SZRead3 = 2 + mem["szavazhat_elnok"].val /\ mem["i"] = mem["szavazhat_elnok"].val
        BY <3>2 DEF SZRead3, SZTallied, Tallies
      <4> QED BY <1>1, <4>1
    <3> QED BY <3>1, <3>2 DEF Tallies
  <2>3. pc["pecsetelo_tag"] \in Reports /\ G[1].val = mem["szavazhat"]
    BY <1>3, <2>2, SZRed
  <2> QED BY <2>1, <2>3, SZReported

\* A read of the next item, into x
<1>5. ASSUME NEW from, NEW to, NEW x \in MainVars \ {"i", "partok"},
             SZ!Read("main", from, to, "pecsetelo_ki", x),
             from \in {"read_count", "read_nem", "votes"}, to \in {"read_nem", "fopen", "tally"},
             SZRead3' = SZRead3 + 1
      PROVE  /\ mem'[x] = G[SZRead3 + 1] /\ SZRead3 + 1 \in 1..SZWritten3
             /\ \A y \in SZLocals \ {x} : mem'[y] = mem[y]
             /\ pc["main"] = from /\ pc'["main"] = to
             /\ SZTallied(G)' => SZState(c, F, G)'
  <2>1. x \in SZLocals
    BY <1>0
  <2>2. /\ Moves("main", from, to) /\ Sets(x, Head(pipe["pecsetelo_ki"]))
        /\ Puts("pecsetelo_ki", Tail(pipe["pecsetelo_ki"]))
        /\ pipe["pecsetelo_ki"] # <<>> /\ UNCHANGED <<pending, ready, reaped>>
    BY <1>0, <1>5, <1>a, <2>1, SZEffects, Zenon
  <2>a. pipe'["pecsetelo_ki"] = Tail(pipe["pecsetelo_ki"])
    BY <2>2 DEF Puts
  <2>b. Channel(pipe["pecsetelo_ki"], G, SZRead3, SZWritten3)
    BY DEF SZVoted
  <2>3. /\ Channel(pipe'["pecsetelo_ki"], G, SZRead3', SZWritten3)
        /\ Head(pipe["pecsetelo_ki"]) = G[SZRead3 + 1] /\ SZRead3 + 1 \in 1..SZWritten3
    <3>1. pipe["pecsetelo_ki"] # <<>>
      BY <2>2
    <3>2. /\ Channel(Tail(pipe["pecsetelo_ki"]), G, SZRead3 + 1, SZWritten3)
          /\ Head(pipe["pecsetelo_ki"]) = G[SZRead3 + 1] /\ SZRead3 + 1 \in 1..SZWritten3
      BY <2>b, <3>1, ChannelRead, Zenon
    <3>3. SZRead3' = SZRead3 + 1
      BY <1>5
    <3> QED BY <2>a, <3>2, <3>3
  <2>4. /\ Unset(MainVars) /\ SZDomains /\ pipe'["ellenorzo_ki"] = pipe["ellenorzo_ki"]
        /\ pipe'["io_pipes_out"] = pipe["io_pipes_out"]
    BY <1>5, <2>2 DEF Sets, Puts, Unset, SZDomains, SZ!Pipes
  <2>5. mem'["i"] = mem["i"]
    BY <1>0, <1>5, <2>2 DEF Sets
  <2>6. SZTallied(G)' => SZState(c, F, G)'
    BY <1>1, <1>2, <1>5, <1>a, <2>2, <2>3, <2>4, <2>5 DEF Tallies
  <2> QED BY <2>2, <2>3, <2>6 DEF Sets, Moves
<1>6. CASE SZ!Read("main", "read_count", "read_nem", "pecsetelo_ki", "szavazhat_elnok")
  <2>1. pc["main"] = "read_count" /\ pc'["main"] = "read_nem"
    BY <1>0, <1>6, <1>a, SZEffects DEF Moves
  <2>2. SZRead3 = 0 /\ SZRead3' = SZRead3 + 1
    BY <2>1 DEF SZRead3
  <2>3. "szavazhat_elnok" \in MainVars \ {"i", "partok"}
    BY <1>0
  <2>4. /\ mem'["szavazhat_elnok"] = G[SZRead3 + 1] /\ \A y \in SZLocals \ {"szavazhat_elnok"} : mem'[y] = mem[y]
        /\ SZTallied(G)' => SZState(c, F, G)'
    BY <1>5, <1>6, <2>2, <2>3
  <2>5. mem'["partok"] = mem["partok"]
    BY <1>0, <2>4
  <2>6. SZTallied(G)'
    BY <2>1, <2>2, <2>4, <2>5 DEF SZTallied, Tallied, Tallies
  <2> QED BY <2>4, <2>6
<1>7. CASE SZ!Read("main", "read_nem", "fopen", "pecsetelo_ki", "nem_szavazhat_elnok")
  <2>1. pc["main"] = "read_nem" /\ pc'["main"] = "fopen"
    BY <1>0, <1>7, <1>a, SZEffects DEF Moves
  <2>2. SZRead3 = 1 /\ SZRead3' = SZRead3 + 1
    BY <2>1 DEF SZRead3
  <2>3. "nem_szavazhat_elnok" \in MainVars \ {"i", "partok"}
    BY <1>0
  <2>4. /\ mem'["nem_szavazhat_elnok"] = G[SZRead3 + 1]
        /\ \A y \in SZLocals \ {"nem_szavazhat_elnok"} : mem'[y] = mem[y]
        /\ SZTallied(G)' => SZState(c, F, G)'
    BY <1>5, <1>7, <2>2, <2>3
  <2>5. mem'["partok"] = mem["partok"] /\ mem'["szavazhat_elnok"] = mem["szavazhat_elnok"]
    BY <1>0, <2>4
  <2>6. SZTallied(G)'
    BY <2>1, <2>2, <2>4, <2>5 DEF SZTallied, Tallied, Tallies
  <2> QED BY <2>4, <2>6
<1>8. CASE mem["i"] < mem["szavazhat_elnok"].val /\ SZ!Read("main", "votes", "tally", "pecsetelo_ki", "szavazat")
  <2>1. pc["main"] = "votes" /\ pc'["main"] = "tally"
    BY <1>0, <1>8, <1>a, SZEffects DEF Moves
  <2>2. mem'["i"] = mem["i"]
    <3>1. Sets("szavazat", Head(pipe["pecsetelo_ki"]))
      BY <1>0, <1>8, <1>a, SZEffects
    <3> QED BY <1>0, <3>1 DEF Sets
  <2>3. SZRead3 = 2 + mem["i"] /\ SZRead3' = SZRead3 + 1 /\ SZRead3 + 1 = 3 + mem["i"]
    BY <1>1, <2>1, <2>2 DEF SZRead3
  <2>4. "szavazat" \in MainVars \ {"i", "partok"}
    BY <1>0
  <2>5. /\ mem'["szavazat"] = G[SZRead3 + 1] /\ \A y \in SZLocals \ {"szavazat"} : mem'[y] = mem[y]
        /\ SZTallied(G)' => SZState(c, F, G)'
    BY <1>5, <1>8, <2>3, <2>4
  <2>6. /\ mem'["partok"] = mem["partok"] /\ mem'["szavazhat_elnok"] = mem["szavazhat_elnok"]
        /\ mem'["nem_szavazhat_elnok"] = mem["nem_szavazhat_elnok"]
    BY <1>0, <2>5
  <2>7. SZTallied(G)'
    BY <1>8, <2>1, <2>2, <2>3, <2>5, <2>6 DEF SZTallied, Tallied, Tallies
  <2> QED BY <2>5, <2>7
\* Steps that do not touch the pipes
<1>9. ASSUME NEW from, NEW to, Moves("main", from, to), Unset(MainVars), DOMAIN mem' = SZLocals,
             UNCHANGED <<pending, ready, pipe>>, reaped' \subseteq SZ!Children,
             from \in Tallies \cup {"fopen"},
             to \in Tallies \/ (to = "exited" /\ pc["pecsetelo_tag"] # "off"),
             mem'["i"] \in 0..SZ!Voters, SZRead3' = SZRead3, SZTallied(G)'
      PROVE  SZState(c, F, G)'
  <2>1. Channel(pipe'["pecsetelo_ki"], G, SZRead3', SZWritten3) /\ SZDomains
    BY <1>9, <1>b DEF SZVoted, SZDomains
  <2> QED BY <1>2, <1>9, <2>1
<1>10. CASE SZ!Assign("main", "fopen", "votes", "i", 0)
  <2>1. /\ Moves("main", "fopen", "votes") /\ Sets("i", 0) /\ UNCHANGED <<pending, ready, reaped, pipe>>
    BY <1>0, <1>10, <1>a, SZEffects
  <2>2. /\ pc["main"] = "fopen" /\ pc'["main"] = "votes" /\ mem'["i"] = 0 /\ Unset(MainVars)
        /\ DOMAIN mem' = SZLocals /\ mem'["partok"] = mem["partok"]
        /\ mem'["szavazhat_elnok"] = mem["szavazhat_elnok"]
        /\ mem'["nem_szavazhat_elnok"] = mem["nem_szavazhat_elnok"]
    BY <1>0, <2>1 DEF Moves, Sets, Unset
  <2>3. SZRead3' = SZRead3
    BY <2>2 DEF SZRead3
  <2>4. mem["szavazhat_elnok"].val \in 0..SZ!Voters
    BY <1>4, <2>2
  <2>5. SZTallied(G)'
    BY <1>1, <2>2, <2>4 DEF SZTallied, Tallied, Tallies
  <2> QED BY <1>1, <1>9, <1>a, <2>1, <2>2, <2>3, <2>5 DEF Tallies
<1>11. CASE SZ!Jump("main", "fopen", "exited")
  <2>1. Moves("main", "fopen", "exited") /\ UNCHANGED <<pending, ready, reaped, pipe, mem>>
    BY <1>0, <1>11, <1>a, SZEffects DEF SZ!Jump
  <2>2. /\ pc["main"] = "fopen" /\ pc'["main"] = "exited" /\ Unset(MainVars) /\ DOMAIN mem' = SZLocals
        /\ pc'["pecsetelo_tag"] = pc["pecsetelo_tag"]
    BY <1>b, <2>1 DEF Moves, Unset, SZ!Processes, SZ!Children
  <2>3. pc["pecsetelo_tag"] # "off"
    BY <1>4, <2>2 DEF Reports
  <2>4. SZRead3' = SZRead3
    BY <2>2, <2>3 DEF SZRead3
  <2>5. SZTallied(G)'
    BY <2>1, <2>2 DEF SZTallied, Tallied, Tallies
  <2> QED BY <1>1, <1>9, <1>a, <2>1, <2>2, <2>3, <2>4, <2>5
<1>12. CASE SZ!Assign("main", "tally", "votes++", "partok",
            [p \in Parties |-> mem["partok"][p] + (IF p = mem["szavazat"].val THEN 1 ELSE 0)])
  <2>1. PICK h : h = [p \in Parties |-> mem["partok"][p] + (IF p = mem["szavazat"].val THEN 1 ELSE 0)]
    OBVIOUS
  <2>2. /\ Moves("main", "tally", "votes++") /\ Sets("partok", h)
        /\ UNCHANGED <<pending, ready, reaped, pipe>>
    BY <1>0, <1>12, <1>a, <2>1, SZEffects
  <2>3. /\ pc["main"] = "tally" /\ pc'["main"] = "votes++" /\ mem'["i"] = mem["i"] /\ Unset(MainVars)
        /\ DOMAIN mem' = SZLocals /\ mem'["partok"] = h
        /\ mem'["szavazhat_elnok"] = mem["szavazhat_elnok"]
        /\ mem'["nem_szavazhat_elnok"] = mem["nem_szavazhat_elnok"]
    BY <1>0, <2>2 DEF Moves, Sets, Unset
  <2>4. SZRead3' = SZRead3 /\ SZRead3 = 3 + mem["i"]
    BY <2>3 DEF SZRead3
  <2>5. PICK p \in Parties : mem["szavazat"].val = p
    <3>1. mem["szavazat"] = G[SZRead3]
      BY <2>3, <2>4 DEF SZTallied
    <3>2. SZRead3 >= 3 /\ SZRead3 >= 1
      BY <1>1, <2>4
    <3> QED BY <1>3, <3>1, <3>2, SZRed
  <2>6. mem["partok"] \in [Parties -> Int] /\ Sum(mem["partok"], Parties) = mem["i"]
    BY <2>3 DEF SZTallied, Tallied
  <2>7. Raised(mem["partok"], h, p, Parties)
    BY <2>1, <2>5, <2>6 DEF Raised
  <2>8. Sum(h, Parties) = mem["i"] + 1
    BY <2>5, <2>6, <2>7, SumRaised, PartiesAssumption
  <2>9. h \in [Parties -> Int]
    BY <2>1, <2>6
  <2>10. mem["i"] < mem["szavazhat_elnok"].val
    BY <2>3 DEF SZTallied
  <2>11. Tallied' = mem["i"] + 1
    BY <2>3 DEF Tallied
  <2>12. SZTallied(G)'
    BY <1>1, <2>3, <2>8, <2>9, <2>10, <2>11 DEF SZTallied, Tallies
  <2> QED BY <1>1, <1>9, <1>a, <2>2, <2>3, <2>4, <2>12 DEF Tallies
<1>13. CASE SZ!Assign("main", "votes++", "votes", "i", mem["i"] + 1)
  <2>1. /\ Moves("main", "votes++", "votes") /\ Sets("i", mem["i"] + 1)
        /\ UNCHANGED <<pending, ready, reaped, pipe>>
    BY <1>0, <1>13, <1>a, SZEffects
  <2>2. /\ pc["main"] = "votes++" /\ pc'["main"] = "votes" /\ mem'["i"] = mem["i"] + 1 /\ Unset(MainVars)
        /\ DOMAIN mem' = SZLocals /\ mem'["partok"] = mem["partok"]
        /\ mem'["szavazhat_elnok"] = mem["szavazhat_elnok"]
        /\ mem'["nem_szavazhat_elnok"] = mem["nem_szavazhat_elnok"]
    BY <1>0, <2>1 DEF Moves, Sets, Unset
  <2>3. SZRead3' = SZRead3
    BY <1>1, <2>2 DEF SZRead3
  <2>4. mem["szavazhat_elnok"].val \in 0..SZ!Voters /\ mem["i"] < mem["szavazhat_elnok"].val
    BY <1>4, <2>2 DEF SZTallied, Tallies
  <2>5. mem'["i"] \in 0..SZ!Voters /\ mem'["i"] <= mem["szavazhat_elnok"].val
    BY <1>1, <2>2, <2>4
  <2>6. SZTallied(G)'
    BY <2>2, <2>5 DEF SZTallied, Tallied, Tallies
  <2> QED BY <1>9, <1>a, <2>1, <2>2, <2>3, <2>5, <2>6 DEF Tallies
<1>14. CASE mem["i"] >= mem["szavazhat_elnok"].val /\ SZ!Jump("main", "votes", "wait")
  <2>1. Moves("main", "votes", "wait") /\ UNCHANGED <<pending, ready, reaped, pipe, mem>>
    BY <1>0, <1>14, <1>a, SZEffects DEF SZ!Jump
  <2>2. pc["main"] = "votes" /\ pc'["main"] = "wait" /\ Unset(MainVars) /\ DOMAIN mem' = SZLocals
    BY <1>b, <2>1 DEF Moves, Unset
  <2>3. mem["i"] = mem["szavazhat_elnok"].val
    <3>1. mem["i"] <= mem["szavazhat_elnok"].val /\ mem["szavazhat_elnok"].val \in 0..SZ!Voters
      BY <1>4, <2>2 DEF SZTallied, Tallies
    <3> QED BY <1>1, <1>14, <3>1
  <2>4. SZRead3' = SZRead3
    BY <2>1, <2>2, <2>3 DEF SZRead3
  <2>5. SZTallied(G)'
    BY <1>1, <2>1, <2>2, <2>3 DEF SZTallied, Tallied, Tallies
  <2> QED BY <1>1, <1>9, <1>a, <2>1, <2>2, <2>4, <2>5 DEF Tallies
<1>15. CASE SZ!Wait(SZ!Children, "wait", "done")
  <2>1. /\ Moves("main", "wait", "done") /\ UNCHANGED <<pending, ready, pipe, mem>>
        /\ reaped' \subseteq SZ!Children
    BY <1>0, <1>15, <1>a, SZEffects DEF SZ!Wait
  <2>2. pc["main"] = "wait" /\ pc'["main"] = "done" /\ Unset(MainVars) /\ DOMAIN mem' = SZLocals
    BY <1>b, <2>1 DEF Moves, Unset
  <2>3. SZRead3' = SZRead3
    BY <2>1, <2>2 DEF SZRead3
  <2>4. SZTallied(G)'
    BY <2>1, <2>2 DEF SZTallied, Tallied, Tallies
  <2> QED BY <1>1, <1>9, <1>a, <2>1, <2>2, <2>3, <2>4 DEF Tallies
<1> QED BY <1>6, <1>7, <1>8, <1>10, <1>11, <1>12, <1>13, <1>14, <1>15 DEF SZ!elnokVotes

\* What the stamper has read does not change when more is written.
LEMMA SZStampsGrown ==
  ASSUME NEW c, NEW F, NEW c2, NEW F2, SZControl, Channel(pipe["ellenorzo_ki"], F, SZRead2, SZWritten2),
         SZStamps(c, F)', SZ!Voters' = SZ!Voters, SZStamps(c, F), SZSeen' = SZSeen, SZCounted' = SZCounted,
         pc'["pecsetelo_tag"] = pc["pecsetelo_tag"],
         \A k \in 1..SZWritten2 : F2[k] = F[k],
         \A k \in 0..SZ!Voters : 2 * k <= SZWritten2 => c2[k] = c[k]
  PROVE  SZStamps(c2, F2)'
<1>1. SZWritten2 \in Nat /\ SZRead2 <= SZWritten2 /\ SZ!Voters \in Nat
  BY SZVotersNat DEF Channel
<1>2. SZSeen \in 0..SZ!Voters /\ (pc["pecsetelo_tag"] \in {"read_puffer", "count"} => SZSeen >= 1)
  BY <1>1, LenProperties DEF SZStamps, SZSeen
<1>3. pc["pecsetelo_tag"] \in Counting \cup Reports
  BY DEF SZControl
<1>4. SZCounted \in 0..SZ!Voters /\ 2 * SZCounted <= SZWritten2
  BY <1>1, <1>2, <1>3 DEF SZCounted, SZRead2, Counting, Reports, SZStamps
<1>5. c2[SZCounted] = c[SZCounted]
  BY <1>4
<1>6. pc["pecsetelo_tag"] = "look" => F2[2 * SZSeen + 1] = F[2 * SZSeen + 1]
  BY <1>1, <1>2 DEF SZRead2
<1>7. pc["pecsetelo_tag"] = "count" => F2[2 * SZSeen] = F[2 * SZSeen]
  BY <1>1, <1>2 DEF SZRead2
<1> QED BY <1>5, <1>6, <1>7 DEF SZStamps

\* Steps before the checker writes
LEMMA SZCollects ==
  ASSUME NEW c, NEW F, NEW G, SZState(c, F, G), SZ!ellenorzoReads
  PROVE  SZState(c, F, G)'
<1> USE DEF SZState
<1>0. /\ "ellenorzo_tag" \in SZ!Processes /\ "io_pipes_out" \in SZ!Pipes /\ CheckerVars \subseteq SZLocals
      /\ "szavazoszam" \in CheckerVars /\ "szavazo_idje" \in CheckerVars /\ "kapott" \in CheckerVars
  BY SZLocalsAre DEF SZ!Processes, SZ!Children, SZ!Pipes, CheckerVars
<1>1. /\ SZ!Voters \in Nat /\ mem["szavazok"] \in Int
      /\ IF mem["szavazok"] > 0 THEN SZ!Voters = mem["szavazok"] ELSE SZ!Voters = 0
  BY SZVotersNat
<1>2. /\ mem["kapott"] \in Seq(Numbers) /\ Len(mem["kapott"]) \in Nat /\ Len(mem["kapott"]) <= SZ!Voters
  BY LenProperties DEF SZCollected
<1>a. SZControl /\ DOMAIN pipe = SZ!Pipes /\ DOMAIN mem = SZLocals
  BY DEF SZControl
<1>b. SZWritten1 \in Nat /\ SZRead1 \in Nat /\ Channel(pipe["io_pipes_out"], SZIds, SZRead1, SZWritten1)
  BY DEF SZCollected, Channel
<1>3. ASSUME NEW from, NEW to, Moves("ellenorzo_tag", from, to), Unset({"szavazoszam", "szavazo_idje", "kapott"}),
             UNCHANGED <<ready, reaped>>, SZDomains,
             pipe'["pecsetelo_ki"] = pipe["pecsetelo_ki"], pipe'["ellenorzo_ki"] = pipe["ellenorzo_ki"],
             from \in Collects, to \in Collects \cup {"write"}, SZControl' \/ (UNCHANGED pending /\ from # "start"),
             from # "off", to \notin {"off", "start"},
             SZFixed => SZCollected'
      PROVE  SZState(c, F, G)'
  <2>1. Unset(CheckerVars)
    BY <1>3 DEF Unset, CheckerVars
  <2>2. /\ SZVoted(G)' /\ SZTallied(G)' /\ SZStamps(c, F)' /\ SZRead2' = SZRead2 /\ SZFixed
        /\ {from, to} \subseteq (Collects \cup Judges) \ {"off", "start"} /\ UNCHANGED pending => SZControl'
    BY <1>3, <2>1, SZByChecker
  <2>3. SZControl'
    BY <1>3, <2>2 DEF Judges
  <2>4. /\ mem'["j"] = mem["j"] /\ mem'["itelet"] = mem["itelet"] /\ mem'["jok"] = mem["jok"]
    BY <1>3, SZLocalsAre DEF Unset, CheckerVars
  <2>5. pc["ellenorzo_tag"] = from /\ pc'["ellenorzo_tag"] = to
    BY <1>3 DEF Moves
  <2>6. SZWritten2' = SZWritten2
    <3>1. mem["j"] = 0
      BY <1>3, <2>5 DEF SZJudged, SZChecks
    <3> QED BY <1>3, <2>4, <2>5, <3>1 DEF SZWritten2, Collects
  <2>7. SZChecks(c, F)'
    BY <1>3, <2>2, <2>4, <2>5, SZChecksKept DEF SZJudged
  <2>8. SZJudged(c, F)'
    BY <1>3, <2>2, <2>6, <2>7, SZJudgedKept
  <2> QED BY <1>3, <2>2, <2>3, <2>8
\* The rest of SZCollected
<1>4. ASSUME SZFixed, pc'["main"] = pc["main"], pc'["pecsetelo_tag"] = pc["pecsetelo_tag"], mem'["i"] = mem["i"]
      PROVE  /\ SZ!Voters' = SZ!Voters /\ SZIds' = SZIds /\ SZWritten1' = SZWritten1
             /\ mem'["i"] \in 0..SZ!Voters /\ (pc'["main"] \in Before => mem'["i"] = 0)
             /\ (pc'["main"] = "ids++" => mem'["i"] < SZ!Voters)
  <2>1. SZ!Voters' = SZ!Voters
    BY <1>4 DEF SZFixed, SZ!Voters
  <2> QED BY <1>4, <2>1 DEF SZFixed, SZIds, SZ!int, SZWritten1, SZCollected
<1>5. CASE SZ!Kill("ellenorzo_tag", "start", "read_count")
  <2>1. /\ Moves("ellenorzo_tag", "start", "read_count") /\ UNCHANGED <<ready, reaped, pipe, mem>>
        /\ pending' = SZ!Alive("main")
    BY <1>0, <1>5, <1>a, SZEffects DEF SZ!Kill
  <2>2. /\ pc["ellenorzo_tag"] = "start" /\ pc'["ellenorzo_tag"] = "read_count" /\ pc'["main"] = pc["main"]
        /\ pc'["pecsetelo_tag"] = pc["pecsetelo_tag"] /\ DOMAIN pc' = SZ!Processes
    BY <2>1 DEF Moves, SZ!Processes, SZ!Children
  <2>3. SZFixed /\ SZDomains /\ Unset({"szavazoszam", "szavazo_idje", "kapott"})
    BY <1>a, <2>1 DEF SZFixed, SZDomains, Unset
  <2>4. /\ SZ!Voters' = SZ!Voters /\ SZIds' = SZIds /\ SZWritten1' = SZWritten1
        /\ mem'["i"] \in 0..SZ!Voters /\ (pc'["main"] \in Before => mem'["i"] = 0)
        /\ (pc'["main"] = "ids++" => mem'["i"] < SZ!Voters)
    BY <1>4, <2>1, <2>2, <2>3
  <2>5. SZControl'
    <3>1. SZSignals' = SZSignals + 1
      BY <2>2 DEF SZSignals
    <3>2. SZSignals \in Nat /\ pending' \in BOOLEAN
      BY <2>1 DEF SZSignals, SZ!Alive
    <3>3. ready' \in Nat /\ ready' + (IF pending' THEN 1 ELSE 0) <= SZSignals'
      BY <2>1, <3>1, <3>2 DEF SZControl
    <3> QED BY <2>1, <2>2, <2>3, <2>4, <3>2, <3>3 DEF SZControl, SZDomains, Collects
  <2>6. SZRead1' = SZRead1
    BY <2>1, <2>2 DEF SZRead1
  <2>7. SZCollected'
    BY <2>1, <2>2, <2>3, <2>4, <2>6, SZCollectedKept
  <2> QED BY <1>3, <2>1, <2>3, <2>5, <2>7 DEF Collects
\* A read of the next item, into x
<1>6. ASSUME NEW from, NEW to, NEW x \in {"szavazoszam", "szavazo_idje"},
             SZ!Read("ellenorzo_tag", from, to, "io_pipes_out", x),
             from \in {"read_count", "read"}, to \in {"read", "keep"}, SZRead1' = SZRead1 + 1,
             from = "read" => to = "keep"
      PROVE  /\ mem'[x] = SZIds[SZRead1 + 1] /\ SZRead1 + 1 \in 1..SZWritten1
             /\ \A y \in SZLocals \ {x} : mem'[y] = mem[y]
             /\ pc["ellenorzo_tag"] = from /\ pc'["ellenorzo_tag"] = to
             /\ SZ!Voters' = SZ!Voters
             /\ (/\ to # "read_count" => mem'["szavazoszam"].val = mem["szavazok"]
                 /\ to = "keep" =>
                      /\ Len(mem["kapott"]) < SZ!Voters
                      /\ mem'["szavazo_idje"].val = mem["idk"][Len(mem["kapott"]) + 1]) => SZState(c, F, G)'
  <2>1. x \in SZLocals
    BY <1>0, <1>6
  <2>2. /\ Moves("ellenorzo_tag", from, to) /\ Sets(x, Head(pipe["io_pipes_out"]))
        /\ Puts("io_pipes_out", Tail(pipe["io_pipes_out"]))
        /\ pipe["io_pipes_out"] # <<>> /\ UNCHANGED <<pending, ready, reaped>>
    BY <1>0, <1>6, <1>a, <2>1, SZEffects, Zenon
  <2>3. /\ Channel(Tail(pipe["io_pipes_out"]), SZIds, SZRead1 + 1, SZWritten1)
        /\ Head(pipe["io_pipes_out"]) = SZIds[SZRead1 + 1] /\ SZRead1 + 1 \in 1..SZWritten1
    BY <1>b, <2>2, ChannelRead, Zenon
  <2>4. /\ Unset({"szavazoszam", "szavazo_idje", "kapott"}) /\ SZDomains
        /\ pipe'["ellenorzo_ki"] = pipe["ellenorzo_ki"] /\ pipe'["pecsetelo_ki"] = pipe["pecsetelo_ki"]
        /\ pipe'["io_pipes_out"] = Tail(pipe["io_pipes_out"])
    BY <1>6, <2>2 DEF Sets, Puts, Unset, SZDomains, SZ!Pipes
  <2>5. /\ mem'["i"] = mem["i"] /\ mem'["kapott"] = mem["kapott"] /\ SZFixed
    BY <1>0, <1>6, <2>2, SZLocalsAre DEF Sets, SZFixed, MainVars
  <2>6. /\ pc["ellenorzo_tag"] = from /\ pc'["ellenorzo_tag"] = to /\ pc'["main"] = pc["main"]
        /\ pc'["pecsetelo_tag"] = pc["pecsetelo_tag"]
    BY <2>2 DEF Moves, SZ!Processes, SZ!Children
  <2>7. /\ SZ!Voters' = SZ!Voters /\ SZIds' = SZIds /\ SZWritten1' = SZWritten1
        /\ mem'["i"] \in 0..SZ!Voters /\ (pc'["main"] \in Before => mem'["i"] = 0)
        /\ (pc'["main"] = "ids++" => mem'["i"] < SZ!Voters)
    BY <1>4, <2>5, <2>6
  <2>8. Channel(pipe["io_pipes_out"], SZIds, SZRead1, SZWritten1)'
    BY <1>6, <2>3, <2>4, <2>7, SZConstant
  <2>9. ASSUME mem'["szavazoszam"].val = mem["szavazok"],
               to = "keep" => /\ Len(mem["kapott"]) < SZ!Voters
                              /\ mem'["szavazo_idje"].val = mem["idk"][Len(mem["kapott"]) + 1]
        PROVE  SZState(c, F, G)'
    <3>1. SZCollected'
      BY <1>6, <2>5, <2>6, <2>7, <2>8, <2>9 DEF SZCollected, SZFixed, Judges
    <3>2. from \in Collects /\ to \in Collects /\ from # "start" /\ from # "off" /\ to \notin {"off", "start"}
      BY <1>6 DEF Collects
    <3> QED BY <1>3, <2>2, <2>4, <3>1, <3>2
  <2>10. mem'[x] = Head(pipe["io_pipes_out"]) /\ \A y \in SZLocals \ {x} : mem'[y] = mem[y]
    BY <2>2 DEF Sets
  <2>11. to # "read_count"
    BY <1>6
  <2> QED BY <2>3, <2>6, <2>7, <2>9, <2>10, <2>11
<1>7. CASE SZ!Read("ellenorzo_tag", "read_count", "read", "io_pipes_out", "szavazoszam")
  <2>1. pc["ellenorzo_tag"] = "read_count" /\ pc'["ellenorzo_tag"] = "read"
    BY <1>0, <1>7, <1>a, SZEffects DEF Moves
  <2>2. mem'["kapott"] = mem["kapott"]
    <3>1. Sets("szavazoszam", Head(pipe["io_pipes_out"]))
      BY <1>0, <1>7, <1>a, SZEffects
    <3> QED BY <1>0, <3>1 DEF Sets
  <2>3. Len(mem["kapott"]) = 0
    BY <2>1 DEF SZCollected
  <2>4. SZRead1 = 0 /\ SZRead1' = SZRead1 + 1
    BY <2>1, <2>2, <2>3 DEF SZRead1
  <2>5. SZIds[SZRead1 + 1].val = mem["szavazok"]
    BY <2>4 DEF SZIds, SZ!int
  <2> QED BY <1>6, <1>7, <2>4, <2>5
<1>8. CASE /\ Len(mem["kapott"]) < mem["szavazoszam"].val
           /\ SZ!Read("ellenorzo_tag", "read", "keep", "io_pipes_out", "szavazo_idje")
  <2>1. pc["ellenorzo_tag"] = "read" /\ pc'["ellenorzo_tag"] = "keep"
    BY <1>0, <1>8, <1>a, SZEffects DEF Moves
  <2>2. mem'["kapott"] = mem["kapott"] /\ mem'["szavazoszam"] = mem["szavazoszam"]
    <3>1. Sets("szavazo_idje", Head(pipe["io_pipes_out"]))
      BY <1>0, <1>8, <1>a, SZEffects
    <3> QED BY <1>0, <3>1 DEF Sets
  <2>3. mem["szavazoszam"].val = mem["szavazok"]
    BY <2>1 DEF SZCollected
  <2>4. Len(mem["kapott"]) < SZ!Voters
    BY <1>1, <1>2, <1>8, <2>3
  <2>5. PICK n \in Nat : n = Len(mem["kapott"])
    BY <1>2
  <2>6. SZRead1 = 1 + n /\ SZRead1' = SZRead1 + 1
    BY <2>1, <2>2, <2>5 DEF SZRead1
  <2>7. 1 + n + 1 - 1 = n + 1 /\ 1 + n + 1 # 1 /\ 1 + n + 1 \in Nat
    OBVIOUS
  <2>8. SZIds[SZRead1 + 1].val = mem["idk"][n + 1]
    BY <2>6, <2>7 DEF SZIds, SZ!int
  <2> QED BY <1>6, <1>8, <2>2, <2>3, <2>4, <2>5, <2>6, <2>8
<1>9. CASE SZ!Assign("ellenorzo_tag", "keep", "read", "kapott",
            Append(mem["kapott"], mem["szavazo_idje"].val))
  <2>1. /\ Moves("ellenorzo_tag", "keep", "read")
        /\ Sets("kapott", Append(mem["kapott"], mem["szavazo_idje"].val))
        /\ UNCHANGED <<pending, ready, reaped, pipe>>
    BY <1>0, <1>9, <1>a, SZEffects
  <2>2. /\ pc["ellenorzo_tag"] = "keep" /\ pc'["ellenorzo_tag"] = "read" /\ pc'["main"] = pc["main"]
        /\ pc'["pecsetelo_tag"] = pc["pecsetelo_tag"]
    BY <2>1 DEF Moves, SZ!Processes, SZ!Children
  <2>3. /\ mem'["i"] = mem["i"] /\ mem'["szavazoszam"] = mem["szavazoszam"] /\ SZFixed
        /\ mem'["kapott"] = Append(mem["kapott"], mem["szavazo_idje"].val)
        /\ mem'["szavazo_idje"] = mem["szavazo_idje"]
    BY <1>0, <2>1, SZLocalsAre DEF Sets, SZFixed, MainVars
  <2>4. /\ SZ!Voters' = SZ!Voters /\ SZIds' = SZIds /\ SZWritten1' = SZWritten1
        /\ mem'["i"] \in 0..SZ!Voters /\ (pc'["main"] \in Before => mem'["i"] = 0)
        /\ (pc'["main"] = "ids++" => mem'["i"] < SZ!Voters)
    BY <1>4, <2>2, <2>3
  <2>5. PICK q, n, v : q = mem["kapott"] /\ n = Len(q) /\ v = mem["szavazo_idje"].val
    OBVIOUS
  <2>6. /\ n < SZ!Voters /\ v = mem["idk"][n + 1] /\ q \in Seq(Numbers) /\ n \in Nat
        /\ \A k \in 1..n : q[k] = mem["idk"][k]
    BY <1>2, <2>2, <2>5 DEF SZCollected
  <2>7. v \in Numbers
    <3>1. mem["idk"] \in [1..SZ!Voters -> Numbers] /\ n + 1 \in 1..SZ!Voters
      BY <1>1, <2>6 DEF SZControl
    <3> QED BY <2>6, <3>1
  <2>8. /\ Append(q, v) \in Seq(Numbers) /\ Len(Append(q, v)) = n + 1
        /\ \A k \in 1..(n + 1) : Append(q, v)[k] = mem["idk"][k]
    BY <2>5, <2>6, <2>7, AppendProperties
  <2>9. SZRead1' = SZRead1
    BY <1>2, <2>2, <2>3, <2>5, <2>6, <2>8 DEF SZRead1
  <2>10. Channel(pipe["io_pipes_out"], SZIds, SZRead1, SZWritten1)'
    BY <1>b, <2>1, <2>4, <2>9, SZConstant
  <2>11. n + 1 <= SZ!Voters /\ mem'["kapott"] = Append(q, v)
    BY <1>1, <2>3, <2>5, <2>6
  <2>12. mem["szavazoszam"].val = mem["szavazok"]
    BY <2>2 DEF SZCollected
  <2>13. SZCollected'
    BY <2>2, <2>3, <2>4, <2>8, <2>10, <2>11, <2>12 DEF SZCollected, SZFixed, Judges
  <2>14. SZDomains /\ Unset({"szavazoszam", "szavazo_idje", "kapott"})
    BY <1>a, <2>1 DEF SZDomains, Unset, Sets
  <2> QED BY <1>3, <2>1, <2>13, <2>14 DEF Collects
<1>10. CASE /\ Len(mem["kapott"]) >= mem["szavazoszam"].val
            /\ SZ!Jump("ellenorzo_tag", "read", "write")
  <2>1. Moves("ellenorzo_tag", "read", "write") /\ UNCHANGED <<pending, ready, reaped, pipe, mem>>
    BY <1>0, <1>10, <1>a, SZEffects DEF SZ!Jump
  <2>2. /\ pc["ellenorzo_tag"] = "read" /\ pc'["ellenorzo_tag"] = "write" /\ pc'["main"] = pc["main"]
        /\ pc'["pecsetelo_tag"] = pc["pecsetelo_tag"]
    BY <2>1 DEF Moves, SZ!Processes, SZ!Children
  <2>3. SZFixed /\ SZDomains /\ Unset({"szavazoszam", "szavazo_idje", "kapott"})
    BY <1>a, <2>1 DEF SZFixed, SZDomains, Unset
  <2>4. /\ SZ!Voters' = SZ!Voters /\ SZIds' = SZIds /\ SZWritten1' = SZWritten1
    BY <1>4, <2>1, <2>2, <2>3
  <2>5. mem["szavazoszam"].val = mem["szavazok"]
    BY <2>2 DEF SZCollected
  <2>6. Len(mem["kapott"]) = SZ!Voters
    BY <1>1, <1>2, <1>10, <2>5
  <2>7. SZRead1' = SZRead1
    BY <2>1, <2>2 DEF SZRead1
  <2>8. Channel(pipe["io_pipes_out"], SZIds, SZRead1, SZWritten1)'
    BY <1>b, <2>1, <2>4, <2>7, SZConstant
  <2>9. SZCollected'
    BY <2>1, <2>2, <2>4, <2>5, <2>6, <2>8 DEF SZCollected
  <2> QED BY <1>3, <2>1, <2>3, <2>9 DEF Collects
<1> QED BY <1>5, <1>7, <1>8, <1>9, <1>10 DEF SZ!ellenorzoReads

\* Steps at which the checker judges and writes
LEMMA SZJudges ==
  ASSUME NEW c, NEW F, NEW G, SZState(c, F, G), SZ!ellenorzoWrites
  PROVE  \E c2, F2 : SZState(c2, F2, G)'
<1> USE DEF SZState
<1>0. /\ "ellenorzo_tag" \in SZ!Processes /\ "ellenorzo_ki" \in SZ!Pipes /\ CheckerVars \subseteq SZLocals
      /\ "j" \in CheckerVars /\ "itelet" \in CheckerVars /\ "jok" \in CheckerVars
  BY SZLocalsAre DEF SZ!Processes, SZ!Children, SZ!Pipes, CheckerVars
<1>1. /\ SZ!Voters \in Nat /\ mem["szavazok"] \in Int /\ mem["j"] \in 0..SZ!Voters
      /\ IF mem["szavazok"] > 0 THEN SZ!Voters = mem["szavazok"] ELSE SZ!Voters = 0
  BY SZVotersNat DEF SZJudged, SZChecks
<1>a. SZControl /\ DOMAIN pipe = SZ!Pipes /\ DOMAIN mem = SZLocals
  BY DEF SZControl
<1>b. /\ Channel(pipe["ellenorzo_ki"], F, SZRead2, SZWritten2) /\ SZWritten2 \in Nat
      /\ DOMAIN F = Nat /\ DOMAIN c = Nat
  BY DEF SZJudged, Channel
<1>c. SZStamps(c, F) /\ SZPairs(c, F) /\ SZChecks(c, F)
  BY DEF SZJudged
<1>2. ASSUME NEW c2, NEW F2, NEW from, NEW to, Moves("ellenorzo_tag", from, to), Unset({"j", "itelet", "jok"}),
             UNCHANGED <<pending, ready, reaped>>, SZDomains,
             pipe'["pecsetelo_ki"] = pipe["pecsetelo_ki"], pipe'["io_pipes_out"] = pipe["io_pipes_out"],
             from \in Judges, to \in Judges, DOMAIN c2 = Nat, DOMAIN F2 = Nat,
             Channel(pipe'["ellenorzo_ki"], F2, SZRead2, SZWritten2'),
             \A k \in 1..SZWritten2 : F2[k] = F[k],
             \A k \in 0..SZ!Voters : 2 * k <= SZWritten2 => c2[k] = c[k],
             SZFixed /\ SZ!Voters' = SZ!Voters => SZPairs(c2, F2)' /\ SZChecks(c2, F2)'
      PROVE  SZState(c2, F2, G)'
  <2>1. Unset(CheckerVars)
    BY <1>2 DEF Unset, CheckerVars
  <2>2. /\ SZVoted(G)' /\ SZTallied(G)' /\ SZStamps(c, F)' /\ SZRead2' = SZRead2 /\ SZFixed
        /\ SZ!Voters' = SZ!Voters /\ SZIds' = SZIds /\ SZWritten1' = SZWritten1 /\ SZSeen' = SZSeen
        /\ SZCounted' = SZCounted
        /\ pc'["main"] = pc["main"] /\ pc'["pecsetelo_tag"] = pc["pecsetelo_tag"]
        /\ \A y \in MainVars \cup StamperVars : mem'[y] = mem[y]
        /\ {from, to} \subseteq (Collects \cup Judges) \ {"off", "start"} /\ UNCHANGED pending => SZControl'
    BY <1>2, <2>1, SZByChecker, Zenon
  <2>3. SZControl'
    BY <1>2, <2>2 DEF Judges
  <2>4. pc["ellenorzo_tag"] = from /\ pc'["ellenorzo_tag"] = to
    BY <1>2 DEF Moves
  <2>5. SZCollected'
    <3>1. /\ mem'["kapott"] = mem["kapott"] /\ mem'["szavazoszam"] = mem["szavazoszam"]
          /\ mem'["szavazo_idje"] = mem["szavazo_idje"] /\ mem'["i"] = mem["i"]
      BY <1>2, SZLocalsAre DEF Unset, CheckerVars, MainVars
    <3>2. SZRead1' = SZRead1
      BY <1>2, <2>4, <3>1 DEF SZRead1, Judges
    <3>3. /\ mem["i"] \in 0..SZ!Voters /\ (pc["main"] \in Before => mem["i"] = 0)
          /\ (pc["main"] = "ids++" => mem["i"] < SZ!Voters)
      BY DEF SZCollected
    <3> QED BY <1>2, <2>2, <2>4, <3>1, <3>2, <3>3, SZCollectedKept
  <2>6. SZStamps(c2, F2)'
    BY <1>2, <1>a, <1>b, <1>c, <2>2, SZStampsGrown
  <2>7. Channel(pipe["ellenorzo_ki"], F2, SZRead2, SZWritten2)'
    BY <1>2, <2>2, SZConstant
  <2>8. SZJudged(c2, F2)'
    BY <1>2, <2>2, <2>6, <2>7 DEF SZJudged
  <2> QED BY <2>2, <2>3, <2>5, <2>8
\* Steps that write nothing
<1>3. ASSUME NEW from, NEW to, NEW x \in {"j", "itelet", "jok"}, NEW v,
             SZ!Assign("ellenorzo_tag", from, to, x, v), from \in Judges, to \in Judges,
             SZFixed /\ SZ!Voters' = SZ!Voters /\ Sets(x, v) /\ Moves("ellenorzo_tag", from, to) =>
               SZWritten2' = SZWritten2 /\ SZChecks(c, F)'
      PROVE  SZState(c, F, G)'
  <2>1. /\ Moves("ellenorzo_tag", from, to) /\ Sets(x, v) /\ UNCHANGED <<pending, ready, reaped, pipe>>
    BY <1>0, <1>3, <1>a, SZEffects
  <2>2. Unset({"j", "itelet", "jok"}) /\ SZDomains /\ SZFixed
    BY <1>3, <1>a, <2>1, SZLocalsAre DEF Unset, Sets, SZDomains, SZFixed
  <2>3. SZ!Voters' = SZ!Voters
    BY <2>2 DEF SZFixed, SZ!Voters
  <2>4. SZWritten2' = SZWritten2 /\ SZChecks(c, F)'
    BY <1>3, <2>1, <2>2, <2>3
  <2>5. SZPairs(c, F)'
    BY <1>c, <2>2, <2>4, SZPairsKept
  <2>6. Channel(pipe'["ellenorzo_ki"], F, SZRead2, SZWritten2')
    BY <1>b, <2>1, <2>4
  <2> QED BY <1>2, <1>3, <1>b, <2>1, <2>2, <2>4, <2>5, <2>6
\* Steps that write an item, after which c2 counts the judgements
<1>4. ASSUME NEW from, NEW to, NEW v, SZ!Write("ellenorzo_tag", from, to, "ellenorzo_ki", v),
             from \in Judges, to \in Judges, NEW c2, DOMAIN c2 = Nat,
             \A k \in 0..SZ!Voters : 2 * k <= SZWritten2 => c2[k] = c[k],
             SZWritten2 < 2 * SZ!Voters + 1,
             SZFixed /\ SZ!Voters' = SZ!Voters /\ Moves("ellenorzo_tag", from, to) /\ mem' = mem =>
               /\ SZWritten2' = SZWritten2 + 1
               /\ \A F2 : F2[SZWritten2 + 1] = v /\ (\A k \in 1..SZWritten2 : F2[k] = F[k]) => SZChecks(c2, F2)',
             \A k \in 1..SZ!Voters : 2 * k - 1 = SZWritten2 + 1 => v = SZ!int(mem["idk"][k]),
             \A k \in 1..SZ!Voters : 2 * k = SZWritten2 + 1 =>
               /\ \/ v = SZ!char("h") /\ c2[k] = c[k - 1]
                  \/ v = SZ!char("j") /\ c2[k] = c[k - 1] + 1
               /\ c2[k] \in 0..k,
             SZWritten2 + 1 = 2 * SZ!Voters + 1 => v = SZ!int(-1)
      PROVE  \E F2 : SZState(c2, F2, G)'
  <2>1. /\ Moves("ellenorzo_tag", from, to) /\ UNCHANGED <<pending, ready, reaped, mem>>
        /\ Puts("ellenorzo_ki", Append(pipe["ellenorzo_ki"], v)) /\ Len(pipe["ellenorzo_ki"]) < PipeCapacity
    BY <1>0, <1>4, <1>a, SZEffects
  <2>2. Unset({"j", "itelet", "jok"}) /\ SZFixed /\ SZ!Voters' = SZ!Voters
    BY <1>a, <2>1 DEF Unset, SZFixed, SZ!Voters
  <2>3. /\ SZDomains /\ pipe'["pecsetelo_ki"] = pipe["pecsetelo_ki"]
        /\ pipe'["io_pipes_out"] = pipe["io_pipes_out"]
        /\ pipe'["ellenorzo_ki"] = Append(pipe["ellenorzo_ki"], v)
    BY <1>a, <2>1 DEF Puts, SZDomains, SZ!Pipes
  <2>4. PICK s \in Nat : s = SZWritten2
    BY <1>b
  <2>5. SZWritten2' = s + 1
    BY <1>4, <2>1, <2>2, <2>4
  <2>6. PICK F2 : F2 = [F EXCEPT ![s + 1] = v]
    OBVIOUS
  <2>7. DOMAIN F2 = Nat /\ F2[s + 1] = v /\ \A k \in 1..s : F2[k] = F[k]
    <3>1. s + 1 \in Nat /\ s + 1 \notin 1..s /\ 1..s \subseteq Nat
      OBVIOUS
    <3> QED BY <1>b, <2>6, <3>1
  <2>8. Channel(pipe["ellenorzo_ki"], F2, SZRead2, s)
    BY <1>b, <2>4, <2>7, ChannelSame
  <2>9. Channel(pipe'["ellenorzo_ki"], F2, SZRead2, SZWritten2')
    BY <2>1, <2>3, <2>5, <2>7, <2>8, ChannelWritten
  <2>10. SZPairs(c2, F2)'
    <3>1. c2[0] = 0
      BY <1>1, <1>4, <1>c, <2>4 DEF SZPairs
    <3>2. ASSUME NEW k \in 1..SZ!Voters, 2 * k - 1 <= s + 1 PROVE F2[2 * k - 1] = SZ!int(mem["idk"][k])
      <4>1. CASE 2 * k - 1 = s + 1
        BY <1>4, <2>4, <2>7, <3>2, <4>1
      <4>2. CASE 2 * k - 1 <= s
        BY <1>1, <1>c, <2>4, <2>7, <3>2, <4>2 DEF SZPairs
      <4> QED BY <1>1, <3>2, <4>1, <4>2
    <3>3. ASSUME NEW k \in 1..SZ!Voters, 2 * k <= s + 1
          PROVE  /\ \/ F2[2 * k] = SZ!char("h") /\ c2[k] = c2[k - 1]
                    \/ F2[2 * k] = SZ!char("j") /\ c2[k] = c2[k - 1] + 1
                 /\ c2[k] \in 0..k
      <4>1. k - 1 \in 0..SZ!Voters /\ 2 * (k - 1) <= s
        BY <1>1, <3>3
      <4>2. c2[k - 1] = c[k - 1]
        BY <1>4, <2>4, <4>1
      <4>3. CASE 2 * k = s + 1
        BY <1>4, <2>4, <2>7, <3>3, <4>2, <4>3
      <4>4. CASE 2 * k <= s
        <5>1. k \in 0..SZ!Voters /\ 2 * k \in 1..s
          BY <1>1, <3>3, <4>4
        <5>2. c2[k] = c[k] /\ F2[2 * k] = F[2 * k]
          BY <1>4, <2>4, <2>7, <5>1
        <5> QED BY <1>c, <2>4, <3>3, <4>2, <4>4, <5>2 DEF SZPairs
      <4> QED BY <1>1, <3>3, <4>3, <4>4
    <3>4. s + 1 = 2 * SZ!Voters + 1 => F2[2 * SZ!Voters + 1] = SZ!int(-1)
      BY <1>4, <2>4, <2>7
    <3>5. SZ!Voters' = SZ!Voters /\ mem' = mem /\ SZWritten2' = s + 1
      BY <2>1, <2>2, <2>5
    <3> QED BY <3>1, <3>2, <3>3, <3>4, <3>5 DEF SZPairs, SZ!int, SZ!char
  <2>11. SZChecks(c2, F2)'
    BY <1>4, <2>1, <2>2, <2>4, <2>7
  <2> QED BY <1>2, <1>4, <2>1, <2>2, <2>3, <2>4, <2>7, <2>9, <2>10, <2>11
<1>5. CASE /\ mem["j"] < mem["szavazoszam"].val
           /\ SZ!Write("ellenorzo_tag", "write", "judge", "ellenorzo_ki", SZ!int(mem["kapott"][mem["j"] + 1]))
  <2>1. pc["ellenorzo_tag"] = "write"
    BY <1>5 DEF SZ!Write, SZ!Step
  <2>2. /\ mem["szavazoszam"].val = mem["szavazok"] /\ Len(mem["kapott"]) = SZ!Voters
        /\ \A k \in 1..Len(mem["kapott"]) : mem["kapott"][k] = mem["idk"][k]
    BY <2>1 DEF SZCollected, Judges
  <2>3. PICK j \in Nat : j = mem["j"] /\ j < SZ!Voters
    BY <1>1, <1>5, <2>2
  <2>4. SZWritten2 = 2 * j /\ 2 * j < 2 * SZ!Voters + 1
    BY <1>1, <2>1, <2>3 DEF SZWritten2, Collects
  <2>5. mem["kapott"][mem["j"] + 1] = mem["idk"][j + 1]
    BY <1>1, <2>2, <2>3
  <2>6. ASSUME SZ!Voters' = SZ!Voters, Moves("ellenorzo_tag", "write", "judge"), mem' = mem
        PROVE  /\ SZWritten2' = SZWritten2 + 1
               /\ \A F2 : SZChecks(c, F2)'
    <3>1. pc'["ellenorzo_tag"] = "judge"
      BY <2>6 DEF Moves
    <3> QED BY <1>c, <2>1, <2>3, <2>4, <2>6, <3>1 DEF SZWritten2, Collects, SZChecks
  <2>7. /\ \A k \in 1..SZ!Voters : 2 * k - 1 = 2 * j + 1 => k = j + 1
        /\ \A k \in 1..SZ!Voters : ~(2 * k = 2 * j + 1)
        /\ 2 * j + 1 # 2 * SZ!Voters + 1
    BY <1>1, <2>3
  <2> QED BY <1>4, <1>5, <1>b, <2>4, <2>5, <2>6, <2>7 DEF Judges
<1>6. CASE \E v \in {"h", "j"} : SZ!Assign("ellenorzo_tag", "judge", "write_j", "itelet", v)
  <2>1. PICK v \in {"h", "j"} : SZ!Assign("ellenorzo_tag", "judge", "write_j", "itelet", v)
    BY <1>6
  <2>2. ASSUME SZ!Voters' = SZ!Voters, Sets("itelet", v), Moves("ellenorzo_tag", "judge", "write_j")
        PROVE  SZWritten2' = SZWritten2 /\ SZChecks(c, F)'
    <3>1. pc["ellenorzo_tag"] = "judge" /\ pc'["ellenorzo_tag"] = "write_j"
      BY <2>2 DEF Moves
    <3>2. mem'["itelet"] = v /\ mem'["j"] = mem["j"] /\ mem'["jok"] = mem["jok"]
      BY <1>0, <2>2 DEF Sets
    <3> QED BY <1>c, <2>1, <2>2, <3>1, <3>2 DEF SZWritten2, SZChecks, Collects
  <2> QED BY <1>3, <2>1, <2>2 DEF Judges
<1>7. CASE SZ!Write("ellenorzo_tag", "write_j", "count_j", "ellenorzo_ki", SZ!char(mem["itelet"]))
  <2>1. pc["ellenorzo_tag"] = "write_j"
    BY <1>7 DEF SZ!Write, SZ!Step
  <2>2. PICK j \in Nat : j = mem["j"] /\ j < SZ!Voters
    BY <1>1, <1>c, <2>1 DEF SZChecks
  <2>3. SZWritten2 = 2 * j + 1 /\ 2 * j + 1 < 2 * SZ!Voters + 1
    BY <1>1, <2>1, <2>2 DEF SZWritten2, Collects
  <2>4. PICK c2 : c2 = [c EXCEPT ![j + 1] = c[j] + (IF mem["itelet"] = "j" THEN 1 ELSE 0)]
    OBVIOUS
  <2>5. /\ DOMAIN c2 = Nat /\ c2[j + 1] = c[j] + (IF mem["itelet"] = "j" THEN 1 ELSE 0)
        /\ \A k \in Nat : k # j + 1 => c2[k] = c[k]
    BY <1>b, <2>4
  <2>6. \A k \in 0..SZ!Voters : 2 * k <= 2 * j + 1 => c2[k] = c[k]
    <3>1. \A k \in 0..SZ!Voters : 2 * k <= 2 * j + 1 => k \in Nat /\ k # j + 1
      BY <1>1
    <3> QED BY <2>5, <3>1
  <2>7. c[j] \in 0..j
    <3>1. CASE j = 0
      BY <1>c, <3>1 DEF SZPairs
    <3>2. CASE j # 0
      <4>1. j \in 1..SZ!Voters /\ 2 * j <= SZWritten2
        BY <1>1, <2>2, <2>3, <3>2
      <4> QED BY <1>c, <4>1 DEF SZPairs
    <3> QED BY <3>1, <3>2
  <2>8. mem["itelet"] \in {"h", "j"} /\ mem["jok"] = c[j]
    BY <1>c, <2>1, <2>2 DEF SZChecks
  <2>9. ASSUME SZ!Voters' = SZ!Voters, Moves("ellenorzo_tag", "write_j", "count_j"), mem' = mem
        PROVE  /\ SZWritten2' = SZWritten2 + 1
               /\ \A F2 : F2[SZWritten2 + 1] = SZ!char(mem["itelet"]) => SZChecks(c2, F2)'
    <3>1. pc'["ellenorzo_tag"] = "count_j"
      BY <2>9 DEF Moves
    <3>2. c2[j] = c[j]
      BY <2>5
    <3>3. SZWritten2 + 1 = 2 * j + 2 /\ SZWritten2' = 2 * j + 2
      BY <2>2, <2>3, <2>9, <3>1 DEF SZWritten2, Collects
    <3> QED BY <1>c, <2>1, <2>2, <2>8, <2>9, <3>1, <3>2, <3>3 DEF Collects, SZChecks, SZ!char
  <2>10. /\ \A k \in 1..SZ!Voters : ~(2 * k - 1 = 2 * j + 1 + 1)
         /\ \A k \in 1..SZ!Voters : 2 * k = 2 * j + 1 + 1 => k = j + 1 /\ k - 1 = j
         /\ 2 * j + 1 + 1 # 2 * SZ!Voters + 1
    BY <1>1
  <2>11. /\ \/ SZ!char(mem["itelet"]) = SZ!char("h") /\ c2[j + 1] = c[j]
            \/ SZ!char(mem["itelet"]) = SZ!char("j") /\ c2[j + 1] = c[j] + 1
         /\ c2[j + 1] \in 0..(j + 1)
    BY <2>5, <2>7, <2>8
  <2>12. \A k \in 1..SZ!Voters : 2 * k = SZWritten2 + 1 =>
           /\ \/ SZ!char(mem["itelet"]) = SZ!char("h") /\ c2[k] = c[k - 1]
              \/ SZ!char(mem["itelet"]) = SZ!char("j") /\ c2[k] = c[k - 1] + 1
           /\ c2[k] \in 0..k
    BY <2>3, <2>10, <2>11
  <2> QED BY <1>4, <1>7, <2>3, <2>5, <2>6, <2>9, <2>10, <2>12 DEF Judges
<1>8. CASE SZ!Assign("ellenorzo_tag", "count_j", "j++", "jok",
            mem["jok"] + (IF mem["itelet"] = "j" THEN 1 ELSE 0))
  <2>1. PICK v : v = mem["jok"] + (IF mem["itelet"] = "j" THEN 1 ELSE 0)
    OBVIOUS
  <2>2. SZ!Assign("ellenorzo_tag", "count_j", "j++", "jok", v)
    BY <1>8, <2>1
  <2>3. ASSUME SZ!Voters' = SZ!Voters, Sets("jok", v), Moves("ellenorzo_tag", "count_j", "j++")
        PROVE  SZWritten2' = SZWritten2 /\ SZChecks(c, F)'
    <3>1. pc["ellenorzo_tag"] = "count_j" /\ pc'["ellenorzo_tag"] = "j++"
      BY <2>3 DEF Moves
    <3>2. mem'["itelet"] = mem["itelet"] /\ mem'["j"] = mem["j"] /\ mem'["jok"] = v
      BY <1>0, <2>3 DEF Sets
    <3>3. PICK j \in Nat : j = mem["j"] /\ j < SZ!Voters
      BY <1>1, <1>c, <3>1 DEF SZChecks
    <3>4. /\ F[2 * j + 2] = SZ!char(mem["itelet"]) /\ mem["jok"] = c[j] /\ SZWritten2 = 2 * j + 2
      BY <1>c, <3>1, <3>3 DEF SZChecks, SZWritten2, Collects
    <3>5. j + 1 \in 1..SZ!Voters /\ 2 * (j + 1) = 2 * j + 2 /\ j + 1 - 1 = j
      BY <1>1, <3>3
    <3>6. \/ F[2 * j + 2] = SZ!char("h") /\ c[j + 1] = c[j]
          \/ F[2 * j + 2] = SZ!char("j") /\ c[j + 1] = c[j] + 1
      BY <1>c, <3>4, <3>5 DEF SZPairs
    <3>7. v = c[j + 1]
      <4>1. SZ!char("h") # SZ!char("j") /\ (SZ!char(mem["itelet"]) = SZ!char("j") => mem["itelet"] = "j")
            /\ (SZ!char(mem["itelet"]) = SZ!char("h") => mem["itelet"] = "h")
        BY DEF SZ!char
      <4>2. c[j] \in Int
        <5>1. CASE j = 0
          BY <1>c, <5>1 DEF SZPairs
        <5>2. CASE j # 0
          <6>1. j \in 1..SZ!Voters /\ 2 * j <= SZWritten2
            BY <1>1, <3>3, <3>4, <5>2
          <6> QED BY <1>c, <6>1 DEF SZPairs
        <5> QED BY <5>1, <5>2
      <4> QED BY <2>1, <3>4, <3>6, <4>1, <4>2
    <3>8. SZWritten2' = SZWritten2
      BY <3>1, <3>2 DEF SZWritten2, Collects
    <3> QED BY <1>c, <2>3, <3>1, <3>2, <3>3, <3>7, <3>8 DEF SZChecks, Collects
  <2> QED BY <1>3, <2>2, <2>3 DEF Judges
<1>9. CASE SZ!Assign("ellenorzo_tag", "j++", "write", "j", mem["j"] + 1)
  <2>1. PICK j \in Nat : j = mem["j"]
    BY <1>1
  <2>2. SZ!Assign("ellenorzo_tag", "j++", "write", "j", j + 1)
    BY <1>9, <2>1
  <2>3. ASSUME SZ!Voters' = SZ!Voters, Sets("j", j + 1), Moves("ellenorzo_tag", "j++", "write")
        PROVE  SZWritten2' = SZWritten2 /\ SZChecks(c, F)'
    <3>1. pc["ellenorzo_tag"] = "j++" /\ pc'["ellenorzo_tag"] = "write"
      BY <2>3 DEF Moves
    <3>2. mem'["itelet"] = mem["itelet"] /\ mem'["j"] = j + 1 /\ mem'["jok"] = mem["jok"]
      BY <1>0, <2>3 DEF Sets
    <3>3. j < SZ!Voters /\ mem["jok"] = c[j + 1]
      BY <1>c, <2>1, <3>1 DEF SZChecks
    <3>4. SZWritten2' = SZWritten2
      BY <2>1, <3>1, <3>2 DEF SZWritten2, Collects
    <3>5. j + 1 \in 0..SZ!Voters
      BY <1>1, <3>3
    <3> QED BY <1>c, <2>3, <3>1, <3>2, <3>3, <3>4, <3>5 DEF SZChecks, Collects
  <2> QED BY <1>3, <2>2, <2>3 DEF Judges
<1>10. CASE /\ mem["j"] >= mem["szavazoszam"].val
            /\ SZ!Write("ellenorzo_tag", "write", "exited", "ellenorzo_ki", SZ!int(-1))
  <2>1. pc["ellenorzo_tag"] = "write"
    BY <1>10 DEF SZ!Write, SZ!Step
  <2>2. mem["szavazoszam"].val = mem["szavazok"]
    BY <2>1 DEF SZCollected
  <2>3. mem["j"] = SZ!Voters
    BY <1>1, <1>10, <2>2
  <2>4. SZWritten2 = 2 * SZ!Voters
    BY <2>1, <2>3 DEF SZWritten2, Collects
  <2>5. ASSUME SZ!Voters' = SZ!Voters, Moves("ellenorzo_tag", "write", "exited"), mem' = mem
        PROVE  /\ SZWritten2' = SZWritten2 + 1
               /\ \A F2 : SZChecks(c, F2)'
    <3>1. pc'["ellenorzo_tag"] = "exited"
      BY <2>5 DEF Moves
    <3> QED BY <1>c, <2>1, <2>3, <2>4, <2>5, <3>1 DEF SZWritten2, Collects, SZChecks
  <2>6. /\ \A k \in 1..SZ!Voters : ~(2 * k - 1 = 2 * SZ!Voters + 1)
        /\ \A k \in 1..SZ!Voters : ~(2 * k = 2 * SZ!Voters + 1)
        /\ 2 * SZ!Voters < 2 * SZ!Voters + 1
    BY <1>1
  <2> QED BY <1>4, <1>10, <1>b, <2>4, <2>5, <2>6 DEF Judges
<1> QED BY <1>5, <1>6, <1>7, <1>8, <1>9, <1>10 DEF SZ!ellenorzoWrites

\* Steps at which the stamper reads and counts
LEMMA SZCounts ==
  ASSUME NEW c, NEW F, NEW G, SZState(c, F, G), SZ!pecseteloReads
  PROVE  SZState(c, F, G)'
<1> USE DEF SZState
<1>0. /\ "pecsetelo_tag" \in SZ!Processes /\ "ellenorzo_ki" \in SZ!Pipes /\ StamperVars \subseteq SZLocals
      /\ "fogadott" \in StamperVars /\ "puffer" \in StamperVars /\ "latott" \in StamperVars
      /\ "szavazhat" \in StamperVars /\ "nem_szavazhat" \in StamperVars /\ "kor" \in StamperVars
  BY SZLocalsAre DEF SZ!Processes, SZ!Children, SZ!Pipes, StamperVars
<1>a. SZControl /\ DOMAIN pipe = SZ!Pipes /\ DOMAIN mem = SZLocals
  BY DEF SZControl
<1>b. /\ Channel(pipe["ellenorzo_ki"], F, SZRead2, SZWritten2) /\ SZWritten2 \in Nat /\ SZRead2 \in Nat
      /\ SZRead2 <= SZWritten2
  BY DEF SZJudged, Channel
<1>c. SZStamps(c, F) /\ SZPairs(c, F) /\ SZChecks(c, F)
  BY DEF SZJudged
<1>1. SZ!Voters \in Nat /\ SZSeen \in Nat /\ SZSeen <= SZ!Voters
  BY <1>c, SZVotersNat, LenProperties DEF SZStamps, SZSeen
<1>d. SZWritten2 <= 2 * SZ!Voters + 1
  <2>1. /\ mem["j"] \in 0..SZ!Voters
        /\ pc["ellenorzo_tag"] \in {"judge", "write_j", "count_j", "j++"} => mem["j"] < SZ!Voters
    BY <1>c DEF SZChecks
  <2> QED BY <1>1, <2>1 DEF SZWritten2
<1>2. ASSUME NEW from, NEW to, Moves("pecsetelo_tag", from, to), Unset(StamperVars \ {"kor"}),
             UNCHANGED <<ready, reaped>>, SZDomains,
             pipe'["io_pipes_out"] = pipe["io_pipes_out"], pipe'["pecsetelo_ki"] = pipe["pecsetelo_ki"],
             from \in Counting, to \in Counting \cup {"write_szavazhat"}, from # "off", to \notin {"off", "start"},
             SZControl' \/ (UNCHANGED pending /\ from # "start"),
             Channel(pipe'["ellenorzo_ki"], F, SZRead2', SZWritten2),
             SZFixed /\ SZ!Voters' = SZ!Voters => SZStamps(c, F)'
      PROVE  SZState(c, F, G)'
  <2>1. Unset(StamperVars) /\ mem'["kor"] = mem["kor"]
    BY <1>0, <1>2 DEF Unset
  <2>2. /\ SZCollected' /\ SZTallied(G)' /\ SZChecks(c, F)' /\ SZFixed
        /\ SZ!Voters' = SZ!Voters /\ SZWritten2' = SZWritten2 /\ SZRead3' = SZRead3
        /\ {from, to} \subseteq (Counting \cup Reports) \ {"off", "start"} /\ UNCHANGED pending => SZControl'
    BY <1>2, <2>1, SZByStamper
  <2>3. SZControl'
    BY <1>2, <2>2 DEF Reports
  <2>4. pc["pecsetelo_tag"] = from /\ pc'["pecsetelo_tag"] = to
    BY <1>2 DEF Moves
  <2>5. SZWritten3' = SZWritten3
    BY <1>2, <2>4 DEF SZWritten3, Counting
  <2>6. SZVoted(G)'
    BY <1>2, <2>1, <2>2, <2>4, <2>5, SZVotedKept
  <2>7. Channel(pipe["ellenorzo_ki"], F, SZRead2, SZWritten2)'
    BY <1>2, <2>2, SZConstant
  <2>8. SZPairs(c, F)'
    BY <1>c, <2>2, SZPairsKept
  <2>9. SZJudged(c, F)'
    BY <1>2, <2>2, <2>7, <2>8 DEF SZJudged
  <2> QED BY <2>2, <2>3, <2>6, <2>9
\* A read of the next item, into x
<1>3. ASSUME NEW from, NEW to, NEW x \in {"fogadott", "puffer"},
             SZ!Read("pecsetelo_tag", from, to, "ellenorzo_ki", x),
             from \in {"read_id", "read_puffer"}, to \in {"look", "count"},
             mem'["latott"] = mem["latott"] => SZRead2' = SZRead2 + 1
      PROVE  /\ mem'[x] = F[SZRead2 + 1] /\ SZRead2 + 1 \in 1..SZWritten2
             /\ \A y \in SZLocals \ {x} : mem'[y] = mem[y]
             /\ pc["pecsetelo_tag"] = from /\ pc'["pecsetelo_tag"] = to
             /\ (SZFixed /\ SZ!Voters' = SZ!Voters => SZStamps(c, F)') => SZState(c, F, G)'
  <2>1. x \in SZLocals
    BY <1>0, <1>3
  <2>2. /\ Moves("pecsetelo_tag", from, to) /\ Sets(x, Head(pipe["ellenorzo_ki"]))
        /\ Puts("ellenorzo_ki", Tail(pipe["ellenorzo_ki"]))
        /\ pipe["ellenorzo_ki"] # <<>> /\ UNCHANGED <<pending, ready, reaped>>
    BY <1>0, <1>3, <1>a, <2>1, SZEffects, Zenon
  <2>3. /\ Channel(Tail(pipe["ellenorzo_ki"]), F, SZRead2 + 1, SZWritten2)
        /\ Head(pipe["ellenorzo_ki"]) = F[SZRead2 + 1] /\ SZRead2 + 1 \in 1..SZWritten2
    BY <1>b, <2>2, ChannelRead, Zenon
  <2>4. mem'["latott"] = mem["latott"]
    BY <1>0, <1>3, <2>2 DEF Sets
  <2>5. /\ Unset(StamperVars \ {"kor"}) /\ SZDomains
        /\ pipe'["io_pipes_out"] = pipe["io_pipes_out"] /\ pipe'["pecsetelo_ki"] = pipe["pecsetelo_ki"]
        /\ pipe'["ellenorzo_ki"] = Tail(pipe["ellenorzo_ki"])
    BY <1>0, <1>3, <2>2 DEF Sets, Puts, Unset, SZDomains, SZ!Pipes
  <2>6. Channel(pipe'["ellenorzo_ki"], F, SZRead2', SZWritten2)
    BY <1>3, <2>3, <2>4, <2>5
  <2>7. (SZFixed /\ SZ!Voters' = SZ!Voters => SZStamps(c, F)') => SZState(c, F, G)'
    BY <1>2, <1>3, <2>2, <2>5, <2>6 DEF Counting
  <2> QED BY <2>2, <2>3, <2>7 DEF Sets, Moves
\* Steps that read nothing
<1>4. ASSUME NEW from, NEW to, Moves("pecsetelo_tag", from, to), pipe' = pipe, DOMAIN mem' = SZLocals,
             UNCHANGED <<ready, reaped>>, Unset(StamperVars \ {"kor"}),
             from \in Counting, to \in Counting \cup {"write_szavazhat"}, from # "off", to \notin {"off", "start"},
             SZControl' \/ (UNCHANGED pending /\ from # "start"), SZRead2' = SZRead2,
             SZFixed /\ SZ!Voters' = SZ!Voters => SZStamps(c, F)'
      PROVE  SZState(c, F, G)'
  <2>1. SZDomains /\ Channel(pipe'["ellenorzo_ki"], F, SZRead2', SZWritten2)
    BY <1>4, <1>a, <1>b DEF SZDomains
  <2> QED BY <1>2, <1>4, <2>1
<1>5. CASE SZ!Kill("pecsetelo_tag", "start", "read_id")
  <2>1. /\ Moves("pecsetelo_tag", "start", "read_id") /\ UNCHANGED <<ready, reaped, pipe, mem>>
        /\ pending' = SZ!Alive("main")
    BY <1>0, <1>5, <1>a, SZEffects DEF SZ!Kill
  <2>2. /\ pc["pecsetelo_tag"] = "start" /\ pc'["pecsetelo_tag"] = "read_id" /\ pc'["main"] = pc["main"]
        /\ pc'["ellenorzo_tag"] = pc["ellenorzo_tag"] /\ DOMAIN pc' = SZ!Processes
    BY <2>1 DEF Moves, SZ!Processes, SZ!Children
  <2>3. SZFixed /\ SZDomains /\ Unset(StamperVars \ {"kor"})
    BY <1>a, <2>1 DEF SZFixed, SZDomains, Unset
  <2>4. SZ!Voters' = SZ!Voters
    BY <2>3 DEF SZFixed, SZ!Voters
  <2>5. SZControl'
    <3>1. SZSignals' = SZSignals + 1
      BY <2>2 DEF SZSignals
    <3>2. SZSignals \in Nat /\ pending' \in BOOLEAN
      BY <2>1 DEF SZSignals, SZ!Alive
    <3>3. ready' \in Nat /\ ready' + (IF pending' THEN 1 ELSE 0) <= SZSignals'
      BY <2>1, <3>1, <3>2 DEF SZControl
    <3> QED BY <2>1, <2>2, <2>3, <2>4, <3>2, <3>3 DEF SZControl, SZDomains, Counting
  <2>6. SZStamps(c, F)' /\ SZRead2' = SZRead2
    BY <1>c, <2>1, <2>2, <2>3, SZStampsKept
  <2> QED BY <1>4, <1>a, <2>1, <2>3, <2>5, <2>6 DEF Counting
<1>6. CASE SZ!Read("pecsetelo_tag", "read_id", "look", "ellenorzo_ki", "fogadott")
  <2>1. pc["pecsetelo_tag"] = "read_id" /\ pc'["pecsetelo_tag"] = "look"
    BY <1>0, <1>6, <1>a, SZEffects DEF Moves
  <2>2. SZRead2 = 2 * SZSeen
    BY <2>1 DEF SZRead2
  <2>3. mem'["latott"] = mem["latott"] => SZRead2' = SZRead2 + 1
    BY <2>1, <2>2 DEF SZRead2, SZSeen
  <2>4. /\ mem'["fogadott"] = F[SZRead2 + 1] /\ \A y \in SZLocals \ {"fogadott"} : mem'[y] = mem[y]
        /\ (SZFixed /\ SZ!Voters' = SZ!Voters => SZStamps(c, F)') => SZState(c, F, G)'
    BY <1>3, <1>6, <2>3
  <2>5. /\ mem'["latott"] = mem["latott"] /\ mem'["szavazhat"] = mem["szavazhat"]
        /\ mem'["nem_szavazhat"] = mem["nem_szavazhat"]
    BY <1>0, <2>4
  <2>6. ASSUME SZFixed, SZ!Voters' = SZ!Voters PROVE SZStamps(c, F)'
    <3>1. SZSeen' = SZSeen /\ SZCounted' = SZCounted
      BY <2>1, <2>5 DEF SZSeen, SZCounted
    <3> QED BY <1>c, <2>1, <2>2, <2>4, <2>5, <2>6, <3>1 DEF SZStamps, SZFixed, Reports
  <2> QED BY <2>4, <2>6
<1>7. CASE mem["fogadott"].val = -1 /\ SZ!Jump("pecsetelo_tag", "look", "write_szavazhat")
  <2>1. Moves("pecsetelo_tag", "look", "write_szavazhat") /\ UNCHANGED <<pending, ready, reaped, pipe, mem>>
    BY <1>0, <1>7, <1>a, SZEffects DEF SZ!Jump
  <2>2. pc["pecsetelo_tag"] = "look" /\ pc'["pecsetelo_tag"] = "write_szavazhat"
    BY <2>1 DEF Moves
  <2>3. Unset(StamperVars \ {"kor"})
    BY <2>1 DEF Unset
  <2>4. SZRead2 = 2 * SZSeen + 1 /\ mem["fogadott"] = F[2 * SZSeen + 1]
    BY <1>c, <2>2 DEF SZRead2, SZStamps
  <2>5. SZSeen = SZ!Voters
    <3> SUFFICES ASSUME SZSeen # SZ!Voters PROVE FALSE
      OBVIOUS
    <3>1. PICK k \in 1..SZ!Voters : k = SZSeen + 1
      BY <1>1
    <3>2. 2 * k - 1 = 2 * SZSeen + 1 /\ 2 * k - 1 <= SZWritten2
      BY <1>1, <1>b, <2>4, <3>1
    <3>3. F[2 * k - 1] = SZ!int(mem["idk"][k])
      BY <1>c, <3>2 DEF SZPairs
    <3>4. mem["idk"][k] = -1
      BY <1>7, <2>4, <3>2, <3>3 DEF SZ!int
    <3>5. mem["idk"][k] \in Nat
      BY NumbersAssumption DEF SZControl
    <3>6. -1 \notin Nat
      OBVIOUS
    <3> QED BY <3>4, <3>5, <3>6
  <2>6. SZSeen' = SZSeen /\ SZRead2' = SZRead2
    BY <2>1, <2>2, <2>4 DEF SZSeen, SZRead2
  <2>7. SZCounted' = SZCounted
    BY <2>2, <2>6 DEF SZCounted
  <2>8. ASSUME SZFixed, SZ!Voters' = SZ!Voters PROVE SZStamps(c, F)'
    BY <1>c, <2>1, <2>2, <2>5, <2>6, <2>7, <2>8 DEF SZStamps
  <2> QED BY <1>4, <1>a, <2>1, <2>3, <2>6, <2>8 DEF Counting
<1>8. CASE /\ mem["fogadott"].val # -1
           /\ SZ!Assign("pecsetelo_tag", "look", "read_puffer", "latott",
                        Append(mem["latott"], mem["fogadott"].val))
  <2>1. PICK q, n, v : q = mem["latott"] /\ n = Len(q) /\ v = mem["fogadott"].val
    OBVIOUS
  <2>2. /\ Moves("pecsetelo_tag", "look", "read_puffer") /\ Sets("latott", Append(q, v))
        /\ UNCHANGED <<pending, ready, reaped, pipe>>
    BY <1>0, <1>8, <1>a, <2>1, SZEffects
  <2>3. pc["pecsetelo_tag"] = "look" /\ pc'["pecsetelo_tag"] = "read_puffer"
    BY <2>2 DEF Moves
  <2>4. /\ Unset(StamperVars \ {"kor"}) /\ DOMAIN mem' = SZLocals /\ mem'["latott"] = Append(q, v)
        /\ mem'["szavazhat"] = mem["szavazhat"] /\ mem'["nem_szavazhat"] = mem["nem_szavazhat"]
    BY <1>0, <2>2 DEF Sets, Unset
  <2>5. /\ SZRead2 = 2 * n + 1 /\ mem["fogadott"] = F[2 * n + 1] /\ q \in Seq(Numbers) /\ SZSeen = n
        /\ n \in Nat /\ n <= SZ!Voters /\ \A k \in 1..n : q[k] = mem["idk"][k]
    BY <1>1, <1>c, <2>1, <2>3 DEF SZRead2, SZStamps, SZSeen
  <2>6. n # SZ!Voters
    <3> SUFFICES ASSUME n = SZ!Voters PROVE FALSE
      OBVIOUS
    <3>1. SZWritten2 = 2 * SZ!Voters + 1
      BY <1>1, <1>b, <1>d, <2>5
    <3> QED BY <1>8, <1>c, <2>5, <3>1 DEF SZPairs, SZ!int
  <2>7. n + 1 \in 1..SZ!Voters /\ 2 * (n + 1) - 1 = 2 * n + 1 /\ 2 * (n + 1) - 1 <= SZWritten2
    BY <1>1, <1>b, <2>5, <2>6
  <2>8. v = mem["idk"][n + 1]
    <3>1. PICK k \in 1..SZ!Voters : k = n + 1 /\ 2 * k - 1 = 2 * n + 1 /\ 2 * k - 1 <= SZWritten2
      BY <2>7
    <3>2. F[2 * k - 1] = SZ!int(mem["idk"][k])
      BY <1>c, <3>1 DEF SZPairs
    <3>3. mem["fogadott"].val = mem["idk"][k]
      BY <2>5, <3>1, <3>2 DEF SZ!int
    <3> QED BY <2>1, <3>1, <3>3
  <2>9. v \in Numbers
    BY <2>7, <2>8 DEF SZControl
  <2>10. /\ Append(q, v) \in Seq(Numbers) /\ Len(Append(q, v)) = n + 1
         /\ \A k \in 1..(n + 1) : Append(q, v)[k] = mem["idk"][k]
    BY <2>1, <2>5, <2>8, <2>9, AppendProperties
  <2>11. SZSeen' = n + 1
    BY <2>4, <2>10 DEF SZSeen
  <2>12. SZCounted' = n /\ SZCounted = n
    BY <2>3, <2>5, <2>11 DEF SZCounted
  <2>13. SZRead2' = SZRead2
    BY <2>3, <2>5, <2>11 DEF SZRead2
  <2>14. ASSUME SZFixed, SZ!Voters' = SZ!Voters PROVE SZStamps(c, F)'
    <3>1. n + 1 <= SZ!Voters /\ n + 1 >= 1
      BY <2>5, <2>7
    <3> QED BY <1>c, <2>3, <2>4, <2>10, <2>11, <2>12, <2>14, <3>1 DEF SZStamps, SZFixed, Reports
  <2> QED BY <1>4, <1>a, <2>2, <2>4, <2>13, <2>14 DEF Counting
<1>9. CASE SZ!Read("pecsetelo_tag", "read_puffer", "count", "ellenorzo_ki", "puffer")
  <2>1. pc["pecsetelo_tag"] = "read_puffer" /\ pc'["pecsetelo_tag"] = "count"
    BY <1>0, <1>9, <1>a, SZEffects DEF Moves
  <2>2. SZRead2 = 2 * SZSeen - 1 /\ SZRead2 + 1 = 2 * SZSeen /\ SZSeen >= 1
    BY <1>1, <1>c, <2>1 DEF SZRead2, SZStamps
  <2>3. mem'["latott"] = mem["latott"] => SZRead2' = SZRead2 + 1
    BY <2>1, <2>2 DEF SZRead2, SZSeen
  <2>4. /\ mem'["puffer"] = F[SZRead2 + 1] /\ \A y \in SZLocals \ {"puffer"} : mem'[y] = mem[y]
        /\ (SZFixed /\ SZ!Voters' = SZ!Voters => SZStamps(c, F)') => SZState(c, F, G)'
    BY <1>3, <1>9, <2>3
  <2>5. /\ mem'["latott"] = mem["latott"] /\ mem'["szavazhat"] = mem["szavazhat"]
        /\ mem'["nem_szavazhat"] = mem["nem_szavazhat"]
    BY <1>0, <2>4
  <2>6. ASSUME SZFixed, SZ!Voters' = SZ!Voters PROVE SZStamps(c, F)'
    <3>1. SZSeen' = SZSeen /\ SZCounted' = SZCounted
      BY <2>1, <2>5 DEF SZSeen, SZCounted
    <3> QED BY <1>c, <2>1, <2>2, <2>4, <2>5, <2>6, <3>1 DEF SZStamps, SZFixed, Reports
  <2> QED BY <2>4, <2>6
\* The judgement that has been read
<1>10. ASSUME pc["pecsetelo_tag"] = "count"
       PROVE  \E m \in Nat : /\ m + 1 = SZSeen /\ SZCounted = m /\ mem["szavazhat"] = c[m]
                             /\ mem["nem_szavazhat"] = m - c[m] /\ c[m] \in Int
                             /\ \/ mem["puffer"] = SZ!char("h") /\ c[m + 1] = c[m]
                                \/ mem["puffer"] = SZ!char("j") /\ c[m + 1] = c[m] + 1
  <2>1. PICK m \in Nat : m + 1 = SZSeen
    <3>1. SZSeen >= 1
      BY <1>10, <1>c DEF SZStamps
    <3>2. SZSeen - 1 \in Nat /\ SZSeen - 1 + 1 = SZSeen
      BY <1>1, <3>1
    <3> QED BY <3>2
  <2>2. SZCounted = m
    BY <1>10, <2>1 DEF SZCounted
  <2>3. mem["puffer"] = F[2 * (m + 1)] /\ mem["szavazhat"] = c[m] /\ mem["nem_szavazhat"] = m - c[m]
    BY <1>10, <1>c, <2>1, <2>2 DEF SZStamps
  <2>4. m + 1 \in 1..SZ!Voters /\ m + 1 - 1 = m /\ 2 * (m + 1) <= SZWritten2
    BY <1>1, <1>10, <1>b, <2>1 DEF SZRead2
  <2>5. \/ F[2 * (m + 1)] = SZ!char("h") /\ c[m + 1] = c[m]
        \/ F[2 * (m + 1)] = SZ!char("j") /\ c[m + 1] = c[m] + 1
    BY <1>c, <2>4 DEF SZPairs
  <2>6. c[m] \in Int
    <3>1. CASE m = 0
      BY <1>c, <3>1 DEF SZPairs
    <3>2. CASE m # 0
      <4>1. m \in 1..SZ!Voters /\ 2 * m <= SZWritten2
        BY <1>1, <1>b, <2>4, <3>2
      <4> QED BY <1>c, <4>1 DEF SZPairs
    <3> QED BY <3>1, <3>2
  <2> QED BY <2>1, <2>2, <2>3, <2>5, <2>6
\* Both ways to count it
<1>11. ASSUME NEW x \in {"szavazhat", "nem_szavazhat"}, mem["puffer"].val = (IF x = "szavazhat" THEN "j" ELSE "h"),
              SZ!Assign("pecsetelo_tag", "count", "read_id", x, mem[x] + 1)
       PROVE  SZState(c, F, G)'
  <2>1. /\ Moves("pecsetelo_tag", "count", "read_id") /\ Sets(x, mem[x] + 1)
        /\ UNCHANGED <<pending, ready, reaped, pipe>>
    BY <1>0, <1>11, <1>a, SZEffects
  <2>2. pc["pecsetelo_tag"] = "count" /\ pc'["pecsetelo_tag"] = "read_id"
    BY <2>1 DEF Moves
  <2>3. /\ Unset(StamperVars \ {"kor"}) /\ DOMAIN mem' = SZLocals /\ mem'["latott"] = mem["latott"]
        /\ mem'[x] = mem[x] + 1 /\ \A y \in {"szavazhat", "nem_szavazhat"} \ {x} : mem'[y] = mem[y]
    BY <1>0, <1>11, <2>1 DEF Sets, Unset
  <2>4. SZSeen' = SZSeen /\ SZRead2' = SZRead2
    BY <2>2, <2>3 DEF SZSeen, SZRead2
  <2>5. SZCounted' = SZSeen
    BY <2>2, <2>4 DEF SZCounted
  <2>6. PICK m \in Nat : /\ m + 1 = SZSeen /\ SZCounted = m /\ mem["szavazhat"] = c[m]
                         /\ mem["nem_szavazhat"] = m - c[m] /\ c[m] \in Int
                         /\ \/ mem["puffer"] = SZ!char("h") /\ c[m + 1] = c[m]
                            \/ mem["puffer"] = SZ!char("j") /\ c[m + 1] = c[m] + 1
    BY <1>10, <2>2
  <2>7. SZ!char("h").val = "h" /\ SZ!char("j").val = "j" /\ "h" # "j"
    BY DEF SZ!char
  <2>8. mem'["szavazhat"] = c[m + 1] /\ mem'["nem_szavazhat"] = m + 1 - c[m + 1]
    <3>1. CASE x = "szavazhat"
      <4>1. c[m + 1] = c[m] + 1
        BY <1>11, <2>6, <2>7, <3>1
      <4>2. mem'["szavazhat"] = mem["szavazhat"] + 1 /\ mem'["nem_szavazhat"] = mem["nem_szavazhat"]
        BY <2>3, <3>1
      <4> QED BY <2>6, <4>1, <4>2
    <3>2. CASE x = "nem_szavazhat"
      <4>1. c[m + 1] = c[m]
        BY <1>11, <2>6, <2>7, <3>2
      <4>2. mem'["szavazhat"] = mem["szavazhat"] /\ mem'["nem_szavazhat"] = mem["nem_szavazhat"] + 1
        BY <2>3, <3>2
      <4> QED BY <2>6, <4>1, <4>2
    <3> QED BY <1>11, <3>1, <3>2
  <2>9. ASSUME SZFixed, SZ!Voters' = SZ!Voters PROVE SZStamps(c, F)'
    <3>1. mem'["szavazhat"] = c[SZCounted'] /\ mem'["nem_szavazhat"] = SZCounted' - c[SZCounted']
      BY <2>5, <2>6, <2>8
    <3>2. /\ mem["latott"] \in Seq(Numbers) /\ SZSeen <= SZ!Voters
          /\ \A k \in 1..SZSeen : mem["latott"][k] = mem["idk"][k]
      BY <1>c DEF SZStamps
    <3> QED BY <2>2, <2>3, <2>4, <2>9, <3>1, <3>2 DEF SZStamps, SZFixed, Reports
  <2> QED BY <1>4, <1>a, <2>1, <2>3, <2>4, <2>9 DEF Counting
<1>12. CASE /\ mem["puffer"].val = "h"
            /\ SZ!Assign("pecsetelo_tag", "count", "read_id", "nem_szavazhat", mem["nem_szavazhat"] + 1)
  BY <1>11, <1>12
<1>13. CASE /\ mem["puffer"].val = "j"
            /\ SZ!Assign("pecsetelo_tag", "count", "read_id", "szavazhat", mem["szavazhat"] + 1)
  BY <1>11, <1>13
<1> QED BY <1>5, <1>6, <1>7, <1>8, <1>9, <1>12, <1>13 DEF SZ!pecseteloReads

\* Steps at which the stamper reports
LEMMA SZReports ==
  ASSUME NEW c, NEW F, NEW G, SZState(c, F, G), SZ!pecseteloWrites
  PROVE  \E G2 : SZState(c, F, G2)'
<1> USE DEF SZState
<1>0. /\ "pecsetelo_tag" \in SZ!Processes /\ "pecsetelo_ki" \in SZ!Pipes /\ StamperVars \subseteq SZLocals
      /\ "kor" \in StamperVars /\ "szavazhat" \in StamperVars /\ "nem_szavazhat" \in StamperVars
  BY SZLocalsAre DEF SZ!Processes, SZ!Children, SZ!Pipes, StamperVars
<1>a. SZControl /\ DOMAIN pipe = SZ!Pipes /\ DOMAIN mem = SZLocals
  BY DEF SZControl
<1>b. /\ Channel(pipe["pecsetelo_ki"], G, SZRead3, SZWritten3) /\ SZWritten3 \in Nat /\ DOMAIN G = Nat
      /\ SZRead3 <= SZWritten3 /\ SZRead3 \in Nat /\ mem["kor"] \in Nat /\ SZVoted(G)
  BY DEF SZVoted, Channel
<1>1. SZ!Voters \in Nat
  BY SZVotersNat
<1>2. ASSUME NEW G2, NEW from, NEW to, Moves("pecsetelo_tag", from, to), Unset({"kor"}),
             UNCHANGED <<pending, ready, reaped>>, SZDomains,
             pipe'["io_pipes_out"] = pipe["io_pipes_out"], pipe'["ellenorzo_ki"] = pipe["ellenorzo_ki"],
             from \in Reports, to \in Reports, DOMAIN G2 = Nat, \A k \in 1..SZWritten3 : G2[k] = G[k],
             Channel(pipe'["pecsetelo_ki"], G2, SZRead3, SZWritten3'),
             SZWritten3' >= 1 => G2[1] = SZ!int(mem["szavazhat"]),
             SZWritten3' >= 2 => G2[2] = SZ!int(mem["nem_szavazhat"]),
             \A k \in 3..SZWritten3' : G2[k] \in Votes,
             mem'["kor"] \in Nat, to \in {"write_szavazhat", "write_nem"} => mem'["kor"] = 0,
             to \in {"vote", "exited"} => mem'["kor"] <= mem["szavazhat"],
             to = "kor++" => mem'["kor"] < mem["szavazhat"]
      PROVE  SZState(c, F, G2)'
  <2>1. Unset(StamperVars)
    BY <1>0, <1>2 DEF Unset
  <2>2. /\ SZCollected' /\ SZTallied(G)' /\ SZChecks(c, F)' /\ SZFixed
        /\ SZ!Voters' = SZ!Voters /\ SZWritten2' = SZWritten2 /\ SZRead3' = SZRead3
        /\ pc'["main"] = pc["main"] /\ \A y \in MainVars \cup CheckerVars : mem'[y] = mem[y]
        /\ {from, to} \subseteq (Counting \cup Reports) \ {"off", "start"} /\ UNCHANGED pending => SZControl'
    BY <1>2, <2>1, SZByStamper DEF Reports
  <2>3. SZControl'
    BY <1>2, <2>2 DEF Reports
  <2>4. pc["pecsetelo_tag"] = from /\ pc'["pecsetelo_tag"] = to
    BY <1>2 DEF Moves
  <2>5. /\ mem'["latott"] = mem["latott"] /\ mem'["fogadott"] = mem["fogadott"]
        /\ mem'["puffer"] = mem["puffer"] /\ mem'["szavazhat"] = mem["szavazhat"]
        /\ mem'["nem_szavazhat"] = mem["nem_szavazhat"]
    BY <1>0, <1>2, SZLocalsAre DEF Unset, StamperVars
  <2>6. SZStamps(c, F)' /\ SZRead2' = SZRead2
    BY <1>2, <2>2, <2>4, <2>5, SZStampsKept DEF SZJudged
  <2>7. SZJudged(c, F)'
    BY <1>2, <2>2, <2>6, SZJudgedKept
  <2>8. Channel(pipe["pecsetelo_ki"], G2, SZRead3, SZWritten3)'
    BY <1>2, <2>2, SZConstant
  <2>9. SZVoted(G2)'
    <3>1. to \notin Counting
      BY <1>2 DEF Reports, Counting
    <3> QED BY <1>2, <2>4, <2>5, <2>8, <3>1 DEF SZVoted, SZ!int, Votes
  <2>10. SZTallied(G2)'
    <3>1. /\ pc["main"] \in Tallies \cup {"read_nem", "fopen"} => SZRead3 >= 1
          /\ pc["main"] \in Tallies \cup {"fopen"} => SZRead3 >= 2
          /\ pc["main"] = "tally" => SZRead3 = 3 + mem["i"]
      <4>1. /\ mem["i"] \in 0..SZ!Voters
            /\ pc["main"] \in {"wait", "done"} => mem["i"] = mem["szavazhat_elnok"].val
        BY DEF SZCollected, SZTallied
      <4> QED BY <1>1, <4>1 DEF SZRead3, Tallies
    <3>2. /\ pc["main"] \in Tallies \cup {"read_nem", "fopen"} => G2[1] = G[1]
          /\ pc["main"] \in Tallies \cup {"fopen"} => G2[2] = G[2]
          /\ pc["main"] = "tally" => G2[3 + mem["i"]] = G[3 + mem["i"]]
      <4>1. \A k \in Nat \ {0} : k <= SZRead3 => G2[k] = G[k]
        BY <1>2, <1>b
      <4>2. mem["i"] \in Nat
        BY <1>1 DEF SZCollected
      <4> QED BY <1>b, <3>1, <4>1, <4>2
    <3>3. mem'["i"] = mem["i"] /\ mem'["szavazhat_elnok"] = mem["szavazhat_elnok"]
          /\ mem'["nem_szavazhat_elnok"] = mem["nem_szavazhat_elnok"] /\ mem'["szavazat"] = mem["szavazat"]
      BY <2>2 DEF MainVars
    <3> QED BY <2>2, <3>2, <3>3 DEF SZTallied
  <2> QED BY <2>2, <2>3, <2>7, <2>9, <2>10
\* Steps that write an item
<1>3. ASSUME NEW from, NEW to, NEW v, SZ!Write("pecsetelo_tag", from, to, "pecsetelo_ki", v),
             from \in {"write_szavazhat", "write_nem", "vote"}, to \in {"write_nem", "vote", "kor++"},
             mem' = mem /\ pc'["pecsetelo_tag"] = to => SZWritten3' = SZWritten3 + 1,
             SZWritten3 + 1 = 1 => v = SZ!int(mem["szavazhat"]),
             SZWritten3 + 1 = 2 => v = SZ!int(mem["nem_szavazhat"]),
             SZWritten3 + 1 >= 3 => v \in Votes,
             to = "write_nem" => mem["kor"] = 0,
             to = "vote" => mem["kor"] <= mem["szavazhat"],
             to = "kor++" => mem["kor"] < mem["szavazhat"]
      PROVE  \E G2 : SZState(c, F, G2)'
  <2>1. /\ Moves("pecsetelo_tag", from, to) /\ UNCHANGED <<pending, ready, reaped, mem>>
        /\ Puts("pecsetelo_ki", Append(pipe["pecsetelo_ki"], v)) /\ Len(pipe["pecsetelo_ki"]) < PipeCapacity
    BY <1>0, <1>3, <1>a, SZEffects
  <2>2. Unset({"kor"}) /\ mem'["kor"] = mem["kor"]
    BY <2>1 DEF Unset
  <2>3. /\ SZDomains /\ pipe'["io_pipes_out"] = pipe["io_pipes_out"]
        /\ pipe'["ellenorzo_ki"] = pipe["ellenorzo_ki"]
        /\ pipe'["pecsetelo_ki"] = Append(pipe["pecsetelo_ki"], v)
    BY <1>a, <2>1 DEF Puts, SZDomains, SZ!Pipes
  <2>4. PICK s \in Nat : s = SZWritten3
    BY <1>b
  <2>5. SZWritten3' = s + 1
    BY <1>3, <2>1, <2>4 DEF Moves
  <2>6. PICK G2 : G2 = [G EXCEPT ![s + 1] = v]
    OBVIOUS
  <2>7. DOMAIN G2 = Nat /\ G2[s + 1] = v /\ \A k \in 1..s : G2[k] = G[k]
    <3>1. s + 1 \in Nat /\ s + 1 \notin 1..s /\ 1..s \subseteq Nat
      OBVIOUS
    <3> QED BY <1>b, <2>6, <3>1
  <2>8. Channel(pipe["pecsetelo_ki"], G2, SZRead3, s)
    BY <1>b, <2>4, <2>7, ChannelSame
  <2>9. Channel(pipe'["pecsetelo_ki"], G2, SZRead3, SZWritten3')
    BY <2>1, <2>3, <2>5, <2>7, <2>8, ChannelWritten
  <2>10. /\ s >= 1 => G[1] = SZ!int(mem["szavazhat"])
         /\ s >= 2 => G[2] = SZ!int(mem["nem_szavazhat"])
         /\ \A k \in 3..s : G[k] \in Votes
    BY <1>b, <2>4 DEF SZVoted
  <2>11. /\ G2[1] = SZ!int(mem["szavazhat"])
         /\ s + 1 >= 2 => G2[2] = SZ!int(mem["nem_szavazhat"])
         /\ \A k \in 3..(s + 1) : G2[k] \in Votes
    <3>1. G2[1] = SZ!int(mem["szavazhat"])
      <4>1. CASE s = 0
        BY <1>3, <2>4, <2>7, <4>1
      <4>2. CASE s # 0
        BY <2>7, <2>10, <4>2
      <4> QED BY <4>1, <4>2
    <3>2. ASSUME s + 1 >= 2 PROVE G2[2] = SZ!int(mem["nem_szavazhat"])
      <4>1. CASE s = 1
        BY <1>3, <2>4, <2>7, <4>1
      <4>2. CASE s # 1
        BY <2>7, <2>10, <3>2, <4>2
      <4> QED BY <4>1, <4>2
    <3>3. ASSUME NEW k \in 3..(s + 1) PROVE G2[k] \in Votes
      <4>1. CASE k = s + 1
        BY <1>3, <2>4, <2>7, <3>3, <4>1
      <4>2. CASE k # s + 1
        BY <2>7, <2>10, <3>3, <4>2
      <4> QED BY <4>1, <4>2
    <3> QED BY <3>1, <3>2, <3>3
  <2>12. SZState(c, F, G2)'
    <3>1. from \in Reports /\ to \in Reports /\ to \notin {"write_szavazhat", "exited"}
      BY <1>3 DEF Reports
    <3>2. \A k \in 1..SZWritten3 : G2[k] = G[k]
      BY <2>4, <2>7
    <3> HIDE DEF SZState
    <3> QED BY <1>2, <1>3, <1>b, <2>1, <2>2, <2>3, <2>5, <2>7, <2>9, <2>11, <3>1, <3>2
  <2> QED BY <2>12
\* Steps that write nothing
<1>4. ASSUME NEW from, NEW to, Moves("pecsetelo_tag", from, to), Unset({"kor"}), DOMAIN mem' = SZLocals,
             UNCHANGED <<pending, ready, reaped, pipe>>, from \in Reports, to \in {"vote", "exited"},
             SZWritten3' = SZWritten3, mem'["kor"] \in Nat, mem'["kor"] <= mem["szavazhat"]
      PROVE  SZState(c, F, G)'
  <2>1. Channel(pipe'["pecsetelo_ki"], G, SZRead3, SZWritten3') /\ SZDomains
    BY <1>4, <1>a, <1>b DEF SZDomains
  <2>2. /\ SZWritten3' >= 1 => G[1] = SZ!int(mem["szavazhat"])
        /\ SZWritten3' >= 2 => G[2] = SZ!int(mem["nem_szavazhat"])
        /\ \A k \in 3..SZWritten3' : G[k] \in Votes
    BY <1>4, <1>b DEF SZVoted
  <2>3. to \in Reports /\ to \notin {"write_szavazhat", "write_nem", "kor++"}
    BY <1>4 DEF Reports
  <2> HIDE DEF SZState
  <2> QED BY <1>2, <1>4, <1>b, <2>1, <2>2, <2>3
<1>5. /\ pc["pecsetelo_tag"] \in Reports => mem["szavazhat"] \in Nat
      /\ pc["pecsetelo_tag"] \in {"write_szavazhat", "write_nem"} => mem["kor"] = 0
      /\ pc["pecsetelo_tag"] \in {"vote", "exited"} => mem["kor"] <= mem["szavazhat"]
      /\ pc["pecsetelo_tag"] = "kor++" => mem["kor"] < mem["szavazhat"]
  <2>1. pc["pecsetelo_tag"] \in Reports => mem["szavazhat"] \in Nat
    BY <1>1, SZReported
  <2> QED BY <1>b, <2>1 DEF SZVoted
<1>6. CASE SZ!Write("pecsetelo_tag", "write_szavazhat", "write_nem", "pecsetelo_ki", SZ!int(mem["szavazhat"]))
  <2>1. pc["pecsetelo_tag"] = "write_szavazhat"
    BY <1>6 DEF SZ!Write, SZ!Step
  <2>2. SZWritten3 = 0
    BY <2>1 DEF SZWritten3
  <2>3. mem' = mem /\ pc'["pecsetelo_tag"] = "write_nem" => SZWritten3' = SZWritten3 + 1
    BY <2>2 DEF SZWritten3
  <2> HIDE DEF SZState
  <2> QED BY <1>3, <1>5, <1>6, <2>1, <2>2, <2>3
<1>7. CASE SZ!Write("pecsetelo_tag", "write_nem", "vote", "pecsetelo_ki", SZ!int(mem["nem_szavazhat"]))
  <2>1. pc["pecsetelo_tag"] = "write_nem"
    BY <1>7 DEF SZ!Write, SZ!Step
  <2>2. SZWritten3 = 1 /\ mem["kor"] = 0 /\ mem["szavazhat"] \in Nat
    BY <1>5, <2>1 DEF SZWritten3, Reports
  <2>3. mem' = mem /\ pc'["pecsetelo_tag"] = "vote" => SZWritten3' = SZWritten3 + 1
    BY <2>2 DEF SZWritten3
  <2> HIDE DEF SZState
  <2> QED BY <1>3, <1>7, <2>2, <2>3
<1>8. CASE /\ mem["kor"] < mem["szavazhat"]
           /\ \E p \in Parties : SZ!Write("pecsetelo_tag", "vote", "kor++", "pecsetelo_ki", SZ!int(p))
  <2>1. PICK p \in Parties : SZ!Write("pecsetelo_tag", "vote", "kor++", "pecsetelo_ki", SZ!int(p))
    BY <1>8
  <2>2. pc["pecsetelo_tag"] = "vote"
    BY <2>1 DEF SZ!Write, SZ!Step
  <2>3. SZWritten3 = 2 + mem["kor"]
    BY <2>2 DEF SZWritten3
  <2>4. mem' = mem /\ pc'["pecsetelo_tag"] = "kor++" => SZWritten3' = SZWritten3 + 1
    BY <1>b, <2>3 DEF SZWritten3
  <2>5. SZ!int(p) \in Votes /\ SZWritten3 + 1 # 1 /\ SZWritten3 + 1 # 2
    BY <1>b, <2>3 DEF Votes
  <2> HIDE DEF SZState
  <2> QED BY <1>3, <1>8, <2>1, <2>4, <2>5
<1>9. CASE SZ!Assign("pecsetelo_tag", "kor++", "vote", "kor", mem["kor"] + 1)
  <2>1. /\ Moves("pecsetelo_tag", "kor++", "vote") /\ Sets("kor", mem["kor"] + 1)
        /\ UNCHANGED <<pending, ready, reaped, pipe>>
    BY <1>0, <1>9, <1>a, SZEffects
  <2>2. pc["pecsetelo_tag"] = "kor++" /\ pc'["pecsetelo_tag"] = "vote" /\ mem'["kor"] = mem["kor"] + 1
    BY <2>1 DEF Moves, Sets
  <2>3. Unset({"kor"}) /\ DOMAIN mem' = SZLocals
    BY <2>1 DEF Sets, Unset
  <2>4. SZWritten3' = SZWritten3
    BY <1>b, <2>2 DEF SZWritten3
  <2>5. mem'["kor"] \in Nat /\ mem'["kor"] <= mem["szavazhat"]
    BY <1>5, <1>b, <2>2 DEF Reports
  <2> HIDE DEF SZState
  <2> QED BY <1>4, <2>1, <2>3, <2>4, <2>5 DEF Reports
<1>10. CASE mem["kor"] >= mem["szavazhat"] /\ SZ!Jump("pecsetelo_tag", "vote", "exited")
  <2>1. Moves("pecsetelo_tag", "vote", "exited") /\ UNCHANGED <<pending, ready, reaped, pipe, mem>>
    BY <1>0, <1>10, <1>a, SZEffects DEF SZ!Jump
  <2>2. pc["pecsetelo_tag"] = "vote" /\ pc'["pecsetelo_tag"] = "exited"
    BY <2>1 DEF Moves
  <2>3. mem["kor"] = mem["szavazhat"]
    BY <1>10, <1>5, <1>b, <2>2 DEF Reports
  <2>4. SZWritten3' = SZWritten3
    BY <2>1, <2>2, <2>3 DEF SZWritten3
  <2>5. Unset({"kor"}) /\ DOMAIN mem' = SZLocals /\ mem'["kor"] \in Nat /\ mem'["kor"] <= mem["szavazhat"]
    BY <1>a, <1>b, <2>1, <2>3 DEF Unset
  <2> HIDE DEF SZState
  <2> QED BY <1>4, <2>1, <2>4, <2>5 DEF Reports
<1> QED BY <1>6, <1>7, <1>8, <1>9, <1>10 DEF SZ!pecseteloWrites

\* What the pipes hold
LEMMA ChannelItem ==
  ASSUME NEW q, NEW F, NEW r, NEW s, Channel(q, F, r, s), NEW k \in DOMAIN q
  PROVE  \E n \in 1..s : q[k] = F[n]
<1>1. r \in Nat /\ s \in Nat /\ r <= s /\ q = Flow(F, r, s)
  BY DEF Channel
<1>2. DOMAIN q = 1..(s - r) /\ q[k] = F[r + k]
  BY <1>1 DEF Flow
<1>3. r + k \in 1..s
  BY <1>1, <1>2
<1> QED BY <1>2, <1>3

LEMMA SZPrefixIs ==
  ASSUME NEW X, NEW s \in Seq(X), NEW t \in Seq(X), Len(s) <= Len(t),
         \A k \in 1..Len(s) : s[k] = t[k]
  PROVE  SZ!IsPrefix(s, t)
<1>1. SubSeq(s, 1, Len(s)) = SubSeq(t, 1, Len(s))
  BY DEF SubSeq
<1> QED BY <1>1 DEF SZ!IsPrefix

LEMMA SZTypes ==
  ASSUME NEW c, NEW F, NEW G, SZState(c, F, G)
  PROVE  SZ!TypeOK /\ SZ!IsPrefix(mem["latott"], mem["idk"])
<1> USE DEF SZState
<1>a. SZControl /\ SZPairs(c, F) /\ SZChecks(c, F) /\ SZStamps(c, F)
  BY DEF SZJudged
<1>b. /\ Channel(pipe["io_pipes_out"], SZIds, SZRead1, SZWritten1)
      /\ Channel(pipe["ellenorzo_ki"], F, SZRead2, SZWritten2)
      /\ Channel(pipe["pecsetelo_ki"], G, SZRead3, SZWritten3)
  BY DEF SZCollected, SZJudged, SZVoted
<1>1. SZ!Voters \in Nat /\ SZSeen \in Nat /\ SZSeen <= SZ!Voters
  BY <1>a, SZVotersNat, LenProperties DEF SZStamps, SZSeen
<1>2. /\ SZWritten2 \in Nat /\ SZRead2 <= SZWritten2 /\ SZRead2 \in Nat /\ SZWritten3 \in Nat
  BY <1>b DEF Channel
<1>3. SZWritten2 <= 2 * SZ!Voters + 1
  <2>1. /\ mem["j"] \in 0..SZ!Voters
        /\ pc["ellenorzo_tag"] \in {"judge", "write_j", "count_j", "j++"} => mem["j"] < SZ!Voters
    BY <1>a DEF SZChecks
  <2> QED BY <1>1, <2>1 DEF SZWritten2
<1>4. ready \in 0..2
  <2>1. SZSignals \in 0..2 /\ ready \in Nat
    BY DEF SZSignals, SZControl
  <2> QED BY <2>1 DEF SZControl
<1>5. \A v : SZ!int(v).size = "int" /\ SZ!char(v).size = "char"
  BY DEF SZ!int, SZ!char
<1>6. ASSUME NEW k \in DOMAIN pipe["io_pipes_out"] PROVE pipe["io_pipes_out"][k].size \in {"int", "char"}
  <2>1. PICK n \in 1..SZWritten1 : pipe["io_pipes_out"][k] = SZIds[n]
    BY <1>b, ChannelItem
  <2>2. n \in Nat
    BY <1>b DEF Channel
  <2>3. SZIds[n].size = "int"
    BY <1>5, <2>2 DEF SZIds
  <2> QED BY <2>1, <2>3
<1>7. ASSUME NEW k \in DOMAIN pipe["ellenorzo_ki"] PROVE pipe["ellenorzo_ki"][k].size \in {"int", "char"}
  <2>1. PICK n \in 1..SZWritten2 : pipe["ellenorzo_ki"][k] = F[n]
    BY <1>b, ChannelItem
  <2>2. \/ n = 2 * SZ!Voters + 1
        \/ \E l \in 1..SZ!Voters : n = 2 * l - 1
        \/ \E l \in 1..SZ!Voters : n = 2 * l
    <3>1. PICK l \in Int : n = 2 * l \/ n = 2 * l - 1
      <4>1. n = 2 * (n \div 2) \/ n = 2 * (n \div 2 + 1) - 1
        OBVIOUS
      <4>2. n \div 2 \in Int /\ n \div 2 + 1 \in Int
        OBVIOUS
      <4> QED BY <4>1, <4>2
    <3> QED BY <1>1, <1>2, <1>3, <3>1
  <2>3. CASE n = 2 * SZ!Voters + 1
    <3>1. SZWritten2 = 2 * SZ!Voters + 1
      BY <1>1, <1>2, <1>3, <2>3
    <3> QED BY <1>5, <1>a, <2>1, <2>3, <3>1 DEF SZPairs
  <2>4. CASE \E l \in 1..SZ!Voters : n = 2 * l - 1
    <3>1. PICK l \in 1..SZ!Voters : n = 2 * l - 1
      BY <2>4
    <3>2. 2 * l - 1 <= SZWritten2
      BY <1>2, <3>1
    <3> QED BY <1>5, <1>a, <2>1, <3>1, <3>2 DEF SZPairs
  <2>5. CASE \E l \in 1..SZ!Voters : n = 2 * l
    <3>1. PICK l \in 1..SZ!Voters : n = 2 * l
      BY <2>5
    <3>2. 2 * l <= SZWritten2
      BY <1>2, <3>1
    <3> QED BY <1>5, <1>a, <2>1, <3>1, <3>2 DEF SZPairs
  <2> QED BY <2>2, <2>3, <2>4, <2>5
<1>8. ASSUME NEW k \in DOMAIN pipe["pecsetelo_ki"] PROVE pipe["pecsetelo_ki"][k].size \in {"int", "char"}
  <2>1. PICK n \in 1..SZWritten3 : pipe["pecsetelo_ki"][k] = G[n]
    BY <1>b, ChannelItem
  <2>2. n = 1 \/ n = 2 \/ n \in 3..SZWritten3
    BY <1>2
  <2>3. /\ n = 1 => G[n] = SZ!int(mem["szavazhat"])
        /\ n = 2 => G[n] = SZ!int(mem["nem_szavazhat"])
        /\ n \in 3..SZWritten3 => G[n] \in Votes
    BY <1>2 DEF SZVoted
  <2> QED BY <1>5, <2>1, <2>2, <2>3 DEF Votes
<1>9. mem["szavazhat"] \in 0..SZ!Voters /\ mem["nem_szavazhat"] \in 0..SZ!Voters
  <2>1. /\ pc["pecsetelo_tag"] \in {"read_puffer", "count"} => SZSeen >= 1
        /\ pc["pecsetelo_tag"] \in {"off", "start"} => SZSeen = 0
        /\ pc["pecsetelo_tag"] \in Counting \cup Reports
    BY <1>a DEF SZStamps, SZControl
  <2>2. SZCounted \in 0..SZ!Voters /\ 2 * SZCounted <= SZWritten2
    BY <1>1, <1>2, <2>1 DEF SZCounted, SZRead2, Counting, Reports
  <2>3. c[SZCounted] \in 0..SZCounted
    <3>1. CASE SZCounted = 0
      BY <1>a, <3>1 DEF SZPairs
    <3>2. CASE SZCounted # 0
      <4>1. SZCounted \in 1..SZ!Voters
        BY <2>2, <3>2
      <4> QED BY <1>a, <2>2, <4>1 DEF SZPairs
    <3> QED BY <3>1, <3>2
  <2>4. mem["szavazhat"] = c[SZCounted] /\ mem["nem_szavazhat"] = SZCounted - c[SZCounted]
    BY <1>a DEF SZStamps
  <2> QED BY <1>1, <2>2, <2>3, <2>4
<1>10. mem["kor"] \in 0..SZ!Voters
  <2>1. /\ mem["kor"] \in Nat /\ pc["pecsetelo_tag"] \in Counting \cup Reports
        /\ pc["pecsetelo_tag"] \in Counting \cup {"write_szavazhat", "write_nem"} => mem["kor"] = 0
        /\ pc["pecsetelo_tag"] \in {"vote", "exited"} => mem["kor"] <= mem["szavazhat"]
        /\ pc["pecsetelo_tag"] = "kor++" => mem["kor"] < mem["szavazhat"]
    BY <1>a DEF SZVoted, SZControl
  <2> QED BY <1>1, <1>9, <2>1 DEF Reports
<1>11. mem["i"] \in 0..SZ!Voters /\ mem["j"] \in 0..SZ!Voters
  BY <1>a DEF SZCollected, SZChecks
<1>12. ASSUME NEW d \in SZ!Pipes
       PROVE  Len(pipe[d]) \in 0..PipeCapacity /\ \A k \in DOMAIN pipe[d] : pipe[d][k].size \in {"int", "char"}
  BY <1>6, <1>7, <1>8, <1>b DEF SZ!Pipes, Channel
<1>13. SZ!IsPrefix(mem["latott"], mem["idk"])
  <2>1. mem["idk"] \in Seq(Numbers) /\ Len(mem["idk"]) = SZ!Voters
    <3>1. mem["idk"] \in [1..SZ!Voters -> Numbers]
      BY DEF SZControl
    <3>2. mem["idk"] \in Seq(Numbers)
      BY <1>1, <3>1 DEF Seq
    <3>3. DOMAIN mem["idk"] = 1..SZ!Voters /\ DOMAIN mem["idk"] = 1..Len(mem["idk"]) /\ Len(mem["idk"]) \in Nat
      BY <3>1, <3>2, LenProperties
    <3> QED BY <1>1, <3>2, <3>3
  <2>2. mem["latott"] \in Seq(Numbers) /\ \A k \in 1..Len(mem["latott"]) : mem["latott"][k] = mem["idk"][k]
    BY <1>a DEF SZStamps, SZSeen
  <2>3. Len(mem["latott"]) <= Len(mem["idk"])
    BY <1>1, <2>1 DEF SZSeen
  <2> QED BY <2>1, <2>2, <2>3, SZPrefixIs
<1>14. /\ DOMAIN pc = SZ!Processes /\ pending \in BOOLEAN /\ reaped \subseteq SZ!Children
       /\ mem["szavazok"] \in Counts \cup {0}
  BY DEF SZControl
<1> HIDE DEF SZState
<1> QED BY <1>4, <1>9, <1>10, <1>11, <1>12, <1>13, <1>14 DEF SZ!TypeOK

LEMMA SZReadsFit == ASSUME NEW c, NEW F, NEW G, SZState(c, F, G) PROVE SZ!Framed
<1> USE DEF SZState
<1>a. SZControl /\ SZPairs(c, F) /\ SZChecks(c, F) /\ SZStamps(c, F)
  BY DEF SZJudged
<1>1. SZ!Voters \in Nat /\ SZSeen \in Nat /\ SZSeen <= SZ!Voters
  BY <1>a, SZVotersNat, LenProperties DEF SZStamps, SZSeen
<1>2. /\ SZWritten2 \in Nat /\ SZRead2 <= SZWritten2 /\ SZRead2 \in Nat
      /\ Channel(pipe["ellenorzo_ki"], F, SZRead2, SZWritten2)
  BY DEF SZJudged, Channel
<1>3. SZWritten2 <= 2 * SZ!Voters + 1
  <2>1. /\ mem["j"] \in 0..SZ!Voters
        /\ pc["ellenorzo_tag"] \in {"judge", "write_j", "count_j", "j++"} => mem["j"] < SZ!Voters
    BY <1>a DEF SZChecks
  <2> QED BY <1>1, <2>1 DEF SZWritten2
<1>4. pipe["ellenorzo_ki"] # <<>> =>
        SZRead2 + 1 \in 1..SZWritten2 /\ Head(pipe["ellenorzo_ki"]) = F[SZRead2 + 1]
  BY <1>2, ChannelRead
<1>5. ASSUME pc["pecsetelo_tag"] = "read_id", pipe["ellenorzo_ki"] # <<>>
      PROVE  Head(pipe["ellenorzo_ki"]).size = "int"
  <2>1. SZRead2 = 2 * SZSeen
    BY <1>5 DEF SZRead2
  <2>2. CASE SZSeen = SZ!Voters
    <3>1. SZWritten2 = 2 * SZ!Voters + 1
      BY <1>1, <1>2, <1>3, <1>4, <1>5, <2>1, <2>2
    <3> QED BY <1>4, <1>5, <1>a, <2>1, <2>2, <3>1 DEF SZPairs, SZ!int
  <2>3. CASE SZSeen # SZ!Voters
    <3>1. PICK k \in 1..SZ!Voters : k = SZSeen + 1
      BY <1>1, <2>3
    <3>2. 2 * k - 1 = SZRead2 + 1 /\ 2 * k - 1 <= SZWritten2
      BY <1>1, <1>2, <1>4, <1>5, <2>1, <3>1
    <3>3. F[2 * k - 1] = SZ!int(mem["idk"][k])
      BY <1>a, <3>2 DEF SZPairs
    <3> QED BY <1>4, <1>5, <3>2, <3>3 DEF SZ!int
  <2> QED BY <2>2, <2>3
<1>6. ASSUME pc["pecsetelo_tag"] = "read_puffer", pipe["ellenorzo_ki"] # <<>>
      PROVE  Head(pipe["ellenorzo_ki"]).size = "char"
  <2>1. SZRead2 + 1 = 2 * SZSeen /\ SZSeen \in 1..SZ!Voters
    BY <1>1, <1>6, <1>a DEF SZRead2, SZStamps
  <2>2. 2 * SZSeen <= SZWritten2
    BY <1>2, <1>4, <1>6, <2>1
  <2>3. F[2 * SZSeen] = SZ!char("h") \/ F[2 * SZSeen] = SZ!char("j")
    BY <1>a, <2>1, <2>2 DEF SZPairs
  <2> QED BY <1>4, <1>6, <2>1, <2>3 DEF SZ!char
<1> QED BY <1>5, <1>6 DEF SZ!Framed

LEMMA SZCountsAll ==
  ASSUME NEW c, NEW F, NEW G, SZState(c, F, G)
  PROVE  SZ!InOrder /\ SZ!EveryVoterCounted /\ SZ!EveryVoteCounted
<1>1. SZ!Voters \in Nat /\ mem["i"] \in 0..SZ!Voters
  BY SZVotersNat DEF SZState, SZCollected
<1>2. SZ!InOrder
  <2>1. SZ!IsPrefix(mem["latott"], mem["idk"])
    BY SZTypes
  <2>2. ASSUME pc["pecsetelo_tag"] \in {"write_szavazhat", "write_nem"} PROVE mem["latott"] = mem["idk"]
    <3>1. PICK s, t : s = mem["latott"] /\ t = mem["idk"]
      OBVIOUS
    <3>2. /\ s \in Seq(Numbers) /\ Len(s) = SZ!Voters /\ \A k \in 1..Len(s) : s[k] = t[k]
      BY <2>2, <3>1 DEF SZState, SZJudged, SZStamps, SZSeen, Reports
    <3>3. t \in [1..SZ!Voters -> Numbers]
      BY <3>1 DEF SZState, SZControl
    <3>4. DOMAIN s = 1..Len(s) /\ s = [k \in DOMAIN s |-> s[k]]
      BY <3>2, LenProperties
    <3>5. DOMAIN t = 1..Len(s) /\ t = [k \in DOMAIN t |-> t[k]]
      BY <3>2, <3>3
    <3>6. s = t
      BY <3>2, <3>4, <3>5
    <3> QED BY <3>1, <3>6
  <2> QED BY <2>1, <2>2 DEF SZ!InOrder
<1>3. ASSUME pc["main"] \in Tallies \cup {"fopen"}
      PROVE  /\ pc["pecsetelo_tag"] \in Reports /\ mem["szavazhat_elnok"].val = mem["szavazhat"]
             /\ mem["nem_szavazhat_elnok"].val = mem["nem_szavazhat"]
             /\ mem["szavazhat"] \in 0..SZ!Voters
  <2>1. /\ SZRead3 \in Nat /\ SZWritten3 \in Nat /\ SZRead3 <= SZWritten3
        /\ pc["main"] \in {"wait", "done"} => mem["i"] = mem["szavazhat_elnok"].val
        /\ mem["szavazhat_elnok"] = G[1] /\ mem["nem_szavazhat_elnok"] = G[2]
    BY <1>3 DEF SZState, SZVoted, Channel, SZTallied
  <2>2. SZRead3 >= 2
    BY <1>1, <1>3, <2>1 DEF SZRead3, Tallies
  <2>3. 2 \in Nat /\ 2 <= SZWritten3
    BY <2>1, <2>2
  <2>4. pc["pecsetelo_tag"] \in Reports /\ G[1].val = mem["szavazhat"] /\ G[2].val = mem["nem_szavazhat"]
    BY <2>3, SZRed
  <2> QED BY <2>1, <2>4, SZReported
<1>4. SZ!EveryVoterCounted
  <2>1. ASSUME pc["main"] \in {"fopen", "votes", "tally", "votes++", "wait", "done"}
        PROVE  /\ mem["szavazhat_elnok"].val = mem["jok"]
               /\ mem["szavazhat_elnok"].val + mem["nem_szavazhat_elnok"].val = SZ!Voters
    <3>1. pc["main"] \in Tallies \cup {"fopen"}
      BY <2>1 DEF Tallies
    <3>2. /\ mem["jok"] = mem["szavazhat"] /\ mem["nem_szavazhat"] = SZ!Voters - mem["szavazhat"]
      BY <1>3, <3>1, SZReported
    <3> QED BY <1>1, <1>3, <3>1, <3>2
  <2> QED BY <2>1 DEF SZ!EveryVoterCounted
<1>5. SZ!EveryVoteCounted
  <2>1. ASSUME pc["main"] \in {"wait", "done"}
        PROVE  /\ Sum(mem["partok"], Parties) = mem["szavazhat_elnok"].val /\ pipe["pecsetelo_ki"] = <<>>
    <3>1. pc["main"] \in Tallies \cup {"fopen"}
      BY <2>1 DEF Tallies
    <3>2. Sum(mem["partok"], Parties) = mem["szavazhat_elnok"].val
      BY <2>1 DEF SZState, SZTallied, Tallied
    <3>3. SZRead3 = 2 + mem["szavazhat"]
      BY <1>3, <2>1, <3>1 DEF SZRead3
    <3>4. /\ SZWritten3 \in Nat /\ SZRead3 <= SZWritten3
          /\ Channel(pipe["pecsetelo_ki"], G, SZRead3, SZWritten3) /\ mem["kor"] \in Nat
          /\ pc["pecsetelo_tag"] \in {"vote", "exited"} => mem["kor"] <= mem["szavazhat"]
          /\ pc["pecsetelo_tag"] = "kor++" => mem["kor"] < mem["szavazhat"]
      BY DEF SZState, SZVoted, Channel
    <3>5. SZWritten3 <= 2 + mem["szavazhat"]
      BY <1>3, <3>1, <3>4 DEF SZWritten3
    <3>6. SZRead3 = SZWritten3
      BY <1>1, <1>3, <3>1, <3>3, <3>4, <3>5
    <3>7. pipe["pecsetelo_ki"] = <<>>
      BY <3>4, <3>6, ChannelEmptied
    <3> QED BY <3>2, <3>7
  <2>2. SZ!FoldSet(LAMBDA p, n : mem["partok"][p] + n, 0, Parties) = Sum(mem["partok"], Parties)
    BY FoldIsSum
  <2> QED BY <2>1, <2>2, Zenon DEF SZ!EveryVoteCounted
<1> QED BY <1>2, <1>4, <1>5

\* Steps at the beginning: forks, and the ways they fail
LEMMA SZStarts ==
  ASSUME NEW c, NEW F, NEW G, SZState(c, F, G), UNCHANGED <<pipe, mem>>, SZControl',
         pc["main"] \in {"setup", "fork1", "fork2"}, pc["pecsetelo_tag"] = "off",
         \/ pc'["main"] \in Before
         \/ pc'["main"] = "exited" /\ pc'["pecsetelo_tag"] = "off",
         \/ pc'["ellenorzo_tag"] = pc["ellenorzo_tag"]
         \/ pc["ellenorzo_tag"] = "off" /\ pc'["ellenorzo_tag"] = "start",
         pc'["pecsetelo_tag"] \in {"off", "start"}
  PROVE  SZState(c, F, G)'
<1> USE DEF SZState
<1>1. SZFixed /\ SZ!Voters' = SZ!Voters
  BY DEF SZFixed, SZ!Voters
<1>2. /\ SZWritten1 = 0 /\ SZWritten1' = 0 /\ SZRead3 = 0 /\ SZRead3' = 0
      /\ SZWritten3' = SZWritten3 /\ SZRead1' = SZRead1 /\ SZRead2' = SZRead2
  BY DEF SZWritten1, Before, SZRead3, SZWritten3, SZRead1, SZRead2, SZSeen
<1>3. SZWritten2' = SZWritten2
  <2>1. pc["ellenorzo_tag"] \in Collects \cup Judges /\ (pc["ellenorzo_tag"] \in Collects => mem["j"] = 0)
    BY DEF SZControl, SZJudged, SZChecks
  <2> QED BY <1>1, <2>1 DEF SZWritten2, Collects
<1>4. SZCollected'
  <2>1. /\ mem["i"] \in 0..SZ!Voters /\ mem["i"] = 0
    BY DEF SZCollected, Before
  <2>2. pc'["main"] # "ids++"
    BY DEF Before
  <2> QED BY <1>1, <1>2, <2>1, <2>2, SZCollectedKept
<1>5. SZChecks(c, F)'
  BY <1>1, SZChecksKept DEF SZJudged, Collects
<1>6. SZStamps(c, F)'
  BY <1>1, SZStampsKept DEF SZJudged
<1>7. SZJudged(c, F)'
  BY <1>1, <1>2, <1>3, <1>5, <1>6, SZJudgedKept
<1>8. SZVoted(G)'
  BY <1>2, SZVotedKept DEF Counting
<1>9. SZTallied(G)'
  BY SZTalliedKept DEF Tallies, Before
<1> QED BY <1>4, <1>7, <1>8, <1>9

LEMMA SZForks ==
  ASSUME NEW c, NEW F, NEW G, SZState(c, F, G),
         SZ!Fork("ellenorzo_tag", "fork1", "fork2") \/ SZ!Fork("pecsetelo_tag", "fork2", "ready1")
  PROVE  SZState(c, F, G)'
<1>1. DOMAIN pc = SZ!Processes /\ SZControl
  BY DEF SZState, SZControl
<1>2. CASE SZ!Fork("ellenorzo_tag", "fork1", "fork2")
  <2>1. /\ pc["main"] = "fork1" /\ UNCHANGED <<pending, ready, reaped, pipe, mem>>
        /\ DOMAIN pc' = SZ!Processes /\ pc'["pecsetelo_tag"] = pc["pecsetelo_tag"]
        /\ \/ pc'["main"] = "fork2" /\ pc'["ellenorzo_tag"] = "start"
           \/ pc'["main"] = "exited" /\ pc'["ellenorzo_tag"] = pc["ellenorzo_tag"]
    BY <1>1, <1>2 DEF SZ!Fork, SZ!Processes, SZ!Children
  <2>2. pc["ellenorzo_tag"] = "off" /\ pc["pecsetelo_tag"] = "off"
    BY <2>1 DEF SZState, SZControl
  <2>3. SZ!Voters' = SZ!Voters /\ SZSignals' = SZSignals
    BY <2>1, <2>2 DEF SZ!Voters, SZSignals
  <2>4. SZControl'
    BY <1>1, <2>1, <2>2, <2>3 DEF SZControl, Before, Collects
  <2> QED BY <2>1, <2>2, <2>4, SZStarts DEF Before
<1>3. CASE SZ!Fork("pecsetelo_tag", "fork2", "ready1")
  <2>1. /\ pc["main"] = "fork2" /\ UNCHANGED <<pending, ready, reaped, pipe, mem>>
        /\ DOMAIN pc' = SZ!Processes /\ pc'["ellenorzo_tag"] = pc["ellenorzo_tag"]
        /\ \/ pc'["main"] = "ready1" /\ pc'["pecsetelo_tag"] = "start"
           \/ pc'["main"] = "exited" /\ pc'["pecsetelo_tag"] = pc["pecsetelo_tag"]
    BY <1>1, <1>3 DEF SZ!Fork, SZ!Processes, SZ!Children
  <2>2. pc["pecsetelo_tag"] = "off"
    BY <2>1 DEF SZState, SZControl
  <2>3. SZ!Voters' = SZ!Voters /\ SZSignals' = SZSignals
    BY <2>1, <2>2 DEF SZ!Voters, SZSignals
  <2>4. SZControl'
    BY <1>1, <2>1, <2>2, <2>3 DEF SZControl, Before, Counting
  <2> QED BY <2>1, <2>2, <2>4, SZStarts DEF Before
<1> QED BY <1>2, <1>3

\* The ids are drawn before anything is sent.
LEMMA SZDraws ==
  ASSUME NEW c, NEW F, NEW G, SZState(c, F, G), SZ!Setup
  PROVE  SZState(c, F, G)'
<1>1. /\ DOMAIN pc = SZ!Processes /\ DOMAIN mem = SZLocals /\ SZControl
      /\ UNCHANGED <<pending, ready, reaped, pipe>>
  BY DEF SZState, SZControl, SZ!Setup
<1>2. /\ pc["main"] = "setup" /\ DOMAIN pc' = SZ!Processes
      /\ pc'["ellenorzo_tag"] = pc["ellenorzo_tag"] /\ pc'["pecsetelo_tag"] = pc["pecsetelo_tag"]
  BY <1>1 DEF SZ!Setup, SZ!Step, SZ!Processes, SZ!Children
<1>3. pc["ellenorzo_tag"] = "off" /\ pc["pecsetelo_tag"] = "off"
  BY <1>2 DEF SZState, SZControl
<1>4. SZSignals' = SZSignals
  BY <1>2 DEF SZSignals
<1>5. CASE SZ!Step("main", "setup", "exited") /\ UNCHANGED mem
  <2>1. pc'["main"] = "exited"
    BY <1>1, <1>5 DEF SZ!Step, SZ!Processes
  <2>2. SZ!Voters' = SZ!Voters
    BY <1>5 DEF SZ!Voters
  <2>3. SZControl'
    BY <1>1, <1>2, <1>3, <1>4, <1>5, <2>1, <2>2 DEF SZControl
  <2> QED BY <1>1, <1>2, <1>3, <1>5, <2>1, <2>3, SZStarts
<1>6. CASE \E n \in Counts : \E ids \in [1 .. (IF n > 0 THEN n ELSE 0) -> Numbers] :
             /\ mem' = [mem EXCEPT !["szavazok"] = n, !["idk"] = ids]
             /\ SZ!Step("main", "setup", "fork1")
  <2>0. PICK n \in Counts : \E ids \in [1 .. (IF n > 0 THEN n ELSE 0) -> Numbers] :
             /\ mem' = [mem EXCEPT !["szavazok"] = n, !["idk"] = ids]
             /\ SZ!Step("main", "setup", "fork1")
    BY <1>6
  <2>1. PICK ids \in [1 .. (IF n > 0 THEN n ELSE 0) -> Numbers] :
             /\ mem' = [mem EXCEPT !["szavazok"] = n, !["idk"] = ids]
             /\ SZ!Step("main", "setup", "fork1")
    BY <2>0
  <2>2. pc'["main"] = "fork1"
    BY <1>1, <2>1 DEF SZ!Step, SZ!Processes
  <2>3. /\ DOMAIN mem' = SZLocals /\ mem'["szavazok"] = n /\ mem'["idk"] = ids
        /\ \A y \in SZLocals \ {"szavazok", "idk"} : mem'[y] = mem[y]
    BY <1>1, <2>1, SZLocalsAre
  <2>4. SZ!Voters' = (IF n > 0 THEN n ELSE 0)
    BY <2>3 DEF SZ!Voters
  <2>5. SZ!Voters' \in Nat
    BY <2>4, CountsAssumption
  <2>6. SZControl'
    BY <1>1, <1>2, <1>3, <1>4, <2>1, <2>2, <2>3, <2>4 DEF SZControl, Before
  <2>7. \A y \in MainVars \cup CheckerVars \cup StamperVars : mem'[y] = mem[y]
    BY <2>3, SZLocalsAre DEF MainVars, CheckerVars, StamperVars
  <2>8. SZCollected'
    <3>1. SZRead1 = 0 /\ SZRead1' = 0 /\ SZWritten1 = 0 /\ SZWritten1' = 0
      BY <1>2, <1>3, <2>2 DEF SZRead1, SZWritten1, Before
    <3>2. Channel(pipe["io_pipes_out"], SZIds, 0, 0)
      BY <3>1 DEF SZState, SZCollected
    <3>3. Channel(pipe["io_pipes_out"], SZIds', 0, 0)
      BY <3>2, ChannelSame
    <3>4. Channel(pipe["io_pipes_out"], SZIds, SZRead1, SZWritten1)'
      BY <1>1, <3>1, <3>3, SZConstant
    <3>5. mem["i"] = 0 /\ mem["kapott"] \in Seq(Numbers) /\ Len(mem["kapott"]) = 0
      BY <1>2, <1>3 DEF SZState, SZCollected, Before
    <3>6. mem'["i"] = 0 /\ mem'["kapott"] = mem["kapott"]
      BY <2>7, <3>5 DEF MainVars, CheckerVars
    <3> QED BY <1>2, <1>3, <2>2, <2>5, <3>4, <3>5, <3>6 DEF SZCollected, Judges
  <2>9. SZJudged(c, F)'
    <3>1. SZRead2 = 0 /\ SZRead2' = 0 /\ SZWritten2 = 0 /\ SZWritten2' = 0
      BY <1>2, <1>3 DEF SZRead2, SZWritten2, Collects
    <3>2. Channel(pipe["ellenorzo_ki"], F, SZRead2, SZWritten2)'
      BY <1>1, <3>1, SZConstant DEF SZState, SZJudged
    <3>3. SZPairs(c, F)'
      <4>1. c[0] = 0
        BY DEF SZState, SZJudged, SZPairs
      <4>a. \A v \in Nat : (\A k \in 1..v : ~(2 * k - 1 <= 0) /\ ~(2 * k <= 0)) /\ 0 # 2 * v + 1
        OBVIOUS
      <4>2. /\ \A k \in 1..SZ!Voters' : ~(2 * k - 1 <= 0) /\ ~(2 * k <= 0)
            /\ 0 # 2 * SZ!Voters' + 1
        BY <2>5, <4>a, Zenon
      <4> QED BY <3>1, <4>1, <4>2 DEF SZPairs
    <3>4. /\ mem["j"] = 0 /\ mem["itelet"] \in {"h", "j"} /\ mem["jok"] = c[0]
      BY <1>3 DEF SZState, SZJudged, SZChecks, Collects
    <3>5. mem'["j"] = 0 /\ mem'["itelet"] = mem["itelet"] /\ mem'["jok"] = mem["jok"]
      BY <2>7, <3>4 DEF CheckerVars
    <3>6. SZChecks(c, F)'
      BY <1>2, <1>3, <2>5, <3>4, <3>5 DEF SZChecks
    <3>7. /\ mem["latott"] \in Seq(Numbers) /\ SZSeen = 0 /\ mem["szavazhat"] = c[0]
          /\ mem["nem_szavazhat"] = 0 - c[0]
      BY <1>3 DEF SZState, SZJudged, SZStamps, SZCounted
    <3>8. /\ mem'["latott"] = mem["latott"] /\ mem'["szavazhat"] = mem["szavazhat"]
          /\ mem'["nem_szavazhat"] = mem["nem_szavazhat"]
      BY <2>7 DEF StamperVars
    <3>9. SZSeen' = 0 /\ SZCounted' = 0
      BY <1>2, <1>3, <3>7, <3>8 DEF SZSeen, SZCounted
    <3>10. SZStamps(c, F)'
      BY <1>2, <1>3, <2>5, <3>7, <3>8, <3>9 DEF SZStamps, Reports
    <3> QED BY <3>2, <3>3, <3>6, <3>10 DEF SZState, SZJudged
  <2>10. SZVoted(G)'
    <3>1. SZRead3' = SZRead3 /\ SZWritten3' = SZWritten3
      BY <1>2, <1>3, <2>2 DEF SZRead3, SZWritten3
    <3>2. mem'["kor"] = mem["kor"] /\ mem'["szavazhat"] = mem["szavazhat"]
          /\ mem'["nem_szavazhat"] = mem["nem_szavazhat"]
      BY <2>7 DEF StamperVars
    <3> QED BY <1>1, <1>2, <3>1, <3>2, SZVotedKept DEF SZState
  <2>11. SZTallied(G)'
    <3>1. mem'["partok"] = mem["partok"]
      BY <2>7 DEF MainVars
    <3> QED BY <1>2, <2>2, <3>1, SZTalliedKept DEF SZState, Tallies
  <2> QED BY <2>6, <2>8, <2>9, <2>10, <2>11 DEF SZState
<1> QED BY <1>5, <1>6 DEF SZ!Setup

LEMMA SZUnchanged ==
  ASSUME NEW c, NEW F, NEW G, SZState(c, F, G), UNCHANGED <<pc, pipe, mem, reaped>>,
         UNCHANGED <<pending, ready>> \/ SZ!Deliver
  PROVE  SZState(c, F, G)'
<1>1. SZFixed /\ SZ!Voters' = SZ!Voters /\ SZSignals' = SZSignals
  BY DEF SZFixed, SZ!Voters, SZSignals
<1>2. SZControl'
  <2>1. SZControl /\ ready \in Nat /\ pending \in BOOLEAN /\ ready + (IF pending THEN 1 ELSE 0) <= SZSignals
    BY DEF SZState, SZControl
  <2>2. CASE UNCHANGED <<pending, ready>>
    BY <1>1, <2>1, <2>2 DEF SZControl
  <2>3. CASE SZ!Deliver
    <3>1. /\ pending = TRUE /\ pending' = FALSE /\ ready' = ready + 1
      BY <2>1, <2>3 DEF SZ!Deliver
    <3>a. ready + 1 <= SZSignals
      <4>1. ready + (IF pending THEN 1 ELSE 0) = ready + 1
        BY <3>1
      <4> QED BY <2>1, <4>1
    <3>b. ready + 1 \in Nat /\ ready + 1 + 0 <= SZSignals
      <4>1. SZSignals \in 0..2
        BY DEF SZSignals
      <4> QED BY <2>1, <3>a, <4>1
    <3>c. ready' + (IF pending' THEN 1 ELSE 0) = ready + 1 + 0
      BY <3>1
    <3>2. /\ pending' \in BOOLEAN /\ ready' \in Nat
          /\ ready' + (IF pending' THEN 1 ELSE 0) <= SZSignals'
      BY <1>1, <3>1, <3>b, <3>c, Zenon
    <3> QED BY <1>1, <2>1, <3>2 DEF SZControl
  <2> QED BY <2>2, <2>3
<1>3. /\ SZWritten1' = SZWritten1 /\ SZRead1' = SZRead1 /\ SZWritten2' = SZWritten2 /\ SZRead2' = SZRead2
      /\ SZWritten3' = SZWritten3 /\ SZRead3' = SZRead3
  BY <1>1 DEF SZWritten1, SZRead1, SZWritten2, SZRead2, SZWritten3, SZRead3, SZSeen
<1>4. SZCollected'
  <2>1. /\ mem["i"] \in 0..SZ!Voters /\ (pc["main"] \in Before => mem["i"] = 0)
        /\ (pc["main"] = "ids++" => mem["i"] < SZ!Voters)
    BY DEF SZState, SZCollected
  <2> QED BY <1>1, <1>3, <2>1, SZCollectedKept DEF SZState
<1>5. SZChecks(c, F)' /\ SZStamps(c, F)'
  BY <1>1, SZChecksKept, SZStampsKept DEF SZState, SZJudged
<1>6. SZJudged(c, F)'
  BY <1>1, <1>3, <1>5, SZJudgedKept DEF SZState
<1>7. SZVoted(G)' /\ SZTallied(G)'
  BY <1>3, SZVotedKept, SZTalliedKept DEF SZState
<1> QED BY <1>2, <1>4, <1>6, <1>7 DEF SZState

LEMMA SZInitially == ASSUME SZ!Init, Is("szavazas") PROVE SZInv
<1>1. PICK c : c = [k \in Nat |-> 0]
  OBVIOUS
<1>2. SZ!Voters = 0
  BY DEF SZ!Init, SZ!NoLocals, SZ!Voters
<1>3. SZControl
  <2>1. SZSignals = 0
    BY DEF SZ!Init, SZ!Processes, SZ!Children, SZSignals
  <2>2. mem["idk"] \in [1..0 -> Numbers]
    <3>1. mem["idk"] = <<>>
      BY DEF SZ!Init, SZ!NoLocals
    <3> QED BY <3>1
  <2>3. /\ DOMAIN pc = SZ!Processes /\ DOMAIN pipe = SZ!Pipes /\ DOMAIN mem = SZLocals
        /\ pending = FALSE /\ ready = 0 /\ reaped = {} /\ mem["szavazok"] = 0
    BY DEF SZ!Init, SZ!NoLocals, SZLocals
  <2>4. pc["main"] = "setup" /\ pc["ellenorzo_tag"] = "off" /\ pc["pecsetelo_tag"] = "off"
    BY DEF SZ!Init, SZ!Processes, SZ!Children
  <2>5. ready + (IF pending THEN 1 ELSE 0) <= SZSignals
    BY <2>1, <2>3
  <2>6. mem["idk"] \in [1..SZ!Voters -> Numbers]
    BY <1>2, <2>2
  <2>7. ready \in Nat /\ pending \in BOOLEAN /\ reaped \subseteq SZ!Children /\ mem["szavazok"] \in Counts \cup {0}
    BY <2>3
  <2>8. /\ pc["main"] \in Before \cup {"ids", "ids++", "read_count", "read_nem", "fopen", "votes",
                                     "tally", "votes++", "wait", "done", "exited"}
        /\ pc["ellenorzo_tag"] \in Collects \cup Judges /\ pc["pecsetelo_tag"] \in Counting \cup Reports
    BY <2>4 DEF Before, Collects, Counting
  <2> QED BY <2>3, <2>4, <2>5, <2>6, <2>7, <2>8 DEF SZControl
<1>4. /\ pc["main"] = "setup" /\ pc["ellenorzo_tag"] = "off" /\ pc["pecsetelo_tag"] = "off"
      /\ \A d \in SZ!Pipes : pipe[d] = <<>>
  BY DEF SZ!Init, SZ!Processes, SZ!Children
<1>5. \A d \in SZ!Pipes : \A F : Channel(pipe[d], F, 0, 0)
  BY <1>4, ChannelOpened
<1>6. /\ mem["i"] = 0 /\ mem["j"] = 0 /\ mem["kapott"] = <<>> /\ mem["latott"] = <<>>
      /\ mem["itelet"] = "j" /\ mem["jok"] = 0 /\ mem["szavazhat"] = 0 /\ mem["nem_szavazhat"] = 0
      /\ mem["kor"] = 0 /\ mem["partok"] = [p \in Parties |-> 0]
  BY DEF SZ!Init, SZ!NoLocals
<1>7. <<>> \in Seq(Numbers) /\ Len(<<>>) = 0
  OBVIOUS
<1>8. SZCollected
  <2>1. SZRead1 = 0 /\ SZWritten1 = 0
    BY <1>4 DEF SZRead1, SZWritten1, Before
  <2>2. Channel(pipe["io_pipes_out"], SZIds, SZRead1, SZWritten1)
    BY <1>5, <2>1 DEF SZ!Pipes
  <2> QED BY <1>2, <1>4, <1>6, <1>7, <2>2 DEF SZCollected, Judges
<1>9. SZJudged(c, c)
  <2>1. SZRead2 = 0 /\ SZWritten2 = 0 /\ SZSeen = 0 /\ SZCounted = 0
    BY <1>4, <1>6, <1>7 DEF SZRead2, SZWritten2, SZSeen, SZCounted, Collects
  <2>2. Channel(pipe["ellenorzo_ki"], c, SZRead2, SZWritten2)
    BY <1>5, <2>1 DEF SZ!Pipes
  <2>3. c[0] = 0 /\ DOMAIN c = Nat
    BY <1>1
  <2>4. SZPairs(c, c)
    <3>1. 0 # 2 * 0 + 1 /\ 1..0 = {}
      OBVIOUS
    <3> QED BY <1>2, <2>1, <2>3, <3>1 DEF SZPairs
  <2>5. SZChecks(c, c)
    BY <1>2, <1>4, <1>6, <2>3 DEF SZChecks
  <2>6. SZStamps(c, c)
    BY <1>2, <1>4, <1>6, <1>7, <2>1, <2>3 DEF SZStamps, Reports
  <2> QED BY <2>2, <2>3, <2>4, <2>5, <2>6 DEF SZJudged
<1>10. SZVoted(c)
  <2>1. SZRead3 = 0 /\ SZWritten3 = 0
    BY <1>4 DEF SZRead3, SZWritten3
  <2>2. Channel(pipe["pecsetelo_ki"], c, SZRead3, SZWritten3)
    BY <1>5, <2>1 DEF SZ!Pipes
  <2>3. DOMAIN c = Nat
    BY <1>1
  <2> QED BY <1>4, <1>6, <2>1, <2>2, <2>3 DEF SZVoted
<1>11. SZTallied(c)
  <2>1. Tallied = 0
    BY <1>4 DEF Tallied
  <2>2. Sum(mem["partok"], Parties) = 0
    BY <1>6, SumSame, PartiesAssumption
  <2>3. mem["partok"] \in [Parties -> Int]
    BY <1>6
  <2> QED BY <1>4, <2>1, <2>2, <2>3 DEF SZTallied, Tallies
<1>12. SZState(c, c, c)
  BY <1>3, <1>8, <1>9, <1>10, <1>11 DEF SZState
<1>13. SZRuns
  BY <1>12, Zenon DEF SZRuns
<1> QED BY <1>13 DEF SZInv

LEMMA SZGoesOn ==
  ASSUME NEW c, NEW F, NEW G, SZState(c, F, G), SZ!Next \/ UNCHANGED zhVars
  PROVE  SZOver' \/ SZRuns'
<1>1. (\E c2, F2, G2 : SZState(c2, F2, G2)') => SZRuns'
  BY Zenon DEF SZRuns
<1>2. CASE SZ!Setup \/ SZ!elnok
  <2>1. CASE SZ!Setup \/ SZ!elnokStart
    BY <1>1, <2>1, SZDraws, SZForks, SZSendsIds, Zenon DEF SZ!elnokStart
  <2>2. CASE SZ!elnokIds \/ SZ!elnokVotes \/ SZ!Wait(SZ!Children, "wait", "done")
    BY <1>1, <2>2, SZSendsIds, SZReadsVotes, Zenon
  <2> QED BY <1>2, <2>1, <2>2 DEF SZ!elnok
<1>3. CASE SZ!ellenorzo_tag
  BY <1>1, <1>3, SZCollects, SZJudges, Zenon DEF SZ!ellenorzo_tag
<1>4. CASE SZ!pecsetelo_tag
  BY <1>1, <1>4, SZCounts, SZReports, Zenon DEF SZ!pecsetelo_tag
<1>5. CASE SZ!Deliver \/ UNCHANGED zhVars
  <2>1. UNCHANGED <<pc, pipe, mem, reaped>> /\ (UNCHANGED <<pending, ready>> \/ SZ!Deliver)
    BY <1>5 DEF SZ!Deliver, zhVars
  <2> QED BY <1>1, <2>1, SZUnchanged, Zenon
<1>6. CASE SZ!sigint_handler
  <2>1. SZ!TypeOK /\ SZ!IsPrefix(mem["latott"], mem["idk"])
    BY SZTypes
  <2>2. UNCHANGED <<pending, ready, reaped, pipe, mem>> /\ pc' = [p \in SZ!Processes |-> "exited"]
    BY <1>6 DEF SZ!sigint_handler
  <2>3. SZ!Voters' = SZ!Voters /\ DOMAIN pc' = SZ!Processes
    BY <2>2 DEF SZ!Voters
  <2>4. SZ!TypeOK'
    BY <2>1, <2>2, <2>3 DEF SZ!TypeOK
  <2>5. SZ!IsPrefix(mem["latott"], mem["idk"])'
    BY <2>1, <2>2 DEF SZ!IsPrefix
  <2> QED BY <2>2, <2>4, <2>5 DEF SZOver
<1> QED BY <1>2, <1>3, <1>4, <1>5, <1>6 DEF SZ!Next

LEMMA SZStays == ASSUME SZOver, SZ!Next \/ UNCHANGED zhVars PROVE SZOver'
<1>1. \A p \in SZ!Processes : pc[p] = "exited"
  BY DEF SZOver
<1>2. pc["main"] = "exited" /\ pc["ellenorzo_tag"] = "exited" /\ pc["pecsetelo_tag"] = "exited"
  BY <1>1 DEF SZ!Processes, SZ!Children
<1>3. ~SZ!Setup /\ ~SZ!elnokStart /\ ~SZ!Wait(SZ!Children, "wait", "done")
  BY <1>2 DEF SZ!Setup, SZ!elnokStart, SZ!Fork, SZ!AwaitReady, SZ!Wait, SZ!Step
<1>4. ~SZ!elnokIds /\ ~SZ!elnokVotes
  BY <1>2 DEF SZ!elnokIds, SZ!elnokVotes, SZ!Write, SZ!Read, SZ!Assign, SZ!Jump, SZ!Step
<1>5. ~SZ!ellenorzo_tag
  BY <1>2 DEF SZ!ellenorzo_tag, SZ!ellenorzoReads, SZ!ellenorzoWrites, SZ!Kill,
              SZ!Write, SZ!Read, SZ!Assign, SZ!Jump, SZ!Step
<1>6. ~SZ!pecsetelo_tag
  BY <1>2 DEF SZ!pecsetelo_tag, SZ!pecseteloReads, SZ!pecseteloWrites, SZ!Kill,
              SZ!Write, SZ!Read, SZ!Assign, SZ!Jump, SZ!Step
<1>7. ~SZ!Deliver /\ ~SZ!sigint_handler
  BY <1>2 DEF SZ!Deliver, SZ!sigint_handler, SZ!Alive, SZ!Gone
<1>8. UNCHANGED zhVars
  BY <1>3, <1>4, <1>5, <1>6, <1>7 DEF SZ!Next, SZ!elnok
<1>9. UNCHANGED <<pc, pending, ready, reaped, pipe, mem>> /\ SZ!Voters' = SZ!Voters
  BY <1>8 DEF zhVars, SZ!Voters
<1>10. SZ!TypeOK' /\ SZ!IsPrefix(mem["latott"], mem["idk"])'
  BY <1>9 DEF SZOver, SZ!TypeOK, SZ!IsPrefix
<1> QED BY <1>9, <1>10 DEF SZOver

LEMMA SZInvariant ==
  /\ SZ!Init /\ Is("szavazas") => SZInv
  /\ SZInv /\ UNCHANGED program /\ (SZ!Next \/ UNCHANGED zhVars) => SZInv'
  /\ SZInv => SZ!TypeOK /\ SZ!Framed /\ SZ!InOrder /\ SZ!EveryVoterCounted /\ SZ!EveryVoteCounted
<1>1. ASSUME SZInv, UNCHANGED program, SZ!Next \/ UNCHANGED zhVars PROVE SZInv'
  <2>1. Is("szavazas")'
    BY <1>1 DEF SZInv, Is
  <2>2. SZRuns => SZOver' \/ SZRuns'
    BY <1>1, SZGoesOn, Zenon DEF SZRuns
  <2>3. SZOver => SZOver'
    BY <1>1, SZStays
  <2> QED BY <1>1, <2>1, <2>2, <2>3 DEF SZInv
<1>2. ASSUME SZOver
      PROVE  SZ!TypeOK /\ SZ!Framed /\ SZ!InOrder /\ SZ!EveryVoterCounted /\ SZ!EveryVoteCounted
  <2>1. pc["main"] = "exited" /\ pc["pecsetelo_tag"] = "exited"
    BY <1>2 DEF SZOver, SZ!Processes, SZ!Children
  <2>2. SZ!TypeOK /\ SZ!IsPrefix(mem["latott"], mem["idk"])
    BY <1>2 DEF SZOver
  <2>3. SZ!Framed /\ SZ!InOrder
    BY <2>1, <2>2 DEF SZ!Framed, SZ!InOrder
  <2>4. SZ!EveryVoterCounted
    BY <2>1 DEF SZ!EveryVoterCounted
  <2>5. SZ!EveryVoteCounted
    BY <2>1, Zenon DEF SZ!EveryVoteCounted
  <2> QED BY <2>2, <2>3, <2>4, <2>5
<1>3. SZRuns => SZ!TypeOK /\ SZ!Framed /\ SZ!InOrder /\ SZ!EveryVoterCounted /\ SZ!EveryVoteCounted
  BY SZTypes, SZReadsFit, SZCountsAll, Zenon DEF SZRuns
<1> QED BY <1>1, <1>2, <1>3, SZInitially, Zenon DEF SZInv
=============================================================================
