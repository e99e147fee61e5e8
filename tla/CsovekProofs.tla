---------------------------- MODULE CsovekProofs ----------------------------
(***************************************************************************)
(* Proofs about the programs of CsovekMC whose pipes and FIFOs carry bytes,   *)
(* of which one read() takes what several write() have put there, and, with   *)
(* ZhProofs, the properties of all programs.                                 *)
(***************************************************************************)
EXTENDS ZhProofs

(***************************************************************************)
(* Streams of bytes                                                        *)
(***************************************************************************)

Bytes == {"a", "s", "d", "S", "H", "0", "1", "2", "over", P!NUL, P!Garbage}

IsCut(t, q, n, l, S) == t \in Seq(S) /\ Len(t) = l /\ \A k \in 1..l : t[k] = q[n + k]

LEMMA Cut ==
  ASSUME NEW S, NEW q, NEW n \in Nat, NEW l \in Nat, \A k \in 1..l : q[n + k] \in S
  PROVE  IsCut(SubSeq(q, n + 1, n + l), q, n, l, S)
<1>1. PICK t : t = [k \in 1..l |-> q[n + k]]
  OBVIOUS
<1>2. t \in [1..l -> S]
  BY <1>1
<1>3. t \in Seq(S) /\ Len(t) = l
  <2>1. t \in Seq(S)
    BY <1>2 DEF Seq
  <2> QED BY <1>2, <2>1, LenProperties
<1>4. SubSeq(q, n + 1, n + l) = t
  <2>1. 1 + (n + l) - (n + 1) = l /\ n + l - (n + 1) + 1 = l /\ \A k \in 1..l : n + 1 + k - 1 = n + k /\ k + (n + 1) - 1 = n + k
    OBVIOUS
  <2> QED BY <1>1, <2>1 DEF SubSeq
<1> QED BY <1>1, <1>3, <1>4 DEF IsCut

LEMMA Beginning ==
  ASSUME NEW S, NEW q, NEW l \in Nat, \A k \in 1..l : q[k] \in S
  PROVE  /\ SubSeq(q, 1, l) \in Seq(S) /\ Len(SubSeq(q, 1, l)) = l
         /\ \A k \in 1..l : SubSeq(q, 1, l)[k] = q[k]
<1>1. 0 + 1 = 1 /\ 0 + l = l /\ \A k \in 1..l : 0 + k = k
  OBVIOUS
<1>2. IsCut(SubSeq(q, 0 + 1, 0 + l), q, 0, l, S)
  BY <1>1, Cut
<1> QED BY <1>1, <1>2 DEF IsCut

LEMMA LeastOfTwo ==
  ASSUME NEW a \in Int, NEW b \in Int
  PROVE  /\ P!Min({a, b}) = IF a <= b THEN a ELSE b
         /\ P!Max({a, b}) = IF a <= b THEN b ELSE a
<1>1. PICK m : m = IF a <= b THEN a ELSE b
  OBVIOUS
<1>2. m \in {a, b} /\ \A y \in {a, b} : m <= y
  BY <1>1
<1>3. \A x \in {a, b} : (\A y \in {a, b} : x <= y) => x = m
  BY <1>1
<1>4. P!Min({a, b}) = m
  BY <1>2, <1>3 DEF P!Min
<1>5. PICK n : n = IF a <= b THEN b ELSE a
  OBVIOUS
<1>6. n \in {a, b} /\ \A y \in {a, b} : n >= y
  BY <1>5
<1>7. \A x \in {a, b} : (\A y \in {a, b} : x >= y) => x = n
  BY <1>5
<1>8. P!Max({a, b}) = n
  BY <1>6, <1>7 DEF P!Max
<1> QED BY <1>1, <1>4, <1>5, <1>8

LEMMA LeastOf ==
  ASSUME NEW I \in SUBSET Nat, NEW m \in I, \A y \in I : m <= y
  PROVE  P!Min(I) = m
<1>1. \A x \in I : (\A y \in I : x <= y) => x = m
  OBVIOUS
<1> QED BY <1>1 DEF P!Min

\* The stream that has been written, byte by byte, and not read
Stream(q, F, r, s) ==
  /\ r \in Nat /\ s \in Nat /\ r <= s /\ q = Flow(F, r, s) /\ Len(q) <= P!PipeBytes
  /\ \A k \in 1..s : F[k] \in Bytes

LEMMA StreamIs ==
  ASSUME NEW q, NEW F, NEW r, NEW s, Stream(q, F, r, s)
  PROVE  /\ r \in Nat /\ s \in Nat /\ r <= s /\ q \in Seq(Bytes) /\ Len(q) = s - r
         /\ \A k \in 1..(s - r) : q[k] = F[r + k]
<1>1. /\ r \in Nat /\ s \in Nat /\ r <= s /\ q = Flow(F, r, s)
      /\ \A k \in 1..s : F[k] \in Bytes
  BY DEF Stream
<1>2. /\ q \in Seq(Items(F, s)) /\ Len(q) = s - r /\ \A k \in 1..(s - r) : q[k] = F[r + k]
  BY <1>1, FlowIs, Zenon
<1>3. Items(F, s) \subseteq Bytes
  BY <1>1 DEF Items
<1> QED BY <1>1, <1>2, <1>3, SeqMonotonic, Zenon

Longer(H, F, s, t) ==
  /\ \A k \in 1..s : H[k] = F[k]
  /\ \A k \in 1..Len(t) : H[s + k] = t[k]

LEMMA StreamWritten ==
  ASSUME NEW q, NEW F, NEW r, NEW s, Stream(q, F, r, s), NEW t \in Seq(Bytes),
         Len(q) + Len(t) <= P!PipeBytes
  PROVE  \E H : Stream(q \o t, H, r, s + Len(t)) /\ Longer(H, F, s, t)
<1>1. /\ r \in Nat /\ s \in Nat /\ r <= s /\ q \in Seq(Bytes) /\ Len(q) = s - r
      /\ \A k \in 1..(s - r) : q[k] = F[r + k]
  BY StreamIs
<1>2. PICK n : n = Len(t)
  OBVIOUS
<1>3. n \in Nat /\ \A k \in 1..n : t[k] \in Bytes
  BY <1>2, LenProperties, ElementOfSeq
<1>4. PICK H : H = [k \in 1..(s + n) |-> IF k <= s THEN F[k] ELSE t[k - s]]
  OBVIOUS
<1>5. \A k \in 1..s : H[k] = F[k]
  BY <1>1, <1>3, <1>4
<1>6. \A k \in 1..n : H[s + k] = t[k]
  <2>1. ASSUME NEW k \in 1..n PROVE H[s + k] = t[k]
    <3>1. PICK x : x = s + k
      OBVIOUS
    <3>2. x \in 1..(s + n) /\ ~(x <= s) /\ x - s = k
      BY <1>1, <1>3, <3>1
    <3>3. H[x] = t[k]
      BY <1>4, <3>2
    <3> QED BY <3>1, <3>3
  <2> QED BY <2>1
<1>7. \A k \in 1..(s + n) : H[k] \in Bytes
  <2>1. ASSUME NEW k \in 1..(s + n), ~(k <= s) PROVE H[k] \in Bytes
    <3>1. k - s \in 1..n /\ H[k] = t[k - s]
      BY <1>1, <1>3, <1>4, <2>1
    <3> QED BY <1>3, <3>1
  <2>2. ASSUME NEW k \in 1..(s + n), k <= s PROVE H[k] \in Bytes
    <3>1. k \in 1..s
      BY <1>1, <2>2
    <3> QED BY <1>5, <3>1 DEF Stream
  <2> QED BY <2>1, <2>2
<1>8. PICK u : u = q \o t
  OBVIOUS
<1>9. /\ u \in Seq(Bytes) /\ Len(u) = s - r + n
      /\ \A k \in 1..(s - r + n) : u[k] = IF k <= s - r THEN q[k] ELSE t[k - (s - r)]
  <2>1. /\ u \in Seq(Bytes) /\ Len(u) = Len(q) + Len(t)
        /\ \A k \in 1..Len(q) + Len(t) : u[k] = IF k <= Len(q) THEN q[k] ELSE t[k - Len(q)]
    BY <1>1, <1>8, ConcatProperties, Zenon
  <2> QED BY <1>1, <1>2, <2>1, Zenon
<1>10. \A k \in 1..(s + n - r) : u[k] = H[r + k]
  <2>1. ASSUME NEW k \in 1..(s + n - r), k <= s - r PROVE u[k] = H[r + k]
    <3>1. k \in 1..(s - r) /\ k \in 1..(s - r + n) /\ r + k \in 1..s
      BY <1>1, <1>3, <2>1
    <3> QED BY <1>1, <1>5, <1>9, <2>1, <3>1
  <2>2. ASSUME NEW k \in 1..(s + n - r), ~(k <= s - r) PROVE u[k] = H[r + k]
    <3>1. k \in 1..(s - r + n) /\ k - (s - r) \in 1..n /\ s + (k - (s - r)) = r + k
      BY <1>1, <1>3, <2>2
    <3> QED BY <1>6, <1>9, <2>2, <3>1
  <2> QED BY <2>1, <2>2
<1>11. u = Flow(H, r, s + n)
  <2>1. s + n \in Nat /\ Len(u) = s + n - r
    BY <1>1, <1>3, <1>9
  <2>2. PICK m : m = s + n
    OBVIOUS
  <2>3. m \in Nat /\ Len(u) = m - r /\ \A k \in 1..(m - r) : u[k] = H[r + k]
    <3>1. m \in Nat /\ Len(u) = m - r
      BY <1>1, <1>3, <2>1, <2>2
    <3>2. \A k \in 1..(m - r) : u[k] = H[r + k]
      BY <1>1, <1>3, <1>10, <2>2
    <3> QED BY <3>1, <3>2
  <2>4. u = Flow(H, r, m)
    BY <1>1, <1>9, <2>3, IsFlow
  <2> QED BY <2>2, <2>4
<1>12. Stream(u, H, r, s + n)
  <2>1. s + n \in Nat /\ r <= s + n /\ s - r + n = Len(q) + n
    BY <1>1, <1>3
  <2>2. Len(u) <= P!PipeBytes
    BY <1>2, <1>9, <2>1
  <2> QED BY <1>1, <1>7, <1>11, <2>1, <2>2 DEF Stream
<1>13. Longer(H, F, s, t)
  BY <1>2, <1>5, <1>6 DEF Longer
<1> QED BY <1>2, <1>8, <1>12, <1>13, Zenon

LEMMA StreamRead ==
  ASSUME NEW q, NEW F, NEW r, NEW s, Stream(q, F, r, s), NEW n \in Nat, r + n <= s
  PROVE  /\ SubSeq(q, 1, n) \in Seq(Bytes) /\ Len(SubSeq(q, 1, n)) = n
         /\ \A k \in 1..n : SubSeq(q, 1, n)[k] = F[r + k]
         /\ Stream(SubSeq(q, n + 1, Len(q)), F, r + n, s)
<1>1. /\ r \in Nat /\ s \in Nat /\ r <= s /\ q \in Seq(Bytes) /\ Len(q) = s - r
      /\ \A k \in 1..(s - r) : q[k] = F[r + k]
  BY StreamIs
<1>2. \A k \in 1..Len(q) : q[k] \in Bytes
  BY <1>1, ElementOfSeq
<1>3. /\ SubSeq(q, 1, n) \in Seq(Bytes) /\ Len(SubSeq(q, 1, n)) = n
      /\ \A k \in 1..n : SubSeq(q, 1, n)[k] = F[r + k]
  <2>1. \A k \in 1..n : k \in 1..(s - r) /\ q[k] \in Bytes
    BY <1>1, <1>2
  <2> QED BY <1>1, <2>1, Beginning
<1>4. PICK t : t = SubSeq(q, n + 1, Len(q))
  OBVIOUS
<1>5. t \in Seq(Bytes) /\ Len(t) = s - (r + n) /\ \A k \in 1..(s - (r + n)) : t[k] = F[r + n + k]
  <2>1. PICK l : l = s - (r + n)
    OBVIOUS
  <2>2. l \in Nat /\ n + l = Len(q)
    BY <1>1, <2>1
  <2>3. ASSUME NEW k \in 1..l PROVE n + k \in 1..Len(q) /\ n + k \in 1..(s - r) /\ r + (n + k) = r + n + k
    BY <1>1, <2>1, <2>2
  <2>4. \A k \in 1..l : q[n + k] \in Bytes
    BY <1>2, <2>3
  <2>5. t \in Seq(Bytes) /\ Len(t) = l /\ \A k \in 1..l : t[k] = q[n + k]
    <3>1. t = SubSeq(q, n + 1, n + l)
      BY <1>4, <2>2
    <3>2. IsCut(SubSeq(q, n + 1, n + l), q, n, l, Bytes)
      BY <2>2, <2>4, Cut, Zenon
    <3> QED BY <3>1, <3>2 DEF IsCut
  <2> QED BY <1>1, <2>1, <2>3, <2>5
<1>6. t = Flow(F, r + n, s)
  <2>1. r + n \in Nat
    BY <1>1
  <2> QED BY <1>1, <1>5, <2>1, IsFlow, Zenon
<1>7. Stream(t, F, r + n, s)
  <2>1. r + n \in Nat /\ Len(q) \in Nat /\ Len(t) <= Len(q)
    BY <1>1, <1>5
  <2>2. Len(q) <= P!PipeBytes /\ P!PipeBytes \in Nat /\ \A k \in 1..s : F[k] \in Bytes
    BY PipeCapacityAssumption DEF Stream, P!PipeBytes
  <2>3. Len(t) <= P!PipeBytes
    BY <1>1, <1>5, <2>1, <2>2
  <2> QED BY <1>1, <1>6, <2>1, <2>2, <2>3 DEF Stream
<1> QED BY <1>3, <1>4, <1>7

\* A buffer after a read
LEMMA Overlaid ==
  ASSUME NEW t \in Seq(Bytes), NEW b \in Seq(Bytes), Len(t) <= Len(b)
  PROVE  /\ P!Overlay(t, b) \in Seq(Bytes) /\ Len(P!Overlay(t, b)) = Len(b)
         /\ \A k \in 1..Len(b) : P!Overlay(t, b)[k] = IF k <= Len(t) THEN t[k] ELSE b[k]
<1>1. /\ Len(t) \in Nat /\ Len(b) \in Nat /\ \A k \in 1..Len(t) : t[k] \in Bytes
      /\ \A k \in 1..Len(b) : b[k] \in Bytes
  BY LenProperties, ElementOfSeq
<1>2. P!Max({Len(t), Len(b)}) = Len(b)
  <2>1. \A a, c \in Nat : a <= c => P!Max({a, c}) = c
    <3>1. ASSUME NEW a \in Nat, NEW c \in Nat, a <= c PROVE P!Max({a, c}) = c
      <4>1. a \in Int /\ c \in Int
        OBVIOUS
      <4>2. P!Max({a, c}) = IF a <= c THEN c ELSE a
        BY <4>1, LeastOfTwo, Zenon
      <4> QED BY <3>1, <4>2
    <3> QED BY <3>1
  <2> QED BY <1>1, <2>1, Zenon
<1>3. P!Overlay(t, b) = [k \in 1..Len(b) |-> IF k <= Len(t) THEN t[k] ELSE b[k]]
  BY <1>2, Zenon DEF P!Overlay
<1>4. PICK o : o = P!Overlay(t, b)
  OBVIOUS
<1>5. o \in [1..Len(b) -> Bytes]
  BY <1>1, <1>3, <1>4
<1>6. o \in Seq(Bytes)
  BY <1>1, <1>5 DEF Seq
<1>7. Len(o) = Len(b)
  BY <1>1, <1>5, <1>6, LenProperties
<1> QED BY <1>3, <1>4, <1>6, <1>7

\* A C string goes up to the first NUL.
LEMMA StringIn ==
  ASSUME NEW b \in Seq(Bytes), NEW n \in 0..Len(b), \A k \in 1..n : b[k] # P!NUL
  PROVE  /\ P!CString(b) \in Seq(Bytes) /\ n <= Len(P!CString(b)) /\ Len(P!CString(b)) <= Len(b)
         /\ \A k \in 1..Len(P!CString(b)) : P!CString(b)[k] = b[k] 
         /\ n < Len(b) /\ b[n + 1] = P!NUL => Len(P!CString(b)) = n
         /\ P!Terminated(b) => /\ Len(P!CString(b)) < Len(b) /\ b[Len(P!CString(b)) + 1] = P!NUL
                               /\ \A k \in 1..Len(P!CString(b)) : b[k] # P!NUL
<1>1. Len(b) \in Nat /\ \A k \in 1..Len(b) : b[k] \in Bytes
  BY LenProperties, ElementOfSeq
<1>2. CASE ~P!Terminated(b)
  <2>1. P!CString(b) = b
    BY <1>2, Zenon DEF P!CString
  <2>2. n < Len(b) => b[n + 1] # P!NUL
    <3>1. n < Len(b) => n + 1 \in 1..Len(b)
      BY <1>1
    <3> QED BY <1>2, <3>1, Zenon DEF P!Terminated, P!Contains
  <2> QED BY <1>1, <1>2, <2>1, <2>2
<1>3. CASE P!Terminated(b)
  <2>1. PICK I : I = {i \in 1..Len(b) : b[i] = P!NUL}
    OBVIOUS
  <2>2. I # {} /\ I \in SUBSET Nat
    <3>1. \E i \in 1..Len(b) : b[i] = P!NUL
      BY <1>3, Zenon DEF P!Terminated, P!Contains
    <3> QED BY <2>1, <3>1
  <2>3. PICK m \in I : \A x \in I : m <= x
    BY <2>2, LeastNat
  <2>4. P!Min(I) = m
    BY <2>2, <2>3, LeastOf
  <2>5. P!SelectInSeq(b, LAMBDA c : c = P!NUL) = m
    BY <2>1, <2>2, <2>4, Zenon DEF P!SelectInSeq
  <2>6. P!CString(b) = SubSeq(b, 1, m - 1)
    BY <1>3, <2>5, Zenon DEF P!CString
  <2>7. m \in 1..Len(b) /\ b[m] = P!NUL
    BY <2>1, <2>3
  <2>8. \A k \in 1..(m - 1) : b[k] # P!NUL /\ k \in 1..Len(b)
    <3> SUFFICES ASSUME NEW k \in 1..(m - 1), b[k] = P!NUL PROVE FALSE
      BY <1>1, <2>7
    <3>1. k \in 1..Len(b) /\ ~(m <= k)
      BY <1>1, <2>7
    <3> QED BY <2>1, <2>3, <3>1
  <2>9. n <= m - 1 /\ (n < Len(b) /\ b[n + 1] = P!NUL => n = m - 1)
    <3>1. ~(m <= n)
      BY <1>1, <2>7
    <3>2. n < Len(b) /\ b[n + 1] = P!NUL => m <= n + 1
      <4>1. n < Len(b) => n + 1 \in 1..Len(b)
        BY <1>1
      <4> QED BY <2>1, <2>3, <4>1
    <3> QED BY <1>1, <2>7, <3>1, <3>2
  <2>10. PICK c : c = SubSeq(b, 1, m - 1)
    OBVIOUS
  <2>11. c \in Seq(Bytes) /\ Len(c) = m - 1 /\ \A k \in 1..(m - 1) : c[k] = b[k]
    <3>1. m - 1 \in Nat /\ \A k \in 1..(m - 1) : b[k] \in Bytes
      BY <1>1, <2>7, <2>8
    <3> QED BY <2>10, <3>1, Beginning
  <2>12. m - 1 < Len(b) /\ m - 1 + 1 = m /\ m - 1 <= Len(b)
    BY <1>1, <2>7
  <2> QED BY <2>6, <2>7, <2>8, <2>9, <2>10, <2>11, <2>12
<1> QED BY <1>2, <1>3

(***************************************************************************)
(* The pipe: texts in pieces of two or three bytes                         *)
(***************************************************************************)

\* The beginning of the piece of t stands in b from n + 1 on.
Piece(w, b, n, t) ==
  /\ b[n + 1] = t[1] /\ b[n + 2] = IF Len(t) = 1 THEN P!NUL ELSE t[2]
  /\ w = 3 /\ Len(t) = 2 => b[n + 3] = P!NUL

PLocals == {"ends", "opened", "merged", "sz", "mainSz", "elkuldott", "olvasott"}
PSent == Len(mem["elkuldott"]) - (IF pc["main"] = "write" THEN 1 ELSE 0)
PRead == Len(mem["olvasott"]) + (IF pc["child"] = "printf" THEN 1 ELSE 0)
PSame(printed, sent) ==
  printed = sent \/ (program = "pipe2" /\ Len(sent) = 2 /\ P!IsPrefix(sent, printed))

PControl ==
  /\ DOMAIN pc = P!Processes /\ reaped \subseteq {"child"} /\ IsPipe
  /\ DOMAIN pipe = {"pipefd"} /\ DOMAIN mem = PLocals
  /\ pc["main"] \in {"fork1", "close_r", "rand", "write", "while", "close_w", "wait", "done", "exited"}
  /\ pc["child"] \in {"off", "close_w", "read", "printf", "while", "close_r", "exited"}
  /\ pc["child"] = "off" <=> pc["main"] \in {"fork1", "exited"}

\* Who holds which end of the pipe
PEnds ==
  /\ pc["main"] \in {"fork1", "close_r", "rand", "write", "while", "close_w"} =>
       <<"main", "pipefd", "w">> \in mem["ends"]
  /\ pc["child"] \in {"close_w", "read", "printf", "while", "close_r"} =>
       <<"child", "pipefd", "r">> \in mem["ends"]
  /\ pc["child"] \in {"read", "printf", "while", "close_r", "exited"} =>
       <<"child", "pipefd", "w">> \notin mem["ends"]

\* The parent sends texts up to one that is the last.
PSends ==
  /\ mem["elkuldott"] \in Seq(P!Texts)
  /\ pc["main"] \in {"fork1", "close_r", "exited"} => Len(mem["elkuldott"]) = 0
  /\ pc["main"] \in {"write", "while", "close_w", "wait", "done"} => Len(mem["elkuldott"]) # 0
  /\ \A k \in 1..Len(mem["elkuldott"]) :
       k < Len(mem["elkuldott"]) \/ pc["main"] = "rand" => ~P!IsLast(mem["elkuldott"][k])
  /\ pc["main"] \in {"close_w", "wait", "done"} => P!IsLast(mem["elkuldott"][Len(mem["elkuldott"])])

\* The child prints the same up to the last one.
PPrints ==
  /\ mem["olvasott"] \in Seq(Seq(Bytes))
  /\ \A k \in 1..Len(mem["olvasott"]) : PSame(mem["olvasott"][k], mem["elkuldott"][k])
  /\ pc["child"] \in {"off", "close_w"} => Len(mem["olvasott"]) = 0
  /\ pc["child"] = "while" => Len(mem["olvasott"]) # 0
  /\ pc["child"] \in {"read", "printf"} =>
       \A k \in 1..Len(mem["olvasott"]) : ~P!IsLast(mem["elkuldott"][k])
  /\ pc["child"] \in {"close_r", "exited"} =>
       Len(mem["olvasott"]) # 0 /\ P!IsLast(mem["elkuldott"][Len(mem["olvasott"])])

PBuffers ==
  /\ mem["sz"] \in Seq(Bytes) /\ Len(mem["sz"]) = 4
  /\ mem["mainSz"] \in Seq(Bytes) /\ Len(mem["mainSz"]) = 4
  /\ pc["child"] = "printf" => Piece(P!Written, mem["sz"], 0, mem["elkuldott"][PRead])
  /\ pc["main"] = "write" => Piece(P!Written, mem["mainSz"], 0, mem["elkuldott"][Len(mem["elkuldott"])])

PBytes(B) ==
  /\ PRead \in Nat /\ PSent \in Nat /\ PRead <= PSent
  /\ Stream(pipe["pipefd"], B, P!Written * PRead, P!Written * PSent)
  /\ \A k \in 1..PSent : Piece(P!Written, B, P!Written * (k - 1), mem["elkuldott"][k])

PState(B) == PControl /\ PEnds /\ PSends /\ PPrints /\ PBuffers /\ PBytes(B)
PInv == \E B : PState(B)

\* Steps of one process, and what they change
PMoves(p, from, to) ==
  /\ pc[p] = from /\ pc'[p] = to /\ DOMAIN pc' = DOMAIN pc
  /\ \A o \in DOMAIN pc \ {p} : pc'[o] = pc[o]
PSets(X) == DOMAIN mem' = DOMAIN mem /\ \A y \in DOMAIN mem \ X : mem'[y] = mem[y]

LEMMA PMovesMain ==
  ASSUME NEW from, NEW to, PMoves("main", from, to), DOMAIN pc = P!Processes
  PROVE  pc["main"] = from /\ pc'["main"] = to /\ DOMAIN pc' = P!Processes /\ pc'["child"] = pc["child"]
BY DEF PMoves, P!Processes

LEMMA PMovesChild ==
  ASSUME NEW from, NEW to, PMoves("child", from, to), DOMAIN pc = P!Processes
  PROVE  pc["child"] = from /\ pc'["child"] = to /\ DOMAIN pc' = P!Processes /\ pc'["main"] = pc["main"]
BY DEF PMoves, P!Processes

LEMMA PEffects ==
  ASSUME DOMAIN pc = P!Processes, DOMAIN mem = PLocals, NEW p \in P!Processes, NEW from, NEW to
  PROVE  /\ P!Step(p, from, to) => PMoves(p, from, to)
         /\ P!Jump(p, from, to) => PMoves(p, from, to) /\ UNCHANGED <<reaped, pipe, mem>>
         /\ P!Close(p, from, to, "pipefd", "r") =>
              /\ PMoves(p, from, to) /\ PSets({"ends"}) /\ UNCHANGED <<reaped, pipe>>
              /\ mem'["ends"] = mem["ends"] \ {<<p, "pipefd", "r">>}
         /\ P!Close(p, from, to, "pipefd", "w") =>
              /\ PMoves(p, from, to) /\ PSets({"ends"}) /\ UNCHANGED <<reaped, pipe>>
              /\ mem'["ends"] = mem["ends"] \ {<<p, "pipefd", "w">>}
<1>1. P!Step(p, from, to) => PMoves(p, from, to)
  BY DEF P!Step, PMoves
<1>2. P!Jump(p, from, to) => PMoves(p, from, to) /\ UNCHANGED <<reaped, pipe, mem>>
  BY <1>1 DEF P!Jump
<1>3. ASSUME NEW e, P!Close(p, from, to, "pipefd", e)
      PROVE  /\ PMoves(p, from, to) /\ PSets({"ends"}) /\ UNCHANGED <<reaped, pipe>>
             /\ mem'["ends"] = mem["ends"] \ {<<p, "pipefd", e>>}
  <2>1. P!Step(p, from, to) /\ UNCHANGED <<reaped, pipe>> /\ mem' = [mem EXCEPT !["ends"] = mem["ends"] \ {<<p, "pipefd", e>>}]
    BY <1>3 DEF P!Close, P!Assign
  <2>2. "ends" \in DOMAIN mem
    BY DEF PLocals
  <2> QED BY <1>1, <2>1, <2>2 DEF PSets
<1> QED BY <1>1, <1>2, <1>3

LEMMA Times ==
  ASSUME NEW w \in {2, 3}, NEW a \in Nat, NEW b \in Nat
  PROVE  /\ w * a \in Nat /\ (a <= b => w * a <= w * b) /\ w * (a + 1) = w * a + w
         /\ (a < b => w * a + w <= w * b) /\ w * 0 = 0 /\ (w * b - w * a) % w = 0
         /\ (a # 0 => w * (a - 1) \in Nat /\ w * (a - 1) + w = w * a)
         /\ (w * a = w * b => a = b)
<1>1. CASE w = 2
  BY <1>1
<1>2. CASE w = 3
  BY <1>2
<1> QED BY <1>1, <1>2

LEMMA PTexts ==
  ASSUME IsPipe
  PROVE  /\ P!Written \in {2, 3} /\ P!Asked >= P!Written /\ P!Asked \in {2, 3, 4}
         /\ (P!Asked # P!Written => program = "pipe") /\ (program = "pipe3" <=> P!Written = 3)
         /\ \A t \in P!Texts : /\ t \in Seq(Bytes) /\ Len(t) \in {1, 2} /\ (program = "pipe" => Len(t) = 1)
                               /\ \A k \in 1..Len(t) : t[k] # P!NUL
         /\ (program # "pipe3" => \A t : P!IsLast(t))
         /\ program = "pipe3" => P!Zero \in P!Texts /\ \A t : P!IsLast(t) <=> t = P!Zero
<1>1. P!Written \in {2, 3} /\ P!Asked >= P!Written /\ P!Asked \in {2, 3, 4}
      /\ (P!Asked # P!Written => program = "pipe") /\ (program = "pipe3" <=> P!Written = 3)
  BY DEF IsPipe, P!Written, P!Asked
<1>2. \A t \in {<<"H">>, <<"0">>, <<"1">>, <<"1", "2">>} :
        /\ t \in Seq(Bytes) /\ Len(t) \in {1, 2} /\ (t # <<"1", "2">> => Len(t) = 1)
        /\ \A k \in 1..Len(t) : t[k] # P!NUL
  <2>1. /\ \A t \in {<<"H">>, <<"0">>, <<"1">>, <<"1", "2">>} : Len(t) \in {1, 2} /\ (t # <<"1", "2">> => Len(t) = 1)
        /\ \A t \in {<<"H">>, <<"0">>, <<"1">>, <<"1", "2">>} : \A k \in 1..Len(t) : t[k] # P!NUL
    BY DEF P!NUL
  <2>2. \A t \in {<<"H">>, <<"0">>, <<"1">>, <<"1", "2">>} : t \in Seq(Bytes)
    <3>1. "H" \in Bytes /\ "0" \in Bytes /\ "1" \in Bytes /\ "2" \in Bytes
      BY DEF Bytes
    <3>2. <<"H">> \in Seq(Bytes) /\ <<"0">> \in Seq(Bytes) /\ <<"1">> \in Seq(Bytes) /\ <<"1", "2">> \in Seq(Bytes)
      BY <3>1
    <3> QED BY <3>2
  <2> QED BY <2>1, <2>2
<1>3. P!Texts \subseteq {<<"H">>, <<"0">>, <<"1">>, <<"1", "2">>} /\ (program = "pipe" => <<"1", "2">> \notin P!Texts)
  BY DEF P!Texts, P!Zero
<1>4. (program # "pipe3" => \A t : P!IsLast(t))
      /\ (program = "pipe3" => P!Zero \in P!Texts /\ \A t : P!IsLast(t) <=> t = P!Zero)
  BY DEF P!IsLast, P!Texts
<1> QED BY <1>1, <1>2, <1>3, <1>4

LEMMA PProgram ==
  ASSUME UNCHANGED program
  PROVE  /\ P!Written' = P!Written /\ P!Asked' = P!Asked /\ P!Texts' = P!Texts /\ IsPipe' = IsPipe
         /\ \A t : P!IsLast(t)' <=> P!IsLast(t)
         /\ \A t, u : PSame(t, u)' <=> PSame(t, u)
BY DEF P!Written, P!Asked, P!Texts, IsPipe, P!IsLast, PSame

\* A step that neither types, writes, reads nor prints
LEMMA PKept ==
  ASSUME NEW B, PState(B), UNCHANGED program, pipe'["pipefd"] = pipe["pipefd"],
         PSets({"ends", "merged"}), PControl',
         pc'["main"] = pc["main"] \/ "write" \notin {pc["main"], pc'["main"]},
         pc'["child"] = pc["child"] \/ "printf" \notin {pc["child"], pc'["child"]}
  PROVE  PBytes(B)' /\ PBuffers' /\ mem'["elkuldott"] = mem["elkuldott"] /\ mem'["olvasott"] = mem["olvasott"]
         /\ PRead' = PRead /\ PSent' = PSent
<1>1. /\ mem'["elkuldott"] = mem["elkuldott"] /\ mem'["olvasott"] = mem["olvasott"]
      /\ mem'["sz"] = mem["sz"] /\ mem'["mainSz"] = mem["mainSz"]
  BY DEF PState, PControl, PSets, PLocals
<1>2. PRead' = PRead /\ PSent' = PSent
  BY <1>1 DEF PRead, PSent
<1>3. P!Written' = P!Written
  BY PProgram
<1>4. PBytes(B)'
  BY <1>1, <1>2, <1>3 DEF PState, PBytes
<1>5. PBuffers'
  BY <1>1, <1>2, <1>3 DEF PState, PBuffers
<1> QED BY <1>1, <1>2, <1>4, <1>5

LEMMA PSendsKept ==
  ASSUME PSends, UNCHANGED program, mem'["elkuldott"] = mem["elkuldott"], pc'["main"] = pc["main"]
  PROVE  PSends'
<1>1. P!Texts' = P!Texts /\ \A t : P!IsLast(t)' <=> P!IsLast(t)
  BY PProgram
<1> QED BY <1>1 DEF PSends, P!IsLast

LEMMA PPrintsKept ==
  ASSUME PPrints, UNCHANGED program, mem'["olvasott"] = mem["olvasott"], pc'["child"] = pc["child"],
         \A k \in 1..Len(mem["olvasott"]) : mem'["elkuldott"][k] = mem["elkuldott"][k]
  PROVE  PPrints'
<1>1. PICK n : n = Len(mem["olvasott"])
  OBVIOUS
<1>2. n \in Nat /\ (n # 0 => n \in 1..n)
  BY <1>1, LenProperties DEF PPrints
<1> QED BY <1>1, <1>2 DEF PPrints, PSame, P!IsLast

\* What is in the buffers and the pipe, and who can still read or write
LEMMA PHeld ==
  ASSUME NEW B, PState(B)
  PROVE  /\ pc["main"] = "write" => P!Holds("child", "pipefd", "r")
         /\ pc["child"] = "read" => P!Holds("main", "pipefd", "w") \/ PRead < PSent
         /\ pc["child"] = "exited" => Len(mem["olvasott"]) = Len(mem["elkuldott"])
         /\ Len(mem["olvasott"]) \in Nat /\ Len(mem["elkuldott"]) \in Nat
         /\ Len(mem["olvasott"]) <= Len(mem["elkuldott"])
         /\ pc["child"] = "printf" => Len(mem["olvasott"]) < Len(mem["elkuldott"])
<1> USE DEF PState
<1>1. PICK m, n : m = Len(mem["olvasott"]) /\ n = Len(mem["elkuldott"])
  OBVIOUS
<1>2. m \in Nat /\ n \in Nat
  BY <1>1, LenProperties DEF PSends, PPrints
<1>3. /\ PRead = m + (IF pc["child"] = "printf" THEN 1 ELSE 0)
      /\ PSent = n - (IF pc["main"] = "write" THEN 1 ELSE 0)
      /\ PRead <= PSent
  BY <1>1 DEF PRead, PSent, PBytes
<1>4. m <= n /\ (pc["main"] = "write" => m < n) /\ (pc["child"] = "printf" => m < n)
  BY <1>2, <1>3
<1>5. pc["child"] \in {"close_r", "exited"} => m = n /\ pc["main"] # "write"
  <2>1. ASSUME pc["child"] \in {"close_r", "exited"} PROVE m # 0 /\ P!IsLast(mem["elkuldott"][m])
    BY <1>1, <2>1 DEF PPrints
  <2>2. ASSUME m \in 1..n, P!IsLast(mem["elkuldott"][m]) PROVE m = n
    BY <1>1, <1>2, <2>2 DEF PSends
  <2> QED BY <1>2, <1>4, <2>1, <2>2
<1>6. pc["main"] = "write" => P!Holds("child", "pipefd", "r")
  BY <1>5 DEF PControl, PEnds, P!Holds, P!Alive, P!Gone
<1>7. pc["child"] = "read" => P!Holds("main", "pipefd", "w") \/ PRead < PSent
  <2>1. ASSUME pc["child"] = "read", pc["main"] \in {"wait", "done"} PROVE m < n
    <3>1. n # 0 /\ P!IsLast(mem["elkuldott"][n]) /\ \A k \in 1..m : ~P!IsLast(mem["elkuldott"][k])
      BY <1>1, <2>1 DEF PSends, PPrints
    <3> QED BY <1>2, <1>4, <3>1
  <2>2. ASSUME pc["child"] = "read", pc["main"] \notin {"wait", "done"} PROVE P!Holds("main", "pipefd", "w")
    BY <2>2 DEF PControl, PEnds, P!Holds, P!Alive, P!Gone
  <2> QED BY <1>2, <1>3, <2>1, <2>2
<1> QED BY <1>1, <1>2, <1>4, <1>5, <1>6, <1>7

\* Main's steps that leave the pipe and the buffers alone
LEMMA PMainCloses ==
  ASSUME NEW B, PState(B), UNCHANGED program,
         \/ P!ForkEnds
         \/ P!Close("main", "close_r", "rand", "pipefd", "r")
         \/ P!Jump("main", "while", IF P!IsLast(P!Last(mem["elkuldott"])) THEN "close_w" ELSE "rand")
         \/ P!Close("main", "close_w", "wait", "pipefd", "w")
         \/ P!Wait({"child"}, "wait", "done")
  PROVE  PState(B)'
<1>0. PControl /\ "main" \in P!Processes /\ DOMAIN pc = P!Processes /\ DOMAIN mem = PLocals
  BY DEF PState, PControl, P!Processes
<1>p. IsPipe' = IsPipe /\ P!Texts' = P!Texts /\ \A t : P!IsLast(t)' <=> P!IsLast(t)
  BY PProgram
<1>1. CASE P!ForkEnds
  <2>1. /\ pc["main"] = "fork1" /\ pc["child"] = "off" /\ UNCHANGED <<reaped, pipe>> /\ DOMAIN pc' = P!Processes
        /\ \/ /\ pc'["main"] = "close_r" /\ pc'["child"] = "close_w" /\ PSets({"ends"})
              /\ mem'["ends"] = {<<p, "pipefd", e>> : p \in P!Processes, e \in {"r", "w"}}
           \/ pc'["main"] = "exited" /\ pc'["child"] = "off" /\ PSets({"ends"})
    BY <1>0, <1>1 DEF P!ForkEnds, P!Processes, PSets, PControl, PLocals
  <2>2. PControl'
    BY <1>0, <1>p, <2>1 DEF PControl, PSets
  <2>3. PBytes(B)' /\ PBuffers' /\ mem'["elkuldott"] = mem["elkuldott"] /\ mem'["olvasott"] = mem["olvasott"]
    BY <2>1, <2>2, PKept DEF PSets
  <2>4. PEnds'
    BY <2>1 DEF PEnds, P!Processes
  <2>5. PSends'
    <3>1. mem["elkuldott"] \in Seq(P!Texts) /\ Len(mem["elkuldott"]) = 0
      BY <2>1 DEF PState, PSends
    <3> QED BY <1>p, <2>1, <2>3, <3>1 DEF PSends
  <2>6. PPrints'
    <3>1. mem["olvasott"] \in Seq(Seq(Bytes)) /\ Len(mem["olvasott"]) = 0
      BY <2>1 DEF PState, PPrints
    <3> QED BY <2>1, <2>3, <3>1 DEF PPrints
  <2> QED BY <2>2, <2>3, <2>4, <2>5, <2>6 DEF PState
<1>2. ASSUME NEW from, NEW to, PMoves("main", from, to), PSets({"ends"}), reaped' \subseteq {"child"}, UNCHANGED pipe,
             from \notin {"write", "fork1", "exited"},
             to \in {"close_r", "rand", "while", "close_w", "wait", "done"},
             \/ UNCHANGED mem
             \/ to = "rand" /\ mem'["ends"] = mem["ends"] \ {<<"main", "pipefd", "r">>}
             \/ to = "wait" /\ mem'["ends"] = mem["ends"] \ {<<"main", "pipefd", "w">>},
             to \in {"rand", "while", "close_w"} => from \in {"close_r", "rand", "while", "close_w"},
             to # "rand" => from # "close_r",
             \A k \in 1..Len(mem["elkuldott"]) :
               k < Len(mem["elkuldott"]) \/ to = "rand" => ~P!IsLast(mem["elkuldott"][k]),
             to \in {"close_w", "wait", "done"} => P!IsLast(mem["elkuldott"][Len(mem["elkuldott"])]),
             to # "rand" => Len(mem["elkuldott"]) # 0, to # "close_r"
      PROVE  PState(B)'
  <2>1. pc["main"] = from /\ pc'["main"] = to /\ DOMAIN pc' = P!Processes /\ pc'["child"] = pc["child"]
    BY <1>0, <1>2, PMovesMain
  <2>2. PControl'
    BY <1>0, <1>2, <1>p, <2>1 DEF PControl, PSets
  <2>3. PBytes(B)' /\ PBuffers' /\ mem'["elkuldott"] = mem["elkuldott"] /\ mem'["olvasott"] = mem["olvasott"]
    BY <1>2, <2>1, <2>2, PKept DEF PSets
  <2>4. PEnds'
    BY <1>2, <2>1 DEF PState, PEnds
  <2>5. PSends'
    BY <1>2, <1>p, <2>1, <2>3 DEF PState, PSends
  <2>6. PPrints'
    BY <2>1, <2>3, PPrintsKept DEF PState
  <2> QED BY <2>2, <2>3, <2>4, <2>5, <2>6 DEF PState
<1>3. PICK n : n = Len(mem["elkuldott"])
  OBVIOUS
<1>4. /\ n \in Nat /\ \A k \in 1..n : k < n \/ pc["main"] = "rand" => ~P!IsLast(mem["elkuldott"][k])
      /\ (pc["main"] \in {"fork1", "close_r", "exited"} => n = 0)
      /\ (pc["main"] \in {"write", "while", "close_w", "wait", "done"} => n # 0)
      /\ (pc["main"] \in {"close_w", "wait", "done"} => P!IsLast(mem["elkuldott"][n]))
  BY <1>3, LenProperties DEF PState, PSends
<1>5. CASE P!Close("main", "close_r", "rand", "pipefd", "r")
  <2>1. /\ PMoves("main", "close_r", "rand") /\ PSets({"ends"}) /\ UNCHANGED <<reaped, pipe>>
        /\ mem'["ends"] = mem["ends"] \ {<<"main", "pipefd", "r">>}
    BY <1>0, <1>5, PEffects
  <2>2. pc["main"] = "close_r"
    BY <2>1 DEF PMoves
  <2> QED BY <1>0, <1>2, <1>3, <1>4, <2>1, <2>2 DEF PControl
<1>6. CASE P!Jump("main", "while", IF P!IsLast(P!Last(mem["elkuldott"])) THEN "close_w" ELSE "rand")
  <2>1. PICK to : to = IF P!IsLast(P!Last(mem["elkuldott"])) THEN "close_w" ELSE "rand"
    OBVIOUS
  <2>2. /\ PMoves("main", "while", to) /\ UNCHANGED <<reaped, pipe, mem>>
    BY <1>0, <1>6, <2>1, PEffects
  <2>3. pc["main"] = "while" /\ PSets({"ends"})
    BY <2>2 DEF PMoves, PSets
  <2>4. P!Last(mem["elkuldott"]) = mem["elkuldott"][n]
    BY <1>3 DEF P!Last
  <2>5. CASE P!IsLast(mem["elkuldott"][n])
    <3>1. to = "close_w"
      BY <2>1, <2>4, <2>5
    <3> QED BY <1>0, <1>2, <1>3, <1>4, <2>2, <2>3, <2>5, <3>1 DEF PControl
  <2>6. CASE ~P!IsLast(mem["elkuldott"][n])
    <3>1. to = "rand"
      BY <2>1, <2>4, <2>6
    <3>2. \A k \in 1..n : ~P!IsLast(mem["elkuldott"][k])
      <4>1. \A k \in 1..n : k < n \/ k = n
        BY <1>4
      <4> QED BY <1>4, <2>6, <4>1
    <3> QED BY <1>0, <1>2, <1>3, <1>4, <2>2, <2>3, <3>1, <3>2 DEF PControl
  <2> QED BY <2>5, <2>6
<1>7. CASE P!Close("main", "close_w", "wait", "pipefd", "w")
  <2>1. /\ PMoves("main", "close_w", "wait") /\ PSets({"ends"}) /\ UNCHANGED <<reaped, pipe>>
        /\ mem'["ends"] = mem["ends"] \ {<<"main", "pipefd", "w">>}
    BY <1>0, <1>7, PEffects
  <2>2. pc["main"] = "close_w"
    BY <2>1 DEF PMoves
  <2> QED BY <1>0, <1>2, <1>3, <1>4, <2>1, <2>2 DEF PControl
<1>8. CASE P!Wait({"child"}, "wait", "done")
  <2>1. /\ PMoves("main", "wait", "done") /\ UNCHANGED <<pipe, mem>> /\ reaped' \subseteq {"child"}
    BY <1>0, <1>8, PEffects DEF P!Wait, PControl
  <2>2. pc["main"] = "wait" /\ PSets({"ends"})
    BY <2>1 DEF PMoves, PSets
  <2> QED BY <1>2, <1>3, <1>4, <2>1, <2>2
<1> QED BY <1>1, <1>5, <1>6, <1>7, <1>8

\* The texts up to the n-th keep their pieces when one more is put behind.
LEMMA Behind ==
  ASSUME NEW X, NEW s \in Seq(X), NEW t \in X
  PROVE  /\ Append(s, t) \in Seq(X) /\ Len(Append(s, t)) = Len(s) + 1 /\ Append(s, t)[Len(s) + 1] = t
         /\ Len(s) \in Nat /\ \A k \in 1..Len(s) : Append(s, t)[k] = s[k]
<1>1. Len(s) \in Nat
  BY LenProperties
<1> QED BY <1>1

LEMMA PTypes ==
  ASSUME NEW B, PState(B), UNCHANGED program, P!RandomNumber
  PROVE  PState(B)'
<1>0. PControl /\ "main" \in P!Processes /\ DOMAIN pc = P!Processes /\ DOMAIN mem = PLocals
  BY DEF PState, PControl, P!Processes
<1>p. /\ IsPipe' = IsPipe /\ P!Texts' = P!Texts /\ P!Written' = P!Written /\ IsPipe
      /\ \A t : P!IsLast(t)' <=> P!IsLast(t)
  BY <1>0, PProgram DEF PControl
<1>1. PICK t \in P!Texts :
        mem' = [mem EXCEPT !["mainSz"] = P!Overlay(Append(t, P!NUL), @), !["elkuldott"] = Append(@, t)]
  BY DEF P!RandomNumber
<1>2. P!Step("main", "rand", "write") /\ UNCHANGED <<reaped, pipe>>
  BY DEF P!RandomNumber
<1>3. pc["main"] = "rand" /\ pc'["main"] = "write" /\ DOMAIN pc' = P!Processes /\ pc'["child"] = pc["child"]
  BY <1>0, <1>2, PEffects, PMovesMain
<1>4. /\ mem'["mainSz"] = P!Overlay(Append(t, P!NUL), mem["mainSz"]) /\ mem'["elkuldott"] = Append(mem["elkuldott"], t)
      /\ DOMAIN mem' = PLocals /\ mem'["ends"] = mem["ends"] /\ mem'["sz"] = mem["sz"] /\ mem'["olvasott"] = mem["olvasott"]
  BY <1>0, <1>1 DEF PLocals
<1>5. PICK n, s, u : n = Len(mem["elkuldott"]) /\ s = mem["elkuldott"] /\ u = Append(s, t)
  OBVIOUS
<1>6. /\ n \in Nat /\ u \in Seq(P!Texts) /\ Len(u) = n + 1 /\ u[n + 1] = t /\ \A k \in 1..n : u[k] = s[k]
  <2>1. s \in Seq(P!Texts)
    BY <1>5 DEF PState, PSends
  <2> QED BY <1>5, <2>1, Behind
<1>7. mem'["elkuldott"] = u
  BY <1>4, <1>5
<1>8. PRead' = PRead /\ PSent' = PSent /\ PSent = n
  <2>1. PSent = n /\ PRead = Len(mem["olvasott"]) + (IF pc["child"] = "printf" THEN 1 ELSE 0)
    BY <1>3, <1>5, <1>6 DEF PSent, PRead
  <2>2. PSent' = n + 1 - 1 /\ PRead' = Len(mem["olvasott"]) + (IF pc["child"] = "printf" THEN 1 ELSE 0)
    BY <1>3, <1>4, <1>6, <1>7 DEF PSent, PRead
  <2> QED BY <1>6, <2>1, <2>2
<1>9. /\ t \in Seq(Bytes) /\ Len(t) \in {1, 2}
  BY <1>p, PTexts
<1>10. /\ mem'["mainSz"] \in Seq(Bytes) /\ Len(mem'["mainSz"]) = 4
       /\ Piece(P!Written, mem'["mainSz"], 0, t)
  <2>1. PICK a, b : a = Append(t, P!NUL) /\ b = mem["mainSz"]
    OBVIOUS
  <2>2. P!NUL \in Bytes
    BY DEF Bytes
  <2>3. /\ a \in Seq(Bytes) /\ Len(a) = Len(t) + 1 /\ a[Len(t) + 1] = P!NUL
        /\ \A k \in 1..Len(t) : a[k] = t[k]
    BY <1>9, <2>1, <2>2, Behind
  <2>4. b \in Seq(Bytes) /\ Len(b) = 4
    BY <2>1 DEF PState, PBuffers
  <2>5. Len(a) <= Len(b)
    BY <1>9, <2>3, <2>4
  <2>6. PICK o : o = P!Overlay(a, b)
    OBVIOUS
  <2>7. /\ o \in Seq(Bytes) /\ Len(o) = 4 /\ \A k \in 1..4 : o[k] = IF k <= Len(a) THEN a[k] ELSE b[k]
    BY <2>3, <2>4, <2>5, <2>6, Overlaid
  <2>8. o[1] = t[1] /\ o[2] = (IF Len(t) = 1 THEN P!NUL ELSE t[2]) /\ (Len(t) = 2 => o[3] = P!NUL)
    BY <1>9, <2>3, <2>7
  <2>9. Piece(P!Written, o, 0, t)
    BY <2>8 DEF Piece
  <2> QED BY <1>4, <2>1, <2>6, <2>7, <2>9
<1>11. PControl'
  BY <1>0, <1>2, <1>3, <1>4, <1>p DEF PControl
<1>12. PEnds'
  BY <1>3, <1>4 DEF PState, PEnds
<1>13. PSends'
  <2>1. \A k \in 1..n : ~P!IsLast(s[k])
    BY <1>3, <1>5 DEF PState, PSends
  <2>2. \A k \in 1..(n + 1) : k < n + 1 => k \in 1..n
    BY <1>6
  <2>3. \A k \in 1..Len(u) : k < Len(u) => ~P!IsLast(u[k])
    BY <1>6, <2>1, <2>2
  <2> QED BY <1>3, <1>6, <1>7, <1>p, <2>3 DEF PSends
<1>14. Len(mem["olvasott"]) \in Nat /\ Len(mem["olvasott"]) <= n
  BY <1>5, PHeld
<1>15. PPrints'
  <2>1. \A k \in 1..Len(mem["olvasott"]) : mem'["elkuldott"][k] = mem["elkuldott"][k]
    BY <1>5, <1>6, <1>7, <1>14
  <2> QED BY <1>3, <1>4, <2>1, PPrintsKept DEF PState
<1>16. PBuffers'
  <2>1. pc["child"] = "printf" => mem'["elkuldott"][PRead] = mem["elkuldott"][PRead]
    <3>1. pc["child"] = "printf" => PRead = Len(mem["olvasott"]) + 1 /\ Len(mem["olvasott"]) < n
      BY <1>5, PHeld DEF PRead
    <3> QED BY <1>5, <1>6, <1>7, <1>14, <3>1
  <2> QED BY <1>3, <1>4, <1>6, <1>7, <1>8, <1>10, <1>p, <2>1 DEF PState, PBuffers
<1>17. PBytes(B)'
  BY <1>2, <1>5, <1>6, <1>7, <1>8, <1>p DEF PState, PBytes
<1> QED BY <1>11, <1>12, <1>13, <1>15, <1>16, <1>17 DEF PState

LEMMA PWrites ==
  ASSUME NEW B, PState(B), UNCHANGED program,
         P!WriteBytes("main", "write", "while", "pipefd", SubSeq(mem["mainSz"], 1, P!Written))
  PROVE  \E H : PState(H)'
<1>0. PControl /\ "main" \in P!Processes /\ DOMAIN pc = P!Processes /\ DOMAIN mem = PLocals /\ DOMAIN pipe = {"pipefd"}
  BY DEF PState, PControl, P!Processes
<1>p. /\ IsPipe' = IsPipe /\ P!Texts' = P!Texts /\ P!Written' = P!Written /\ IsPipe
      /\ \A t : P!IsLast(t)' <=> P!IsLast(t)
  BY <1>0, PProgram DEF PControl
<1>1. PICK w : w = P!Written
  OBVIOUS
<1>2. w \in {2, 3}
  BY <1>1, <1>p, PTexts
<1>3. PICK t : t = SubSeq(mem["mainSz"], 1, w)
  OBVIOUS
<1>4. pc["main"] = "write"
  BY DEF P!WriteBytes, P!Step
<1>5. P!Somebody("pipefd", "r")
  <2>1. P!Holds("child", "pipefd", "r") /\ "child" \in DOMAIN pc
    BY <1>0, <1>4, PHeld DEF P!Processes
  <2> QED BY <2>1, Zenon DEF P!Somebody
<1>6. /\ Len(pipe["pipefd"]) + Len(t) <= P!PipeBytes /\ P!Step("main", "write", "while")
      /\ pipe' = [pipe EXCEPT !["pipefd"] = @ \o t]
      /\ mem' = [mem EXCEPT !["merged"] = @ \/ pipe["pipefd"] # <<>>] /\ UNCHANGED reaped
  BY <1>1, <1>3, <1>5 DEF P!WriteBytes
<1>7. pc'["main"] = "while" /\ DOMAIN pc' = P!Processes /\ pc'["child"] = pc["child"]
  BY <1>0, <1>6, PEffects, PMovesMain
<1>8. pipe'["pipefd"] = pipe["pipefd"] \o t /\ DOMAIN pipe' = {"pipefd"}
  BY <1>0, <1>6
<1>9. /\ DOMAIN mem' = PLocals /\ mem'["ends"] = mem["ends"] /\ mem'["sz"] = mem["sz"] /\ mem'["olvasott"] = mem["olvasott"]
      /\ mem'["mainSz"] = mem["mainSz"] /\ mem'["elkuldott"] = mem["elkuldott"]
  BY <1>0, <1>6 DEF PLocals
<1>10. PICK n, s : n = Len(mem["elkuldott"]) /\ s = mem["elkuldott"]
  OBVIOUS
<1>11. n \in Nat \ {0} /\ PSent = n - 1 /\ PSent' = n /\ PRead' = PRead
  <2>1. n \in Nat \ {0}
    BY <1>4, <1>10, LenProperties DEF PState, PSends
  <2> QED BY <1>4, <1>7, <1>9, <1>10, <2>1 DEF PSent, PRead
<1>12. t \in Seq(Bytes) /\ Len(t) = w /\ \A k \in 1..w : t[k] = mem["mainSz"][k]
  <2>1. PICK b : b = mem["mainSz"]
    OBVIOUS
  <2>2. b \in Seq(Bytes) /\ Len(b) = 4
    BY <2>1 DEF PState, PBuffers
  <2>3. w \in Nat /\ \A k \in 1..w : b[k] \in Bytes
    BY <1>2, <2>2, ElementOfSeq
  <2> QED BY <1>3, <2>1, <2>3, Beginning
<1>13. /\ PRead \in Nat /\ PRead <= n - 1 /\ Stream(pipe["pipefd"], B, w * PRead, w * (n - 1))
       /\ \A k \in 1..(n - 1) : Piece(w, B, w * (k - 1), s[k])
  BY <1>1, <1>10, <1>11 DEF PState, PBytes
<1>14. PICK H : /\ Stream(pipe["pipefd"] \o t, H, w * PRead, w * (n - 1) + w)
                /\ \A k \in 1..(w * (n - 1)) : H[k] = B[k]
                /\ \A k \in 1..w : H[w * (n - 1) + k] = t[k]
  <2>1. PICK q, r, z : q = pipe["pipefd"] /\ r = w * PRead /\ z = w * (n - 1)
    OBVIOUS
  <2>2. Stream(q, B, r, z) /\ Len(q) + Len(t) <= P!PipeBytes
    BY <1>6, <1>13, <2>1
  <2>3. \E H : Stream(q \o t, H, r, z + Len(t)) /\ Longer(H, B, z, t)
    BY <1>12, <2>2, StreamWritten, Zenon
  <2> QED BY <1>12, <2>1, <2>3, Zenon DEF Longer
<1>15. w * (n - 1) \in Nat /\ w * (n - 1) + w = w * n
  BY <1>2, <1>11, Times
<1>16. Stream(pipe'["pipefd"], H, w * PRead, w * n)
  BY <1>8, <1>14, <1>15
<1>17. ASSUME NEW k \in 1..(n - 1) PROVE Piece(w, H, w * (k - 1), s[k])
  <2>1. k - 1 \in Nat /\ n - 1 \in Nat /\ k - 1 < n - 1
    BY <1>11
  <2>2. w * (k - 1) \in Nat /\ w * (k - 1) + w <= w * (n - 1)
    BY <1>2, <2>1, Times
  <2>3. PICK m, z : m = w * (k - 1) /\ z = w * (n - 1)
    OBVIOUS
  <2>4. m \in Nat /\ z \in Nat /\ m + w <= z
    BY <1>15, <2>2, <2>3
  <2>5. /\ m + 1 \in 1..z /\ m + 2 \in 1..z /\ (w = 3 => m + 3 \in 1..z)
    BY <1>2, <2>4
  <2>6. /\ H[m + 1] = B[m + 1] /\ H[m + 2] = B[m + 2] /\ (w = 3 => H[m + 3] = B[m + 3])
    BY <1>14, <2>3, <2>5
  <2>7. Piece(w, B, m, s[k])
    BY <1>13, <2>3
  <2> QED BY <2>3, <2>6, <2>7 DEF Piece
<1>18. Piece(w, H, w * (n - 1), s[n])
  <2>1. PICK m : m = w * (n - 1)
    OBVIOUS
  <2>2. Piece(w, mem["mainSz"], 0, s[n])
    BY <1>1, <1>4, <1>10 DEF PState, PBuffers
  <2>3. /\ H[m + 1] = t[1] /\ H[m + 2] = t[2] /\ (w = 3 => H[m + 3] = t[3])
    BY <1>2, <1>14, <2>1
  <2>4. /\ t[1] = mem["mainSz"][1] /\ t[2] = mem["mainSz"][2] /\ (w = 3 => t[3] = mem["mainSz"][3])
    BY <1>2, <1>12
  <2>5. /\ mem["mainSz"][1] = s[n][1] /\ mem["mainSz"][2] = (IF Len(s[n]) = 1 THEN P!NUL ELSE s[n][2])
        /\ (w = 3 /\ Len(s[n]) = 2 => mem["mainSz"][3] = P!NUL)
    BY <2>2 DEF Piece
  <2>6. Piece(w, H, m, s[n])
    BY <2>3, <2>4, <2>5 DEF Piece
  <2> QED BY <2>1, <2>6
<1>19. PBytes(H)'
  <2>1. \A k \in 1..n : Piece(w, H, w * (k - 1), s[k])
    <3>1. \A k \in 1..n : k \in 1..(n - 1) \/ k = n
      BY <1>11
    <3> QED BY <1>17, <1>18, <3>1
  <2>2. PRead' \in Nat /\ PSent' \in Nat /\ PRead' <= PSent'
    BY <1>11, <1>13
  <2>3. Stream(pipe'["pipefd"], H, P!Written' * PRead', P!Written' * PSent')
    BY <1>1, <1>11, <1>16, <1>p
  <2>4. \A k \in 1..PSent' : Piece(P!Written', H, P!Written' * (k - 1), mem'["elkuldott"][k])
    BY <1>1, <1>9, <1>10, <1>11, <1>p, <2>1
  <2> QED BY <2>2, <2>3, <2>4 DEF PBytes
<1>20. PControl'
  BY <1>0, <1>4, <1>6, <1>7, <1>8, <1>9, <1>p DEF PControl
<1>21. PEnds'
  BY <1>4, <1>7, <1>9 DEF PState, PEnds
<1>22. PSends'
  BY <1>4, <1>7, <1>9, <1>p DEF PState, PSends
<1>23. PPrints'
  BY <1>7, <1>9, PPrintsKept DEF PState
<1>24. PBuffers'
  BY <1>7, <1>9, <1>11, <1>p DEF PState, PBuffers
<1> QED BY <1>19, <1>20, <1>21, <1>22, <1>23, <1>24 DEF PState

LEMMA PPrefixIs ==
  ASSUME NEW X, NEW s \in Seq(X), NEW t \in Seq(X), Len(s) <= Len(t),
         \A k \in 1..Len(s) : s[k] = t[k]
  PROVE  P!IsPrefix(s, t)
<1>1. SubSeq(s, 1, Len(s)) = SubSeq(t, 1, Len(s))
  BY DEF SubSeq
<1> QED BY <1>1 DEF P!IsPrefix

\* What is printed is the text that was read.
LEMMA PPrinted ==
  ASSUME IsPipe, NEW t \in P!Texts, NEW b \in Seq(Bytes), Len(b) = 4, Piece(P!Written, b, 0, t)
  PROVE  P!CString(b) \in Seq(Bytes) /\ PSame(P!CString(b), t)
<1>1. /\ t \in Seq(Bytes) /\ Len(t) \in {1, 2} /\ (program = "pipe" => Len(t) = 1)
      /\ \A k \in 1..Len(t) : t[k] # P!NUL
  BY PTexts
<1>2. P!Written \in {2, 3} /\ (program = "pipe3" <=> P!Written = 3)
  BY PTexts
<1>3. /\ b[1] = t[1] /\ b[2] = (IF Len(t) = 1 THEN P!NUL ELSE t[2])
      /\ (P!Written = 3 /\ Len(t) = 2 => b[3] = P!NUL)
  BY DEF Piece
<1>4. PICK c : c = P!CString(b)
  OBVIOUS
<1>5. \A k \in 1..Len(t) : b[k] = t[k] /\ b[k] # P!NUL
  BY <1>1, <1>3
<1>6. /\ c \in Seq(Bytes) /\ Len(t) <= Len(c) /\ \A k \in 1..Len(c) : c[k] = b[k]
      /\ (Len(t) < 4 /\ b[Len(t) + 1] = P!NUL => Len(c) = Len(t))
  <2>1. Len(t) \in 0..Len(b) /\ \A k \in 1..Len(t) : b[k] # P!NUL
    BY <1>1, <1>5
  <2>2. PICK n : n = Len(t)
    OBVIOUS
  <2>3. n \in 0..Len(b) /\ \A k \in 1..n : b[k] # P!NUL
    BY <2>1, <2>2
  <2>4. /\ c \in Seq(Bytes) /\ n <= Len(c) /\ \A k \in 1..Len(c) : c[k] = b[k]
        /\ (n < Len(b) /\ b[n + 1] = P!NUL => Len(c) = n)
    BY <1>4, <2>3, StringIn
  <2> QED BY <2>2, <2>4
<1>7. Len(c) \in Nat /\ \A k \in 1..Len(t) : c[k] = t[k]
  <2>1. Len(c) \in Nat
    BY <1>6, LenProperties
  <2>2. \A k \in 1..Len(t) : k \in 1..Len(c)
    BY <1>1, <1>6, <2>1
  <2> QED BY <1>5, <1>6, <2>1, <2>2
<1>8. CASE Len(t) = 1 \/ P!Written = 3
  <2>1. Len(c) = Len(t)
    <3>1. Len(t) < 4 /\ b[Len(t) + 1] = P!NUL
      BY <1>1, <1>3, <1>8
    <3> QED BY <1>6, <3>1
  <2>2. c = t
    BY <1>1, <1>6, <1>7, <2>1, SeqEqual
  <2> QED BY <1>4, <1>6, <2>2 DEF PSame
<1>9. CASE Len(t) = 2 /\ P!Written = 2
  <2>1. program = "pipe2"
    BY <1>1, <1>2, <1>9 DEF IsPipe
  <2>2. P!IsPrefix(t, c)
    BY <1>1, <1>6, <1>7, PPrefixIs
  <2> QED BY <1>4, <1>6, <1>9, <2>1, <2>2 DEF PSame
<1> QED BY <1>1, <1>2, <1>8, <1>9

LEMMA PSameLast ==
  ASSUME IsPipe, NEW u, NEW t, PSame(u, t) PROVE P!IsLast(u) <=> P!IsLast(t)
<1>1. CASE program = "pipe3"
  BY <1>1 DEF PSame
<1>2. CASE program # "pipe3"
  BY <1>2, PTexts
<1> QED BY <1>1, <1>2

LEMMA PPrints1 ==
  ASSUME NEW B, PState(B), UNCHANGED program,
         P!Assign("child", "printf", "while", "olvasott", Append(mem["olvasott"], P!CString(mem["sz"])))
  PROVE  PState(B)'
<1>0. PControl /\ "child" \in P!Processes /\ DOMAIN pc = P!Processes /\ DOMAIN mem = PLocals
  BY DEF PState, PControl, P!Processes
<1>p. /\ IsPipe' = IsPipe /\ P!Texts' = P!Texts /\ P!Written' = P!Written /\ IsPipe
      /\ (\A t : P!IsLast(t)' <=> P!IsLast(t)) /\ \A t, u : PSame(t, u)' <=> PSame(t, u)
  BY <1>0, PProgram DEF PControl
<1>1. PICK c : c = P!CString(mem["sz"])
  OBVIOUS
<1>2. /\ P!Step("child", "printf", "while") /\ UNCHANGED <<reaped, pipe>>
      /\ mem' = [mem EXCEPT !["olvasott"] = Append(mem["olvasott"], c)]
  BY <1>1 DEF P!Assign
<1>3. pc["child"] = "printf" /\ pc'["child"] = "while" /\ DOMAIN pc' = P!Processes /\ pc'["main"] = pc["main"]
  BY <1>0, <1>2, PEffects, PMovesChild
<1>4. /\ DOMAIN mem' = PLocals /\ mem'["ends"] = mem["ends"] /\ mem'["sz"] = mem["sz"]
      /\ mem'["mainSz"] = mem["mainSz"] /\ mem'["elkuldott"] = mem["elkuldott"]
      /\ mem'["olvasott"] = Append(mem["olvasott"], c)
  BY <1>0, <1>2 DEF PLocals
<1>5. PICK m, s, u : m = Len(mem["olvasott"]) /\ s = mem["olvasott"] /\ u = Append(s, c)
  OBVIOUS
<1>6. m \in Nat /\ m < Len(mem["elkuldott"]) /\ Len(mem["elkuldott"]) \in Nat /\ PRead = m + 1
  BY <1>3, <1>5, PHeld DEF PRead
<1>7. c \in Seq(Bytes) /\ PSame(c, mem["elkuldott"][m + 1])
  <2>1. mem["elkuldott"][m + 1] \in P!Texts
    <3>1. m + 1 \in 1..Len(mem["elkuldott"]) /\ mem["elkuldott"] \in Seq(P!Texts)
      BY <1>6 DEF PState, PSends
    <3> QED BY <3>1, ElementOfSeq
  <2>2. /\ mem["sz"] \in Seq(Bytes) /\ Len(mem["sz"]) = 4
        /\ Piece(P!Written, mem["sz"], 0, mem["elkuldott"][m + 1])
    BY <1>3, <1>6 DEF PState, PBuffers
  <2> QED BY <1>1, <1>p, <2>1, <2>2, PPrinted
<1>8. u \in Seq(Seq(Bytes)) /\ Len(u) = m + 1 /\ u[m + 1] = c /\ \A k \in 1..m : u[k] = s[k]
  <2>1. s \in Seq(Seq(Bytes))
    BY <1>5 DEF PState, PPrints
  <2> QED BY <1>5, <1>7, <2>1, Behind
<1>9. mem'["olvasott"] = u
  BY <1>4, <1>5
<1>10. PRead' = PRead /\ PSent' = PSent
  BY <1>3, <1>4, <1>6, <1>8, <1>9 DEF PRead, PSent
<1>11. PControl'
  BY <1>0, <1>2, <1>3, <1>4, <1>p DEF PControl
<1>12. PEnds'
  BY <1>3, <1>4 DEF PState, PEnds
<1>13. PSends'
  BY <1>3, <1>4, PSendsKept DEF PState
<1>14. PPrints'
  <2>1. \A k \in 1..m : PSame(s[k], mem["elkuldott"][k])
    BY <1>5 DEF PState, PPrints
  <2>2. \A k \in 1..(m + 1) : k \in 1..m \/ k = m + 1
    BY <1>6
  <2>3. \A k \in 1..(m + 1) : PSame(u[k], mem["elkuldott"][k])
    BY <1>7, <1>8, <2>1, <2>2
  <2>4. m + 1 # 0
    BY <1>6
  <2> QED BY <1>3, <1>4, <1>8, <1>9, <1>p, <2>3, <2>4 DEF PPrints
<1>15. PBuffers'
  BY <1>3, <1>4, <1>p DEF PState, PBuffers
<1>16. PBytes(B)'
  BY <1>2, <1>4, <1>10, <1>p DEF PState, PBytes
<1> QED BY <1>11, <1>12, <1>13, <1>14, <1>15, <1>16 DEF PState

LEMMA PChildCloses ==
  ASSUME NEW B, PState(B), UNCHANGED program,
         \/ P!Close("child", "close_w", "read", "pipefd", "w")
         \/ P!Jump("child", "while", IF P!IsLast(P!Last(mem["olvasott"])) THEN "close_r" ELSE "read")
         \/ P!Close("child", "close_r", "exited", "pipefd", "r")
  PROVE  PState(B)'
<1>0. PControl /\ "child" \in P!Processes /\ DOMAIN pc = P!Processes /\ DOMAIN mem = PLocals
  BY DEF PState, PControl, P!Processes
<1>p. IsPipe' = IsPipe /\ IsPipe /\ \A t : P!IsLast(t)' <=> P!IsLast(t)
  BY <1>0, PProgram DEF PControl
<1>1. PICK m, s : m = Len(mem["olvasott"]) /\ s = mem["elkuldott"]
  OBVIOUS
<1>2. /\ m \in Nat /\ mem["olvasott"] \in Seq(Seq(Bytes))
      /\ (pc["child"] \in {"off", "close_w"} => m = 0) /\ (pc["child"] = "while" => m # 0)
      /\ (pc["child"] \in {"close_r", "exited"} => m # 0 /\ P!IsLast(s[m]))
      /\ \A k \in 1..m : PSame(mem["olvasott"][k], s[k])
  BY <1>1, LenProperties DEF PState, PPrints
<1>3. ASSUME NEW from, NEW to, PMoves("child", from, to), PSets({"ends"}), UNCHANGED <<reaped, pipe>>,
             from \in {"close_w", "while", "close_r"}, to \in {"read", "close_r", "exited"},
             \/ UNCHANGED mem /\ from # "close_w" /\ to # "exited"
             \/ from = "close_w" /\ to = "read" /\ mem'["ends"] = mem["ends"] \ {<<"child", "pipefd", "w">>}
             \/ from = "close_r" /\ to = "exited" /\ mem'["ends"] = mem["ends"] \ {<<"child", "pipefd", "r">>},
             to = "read" => \A k \in 1..m : ~P!IsLast(s[k]),
             to # "read" => m # 0 /\ P!IsLast(s[m])
      PROVE  PState(B)'
  <2>1. pc["child"] = from /\ pc'["child"] = to /\ DOMAIN pc' = P!Processes /\ pc'["main"] = pc["main"]
    BY <1>0, <1>3, PMovesChild
  <2>2. PControl'
    BY <1>0, <1>3, <1>p, <2>1 DEF PControl, PSets
  <2>3. PBytes(B)' /\ PBuffers' /\ mem'["elkuldott"] = mem["elkuldott"] /\ mem'["olvasott"] = mem["olvasott"]
    BY <1>3, <2>1, <2>2, PKept DEF PSets
  <2>4. PEnds'
    BY <1>3, <2>1 DEF PState, PEnds
  <2>5. PSends'
    BY <2>1, <2>3, PSendsKept DEF PState
  <2>6. PPrints'
    <3>1. \A k \in 1..m : PSame(mem["olvasott"][k], s[k])'
      BY <1>1, <1>2, <2>3, PProgram
    <3>2. mem'["elkuldott"] = s
      BY <1>1, <2>3
    <3> QED BY <1>1, <1>2, <1>3, <1>p, <2>1, <2>3, <3>1, <3>2 DEF PPrints, PSame
  <2> QED BY <2>2, <2>3, <2>4, <2>5, <2>6 DEF PState
<1>4. CASE P!Close("child", "close_w", "read", "pipefd", "w")
  <2>1. /\ PMoves("child", "close_w", "read") /\ PSets({"ends"}) /\ UNCHANGED <<reaped, pipe>>
        /\ mem'["ends"] = mem["ends"] \ {<<"child", "pipefd", "w">>}
    BY <1>0, <1>4, PEffects
  <2>2. pc["child"] = "close_w"
    BY <2>1 DEF PMoves
  <2>3. m = 0 /\ \A k \in 1..m : ~P!IsLast(s[k])
    BY <1>2, <2>2
  <2> QED BY <1>3, <2>1, <2>3
<1>5. CASE P!Jump("child", "while", IF P!IsLast(P!Last(mem["olvasott"])) THEN "close_r" ELSE "read")
  <2>1. PICK to : to = IF P!IsLast(P!Last(mem["olvasott"])) THEN "close_r" ELSE "read"
    OBVIOUS
  <2>2. PMoves("child", "while", to) /\ UNCHANGED <<reaped, pipe, mem>>
    BY <1>0, <1>5, <2>1, PEffects
  <2>3. pc["child"] = "while" /\ PSets({"ends"})
    BY <2>2 DEF PMoves, PSets
  <2>4. P!Last(mem["olvasott"]) = mem["olvasott"][m] /\ m \in 1..m
    BY <1>1, <1>2, <2>3 DEF P!Last
  <2>5. P!IsLast(mem["olvasott"][m]) <=> P!IsLast(s[m])
    BY <1>2, <1>p, <2>4, PSameLast
  <2>6. CASE P!IsLast(s[m])
    <3>1. to = "close_r"
      BY <2>1, <2>4, <2>5, <2>6
    <3> QED BY <1>2, <1>3, <2>2, <2>3, <2>6, <3>1
  <2>7. CASE ~P!IsLast(s[m])
    <3>1. to = "read"
      BY <2>1, <2>4, <2>5, <2>7
    <3>2. \A k \in 1..m : ~P!IsLast(s[k])
      <4>1. m <= Len(s) /\ Len(s) \in Nat
        BY <1>1, PHeld
      <4>2. \A k \in 1..Len(s) : k < Len(s) => ~P!IsLast(s[k])
        BY <1>1 DEF PState, PSends
      <4>3. \A k \in 1..m : k = m \/ (k \in 1..Len(s) /\ k < Len(s))
        BY <1>2, <4>1
      <4> QED BY <2>7, <4>2, <4>3
    <3> QED BY <1>3, <2>2, <2>3, <3>1, <3>2
  <2> QED BY <2>6, <2>7
<1>6. CASE P!Close("child", "close_r", "exited", "pipefd", "r")
  <2>1. /\ PMoves("child", "close_r", "exited") /\ PSets({"ends"}) /\ UNCHANGED <<reaped, pipe>>
        /\ mem'["ends"] = mem["ends"] \ {<<"child", "pipefd", "r">>}
    BY <1>0, <1>6, PEffects
  <2>2. pc["child"] = "close_r"
    BY <2>1 DEF PMoves
  <2> QED BY <1>2, <1>3, <2>1, <2>2
<1> QED BY <1>4, <1>5, <1>6

\* A read takes exactly one piece.
LEMMA PTakes ==
  ASSUME NEW B, PState(B), pc["child"] = "read", pipe["pipefd"] # <<>> \/ ~P!Somebody("pipefd", "w")
  PROVE  /\ PRead < PSent /\ PRead \in Nat /\ PSent \in Nat
         /\ P!Min({P!Asked, Len(pipe["pipefd"])}) = P!Written
<1>0. PControl /\ IsPipe /\ "main" \in DOMAIN pc
  BY DEF PState, PControl, P!Processes
<1>1. PICK w, r, s, q : w = P!Written /\ r = PRead /\ s = PSent /\ q = pipe["pipefd"]
  OBVIOUS
<1>2. w \in {2, 3} /\ P!Asked \in {2, 3, 4} /\ P!Asked >= w /\ (P!Asked # w => program = "pipe")
  BY <1>0, <1>1, PTexts
<1>3. r \in Nat /\ s \in Nat /\ r <= s /\ Stream(q, B, w * r, w * s)
  BY <1>1 DEF PState, PBytes
<1>4. Len(q) = w * s - w * r /\ q \in Seq(Bytes)
  BY <1>3, StreamIs
<1>5. r < s
  <2>1. ASSUME r = s PROVE FALSE
    <3>1. Len(q) = 0
      <4>1. w * r \in Nat
        BY <1>2, <1>3, Times
      <4>2. PICK z : z = w * r
        OBVIOUS
      <4> QED BY <1>4, <2>1, <4>1, <4>2
    <3>2. q = <<>>
      BY <1>4, <3>1, EmptySeq
    <3>3. P!Holds("main", "pipefd", "w")
      BY <1>1, <2>1, <1>3, PHeld
    <3>4. P!Somebody("pipefd", "w")
      BY <1>0, <3>3, Zenon DEF P!Somebody
    <3> QED BY <1>1, <3>2, <3>4
  <2> QED BY <1>3, <2>1
<1>6. w * r + w <= w * s /\ w * r \in Nat /\ w * s \in Nat
  BY <1>2, <1>3, <1>5, Times
<1>7. Len(q) >= w /\ Len(q) \in Nat
  <2>1. PICK a, b : a = w * r /\ b = w * s
    OBVIOUS
  <2>2. a \in Nat /\ b \in Nat /\ a + w <= b /\ Len(q) = b - a
    BY <1>4, <1>6, <2>1
  <2> QED BY <1>2, <2>2
<1>8. CASE P!Asked = w
  <2>1. P!Min({P!Asked, Len(q)}) = w
    BY <1>2, <1>7, <1>8, LeastOfTwo
  <2> QED BY <1>1, <1>3, <1>5, <2>1
<1>9. CASE P!Asked # w
  <2>1. program = "pipe" /\ \A t : P!IsLast(t)
    BY <1>0, <1>2, <1>9, PTexts
  <2>2. PICK n : n = Len(mem["elkuldott"])
    OBVIOUS
  <2>3. n \in Nat /\ s <= n
    <3>1. n \in Nat
      BY <2>2, PHeld
    <3>2. s = n - (IF pc["main"] = "write" THEN 1 ELSE 0)
      BY <1>1, <2>2 DEF PSent
    <3> QED BY <3>1, <3>2
  <2>4. ~(1 < n)
    <3>1. \A k \in 1..n : ~(k < n)
      BY <2>1, <2>2 DEF PState, PSends
    <3> QED BY <2>3, <3>1
  <2>5. r = 0 /\ s = 1
    BY <1>3, <1>5, <2>3, <2>4
  <2>6. w = 2 /\ P!Asked = 4
    BY <1>1, <2>1 DEF P!Written, P!Asked
  <2>7. Len(q) = 2
    BY <1>4, <2>5, <2>6
  <2>8. P!Min({P!Asked, Len(q)}) = w
    BY <2>6, <2>7, LeastOfTwo
  <2> QED BY <1>1, <1>3, <1>5, <2>8
<1> QED BY <1>8, <1>9

LEMMA PReads ==
  ASSUME NEW B, PState(B), UNCHANGED program,
         P!ReadBytes("child", "read", "printf", "pipefd", P!Asked, "sz")
  PROVE  PState(B)'
<1>0. PControl /\ "child" \in P!Processes /\ DOMAIN pc = P!Processes /\ DOMAIN mem = PLocals /\ DOMAIN pipe = {"pipefd"}
  BY DEF PState, PControl, P!Processes
<1>p. IsPipe' = IsPipe /\ IsPipe /\ P!Written' = P!Written
  BY <1>0, PProgram DEF PControl
<1>1. PICK w, r, s, q : w = P!Written /\ r = PRead /\ s = PSent /\ q = pipe["pipefd"]
  OBVIOUS
<1>2. w \in {2, 3}
  BY <1>1, <1>p, PTexts
<1>3. pc["child"] = "read" /\ (pipe["pipefd"] # <<>> \/ ~P!Somebody("pipefd", "w"))
  BY DEF P!ReadBytes, P!Step
<1>4. r < s /\ r \in Nat /\ s \in Nat /\ P!Min({P!Asked, Len(q)}) = w
  BY <1>1, <1>3, PTakes
<1>5. PICK got : got = SubSeq(q, 1, w)
  OBVIOUS
<1>6. /\ P!Step("child", "read", "printf") /\ UNCHANGED reaped
      /\ mem' = [mem EXCEPT !["sz"] = P!Overlay(got, @)]
      /\ pipe' = [pipe EXCEPT !["pipefd"] = SubSeq(@, Len(got) + 1, Len(@))]
  BY <1>1, <1>4, <1>5 DEF P!ReadBytes
<1>7. pc'["child"] = "printf" /\ DOMAIN pc' = P!Processes /\ pc'["main"] = pc["main"]
  BY <1>0, <1>6, PEffects, PMovesChild
<1>8. /\ DOMAIN mem' = PLocals /\ mem'["ends"] = mem["ends"] /\ mem'["mainSz"] = mem["mainSz"]
      /\ mem'["elkuldott"] = mem["elkuldott"] /\ mem'["olvasott"] = mem["olvasott"]
      /\ mem'["sz"] = P!Overlay(got, mem["sz"])
      /\ DOMAIN pipe' = {"pipefd"} /\ pipe'["pipefd"] = SubSeq(q, Len(got) + 1, Len(q))
  BY <1>0, <1>1, <1>6 DEF PLocals
<1>9. /\ Stream(q, B, w * r, w * s) /\ \A k \in 1..s : Piece(w, B, w * (k - 1), mem["elkuldott"][k])
  BY <1>1 DEF PState, PBytes
<1>10. w * r \in Nat /\ w * r + w <= w * s /\ w * (r + 1) = w * r + w
  BY <1>2, <1>4, Times
<1>11. /\ got \in Seq(Bytes) /\ Len(got) = w /\ \A k \in 1..w : got[k] = B[w * r + k]
       /\ Stream(SubSeq(q, w + 1, Len(q)), B, w * r + w, w * s)
  <2>1. PICK a, b : a = w * r /\ b = w * s
    OBVIOUS
  <2>2. Stream(q, B, a, b) /\ w \in Nat /\ a + w <= b
    BY <1>2, <1>9, <1>10, <2>1
  <2>3. /\ SubSeq(q, 1, w) \in Seq(Bytes) /\ Len(SubSeq(q, 1, w)) = w
        /\ \A k \in 1..w : SubSeq(q, 1, w)[k] = B[a + k]
        /\ Stream(SubSeq(q, w + 1, Len(q)), B, a + w, b)
    BY <2>2, StreamRead
  <2> QED BY <1>5, <2>1, <2>3
<1>12. PRead' = r + 1 /\ PSent' = s
  BY <1>1, <1>3, <1>4, <1>7, <1>8, PHeld DEF PRead, PSent
<1>13. PICK t : t = mem["elkuldott"][r + 1]
  OBVIOUS
<1>14. /\ mem'["sz"] \in Seq(Bytes) /\ Len(mem'["sz"]) = 4 /\ Piece(w, mem'["sz"], 0, t)
  <2>1. PICK b, o : b = mem["sz"] /\ o = P!Overlay(got, b)
    OBVIOUS
  <2>2. b \in Seq(Bytes) /\ Len(b) = 4
    BY <2>1 DEF PState, PBuffers
  <2>3. Len(got) <= Len(b)
    BY <1>2, <1>11, <2>2
  <2>4. o \in Seq(Bytes) /\ Len(o) = 4 /\ \A k \in 1..4 : o[k] = IF k <= Len(got) THEN got[k] ELSE b[k]
    <3>1. /\ o \in Seq(Bytes) /\ Len(o) = Len(b)
          /\ \A k \in 1..Len(b) : o[k] = IF k <= Len(got) THEN got[k] ELSE b[k]
      BY <1>11, <2>1, <2>2, <2>3, Overlaid
    <3> QED BY <2>2, <3>1
  <2>5. PICK a : a = w * r
    OBVIOUS
  <2>6. Piece(w, B, a, t)
    <3>1. PICK k : k = r + 1
      OBVIOUS
    <3>2. k \in 1..s /\ k - 1 = r
      BY <1>4, <3>1
    <3> QED BY <1>9, <1>13, <2>5, <3>1, <3>2, Zenon
  <2>7. o[1] = B[a + 1] /\ o[2] = B[a + 2] /\ (w = 3 => o[3] = B[a + 3])
    BY <1>2, <1>11, <2>4, <2>5
  <2>8. Piece(w, o, 0, t)
    BY <2>6, <2>7 DEF Piece
  <2> QED BY <1>8, <2>1, <2>4, <2>8
<1>15. PControl'
  BY <1>0, <1>3, <1>6, <1>7, <1>8, <1>p DEF PControl
<1>16. PEnds'
  BY <1>3, <1>7, <1>8 DEF PState, PEnds
<1>17. PSends'
  BY <1>7, <1>8, PSendsKept DEF PState
<1>18. PPrints'
  BY <1>3, <1>7, <1>8 DEF PState, PPrints, PSame, P!IsLast
<1>19. PBuffers'
  BY <1>1, <1>7, <1>8, <1>12, <1>13, <1>14, <1>p DEF PState, PBuffers
<1>20. PBytes(B)'
  <2>1. PRead' \in Nat /\ PSent' \in Nat /\ PRead' <= PSent'
    BY <1>4, <1>12
  <2>2. Stream(pipe'["pipefd"], B, P!Written' * PRead', P!Written' * PSent')
    BY <1>1, <1>8, <1>10, <1>11, <1>12, <1>p
  <2>3. \A k \in 1..PSent' : Piece(P!Written', B, P!Written' * (k - 1), mem'["elkuldott"][k])
    BY <1>1, <1>8, <1>9, <1>12, <1>p
  <2> QED BY <2>1, <2>2, <2>3 DEF PBytes
<1> QED BY <1>15, <1>16, <1>17, <1>18, <1>19, <1>20 DEF PState

LEMMA PInitially == ASSUME P!Init, IsPipe PROVE PInv
<1>1. /\ pc["main"] = "fork1" /\ pc["child"] = "off" /\ DOMAIN pc = P!Processes /\ reaped = {}
      /\ DOMAIN pipe = {"pipefd"} /\ pipe["pipefd"] = <<>> /\ DOMAIN mem = PLocals
  BY DEF P!Init, P!Processes, PLocals
<1>2. /\ mem["elkuldott"] = <<>> /\ mem["olvasott"] = <<>> /\ mem["sz"] = P!sz /\ mem["mainSz"] = P!sz
      /\ mem["ends"] = {<<"main", "pipefd", e>> : e \in {"r", "w"}}
  BY DEF P!Init
<1>3. P!sz \in Seq(Bytes) /\ Len(P!sz) = 4
  <2>1. "a" \in Bytes /\ "s" \in Bytes /\ "d" \in Bytes /\ P!NUL \in Bytes /\ P!Garbage \in Bytes
    BY DEF Bytes
  <2>2. P!sz = <<"a", "s", "d", P!NUL>> \/ P!sz = <<P!Garbage, P!Garbage, P!Garbage, P!Garbage>>
    BY DEF P!sz, P!NoBuffer
  <2>3. /\ <<"a", "s", "d", P!NUL>> \in Seq(Bytes) /\ Len(<<"a", "s", "d", P!NUL>>) = 4
        /\ <<P!Garbage, P!Garbage, P!Garbage, P!Garbage>> \in Seq(Bytes)
        /\ Len(<<P!Garbage, P!Garbage, P!Garbage, P!Garbage>>) = 4
    BY <2>1
  <2> QED BY <2>2, <2>3, Zenon
<1>4. PRead = 0 /\ PSent = 0
  BY <1>1, <1>2 DEF PRead, PSent
<1>5. PICK B : B = [k \in Nat |-> P!NUL]
  OBVIOUS
<1>6. PBytes(B)
  <2>1. P!Written * 0 = 0
    BY PTexts, Times
  <2>2. Stream(<<>>, B, 0, 0)
    <3>1. <<>> = Flow(B, 0, 0) /\ Len(<<>>) = 0
      BY FlowEmpty
    <3>2. 0 <= P!PipeBytes
      BY PipeCapacityAssumption DEF P!PipeBytes
    <3> QED BY <3>1, <3>2 DEF Stream
  <2> QED BY <1>1, <1>4, <2>1, <2>2 DEF PBytes
<1>7. PControl /\ PEnds
  BY <1>1, <1>2 DEF PControl, PEnds
<1>8. PSends /\ PPrints
  BY <1>1, <1>2 DEF PSends, PPrints
<1>9. PBuffers
  BY <1>1, <1>2, <1>3 DEF PBuffers
<1>10. PState(B)
  BY <1>6, <1>7, <1>8, <1>9 DEF PState
<1> QED BY <1>10, Zenon DEF PInv

LEMMA PPromises ==
  ASSUME NEW B, PState(B) PROVE P!TypeOK /\ P!Framed /\ P!InOrder
<1>0. PControl /\ IsPipe
  BY DEF PState, PControl
<1>1. PICK w, r, s, q : w = P!Written /\ r = PRead /\ s = PSent /\ q = pipe["pipefd"]
  OBVIOUS
<1>2. w \in {2, 3}
  BY <1>0, <1>1, PTexts
<1>3. r \in Nat /\ s \in Nat /\ r <= s /\ Stream(q, B, w * r, w * s)
  BY <1>1 DEF PState, PBytes
<1>4. q \in Seq(Bytes) /\ Len(q) = w * s - w * r
  BY <1>3, StreamIs
<1>5. P!TypeOK
  <2>1. Len(q) \in Nat /\ Len(q) <= P!PipeBytes /\ P!PipeBytes \in Nat
    BY <1>3, <1>4, LenProperties, PipeCapacityAssumption DEF Stream, P!PipeBytes
  <2>2. Len(q) \in 0..P!PipeBytes
    BY <2>1
  <2> QED BY <1>0, <1>1, <2>2 DEF PState, PControl, PBuffers, P!TypeOK
<1>6. P!Framed
  <2>1. Len(q) % w = 0
    BY <1>2, <1>3, <1>4, Times
  <2>2. r < s => q # <<>>
    <3> SUFFICES ASSUME r < s PROVE Len(q) # 0
      OBVIOUS
    <3>1. w * r + w <= w * s /\ w * r \in Nat /\ w * s \in Nat
      BY <1>2, <1>3, Times
    <3>2. PICK a, b : a = w * r /\ b = w * s
      OBVIOUS
    <3>3. a \in Nat /\ b \in Nat /\ a + w <= b /\ Len(q) = b - a
      BY <1>4, <3>1, <3>2
    <3> QED BY <1>2, <3>3
  <2>3. /\ pc["main"] = "write" => P!Holds("child", "pipefd", "r")
        /\ pc["child"] = "read" => P!Holds("main", "pipefd", "w") \/ r < s
    BY <1>1, PHeld
  <2> QED BY <1>1, <2>1, <2>2, <2>3 DEF P!Framed
<1>7. P!InOrder
  <2>1. /\ Len(mem["olvasott"]) <= Len(mem["elkuldott"])
        /\ pc["child"] = "exited" => Len(mem["olvasott"]) = Len(mem["elkuldott"])
        /\ Len(mem["olvasott"]) \in Nat /\ Len(mem["elkuldott"]) \in Nat
    BY PHeld
  <2>2. /\ DOMAIN mem["olvasott"] = 1..Len(mem["olvasott"])
        /\ \A k \in 1..Len(mem["olvasott"]) : PSame(mem["olvasott"][k], mem["elkuldott"][k])
    BY LenProperties DEF PState, PPrints
  <2>3. ASSUME pc["child"] = "exited" PROVE pipe["pipefd"] = <<>>
    <3>1. r = s
      <4>1. r = Len(mem["olvasott"])
        BY <1>1, <2>1, <2>3 DEF PRead
      <4>2. s = Len(mem["elkuldott"]) - (IF pc["main"] = "write" THEN 1 ELSE 0)
        BY <1>1 DEF PSent
      <4>3. PICK m, n : m = Len(mem["olvasott"]) /\ n = Len(mem["elkuldott"])
        OBVIOUS
      <4>4. m = n /\ n \in Nat /\ r = m /\ (s = n \/ s = n - 1)
        <5>1. m = n /\ n \in Nat /\ r = m
          BY <2>1, <2>3, <4>1, <4>3, Zenon
        <5>2. CASE pc["main"] = "write"
          BY <4>2, <4>3, <5>1, <5>2
        <5>3. CASE pc["main"] # "write"
          BY <4>2, <4>3, <5>1, <5>3
        <5> QED BY <5>2, <5>3
      <4> QED BY <1>3, <4>4
    <3>2. Len(q) = 0
      <4>1. w * r \in Nat
        BY <1>2, <1>3, Times
      <4>2. PICK a : a = w * r
        OBVIOUS
      <4> QED BY <1>4, <3>1, <4>1, <4>2
    <3> QED BY <1>1, <1>4, <3>2, EmptySeq
  <2>4. \A k \in DOMAIN mem["olvasott"] :
          \/ mem["olvasott"][k] = mem["elkuldott"][k]
          \/ /\ program = "pipe2" /\ Len(mem["elkuldott"][k]) = 2
             /\ P!IsPrefix(mem["elkuldott"][k], mem["olvasott"][k])
    BY <2>2 DEF PSame
  <2> QED BY <2>1, <2>3, <2>4, Zenon DEF P!InOrder
<1> QED BY <1>5, <1>6, <1>7

LEMMA PInvariant ==
  /\ P!Init /\ IsPipe => PInv
  /\ PInv /\ UNCHANGED program /\ (P!Next \/ UNCHANGED zhVars) => PInv'
  /\ PInv => P!TypeOK /\ P!Framed /\ P!InOrder
<1>1. ASSUME NEW B, PState(B), UNCHANGED program, P!Next \/ UNCHANGED zhVars PROVE PInv'
  <2>0. (\E H : PState(H)') => PInv'
    BY Zenon DEF PInv
  <2>1. CASE P!Main
    BY <1>1, <2>0, <2>1, PMainCloses, PTypes, PWrites, Zenon DEF P!Main
  <2>2. CASE P!child
    BY <1>1, <2>0, <2>2, PChildCloses, PReads, PPrints1, Zenon DEF P!child
  <2>3. CASE UNCHANGED zhVars
    <3>1. UNCHANGED <<pc, reaped, pipe, mem>>
      BY <2>3 DEF zhVars
    <3>2. PControl'
      BY <1>1, <3>1, PProgram DEF PState, PControl
    <3>3. PBytes(B)' /\ PBuffers'
      BY <1>1, <3>1, <3>2, PKept DEF PSets
    <3>4. PEnds' /\ PSends' /\ PPrints'
      BY <1>1, <3>1, PSendsKept, PPrintsKept DEF PState, PEnds
    <3>5. PState(B)'
      BY <3>2, <3>3, <3>4 DEF PState
    <3> QED BY <2>0, <3>5, Zenon
  <2> QED BY <1>1, <2>1, <2>2, <2>3 DEF P!Next
<1> QED BY <1>1, PInitially, PPromises, Zenon DEF PInv

(***************************************************************************)
(* The FIFO: what was typed, and where reads may cut it                    *)
(***************************************************************************)

NLocals == {"ends", "opened", "merged", "s", "msg", "elkuldott", "olvasott"}
NTexts == Messages \cup {N!Over, N!Fradi}
NTyped == {mem["elkuldott"][k] : k \in 1..Len(mem["elkuldott"])}
NWritten == Len(mem["elkuldott"]) - (IF pc["child"] = "write" THEN 1 ELSE 0)
NRead == Len(mem["olvasott"]) + (IF pc["main"] = "atoi" THEN 1 ELSE 0)
NBytes(t) == IF program = "nevcso2" THEN Append(t, N!NUL) ELSE t
NSame(printed, sent) ==
  printed = sent \/ (program = "nevcso_mashogy" /\ N!IsPrefix(sent, printed))

\* t is the end of m.
NTail(t, m) ==
  Len(t) <= Len(m) /\ \A k \in 1..Len(t) : t[k] = m[Len(m) - Len(t) + k]

\* What is looked at is one of the messages E or the end of one.
NOneOf(t, E) == \E m \in E : NSame(t, m) \/ NTail(t, m)

\* Behind the first i bytes of q comes the end of a message, of l bytes, and a NUL.
NStopAt(q, E, i, l) ==
  /\ i + l < Len(q) /\ q[i + l + 1] = N!NUL
  /\ \E m \in E : l <= Len(m) /\ \A k \in 1..l : q[i + k] # N!NUL /\ q[i + k] = m[Len(m) - l + k]
NStop(q, E, i) == \E l \in 0..2 : NStopAt(q, E, i, l)
NStops(q, E) == \A i \in Nat : i < Len(q) => NStop(q, E, i)

NControl ==
  /\ DOMAIN pc = N!Processes /\ reaped \subseteq {"child"} /\ IsFifo
  /\ DOMAIN pipe = {"fifo"} /\ DOMAIN mem = NLocals
  /\ pc["main"] \in {"mkfifo", "fork1", "open_r", "open_alone", "opening", "while", "read", "atoi",
                     "close", "wait", "done", "exited"}
  /\ pc["child"] \in {"off", "start", "opening", "scanf", "write", "while", "close", "exited"}
  /\ pc["child"] = "off" <=> pc["main"] \in {"mkfifo", "fork1", "open_alone", "exited"}

\* The child goes on only when the parent has opened the FIFO, which keeps it
\* open up to the end of its loop.
NEnds ==
  /\ pc["main"] \in {"opening", "while", "read", "atoi", "close"} =>
       <<"main", "fifo", "r">> \in mem["ends"]
  /\ "r" \in mem["opened"] => pc["main"] \in {"opening", "while", "read", "atoi", "close", "wait", "done"}
  /\ pc["child"] \in {"scanf", "write", "while", "close", "exited"} => "r" \in mem["opened"]

\* What has been typed: messages up to "over", or one text
NTypes ==
  /\ mem["elkuldott"] \in Seq(NTexts)
  /\ pc["child"] \in {"off", "start", "opening"} => Len(mem["elkuldott"]) = 0
  /\ pc["child"] \in {"write", "while", "close"} =>
       Len(mem["elkuldott"]) # 0 /\ mem["msg"] = mem["elkuldott"][Len(mem["elkuldott"])]
  /\ \A k \in 1..Len(mem["elkuldott"]) :
       k < Len(mem["elkuldott"]) \/ pc["child"] = "scanf" => mem["elkuldott"][k] # N!Over
  /\ pc["child"] = "scanf" => Len(mem["elkuldott"]) <= MaxTyped
  /\ Len(mem["elkuldott"]) <= MaxTyped + 1
  /\ program = "nevcso2" =>
       /\ \A k \in 1..Len(mem["elkuldott"]) : mem["elkuldott"][k] \in Messages \cup {N!Over}
       /\ Len(mem["elkuldott"]) = MaxTyped + 1 => mem["elkuldott"][Len(mem["elkuldott"])] = N!Over
  /\ program # "nevcso2" =>
       /\ \A k \in 1..Len(mem["elkuldott"]) : mem["elkuldott"][k] = N!Fradi
       /\ Len(mem["elkuldott"]) <= 1 /\ ~mem["merged"]
       /\ pc["child"] = "scanf" => Len(mem["elkuldott"]) = 0

\* What is in the FIFO: at most three bytes for every message that has not
\* been looked at, cut wherever the reads have left off.
NFifo ==
  /\ pipe["fifo"] \in Seq(Bytes) /\ Len(pipe["fifo"]) <= N!PipeBytes
  /\ NRead \in Nat /\ NWritten \in Nat /\ NRead <= NWritten
  /\ Len(pipe["fifo"]) <= 3 * (NWritten - NRead)
  /\ program = "nevcso2" => NStops(pipe["fifo"], NTyped)
  /\ ~mem["merged"] =>
       \/ NRead = NWritten /\ pipe["fifo"] = <<>>
       \/ NRead + 1 = NWritten /\ pipe["fifo"] = NBytes(mem["elkuldott"][NWritten])

\* What has been looked at
NLooks ==
  /\ mem["olvasott"] \in Seq(Seq(Bytes))
  /\ \A k \in 1..Len(mem["olvasott"]) : NOneOf(mem["olvasott"][k], NTyped)
  /\ ~mem["merged"] => \A k \in 1..Len(mem["olvasott"]) : NSame(mem["olvasott"][k], mem["elkuldott"][k])
  /\ pc["main"] \in {"read", "atoi"} /\ program # "nevcso2" => Len(mem["olvasott"]) = 0
  /\ pc["main"] \in {"close", "wait", "done"} =>
       Len(mem["olvasott"]) # 0
       /\ (program = "nevcso2" => mem["olvasott"][Len(mem["olvasott"])] = N!Over)

\* The buffer holds what was looked at last, or what is looked at next.
NBuffer ==
  /\ mem["s"] \in Seq(Bytes) /\ Len(mem["s"]) = 3
  /\ pc["main"] # "atoi" /\ Len(mem["olvasott"]) = 0 => mem["s"] = N!s
  /\ pc["main"] # "atoi" /\ Len(mem["olvasott"]) # 0 =>
       N!CString(mem["s"]) = mem["olvasott"][Len(mem["olvasott"])]
  /\ pc["main"] = "atoi" =>
       /\ program # "nevcso_mashogy" => N!Terminated(mem["s"])
       /\ NOneOf(N!CString(mem["s"]), NTyped)
       /\ ~mem["merged"] => NSame(N!CString(mem["s"]), mem["elkuldott"][NRead])

NInv == NControl /\ NEnds /\ NTypes /\ NFifo /\ NLooks /\ NBuffer

\* Bytes are read and looked at as in the pipe.
LEMMA NSameOperators ==
  /\ N!NUL = P!NUL /\ N!PipeBytes = P!PipeBytes
  /\ \A b : N!Terminated(b) = P!Terminated(b)
  /\ \A b : N!CString(b) = P!CString(b)
  /\ \A S : N!Min(S) = P!Min(S)
  /\ \A t, b : N!Overlay(t, b) = P!Overlay(t, b)
<1>1. N!NUL = P!NUL /\ N!PipeBytes = P!PipeBytes
  BY DEF N!NUL, P!NUL, N!PipeBytes, P!PipeBytes
<1>2. \A b : N!Terminated(b) = P!Terminated(b)
  BY <1>1, Zenon DEF N!Terminated, P!Terminated, N!Contains, P!Contains
<1>3. \A S : N!Min(S) = P!Min(S)
  BY Zenon DEF N!Min, P!Min
<1>4. \A b : N!CString(b) = P!CString(b)
  BY <1>1, <1>2, <1>3, Zenon DEF N!CString, P!CString, N!SelectInSeq, P!SelectInSeq
<1>5. \A t, b : N!Overlay(t, b) = P!Overlay(t, b)
  BY Zenon DEF N!Overlay, P!Overlay, N!Max, P!Max
<1> QED BY <1>1, <1>2, <1>3, <1>4, <1>5

LEMMA NMovesMain ==
  ASSUME NEW from, NEW to, PMoves("main", from, to), DOMAIN pc = N!Processes
  PROVE  pc["main"] = from /\ pc'["main"] = to /\ DOMAIN pc' = N!Processes /\ pc'["child"] = pc["child"]
BY DEF PMoves, N!Processes

LEMMA NMovesChild ==
  ASSUME NEW from, NEW to, PMoves("child", from, to), DOMAIN pc = N!Processes
  PROVE  pc["child"] = from /\ pc'["child"] = to /\ DOMAIN pc' = N!Processes /\ pc'["main"] = pc["main"]
BY DEF PMoves, N!Processes

LEMMA NEffects ==
  ASSUME DOMAIN pc = N!Processes, DOMAIN mem = NLocals, NEW p \in N!Processes, NEW from, NEW to, NEW e
  PROVE  /\ N!Step(p, from, to) => PMoves(p, from, to)
         /\ N!Jump(p, from, to) => PMoves(p, from, to) /\ UNCHANGED <<reaped, pipe, mem>>
         /\ N!AwaitEnd(p, from, to, e) =>
              PMoves(p, from, to) /\ UNCHANGED <<reaped, pipe, mem>> /\ e \in mem["opened"]
         /\ N!Close(p, from, to, "fifo", e) =>
              /\ PMoves(p, from, to) /\ PSets({"ends"}) /\ UNCHANGED <<reaped, pipe>>
              /\ mem'["ends"] = mem["ends"] \ {<<p, "fifo", e>>}
         /\ N!OpenEnd(p, from, to, "fifo", e) =>
              /\ PMoves(p, from, to) /\ PSets({"ends", "opened"}) /\ UNCHANGED <<reaped, pipe>>
              /\ mem'["ends"] = mem["ends"] \cup {<<p, "fifo", e>>}
              /\ mem'["opened"] = mem["opened"] \cup {e}
<1>1. N!Step(p, from, to) => PMoves(p, from, to)
  BY DEF N!Step, PMoves
<1>2. N!Jump(p, from, to) => PMoves(p, from, to) /\ UNCHANGED <<reaped, pipe, mem>>
  BY <1>1 DEF N!Jump
<1>3. "ends" \in DOMAIN mem /\ "opened" \in DOMAIN mem
  BY DEF NLocals
<1>4. ASSUME N!Close(p, from, to, "fifo", e)
      PROVE  /\ PMoves(p, from, to) /\ PSets({"ends"}) /\ UNCHANGED <<reaped, pipe>>
             /\ mem'["ends"] = mem["ends"] \ {<<p, "fifo", e>>}
  <2>1. N!Step(p, from, to) /\ UNCHANGED <<reaped, pipe>> /\ mem' = [mem EXCEPT !["ends"] = mem["ends"] \ {<<p, "fifo", e>>}]
    BY <1>4 DEF N!Close, N!Assign
  <2> QED BY <1>1, <1>3, <2>1 DEF PSets
<1>5. ASSUME N!OpenEnd(p, from, to, "fifo", e)
      PROVE  /\ PMoves(p, from, to) /\ PSets({"ends", "opened"}) /\ UNCHANGED <<reaped, pipe>>
             /\ mem'["ends"] = mem["ends"] \cup {<<p, "fifo", e>>}
             /\ mem'["opened"] = mem["opened"] \cup {e}
  <2>1. N!Step(p, from, to) /\ UNCHANGED <<reaped, pipe>>
    BY <1>5 DEF N!OpenEnd
  <2>2. mem' = [mem EXCEPT !["ends"] = mem["ends"] \cup {<<p, "fifo", e>>}, !["opened"] = mem["opened"] \cup {e}]
    BY <1>5 DEF N!OpenEnd
  <2> QED BY <1>1, <1>3, <2>1, <2>2 DEF PSets
<1> QED BY <1>1, <1>2, <1>4, <1>5 DEF N!AwaitEnd

LEMMA NProgram ==
  ASSUME UNCHANGED program
  PROVE  /\ IsFifo' = IsFifo /\ N!s' = N!s
         /\ \A t : NBytes(t)' = NBytes(t)
         /\ \A t, u : NSame(t, u)' <=> NSame(t, u)
         /\ \A t, E : NOneOf(t, E)' <=> NOneOf(t, E)
<1>1. IsFifo' = IsFifo /\ N!s' = N!s /\ \A t : NBytes(t)' = NBytes(t)
  BY DEF IsFifo, N!s, NBytes
<1>2. \A t, u : NSame(t, u)' <=> NSame(t, u)
  BY DEF NSame
<1>3. \A t, E : NOneOf(t, E)' <=> NOneOf(t, E)
  BY Zenon DEF NOneOf, NSame
<1> QED BY <1>1, <1>2, <1>3

\* Texts and buffers
LEMMA NTextsAre ==
  ASSUME IsFifo
  PROVE
  /\ Messages \cup {N!Over} = {<<"1">>, <<"1", "over">>, <<"over">>} /\ N!Over = <<"over">> /\ N!Fradi = <<"H">>
  /\ \A t \in NTexts : /\ t \in Seq(Bytes) /\ Len(t) \in {1, 2}
                       /\ \A k \in 1..Len(t) : t[k] # N!NUL
  /\ N!s \in Seq(Bytes) /\ Len(N!s) = 3
  /\ program = "nevcso2" => N!s[1] = N!NUL
  /\ program = "nevcso" => N!s[2] = N!NUL
<1>1. Messages \cup {N!Over} = {<<"1">>, <<"1", "over">>, <<"over">>} /\ N!Over = <<"over">> /\ N!Fradi = <<"H">>
  BY DEF Messages, N!Over, N!Fradi
<1>2. "1" \in Bytes /\ "over" \in Bytes /\ "H" \in Bytes /\ "S" \in Bytes /\ N!NUL \in Bytes /\ N!Garbage \in Bytes
  BY DEF Bytes, N!NUL, P!NUL, N!Garbage, P!Garbage
<1>3. \A t \in {<<"1">>, <<"1", "over">>, <<"over">>, <<"H">>} : t \in Seq(Bytes)
  <2>1. <<"1">> \in Seq(Bytes) /\ <<"1", "over">> \in Seq(Bytes) /\ <<"over">> \in Seq(Bytes) /\ <<"H">> \in Seq(Bytes)
    BY <1>2
  <2> QED BY <2>1
<1>4. \A t \in {<<"1">>, <<"1", "over">>, <<"over">>, <<"H">>} : Len(t) \in {1, 2} /\ \A k \in 1..Len(t) : t[k] # N!NUL
  BY DEF N!NUL
<1>5. \A a, b, c \in Bytes : <<a, b, c>> \in Seq(Bytes) /\ Len(<<a, b, c>>) = 3
  OBVIOUS
<1>6. \/ program = "nevcso" /\ N!s = <<"S", N!NUL, N!NUL>>
      \/ program = "nevcso_mashogy" /\ N!s = <<N!Garbage, N!Garbage, N!Garbage>>
      \/ program = "nevcso2" /\ N!s = <<N!NUL, N!Garbage, N!Garbage>>
  BY DEF N!s, IsFifo
<1>7. N!s \in Seq(Bytes) /\ Len(N!s) = 3
  BY <1>2, <1>5, <1>6, Zenon
<1>8. (program = "nevcso2" => N!s[1] = N!NUL) /\ (program = "nevcso" => N!s[2] = N!NUL)
  BY <1>6
<1> QED BY <1>1, <1>3, <1>4, <1>7, <1>8 DEF NTexts

\* The end of a message stays where it is when bytes before it are read and
\* bytes behind it are written.
LEMMA NStopMoved ==
  ASSUME NEW q, NEW u, NEW E, NEW F, E \subseteq F, NEW n \in Nat, NEW i \in Nat,
         Len(q) \in Nat, Len(u) \in Nat, Len(q) - n <= Len(u) - i,
         \A k \in 1..(Len(q) - n) : u[i + k] = q[n + k],
         NStop(q, E, n)
  PROVE  NStop(u, F, i)
<1>1. PICK l \in 0..2 : NStopAt(q, E, n, l)
  BY DEF NStop
<1>2. PICK m \in E : l <= Len(m) /\ \A k \in 1..l : q[n + k] # N!NUL /\ q[n + k] = m[Len(m) - l + k]
  BY <1>1 DEF NStopAt
<1>3. n + l < Len(q) /\ q[n + l + 1] = N!NUL
  BY <1>1 DEF NStopAt
<1>4. i + l < Len(u) /\ \A k \in 1..(l + 1) : k \in 1..(Len(q) - n)
  BY <1>3
<1>5. \A k \in 1..l : u[i + k] = q[n + k]
  <2>1. \A k \in 1..l : k \in 1..(l + 1)
    BY <1>1
  <2> QED BY <1>4, <2>1
<1>6. u[i + l + 1] = N!NUL
  <2>1. PICK k : k = l + 1
    OBVIOUS
  <2>2. k \in 1..(Len(q) - n) /\ i + k = i + l + 1 /\ n + k = n + l + 1
    <3>1. k \in 1..(l + 1)
      BY <1>1, <2>1
    <3>2. i + k = i + l + 1 /\ n + k = n + l + 1
      BY <1>1, <2>1
    <3> QED BY <1>4, <3>1, <3>2
  <2>3. u[i + k] = q[n + k]
    BY <2>2
  <2> QED BY <1>3, <2>2, <2>3
<1>7. \A k \in 1..l : u[i + k] # N!NUL /\ u[i + k] = m[Len(m) - l + k]
  BY <1>2, <1>5
<1>8. NStopAt(u, F, i, l)
  BY <1>2, <1>4, <1>6, <1>7 DEF NStopAt
<1> QED BY <1>8 DEF NStop

\* In a message of its own
LEMMA NStopWithin ==
  ASSUME NEW m \in Seq(Bytes), Len(m) \in {1, 2}, \A k \in 1..Len(m) : m[k] # N!NUL,
         NEW d \in Nat, d <= Len(m)
  PROVE  NStop(Append(m, N!NUL), {m}, d)
<1>1. PICK t, n : t = Append(m, N!NUL) /\ n = Len(m)
  OBVIOUS
<1>2. n \in {1, 2} /\ Len(t) = n + 1 /\ t[n + 1] = N!NUL /\ \A k \in 1..n : t[k] = m[k] /\ m[k] # N!NUL
  BY <1>1
<1>3. PICK l : l = n - d
  OBVIOUS
<1>4. l \in 0..2 /\ d + l = n /\ l <= n
  BY <1>1, <1>2, <1>3
<1>5. \A k \in 1..l : d + k \in 1..n /\ n - l + k = d + k
  BY <1>2, <1>4
<1>6. \A k \in 1..l : t[d + k] # N!NUL /\ t[d + k] = m[n - l + k]
  BY <1>2, <1>5
<1>7. d + l < Len(t) /\ t[d + l + 1] = N!NUL
  BY <1>2, <1>4
<1>8. NStopAt(t, {m}, d, l)
  BY <1>1, <1>4, <1>6, <1>7 DEF NStopAt
<1> QED BY <1>1, <1>4, <1>8 DEF NStop

LEMMA NStopsRead ==
  ASSUME NEW q, NEW E, NStops(q, E), NEW n \in Nat, n <= Len(q), Len(q) \in Nat,
         NEW u, Len(u) = Len(q) - n, \A k \in 1..(Len(q) - n) : u[k] = q[n + k]
  PROVE  NStops(u, E)
<1>1. ASSUME NEW i \in Nat, i < Len(u) PROVE NStop(u, E, i)
  <2>1. PICK j : j = n + i
    OBVIOUS
  <2>2. j \in Nat /\ j < Len(q) /\ Len(u) \in Nat /\ Len(q) - j <= Len(u) - i
    BY <1>1, <2>1
  <2>3. NStop(q, E, j)
    BY <2>2 DEF NStops
  <2>4. \A k \in 1..(Len(q) - j) : u[i + k] = q[j + k]
    <3> SUFFICES ASSUME NEW k \in 1..(Len(q) - j) PROVE u[i + k] = q[j + k]
      OBVIOUS
    <3>1. PICK x : x = i + k
      OBVIOUS
    <3>2. x \in 1..(Len(q) - n) /\ n + x = j + k
      BY <1>1, <2>1, <2>2, <3>1
    <3>3. u[x] = q[n + x]
      BY <3>2
    <3> QED BY <3>1, <3>2, <3>3
  <2> QED BY <2>2, <2>3, <2>4, NStopMoved
<1> QED BY <1>1 DEF NStops

LEMMA NStopsWritten ==
  ASSUME NEW q \in Seq(Bytes), NEW E, NStops(q, E), NEW F, E \subseteq F, NEW m \in F,
         m \in Seq(Bytes), Len(m) \in {1, 2}, \A k \in 1..Len(m) : m[k] # N!NUL
  PROVE  NStops(q \o Append(m, N!NUL), F)
<1>1. PICK t, u, n, l : t = Append(m, N!NUL) /\ u = q \o t /\ n = Len(q) /\ l = Len(t)
  OBVIOUS
<1>2. n \in Nat /\ l = Len(m) + 1 /\ l \in {2, 3} /\ t \in Seq(Bytes)
  <2>1. N!NUL \in Bytes
    BY NSameOperators DEF Bytes
  <2> QED BY <1>1, <2>1, LenProperties
<1>3. /\ u \in Seq(Bytes) /\ Len(u) = n + l
      /\ \A k \in 1..(n + l) : u[k] = IF k <= n THEN q[k] ELSE t[k - n]
  <2>1. /\ u \in Seq(Bytes) /\ Len(u) = Len(q) + Len(t)
        /\ \A k \in 1..Len(q) + Len(t) : u[k] = IF k <= Len(q) THEN q[k] ELSE t[k - Len(q)]
    BY <1>1, <1>2, ConcatProperties, Zenon
  <2> QED BY <1>1, <2>1, Zenon
<1>4. ASSUME NEW i \in Nat, i < n PROVE NStop(u, F, i)
  <2>1. NStop(q, E, i)
    BY <1>1, <1>4 DEF NStops
  <2>2. ASSUME NEW k \in 1..(n - i) PROVE u[i + k] = q[i + k]
    <3>1. i + k \in 1..(n + l) /\ i + k <= n
      BY <1>2, <1>4, <2>2
    <3> QED BY <1>3, <3>1
  <2>3. Len(q) \in Nat /\ Len(u) \in Nat /\ Len(q) - i <= Len(u) - i
    BY <1>1, <1>2, <1>3
  <2>4. \A k \in 1..(Len(q) - i) : u[i + k] = q[i + k]
    BY <1>1, <2>2
  <2> QED BY <2>1, <2>3, <2>4, NStopMoved
<1>5. ASSUME NEW i \in Nat, ~(i < n), i < n + l PROVE NStop(u, F, i)
  <2>1. PICK d : d = i - n
    OBVIOUS
  <2>2. d \in Nat /\ d <= Len(m)
    BY <1>2, <1>5, <2>1
  <2>3. NStop(t, {m}, d)
    BY <1>1, <2>2, NStopWithin
  <2>4. ASSUME NEW k \in 1..(l - d) PROVE u[i + k] = t[d + k]
    <3>1. PICK x : x = i + k
      OBVIOUS
    <3>2. x \in 1..(n + l) /\ ~(x <= n) /\ x - n = d + k
      BY <1>2, <1>5, <2>1, <2>2, <3>1
    <3>3. u[x] = t[x - n]
      BY <1>3, <3>2
    <3> QED BY <3>1, <3>2, <3>3
  <2>5. Len(t) \in Nat /\ Len(u) \in Nat /\ Len(t) - d <= Len(u) - i
    BY <1>1, <1>2, <1>3, <2>1, <2>2
  <2>6. \A k \in 1..(Len(t) - d) : u[i + k] = t[d + k]
    BY <1>1, <2>4
  <2>7. {m} \subseteq F
    OBVIOUS
  <2> QED BY <2>2, <2>3, <2>5, <2>6, <2>7, NStopMoved
<1>6. \A i \in Nat : i < Len(u) => NStop(u, F, i)
  BY <1>3, <1>4, <1>5
<1> QED BY <1>1, <1>6 DEF NStops

\* The end of a message is its suffix.
LEMMA NSuffixIs ==
  ASSUME NEW t \in Seq(Bytes), NEW m \in Seq(Bytes), NTail(t, m)
  PROVE  N!IsSuffix(t, m)
<1>1. PICK a, b : a = Len(t) /\ b = Len(m)
  OBVIOUS
<1>2. a \in Nat /\ b \in Nat /\ a <= b /\ \A k \in 1..a : t[k] = m[b - a + k]
  BY <1>1, LenProperties DEF NTail
<1>3. PICK r, s : r = N!Reverse(t) /\ s = N!Reverse(m)
  OBVIOUS
<1>4. r = [k \in 1..a |-> t[(a - k) + 1]] /\ s = [k \in 1..b |-> m[(b - k) + 1]]
  BY <1>1, <1>3, Zenon DEF N!Reverse
<1>5. \A k \in 1..a : t[k] \in Bytes
  BY <1>1, <1>2, ElementOfSeq
<1>6. \A k \in 1..b : m[k] \in Bytes
  BY <1>1, <1>2, ElementOfSeq
<1>7. r \in [1..a -> Bytes] /\ s \in [1..b -> Bytes]
  <2>1. \A k \in 1..a : (a - k) + 1 \in 1..a
    BY <1>2
  <2>2. \A k \in 1..b : (b - k) + 1 \in 1..b
    BY <1>2
  <2> QED BY <1>4, <1>5, <1>6, <2>1, <2>2
<1>8. r \in Seq(Bytes) /\ s \in Seq(Bytes) /\ Len(r) = a /\ Len(s) = b
  <2>1. r \in Seq(Bytes) /\ s \in Seq(Bytes)
    BY <1>2, <1>7 DEF Seq
  <2> QED BY <1>2, <1>7, <2>1, LenProperties
<1>9. ASSUME NEW k \in 1..a PROVE r[k] = s[k]
  <2>1. PICK x : x = (a - k) + 1
    OBVIOUS
  <2>2. x \in 1..a /\ b - a + x = (b - k) + 1 /\ k \in 1..b
    <3>1. a \in Nat /\ b \in Nat /\ a <= b
      BY <1>2
    <3> QED BY <1>9, <2>1, <3>1
  <2>3. r[k] = t[x]
    BY <1>4, <2>1
  <2>4. s[k] = m[(b - k) + 1]
    BY <1>4, <2>2
  <2> QED BY <1>2, <2>2, <2>3, <2>4
<1>10. P!IsPrefix(r, s)
  BY <1>2, <1>8, <1>9, PPrefixIs
<1> QED BY <1>3, <1>10, Zenon DEF N!IsSuffix, N!IsPrefix, P!IsPrefix

LEMMA NTypesKept ==
  ASSUME NTypes, UNCHANGED program, mem'["elkuldott"] = mem["elkuldott"], mem'["msg"] = mem["msg"],
         mem'["merged"] = mem["merged"],
         pc'["child"] = pc["child"] \/ (pc["child"] = "off" /\ pc'["child"] = "start")
  PROVE  NTypes'
<1>1. PICK e : e = mem["elkuldott"]
  OBVIOUS
<1>2. CASE pc'["child"] = pc["child"]
  BY <1>2 DEF NTypes
<1>3. CASE pc["child"] = "off" /\ pc'["child"] = "start"
  BY <1>3 DEF NTypes
<1> QED BY <1>2, <1>3

LEMMA NFifoKept ==
  ASSUME NFifo, UNCHANGED program, pipe'["fifo"] = pipe["fifo"], mem'["elkuldott"] = mem["elkuldott"],
         mem'["olvasott"] = mem["olvasott"], mem'["merged"] = mem["merged"],
         pc'["main"] = pc["main"] \/ "atoi" \notin {pc["main"], pc'["main"]},
         pc'["child"] = pc["child"] \/ "write" \notin {pc["child"], pc'["child"]}
  PROVE  NFifo' /\ NRead' = NRead /\ NWritten' = NWritten /\ NTyped' = NTyped
<1>1. NRead' = NRead /\ NWritten' = NWritten /\ NTyped' = NTyped
  BY DEF NRead, NWritten, NTyped
<1>2. \A t : NBytes(t)' = NBytes(t)
  BY NProgram
<1>3. NBytes(mem["elkuldott"][NWritten])' = NBytes(mem["elkuldott"][NWritten])
  BY <1>1 DEF NBytes
<1>4. PICK r, w, q : r = NRead /\ w = NWritten /\ q = pipe["fifo"]
  OBVIOUS
<1>5. PICK y : y = NBytes(mem["elkuldott"][NWritten])
  OBVIOUS
<1>6. PICK z : z = NTyped
  OBVIOUS
<1>7. /\ q \in Seq(Bytes) /\ Len(q) <= N!PipeBytes /\ r \in Nat /\ w \in Nat /\ r <= w
      /\ Len(q) <= 3 * (w - r) /\ (program = "nevcso2" => NStops(q, z))
      /\ ~mem["merged"] => (r = w /\ q = <<>>) \/ (r + 1 = w /\ q = y)
  BY <1>4, <1>5, <1>6 DEF NFifo
<1> QED BY <1>1, <1>3, <1>4, <1>5, <1>6, <1>7 DEF NFifo

LEMMA NOneOfKept ==
  ASSUME UNCHANGED program, NEW E, NEW F, E \subseteq F, NEW t, NOneOf(t, E)
  PROVE  NOneOf(t, F) /\ (F = NTyped' => NOneOf(t, NTyped)')
<1>1. NOneOf(t, F)
  BY DEF NOneOf
<1>2. ASSUME F = NTyped' PROVE NOneOf(t, NTyped)'
  <2>1. PICK m \in F : NSame(t, m) \/ NTail(t, m)
    BY <1>1 DEF NOneOf
  <2>2. NSame(t, m)' <=> NSame(t, m)
    BY NProgram
  <2> QED BY <1>2, <2>1, <2>2 DEF NOneOf
<1> QED BY <1>1, <1>2

LEMMA NLooksKept ==
  ASSUME NLooks, UNCHANGED program, mem'["olvasott"] = mem["olvasott"], mem'["merged"] = mem["merged"],
         NTyped \subseteq NTyped', pc'["main"] = pc["main"],
         \A k \in 1..Len(mem["olvasott"]) : mem'["elkuldott"][k] = mem["elkuldott"][k]
  PROVE  NLooks'
<1>1. PICK n : n = Len(mem["olvasott"])
  OBVIOUS
<1>2. ASSUME NEW k \in 1..n PROVE NOneOf(mem["olvasott"][k], NTyped)'
  <2>1. PICK t, E, F : t = mem["olvasott"][k] /\ E = NTyped /\ F = NTyped'
    OBVIOUS
  <2>2. NOneOf(t, E)
    BY <1>1, <1>2, <2>1 DEF NLooks
  <2>3. NOneOf(t, NTyped)'
    BY <2>1, <2>2, NOneOfKept
  <2> QED BY <2>1, <2>3, Zenon
<1>3. ASSUME ~mem["merged"], NEW k \in 1..n PROVE NSame(mem["olvasott"][k], mem["elkuldott"][k])'
  <2>1. NSame(mem["olvasott"][k], mem["elkuldott"][k])
    BY <1>1, <1>3 DEF NLooks
  <2> QED BY <1>1, <1>3, <2>1 DEF NSame
<1> QED BY <1>1, <1>2, <1>3 DEF NLooks

LEMMA NBufferKept ==
  ASSUME NBuffer, NFifo, NLooks, UNCHANGED program, mem'["olvasott"] = mem["olvasott"], mem'["merged"] = mem["merged"],
         mem'["s"] = mem["s"], NTyped \subseteq NTyped', pc'["main"] = pc["main"],
         \A k \in 1..NWritten : mem'["elkuldott"][k] = mem["elkuldott"][k]
  PROVE  NBuffer'
<1>1. N!s' = N!s /\ NRead' = NRead
  BY NProgram DEF NRead
<1>2. /\ mem'["s"] \in Seq(Bytes) /\ Len(mem'["s"]) = 3
      /\ pc'["main"] # "atoi" /\ Len(mem'["olvasott"]) = 0 => mem'["s"] = N!s'
      /\ pc'["main"] # "atoi" /\ Len(mem'["olvasott"]) # 0 =>
           N!CString(mem'["s"]) = mem'["olvasott"][Len(mem'["olvasott"])]
  BY <1>1 DEF NBuffer
<1>3. ASSUME pc["main"] = "atoi"
      PROVE  /\ program # "nevcso_mashogy" => N!Terminated(mem["s"])
             /\ NOneOf(N!CString(mem["s"]), NTyped)'
             /\ ~mem["merged"] => NSame(N!CString(mem["s"]), mem["elkuldott"][NRead])'
  <2>1. PICK t, E, F, r : t = N!CString(mem["s"]) /\ E = NTyped /\ F = NTyped' /\ r = NRead
    OBVIOUS
  <2>2. NOneOf(t, E) /\ (program # "nevcso_mashogy" => N!Terminated(mem["s"]))
        /\ (~mem["merged"] => NSame(t, mem["elkuldott"][r]))
    BY <1>3, <2>1 DEF NBuffer
  <2>3. NOneOf(t, NTyped)'
    BY <2>1, <2>2, NOneOfKept
  <2>4. N!CString(mem["s"])' = t
    BY <2>1, Zenon
  <2>5. r \in 1..NWritten
    <3>1. Len(mem["olvasott"]) + 1 = r /\ r \in Nat /\ NWritten \in Nat /\ r <= NWritten
      BY <1>3, <2>1 DEF NFifo, NRead
    <3>2. Len(mem["olvasott"]) \in Nat
      BY LenProperties DEF NLooks
    <3> QED BY <3>1, <3>2
  <2>6. NSame(t, mem["elkuldott"][NRead])' <=> NSame(t, mem["elkuldott"][r])
    BY <1>1, <2>1, <2>5 DEF NSame
  <2> QED BY <2>1, <2>2, <2>3, <2>4, <2>6, Zenon
<1> QED BY <1>2, <1>3 DEF NBuffer

\* Steps that only move the parent, or open and close an end
LEMMA NMainGoes ==
  ASSUME NInv, UNCHANGED program, PSets({"ends", "opened"}), UNCHANGED pipe, NControl', NEnds',
         pc["main"] # "atoi", pc'["main"] # "atoi",
         pc'["child"] = pc["child"] \/ (pc["child"] = "off" /\ pc'["child"] = "start"),
         pc'["main"] = "read" /\ program # "nevcso2" => Len(mem["olvasott"]) = 0,
         pc'["main"] \in {"close", "wait", "done"} =>
           Len(mem["olvasott"]) # 0
           /\ (program = "nevcso2" => mem["olvasott"][Len(mem["olvasott"])] = N!Over)
  PROVE  NInv'
<1>1. /\ mem'["elkuldott"] = mem["elkuldott"] /\ mem'["olvasott"] = mem["olvasott"] /\ mem'["s"] = mem["s"]
      /\ mem'["msg"] = mem["msg"] /\ mem'["merged"] = mem["merged"]
  BY DEF NInv, NControl, PSets, NLocals
<1>2. NTypes'
  BY <1>1, NTypesKept DEF NInv
<1>3. NFifo' /\ NRead' = NRead /\ NTyped' = NTyped
  <2>1. pc'["child"] = pc["child"] \/ "write" \notin {pc["child"], pc'["child"]}
    OBVIOUS
  <2> QED BY <1>1, <2>1, NFifoKept DEF NInv
<1>4. NLooks'
  <2>1. \A k \in 1..Len(mem["olvasott"]) : NOneOf(mem["olvasott"][k], NTyped)'
    <3> SUFFICES ASSUME NEW k \in 1..Len(mem["olvasott"]) PROVE NOneOf(mem["olvasott"][k], NTyped)'
      OBVIOUS
    <3>1. PICK t, E : t = mem["olvasott"][k] /\ E = NTyped
      OBVIOUS
    <3>2. NOneOf(t, E)
      BY <3>1 DEF NInv, NLooks
    <3>3. NOneOf(t, NTyped)'
      BY <1>3, <3>1, <3>2, NOneOfKept
    <3> QED BY <1>1, <3>1, <3>3, Zenon
  <2>2. ~mem["merged"] => \A k \in 1..Len(mem["olvasott"]) : NSame(mem["olvasott"][k], mem["elkuldott"][k])'
    <3>1. ~mem["merged"] => \A k \in 1..Len(mem["olvasott"]) : NSame(mem["olvasott"][k], mem["elkuldott"][k])
      BY DEF NInv, NLooks
    <3> QED BY <1>1, <3>1 DEF NSame
  <2>3. mem["olvasott"] \in Seq(Seq(Bytes))
    BY DEF NInv, NLooks
  <2> QED BY <1>1, <2>1, <2>2, <2>3 DEF NLooks
<1>5. NBuffer'
  <2>1. N!s' = N!s
    BY NProgram
  <2> QED BY <1>1, <2>1 DEF NInv, NBuffer
<1> QED BY <1>2, <1>3, <1>4, <1>5 DEF NInv

LEMMA NMainSteps ==
  ASSUME NInv, UNCHANGED program,
         \/ N!mkfifo
         \/ N!ForkFifo
         \/ N!OpenEnd("main", "open_r", "opening", "fifo", "r")
         \/ N!AwaitEnd("main", "opening", "while", "w")
         \/ N!TestOver
         \/ N!Close("main", "close", IF program = "nevcso_mashogy" THEN "wait" ELSE "done", "fifo", "r")
         \/ N!Wait({"child"}, "wait", "done")
  PROVE  NInv'
<1>0. NControl /\ NEnds /\ "main" \in N!Processes /\ DOMAIN pc = N!Processes /\ DOMAIN mem = NLocals
      /\ N!Processes = {"child", "main"}
  BY DEF NInv, NControl, N!Processes
<1>p. IsFifo' = IsFifo
  BY NProgram
<1>1. CASE N!ForkFifo
  <2>1. /\ pc["main"] = "fork1" /\ pc["child"] = "off" /\ UNCHANGED <<reaped, pipe, mem>> /\ DOMAIN pc' = N!Processes
        /\ \/ pc'["main"] = "open_r" /\ pc'["child"] = "start"
           \/ pc'["main"] = "open_alone" /\ pc'["child"] = "off"
           \/ pc'["main"] = "exited" /\ pc'["child"] = "off"
    BY <1>0, <1>1 DEF N!ForkFifo, N!Fork, NControl
  <2>2. NControl'
    BY <1>0, <1>p, <2>1 DEF NControl
  <2>3. NEnds'
    BY <1>0, <2>1 DEF NEnds
  <2>4. PSets({"ends", "opened"})
    BY <2>1 DEF PSets
  <2> QED BY <2>1, <2>2, <2>3, <2>4, NMainGoes
<1>2. ASSUME NEW from, NEW to, PMoves("main", from, to), PSets({"ends", "opened"}), reaped' \subseteq {"child"},
             UNCHANGED pipe,
             <<from, to>> \in {<<"mkfifo", "fork1">>, <<"mkfifo", "exited">>, <<"open_r", "opening">>,
               <<"opening", "while">>, <<"while", "read">>, <<"while", "close">>, <<"close", "wait">>,
               <<"close", "done">>, <<"wait", "done">>},
             \/ UNCHANGED mem
             \/ to = "opening" /\ mem'["ends"] = mem["ends"] \cup {<<"main", "fifo", "r">>}
                /\ mem'["opened"] = mem["opened"] \cup {"r"}
             \/ to \in {"wait", "done"} /\ mem'["opened"] = mem["opened"],
             from = "open_r" => mem'["ends"] = mem["ends"] \cup {<<"main", "fifo", "r">>},
             to = "read" /\ program # "nevcso2" => Len(mem["olvasott"]) = 0,
             to = "close" => Len(mem["olvasott"]) # 0
               /\ (program = "nevcso2" => mem["olvasott"][Len(mem["olvasott"])] = N!Over)
      PROVE  NInv'
  <2>1. pc["main"] = from /\ pc'["main"] = to /\ DOMAIN pc' = N!Processes /\ pc'["child"] = pc["child"]
    BY <1>0, <1>2, NMovesMain
  <2>2. NControl'
    BY <1>0, <1>2, <1>p, <2>1 DEF NControl, PSets
  <2>3. NEnds'
    BY <1>0, <1>2, <2>1 DEF NEnds
  <2>4. from # "atoi" /\ to # "atoi"
    BY <1>2
  <2>5. to \in {"close", "wait", "done"} => Len(mem["olvasott"]) # 0
               /\ (program = "nevcso2" => mem["olvasott"][Len(mem["olvasott"])] = N!Over)
    <3>1. to \in {"wait", "done"} => from \in {"close", "wait", "done"}
      BY <1>2
    <3> QED BY <1>2, <2>1, <3>1 DEF NInv, NLooks
  <2> QED BY <1>2, <2>1, <2>2, <2>3, <2>4, <2>5, NMainGoes
<1>3. UNCHANGED mem => PSets({"ends", "opened"})
  BY DEF PSets
<1>4. reaped \subseteq {"child"}
  BY <1>0 DEF NControl
<1>5. CASE N!mkfifo
  <2>1. PICK to : to \in {"fork1", "exited"} /\ N!Jump("main", "mkfifo", to)
    BY <1>5 DEF N!mkfifo
  <2>2. PMoves("main", "mkfifo", to) /\ UNCHANGED <<reaped, pipe, mem>>
    BY <1>0, <2>1, NEffects
  <2> QED BY <1>2, <1>3, <1>4, <2>1, <2>2
<1>6. CASE N!OpenEnd("main", "open_r", "opening", "fifo", "r")
  <2>1. /\ PMoves("main", "open_r", "opening") /\ PSets({"ends", "opened"}) /\ UNCHANGED <<reaped, pipe>>
        /\ mem'["ends"] = mem["ends"] \cup {<<"main", "fifo", "r">>}
        /\ mem'["opened"] = mem["opened"] \cup {"r"}
    BY <1>0, <1>6, NEffects
  <2> QED BY <1>2, <1>4, <2>1
<1>7. CASE N!AwaitEnd("main", "opening", "while", "w")
  <2>1. PMoves("main", "opening", "while") /\ UNCHANGED <<reaped, pipe, mem>>
    BY <1>0, <1>7, NEffects
  <2> QED BY <1>2, <1>3, <1>4, <2>1
<1>8. CASE N!TestOver
  <2>1. PICK to : /\ N!Jump("main", "while", to)
                  /\ to = CASE program = "nevcso2" /\ N!CString(mem["s"]) # N!Over -> "read"
                            [] program # "nevcso2" /\ mem["olvasott"] = <<>> -> "read"
                            [] OTHER -> "close"
    BY <1>8 DEF N!TestOver
  <2>2. PMoves("main", "while", to) /\ UNCHANGED <<reaped, pipe, mem>>
    BY <1>0, <2>1, NEffects
  <2>3. pc["main"] = "while"
    BY <2>2 DEF PMoves
  <2>4. mem["olvasott"] \in Seq(Seq(Bytes)) /\ Len(mem["olvasott"]) \in Nat
    BY LenProperties DEF NInv, NLooks
  <2>5. CASE to = "read"
    <3>1. program # "nevcso2" => mem["olvasott"] = <<>>
      BY <2>1, <2>5
    <3>2. mem["olvasott"] = <<>> => Len(mem["olvasott"]) = 0
      OBVIOUS
    <3>3. program # "nevcso2" => Len(mem["olvasott"]) = 0
      BY <3>1, <3>2
    <3> QED BY <1>2, <1>3, <1>4, <2>2, <2>5, <3>3
  <2>6. CASE to # "read"
    <3>1. to = "close" /\ (program = "nevcso2" => N!CString(mem["s"]) = N!Over)
          /\ (program # "nevcso2" => mem["olvasott"] # <<>>)
      BY <2>1, <2>6
    <3>2. program # "nevcso2" => Len(mem["olvasott"]) # 0
      BY <2>4, <3>1, EmptySeq
    <3>3. CASE program = "nevcso2"
      <4>1. Len(mem["olvasott"]) # 0
        <5> SUFFICES ASSUME Len(mem["olvasott"]) = 0 PROVE FALSE
          OBVIOUS
        <5>1. mem["s"] = N!s
          BY <2>3 DEF NInv, NBuffer
        <5>2. N!s \in Seq(Bytes) /\ Len(N!s) = 3 /\ N!s[1] = N!NUL
          BY <1>0, <3>3, NTextsAre DEF NControl
        <5>3. PICK b : b = N!s
          OBVIOUS
        <5>4. Len(P!CString(b)) = 0
          <6>1. 0 \in 0..Len(b) /\ \A k \in 1..0 : b[k] # P!NUL
            BY <5>2, <5>3
          <6>2. b \in Seq(Bytes) /\ 0 < Len(b) /\ b[0 + 1] = P!NUL
            BY <5>2, <5>3, NSameOperators
          <6> QED BY <6>1, <6>2, StringIn
        <5>5. P!CString(b) = N!Over
          BY <3>1, <3>3, <5>1, <5>3, NSameOperators
        <5> QED BY <1>0, <5>4, <5>5 DEF N!Over
      <4>2. N!CString(mem["s"]) = mem["olvasott"][Len(mem["olvasott"])]
        BY <2>3, <4>1 DEF NInv, NBuffer
      <4> QED BY <1>2, <1>3, <1>4, <2>2, <3>1, <3>3, <4>1, <4>2
    <3>4. CASE program # "nevcso2"
      BY <1>2, <1>3, <1>4, <2>2, <3>1, <3>2, <3>4
    <3> QED BY <3>3, <3>4
  <2> QED BY <2>5, <2>6
<1>9. CASE N!Close("main", "close", IF program = "nevcso_mashogy" THEN "wait" ELSE "done", "fifo", "r")
  <2>1. PICK to : to = IF program = "nevcso_mashogy" THEN "wait" ELSE "done"
    OBVIOUS
  <2>2. PMoves("main", "close", to) /\ PSets({"ends"}) /\ UNCHANGED <<reaped, pipe>>
    BY <1>0, <1>9, <2>1, NEffects
  <2>3. PSets({"ends", "opened"}) /\ mem'["opened"] = mem["opened"]
    BY <1>0, <2>2 DEF PSets, NLocals
  <2>4. to = "wait" \/ to = "done"
    BY <2>1
  <2> QED BY <1>2, <1>4, <2>2, <2>3, <2>4
<1>10. CASE N!Wait({"child"}, "wait", "done")
  <2>1. N!Step("main", "wait", "done") /\ UNCHANGED <<pipe, mem>> /\ reaped' \subseteq {"child"}
    BY <1>4, <1>10 DEF N!Wait
  <2>2. PMoves("main", "wait", "done")
    BY <1>0, <2>1, NEffects
  <2> QED BY <1>2, <1>3, <2>1, <2>2
<1> QED BY <1>1, <1>5, <1>6, <1>7, <1>8, <1>9, <1>10

\* Steps that only move the child, or open and close an end
LEMMA NChildSteps ==
  ASSUME NInv, UNCHANGED program,
         \/ N!OpenEnd("child", "start", "opening", "fifo", "w")
         \/ N!AwaitEnd("child", "opening", "scanf", "r")
         \/ N!Jump("child", "while", IF program = "nevcso2" /\ mem["msg"] # N!Over THEN "scanf" ELSE "close")
         \/ N!Close("child", "close", "exited", "fifo", "w")
  PROVE  NInv'
<1>0. NControl /\ NEnds /\ "child" \in N!Processes /\ DOMAIN pc = N!Processes /\ DOMAIN mem = NLocals
      /\ N!Processes = {"child", "main"}
  BY DEF NInv, NControl, N!Processes
<1>p. IsFifo' = IsFifo
  BY NProgram
<1>e. PICK n : n = Len(mem["elkuldott"])
  OBVIOUS
<1>n. n \in Nat
  BY <1>e, LenProperties DEF NInv, NTypes
<1>2. ASSUME NEW from, NEW to, PMoves("child", from, to), PSets({"ends", "opened"}), UNCHANGED <<reaped, pipe>>,
             <<from, to>> \in {<<"start", "opening">>, <<"opening", "scanf">>, <<"while", "scanf">>,
                <<"while", "close">>, <<"close", "exited">>},
             UNCHANGED mem \/ mem'["ends"] = mem["ends"] \cup {<<"child", "fifo", "w">>}
                           \/ mem'["ends"] = mem["ends"] \ {<<"child", "fifo", "w">>},
             mem'["opened"] = mem["opened"] \/ mem'["opened"] = mem["opened"] \cup {"w"},
             from = "opening" => "r" \in mem["opened"],
             from = "while" /\ to = "scanf" => program = "nevcso2" /\ mem["msg"] # N!Over
      PROVE  NInv'
  <2>1. pc["child"] = from /\ pc'["child"] = to /\ DOMAIN pc' = N!Processes /\ pc'["main"] = pc["main"]
    BY <1>0, <1>2, NMovesChild
  <2>2. NControl'
    BY <1>0, <1>2, <1>p, <2>1 DEF NControl, PSets
  <2>3. NEnds'
    <3>1. <<"main", "fifo", "r">> \in mem["ends"] => <<"main", "fifo", "r">> \in mem'["ends"]
      BY <1>2
    <3>2. "r" \in mem'["opened"] <=> "r" \in mem["opened"]
      BY <1>2
    <3>3. to \in {"scanf", "write", "while", "close", "exited"} =>
            from \in {"scanf", "write", "while", "close", "exited"} \/ from = "opening"
      BY <1>2
    <3> QED BY <1>0, <1>2, <2>1, <3>1, <3>2, <3>3 DEF NEnds
  <2>4. /\ mem'["elkuldott"] = mem["elkuldott"] /\ mem'["olvasott"] = mem["olvasott"] /\ mem'["s"] = mem["s"]
        /\ mem'["msg"] = mem["msg"] /\ mem'["merged"] = mem["merged"]
    BY <1>0, <1>2 DEF PSets, NLocals
  <2>5. NTypes'
    <3>1. from = "while" => n # 0 /\ mem["msg"] = mem["elkuldott"][n]
      BY <1>e, <2>1 DEF NInv, NTypes
    <3>2. from \in {"start", "opening"} => n = 0
      BY <1>e, <2>1 DEF NInv, NTypes
    <3>3. /\ mem["elkuldott"] \in Seq(NTexts) /\ n <= MaxTyped + 1
          /\ \A k \in 1..n : k < n => mem["elkuldott"][k] # N!Over
          /\ program = "nevcso2" =>
               /\ \A k \in 1..n : mem["elkuldott"][k] \in Messages \cup {N!Over}
               /\ n = MaxTyped + 1 => mem["elkuldott"][n] = N!Over
          /\ program # "nevcso2" =>
               (\A k \in 1..n : mem["elkuldott"][k] = N!Fradi) /\ n <= 1 /\ ~mem["merged"]
      BY <1>e DEF NInv, NTypes
    <3>4. MaxTyped \in Nat
      BY BoundsAssumption
    <3>5. to = "scanf" => n <= MaxTyped /\ (\A k \in 1..n : mem["elkuldott"][k] # N!Over)
                          /\ (program # "nevcso2" => n = 0)
      <4>1. CASE from = "opening"
        BY <1>n, <3>2, <3>4, <4>1
      <4>2. CASE from = "while" /\ to = "scanf"
        <5>1. mem["elkuldott"][n] # N!Over /\ program = "nevcso2"
          BY <1>2, <3>1, <4>2
        <5>2. n <= MaxTyped
          BY <1>n, <3>3, <3>4, <5>1
        <5>3. \A k \in 1..n : k < n \/ k = n
          BY <1>n
        <5> QED BY <3>3, <5>1, <5>2, <5>3
      <4> QED BY <1>2, <4>1, <4>2
    <3>6. to = "opening" => n = 0
      BY <1>2, <3>2
    <3>7. to = "close" => n # 0 /\ mem["msg"] = mem["elkuldott"][n]
      BY <1>2, <3>1
    <3>8. to \in {"opening", "scanf", "close", "exited"}
      BY <1>2
    <3> QED BY <1>e, <2>1, <2>4, <3>3, <3>5, <3>6, <3>7, <3>8 DEF NTypes
  <2>6. "write" \notin {pc["child"], pc'["child"]}
    BY <1>2, <2>1
  <2>7. NFifo' /\ NTyped' = NTyped
    BY <1>2, <2>1, <2>4, <2>6, NFifoKept DEF NInv
  <2>8. NLooks' /\ NBuffer'
    BY <2>1, <2>4, <2>7, NLooksKept, NBufferKept DEF NInv
  <2> QED BY <2>2, <2>3, <2>5, <2>7, <2>8 DEF NInv
<1>3. UNCHANGED mem => PSets({"ends", "opened"}) /\ mem'["opened"] = mem["opened"]
  BY DEF PSets
<1>4. CASE N!OpenEnd("child", "start", "opening", "fifo", "w")
  <2>1. /\ PMoves("child", "start", "opening") /\ PSets({"ends", "opened"}) /\ UNCHANGED <<reaped, pipe>>
        /\ mem'["ends"] = mem["ends"] \cup {<<"child", "fifo", "w">>}
        /\ mem'["opened"] = mem["opened"] \cup {"w"}
    BY <1>0, <1>4, NEffects
  <2> QED BY <1>2, <2>1
<1>5. CASE N!AwaitEnd("child", "opening", "scanf", "r")
  <2>1. PMoves("child", "opening", "scanf") /\ UNCHANGED <<reaped, pipe, mem>> /\ "r" \in mem["opened"]
    BY <1>0, <1>5, NEffects
  <2> QED BY <1>2, <1>3, <2>1
<1>6. CASE N!Jump("child", "while", IF program = "nevcso2" /\ mem["msg"] # N!Over THEN "scanf" ELSE "close")
  <2>1. PICK to : to = IF program = "nevcso2" /\ mem["msg"] # N!Over THEN "scanf" ELSE "close"
    OBVIOUS
  <2>2. PMoves("child", "while", to) /\ UNCHANGED <<reaped, pipe, mem>>
    BY <1>0, <1>6, <2>1, NEffects
  <2>3. to = "close" \/ (to = "scanf" /\ program = "nevcso2" /\ mem["msg"] # N!Over)
    BY <2>1
  <2> QED BY <1>2, <1>3, <2>2, <2>3
<1>7. CASE N!Close("child", "close", "exited", "fifo", "w")
  <2>1. /\ PMoves("child", "close", "exited") /\ PSets({"ends"}) /\ UNCHANGED <<reaped, pipe>>
        /\ mem'["ends"] = mem["ends"] \ {<<"child", "fifo", "w">>}
    BY <1>0, <1>7, NEffects
  <2>2. PSets({"ends", "opened"}) /\ mem'["opened"] = mem["opened"]
    BY <1>0, <2>1 DEF PSets, NLocals
  <2> QED BY <1>2, <2>1, <2>2
<1> QED BY <1>4, <1>5, <1>6, <1>7

\* A message more has been typed.
LEMMA NTypesMore ==
  ASSUME NInv, UNCHANGED program, N!TypeMessage
  PROVE  NInv'
<1>0. NControl /\ NEnds /\ "child" \in N!Processes /\ DOMAIN pc = N!Processes /\ DOMAIN mem = NLocals
  BY DEF NInv, NControl, N!Processes
<1>p. IsFifo' = IsFifo
  BY NProgram
<1>1. PICK m \in (CASE program # "nevcso2" -> {N!Fradi}
                    [] program = "nevcso2" /\ Len(mem["elkuldott"]) < MaxTyped -> Messages \cup {N!Over}
                    [] OTHER -> {N!Over}) :
        mem' = [mem EXCEPT !["msg"] = m, !["elkuldott"] = Append(@, m)]
  BY Zenon DEF N!TypeMessage
<1>2. PICK e, n : e = mem["elkuldott"] /\ n = Len(mem["elkuldott"])
  OBVIOUS
<1>3. \/ program # "nevcso2" /\ m = N!Fradi
      \/ program = "nevcso2" /\ n < MaxTyped /\ m \in Messages \cup {N!Over}
      \/ program = "nevcso2" /\ m = N!Over
  BY <1>1, <1>2
<1>4. PMoves("child", "scanf", "write") /\ UNCHANGED <<reaped, pipe>>
  BY <1>0, NEffects DEF N!TypeMessage
<1>5. pc["child"] = "scanf" /\ pc'["child"] = "write" /\ DOMAIN pc' = N!Processes /\ pc'["main"] = pc["main"]
  BY <1>0, <1>4, NMovesChild
<1>6. /\ DOMAIN mem' = NLocals /\ mem'["olvasott"] = mem["olvasott"] /\ mem'["s"] = mem["s"]
      /\ mem'["merged"] = mem["merged"] /\ mem'["ends"] = mem["ends"] /\ mem'["opened"] = mem["opened"]
      /\ mem'["msg"] = m /\ mem'["elkuldott"] = Append(e, m)
  BY <1>0, <1>1, <1>2 DEF NLocals
<1>7. e \in Seq(NTexts) /\ n \in Nat /\ n = Len(e)
  BY <1>2, LenProperties DEF NInv, NTypes
<1>8. m \in NTexts
  BY <1>3 DEF NTexts
<1>9. PICK f : f = Append(e, m)
  OBVIOUS
<1>10. f \in Seq(NTexts) /\ Len(f) = n + 1 /\ f[n + 1] = m /\ \A k \in 1..n : f[k] = e[k]
  BY <1>7, <1>8, <1>9, Behind
<1>11. NControl'
  BY <1>0, <1>4, <1>5, <1>6, <1>p DEF NControl
<1>12. NEnds'
  BY <1>0, <1>5, <1>6 DEF NEnds
<1>13. NTypes'
  <2>1. /\ n <= MaxTyped /\ \A k \in 1..n : e[k] # N!Over
        /\ (program = "nevcso2" => \A k \in 1..n : e[k] \in Messages \cup {N!Over})
        /\ (program # "nevcso2" => n = 0 /\ ~mem["merged"])
    BY <1>2, <1>5 DEF NInv, NTypes
  <2>2. MaxTyped \in Nat
    BY BoundsAssumption
  <2>3. \A k \in 1..(n + 1) : (k \in 1..n /\ f[k] = e[k] /\ k < n + 1) \/ (k = n + 1 /\ f[k] = m)
    BY <1>7, <1>10
  <2>4. n + 1 <= MaxTyped + 1 /\ n + 1 # 0
    BY <1>7, <2>1, <2>2
  <2>5. \A k \in 1..(n + 1) : k < n + 1 => f[k] # N!Over
    BY <1>7, <2>1, <2>3
  <2>6. program = "nevcso2" => \A k \in 1..(n + 1) : f[k] \in Messages \cup {N!Over}
    BY <1>3, <2>1, <2>3
  <2>7. program = "nevcso2" /\ n + 1 = MaxTyped + 1 => f[n + 1] = N!Over
    BY <1>3, <1>7, <1>10, <2>2
  <2>8. program # "nevcso2" => n + 1 <= 1 /\ \A k \in 1..(n + 1) : f[k] = N!Fradi
    BY <1>3, <2>1, <2>3
  <2>9. mem'["elkuldott"] = f /\ Len(f) = n + 1 /\ mem'["msg"] = f[n + 1]
    BY <1>6, <1>9, <1>10
  <2> QED BY <1>5, <1>6, <1>10, <2>1, <2>4, <2>5, <2>6, <2>7, <2>8, <2>9 DEF NTypes
<1>14. NRead' = NRead /\ NWritten' = NWritten /\ NWritten = n
  <2>1. NWritten = n /\ NWritten' = n + 1 - 1
    BY <1>2, <1>5, <1>6, <1>7, <1>9, <1>10 DEF NWritten
  <2>2. NRead' = NRead
    BY <1>5, <1>6 DEF NRead
  <2> QED BY <1>7, <2>1, <2>2
<1>15. NTyped \subseteq NTyped'
  <2>1. NTyped = {e[k] : k \in 1..n}
    BY <1>2 DEF NTyped
  <2>2. NTyped' = {f[k] : k \in 1..(n + 1)}
    BY <1>6, <1>9, <1>10 DEF NTyped
  <2>3. \A k \in 1..n : k \in 1..(n + 1)
    BY <1>7
  <2> QED BY <1>10, <2>1, <2>2, <2>3
<1>16. NFifo'
  <2>1. PICK r, q, E, F : r = NRead /\ q = pipe["fifo"] /\ E = NTyped /\ F = NTyped'
    OBVIOUS
  <2>2. /\ q \in Seq(Bytes) /\ Len(q) <= N!PipeBytes /\ r \in Nat /\ r <= n
        /\ Len(q) <= 3 * (n - r) /\ (program = "nevcso2" => NStops(q, E))
        /\ ~mem["merged"] => (r = n /\ q = <<>>) \/ (r + 1 = n /\ q = NBytes(e[n]))
    BY <1>2, <1>14, <2>1 DEF NInv, NFifo
  <2>3. program = "nevcso2" => NStops(q, F)
    <3> SUFFICES ASSUME program = "nevcso2" PROVE NStops(q, F)
      OBVIOUS
    <3>1. Len(q) \in Nat /\ E \subseteq F
      BY <1>15, <2>1, <2>2, LenProperties
    <3>2. ASSUME NEW i \in Nat, i < Len(q) PROVE NStop(q, F, i)
      <4>1. NStop(q, E, i)
        BY <2>2, <3>2 DEF NStops
      <4>2. Len(q) - i <= Len(q) - i
        BY <3>1
      <4> QED BY <3>1, <4>1, <4>2, NStopMoved
    <3> QED BY <3>2 DEF NStops
  <2>4. r + 1 = n => n \in 1..n /\ f[n] = e[n]
    BY <1>7, <1>10, <2>2
  <2>5. NWritten' = n /\ NRead' = r /\ pipe'["fifo"] = q /\ NTyped' = F /\ mem'["elkuldott"] = f
    BY <1>4, <1>6, <1>9, <1>14, <2>1
  <2>6. \A t : NBytes(t)' = NBytes(t)
    BY NProgram
  <2>7. r + 1 = n => NBytes(mem["elkuldott"][NWritten])' = NBytes(e[n])
    BY <2>4, <2>5 DEF NBytes
  <2> QED BY <1>6, <1>7, <2>2, <2>3, <2>5, <2>7 DEF NFifo
<1>17. \A k \in 1..n : mem'["elkuldott"][k] = mem["elkuldott"][k]
  BY <1>2, <1>6, <1>9, <1>10
<1>18. NBuffer'
  BY <1>5, <1>6, <1>14, <1>15, <1>17, NBufferKept DEF NInv
<1>19. NLooks'
  <2>1. \A k \in 1..Len(mem["olvasott"]) : k \in 1..n
    <3>1. Len(mem["olvasott"]) \in Nat
      BY LenProperties DEF NInv, NLooks
    <3>2. Len(mem["olvasott"]) <= NRead /\ NRead \in Nat
      <4>1. PICK o : o = Len(mem["olvasott"])
        OBVIOUS
      <4>2. CASE pc["main"] = "atoi"
        BY <3>1, <4>1, <4>2 DEF NRead
      <4>3. CASE pc["main"] # "atoi"
        BY <3>1, <4>1, <4>3 DEF NRead
      <4> QED BY <4>2, <4>3
    <3>3. NRead <= n
      BY <1>14 DEF NInv, NFifo
    <3> QED BY <1>7, <3>1, <3>2, <3>3
  <2> QED BY <1>5, <1>6, <1>15, <1>17, <2>1, NLooksKept DEF NInv
<1> QED BY <1>11, <1>12, <1>13, <1>16, <1>18, <1>19 DEF NInv

LEMMA NBytesAre ==
  ASSUME IsFifo, NEW t \in NTexts
  PROVE  NBytes(t) \in Seq(Bytes) /\ Len(NBytes(t)) \in {1, 2, 3} /\ NBytes(t) # <<>>
<1>1. t \in Seq(Bytes) /\ Len(t) \in {1, 2}
  BY NTextsAre
<1>2. N!NUL \in Bytes
  BY NSameOperators DEF Bytes
<1>3. PICK a : a = Append(t, N!NUL)
  OBVIOUS
<1>4. a \in Seq(Bytes) /\ Len(a) = Len(t) + 1
  BY <1>1, <1>2, <1>3, AppendProperties
<1>5. NBytes(t) = t \/ NBytes(t) = a
  BY <1>3 DEF NBytes
<1>6. \A b : Len(b) \in {1, 2, 3} => b # <<>>
  OBVIOUS
<1>7. NBytes(t) \in Seq(Bytes)
  BY <1>1, <1>4, <1>5, Zenon
<1>8. Len(NBytes(t)) \in {1, 2, 3}
  <2>1. \A l \in {1, 2} : l \in {1, 2, 3} /\ l + 1 \in {1, 2, 3}
    OBVIOUS
  <2>2. Len(t) \in {1, 2, 3} /\ Len(a) \in {1, 2, 3}
    BY <1>1, <1>4, <2>1, Zenon
  <2> QED BY <1>5, <2>2, Zenon
<1>9. PICK b : b = NBytes(t)
  OBVIOUS
<1>10. b # <<>>
  BY <1>6, <1>8, <1>9
<1> QED BY <1>7, <1>8, <1>9, <1>10

\* Everything that came through has been looked at when the parent stops.
LEMMA NLast ==
  ASSUME NInv, pc["main"] \in {"close", "wait", "done"}, ~mem["merged"]
  PROVE  Len(mem["olvasott"]) = Len(mem["elkuldott"]) /\ pc["child"] # "write"
<1>1. PICK m, n, o, e : m = Len(mem["olvasott"]) /\ n = Len(mem["elkuldott"])
                        /\ o = mem["olvasott"] /\ e = mem["elkuldott"]
  OBVIOUS
<1>2. m \in Nat /\ n \in Nat /\ m # 0
  BY <1>1, LenProperties DEF NInv, NTypes, NLooks
<1>3. NRead = m
  <2>1. pc["main"] # "atoi"
    OBVIOUS
  <2>2. NRead = Len(mem["olvasott"]) + 0
    BY <2>1 DEF NRead
  <2> QED BY <1>1, <1>2, <2>2
<1>4. m <= n /\ (pc["child"] = "write" => m <= n - 1)
  <2>1. NRead <= NWritten
    BY DEF NInv, NFifo
  <2>2. CASE pc["child"] = "write"
    BY <1>1, <1>2, <1>3, <2>1, <2>2 DEF NWritten
  <2>3. CASE pc["child"] # "write"
    BY <1>1, <1>2, <1>3, <2>1, <2>3 DEF NWritten
  <2> QED BY <1>2, <2>2, <2>3
<1>5. m = n
  <2>1. CASE program # "nevcso2"
    <3>1. n <= 1
      BY <1>1, <2>1 DEF NInv, NTypes
    <3> QED BY <1>2, <1>4, <3>1
  <2>2. CASE program = "nevcso2"
    <3>1. m \in 1..m /\ m \in 1..n
      BY <1>2, <1>4
    <3>2. NSame(o[m], e[m])
      BY <1>1, <3>1 DEF NInv, NLooks
    <3>3. o[m] = N!Over
      BY <1>1, <2>2 DEF NInv, NLooks
    <3>4. e[m] = N!Over
      BY <2>2, <3>2, <3>3 DEF NSame
    <3>5. m < n => e[m] # N!Over
      BY <1>1, <3>1 DEF NInv, NTypes
    <3> QED BY <1>2, <1>4, <3>4, <3>5
  <2> QED BY <2>1, <2>2
<1> QED BY <1>1, <1>2, <1>4, <1>5

\* A write without a reader
LEMMA NAlone ==
  ASSUME NInv, pc["child"] = "write", ~N!Somebody("fifo", "r")
  PROVE  mem["merged"]
<1>1. pc["main"] \in {"opening", "while", "read", "atoi", "close"} => N!Holds("main", "fifo", "r")
  BY DEF NInv, NEnds, N!Holds, N!Alive, N!Gone
<1>2. N!Holds("main", "fifo", "r") => N!Somebody("fifo", "r")
  <2>1. "main" \in DOMAIN pc
    BY DEF NInv, NControl, N!Processes
  <2> QED BY <2>1, Zenon DEF N!Somebody
<1>3. pc["main"] \in {"wait", "done"}
  BY <1>1, <1>2 DEF NInv, NEnds
<1> QED BY <1>3, NLast

\* A message goes into the FIFO.
LEMMA NWrites ==
  ASSUME NInv, UNCHANGED program, N!WriteBytes("child", "write", "while", "fifo", N!Sent)
  PROVE  NInv'
<1>0. NControl /\ NEnds /\ "child" \in N!Processes /\ DOMAIN pc = N!Processes /\ DOMAIN mem = NLocals
      /\ DOMAIN pipe = {"fifo"}
  BY DEF NInv, NControl, N!Processes
<1>p. IsFifo' = IsFifo
  BY NProgram
<1>1. PICK e, n, q, r, t : e = mem["elkuldott"] /\ n = Len(mem["elkuldott"]) /\ q = pipe["fifo"] /\ r = NRead /\ t = N!Sent
  OBVIOUS
<1>2. pc["child"] = "write" /\ "write" # "exited"
  BY DEF N!WriteBytes, N!Step
<1>3. e \in Seq(NTexts) /\ n \in Nat /\ n = Len(e) /\ n # 0 /\ mem["msg"] = e[n]
  BY <1>1, <1>2, LenProperties DEF NInv, NTypes
<1>4. n \in 1..n /\ e[n] \in NTexts
  <2>1. n \in 1..n
    BY <1>3
  <2> QED BY <1>3, <2>1, ElementOfSeq
<1>5. /\ e[n] \in Seq(Bytes) /\ Len(e[n]) \in {1, 2} /\ \A k \in 1..Len(e[n]) : e[n][k] # N!NUL
  BY <1>0, <1>4, NTextsAre DEF NControl
<1>6. t = NBytes(e[n])
  BY <1>1, <1>3 DEF N!Sent, NBytes
<1>7. NWritten = n - 1
  BY <1>1, <1>2 DEF NWritten
<1>8. /\ q \in Seq(Bytes) /\ Len(q) \in Nat /\ Len(q) <= N!PipeBytes /\ r \in Nat /\ r <= n - 1
      /\ Len(q) <= 3 * (n - 1 - r) /\ (program = "nevcso2" => NStops(q, NTyped))
      /\ ~mem["merged"] => (r = n - 1 /\ q = <<>>) \/ (r + 1 = n - 1 /\ q = NBytes(e[n - 1]))
  <2>1. q \in Seq(Bytes)
    BY <1>1 DEF NInv, NFifo
  <2>2. Len(q) \in Nat
    BY <2>1, LenProperties
  <2> QED BY <1>1, <1>7, <2>1, <2>2 DEF NInv, NFifo
<1>9. CASE ~N!Somebody("fifo", "r")
  <2>1. PMoves("child", "write", "exited") /\ UNCHANGED <<reaped, pipe, mem>>
    BY <1>0, <1>9, NEffects DEF N!WriteBytes
  <2>2. pc'["child"] = "exited" /\ DOMAIN pc' = N!Processes /\ pc'["main"] = pc["main"]
    BY <1>0, <2>1, NMovesChild
  <2>3. NControl' /\ NEnds'
    BY <1>0, <1>2, <1>p, <2>1, <2>2 DEF NControl, NEnds
  <2>4. NTypes'
    BY <1>2, <2>1, <2>2 DEF NInv, NTypes
  <2>5. mem["merged"]
    BY <1>2, <1>9, NAlone
  <2>6. NRead' = NRead /\ NTyped' = NTyped /\ NWritten' = n
    BY <1>1, <2>1, <2>2 DEF NRead, NTyped, NWritten
  <2>7. NFifo'
    <3>1. r <= n /\ Len(q) <= 3 * (n - r)
      BY <1>3, <1>8
    <3> QED BY <1>1, <1>3, <1>8, <2>1, <2>5, <2>6, <3>1 DEF NFifo
  <2>8. NLooks'
    BY <2>1, <2>2, <2>6, NLooksKept DEF NInv
  <2>9. NBuffer'
    BY <2>1, <2>2, <2>6, NBufferKept DEF NInv
  <2> QED BY <2>3, <2>4, <2>7, <2>8, <2>9 DEF NInv
<1>10. CASE N!Somebody("fifo", "r")
  <2>1. /\ PMoves("child", "write", "while") /\ UNCHANGED reaped /\ Len(q) + Len(t) <= N!PipeBytes
        /\ pipe' = [pipe EXCEPT !["fifo"] = @ \o t]
        /\ mem' = [mem EXCEPT !["merged"] = @ \/ pipe["fifo"] # <<>>]
    BY <1>0, <1>1, <1>10, NEffects DEF N!WriteBytes
  <2>2. pc'["child"] = "while" /\ DOMAIN pc' = N!Processes /\ pc'["main"] = pc["main"]
    BY <1>0, <2>1, NMovesChild
  <2>3. /\ DOMAIN mem' = NLocals /\ mem'["olvasott"] = mem["olvasott"] /\ mem'["s"] = mem["s"]
        /\ mem'["elkuldott"] = e /\ mem'["ends"] = mem["ends"] /\ mem'["opened"] = mem["opened"]
        /\ mem'["msg"] = mem["msg"]
    BY <1>0, <1>1, <2>1 DEF NLocals
  <2>4. mem'["merged"] <=> mem["merged"] \/ q # <<>>
    <3>1. "merged" \in DOMAIN mem
      BY <1>0 DEF NLocals
    <3>2. mem'["merged"] = (mem["merged"] \/ pipe["fifo"] # <<>>)
      BY <2>1, <3>1
    <3> QED BY <1>1, <3>2
  <2>5. DOMAIN pipe' = {"fifo"} /\ pipe'["fifo"] = q \o t
    BY <1>0, <1>1, <2>1
  <2>6. NControl' /\ NEnds'
    BY <1>0, <1>2, <1>p, <2>1, <2>2, <2>3, <2>5 DEF NControl, NEnds
  <2>7. program # "nevcso2" => ~mem'["merged"]
    <3> SUFFICES ASSUME program # "nevcso2" PROVE ~mem'["merged"]
      OBVIOUS
    <3>1. n <= 1 /\ ~mem["merged"]
      BY <1>1 DEF NInv, NTypes
    <3>2. Len(q) = 0
      BY <1>3, <1>8, <3>1
    <3> QED BY <1>8, <2>4, <3>1, <3>2, EmptySeq
  <2>8. NTypes'
    BY <1>1, <1>2, <1>3, <2>2, <2>3, <2>7 DEF NInv, NTypes
  <2>9. NRead' = r /\ NTyped' = NTyped /\ NWritten' = n
    <3>1. NRead' = r /\ NTyped' = NTyped
      BY <1>1, <2>2, <2>3 DEF NRead, NTyped
    <3>2. NWritten' = n
      BY <1>1, <1>3, <2>2, <2>3 DEF NWritten
    <3> QED BY <3>1, <3>2
  <2>10. t \in Seq(Bytes) /\ Len(t) <= 3 /\ Len(t) \in Nat
    <3>1. t \in Seq(Bytes) /\ Len(t) \in {1, 2, 3}
      BY <1>0, <1>4, <1>6, NBytesAre DEF NControl
    <3>2. \A l \in {1, 2, 3} : l <= 3 /\ l \in Nat
      OBVIOUS
    <3> QED BY <3>1, <3>2, Zenon
  <2>11. q \o t \in Seq(Bytes) /\ Len(q \o t) = Len(q) + Len(t) /\ (q = <<>> => q \o t = t)
    BY <1>8, <2>10, ConcatProperties, ConcatEmptySeq
  <2>12. NFifo'
    <3>1. r <= n /\ Len(q \o t) <= 3 * (n - r) /\ Len(q \o t) <= N!PipeBytes
      BY <1>3, <1>8, <2>1, <2>10, <2>11
    <3>2. program = "nevcso2" => NStops(q \o t, NTyped)
      <4> SUFFICES ASSUME program = "nevcso2" PROVE NStops(q \o t, NTyped)
        OBVIOUS
      <4>1. e[n] \in NTyped
        BY <1>1, <1>4 DEF NTyped
      <4>2. t = Append(e[n], N!NUL)
        BY <1>6 DEF NBytes
      <4>3. PICK E, m : E = NTyped /\ m = e[n]
        OBVIOUS
      <4>4. /\ m \in E /\ m \in Seq(Bytes) /\ Len(m) \in {1, 2} /\ \A k \in 1..Len(m) : m[k] # N!NUL
            /\ NStops(q, E) /\ E \subseteq E
        BY <1>5, <1>8, <4>1, <4>3
      <4>5. NStops(q \o Append(m, N!NUL), E)
        BY <1>8, <4>4, NStopsWritten
      <4> QED BY <4>2, <4>3, <4>5
    <3>3. ~mem'["merged"] => r + 1 = n /\ q \o t = NBytes(e[n])
      <4> SUFFICES ASSUME ~mem'["merged"] PROVE r + 1 = n /\ q \o t = NBytes(e[n])
        OBVIOUS
      <4>1. q = <<>> /\ ~mem["merged"]
        BY <2>4
      <4>2. ~(r + 1 = n - 1 /\ q = NBytes(e[n - 1]))
        <5> SUFFICES ASSUME r + 1 = n - 1, q = NBytes(e[n - 1]) PROVE FALSE
          OBVIOUS
        <5>1. PICK k : k = n - 1
          OBVIOUS
        <5>2. k \in 1..n
          BY <1>3, <1>8, <5>1
        <5>3. e[k] \in NTexts
          BY <1>3, <5>2, ElementOfSeq
        <5>4. NBytes(e[k]) # <<>>
          BY <1>0, <5>3, NBytesAre DEF NControl
        <5> QED BY <4>1, <5>1, <5>4
      <4>3. r = n - 1
        BY <1>8, <4>1, <4>2
      <4>4. r + 1 = n
        BY <1>3, <4>3
      <4> QED BY <1>6, <2>11, <4>1, <4>4
    <3>4. NBytes(mem["elkuldott"][NWritten])' = NBytes(e[n])
      BY <2>3, <2>9 DEF NBytes
    <3> QED BY <1>3, <1>8, <2>3, <2>5, <2>9, <2>11, <3>1, <3>2, <3>3, <3>4 DEF NFifo
  <2>13. NLooks'
    <3>1. /\ mem["olvasott"] \in Seq(Seq(Bytes))
          /\ \A k \in 1..Len(mem["olvasott"]) : NOneOf(mem["olvasott"][k], NTyped)
          /\ ~mem["merged"] => \A k \in 1..Len(mem["olvasott"]) : NSame(mem["olvasott"][k], e[k])
      BY <1>1 DEF NInv, NLooks
    <3>2. \A k \in 1..Len(mem["olvasott"]) : NOneOf(mem["olvasott"][k], NTyped)'
      <4> SUFFICES ASSUME NEW k \in 1..Len(mem["olvasott"]) PROVE NOneOf(mem["olvasott"][k], NTyped)'
        OBVIOUS
      <4>1. PICK x, E : x = mem["olvasott"][k] /\ E = NTyped
        OBVIOUS
      <4>2. NOneOf(x, NTyped)'
        BY <2>9, <3>1, <4>1, NOneOfKept
      <4> QED BY <2>3, <4>1, <4>2, Zenon
    <3>3. ~mem'["merged"] => \A k \in 1..Len(mem["olvasott"]) : NSame(mem["olvasott"][k], mem["elkuldott"][k])'
      BY <2>3, <2>4, <3>1 DEF NSame
    <3>4. /\ pc["main"] \in {"read", "atoi"} /\ program # "nevcso2" => Len(mem["olvasott"]) = 0
          /\ pc["main"] \in {"close", "wait", "done"} =>
               Len(mem["olvasott"]) # 0
               /\ (program = "nevcso2" => mem["olvasott"][Len(mem["olvasott"])] = N!Over)
      BY DEF NInv, NLooks
    <3> QED BY <2>2, <2>3, <3>1, <3>2, <3>3, <3>4 DEF NLooks
  <2>14. NBuffer'
    <3>1. N!s' = N!s
      BY NProgram
    <3>2. /\ mem["s"] \in Seq(Bytes) /\ Len(mem["s"]) = 3
          /\ pc["main"] # "atoi" /\ Len(mem["olvasott"]) = 0 => mem["s"] = N!s
          /\ pc["main"] # "atoi" /\ Len(mem["olvasott"]) # 0 =>
               N!CString(mem["s"]) = mem["olvasott"][Len(mem["olvasott"])]
      BY DEF NInv, NBuffer
    <3>3. ASSUME pc["main"] = "atoi"
          PROVE  /\ program # "nevcso_mashogy" => N!Terminated(mem["s"])
                 /\ NOneOf(N!CString(mem["s"]), NTyped)'
                 /\ ~mem'["merged"] => NSame(N!CString(mem["s"]), mem["elkuldott"][NRead])'
      <4>1. PICK x, E : x = N!CString(mem["s"]) /\ E = NTyped
        OBVIOUS
      <4>2. NOneOf(x, E) /\ (program # "nevcso_mashogy" => N!Terminated(mem["s"]))
            /\ (~mem["merged"] => NSame(x, e[r]))
        BY <1>1, <3>3, <4>1 DEF NInv, NBuffer
      <4>3. NOneOf(x, NTyped)'
        BY <2>9, <4>1, <4>2, NOneOfKept
      <4>4. N!CString(mem["s"])' = x
        BY <2>3, <4>1, Zenon
      <4>5. NSame(x, mem["elkuldott"][NRead])' <=> NSame(x, e[r])
        BY <2>3, <2>9 DEF NSame
      <4> QED BY <2>3, <2>4, <4>2, <4>3, <4>4, <4>5, Zenon
    <3> QED BY <2>2, <2>3, <3>1, <3>2, <3>3 DEF NBuffer
  <2> QED BY <2>6, <2>8, <2>12, <2>13, <2>14 DEF NInv
<1> QED BY <1>9, <1>10

\* What is looked at after a read, when no writes ran together
LEMMA NLookedAt ==
  ASSUME IsFifo, NEW m \in NTexts, program = "nevcso2" => m # N!Fradi, program # "nevcso2" => m = N!Fradi,
         NEW b \in Seq(Bytes), Len(b) = 3, program # "nevcso2" => b = N!s,
         NEW o \in Seq(Bytes), Len(o) = 3,
         \A k \in 1..3 : o[k] = IF k <= Len(NBytes(m)) THEN NBytes(m)[k] ELSE b[k]
  PROVE  NSame(N!CString(o), m) /\ (program # "nevcso_mashogy" => N!Terminated(o))
<1>1. m \in Seq(Bytes) /\ Len(m) \in {1, 2} /\ \A k \in 1..Len(m) : m[k] # P!NUL
  BY NTextsAre, NSameOperators
<1>2. PICK n, y, c : n = Len(m) /\ y = NBytes(m) /\ c = P!CString(o)
  OBVIOUS
<1>3. program # "nevcso2" => n = 1 /\ y = m
  <2>1. program # "nevcso2" => m = <<"H">>
    BY NTextsAre
  <2>2. Len(<<"H">>) = 1
    OBVIOUS
  <2>3. program # "nevcso2" => Len(m) = 1
    BY <2>1, <2>2, Zenon
  <2>4. program # "nevcso2" => NBytes(m) = m
    BY DEF NBytes
  <2> QED BY <1>2, <2>3, <2>4, Zenon
<1>4. program = "nevcso2" => Len(y) = n + 1 /\ y[n + 1] = P!NUL /\ \A k \in 1..n : y[k] = m[k]
  <2>1. Len(Append(m, P!NUL)) = n + 1 /\ Append(m, P!NUL)[n + 1] = P!NUL
        /\ \A k \in 1..n : Append(m, P!NUL)[k] = m[k]
    BY <1>1, <1>2
  <2>2. program = "nevcso2" => y = Append(m, P!NUL)
    BY <1>2, NSameOperators DEF NBytes
  <2> QED BY <2>1, <2>2
<1>5. \A k \in 1..n : o[k] = m[k]
  <2>1. \A k \in 1..n : k \in 1..3 /\ k <= Len(y) /\ y[k] = m[k]
    BY <1>1, <1>2, <1>3, <1>4
  <2> QED BY <1>2, <2>1
<1>6. n \in 0..3 /\ n < 3 /\ n + 1 \in 1..3 /\ n \in {1, 2} /\ n \in Nat
  BY <1>1, <1>2
<1>7. program # "nevcso_mashogy" => o[n + 1] = P!NUL
  <2>1. CASE program = "nevcso2"
    <3>1. n + 1 <= Len(y)
      BY <1>4, <1>6, <2>1
    <3> QED BY <1>2, <1>4, <1>6, <2>1, <3>1
  <2>2. CASE program = "nevcso"
    <3>1. n = 1 /\ y = m /\ n + 1 = 2 /\ ~(2 <= Len(y)) /\ 2 \in 1..3
      <4>1. n = 1 /\ y = m
        BY <1>3, <2>2
      <4>2. Len(y) = 1
        BY <1>2, <4>1, Zenon
      <4> QED BY <4>1, <4>2
    <3>2. b[2] = P!NUL
      BY <2>2, NTextsAre, NSameOperators
    <3>3. o[2] = b[2]
      BY <1>2, <3>1
    <3> QED BY <3>1, <3>2, <3>3
  <2> QED BY <2>1, <2>2 DEF IsFifo
<1>8. /\ c \in Seq(Bytes) /\ n <= Len(c) /\ \A k \in 1..Len(c) : c[k] = o[k]
      /\ (o[n + 1] = P!NUL => Len(c) = n)
  <2>1. n \in 0..Len(o) /\ \A k \in 1..n : o[k] # P!NUL
    BY <1>1, <1>2, <1>5, <1>6
  <2>2. n < Len(o)
    BY <1>6
  <2> QED BY <1>2, <2>1, <2>2, StringIn
<1>9. Len(c) \in Nat /\ \A k \in 1..n : c[k] = m[k]
  <2>1. Len(c) \in Nat
    BY <1>8, LenProperties
  <2>2. \A k \in 1..n : k \in 1..Len(c)
    BY <1>6, <1>8, <2>1
  <2> QED BY <1>5, <1>8, <2>1, <2>2
<1>10. N!CString(o) = c
  BY <1>2, NSameOperators
<1>11. CASE program # "nevcso_mashogy"
  <2>1. Len(c) = Len(m)
    BY <1>2, <1>7, <1>8, <1>11
  <2>2. c = m
    BY <1>1, <1>2, <1>8, <1>9, <2>1, SeqEqual
  <2>3. N!Terminated(o)
    <3>1. P!Contains(o, P!NUL)
      BY <1>6, <1>7, <1>11 DEF P!Contains
    <3> QED BY <3>1, NSameOperators DEF P!Terminated
  <2> QED BY <1>10, <2>2, <2>3 DEF NSame
<1>12. CASE program = "nevcso_mashogy"
  <2>1. P!IsPrefix(m, c)
    BY <1>1, <1>2, <1>8, <1>9, PPrefixIs
  <2> QED BY <1>10, <1>12, <2>1 DEF NSame, N!IsPrefix, P!IsPrefix
<1> QED BY <1>11, <1>12

\* What is looked at after a read, wherever the reads have left off
LEMMA NCutAt ==
  ASSUME NEW q \in Seq(Bytes), NEW E, \A m \in E : m \in Seq(Bytes), NStop(q, E, 0),
         NEW o \in Seq(Bytes), Len(o) = 3, NEW n \in 0..3, n <= Len(q), n = 3 \/ n = Len(q),
         \A k \in 1..n : o[k] = q[k]
  PROVE  N!Terminated(o) /\ NOneOf(N!CString(o), E)
<1>1. PICK l \in 0..2 : NStopAt(q, E, 0, l)
  BY DEF NStop
<1>2. PICK m \in E : l <= Len(m) /\ \A k \in 1..l : q[0 + k] # N!NUL /\ q[0 + k] = m[Len(m) - l + k]
  BY <1>1 DEF NStopAt
<1>3. 0 + l < Len(q) /\ q[0 + l + 1] = N!NUL /\ Len(q) \in Nat
  BY <1>1, LenProperties DEF NStopAt
<1>4. l + 1 \in 1..n /\ 0 + l + 1 = l + 1 /\ l \in 0..3 /\ l < 3 /\ l + 1 \in 1..3
  BY <1>1, <1>3
<1>5. o[l + 1] = P!NUL
  BY <1>3, <1>4, NSameOperators
<1>6. \A k \in 1..l : o[k] # P!NUL /\ o[k] = m[Len(m) - l + k]
  <2>1. \A k \in 1..l : k \in 1..n /\ 0 + k = k
    BY <1>1, <1>4
  <2> QED BY <1>2, <2>1, NSameOperators
<1>7. PICK c : c = P!CString(o)
  OBVIOUS
<1>8. Len(c) = l /\ \A k \in 1..Len(c) : c[k] = o[k]
  <2>1. l \in 0..Len(o) /\ (\A k \in 1..l : o[k] # P!NUL) /\ l < Len(o)
    BY <1>4, <1>6
  <2> QED BY <1>5, <1>7, <2>1, StringIn
<1>9. NTail(c, m)
  BY <1>2, <1>6, <1>8 DEF NTail
<1>10. N!CString(o) = c
  BY <1>7, NSameOperators
<1>11. N!Terminated(o)
  <2>1. P!Contains(o, P!NUL)
    BY <1>4, <1>5 DEF P!Contains
  <2> QED BY <2>1, NSameOperators DEF P!Terminated
<1> QED BY <1>9, <1>10, <1>11 DEF NOneOf

\* The parent reads.
LEMMA NReads ==
  ASSUME NInv, UNCHANGED program, N!ReadFifo
  PROVE  NInv'
<1>0. NControl /\ NEnds /\ "main" \in N!Processes /\ DOMAIN pc = N!Processes /\ DOMAIN mem = NLocals
      /\ DOMAIN pipe = {"fifo"} /\ IsFifo
  BY DEF NInv, NControl, N!Processes
<1>p. IsFifo' = IsFifo
  BY NProgram
<1>1. PICK q, b, got, to, n : /\ q = pipe["fifo"] /\ b = mem["s"] /\ n = N!Min({Len(N!s), Len(q)})
                              /\ got = SubSeq(q, 1, n) /\ to = IF q = <<>> THEN "while" ELSE "atoi"
  OBVIOUS
<1>2. /\ N!Step("main", "read", to) /\ UNCHANGED reaped
      /\ mem' = [mem EXCEPT !["s"] = N!Overlay(got, @)]
      /\ pipe' = [pipe EXCEPT !["fifo"] = SubSeq(@, Len(got) + 1, Len(@))]
  BY <1>1 DEF N!ReadFifo, N!ReadBytes
<1>3. PMoves("main", "read", to)
  BY <1>0, <1>2, NEffects
<1>4. pc["main"] = "read" /\ pc'["main"] = to /\ DOMAIN pc' = N!Processes /\ pc'["child"] = pc["child"]
  BY <1>0, <1>3, NMovesMain
<1>5. /\ DOMAIN mem' = NLocals /\ mem'["ends"] = mem["ends"] /\ mem'["opened"] = mem["opened"]
      /\ mem'["elkuldott"] = mem["elkuldott"] /\ mem'["olvasott"] = mem["olvasott"]
      /\ mem'["merged"] = mem["merged"] /\ mem'["msg"] = mem["msg"] /\ mem'["s"] = P!Overlay(got, b)
      /\ DOMAIN pipe' = {"fifo"} /\ pipe'["fifo"] = SubSeq(q, Len(got) + 1, Len(q))
  <2>1. mem'["s"] = N!Overlay(got, b)
    BY <1>0, <1>1, <1>2 DEF NLocals
  <2> QED BY <1>0, <1>1, <1>2, <2>1, NSameOperators DEF NLocals
<1>6. q \in Seq(Bytes) /\ Len(q) \in Nat /\ b \in Seq(Bytes) /\ Len(b) = 3 /\ Len(N!s) = 3
  <2>1. q \in Seq(Bytes) /\ b \in Seq(Bytes) /\ Len(b) = 3
    BY <1>1 DEF NInv, NFifo, NBuffer
  <2> QED BY <1>0, <2>1, LenProperties, NTextsAre
<1>7. n = (IF 3 <= Len(q) THEN 3 ELSE Len(q))
  <2>1. PICK l : l = Len(q)
    OBVIOUS
  <2>2. P!Min({3, l}) = IF 3 <= l THEN 3 ELSE l
    BY <1>6, <2>1, LeastOfTwo
  <2>3. n = P!Min({3, l})
    BY <1>1, <1>6, <2>1, NSameOperators
  <2> QED BY <2>1, <2>2, <2>3
<1>8. n \in 0..3 /\ n <= Len(q) /\ (n = 3 \/ n = Len(q)) /\ n \in Nat
  <2>1. PICK l : l = Len(q)
    OBVIOUS
  <2>2. l \in Nat /\ n = IF 3 <= l THEN 3 ELSE l
    BY <1>6, <1>7, <2>1
  <2>3. n \in 0..3 /\ n <= l /\ (n = 3 \/ n = l)
    BY <2>2
  <2> QED BY <2>1, <2>3
<1>9. got \in Seq(Bytes) /\ Len(got) = n /\ \A k \in 1..n : got[k] = q[k]
  <2>1. \A k \in 1..n : k \in 1..Len(q)
    BY <1>6, <1>8
  <2>2. \A k \in 1..n : q[k] \in Bytes
    BY <1>6, <2>1, ElementOfSeq
  <2>3. n \in Nat
    BY <1>8
  <2>4. /\ SubSeq(q, 1, n) \in Seq(Bytes) /\ Len(SubSeq(q, 1, n)) = n
        /\ \A k \in 1..n : SubSeq(q, 1, n)[k] = q[k]
    BY <2>2, <2>3, Beginning
  <2> QED BY <1>1, <2>4, Zenon
<1>10. PICK o, u : o = P!Overlay(got, b) /\ u = SubSeq(q, n + 1, Len(q))
  OBVIOUS
<1>11. o \in Seq(Bytes) /\ Len(o) = 3 /\ \A k \in 1..3 : o[k] = IF k <= n THEN q[k] ELSE b[k]
  <2>1. Len(got) <= Len(b)
    <3>1. n <= 3
      BY <1>8
    <3> QED BY <1>6, <1>9, <3>1, Zenon
  <2>2. /\ o \in Seq(Bytes) /\ Len(o) = Len(b)
        /\ \A k \in 1..Len(b) : o[k] = IF k <= Len(got) THEN got[k] ELSE b[k]
    <3>1. /\ P!Overlay(got, b) \in Seq(Bytes) /\ Len(P!Overlay(got, b)) = Len(b)
          /\ \A k \in 1..Len(b) : P!Overlay(got, b)[k] = IF k <= Len(got) THEN got[k] ELSE b[k]
      <4>1. got \in Seq(Bytes) /\ b \in Seq(Bytes)
        BY <1>6, <1>9
      <4> QED BY <2>1, <4>1, Overlaid
    <3> QED BY <1>10, <3>1, Zenon
  <2>3. \A k \in 1..3 : o[k] = IF k <= n THEN got[k] ELSE b[k]
    BY <1>6, <1>9, <2>2
  <2>4. \A k \in 1..3 : k <= n => k \in 1..n
    BY <1>8
  <2> QED BY <1>6, <1>9, <2>2, <2>3, <2>4
<1>12. /\ u \in Seq(Bytes) /\ Len(u) = Len(q) - n /\ \A k \in 1..(Len(q) - n) : u[k] = q[n + k]
  <2>1. PICK l : l = Len(q) - n
    OBVIOUS
  <2>2. l \in Nat /\ n + l = Len(q) /\ n \in Nat
    BY <1>6, <1>8, <2>1
  <2>3. \A k \in 1..l : n + k \in 1..Len(q)
    BY <1>6, <2>2
  <2>4. \A k \in 1..l : q[n + k] \in Bytes
    BY <1>6, <2>3, ElementOfSeq
  <2>5. IsCut(SubSeq(q, n + 1, n + l), q, n, l, Bytes)
    BY <2>2, <2>4, Cut, Zenon
  <2> QED BY <1>10, <2>1, <2>2, <2>5 DEF IsCut
<1>13. mem'["s"] = o /\ pipe'["fifo"] = u
  BY <1>5, <1>9, <1>10
<1>14. PICK e, r, w, E : e = mem["elkuldott"] /\ r = NRead /\ w = NWritten /\ E = NTyped
  OBVIOUS
<1>15. NWritten' = w /\ NTyped' = E
  BY <1>4, <1>5, <1>14 DEF NWritten, NTyped
<1>16. /\ Len(q) <= N!PipeBytes /\ r \in Nat /\ w \in Nat /\ r <= w /\ Len(q) <= 3 * (w - r)
       /\ (program = "nevcso2" => NStops(q, E))
       /\ ~mem["merged"] => (r = w /\ q = <<>>) \/ (r + 1 = w /\ q = NBytes(e[w]))
  BY <1>1, <1>14 DEF NInv, NFifo
<1>17. NControl' /\ NEnds'
  <2>1. to = "while" \/ to = "atoi"
    BY <1>1
  <2> QED BY <1>0, <1>2, <1>4, <1>5, <1>p, <2>1 DEF NControl, NEnds
<1>18. NTypes'
  BY <1>4, <1>5, NTypesKept DEF NInv
<1>19. \A k \in 1..Len(mem["olvasott"]) : NOneOf(mem["olvasott"][k], NTyped)'
  <2> SUFFICES ASSUME NEW k \in 1..Len(mem["olvasott"]) PROVE NOneOf(mem["olvasott"][k], NTyped)'
    OBVIOUS
  <2>1. PICK x : x = mem["olvasott"][k]
    OBVIOUS
  <2>2. NOneOf(x, E)
    BY <1>14, <2>1 DEF NInv, NLooks
  <2>3. NOneOf(x, NTyped)'
    BY <1>15, <2>2, NOneOfKept
  <2> QED BY <1>5, <2>1, <2>3, Zenon
<1>20. NLooks'
  <2>1. /\ mem["olvasott"] \in Seq(Seq(Bytes))
        /\ ~mem["merged"] => \A k \in 1..Len(mem["olvasott"]) : NSame(mem["olvasott"][k], mem["elkuldott"][k])
        /\ program # "nevcso2" => Len(mem["olvasott"]) = 0
    BY <1>4 DEF NInv, NLooks
  <2>2. to = "while" \/ to = "atoi"
    BY <1>1
  <2>3. ~mem["merged"] => \A k \in 1..Len(mem["olvasott"]) : NSame(mem["olvasott"][k], mem["elkuldott"][k])'
    BY <1>5, <2>1 DEF NSame
  <2> QED BY <1>4, <1>5, <1>19, <2>1, <2>2, <2>3 DEF NLooks
<1>21. CASE q = <<>>
  <2>1. to = "while" /\ n = 0
    BY <1>1, <1>7, <1>21
  <2>2. o = b
    <3>1. \A k \in 1..3 : o[k] = b[k]
      BY <1>11, <2>1
    <3> QED BY <1>6, <1>11, <3>1, SeqEqual
  <2>3. u = q
    <3>1. Len(u) = 0
      BY <1>12, <1>21, <2>1
    <3> QED BY <1>12, <1>21, <3>1, EmptySeq
  <2>4. NRead' = NRead
    BY <1>4, <1>5, <2>1 DEF NRead
  <2>5. NFifo'
    BY <1>1, <1>4, <1>5, <1>13, <2>1, <2>3, NFifoKept DEF NInv
  <2>6. NBuffer'
    <3>1. N!s' = N!s
      BY NProgram
    <3> QED BY <1>1, <1>4, <1>5, <1>13, <2>1, <2>2, <3>1 DEF NInv, NBuffer
  <2> QED BY <1>17, <1>18, <1>20, <2>5, <2>6 DEF NInv
<1>22. CASE q # <<>>
  <2>1. to = "atoi"
    BY <1>1, <1>22
  <2>2. Len(q) # 0 /\ n \in {1, 2, 3}
    <3>1. Len(q) # 0
      BY <1>6, <1>22, EmptySeq
    <3> QED BY <1>6, <1>8, <3>1
  <2>3. NRead' = r + 1 /\ r = Len(mem["olvasott"])
    <3>1. Len(mem["olvasott"]) \in Nat
      BY LenProperties DEF NInv, NLooks
    <3>2. r = Len(mem["olvasott"]) + 0
      BY <1>4, <1>14 DEF NRead
    <3>3. NRead' = Len(mem["olvasott"]) + 1
      BY <1>4, <1>5, <2>1 DEF NRead
    <3> QED BY <3>1, <3>2, <3>3
  <2>4. r + 1 <= w /\ Len(u) <= 3 * (w - (r + 1)) /\ Len(u) <= N!PipeBytes
    <3>1. r + 1 <= w
      BY <1>6, <1>16, <2>2
    <3>2. N!PipeBytes \in Nat
      BY PipeCapacityAssumption DEF N!PipeBytes
    <3>3. PICK l, x : l = Len(q) /\ x = Len(u)
      OBVIOUS
    <3>4. l \in Nat /\ l # 0 /\ x = l - n /\ n \in {1, 2, 3} /\ (n = 3 \/ n = l) /\ l <= 3 * (w - r) /\ l <= N!PipeBytes
      BY <1>6, <1>8, <1>12, <1>16, <2>2, <3>3
    <3>5. x <= 3 * (w - (r + 1)) /\ x <= N!PipeBytes
      BY <1>16, <3>1, <3>2, <3>4
    <3> QED BY <3>1, <3>3, <3>5
  <2>5. ~mem["merged"] => r + 1 = w /\ q = NBytes(e[w])
    BY <1>16, <1>22
  <2>6. ~mem["merged"] => e[w] \in NTexts /\ e[w] \in E /\ n = Len(q) /\ u = <<>>
                          /\ (program = "nevcso2" => e[w] # N!Fradi) /\ (program # "nevcso2" => e[w] = N!Fradi)
    <3> SUFFICES ASSUME ~mem["merged"] PROVE e[w] \in NTexts /\ e[w] \in E /\ n = Len(q) /\ u = <<>>
                          /\ (program = "nevcso2" => e[w] # N!Fradi) /\ (program # "nevcso2" => e[w] = N!Fradi)
      OBVIOUS
    <3>1. e \in Seq(NTexts) /\ Len(e) \in Nat
      BY <1>14, LenProperties DEF NInv, NTypes
    <3>2. w <= Len(e)
      <4>1. PICK l : l = Len(e)
        OBVIOUS
      <4>2. l \in Nat /\ (w = l - 1 \/ w = l - 0)
        BY <1>14, <3>1, <4>1 DEF NWritten
      <4> QED BY <4>1, <4>2
    <3>3. w \in 1..Len(e)
      BY <1>16, <2>5, <3>1, <3>2
    <3>4. e[w] \in NTexts /\ e[w] \in E
      BY <1>14, <3>1, <3>3, ElementOfSeq DEF NTyped
    <3>5. Len(q) \in {1, 2, 3}
      BY <1>0, <2>5, <3>4, NBytesAre
    <3>6. n = Len(q)
      <4>1. PICK l : l = Len(q)
        OBVIOUS
      <4>2. l \in {1, 2, 3} /\ n = IF 3 <= l THEN 3 ELSE l
        BY <1>7, <3>5, <4>1
      <4>3. n = l
        BY <4>2
      <4> QED BY <4>1, <4>3
    <3>7. Len(u) = 0
      BY <1>6, <1>12, <3>6
    <3>8. u = <<>>
      BY <1>12, <3>7, EmptySeq
    <3>9. (program = "nevcso2" => e[w] \in Messages \cup {N!Over}) /\ (program # "nevcso2" => e[w] = N!Fradi)
      BY <1>14, <3>3 DEF NInv, NTypes
    <3>10. N!Fradi \notin Messages \cup {N!Over}
      BY DEF N!Fradi, N!Over, Messages
    <3> QED BY <3>4, <3>6, <3>8, <3>9, <3>10
  <2>7. NFifo'
    <3>1. program = "nevcso2" => NStops(u, E)
      <4>1. n \in Nat
        BY <1>8
      <4> QED BY <1>6, <1>8, <1>12, <1>16, <4>1, NStopsRead
    <3>2. ~mem["merged"] => r + 1 = w /\ u = <<>>
      BY <2>5, <2>6
    <3>3. /\ mem'["merged"] = mem["merged"] /\ pipe'["fifo"] = u /\ NWritten' = w /\ NTyped' = E /\ NRead' = r + 1
          /\ program' = program
      BY <1>5, <1>13, <1>15, <2>3
    <3>4. r + 1 \in Nat /\ w \in Nat /\ u \in Seq(Bytes)
      BY <1>12, <1>16
    <3> QED BY <2>4, <3>1, <3>2, <3>3, <3>4 DEF NFifo, N!PipeBytes
  <2>8. ~mem["merged"] => NSame(N!CString(o), e[w]) /\ (program # "nevcso_mashogy" => N!Terminated(o))
    <3> SUFFICES ASSUME ~mem["merged"]
                 PROVE  NSame(N!CString(o), e[w]) /\ (program # "nevcso_mashogy" => N!Terminated(o))
      OBVIOUS
    <3>1. PICK m : m = e[w]
      OBVIOUS
    <3>2. m \in NTexts /\ (program = "nevcso2" => m # N!Fradi) /\ (program # "nevcso2" => m = N!Fradi)
          /\ q = NBytes(m) /\ n = Len(NBytes(m))
      BY <2>5, <2>6, <3>1
    <3>3. program # "nevcso2" => b = N!s
      BY <1>1, <1>4 DEF NInv, NLooks, NBuffer
    <3>4. \A k \in 1..3 : o[k] = IF k <= Len(NBytes(m)) THEN NBytes(m)[k] ELSE b[k]
      BY <1>11, <3>2
    <3>5. NSame(N!CString(o), m) /\ (program # "nevcso_mashogy" => N!Terminated(o))
      BY <1>0, <1>6, <1>11, <3>2, <3>3, <3>4, NLookedAt
    <3> QED BY <3>1, <3>5
  <2>9. (program # "nevcso_mashogy" => N!Terminated(o)) /\ NOneOf(N!CString(o), E)
    <3>1. CASE program = "nevcso2"
      <4>1. NStop(q, E, 0)
        <5>1. 0 \in Nat /\ 0 < Len(q)
          BY <1>6, <2>2
        <5> QED BY <1>16, <3>1, <5>1 DEF NStops
      <4>2. \A m \in E : m \in Seq(Bytes)
        <5>1. \A k \in 1..Len(mem["elkuldott"]) : mem["elkuldott"][k] \in NTexts
          BY ElementOfSeq DEF NInv, NTypes
        <5> QED BY <1>0, <1>14, <5>1, NTextsAre DEF NTyped
      <4>3. \A k \in 1..n : o[k] = q[k]
        <5>1. \A k \in 1..n : k \in 1..3 /\ k <= n
          BY <1>8
        <5> QED BY <1>11, <5>1
      <4> QED BY <1>6, <1>8, <1>11, <4>1, <4>2, <4>3, NCutAt
    <3>2. CASE program # "nevcso2"
      <4>1. ~mem["merged"]
        BY <3>2 DEF NInv, NTypes
      <4> QED BY <2>6, <2>8, <4>1 DEF NOneOf
    <3> QED BY <3>1, <3>2
  <2>10. NBuffer'
    <3>1. PICK c : c = N!CString(o)
      OBVIOUS
    <3>2. N!CString(mem["s"])' = c
      BY <1>13, <3>1, Zenon
    <3>3. NOneOf(c, NTyped)'
      BY <1>15, <2>9, <3>1, NOneOfKept
    <3>4. ~mem["merged"] => NSame(c, mem["elkuldott"][NRead])'
      <4>1. NSame(c, mem["elkuldott"][NRead])' <=> NSame(c, e[r + 1])
        BY <1>5, <1>14, <2>3 DEF NSame
      <4> QED BY <2>5, <2>8, <3>1, <4>1
    <3>5. program # "nevcso_mashogy" => N!Terminated(mem["s"])'
      BY <1>13, <2>9
    <3> QED BY <1>4, <1>5, <1>11, <1>13, <2>1, <3>2, <3>3, <3>4, <3>5 DEF NBuffer
  <2> QED BY <1>17, <1>18, <1>20, <2>7, <2>10 DEF NInv
<1> QED BY <1>21, <1>22

\* The parent adds up what it has read.
LEMMA NCounts ==
  ASSUME NInv, UNCHANGED program,
         N!Assign("main", "atoi", "while", "olvasott", Append(mem["olvasott"], N!CString(mem["s"])))
  PROVE  NInv'
<1>0. NControl /\ NEnds /\ "main" \in N!Processes /\ DOMAIN pc = N!Processes /\ DOMAIN mem = NLocals /\ IsFifo
  BY DEF NInv, NControl, N!Processes
<1>p. IsFifo' = IsFifo
  BY NProgram
<1>1. PICK c, b, m, n : c = N!CString(mem["s"]) /\ b = mem["s"] /\ m = mem["olvasott"] /\ n = Len(mem["olvasott"])
  OBVIOUS
<1>2. PMoves("main", "atoi", "while") /\ UNCHANGED <<reaped, pipe>> /\ mem' = [mem EXCEPT !["olvasott"] = Append(m, c)]
  BY <1>0, <1>1, NEffects DEF N!Assign
<1>3. pc["main"] = "atoi" /\ pc'["main"] = "while" /\ DOMAIN pc' = N!Processes /\ pc'["child"] = pc["child"]
  BY <1>0, <1>2, NMovesMain
<1>4. PICK f : f = Append(m, c)
  OBVIOUS
<1>5. /\ DOMAIN mem' = NLocals /\ mem'["ends"] = mem["ends"] /\ mem'["opened"] = mem["opened"]
      /\ mem'["elkuldott"] = mem["elkuldott"] /\ mem'["olvasott"] = f
      /\ mem'["merged"] = mem["merged"] /\ mem'["msg"] = mem["msg"] /\ mem'["s"] = b
  BY <1>0, <1>1, <1>2, <1>4 DEF NLocals
<1>6. b \in Seq(Bytes) /\ Len(b) = 3 /\ m \in Seq(Seq(Bytes)) /\ n \in Nat /\ n = Len(m)
  <2>1. m \in Seq(Seq(Bytes))
    BY <1>1 DEF NInv, NLooks
  <2> QED BY <1>1, <2>1, LenProperties DEF NInv, NBuffer
<1>7. c \in Seq(Bytes)
  <2>1. 0 \in 0..Len(b) /\ \A k \in 1..0 : b[k] # P!NUL
    BY <1>6
  <2>2. P!CString(b) \in Seq(Bytes)
    BY <1>6, <2>1, StringIn
  <2> QED BY <1>1, <2>2, NSameOperators
<1>8. f \in Seq(Seq(Bytes)) /\ Len(f) = n + 1 /\ f[n + 1] = c /\ \A k \in 1..n : f[k] = m[k]
  BY <1>4, <1>6, <1>7, Behind
<1>9. PICK e, r, E : e = mem["elkuldott"] /\ r = NRead /\ E = NTyped
  OBVIOUS
<1>10. r = n + 1
  BY <1>1, <1>3, <1>9 DEF NRead
<1>11. NRead' = r /\ NWritten' = NWritten /\ NTyped' = E
  <2>1. NRead' = Len(f) + 0
    BY <1>3, <1>5 DEF NRead
  <2>2. NRead' = r
    BY <1>6, <1>8, <1>10, <2>1
  <2> QED BY <1>3, <1>5, <1>9, <2>2 DEF NWritten, NTyped
<1>12. NOneOf(c, E) /\ (~mem["merged"] => NSame(c, e[r]))
  BY <1>1, <1>3, <1>9 DEF NInv, NBuffer
<1>13. NControl' /\ NEnds'
  BY <1>0, <1>2, <1>3, <1>5, <1>p DEF NControl, NEnds
<1>14. NTypes'
  BY <1>3, <1>5, NTypesKept DEF NInv
<1>15. NFifo'
  <2>1. NBytes(mem["elkuldott"][NWritten])' = NBytes(mem["elkuldott"][NWritten])
    BY <1>5, <1>11 DEF NBytes
  <2>2. NRead' = NRead /\ NTyped' = NTyped
    BY <1>9, <1>11
  <2>3. pipe'["fifo"] = pipe["fifo"] /\ mem'["merged"] = mem["merged"]
    BY <1>2, <1>5
  <2>4. PICK w, q, y, Y : w = NWritten /\ q = pipe["fifo"] /\ y = NBytes(mem["elkuldott"][NWritten]) /\ Y = NTyped
    OBVIOUS
  <2>5. /\ q \in Seq(Bytes) /\ Len(q) <= N!PipeBytes /\ r \in Nat /\ w \in Nat /\ r <= w
        /\ Len(q) <= 3 * (w - r) /\ (program = "nevcso2" => NStops(q, Y))
        /\ ~mem["merged"] => (r = w /\ q = <<>>) \/ (r + 1 = w /\ q = y)
    BY <1>9, <2>4 DEF NInv, NFifo
  <2> QED BY <1>9, <1>11, <2>1, <2>2, <2>3, <2>4, <2>5 DEF NFifo
<1>16. \A k \in 1..(n + 1) : (k \in 1..n /\ f[k] = m[k]) \/ (k = n + 1 /\ f[k] = c)
  BY <1>6, <1>8
<1>17. NLooks'
  <2>1. \A k \in 1..n : NOneOf(m[k], E) /\ (~mem["merged"] => NSame(m[k], e[k]))
    BY <1>1, <1>9 DEF NInv, NLooks
  <2>2. \A k \in 1..(n + 1) : NOneOf(f[k], E) /\ (~mem["merged"] => NSame(f[k], e[k]))
    BY <1>10, <1>12, <1>16, <2>1, Zenon
  <2>3. ASSUME NEW k \in 1..(n + 1)
        PROVE  NOneOf(mem["olvasott"][k], NTyped)'
               /\ (~mem["merged"] => NSame(mem["olvasott"][k], mem["elkuldott"][k])')
    <3>1. PICK x : x = f[k]
      OBVIOUS
    <3>2. NOneOf(x, NTyped)'
      BY <1>11, <2>2, <3>1, NOneOfKept
    <3>3. NOneOf(mem["olvasott"][k], NTyped)'
      BY <1>5, <3>1, <3>2, Zenon
    <3>4. NSame(mem["olvasott"][k], mem["elkuldott"][k])' <=> NSame(f[k], e[k])
      BY <1>5, <1>9 DEF NSame
    <3> QED BY <2>2, <3>3, <3>4
  <2> QED BY <1>3, <1>5, <1>8, <2>3 DEF NLooks
<1>18. NBuffer'
  <2>1. Len(f) # 0 /\ f[Len(f)] = c
    BY <1>6, <1>8
  <2> QED BY <1>1, <1>3, <1>5, <1>6, <2>1 DEF NBuffer
<1> QED BY <1>13, <1>14, <1>15, <1>17, <1>18 DEF NInv

LEMMA NInitially == ASSUME N!Init, IsFifo PROVE NInv
<1>1. /\ pc["main"] = "mkfifo" /\ pc["child"] = "off" /\ DOMAIN pc = N!Processes /\ reaped = {}
      /\ DOMAIN pipe = {"fifo"} /\ pipe["fifo"] = <<>> /\ DOMAIN mem = NLocals
  BY DEF N!Init, N!Processes, NLocals
<1>2. /\ mem["elkuldott"] = <<>> /\ mem["olvasott"] = <<>> /\ mem["s"] = N!s
      /\ mem["merged"] = FALSE /\ mem["ends"] = {} /\ mem["opened"] = {}
  BY DEF N!Init
<1>3. NControl /\ NEnds
  BY <1>1, <1>2 DEF NControl, NEnds
<1>4. NTypes
  BY <1>1, <1>2, BoundsAssumption DEF NTypes
<1>5. NRead = 0 /\ NWritten = 0
  BY <1>1, <1>2 DEF NRead, NWritten
<1>6. NFifo
  <2>1. N!PipeBytes \in Nat
    BY PipeCapacityAssumption DEF N!PipeBytes
  <2>2. NStops(<<>>, NTyped)
    BY DEF NStops
  <2> QED BY <1>1, <1>5, <2>1, <2>2 DEF NFifo
<1>7. NLooks
  BY <1>1, <1>2 DEF NLooks
<1>8. NBuffer
  BY <1>1, <1>2, NTextsAre DEF NBuffer
<1> QED BY <1>3, <1>4, <1>6, <1>7, <1>8 DEF NInv

LEMMA NPromises == ASSUME NInv PROVE N!TypeOK /\ N!Framed /\ N!InOrder
<1>1. PICK m, n, o, e : m = Len(mem["olvasott"]) /\ n = Len(mem["elkuldott"])
                        /\ o = mem["olvasott"] /\ e = mem["elkuldott"]
  OBVIOUS
<1>2. /\ o \in Seq(Seq(Bytes)) /\ e \in Seq(NTexts) /\ m \in Nat /\ n \in Nat /\ m = Len(o) /\ n = Len(e)
      /\ DOMAIN o = 1..m /\ DOMAIN e = 1..n
  BY <1>1, LenProperties DEF NInv, NTypes, NLooks
<1>3. IsFifo
  BY DEF NInv, NControl
<1>4. m <= n
  <2>1. NRead <= NWritten /\ NRead \in Nat /\ NWritten \in Nat
    BY DEF NInv, NFifo
  <2>2. NRead = m + 0 \/ NRead = m + 1
    BY <1>1 DEF NRead
  <2>3. NWritten = n - 1 \/ NWritten = n - 0
    BY <1>1 DEF NWritten
  <2> QED BY <1>2, <2>1, <2>2, <2>3
<1>5. N!TypeOK
  <2>1. Len(pipe["fifo"]) \in 0..N!PipeBytes
    <3>1. PICK l : l = Len(pipe["fifo"])
      OBVIOUS
    <3>2. l \in Nat /\ l <= N!PipeBytes
      BY <3>1, LenProperties DEF NInv, NFifo
    <3>3. N!PipeBytes \in Nat
      BY PipeCapacityAssumption DEF N!PipeBytes
    <3> QED BY <3>1, <3>2, <3>3
  <2>2. Len(mem["s"]) = Len(N!s)
    BY <1>3, NTextsAre DEF NInv, NBuffer
  <2> QED BY <2>1, <2>2 DEF NInv, NControl, NTypes, N!TypeOK
<1>6. N!Framed
  <2>1. pc["main"] = "atoi" /\ program # "nevcso_mashogy" => N!Terminated(mem["s"])
    BY DEF NInv, NBuffer
  <2>2. pc["child"] = "write" /\ ~N!Somebody("fifo", "r") => mem["merged"]
    BY NAlone
  <2> QED BY <2>1, <2>2 DEF N!Framed
<1>7. \A t, u : NSame(t, u) <=> (t = u \/ (program = "nevcso_mashogy" /\ N!IsPrefix(u, t)))
  BY DEF NSame
<1>8. \A t \in N!ToSet(o) : \E x \in N!ToSet(e) : NSame(t, x) \/ N!IsSuffix(t, x)
  <2>1. SUFFICES ASSUME NEW k \in 1..m PROVE \E x \in N!ToSet(e) : NSame(o[k], x) \/ N!IsSuffix(o[k], x)
    BY <1>2 DEF N!ToSet
  <2>2. NOneOf(o[k], NTyped)
    BY <1>1, <2>1 DEF NInv, NLooks
  <2>3. PICK x \in NTyped : NSame(o[k], x) \/ NTail(o[k], x)
    BY <2>2 DEF NOneOf
  <2>4. x \in N!ToSet(e) /\ x \in NTexts
    <3>1. PICK j \in 1..n : x = e[j]
      BY <1>1, <2>3 DEF NTyped
    <3>2. e[j] \in NTexts
      BY <1>2, <3>1, ElementOfSeq
    <3> QED BY <1>2, <3>1, <3>2 DEF N!ToSet
  <2>5. x \in Seq(Bytes) /\ o[k] \in Seq(Bytes)
    BY <1>2, <1>3, <2>4, NTextsAre, ElementOfSeq
  <2>6. NTail(o[k], x) => N!IsSuffix(o[k], x)
    BY <2>5, NSuffixIs
  <2> QED BY <2>3, <2>4, <2>6
<1>9. ~mem["merged"] => \A k \in 1..m : NSame(o[k], e[k])
  BY <1>1 DEF NInv, NLooks
<1>10. ~mem["merged"] /\ pc["main"] = "done" => m = n
  BY <1>1, NLast
<1>11. N!InOrder
  BY <1>1, <1>2, <1>4, <1>7, <1>8, <1>9, <1>10, Zenon DEF N!InOrder
<1> QED BY <1>5, <1>6, <1>11

LEMMA NInvariant ==
  /\ N!Init /\ IsFifo => NInv
  /\ NInv /\ UNCHANGED program /\ (N!Next \/ UNCHANGED zhVars) => NInv'
  /\ NInv => N!TypeOK /\ N!Framed /\ N!InOrder
<1>1. ASSUME NInv, UNCHANGED program, N!Next \/ UNCHANGED zhVars PROVE NInv'
  <2>1. CASE N!Main
    BY <1>1, <2>1, NMainSteps, NReads, NCounts, Zenon DEF N!Main
  <2>2. CASE N!child
    BY <1>1, <2>2, NChildSteps, NTypesMore, NWrites, Zenon DEF N!child
  <2>3. CASE UNCHANGED zhVars
    <3>1. UNCHANGED <<pc, reaped, pipe, mem>>
      BY <2>3 DEF zhVars
    <3>2. NControl' /\ NEnds'
      BY <1>1, <3>1, NProgram DEF NInv, NControl, NEnds
    <3>3. NTypes'
      BY <1>1, <3>1, NTypesKept DEF NInv
    <3>4. NFifo' /\ NTyped' = NTyped
      BY <1>1, <3>1, NFifoKept DEF NInv
    <3>5. NLooks' /\ NBuffer'
      BY <1>1, <3>1, <3>4, NLooksKept, NBufferKept DEF NInv
    <3> QED BY <3>2, <3>3, <3>4, <3>5 DEF NInv
  <2> QED BY <1>1, <2>1, <2>2, <2>3 DEF N!Next
<1> QED BY <1>1, NInitially, NPromises

(***************************************************************************)
(* All programs                                                            *)
(***************************************************************************)

\* Each program has its own part, which is inductive for it alone.
CsovekInv ==
  /\ Is("szavazas") => SZInv
  /\ Is("child_communications") => CInv
  /\ Is("kozos_szamlalas") => KInv
  /\ Is("pipe_struct") => PSInv
  /\ IsPipe => PInv
  /\ Is("pipe2_mashogy") => P2Inv
  /\ IsFifo => NInv

LEMMA CsovekInvInitially == Init => CsovekInv
BY SZInvariant, CInvariant, KInvariant, PSInvariant, PInvariant, P2Invariant, NInvariant, Zenon
   DEF Init, CsovekInv

LEMMA CsovekInvInductive == CsovekInv /\ [Next]_allVars => CsovekInv'
<1>1. ASSUME CsovekInv, [Next]_allVars PROVE CsovekInv'
  <2>1. UNCHANGED program /\ (Next \/ UNCHANGED zhVars)
    BY <1>1 DEF Next, allVars
  <2>2. /\ \A x : Is(x)' <=> Is(x)
        /\ IsPipe' <=> IsPipe
        /\ IsFifo' <=> IsFifo
    BY <2>1 DEF Is, IsPipe, IsFifo
  <2>3. ASSUME Is("szavazas") PROVE SZInv'
    <3>1. SZ!Next \/ UNCHANGED zhVars
      BY <2>1, <2>3 DEF Next, Is, IsPipe, IsFifo
    <3> QED BY <1>1, <2>1, <2>3, <3>1, SZInvariant DEF CsovekInv
  <2>4. ASSUME Is("child_communications") PROVE CInv'
    <3>1. CC!Next \/ UNCHANGED zhVars
      BY <2>1, <2>4 DEF Next, Is, IsPipe, IsFifo
    <3> QED BY <1>1, <2>1, <2>4, <3>1, CInvariant DEF CsovekInv
  <2>5. ASSUME Is("kozos_szamlalas") PROVE KInv'
    <3>1. KSZ!Next \/ UNCHANGED zhVars
      BY <2>1, <2>5 DEF Next, Is, IsPipe, IsFifo
    <3> QED BY <1>1, <2>1, <2>5, <3>1, KInvariant DEF CsovekInv
  <2>6. ASSUME Is("pipe_struct") PROVE PSInv'
    <3>1. PS!Next \/ UNCHANGED zhVars
      BY <2>1, <2>6 DEF Next, Is, IsPipe, IsFifo
    <3> QED BY <1>1, <2>1, <2>6, <3>1, PSInvariant DEF CsovekInv
  <2>7. ASSUME IsPipe PROVE PInv'
    <3>1. P!Next \/ UNCHANGED zhVars
      BY <2>1, <2>7 DEF Next, Is, IsPipe, IsFifo
    <3> QED BY <1>1, <2>1, <2>7, <3>1, PInvariant DEF CsovekInv
  <2>8. ASSUME Is("pipe2_mashogy") PROVE P2Inv'
    <3>1. P2M!Next \/ UNCHANGED zhVars
      BY <2>1, <2>8 DEF Next, Is, IsPipe, IsFifo
    <3> QED BY <1>1, <2>1, <2>8, <3>1, P2Invariant DEF CsovekInv
  <2>9. ASSUME IsFifo PROVE NInv'
    <3>1. N!Next \/ UNCHANGED zhVars
      BY <2>1, <2>9 DEF Next, Is, IsPipe, IsFifo
    <3> QED BY <1>1, <2>1, <2>9, <3>1, NInvariant DEF CsovekInv
  <2> QED BY <2>2, <2>3, <2>4, <2>5, <2>6, <2>7, <2>8, <2>9, Zenon DEF CsovekInv
<1> QED BY <1>1

\* What holds of the pipes, their ends and the processes at every label, in every
\* run of every program.
THEOREM CsovekInvHolds == Spec => []CsovekInv
BY CsovekInvInitially, CsovekInvInductive, PTL DEF Spec

\* Every program keeps its processes, its pipes and its variables to what they
\* are for; no pipe holds more than fits.
THEOREM TypeCorrect == Spec => []TypeOK
<1>1. CsovekInv => TypeOK
  BY SZInvariant, CInvariant, KInvariant, PSInvariant, PInvariant, P2Invariant, NInvariant
     DEF CsovekInv, TypeOK
<1> QED BY <1>1, CsovekInvHolds, PTL

\* Every read() finds an item of the size it asks for and never the end of the
\* file; a FIFO's reader finds the end of a string wherever its reads cut it; and
\* nobody writes without a reader, unless writes ran together.
THEOREM FramedHolds == Spec => []Framed
<1>1. CsovekInv => Framed
  BY SZInvariant, PSInvariant, PInvariant, NInvariant
     DEF CsovekInv, Framed
<1> QED BY <1>1, CsovekInvHolds, PTL

\* What goes through the pipes arrives complete and in order; from a FIFO whose
\* writes ran together only messages and ends of messages, and no more than were sent.
THEOREM InOrderHolds == Spec => []InOrder
<1>1. CsovekInv => InOrder
  BY SZInvariant, CInvariant, KInvariant, PInvariant, P2Invariant, NInvariant
     DEF CsovekInv, InOrder
<1> QED BY <1>1, CsovekInvHolds, PTL

\* The election: the counts in the result are those of the checker's judgements and
\* add up to the number of voters, the votes of all parties add up to the number of
\* good ones, and no vote is left in the pipe.
THEOREM EveryoneCountedHolds == Spec => []EveryoneCounted
<1>1. CsovekInv => EveryoneCounted
  BY SZInvariant
     DEF CsovekInv, EveryoneCounted
<1> QED BY <1>1, CsovekInvHolds, PTL
=============================================================================
