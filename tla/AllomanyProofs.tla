--------------------------- MODULE AllomanyProofs ---------------------------
(***************************************************************************)
(* The programs of one process that work on a file: proofs, for all values  *)
(* of the constants of AllomanyMC.                                           *)
(*                                                                         *)
(* First what fscanf() of struktura.c reads where a line is, then the file   *)
(* of the drivers as a sequence of lines, then the programs of Masolas.      *)
(***************************************************************************)
EXTENDS AllomanyMC, SequenceTheorems, WellFoundedInduction, TLAPS

(***************************************************************************)
(* fscanf() in struktura.c                                                 *)
(***************************************************************************)

Scan(p, ok, eof, g) == [p |-> p, ok |-> ok, eof |-> eof, got |-> g]
Scans == [p : 1..Len(file) + 1, ok : BOOLEAN, eof : BOOLEAN, got : Seq(Seq(Int))]

\* A scan all of whose directives have read something
At(p, g) == Scan(p, TRUE, FALSE, g)

LEMMA StMinIs ==
  ASSUME NEW S \in SUBSET Int, NEW m \in S, \A x \in S : m <= x
  PROVE  ST!Min(S) = m
<1>1. \A x \in S : (\A y \in S : x <= y) => x = m
  OBVIOUS
<1> QED BY <1>1 DEF ST!Min

\* The first that is no blank, from p on
LEMMA StAfterBlanks ==
  ASSUME file \in Seq(Int), NEW p \in 1..Len(file) + 1, NEW q \in p..Len(file) + 1,
         \A x \in p..(q - 1) : ST!IsBlank(file[x]),
         q > Len(file) \/ ~ST!IsBlank(file[q])
  PROVE  ST!AfterBlanks(p) = q
<1> DEFINE S == {r \in p..Len(file) + 1 : r > Len(file) \/ ~ST!IsBlank(file[r])}
<1>0. Len(file) \in Nat
  OBVIOUS
<1>1. S \in SUBSET Int /\ q \in S
  BY <1>0
<1>2. \A x \in S : q <= x
  BY <1>0
<1>3. ST!Min(S) = q
  BY <1>1, <1>2, StMinIs
<1> QED BY <1>3 DEF ST!AfterBlanks

LEMMA StNext ==
  ASSUME file \in Seq(Int), NEW p \in Nat \ {0}, NEW q, q = p + 1, q <= Len(file),
         ST!IsBlank(file[p]), ~ST!IsBlank(file[q])
  PROVE  ST!AfterBlanks(p) = q
<1>1. p \in 1..Len(file) + 1 /\ q \in p..Len(file) + 1 /\ \A x \in p..(q - 1) : x = p
  OBVIOUS
<1> QED BY <1>1, StAfterBlanks

LEMMA StBlanksSkipped ==
  ASSUME NEW p, NEW g, NEW q, q = ST!AfterBlanks(p)
  PROVE  ST!Blanks({At(p, g)}) = {At(q, g)}
<1>1. At(p, g).ok = TRUE /\ At(p, g).p = p
  BY DEF At, Scan
<1>2. [At(p, g) EXCEPT !.p = q] = At(q, g)
  <2>1. PICK o, e : o = TRUE /\ e = FALSE
    OBVIOUS
  <2>2. [Scan(p, o, e, g) EXCEPT !.p = q] = Scan(q, o, e, g)
    BY DEF Scan
  <2> QED BY <2>1, <2>2, Zenon DEF At
<1> DEFINE Skip(s) == IF s.ok THEN [s EXCEPT !.p = ST!AfterBlanks(s.p)] ELSE s
<1>3. Skip(At(p, g)) = At(q, g)
  BY <1>1, <1>2, Zenon
<1> HIDE DEF Skip
<1>4. {Skip(s) : s \in {At(p, g)}} = {At(q, g)}
  BY <1>3
<1> QED BY <1>4, Zenon DEF Skip, ST!Blanks

IsOnly(S, x) == S = {x}

\* One directive, where what it reads is there
LEMMA StField ==
  ASSUME NEW q, NEW g, NEW end, Len(file) \in Nat, q \in Nat, end \in Nat,
         q <= Len(file), end <= Len(file)
  PROVE  /\ end = ST!OneLexeme(q) =>
              /\ ST!Field(At(q, g), ST!AnyLexeme, ST!OneLexeme) = At(end, Append(g, SubSeq(file, q, end - 1)))
              /\ ST!IsNumber(file[q]) =>
                   ST!Field(At(q, g), ST!IsNumber, ST!OneLexeme) = At(end, Append(g, SubSeq(file, q, end - 1)))
         /\ end = ST!NextTab(q) =>
              ST!Field(At(q, g), ST!AnyLexeme, ST!NextTab) = At(end, Append(g, SubSeq(file, q, end - 1)))
<1> DEFINE s == At(q, g)
           h == Append(g, SubSeq(file, q, end - 1))
<1>1. (end > Len(file)) = FALSE
  BY SMT
<1>2. s.p = q /\ s.ok = TRUE /\ s.got = g
  BY DEF At, Scan
<1>3. [p |-> end, ok |-> TRUE, eof |-> FALSE, got |-> h] = At(end, h)
  BY Zenon DEF At, Scan
<1>4. ST!AnyLexeme(file[q])
  BY DEF ST!AnyLexeme
<1>5. h = Append(s.got, SubSeq(file, s.p, end - 1))
  BY <1>2, Zenon
<1>6. s.ok /\ s.p <= Len(file) /\ ~(s.p > Len(file))
  BY <1>2
<1> HIDE DEF s, h
<1>7. /\ end = ST!OneLexeme(s.p) => ST!Field(s, ST!AnyLexeme, ST!OneLexeme) = At(end, h)
      /\ end = ST!OneLexeme(s.p) /\ ST!IsNumber(file[s.p]) =>
           ST!Field(s, ST!IsNumber, ST!OneLexeme) = At(end, h)
      /\ end = ST!NextTab(s.p) => ST!Field(s, ST!AnyLexeme, ST!NextTab) = At(end, h)
  BY <1>1, <1>2, <1>3, <1>4, <1>5, <1>6 DEF ST!Field
<1> QED BY <1>2, <1>7, Zenon DEF s, h

\* What a directive reads of one lexeme
LEMMA StOne ==
  ASSUME file \in Seq(Int), NEW q \in 1..Len(file)
  PROVE  SubSeq(file, q, ST!OneLexeme(q) - 1) = <<file[q]>>
<1>1. ST!OneLexeme(q) - 1 = q
  BY DEF ST!OneLexeme
<1>2. PICK s, u : s = SubSeq(file, q, q) /\ u = <<file[q]>>
  OBVIOUS
<1>3. s \in Seq(Int) /\ Len(s) = 1 /\ s[1] = file[q]
  BY <1>2
<1>4. u \in Seq(Int) /\ Len(u) = 1 /\ u[1] = file[q]
  BY <1>2
<1>5. s = u
  BY <1>3, <1>4
<1> QED BY <1>1, <1>2, <1>5

LEMMA StNumber ==
  ASSUME file \in Seq(Int), NEW p, NEW g, NEW q \in 1..Len(file), q = ST!AfterBlanks(p),
         q # Len(file), ST!IsNumber(file[q])
  PROVE  IsOnly(ST!Number({At(p, g)}), At(q + 1, Append(g, <<file[q]>>)))
<1>1. /\ Len(file) \in Nat /\ q \in Nat /\ q + 1 \in Nat /\ q <= Len(file) /\ q + 1 <= Len(file)
      /\ q + 1 = ST!OneLexeme(q)
  BY DEF ST!OneLexeme
<1>2. ST!Field(At(q, g), ST!IsNumber, ST!OneLexeme) = At(q + 1, Append(g, SubSeq(file, q, (q + 1) - 1)))
  BY <1>1, StField, Zenon
<1>3. SubSeq(file, q, (q + 1) - 1) = <<file[q]>>
  BY <1>1, StOne, Zenon
<1>4. ST!Blanks({At(p, g)}) = {At(q, g)}
  BY StBlanksSkipped
<1>5. {ST!Field(s, ST!IsNumber, ST!OneLexeme) : s \in {At(q, g)}} = {ST!Field(At(q, g), ST!IsNumber, ST!OneLexeme)}
  OBVIOUS
<1> QED BY <1>2, <1>3, <1>4, <1>5, Zenon DEF ST!Number, IsOnly

LEMMA StString ==
  ASSUME file \in Seq(Int), NEW p, NEW g, NEW q \in 1..Len(file), q = ST!AfterBlanks(p),
         q # Len(file)
  PROVE  IsOnly(ST!String({At(p, g)}), At(q + 1, Append(g, <<file[q]>>)))
<1>1. /\ Len(file) \in Nat /\ q \in Nat /\ q + 1 \in Nat /\ q <= Len(file) /\ q + 1 <= Len(file)
      /\ q + 1 = ST!OneLexeme(q)
  BY DEF ST!OneLexeme
<1>2. ST!Field(At(q, g), ST!AnyLexeme, ST!OneLexeme) = At(q + 1, Append(g, SubSeq(file, q, (q + 1) - 1)))
  BY <1>1, StField, Zenon
<1>3. SubSeq(file, q, (q + 1) - 1) = <<file[q]>>
  BY <1>1, StOne, Zenon
<1>4. ST!Blanks({At(p, g)}) = {At(q, g)}
  BY StBlanksSkipped
<1>5. {ST!Field(s, ST!AnyLexeme, ST!OneLexeme) : s \in {At(q, g)}} = {ST!Field(At(q, g), ST!AnyLexeme, ST!OneLexeme)}
  OBVIOUS
<1> QED BY <1>2, <1>3, <1>4, <1>5, Zenon DEF ST!String, IsOnly

LEMMA StUpToTab ==
  ASSUME file \in Seq(Int), NEW p, NEW g, NEW q \in 1..Len(file), q = ST!AfterBlanks(p),
         NEW t \in q..Len(file), file[t] = ST!TAB,
         \A r \in q..(t - 1) : file[r] # ST!TAB
  PROVE  IsOnly(ST!UpToTab({At(p, g)}), At(t, Append(g, SubSeq(file, q, t - 1))))
<1>0. Len(file) \in Nat /\ q \in Nat /\ t \in Nat /\ q <= Len(file) /\ t <= Len(file)
  OBVIOUS
<1> DEFINE S == {r \in q..Len(file) + 1 : r > Len(file) \/ file[r] = ST!TAB}
<1>1. S \in SUBSET Int /\ t \in S
  BY <1>0
<1>2. \A x \in S : t <= x
  BY <1>0
<1>3. ST!Min(S) = t
  BY <1>1, <1>2, StMinIs
<1>4. ST!NextTab(q) = t
  BY <1>3 DEF ST!NextTab
<1>5. ST!Field(At(q, g), ST!AnyLexeme, ST!NextTab) = At(t, Append(g, SubSeq(file, q, t - 1)))
  BY <1>0, <1>4, StField, Zenon
<1>6. ST!Blanks({At(p, g)}) = {At(q, g)}
  BY StBlanksSkipped
<1>7. {ST!Field(s, ST!AnyLexeme, ST!NextTab) : s \in {At(q, g)}} = {ST!Field(At(q, g), ST!AnyLexeme, ST!NextTab)}
  OBVIOUS
<1> QED BY <1>5, <1>6, <1>7, Zenon DEF ST!UpToTab, IsOnly

\* At the end of the file nothing more is read.
LEMMA StNoMore ==
  ASSUME NEW s, s.ok = FALSE
  PROVE  ST!Number({s}) = {s} /\ ST!String({s}) = {s} /\ ST!UpToTab({s}) = {s}
<1>1. ST!Blanks({s}) = {s}
  BY DEF ST!Blanks
<1>2. /\ ST!Field(s, ST!IsNumber, ST!OneLexeme) = s
      /\ ST!Field(s, ST!AnyLexeme, ST!OneLexeme) = s
      /\ ST!Field(s, ST!AnyLexeme, ST!NextTab) = s
  BY DEF ST!Field
<1> QED BY <1>1, <1>2 DEF ST!Number, ST!String, ST!UpToTab

LEMMA StReadsEnd ==
  ASSUME file \in Seq(Int), NEW p, ST!AfterBlanks(p) = Len(file) + 1
  PROVE  ST!file_read(p) = {Scan(Len(file) + 1, FALSE, TRUE, <<>>)}
<1> DEFINE n == Len(file) + 1
<1>0. n > Len(file) /\ ~(n <= Len(file))
  OBVIOUS
<1> HIDE DEF n
<1>1. ST!Blanks({At(p, <<>>)}) = {At(n, <<>>)}
  BY StBlanksSkipped DEF n
<1>2. ST!Field(At(n, <<>>), ST!IsNumber, ST!OneLexeme) = Scan(n, FALSE, TRUE, <<>>)
  BY <1>0 DEF ST!Field, At, Scan
<1>3. ST!Number({At(p, <<>>)}) = {Scan(n, FALSE, TRUE, <<>>)}
  <2>1. {ST!Field(s, ST!IsNumber, ST!OneLexeme) : s \in {At(n, <<>>)}} = {ST!Field(At(n, <<>>), ST!IsNumber, ST!OneLexeme)}
    OBVIOUS
  <2> QED BY <1>1, <1>2, <2>1, Zenon DEF ST!Number
<1>4. Scan(n, FALSE, TRUE, <<>>).ok = FALSE
  BY DEF Scan
<1>5. ST!file_read(p) = ST!Number(ST!String(ST!String(ST!UpToTab(ST!Number({At(p, <<>>)})))))
  BY DEF ST!file_read, ST!Scan, At, Scan
<1>6. PICK s : s = Scan(n, FALSE, TRUE, <<>>)
  OBVIOUS
<1>7. ST!Number({s}) = {s} /\ ST!String({s}) = {s} /\ ST!UpToTab({s}) = {s}
  <2>1. s.ok = FALSE
    BY <1>4, <1>6, Zenon
  <2> QED BY <2>1, StNoMore, Zenon
<1>8. ST!file_read(p) = {s}
  BY <1>3, <1>5, <1>6, <1>7, Zenon
<1> QED BY <1>6, <1>8, Zenon DEF n

StRecords == [id : Nat, name : Seq(Int), email : Seq(Int), phone : Seq(Int), exp : Nat]

\* The phone that is typed as one number
Phone1 == 6

\* In the text f, the record r, which has no blank in its email and its phone, from
\* b to the newline before e; its name ends before the tab at t.
StLineAt(f, r, b, t, e) ==
  /\ b \in Nat \ {0} /\ t \in {b + 3, b + 5} /\ e = t + 7
  /\ r \in StRecords /\ r.email = <<ST!WORD>> /\ r.phone = <<Phone1>>
  /\ f[b] = r.id /\ f[b + 1] = ST!TAB
  /\ t = (b + 2) + Len(r.name) /\ \A k \in 1..Len(r.name) : f[(b + 1) + k] = r.name[k]
  /\ f[b + 2] = ST!WORD /\ \A x \in (b + 2)..(t - 1) : f[x] \in {ST!SPACE, ST!WORD}
  /\ f[t] = ST!TAB /\ f[t + 1] = ST!WORD /\ f[t + 2] = ST!TAB
  /\ f[t + 3] = Phone1 /\ f[t + 4] = ST!TAB
  /\ f[t + 5] = r.exp /\ f[t + 6] = ST!NEWLINE

LEMMA StBlanks ==
  /\ ST!IsBlank(ST!TAB) /\ ST!IsBlank(ST!NEWLINE) /\ ST!IsBlank(ST!SPACE)
  /\ ~ST!IsBlank(ST!WORD) /\ \A n \in Nat : ~ST!IsBlank(n) /\ ST!IsNumber(n)
  /\ ST!SPACE # ST!TAB /\ ST!WORD # ST!TAB
  /\ Phone1 \in Int /\ ~ST!IsBlank(Phone1)
BY DEF Phone1, ST!IsBlank, ST!IsNumber, ST!TAB, ST!NEWLINE, ST!SPACE, ST!WORD

\* v is s and then x; s has n elements
IsAppended(T, v, s, x, n) ==
  v \in Seq(T) /\ Len(v) = n + 1 /\ v[n + 1] = x /\ \A k \in 1..n : v[k] = s[k]

LEMMA Appended ==
  ASSUME NEW T, NEW s \in Seq(T), NEW x \in T, NEW n, n = Len(s), NEW v, v = Append(s, x)
  PROVE  IsAppended(T, v, s, x, n)
BY DEF IsAppended

\* The five fields of a scan
IsFive(s, u, v, w, x, y) == s = <<u, v, w, x, y>>

LEMMA StFive ==
  ASSUME NEW T, NEW u \in T, NEW v \in T, NEW w \in T, NEW x \in T, NEW y \in T
  PROVE  /\ IsFive(Append(Append(Append(Append(Append(<<>>, u), v), w), x), y), u, v, w, x, y)
         /\ <<u, v, w, x, y>> \in Seq(T)
<1>1. PICK s0, s1, s2, s3, s4, s5 :
        /\ s0 = <<>> /\ s1 = Append(s0, u) /\ s2 = Append(s1, v) /\ s3 = Append(s2, w)
        /\ s4 = Append(s3, x) /\ s5 = Append(s4, y)
  OBVIOUS
<1>2. s0 \in Seq(T) /\ Len(s0) = 0
  BY <1>1
<1>3. IsAppended(T, s1, s0, u, 0)
  BY <1>1, <1>2, Appended
<1>4. s1 \in Seq(T) /\ Len(s1) = 1 /\ s1[1] = u
  BY <1>3 DEF IsAppended
<1>5. IsAppended(T, s2, s1, v, 1)
  BY <1>1, <1>4, Appended
<1>6. s2 \in Seq(T) /\ Len(s2) = 2 /\ s2[1] = u /\ s2[2] = v
  BY <1>4, <1>5 DEF IsAppended
<1>7. IsAppended(T, s3, s2, w, 2)
  BY <1>1, <1>6, Appended
<1>8. s3 \in Seq(T) /\ Len(s3) = 3 /\ s3[1] = u /\ s3[2] = v /\ s3[3] = w
  BY <1>6, <1>7 DEF IsAppended
<1>9. IsAppended(T, s4, s3, x, 3)
  BY <1>1, <1>8, Appended
<1>10. s4 \in Seq(T) /\ Len(s4) = 4 /\ s4[1] = u /\ s4[2] = v /\ s4[3] = w /\ s4[4] = x
  BY <1>8, <1>9 DEF IsAppended
<1>11. IsAppended(T, s5, s4, y, 4)
  BY <1>1, <1>10, Appended
<1>12. /\ s5 \in Seq(T) /\ Len(s5) = 5 /\ s5[1] = u /\ s5[2] = v /\ s5[3] = w /\ s5[4] = x
       /\ s5[5] = y
  BY <1>10, <1>11 DEF IsAppended
<1>13. PICK z : z = <<u, v, w, x, y>>
  OBVIOUS
<1>14. z \in Seq(T) /\ Len(z) = 5 /\ z[1] = u /\ z[2] = v /\ z[3] = w /\ z[4] = x /\ z[5] = y
  BY <1>13
<1>15. s5 = z
  BY <1>12, <1>14
<1> QED BY <1>1, <1>13, <1>14, <1>15, Zenon DEF IsFive

LEMMA SameSequence ==
  ASSUME NEW s \in Seq(Int), NEW m \in Seq(Int), Len(s) = Len(m), \A k \in 1..Len(m) : s[k] = m[k]
  PROVE  s = m
OBVIOUS

LEMMA StReadsLine ==
  ASSUME file \in Seq(Int), NEW r, NEW b, NEW t, NEW e, StLineAt(file, r, b, t, e), e <= Len(file) + 1,
         NEW p, ST!AfterBlanks(p) = b
  PROVE  ST!file_read(p) = {At(e - 1, ST!Fields(r))}
<1>0. /\ Len(file) \in Nat /\ b \in Nat /\ t \in Nat /\ e \in Nat
      /\ b # 0 /\ b + 3 <= t /\ t + 6 <= Len(file) /\ e = t + 7
  <2>1. b \in Nat /\ b # 0 /\ (t = b + 3 \/ t = b + 5) /\ e = t + 7
    BY Zenon DEF StLineAt
  <2>2. Len(file) \in Nat
    OBVIOUS
  <2>3. t \in Nat /\ b + 3 <= t
    BY <2>1
  <2>4. t + 7 <= Len(file) + 1
    BY <2>1
  <2> QED BY <2>1, <2>2, <2>3, <2>4
<1>1. PICK g1, g2, g3, g4, g5 :
        /\ g1 = Append(<<>>, <<r.id>>) /\ g2 = Append(g1, r.name) /\ g3 = Append(g2, <<ST!WORD>>)
        /\ g4 = Append(g3, <<Phone1>>) /\ g5 = Append(g4, <<r.exp>>)
  OBVIOUS
<1>2. IsOnly(ST!Number({At(p, <<>>)}), At(b + 1, g1))
  <2>1. b \in 1..Len(file) /\ b # Len(file)
    BY <1>0
  <2>2. ST!IsNumber(file[b]) /\ b = ST!AfterBlanks(p) /\ file[b] = r.id
    <3>1. r.id \in Nat /\ file[b] = r.id
      BY DEF StLineAt, StRecords
    <3> QED BY <3>1, StBlanks, Zenon
  <2>3. \A g : IsOnly(ST!Number({At(p, g)}), At(b + 1, Append(g, <<file[b]>>)))
    BY <2>1, <2>2, StNumber, Zenon
  <2> QED BY <1>1, <2>2, <2>3, Zenon
<1>3. IsOnly(ST!UpToTab({At(b + 1, g1)}), At(t, g2))
  <2>1. ST!IsBlank(file[b + 1]) /\ ~ST!IsBlank(file[b + 2])
    BY StBlanks, Zenon DEF StLineAt
  <2>2. /\ b + 1 \in Nat \ {0} /\ b + 2 = (b + 1) + 1 /\ b + 2 <= Len(file) /\ b + 2 \in 1..Len(file)
        /\ t \in (b + 2)..Len(file)
    BY <1>0
  <2>3. b + 2 = ST!AfterBlanks(b + 1)
    BY <2>1, <2>2, StNext
  <2>4. file[t] = ST!TAB /\ \A x \in (b + 2)..(t - 1) : file[x] # ST!TAB
    BY StBlanks, Zenon DEF StLineAt
  <2>5. IsOnly(ST!UpToTab({At(b + 1, g1)}), At(t, Append(g1, SubSeq(file, b + 2, t - 1))))
    <3>1. PICK o, q : o = b + 1 /\ q = b + 2
      OBVIOUS
    <3>2. /\ q \in 1..Len(file) /\ q = ST!AfterBlanks(o) /\ t \in q..Len(file) /\ file[t] = ST!TAB
          /\ \A x \in q..(t - 1) : file[x] # ST!TAB
      BY <2>2, <2>3, <2>4, <3>1, Zenon
    <3>3. IsOnly(ST!UpToTab({At(o, g1)}), At(t, Append(g1, SubSeq(file, q, t - 1))))
      BY <3>2, StUpToTab, Zenon
    <3> QED BY <3>1, <3>3, Zenon
  <2>6. SubSeq(file, b + 2, t - 1) = r.name
    <3>1. PICK s, m : s = SubSeq(file, b + 2, t - 1) /\ m = r.name
      OBVIOUS
    <3>2. m \in Seq(Int) /\ t = (b + 2) + Len(m) /\ \A k \in 1..Len(m) : file[(b + 1) + k] = m[k]
      BY <3>1, Zenon DEF StLineAt, StRecords
    <3>3. m \in Seq(Int) /\ Len(m) \in Nat
      <4>1. r.name \in Seq(Int)
        BY DEF StLineAt, StRecords
      <4> QED BY <3>1, <4>1
    <3>4. s \in Seq(Int) /\ Len(s) = Len(m)
      <4>1. PICK u, v, n, h : u = b + 2 /\ v = t - 1 /\ n = Len(m) /\ h = Len(file)
        OBVIOUS
      <4>2. h \in Nat /\ n \in Nat /\ t = (b + 2) + n
        BY <1>0, <3>2, <3>3, <4>1, Zenon
      <4>3. b \in Nat /\ t \in Nat /\ b # 0 /\ b + 3 <= t /\ t + 6 <= h
        BY <1>0, <4>1, Zenon
      <4>4. u \in Nat /\ v \in Nat /\ 1 <= u /\ u <= v /\ v <= h /\ (v - u) + 1 = n
        BY <4>1, <4>2, <4>3
      <4>5. u \in Nat /\ v \in Nat /\ 1 <= u /\ u <= v /\ v <= Len(file) /\ (v - u) + 1 = Len(m)
        BY <4>1, <4>4
      <4>6. s = SubSeq(file, u, v)
        BY <3>1, <4>1, Zenon
      <4>7. s \in Seq(Int) /\ Len(s) = (v - u) + 1
        BY <4>5, <4>6
      <4> QED BY <4>5, <4>7, Zenon
    <3>5. \A k \in 1..Len(m) : s[k] = m[k]
      <4> TAKE k \in 1..Len(m)
      <4>1. s[k] = file[(b + 2) + k - 1]
        BY <1>0, <3>1, <3>2, <3>3
      <4>2. (b + 2) + k - 1 = (b + 1) + k
        BY <1>0
      <4> QED BY <3>2, <4>1, <4>2
    <3>6. s = m
      BY <3>3, <3>4, <3>5, SameSequence, Zenon
    <3> QED BY <3>1, <3>6
  <2> QED BY <1>1, <2>5, <2>6, Zenon
<1>4. ASSUME NEW s \in {t, t + 2, t + 4} PROVE s + 1 = ST!AfterBlanks(s)
  <2>1. ST!IsBlank(file[s]) /\ ~ST!IsBlank(file[s + 1])
    <3>1. (t + 2) + 1 = t + 3 /\ (t + 4) + 1 = t + 5
      BY <1>0
    <3>2. file[t + 5] \in Nat
      BY DEF StLineAt, StRecords
    <3>3. /\ ST!IsBlank(file[t]) /\ ST!IsBlank(file[t + 2]) /\ ST!IsBlank(file[t + 4])
          /\ ~ST!IsBlank(file[t + 1]) /\ ~ST!IsBlank(file[t + 3]) /\ ~ST!IsBlank(file[t + 5])
      BY <3>2, StBlanks, Zenon DEF StLineAt
    <3> QED BY <3>1, <3>3
  <2>2. s \in Nat \ {0} /\ s + 1 <= Len(file)
    BY <1>0
  <2> QED BY <2>1, <2>2, StNext
<1>5. IsOnly(ST!String({At(t, g2)}), At(t + 2, g3))
  <2>1. t + 1 \in 1..Len(file) /\ t + 1 # Len(file) /\ (t + 1) + 1 = t + 2
    BY <1>0
  <2>2. t + 1 = ST!AfterBlanks(t)
    BY <1>4
  <2>3. IsOnly(ST!String({At(t, g2)}), At((t + 1) + 1, Append(g2, <<file[t + 1]>>)))
    BY <2>1, <2>2, StString, Zenon
  <2>4. file[t + 1] = ST!WORD
    BY Zenon DEF StLineAt
  <2> QED BY <1>1, <2>1, <2>3, <2>4, Zenon
<1>6. IsOnly(ST!String({At(t + 2, g3)}), At(t + 4, g4))
  <2>1. t + 3 \in 1..Len(file) /\ t + 3 # Len(file) /\ (t + 3) + 1 = t + 4 /\ t + 3 = (t + 2) + 1
    BY <1>0
  <2>2. t + 3 = ST!AfterBlanks(t + 2)
    BY <1>4, <2>1
  <2>3. IsOnly(ST!String({At(t + 2, g3)}), At((t + 3) + 1, Append(g3, <<file[t + 3]>>)))
    BY <2>1, <2>2, StString, Zenon
  <2>4. file[t + 3] = Phone1
    BY Zenon DEF StLineAt
  <2> QED BY <1>1, <2>1, <2>3, <2>4, Zenon
<1>7. IsOnly(ST!Number({At(t + 4, g4)}), At(e - 1, g5))
  <2>1. t + 5 \in 1..Len(file) /\ t + 5 # Len(file) /\ (t + 5) + 1 = e - 1 /\ t + 5 = (t + 4) + 1
    BY <1>0
  <2>2. t + 5 = ST!AfterBlanks(t + 4)
    BY <1>4, <2>1
  <2>3. file[t + 5] = r.exp /\ ST!IsNumber(file[t + 5])
    <3>1. r.exp \in Nat /\ file[t + 5] = r.exp
      BY DEF StLineAt, StRecords
    <3> QED BY <3>1, StBlanks, Zenon
  <2>4. IsOnly(ST!Number({At(t + 4, g4)}), At((t + 5) + 1, Append(g4, <<file[t + 5]>>)))
    BY <2>1, <2>2, <2>3, StNumber, Zenon
  <2> QED BY <1>1, <2>1, <2>3, <2>4, Zenon
<1>8. ST!file_read(p) = ST!Number(ST!String(ST!String(ST!UpToTab(ST!Number({At(p, <<>>)})))))
  BY DEF ST!file_read, ST!Scan, At, Scan
<1>9. g5 = ST!Fields(r)
  <2>1. PICK u, v, w, h, y : /\ u = <<r.id>> /\ v = r.name /\ w = <<ST!WORD>>
                              /\ h = <<Phone1>> /\ y = <<r.exp>>
    OBVIOUS
  <2>2. PICK T : u \in T /\ v \in T /\ w \in T /\ h \in T /\ y \in T
    <3>1. /\ u \in {u, v, w, h, y} /\ v \in {u, v, w, h, y} /\ w \in {u, v, w, h, y}
          /\ h \in {u, v, w, h, y} /\ y \in {u, v, w, h, y}
      OBVIOUS
    <3> QED BY <3>1, Zenon
  <2>3. IsFive(Append(Append(Append(Append(Append(<<>>, u), v), w), h), y), u, v, w, h, y)
    BY <2>2, StFive, Zenon
  <2>4. r.email = <<ST!WORD>> /\ r.phone = <<Phone1>>
    BY Zenon DEF StLineAt
  <2>5. g5 = Append(Append(Append(Append(Append(<<>>, u), v), w), h), y)
    BY <1>1, <2>1, Zenon
  <2>6. g5 = <<u, v, w, h, y>>
    BY <2>3, <2>5, Zenon DEF IsFive
  <2> QED BY <2>1, <2>4, <2>6, Zenon DEF ST!Fields
<1>10. ST!UpToTab(ST!Number({At(p, <<>>)})) = {At(t, g2)}
  BY <1>2, <1>3, Zenon DEF IsOnly
<1>11. ST!String(ST!UpToTab(ST!Number({At(p, <<>>)}))) = {At(t + 2, g3)}
  BY <1>5, <1>10, Zenon DEF IsOnly
<1>12. ST!String(ST!String(ST!UpToTab(ST!Number({At(p, <<>>)})))) = {At(t + 4, g4)}
  BY <1>6, <1>11, Zenon DEF IsOnly
<1>13. ST!Number(ST!String(ST!String(ST!UpToTab(ST!Number({At(p, <<>>)}))))) = {At(e - 1, g5)}
  BY <1>7, <1>12, Zenon DEF IsOnly
<1> QED BY <1>8, <1>9, <1>13, Zenon

(***************************************************************************)
(* The drivers of struktura.c                                              *)
(***************************************************************************)

StMaking == {"name", "email", "phone", "exp", "append"}
Texts2 == Seq(Seq(Int))

StTyped ==
  /\ pc \in {"off", "id_setup", "menu"} \cup StMaking
  /\ run \in 0..MaxRuns /\ file \in Seq(Int) /\ recs \in Seq(StRecords) /\ seen \in Seq(Texts2)
  /\ Len(recs) <= MaxRecords /\ (pc \in StMaking => Len(recs) < MaxRecords)
  /\ pos \in 1..Len(file) + 1 /\ id \in Nat /\ plain \in BOOLEAN
  /\ intact \in 0..Len(recs) /\ (plain => intact = Len(recs)) /\ failed \in 0..MaxFailed
  /\ plain /\ file # <<>> => file[Len(file)] = ST!NEWLINE

\* What has been typed of the record
StTyping ==
  /\ a \in StRecords
  /\ pc \in StMaking => a.id < id
  /\ pc \in StMaking \ {"name"} => a.name \in Names
  /\ pc \in {"phone", "exp", "append"} => a.email \in Emails
  /\ pc \in {"exp", "append"} => a.phone \in Phones

\* The lines of the records that are intact begin at b, and nothing else is before
\* the end of the last one.  As long as it has not read all of them, id_setup() is
\* before the newline of the line it has read last.
StLines(b) ==
  /\ b \in [1..intact + 1 -> Nat] /\ b[1] = 1 /\ b[intact + 1] <= Len(file) + 1
  /\ plain => b[intact + 1] = Len(file) + 1
  /\ \A k \in 1..intact :
       \E t : StLineAt(file, recs[k], b[k], t, b[k + 1]) /\ b[k + 1] <= b[intact + 1]
  /\ pc = "id_setup" /\ (plain \/ Len(seen) < intact) =>
       pos = IF seen = <<>> THEN 1 ELSE b[Len(seen) + 1] - 1

StIds ==
  /\ \A j, k \in 1..intact : j < k => recs[j].id < recs[k].id
  /\ pc = "off" => seen = <<>> /\ pos = 1
  /\ \A k \in 1..Len(seen) : k <= intact => seen[k] = ST!Fields(recs[k])
  /\ pc \notin {"off", "id_setup"} => Len(seen) >= intact
  /\ plain => Len(seen) <= Len(recs)

\* While all is plain, the ids that are used are below the next one.
StNextId ==
  /\ pc = "id_setup" => id = IF seen = <<>> THEN 0 ELSE recs[Len(seen)].id
  /\ pc \notin {"off", "id_setup"} => \A k \in 1..Len(recs) : recs[k].id < id
  /\ pc \in StMaking => \A k \in 1..Len(recs) : recs[k].id < a.id

StInv == StTyped /\ StTyping /\ StIds /\ (plain => StNextId) /\ \E b : StLines(b)

-----------------------------------------------------------------------------

LEMMA LeastNat ==
  ASSUME NEW S \in SUBSET Nat, S # {}
  PROVE  \E m \in S : \A x \in S : m <= x
<1>1. PICK m \in S : \A y \in S : ~(<<y, m>> \in OpToRel(<, Nat))
  BY NatLessThanWellFounded, WFMin, Zenon
<1>2. \A y \in S : ~(y < m)
  BY <1>1 DEF OpToRel
<1> QED BY <1>2

LEMMA StSkips ==
  ASSUME file \in Seq(Int), NEW p \in 1..Len(file) + 1
  PROVE  /\ ST!AfterBlanks(p) \in 1..Len(file) + 1
         /\ ST!AfterBlanks(p) <= Len(file) => ~ST!IsBlank(file[ST!AfterBlanks(p)])
<1> DEFINE S == {r \in p..Len(file) + 1 : r > Len(file) \/ ~ST!IsBlank(file[r])}
<1>0. Len(file) \in Nat
  OBVIOUS
<1>1. S \in SUBSET Nat /\ S \in SUBSET Int /\ Len(file) + 1 \in S
  BY <1>0
<1>2. PICK m \in S : \A x \in S : m <= x
  BY <1>1, LeastNat
<1>3. ST!AfterBlanks(p) = m
  BY <1>1, <1>2, StMinIs DEF ST!AfterBlanks
<1> QED BY <1>0, <1>2, <1>3

LEMMA StSkipsBlanks ==
  ASSUME file \in Seq(Int), NEW S \in SUBSET Scans
  PROVE  ST!Blanks(S) \subseteq Scans
<1>1. ASSUME NEW s \in S, NEW q \in 1..Len(file) + 1 PROVE [s EXCEPT !.p = q] \in Scans
  <2>1. s \in Scans
    OBVIOUS
  <2> QED BY <2>1 DEF Scans
<1>2. ASSUME NEW s \in S PROVE ST!AfterBlanks(s.p) \in 1..Len(file) + 1
  <2>1. s.p \in 1..Len(file) + 1
    BY DEF Scans
  <2> QED BY <2>1, StSkips
<1>3. ASSUME NEW s \in S
      PROVE  (IF s.ok THEN [s EXCEPT !.p = ST!AfterBlanks(s.p)] ELSE s) \in Scans
  BY <1>1, <1>2
<1> QED BY <1>3 DEF ST!Blanks

\* What a directive makes of a scan
LEMMA StFieldScans ==
  ASSUME file \in Seq(Int), NEW s \in Scans, NEW end, NEW v,
         s.p <= Len(file) => end \in 1..Len(file) + 1,
         \/ v \in {s, [s EXCEPT !.ok = FALSE, !.eof = TRUE], [s EXCEPT !.ok = FALSE]}
         \/ /\ s.p <= Len(file)
            /\ v = Scan(end, TRUE, end > Len(file), Append(s.got, SubSeq(file, s.p, end - 1)))
  PROVE  v \in Scans
<1>0. Len(file) \in Nat /\ s.p \in 1..Len(file) + 1 /\ s.got \in Texts2
  BY DEF Scans, Texts2
<1>1. s \in Scans /\ [s EXCEPT !.ok = FALSE, !.eof = TRUE] \in Scans /\ [s EXCEPT !.ok = FALSE] \in Scans
  BY DEF Scans
<1>2. CASE s.p <= Len(file) /\ v = Scan(end, TRUE, end > Len(file),
                                        Append(s.got, SubSeq(file, s.p, end - 1)))
  <2>1. end \in 1..Len(file) + 1
    BY <1>2
  <2>2. SubSeq(file, s.p, end - 1) \in Seq(Int)
    <3>1. PICK x, y : x = s.p /\ y = end - 1
      OBVIOUS
    <3>2. x \in Int /\ y \in Int /\ 1 <= x /\ y <= Len(file)
      BY <1>0, <2>1, <3>1
    <3>3. SubSeq(file, x, y) \in Seq(Int)
      BY <3>2, SubSeqProperties
    <3> QED BY <3>1, <3>3, Zenon
  <2>3. PICK u : u = SubSeq(file, s.p, end - 1)
    OBVIOUS
  <2>4. Append(s.got, u) \in Texts2
    BY <1>0, <2>2, <2>3 DEF Texts2
  <2>5. (end > Len(file)) \in BOOLEAN
    BY <1>0, <2>1
  <2>6. PICK o, e, g : o = TRUE /\ e = (end > Len(file)) /\ g = Append(s.got, u)
    OBVIOUS
  <2>7. Scan(end, o, e, g) \in Scans
    BY <2>1, <2>4, <2>5, <2>6 DEF Scan, Scans, Texts2
  <2> QED BY <1>2, <2>3, <2>6, <2>7, Zenon
<1> QED BY <1>1, <1>2, Zenon

LEMMA StNextTab ==
  ASSUME file \in Seq(Int), NEW p \in 1..Len(file) + 1
  PROVE  ST!NextTab(p) \in 1..Len(file) + 1
<1> DEFINE T == {r \in p..Len(file) + 1 : r > Len(file) \/ file[r] = ST!TAB}
<1>0. Len(file) \in Nat
  OBVIOUS
<1>1. T \in SUBSET Nat /\ T \in SUBSET Int /\ Len(file) + 1 \in T
  BY <1>0
<1>2. PICK m \in T : \A x \in T : m <= x
  BY <1>1, LeastNat
<1>3. ST!NextTab(p) = m
  BY <1>1, <1>2, StMinIs DEF ST!NextTab
<1> QED BY <1>0, <1>2, <1>3

LEMMA StScans ==
  ASSUME file \in Seq(Int), NEW S \in SUBSET Scans
  PROVE  ST!Number(S) \subseteq Scans /\ ST!String(S) \subseteq Scans /\ ST!UpToTab(S) \subseteq Scans
<1>0. Len(file) \in Nat
  OBVIOUS
<1>1. ASSUME NEW s \in Scans
      PROVE  /\ ST!Field(s, ST!IsNumber, ST!OneLexeme) \in Scans
             /\ ST!Field(s, ST!AnyLexeme, ST!OneLexeme) \in Scans
             /\ ST!Field(s, ST!AnyLexeme, ST!NextTab) \in Scans
  <2>1. s.p \in 1..Len(file) + 1 /\ s.ok \in BOOLEAN
    BY DEF Scans
  <2>2. s.p <= Len(file) => ST!OneLexeme(s.p) \in 1..Len(file) + 1 /\ ST!NextTab(s.p) \in 1..Len(file) + 1
    <3>1. ASSUME s.p <= Len(file) PROVE s.p \in 1..Len(file) + 1 /\ s.p + 1 \in 1..Len(file) + 1
      BY <1>0, <2>1, <3>1
    <3> QED BY <3>1, StNextTab, Zenon DEF ST!OneLexeme
  <2>3. s.p > Len(file) \/ s.p <= Len(file)
    BY <1>0, <2>1
  <2>4. s.p > Len(file) => ~(s.p <= Len(file))
    BY <1>0, <2>1
  <2> DEFINE Out(end) == {s, [s EXCEPT !.ok = FALSE, !.eof = TRUE], [s EXCEPT !.ok = FALSE]}
             Got(end) == Scan(end, TRUE, end > Len(file), Append(s.got, SubSeq(file, s.p, end - 1)))
  <2>5. \A v : v \in Out(ST!OneLexeme(s.p)) \/ (s.p <= Len(file) /\ v = Got(ST!OneLexeme(s.p))) => v \in Scans
    BY <2>2, StFieldScans
  <2>6. \A v : v \in Out(ST!NextTab(s.p)) \/ (s.p <= Len(file) /\ v = Got(ST!NextTab(s.p))) => v \in Scans
    BY <2>2, StFieldScans
  <2>7. CASE ~s.ok
    <3>1. /\ ST!Field(s, ST!IsNumber, ST!OneLexeme) = s
          /\ ST!Field(s, ST!AnyLexeme, ST!OneLexeme) = s
          /\ ST!Field(s, ST!AnyLexeme, ST!NextTab) = s
      BY <2>7 DEF ST!Field
    <3> QED BY <3>1, Zenon
  <2>8. CASE s.ok /\ s.p > Len(file)
    <3>1. /\ ST!Field(s, ST!IsNumber, ST!OneLexeme) = [s EXCEPT !.ok = FALSE, !.eof = TRUE]
          /\ ST!Field(s, ST!AnyLexeme, ST!OneLexeme) = [s EXCEPT !.ok = FALSE, !.eof = TRUE]
          /\ ST!Field(s, ST!AnyLexeme, ST!NextTab) = [s EXCEPT !.ok = FALSE, !.eof = TRUE]
      BY <2>4, <2>8 DEF ST!Field
    <3> QED BY <2>5, <3>1, Zenon DEF Out
  <2>9. CASE s.ok /\ s.p <= Len(file)
    <3>1. (s.p > Len(file)) = FALSE
      BY <1>0, <2>1, <2>9
    <3>2. ST!AnyLexeme(file[s.p])
      BY DEF ST!AnyLexeme
    <3>3. /\ ST!IsNumber(file[s.p]) =>
               ST!Field(s, ST!IsNumber, ST!OneLexeme) = Got(ST!OneLexeme(s.p))
          /\ ~ST!IsNumber(file[s.p]) =>
               ST!Field(s, ST!IsNumber, ST!OneLexeme) = [s EXCEPT !.ok = FALSE]
          /\ ST!Field(s, ST!AnyLexeme, ST!OneLexeme) = Got(ST!OneLexeme(s.p))
          /\ ST!Field(s, ST!AnyLexeme, ST!NextTab) = Got(ST!NextTab(s.p))
      BY <2>9, <3>1, <3>2 DEF ST!Field, Scan
    <3> HIDE DEF Got
    <3> QED BY <2>5, <2>6, <2>9, <3>3, Zenon DEF Out
  <2> QED BY <2>3, <2>7, <2>8, <2>9, Zenon
<1>2. ST!Blanks(S) \subseteq Scans
  BY StSkipsBlanks
<1> QED BY <1>1, <1>2 DEF ST!Number, ST!String, ST!UpToTab

LEMMA StFileRead ==
  ASSUME file \in Seq(Int), NEW p \in 1..Len(file) + 1, NEW scan \in ST!file_read(p)
  PROVE  scan \in Scans /\ (~scan.eof => ST!AfterBlanks(p) \in 1..Len(file))
<1>1. {At(p, <<>>)} \in SUBSET Scans
  BY DEF At, Scan, Scans
<1>2. ST!file_read(p) = ST!Number(ST!String(ST!String(ST!UpToTab(ST!Number({At(p, <<>>)})))))
  BY DEF ST!file_read, ST!Scan, At, Scan
<1>3. scan \in Scans
  BY <1>1, <1>2, StScans
<1>4. ASSUME ~scan.eof PROVE ST!AfterBlanks(p) \in 1..Len(file)
  <2>1. ST!AfterBlanks(p) \in 1..Len(file) + 1
    BY StSkips
  <2>2. CASE ST!AfterBlanks(p) = Len(file) + 1
    <3>1. ST!file_read(p) = {Scan(Len(file) + 1, FALSE, TRUE, <<>>)}
      BY <2>2, StReadsEnd
    <3>2. scan = Scan(Len(file) + 1, FALSE, TRUE, <<>>)
      BY <3>1
    <3> QED BY <1>4, <3>2 DEF Scan
  <2> QED BY <2>1, <2>2
<1> QED BY <1>3, <1>4

IsJoined(v, s, u, n) ==
  /\ v \in Seq(Int) /\ Len(v) = n + Len(u) /\ n \in Nat
  /\ \A k \in 1..n : v[k] = s[k]
  /\ \A k \in 1..Len(u) : v[n + k] = u[k]

IsExtended(v, s, x, n) ==
  /\ v \in Seq(Int) /\ Len(v) = n + 1 /\ n \in Nat
  /\ \A k \in 1..n : v[k] = s[k]
  /\ v[n + 1] = x

LEMMA Joined ==
  ASSUME NEW s, s \in Seq(Int), NEW u, u \in Seq(Int), NEW n, Len(s) = n, NEW v, v = s \o u
  PROVE  IsJoined(v, s, u, n)
<1>1. v \in Seq(Int) /\ Len(v) = n + Len(u) /\ n \in Nat
  BY ConcatProperties
<1>2. ASSUME NEW k \in 1..n PROVE v[k] = s[k]
  BY <1>2
<1>3. ASSUME NEW k \in 1..Len(u) PROVE v[n + k] = u[k]
  BY <1>1, <1>3
<1> QED BY <1>1, <1>2, <1>3 DEF IsJoined

LEMMA JoinedOne ==
  ASSUME NEW s, s \in Seq(Int), NEW x, x \in Int, NEW n, Len(s) = n, NEW v, v = s \o <<x>>
  PROVE  IsExtended(v, s, x, n)
<1>1. <<x>> \in Seq(Int) /\ Len(<<x>>) = 1 /\ <<x>>[1] = x /\ 1 \in 1..1
  OBVIOUS
<1> DEFINE w == <<x>>
<1>2. w \in Seq(Int) /\ Len(w) = 1 /\ w[1] = x /\ v = s \o w
  BY <1>1, Zenon
<1> HIDE DEF w
<1>3. IsJoined(v, s, w, n)
  BY <1>2, Joined, Zenon
<1>4. v[n + 1] = w[1]
  BY <1>1, <1>2, <1>3 DEF IsJoined
<1> QED BY <1>2, <1>3, <1>4 DEF IsExtended, IsJoined

IsPair(s, x, y) == s \in Seq(Int) /\ Len(s) = 2 /\ s[1] = x /\ s[2] = y

IsTriple(s, x, y, z) == s \in Seq(Int) /\ Len(s) = 3 /\ s[1] = x /\ s[2] = y /\ s[3] = z

LEMMA Pairs ==
  ASSUME NEW x, x \in Int, NEW y, y \in Int, NEW s, s = <<x, y>>
  PROVE  IsPair(s, x, y)
BY DEF IsPair

LEMMA Triples ==
  ASSUME NEW x, x \in Int, NEW y, y \in Int, NEW z, z \in Int, NEW s, s = <<x, y, z>>
  PROVE  IsTriple(s, x, y, z)
BY DEF IsTriple

LEMMA StInts == ST!TAB \in Int /\ ST!NEWLINE \in Int /\ ST!WORD \in Int /\ Phone1 \in Int
BY DEF Phone1, ST!TAB, ST!NEWLINE, ST!WORD

\* A line of any record
LEMMA StLineText ==
  ASSUME NEW r \in StRecords, NEW l, l = ST!Line(r)
  PROVE  l \in Seq(Int) /\ Len(l) > 0 /\ l[Len(l)] = ST!NEWLINE
<1>1. r.id \in Int /\ r.exp \in Int /\ r.name \in Seq(Int) /\ r.email \in Seq(Int) /\ r.phone \in Seq(Int)
  BY DEF StRecords
<1>2. PICK s1 : s1 = <<r.id, ST!TAB>>
  OBVIOUS
<1>3. PICK s2 : s2 = s1 \o r.name
  OBVIOUS
<1>4. PICK s3 : s3 = s2 \o <<ST!TAB>>
  OBVIOUS
<1>5. PICK s4 : s4 = s3 \o r.email
  OBVIOUS
<1>6. PICK s5 : s5 = s4 \o <<ST!TAB>>
  OBVIOUS
<1>7. PICK s6 : s6 = s5 \o r.phone
  OBVIOUS
<1>8. PICK e : e = <<ST!TAB, r.exp, ST!NEWLINE>>
  OBVIOUS
<1>9. l = s6 \o e
  BY <1>2, <1>3, <1>4, <1>5, <1>6, <1>7, <1>8, Zenon DEF ST!Line
<1>10. s1 \in Seq(Int)
  <2>1. IsPair(s1, r.id, ST!TAB)
    BY <1>1, <1>2, StInts, Pairs, Zenon
  <2> QED BY <2>1, Zenon DEF IsPair
<1>11. s2 \in Seq(Int)
  BY <1>1, <1>3, <1>10, ConcatProperties, Zenon
<1>12. s3 \in Seq(Int)
  <2>1. IsExtended(s3, s2, ST!TAB, Len(s2))
    BY <1>4, <1>11, StInts, JoinedOne, Zenon
  <2> QED BY <2>1, Zenon DEF IsExtended
<1>13. s4 \in Seq(Int)
  BY <1>1, <1>5, <1>12, ConcatProperties, Zenon
<1>14. s5 \in Seq(Int)
  <2>1. IsExtended(s5, s4, ST!TAB, Len(s4))
    BY <1>6, <1>13, StInts, JoinedOne, Zenon
  <2> QED BY <2>1, Zenon DEF IsExtended
<1>15. s6 \in Seq(Int)
  BY <1>1, <1>7, <1>14, ConcatProperties, Zenon
<1>16. e \in Seq(Int) /\ Len(e) = 3 /\ e[3] = ST!NEWLINE
  <2>1. IsTriple(e, ST!TAB, r.exp, ST!NEWLINE)
    BY <1>1, <1>8, StInts, Triples, Zenon
  <2> QED BY <2>1, Zenon DEF IsTriple
<1>17. IsJoined(l, s6, e, Len(s6))
  BY <1>9, <1>15, <1>16, Joined, Zenon
<1>18. Len(l) = Len(s6) + 3 /\ l[Len(s6) + 3] = e[3] /\ l \in Seq(Int) /\ Len(s6) \in Nat
  BY <1>16, <1>17 DEF IsJoined
<1> QED BY <1>16, <1>18

\* A line whose email is a word and whose phone a number, and whose name has m lexemes
StIsLine(l, r, m) ==
  /\ m \in Nat /\ l \in Seq(Int) /\ Len(l) = m + 9 /\ l[1] = r.id /\ l[2] = ST!TAB
  /\ \A k \in 1..m : l[2 + k] = r.name[k]
  /\ l[m + 3] = ST!TAB /\ l[m + 4] = ST!WORD /\ l[m + 5] = ST!TAB /\ l[m + 6] = Phone1
  /\ l[m + 7] = ST!TAB /\ l[m + 8] = r.exp /\ l[m + 9] = ST!NEWLINE

LEMMA StPlainLine ==
  ASSUME NEW r \in StRecords, r.email = <<ST!WORD>>, r.phone = <<Phone1>>, NEW m, m = Len(r.name),
         NEW l, l = ST!Line(r)
  PROVE  StIsLine(l, r, m)
<1>1. r.id \in Int /\ r.exp \in Int /\ r.name \in Seq(Int)
  BY DEF StRecords
<1>2. PICK s1 : s1 = <<r.id, ST!TAB>>
  OBVIOUS
<1>3. PICK s2 : s2 = s1 \o r.name
  OBVIOUS
<1>4. PICK s3 : s3 = s2 \o <<ST!TAB>>
  OBVIOUS
<1>5. PICK s4 : s4 = s3 \o <<ST!WORD>>
  OBVIOUS
<1>6. PICK s5 : s5 = s4 \o <<ST!TAB>>
  OBVIOUS
<1>7. PICK s6 : s6 = s5 \o <<Phone1>>
  OBVIOUS
<1>8. PICK e : e = <<ST!TAB, r.exp, ST!NEWLINE>>
  OBVIOUS
<1>9. l = s6 \o e
  BY <1>2, <1>3, <1>4, <1>5, <1>6, <1>7, <1>8, Zenon DEF ST!Line
<1>10. m \in Nat
  BY <1>1
<1>11. s1 \in Seq(Int) /\ Len(s1) = 2 /\ s1[1] = r.id /\ s1[2] = ST!TAB
  <2>1. IsPair(s1, r.id, ST!TAB)
    BY <1>1, <1>2, StInts, Pairs, Zenon
  <2> QED BY <2>1, Zenon DEF IsPair
<1>12. /\ s2 \in Seq(Int) /\ Len(s2) = 2 + m /\ \A k \in 1..2 : s2[k] = s1[k]
       /\ \A k \in 1..m : s2[2 + k] = r.name[k]
  <2>1. IsJoined(s2, s1, r.name, 2)
    BY <1>1, <1>3, <1>11, Joined, Zenon
  <2> QED BY <2>1, Zenon DEF IsJoined
<1>13. IsExtended(s3, s2, ST!TAB, 2 + m)
  BY <1>4, <1>12, StInts, JoinedOne, Zenon
<1>14. IsExtended(s4, s3, ST!WORD, 2 + m + 1)
  <2>1. s3 \in Seq(Int) /\ Len(s3) = 2 + m + 1
    BY <1>13, Zenon DEF IsExtended
  <2> QED BY <1>5, <2>1, StInts, JoinedOne, Zenon
<1>15. IsExtended(s5, s4, ST!TAB, 2 + m + 1 + 1)
  <2>1. s4 \in Seq(Int) /\ Len(s4) = 2 + m + 1 + 1
    BY <1>14, Zenon DEF IsExtended
  <2> QED BY <1>6, <2>1, StInts, JoinedOne, Zenon
<1>16. IsExtended(s6, s5, Phone1, 2 + m + 1 + 1 + 1)
  <2>1. s5 \in Seq(Int) /\ Len(s5) = 2 + m + 1 + 1 + 1
    BY <1>15, Zenon DEF IsExtended
  <2> QED BY <1>7, <2>1, StInts, JoinedOne, Zenon
<1>17. e \in Seq(Int) /\ Len(e) = 3 /\ e[1] = ST!TAB /\ e[2] = r.exp /\ e[3] = ST!NEWLINE
  <2>1. IsTriple(e, ST!TAB, r.exp, ST!NEWLINE)
    BY <1>1, <1>8, StInts, Triples, Zenon
  <2> QED BY <2>1, Zenon DEF IsTriple
<1>18. IsJoined(l, s6, e, Len(s6))
  <2>1. s6 \in Seq(Int)
    BY <1>16, Zenon DEF IsExtended
  <2> QED BY <1>9, <1>17, <2>1, Joined, Zenon
<1>19. Len(s6) = m + 6
  BY <1>10, <1>16 DEF IsExtended
<1>20. IsJoined(l, s6, e, m + 6)
  BY <1>18, <1>19, Zenon
<1>21. l \in Seq(Int) /\ Len(l) = m + 9 /\ \A k \in 1..(m + 6) : l[k] = s6[k]
  <2>1. l \in Seq(Int) /\ Len(l) = (m + 6) + Len(e) /\ \A k \in 1..(m + 6) : l[k] = s6[k]
    BY <1>20, Zenon DEF IsJoined
  <2>2. (m + 6) + Len(e) = m + 9
    BY <1>10, <1>17
  <2> QED BY <2>1, <2>2, Zenon
<1>22. l[m + 7] = ST!TAB /\ l[m + 8] = r.exp /\ l[m + 9] = ST!NEWLINE
  <2>0. \A k \in 1..3 : l[(m + 6) + k] = e[k]
    BY <1>17, <1>20, Zenon DEF IsJoined
  <2>1. l[(m + 6) + 1] = e[1] /\ l[(m + 6) + 2] = e[2] /\ l[(m + 6) + 3] = e[3]
    BY <2>0
  <2>2. (m + 6) + 1 = m + 7 /\ (m + 6) + 2 = m + 8 /\ (m + 6) + 3 = m + 9
    BY <1>10
  <2> QED BY <1>17, <2>1, <2>2, Zenon
<1>23. \A k \in 1..(m + 5) : l[k] = s5[k]
  <2>1. \A k \in 1..(2 + m + 1 + 1 + 1) : s6[k] = s5[k]
    BY <1>16, Zenon DEF IsExtended
  <2>2. 2 + m + 1 + 1 + 1 = m + 5 /\ 1..(m + 5) \subseteq 1..(m + 6)
    BY <1>10
  <2> QED BY <1>21, <2>1, <2>2, Zenon
<1>24. \A k \in 1..(m + 4) : l[k] = s4[k]
  <2>1. \A k \in 1..(2 + m + 1 + 1) : s5[k] = s4[k]
    BY <1>15, Zenon DEF IsExtended
  <2>2. 2 + m + 1 + 1 = m + 4 /\ 1..(m + 4) \subseteq 1..(m + 5)
    BY <1>10
  <2> QED BY <1>23, <2>1, <2>2, Zenon
<1>25. \A k \in 1..(m + 3) : l[k] = s3[k]
  <2>1. \A k \in 1..(2 + m + 1) : s4[k] = s3[k]
    BY <1>14, Zenon DEF IsExtended
  <2>2. 2 + m + 1 = m + 3 /\ 1..(m + 3) \subseteq 1..(m + 4)
    BY <1>10
  <2> QED BY <1>24, <2>1, <2>2, Zenon
<1>26. \A k \in 1..(m + 2) : l[k] = s2[k]
  <2>1. \A k \in 1..(2 + m) : s3[k] = s2[k]
    BY <1>13, Zenon DEF IsExtended
  <2>2. 2 + m = m + 2 /\ 1..(m + 2) \subseteq 1..(m + 3)
    BY <1>10
  <2> QED BY <1>25, <2>1, <2>2, Zenon
<1>27. l[m + 3] = ST!TAB
  <2>1. l[m + 3] = s3[m + 3] /\ m + 3 = 2 + m + 1
    BY <1>10, <1>25
  <2> QED BY <1>13, <2>1, Zenon DEF IsExtended
<1>28. l[m + 4] = ST!WORD
  <2>1. l[m + 4] = s4[m + 4] /\ m + 4 = 2 + m + 1 + 1
    BY <1>10, <1>24
  <2> QED BY <1>14, <2>1, Zenon DEF IsExtended
<1>29. l[m + 5] = ST!TAB
  <2>1. l[m + 5] = s5[m + 5] /\ m + 5 = 2 + m + 1 + 1 + 1
    BY <1>10, <1>23
  <2> QED BY <1>15, <2>1, Zenon DEF IsExtended
<1>30. l[m + 6] = Phone1
  <2>1. l[m + 6] = s6[m + 6] /\ m + 6 = 2 + m + 1 + 1 + 1 + 1
    BY <1>10, <1>21
  <2> QED BY <1>16, <2>1, Zenon DEF IsExtended
<1>31. l[1] = r.id /\ l[2] = ST!TAB
  <2>1. l[1] = s2[1] /\ l[2] = s2[2]
    BY <1>10, <1>26
  <2>2. s2[1] = s1[1] /\ s2[2] = s1[2]
    BY <1>12
  <2> QED BY <1>11, <2>1, <2>2
<1>32. ASSUME NEW k \in 1..m PROVE l[2 + k] = r.name[k]
  <2>1. l[2 + k] = s2[2 + k]
    BY <1>10, <1>26
  <2> QED BY <1>12, <2>1
<1> QED BY <1>10, <1>21, <1>22, <1>27, <1>28, <1>29, <1>30, <1>31, <1>32, Zenon DEF StIsLine

LEMMA StNames ==
  ASSUME NEW s \in Names
  PROVE  \/ Len(s) = 1 /\ s[1] = ST!WORD
         \/ Len(s) = 3 /\ s[1] = ST!WORD /\ s[2] = ST!SPACE /\ s[3] = ST!WORD
<1>1. s = <<-4>> \/ s = <<-4, -3, -4>>
  BY DEF Names
<1>2. ST!WORD = -4 /\ ST!SPACE = -3
  BY DEF ST!WORD, ST!SPACE
<1>3. CASE s = <<-4>>
  BY <1>2, <1>3
<1>4. CASE s = <<-4, -3, -4>>
  BY <1>2, <1>4
<1> QED BY <1>1, <1>3, <1>4

\* Append1 writes a line at the end of the file.
LEMMA StWritten ==
  ASSUME file \in Seq(Int), NEW r \in StRecords, r.name \in Names, r.email = <<ST!WORD>>,
         r.phone = <<Phone1>>, NEW f, f = file \o ST!Line(r)
  PROVE  f \in Seq(Int) /\ \E t : StLineAt(f, r, Len(file) + 1, t, Len(f) + 1)
<1>1. PICK n, m, l : n = Len(file) /\ m = Len(r.name) /\ l = ST!Line(r)
  OBVIOUS
<1>2. StIsLine(l, r, m)
  BY <1>1, StPlainLine, Zenon
<1>0. m \in Nat /\ l \in Seq(Int) /\ Len(l) = m + 9
  BY <1>2, Zenon DEF StIsLine
<1>4. n \in Nat /\ m \in Nat
  BY <1>1
<1>5. \/ m = 1 /\ r.name[1] = ST!WORD
      \/ m = 3 /\ r.name[1] = ST!WORD /\ r.name[2] = ST!SPACE /\ r.name[3] = ST!WORD
  BY <1>1, StNames, Zenon
<1>6. IsJoined(f, file, l, n)
  BY <1>0, <1>1, Joined, Zenon
<1>7. f \in Seq(Int) /\ Len(f) = n + (m + 9) /\ \A k \in 1..(m + 9) : f[n + k] = l[k]
  BY <1>0, <1>6, Zenon DEF IsJoined
<1>9. PICK t : t = n + (m + 3)
  OBVIOUS
<1>10. /\ t \in Nat /\ t \in {(n + 1) + 3, (n + 1) + 5} /\ Len(f) + 1 = t + 7
       /\ n + 1 \in Nat \ {0}
  <2>1. m = 1 \/ m = 3
    BY <1>5
  <2>2. Len(f) = n + (m + 9)
    BY <1>7
  <2> QED BY <1>0, <1>4, <1>9, <2>1, <2>2
<1>11. f[n + 1] = r.id /\ f[(n + 1) + 1] = ST!TAB
  <2>0. 1 \in 1..(m + 9) /\ 2 \in 1..(m + 9)
    BY <1>4
  <2>1. f[n + 1] = l[1] /\ f[n + 2] = l[2]
    BY <1>7, <2>0, Zenon
  <2>2. (n + 1) + 1 = n + 2
    BY <1>4
  <2> QED BY <1>2, <2>1, <2>2, Zenon DEF StIsLine
<1>12. /\ f[t] = ST!TAB /\ f[t + 1] = ST!WORD /\ f[t + 2] = ST!TAB /\ f[t + 3] = Phone1
       /\ f[t + 4] = ST!TAB /\ f[t + 5] = r.exp /\ f[t + 6] = ST!NEWLINE
  <2>0. /\ m + 3 \in 1..(m + 9) /\ m + 4 \in 1..(m + 9) /\ m + 5 \in 1..(m + 9) /\ m + 6 \in 1..(m + 9)
        /\ m + 7 \in 1..(m + 9) /\ m + 8 \in 1..(m + 9) /\ m + 9 \in 1..(m + 9)
    BY <1>4
  <2>1. /\ f[n + (m + 3)] = l[m + 3] /\ f[n + (m + 4)] = l[m + 4] /\ f[n + (m + 5)] = l[m + 5]
        /\ f[n + (m + 6)] = l[m + 6] /\ f[n + (m + 7)] = l[m + 7] /\ f[n + (m + 8)] = l[m + 8]
        /\ f[n + (m + 9)] = l[m + 9]
    BY <1>7, <2>0, Zenon
  <2>2. /\ n + (m + 4) = t + 1 /\ n + (m + 5) = t + 2 /\ n + (m + 6) = t + 3
        /\ n + (m + 7) = t + 4 /\ n + (m + 8) = t + 5 /\ n + (m + 9) = t + 6
    BY <1>0, <1>4, <1>9
  <2> QED BY <1>2, <1>9, <2>1, <2>2, Zenon DEF StIsLine
<1>13. \A k \in 1..m : f[n + (2 + k)] = r.name[k]
  <2>1. TAKE k \in 1..m
  <2>2. f[n + (2 + k)] = l[2 + k]
    <3>1. 2 + k \in 1..(m + 9)
      BY <1>4
    <3> QED BY <1>7, <3>1, Zenon
  <2>3. l[2 + k] = r.name[k]
    BY <1>2, Zenon DEF StIsLine
  <2> QED BY <2>2, <2>3, Zenon
<1>14. \A k \in 1..m : f[((n + 1) + 1) + k] = r.name[k]
  <2>1. TAKE k \in 1..m
  <2>2. n + (2 + k) = ((n + 1) + 1) + k
    BY <1>4
  <2> QED BY <1>13, <2>2, Zenon
<1>15. f[(n + 1) + 2] = ST!WORD /\ \A x \in ((n + 1) + 2)..(t - 1) : f[x] \in {ST!SPACE, ST!WORD}
  <2>1. ASSUME NEW x \in ((n + 1) + 2)..(t - 1)
        PROVE  \E k \in 1..m : x = n + (2 + k)
    <3>1. PICK k : k = x - (n + 2)
      OBVIOUS
    <3>2. k \in 1..m /\ x = n + (2 + k)
      BY <1>4, <1>9, <2>1, <3>1
    <3> QED BY <3>2, Zenon
  <2>2. ASSUME NEW k \in 1..m PROVE r.name[k] \in {ST!SPACE, ST!WORD}
    <3>1. k = 1 \/ (m = 3 /\ (k = 2 \/ k = 3))
      BY <1>5, <2>2
    <3>2. r.name[1] = ST!WORD /\ (m = 3 => r.name[2] = ST!SPACE /\ r.name[3] = ST!WORD)
      <4>1. m = 1 => m # 3
        OBVIOUS
      <4> QED BY <1>5, <4>1, Zenon
    <3> QED BY <3>1, <3>2, Zenon
  <2>3. f[(n + 1) + 2] = ST!WORD
    <3>1. 1 \in 1..m /\ n + (2 + 1) = (n + 1) + 2
      BY <1>4, <1>5
    <3>2. r.name[1] = ST!WORD
      BY <1>5, Zenon
    <3> QED BY <1>13, <3>1, <3>2, Zenon
  <2> QED BY <1>13, <2>1, <2>2, <2>3, Zenon
<1>16. StLineAt(f, r, n + 1, t, Len(f) + 1)
  <2>1. t = ((n + 1) + 2) + Len(r.name)
    <3>1. t = ((n + 1) + 2) + m
      BY <1>4, <1>9
    <3> QED BY <1>1, <3>1, Zenon
  <2>2. \A k \in 1..Len(r.name) : f[((n + 1) + 1) + k] = r.name[k]
    BY <1>1, <1>14, Zenon
  <2> QED BY <1>10, <1>11, <1>12, <1>15, <2>1, <2>2, Zenon DEF StLineAt
<1> QED BY <1>1, <1>7, <1>16

-----------------------------------------------------------------------------

LEMMA StMinNat == ASSUME NEW S \in SUBSET Nat, S # {} PROVE ST!Min(S) \in Nat
<1>1. PICK m \in S : \A x \in S : m <= x
  BY LeastNat
<1>2. S \in SUBSET Int
  OBVIOUS
<1>3. ST!Min(S) = m
  BY <1>1, <1>2, StMinIs
<1> QED BY <1>3

LEMMA StShift == ASSUME NEW n \in Int PROVE ST!Shift(n) \in Nat
<1> DEFINE S == {t \in {10, 100, 1000, 10000, 100000} : n < t \/ t = 100000}
<1>1. S \in SUBSET Nat /\ S # {}
  <2>1. 100000 \in S
    OBVIOUS
  <2> QED BY <2>1
<1>2. ST!Min(S) \in Nat
  BY <1>1, StMinNat
<1> QED BY <1>2 DEF ST!Shift

LEMMA StGlued == ASSUME NEW x \in Int, NEW n \in Int PROVE ST!Glued(x, n) \in Int
<1>1. PICK s : s = ST!Shift(n)
  OBVIOUS
<1>2. s \in Int
  BY <1>1, StShift
<1>3. ST!Glued(x, n) = (IF ST!IsNumber(x) THEN x * s + n ELSE x)
  BY <1>1, Zenon DEF ST!Glued
<1>4. x * s + n \in Int
  BY <1>2
<1> QED BY <1>3, <1>4

\* What is written at the end of a file leaves alone what is before, but for a number
\* that it may continue.
StContinued(f, l) ==
  /\ f \in Seq(Int) /\ Len(file) <= Len(f)
  /\ \A x \in 1..Len(file) : x # Len(file) \/ ST!IsBlank(file[x]) => f[x] = file[x]
  /\ file = <<>> \/ ST!IsBlank(file[Len(file)]) => f = file \o l
  /\ l = <<>> => f = file

LEMMA StWrittenAtEnd ==
  ASSUME file \in Seq(Int), NEW l, l \in Seq(Int), NEW f, f = ST!Written(l)
  PROVE  StContinued(f, l)
<1>1. ST!Last(file) = file[Len(file)]
  BY DEF ST!Last
<1>2. CASE file = <<>> \/ l = <<>> \/ ST!IsBlank(ST!Last(file))
  <2>1. f = file \o l
    BY <1>2, Zenon DEF ST!Written
  <2>2. IsJoined(f, file, l, Len(file))
    BY <2>1, Joined, Zenon
  <2>3. f \in Seq(Int) /\ Len(f) = Len(file) + Len(l) /\ \A x \in 1..Len(file) : f[x] = file[x]
    BY <2>2, Zenon DEF IsJoined
  <2>4. Len(file) <= Len(f)
    BY <2>3
  <2>5. l = <<>> => f = file
    BY <2>1
  <2> QED BY <2>1, <2>3, <2>4, <2>5, Zenon DEF StContinued
<1>3. CASE ~(file = <<>> \/ l = <<>> \/ ST!IsBlank(ST!Last(file)))
  <2>1. PICK n, g, x, y, h, u :
          /\ n = Len(file) - 1 /\ g = ST!Front(file) /\ y = Head(l) /\ h = Tail(l)
          /\ x = ST!Glued(ST!Last(file), Head(l)) /\ u = g \o <<x>>
    OBVIOUS
  <2>2. f = u \o h
    BY <1>3, <2>1, Zenon DEF ST!Written
  <2>3. n \in Nat /\ Len(file) = n + 1 /\ y \in Int /\ h \in Seq(Int) /\ file[Len(file)] \in Int
    <3>1. Len(file) \in Nat /\ Len(file) # 0
      BY <1>3
    <3>2. l # <<>>
      BY <1>3
    <3> QED BY <2>1, <3>1, <3>2
  <2>4. g \in Seq(Int) /\ Len(g) = n /\ \A k \in 1..n : g[k] = file[k]
    <3>1. g = SubSeq(file, 1, n)
      BY <2>1 DEF ST!Front
    <3> QED BY <2>3, <3>1
  <2>5. x \in Int
    BY <1>1, <2>1, <2>3, StGlued
  <2>6. IsExtended(u, g, x, n)
    BY <2>1, <2>4, <2>5, JoinedOne, Zenon
  <2>7. u \in Seq(Int) /\ Len(u) = n + 1 /\ \A k \in 1..n : u[k] = g[k]
    BY <2>6, Zenon DEF IsExtended
  <2>8. IsJoined(f, u, h, n + 1)
    BY <2>2, <2>3, <2>7, Joined, Zenon
  <2>9. f \in Seq(Int) /\ Len(f) = (n + 1) + Len(h) /\ \A k \in 1..(n + 1) : f[k] = u[k]
    BY <2>8, Zenon DEF IsJoined
  <2>10. Len(file) <= Len(f)
    BY <2>3, <2>9
  <2>11. ASSUME NEW k \in 1..Len(file), k # Len(file) \/ ST!IsBlank(file[k]) PROVE f[k] = file[k]
    <3>1. k # Len(file)
      BY <1>1, <1>3, <2>11, Zenon
    <3>2. k \in 1..n /\ k \in 1..(n + 1)
      BY <2>3, <3>1
    <3> QED BY <2>4, <2>7, <2>9, <3>2, Zenon
  <2> QED BY <1>1, <1>3, <2>9, <2>10, <2>11, Zenon DEF StContinued
<1> QED BY <1>2, <1>3, Zenon

\* The beginnings of a line are texts.
LEMMA StTorn ==
  ASSUME NEW l, l \in Seq(Int), NEW part \in ST!Torn(l)
  PROVE  part \in Seq(Int)
<1>0. Len(l) \in Nat /\ DOMAIN l = 1..Len(l)
  OBVIOUS
<1>1. \A n \in 0..Len(l) : SubSeq(l, 1, n) \in Seq(Int)
  BY <1>0
<1>2. CASE part \in {SubSeq(l, 1, n) : n \in 0..Len(l) - 1}
  <2>1. PICK n \in 0..Len(l) - 1 : part = SubSeq(l, 1, n)
    BY <1>2
  <2>2. n \in 0..Len(l)
    BY <1>0
  <2> QED BY <1>1, <2>1, <2>2, Zenon
<1>3. CASE part \in UNION {{Append(SubSeq(l, 1, n - 1), m) : m \in ST!Cuts(l[n])} : n \in DOMAIN l}
  <2>1. PICK n \in DOMAIN l : \E m \in ST!Cuts(l[n]) : part = Append(SubSeq(l, 1, n - 1), m)
    BY <1>3
  <2>2. PICK m \in ST!Cuts(l[n]) : part = Append(SubSeq(l, 1, n - 1), m)
    BY <2>1, Zenon
  <2>3. m \in Int
    <3>1. l[n] \in Int
      BY <1>0
    <3> QED BY <3>1 DEF ST!Cuts
  <2>4. PICK s : s = SubSeq(l, 1, n - 1)
    OBVIOUS
  <2>5. s \in Seq(Int)
    <3>1. n - 1 \in 0..Len(l)
      BY <1>0
    <3> QED BY <1>1, <2>4, <3>1, Zenon
  <2>6. Append(s, m) \in Seq(Int)
    BY <2>3, <2>5
  <2> QED BY <2>2, <2>4, <2>6, Zenon
<1> QED BY <1>2, <1>3 DEF ST!Torn

-----------------------------------------------------------------------------

LEMMA StIndices ==
  ASSUME StTyped, NEW b, StLines(b), NEW k \in 1..intact
  PROVE  /\ Len(file) \in Nat /\ intact \in Nat /\ k \in 1..Len(recs)
         /\ b[k] \in Nat /\ b[k + 1] \in Nat /\ b[k] # 0 /\ b[k + 1] > b[k]
         /\ b[k + 1] <= b[intact + 1] /\ b[k + 1] <= Len(file) + 1 /\ b[k] <= Len(file)
         /\ file[b[k]] = recs[k].id /\ recs[k].id \in Nat /\ file[b[k + 1] - 1] = ST!NEWLINE
<1>1. PICK t : StLineAt(file, recs[k], b[k], t, b[k + 1]) /\ b[k + 1] <= b[intact + 1]
  BY Zenon DEF StLines
<1>2. /\ b[k] \in Nat /\ b[k] # 0 /\ (t = b[k] + 3 \/ t = b[k] + 5) /\ b[k + 1] = t + 7
      /\ recs[k] \in StRecords /\ file[b[k]] = recs[k].id /\ file[t + 6] = ST!NEWLINE
  BY <1>1, Zenon DEF StLineAt
<1>3. Len(file) \in Nat /\ Len(recs) \in Nat /\ intact \in Nat /\ intact <= Len(recs)
  BY DEF StTyped
<1>4. t \in Nat /\ b[k + 1] > b[k] /\ b[k + 1] \in Nat /\ b[k + 1] - 1 = t + 6
  BY <1>2
<1>5. b[intact + 1] \in Nat /\ b[intact + 1] <= Len(file) + 1
  <2>1. intact + 1 \in 1..intact + 1
    BY <1>3
  <2> QED BY <2>1 DEF StLines
<1>6. b[k + 1] <= Len(file) + 1
  BY <1>1, <1>3, <1>4, <1>5
<1>7. b[k] <= Len(file)
  BY <1>2, <1>3, <1>4, <1>6
<1>8. recs[k].id \in Nat /\ k \in 1..Len(recs)
  BY <1>2, <1>3 DEF StRecords
<1> QED BY <1>1, <1>2, <1>3, <1>4, <1>6, <1>7, <1>8, Zenon

\* id_setup() is where the next record begins or, if all is plain, at the end of
\* the file.
LEMMA StPosition ==
  ASSUME StTyped, NEW b, StLines(b), pc = "id_setup",
         Len(seen) < intact \/ (plain /\ Len(seen) = intact)
  PROVE  ST!AfterBlanks(pos) = b[Len(seen) + 1]
<1> DEFINE k == Len(seen)
<1>1. /\ file \in Seq(Int) /\ Len(file) \in Nat /\ k \in Nat /\ intact \in Nat /\ k <= intact
      /\ pos \in 1..Len(file) + 1
  BY DEF StTyped
<1>2. b[1] = 1 /\ (plain => b[intact + 1] = Len(file) + 1)
  BY Zenon DEF StLines
<1>3. pos = IF seen = <<>> THEN 1 ELSE b[k + 1] - 1
  BY Zenon DEF StLines
<1>4. seen = <<>> <=> k = 0
  BY DEF StTyped
<1>5. k = intact => b[k + 1] = Len(file) + 1
  <2>1. k = intact => plain
    BY <1>1
  <2> QED BY <1>2, <2>1
<1>6. k # intact => b[k + 1] <= Len(file) /\ file[b[k + 1]] \in Nat /\ b[k + 1] \in Nat
  <2>1. SUFFICES ASSUME k # intact
                 PROVE  b[k + 1] <= Len(file) /\ file[b[k + 1]] \in Nat /\ b[k + 1] \in Nat
    BY Zenon
  <2>2. k + 1 \in 1..intact
    BY <1>1, <2>1
  <2>3. file[b[k + 1]] = recs[k + 1].id /\ recs[k + 1].id \in Nat
    BY <2>2, StIndices, Zenon
  <2> QED BY <2>2, <2>3, StIndices, Zenon
<1>7. b[k + 1] > Len(file) \/ ~ST!IsBlank(file[b[k + 1]])
  <2>1. CASE k = intact
    BY <1>1, <1>5, <2>1
  <2>2. CASE k # intact
    BY <1>6, <2>2, StBlanks, Zenon
  <2> QED BY <2>1, <2>2, Zenon
<1>8. b[k + 1] \in Nat /\ b[k + 1] <= Len(file) + 1
  <2>1. CASE k = intact
    BY <1>1, <1>5, <2>1
  <2>2. CASE k # intact
    BY <1>1, <1>6, <2>2
  <2> QED BY <2>1, <2>2, Zenon
<1>9. CASE k = 0
  <2>1. pos = 1 /\ b[k + 1] = 1
    BY <1>2, <1>3, <1>4, <1>9
  <2>2. b[k + 1] \in pos..Len(file) + 1 /\ \A x \in pos..(b[k + 1] - 1) : ST!IsBlank(file[x])
    BY <1>1, <2>1
  <2> QED BY <1>1, <1>7, <2>2, StAfterBlanks, Zenon
<1>10. CASE k # 0
  <2>1. k \in 1..intact
    BY <1>1, <1>10
  <2>2. file[b[k + 1] - 1] = ST!NEWLINE
    BY <2>1, StIndices, Zenon
  <2>3. pos = b[k + 1] - 1
    BY <1>3, <1>4, <1>10, Zenon
  <2>4. b[k + 1] \in pos..Len(file) + 1 /\ \A x \in pos..(b[k + 1] - 1) : x = pos
    BY <1>1, <1>8, <2>3
  <2>5. \A x \in pos..(b[k + 1] - 1) : ST!IsBlank(file[x])
    BY <2>2, <2>3, <2>4, StBlanks, Zenon
  <2> QED BY <1>1, <1>7, <2>4, <2>5, StAfterBlanks, Zenon
<1> QED BY <1>9, <1>10, Zenon

\* id_setup() reads the next record that is intact.
LEMMA StSetupReads ==
  ASSUME StTyped, NEW b, StLines(b), pc = "id_setup", Len(seen) < intact,
         NEW k, k = Len(seen) + 1
  PROVE  /\ k \in 1..intact /\ ST!file_read(pos) = {At(b[k + 1] - 1, ST!Fields(recs[k]))}
         /\ file[ST!AfterBlanks(pos)] = recs[k].id /\ recs[k].id \in Nat
         /\ ST!IsNumber(recs[k].id)
<1>1. k \in 1..intact
  BY DEF StTyped
<1>2. ST!AfterBlanks(pos) = b[k]
  BY StPosition, Zenon
<1>3. PICK t : StLineAt(file, recs[k], b[k], t, b[k + 1]) /\ b[k + 1] <= b[intact + 1]
  BY <1>1, Zenon DEF StLines
<1>4. file \in Seq(Int)
  BY Zenon DEF StTyped
<1>5. ST!file_read(pos) = {At(b[k + 1] - 1, ST!Fields(recs[k]))}
  <2>1. PICK q, e, r : q = b[k] /\ e = b[k + 1] /\ r = recs[k]
    OBVIOUS
  <2>2. StLineAt(file, r, q, t, e) /\ e <= Len(file) + 1 /\ ST!AfterBlanks(pos) = q
    BY <1>1, <1>2, <1>3, <2>1, StIndices, Zenon
  <2>3. ST!file_read(pos) = {At(e - 1, ST!Fields(r))}
    BY <1>4, <2>2, StReadsLine
  <2> QED BY <2>1, <2>3, Zenon
<1>6. file[b[k]] = recs[k].id /\ recs[k].id \in Nat
  BY <1>1, StIndices, Zenon
<1> QED BY <1>1, <1>2, <1>5, <1>6, StBlanks, Zenon

\* If all is plain, id_setup() finds the end of the file behind the last record.
LEMMA StSetupEnds ==
  ASSUME StTyped, StIds, StNextId, NEW b, StLines(b), pc = "id_setup", plain, Len(seen) = intact
  PROVE  /\ ST!file_read(pos) = {Scan(Len(file) + 1, FALSE, TRUE, <<>>)}
         /\ \A k \in 1..Len(recs) : recs[k].id < id + 1
<1>1. ST!AfterBlanks(pos) = Len(file) + 1
  BY StPosition, Zenon DEF StLines
<1>2. ST!file_read(pos) = {Scan(Len(file) + 1, FALSE, TRUE, <<>>)}
  BY <1>1, StReadsEnd, Zenon DEF StTyped
<1>3. /\ Len(recs) \in Nat /\ id \in Nat /\ intact = Len(recs) /\ (seen = <<>> <=> Len(seen) = 0)
  BY DEF StTyped
<1>4. \A k \in 1..Len(recs) : recs[k].id \in Nat
  BY <1>3, StIndices, Zenon
<1>5. ASSUME NEW k \in 1..Len(recs) PROVE recs[k].id < id + 1
  <2>1. PICK m, n, u, v : m = Len(recs) /\ n = k /\ u = recs[m].id /\ v = recs[k].id
    OBVIOUS
  <2>2. m \in 1..Len(recs) /\ u \in Nat /\ v \in Nat
    <3>1. Len(recs) \in 1..Len(recs)
      BY <1>3
    <3> QED BY <1>4, <2>1, <3>1, Zenon
  <2>3. seen # <<>>
    BY <1>3, <1>5
  <2>4. id = u
    BY <1>3, <2>1, <2>3, Zenon DEF StNextId
  <2>5. k < m => v < u
    BY <1>3, <2>1, <2>2, Zenon DEF StIds
  <2>6. k < m \/ k = m
    BY <1>3, <2>1
  <2>7. CASE k < m
    BY <2>1, <2>2, <2>4, <2>5, <2>7
  <2>8. CASE k = m
    <3>1. u = v
      BY <2>1, <2>8, Zenon
    <3> QED BY <2>1, <2>2, <2>4, <3>1
  <2> QED BY <2>6, <2>7, <2>8, Zenon
<1> QED BY <1>2, <1>5, Zenon

\* What the old lines are, they stay when more is written after them.
LEMMA StLineKept ==
  ASSUME NEW f, NEW g, NEW n \in Nat, \A x \in 1..n : g[x] = f[x],
         NEW r, NEW b, NEW t, NEW e, StLineAt(f, r, b, t, e), e <= n + 1
  PROVE  StLineAt(g, r, b, t, e)
<1>1. b \in Nat \ {0} /\ t \in {b + 3, b + 5} /\ e = t + 7 /\ r \in StRecords
  BY Zenon DEF StLineAt
<1>2. /\ b \in 1..n /\ b + 1 \in 1..n /\ b + 2 \in 1..n /\ t \in 1..n /\ t + 1 \in 1..n
      /\ t + 2 \in 1..n /\ t + 3 \in 1..n /\ t + 4 \in 1..n /\ t + 5 \in 1..n /\ t + 6 \in 1..n
      /\ \A x \in (b + 2)..(t - 1) : x \in 1..n
  BY <1>1
<1>3. \A k \in 1..Len(r.name) : (b + 1) + k \in 1..n
  <2>1. PICK m : m = Len(r.name)
    OBVIOUS
  <2>2. m \in Nat
    <3>1. r.name \in Seq(Int)
      BY <1>1 DEF StRecords
    <3> QED BY <2>1, <3>1
  <2>3. t = (b + 2) + m
    BY <2>1, Zenon DEF StLineAt
  <2>4. \A k \in 1..m : (b + 1) + k \in 1..n
    <3>1. b \in Nat /\ t \in Nat /\ t <= n
      BY <1>1, <1>2
    <3> QED BY <2>2, <2>3, <3>1
  <2> QED BY <2>1, <2>4, Zenon
<1>4. /\ g[b] = f[b] /\ g[b + 1] = f[b + 1] /\ g[b + 2] = f[b + 2] /\ g[t] = f[t]
      /\ g[t + 1] = f[t + 1] /\ g[t + 2] = f[t + 2] /\ g[t + 3] = f[t + 3] /\ g[t + 4] = f[t + 4]
      /\ g[t + 5] = f[t + 5] /\ g[t + 6] = f[t + 6] /\ \A x \in (b + 2)..(t - 1) : g[x] = f[x]
      /\ \A k \in 1..Len(r.name) : g[(b + 1) + k] = f[(b + 1) + k]
  BY <1>2, <1>3, Zenon
<1> QED BY <1>4, Zenon DEF StLineAt

-----------------------------------------------------------------------------

LEMMA StInitially ==
  ASSUME MaxRecords \in Nat, MaxRuns \in Nat, MaxFailed \in Nat, ST!Init
  PROVE  StInv
<1>1. StTyped
  BY DEF ST!Init, StTyped, StMaking, ST!histories
<1>2. /\ a = ST!NoRecord /\ pc = "off" /\ file = <<>> /\ recs = <<>> /\ seen = <<>> /\ pos = 1
      /\ intact = 0
  BY DEF ST!Init
<1>3. StTyping
  BY <1>2 DEF StTyping, StRecords, StMaking, ST!NoRecord
<1>4. Len(seen) = 0 /\ Len(recs) = 0 /\ Len(file) = 0 /\ 1..0 = {}
  BY <1>2
<1>5. StIds /\ StNextId
  BY <1>2, <1>4 DEF StIds, StNextId, StMaking
<1>6. StLines([k \in {1} |-> 1])
  <2>1. 1..intact + 1 = {1} /\ 1..intact = {} /\ intact + 1 = 1
    BY <1>2
  <2>2. Len(file) + 1 = 1 /\ 1 \in Nat /\ 1 <= 1
    BY <1>4
  <2>3. [k \in {1} |-> 1] \in [{1} -> Nat] /\ [k \in {1} |-> 1][1] = 1
    OBVIOUS
  <2>4. pc # "id_setup"
    BY <1>2
  <2> QED BY <2>1, <2>2, <2>3, <2>4 DEF StLines
<1> QED BY <1>1, <1>3, <1>5, <1>6 DEF StInv

\* What the file is and the records in it stay, and id_setup() does not run.
LEMMA StLinesKept ==
  ASSUME NEW b, StLines(b), file' = file, recs' = recs, plain' = plain, intact' = intact,
         pc' # "id_setup"
  PROVE  StLines(b)'
BY Zenon DEF StLines

LEMMA StStart ==
  ASSUME MaxRuns \in Nat, StInv, ST!Start
  PROVE  StInv'
<1>1. /\ pc = "off" /\ pc' = "id_setup" /\ run' = run + 1 /\ run < MaxRuns /\ id' = 0
      /\ file' = file /\ pos' = pos /\ a' = a /\ seen' = seen /\ recs' = recs /\ plain' = plain
      /\ intact' = intact /\ failed' = failed
  BY DEF ST!Start, ST!histories
<1>2. StTyped'
  <2>1. run' \in 0..MaxRuns
    BY <1>1 DEF StInv, StTyped
  <2>2. 0 \in Nat
    OBVIOUS
  <2>3. "id_setup" \notin StMaking
    BY DEF StMaking
  <2> QED BY <1>1, <2>1, <2>2, <2>3, Zenon DEF StInv, StTyped
<1>3. StTyping'
  BY <1>1 DEF StInv, StTyping, StMaking
<1>4. StIds /\ seen = <<>> /\ pos = 1
  BY <1>1 DEF StInv, StIds
<1>5. Len(seen) = 0 /\ 1..Len(seen) = {}
  BY <1>4
<1>6. StIds'
  BY <1>1, <1>4, <1>5 DEF StIds
<1>7. StNextId'
  BY <1>1, <1>4 DEF StNextId, StMaking
<1>8. PICK b : StLines(b)
  BY Zenon DEF StInv
<1>9. StLines(b)'
  BY <1>1, <1>4, <1>8, Zenon DEF StLines
<1> QED BY <1>2, <1>3, <1>6, <1>7, <1>9, Zenon DEF StInv

LEMMA StSetup ==
  ASSUME StInv, ST!id_setup
  PROVE  StInv'
<1>1. /\ pc = "id_setup" /\ run' = run /\ file' = file /\ a' = a /\ recs' = recs /\ plain' = plain
      /\ intact' = intact /\ failed' = failed /\ StTyped /\ StTyping /\ StIds /\ (plain => StNextId)
  BY DEF ST!id_setup, StInv
<1>2. PICK scan \in ST!file_read(pos) :
        /\ pos' = scan.p
        /\ IF scan.eof
             THEN pc' = "menu" /\ id' = ST!NextId /\ UNCHANGED seen
             ELSE /\ IF ST!IsNumber(file[ST!AfterBlanks(pos)])
                       THEN /\ id' = file[ST!AfterBlanks(pos)]
                            /\ seen' = Append(seen, scan.got)
                       ELSE id' = 0 /\ UNCHANGED seen
                  /\ UNCHANGED pc
  BY Zenon DEF ST!id_setup
<1>3. scan \in Scans /\ (~scan.eof => ST!AfterBlanks(pos) \in 1..Len(file))
  BY <1>1, StFileRead, Zenon DEF StTyped
<1>4. /\ file \in Seq(Int) /\ id \in Nat /\ seen \in Seq(Texts2) /\ scan.p \in 1..Len(file) + 1
      /\ scan.got \in Texts2 /\ Len(seen) \in Nat /\ intact \in Nat /\ intact <= Len(recs)
      /\ Len(recs) \in Nat /\ (plain => intact = Len(recs))
  BY <1>1, <1>3 DEF StTyped, Scans, Texts2
<1>5. /\ id' \in Nat /\ seen' \in Seq(Texts2) /\ pc' \in {"id_setup", "menu"}
      /\ seen' = seen \/ seen' = Append(seen, scan.got)
  <2>1. CASE scan.eof
    BY <1>2, <1>4, <2>1 DEF ST!NextId
  <2>2. CASE ~scan.eof /\ ST!IsNumber(file[ST!AfterBlanks(pos)])
    <3>1. file[ST!AfterBlanks(pos)] \in Nat
      BY <1>3, <1>4, <2>2 DEF ST!IsNumber
    <3>2. /\ id' = file[ST!AfterBlanks(pos)] /\ pc' = pc
          /\ seen' = Append(seen, scan.got)
      BY <1>2, <2>2, Zenon
    <3> QED BY <1>1, <1>4, <3>1, <3>2
  <2>3. CASE ~scan.eof /\ ~ST!IsNumber(file[ST!AfterBlanks(pos)])
    <3>1. id' = 0 /\ pc' = pc /\ seen' = seen
      BY <1>2, <2>3, Zenon
    <3> QED BY <1>1, <1>4, <3>1
  <2> QED BY <2>1, <2>2, <2>3, Zenon
<1>6. StTyped'
  <2>1. pc' \notin StMaking /\ pc' \in {"off", "id_setup", "menu"} \cup StMaking
    BY <1>5 DEF StMaking
  <2> QED BY <1>1, <1>2, <1>4, <1>5, <2>1, Zenon DEF StTyped
<1>7. StTyping'
  BY <1>1, <1>5 DEF StTyping, StMaking
<1>8. PICK b : StLines(b)
  BY Zenon DEF StInv
<1>9. CASE Len(seen) < intact
  <2>1. PICK k : k = Len(seen) + 1
    OBVIOUS
  <2>2. /\ k \in 1..intact /\ ST!file_read(pos) = {At(b[k + 1] - 1, ST!Fields(recs[k]))}
        /\ file[ST!AfterBlanks(pos)] = recs[k].id /\ recs[k].id \in Nat
        /\ ST!IsNumber(recs[k].id)
    BY <1>1, <1>8, <1>9, <2>1, StSetupReads, Zenon
  <2>3. PICK g : g = ST!Fields(recs[k])
    OBVIOUS
  <2>4. scan.eof = FALSE /\ scan.p = b[k + 1] - 1 /\ scan.got = g
    <3>1. scan = Scan(b[k + 1] - 1, TRUE, FALSE, g)
      BY <2>2, <2>3 DEF At
    <3>2. PICK q, o, e : q = b[k + 1] - 1 /\ o = TRUE /\ e = FALSE
      OBVIOUS
    <3>3. scan = Scan(q, o, e, g)
      BY <3>1, <3>2, Zenon
    <3>4. scan.eof = e /\ scan.p = q /\ scan.got = g
      BY <3>3 DEF Scan
    <3> QED BY <3>2, <3>4, Zenon
  <2>5. pc' = "id_setup" /\ id' = recs[k].id /\ seen' = Append(seen, g) /\ pos' = b[k + 1] - 1
    BY <1>1, <1>2, <2>2, <2>4, Zenon
  <2>6. /\ Len(seen') = k /\ seen' # <<>> /\ seen'[k] = g /\ k \in Nat
        /\ \A j \in 1..Len(seen) : seen'[j] = seen[j]
        /\ \A j \in 1..k : j = k \/ j \in 1..Len(seen)
    <3>1. g \in Texts2 /\ seen \in Seq(Texts2)
      BY <1>4, <2>4, Zenon
    <3>2. PICK u : u = Append(seen, g)
      OBVIOUS
    <3>3. Len(u) = Len(seen) + 1 /\ u[Len(seen) + 1] = g /\ \A j \in 1..Len(seen) : u[j] = seen[j]
      BY <3>1, <3>2
    <3>4. k \in Nat /\ k > 0 /\ \A j \in 1..k : j = k \/ j \in 1..Len(seen)
      BY <1>4, <2>1
    <3>5. u # <<>>
      BY <1>4, <3>3
    <3> QED BY <2>1, <2>5, <3>2, <3>3, <3>4, <3>5, Zenon
  <2>7. \A j \in 1..k : j <= intact => seen'[j] = ST!Fields(recs[j])
    BY <1>1, <2>3, <2>6, Zenon DEF StIds
  <2>8. k <= Len(recs)
    BY <1>4, <2>2
  <2>9. StIds'
    <3>1. ST!Fields(recs[1])' = ST!Fields(recs'[1]) /\ \A j : ST!Fields(recs[j])' = ST!Fields(recs[j])
      BY <1>1 DEF ST!Fields
    <3> QED BY <1>1, <2>5, <2>6, <2>7, <2>8, <3>1, Zenon DEF StIds
  <2>10. StNextId'
    BY <1>1, <2>5, <2>6 DEF StNextId, StMaking
  <2>11. StLines(b)'
    BY <1>1, <1>8, <2>5, <2>6, Zenon DEF StLines
  <2> QED BY <1>6, <1>7, <2>9, <2>10, <2>11, Zenon DEF StInv
<1>10. CASE plain /\ Len(seen) = intact
  <2>1. /\ ST!file_read(pos) = {Scan(Len(file) + 1, FALSE, TRUE, <<>>)}
        /\ \A k \in 1..Len(recs) : recs[k].id < id + 1
    BY <1>1, <1>8, <1>10, StSetupEnds, Zenon
  <2>2. scan.eof
    BY <2>1 DEF Scan
  <2>3. pc' = "menu" /\ id' = id + 1 /\ seen' = seen
    BY <1>2, <2>2 DEF ST!NextId
  <2>4. StIds'
    <3>1. \A j : ST!Fields(recs[j])' = ST!Fields(recs[j])
      BY <1>1 DEF ST!Fields
    <3>2. Len(seen) >= intact
      BY <1>4, <1>10
    <3>3. "menu" # "off"
      OBVIOUS
    <3> QED BY <1>1, <2>3, <3>1, <3>2, <3>3, Zenon DEF StIds
  <2>5. StNextId'
    BY <1>1, <2>1, <2>3 DEF StNextId, StMaking
  <2>6. StLines(b)'
    BY <1>1, <1>8, <2>3, StLinesKept
  <2> QED BY <1>6, <1>7, <2>4, <2>5, <2>6, Zenon DEF StInv
<1>11. CASE ~plain /\ Len(seen) >= intact
  <2>1. /\ Len(seen') >= intact /\ \A j \in 1..Len(seen') : j <= intact => seen'[j] = seen[j]
    <3>1. CASE seen' = seen
      BY <1>11, <3>1
    <3>2. CASE seen' = Append(seen, scan.got)
      BY <1>4, <1>11, <3>2
    <3> QED BY <1>5, <3>1, <3>2
  <2>2. \A j \in 1..Len(seen') : j <= intact => j \in 1..Len(seen)
    <3>1. Len(seen') \in Nat
      BY <1>5
    <3> QED BY <1>4, <1>11, <3>1
  <2>3. StIds'
    <3>1. \A j : ST!Fields(recs[j])' = ST!Fields(recs[j])
      BY <1>1 DEF ST!Fields
    <3>2. \A j \in 1..Len(seen') : j <= intact => seen'[j] = ST!Fields(recs[j])
      BY <1>1, <2>1, <2>2, Zenon DEF StIds
    <3>3. pc' # "off"
      BY <1>5
    <3> QED BY <1>1, <1>11, <2>1, <3>1, <3>2, <3>3, Zenon DEF StIds
  <2>4. StLines(b)'
    <3>1. ~(Len(seen') < intact)
      BY <1>4, <1>5, <2>1
    <3> QED BY <1>1, <1>8, <1>11, <3>1, Zenon DEF StLines
  <2> QED BY <1>1, <1>6, <1>7, <1>11, <2>3, <2>4, Zenon DEF StInv
<1>12. Len(seen) < intact \/ (plain /\ Len(seen) = intact) \/ (~plain /\ Len(seen) >= intact)
  <2>1. plain => Len(seen) <= Len(recs)
    BY <1>1 DEF StIds
  <2> QED BY <1>4, <2>1
<1> QED BY <1>9, <1>10, <1>11, <1>12, Zenon

\* What the program leaves alone while it talks to the user
StFileSame ==
  /\ run' = run /\ file' = file /\ pos' = pos /\ recs' = recs /\ seen' = seen /\ plain' = plain
  /\ intact' = intact /\ failed' = failed

LEMMA StChoose1 ==
  ASSUME StInv, ST!Choose1
  PROVE  StInv'
<1>1. /\ pc = "menu" /\ pc' = "name" /\ Len(recs) < MaxRecords
      /\ a' = [ST!NoRecord EXCEPT !.id = id] /\ id' = id + 1 /\ StFileSame
      /\ StTyped /\ StIds /\ (plain => StNextId)
  BY DEF ST!Choose1, ST!histories, StInv, StFileSame
<1>2. a' \in StRecords /\ a'.id = id
  <2>1. a' = [id |-> id, name |-> <<>>, email |-> <<>>, phone |-> <<>>, exp |-> 0]
    BY <1>1 DEF ST!NoRecord
  <2>2. id \in Nat /\ <<>> \in Seq(Int) /\ 0 \in Nat
    BY <1>1 DEF StTyped
  <2> QED BY <2>1, <2>2 DEF StRecords
<1>3. id \in Nat /\ id + 1 \in Nat /\ id < id + 1 /\ "name" \in StMaking
  BY <1>1 DEF StTyped, StMaking
<1>4. StTyped'
  BY <1>1, <1>3, Zenon DEF StTyped, StFileSame
<1>5. StTyping'
  BY <1>1, <1>2, <1>3 DEF StTyping, StMaking
<1>6. StIds'
  <2>1. \A j : ST!Fields(recs[j])' = ST!Fields(recs[j])
    BY <1>1 DEF ST!Fields, StFileSame
  <2>2. pc \notin {"off", "id_setup"} /\ pc' # "off"
    BY <1>1
  <2> QED BY <1>1, <2>1, <2>2, Zenon DEF StIds, StFileSame
<1>7. ASSUME plain' PROVE StNextId'
  <2>1. StNextId
    BY <1>1, <1>7 DEF StFileSame
  <2>2. \A k \in 1..Len(recs) : recs[k].id < id
    BY <1>1, <2>1 DEF StNextId
  <2>3. ASSUME NEW k \in 1..Len(recs) PROVE recs[k].id \in Nat
    <3>1. recs[k] \in StRecords
      BY <1>1 DEF StTyped
    <3> QED BY <3>1 DEF StRecords
  <2>4. ASSUME NEW k \in 1..Len(recs) PROVE recs[k].id < id + 1
    <3>1. PICK v : v = recs[k].id
      OBVIOUS
    <3>2. v \in Nat /\ v < id
      BY <2>2, <2>3, <3>1, Zenon
    <3>3. v < id + 1
      BY <1>3, <3>2
    <3> QED BY <3>1, <3>3, Zenon
  <2> QED BY <1>1, <1>2, <2>2, <2>4 DEF StNextId, StFileSame
<1>8. PICK b : StLines(b)
  BY Zenon DEF StInv
<1>9. StLines(b)'
  <2>1. pc' # "id_setup"
    BY <1>1
  <2> QED BY <1>1, <1>8, <2>1, StLinesKept DEF StFileSame
<1> QED BY <1>4, <1>5, <1>6, <1>7, <1>9, Zenon DEF StInv

\* What is typed changes only the record that is being made.
LEMMA StTypes ==
  ASSUME StInv, pc \in StMaking, pc' \in StMaking, a'.id = a.id, id' = id, StFileSame, StTyping'
  PROVE  StInv'
<1>1. StTyped /\ StIds /\ (plain => StNextId)
  BY DEF StInv
<1>2. pc \notin {"off", "id_setup"} /\ pc' \notin {"off", "id_setup"} /\ pc' # "off" /\ pc' # "id_setup"
  BY DEF StMaking
<1>3. StTyped'
  BY <1>1, Zenon DEF StTyped, StFileSame
<1>4. StIds'
  <2>1. \A j : ST!Fields(recs[j])' = ST!Fields(recs[j])
    BY DEF ST!Fields, StFileSame
  <2> QED BY <1>1, <1>2, <2>1, Zenon DEF StIds, StFileSame
<1>5. (plain => StNextId)'
  BY <1>1, <1>2, Zenon DEF StNextId, StFileSame
<1>6. PICK b : StLines(b)
  BY Zenon DEF StInv
<1>7. StLines(b)'
  BY <1>2, <1>6, StLinesKept DEF StFileSame
<1> QED BY <1>3, <1>4, <1>5, <1>7, Zenon DEF StInv

LEMMA StTexts ==
  /\ Names \subseteq Seq(Int) /\ Emails \subseteq Seq(Int) /\ Phones \subseteq Seq(Int)
  /\ \A t \in Emails : Len(t) = 1 => t = <<ST!WORD>>
  /\ \A t \in Phones : Len(t) = 1 => t = <<Phone1>>
<1>1. ST!WORD = -4 /\ Phone1 = 6
  BY DEF ST!WORD, Phone1
<1>2. /\ <<-4>> \in Seq(Int) /\ <<-4, -3, -4>> \in Seq(Int) /\ <<6>> \in Seq(Int)
      /\ <<6, -3, 30>> \in Seq(Int)
      /\ Len(<<-4, -3, -4>>) = 3 /\ Len(<<6, -3, 30>>) = 3
  OBVIOUS
<1>3. 3 # 1
  OBVIOUS
<1> QED BY <1>1, <1>2, <1>3, Zenon DEF Names, Emails, Phones

LEMMA StReadIn ==
  ASSUME StInv, NEW field, NEW texts, NEW to,
         \/ field = "name" /\ texts = Names /\ to = "email"
         \/ field = "email" /\ texts = Emails /\ to = "phone"
         \/ field = "phone" /\ texts = Phones /\ to = "exp",
         ST!ReadIn(field, texts, to)
  PROVE  StInv'
<1>1. PICK t \in texts : a' = [a EXCEPT ![field] = t]
  BY DEF ST!ReadIn
<1>2. pc = field /\ pc' = to /\ id' = id /\ StFileSame
  BY DEF ST!ReadIn, ST!histories, StFileSame
<1>3. a \in StRecords /\ StTyping
  BY DEF StInv, StTyping
<1>4. t \in Seq(Int)
  BY StTexts
<1>5. a' \in StRecords /\ a'.id = a.id
  BY <1>1, <1>3, <1>4 DEF StRecords
<1>6. pc \in StMaking /\ pc' \in StMaking
  BY <1>2 DEF StMaking
<1>7. a.id < id
  BY <1>3, <1>6 DEF StTyping
<1>8. CASE field = "name" /\ texts = Names /\ to = "email"
  <2>1. a'.name = t
    BY <1>1, <1>3, <1>8 DEF StRecords
  <2>2. StTyping'
    BY <1>2, <1>5, <1>7, <1>8, <2>1 DEF StTyping, StMaking
  <2> QED BY <1>2, <1>5, <1>6, <2>2, StTypes
<1>9. CASE field = "email" /\ texts = Emails /\ to = "phone"
  <2>1. a'.email = t /\ a'.name = a.name
    BY <1>1, <1>3, <1>9 DEF StRecords
  <2>2. StTyping'
    BY <1>2, <1>3, <1>5, <1>7, <1>9, <2>1 DEF StTyping, StMaking
  <2> QED BY <1>2, <1>5, <1>6, <2>2, StTypes
<1>10. CASE field = "phone" /\ texts = Phones /\ to = "exp"
  <2>1. a'.phone = t /\ a'.name = a.name /\ a'.email = a.email
    BY <1>1, <1>3, <1>10 DEF StRecords
  <2>2. StTyping'
    BY <1>2, <1>3, <1>5, <1>7, <1>10, <2>1 DEF StTyping, StMaking
  <2> QED BY <1>2, <1>5, <1>6, <2>2, StTypes
<1> QED BY <1>8, <1>9, <1>10

LEMMA StReadExp ==
  ASSUME Exps \subseteq Nat, StInv, ST!ReadExp
  PROVE  StInv'
<1>1. PICK e \in Exps \ {0} : a' = [a EXCEPT !.exp = e]
  BY DEF ST!ReadExp
<1>2. pc = "exp" /\ pc' = "append" /\ id' = id /\ StFileSame
  BY DEF ST!ReadExp, ST!histories, StFileSame
<1>3. a \in StRecords /\ StTyping /\ e \in Nat
  BY DEF StInv, StTyping
<1>5. /\ a' \in StRecords /\ a'.id = a.id /\ a'.name = a.name /\ a'.email = a.email
      /\ a'.phone = a.phone
  BY <1>1, <1>3 DEF StRecords
<1>6. pc \in StMaking /\ pc' \in StMaking
  BY <1>2 DEF StMaking
<1>7. a.id < id
  BY <1>3, <1>6 DEF StTyping
<1>8. StTyping'
  BY <1>2, <1>3, <1>5, <1>7 DEF StTyping, StMaking
<1> QED BY <1>2, <1>5, <1>6, <1>8, StTypes

LEMMA StNoRecord == ST!NoRecord \in StRecords
BY DEF ST!NoRecord, StRecords

LEMMA StEnds ==
  ASSUME StInv, ST!Ends
  PROVE  StInv'
<1>1. /\ pc # "off" /\ pc' = "off" /\ a' = ST!NoRecord /\ id' = 1 /\ pos' = 1 /\ seen' = <<>>
      /\ run' = run /\ file' = file /\ recs' = recs /\ plain' = plain
      /\ intact' = intact /\ failed' = failed /\ StTyped /\ StIds
  BY DEF ST!Ends, StInv
<1>2. StTyped'
  <2>1. 1 \in 1..Len(file) + 1 /\ <<>> \in Seq(Texts2) /\ 1 \in Nat
    BY <1>1 DEF StTyped
  <2>2. "off" \notin StMaking
    BY DEF StMaking
  <2> QED BY <1>1, <2>1, <2>2, Zenon DEF StTyped
<1>3. StTyping'
  BY <1>1, StNoRecord DEF StTyping, StMaking
<1>4. StIds'
  <2>1. Len(seen') = 0 /\ 1..Len(seen') = {}
    BY <1>1
  <2>2. Len(seen') <= Len(recs)
    BY <1>1, <2>1 DEF StTyped
  <2> QED BY <1>1, <2>1, <2>2 DEF StIds
<1>5. StNextId'
  BY <1>1 DEF StNextId, StMaking
<1>6. PICK b : StLines(b)
  BY Zenon DEF StInv
<1>7. StLines(b)'
  <2>1. pc' # "id_setup"
    BY <1>1
  <2> QED BY <1>1, <1>6, <2>1, StLinesKept
<1> QED BY <1>2, <1>3, <1>4, <1>5, <1>7, Zenon DEF StInv

-----------------------------------------------------------------------------

\* Whatever is written after the lines of the records that are intact, and torn, they
\* stay.
LEMMA StLinesStay ==
  ASSUME StTyped, NEW b, StLines(b), NEW l, StContinued(file', l), ~plain', intact' = intact,
         \A k \in 1..intact : recs'[k] = recs[k], pc' # "id_setup"
  PROVE  StLines(b)'
<1> DEFINE n == b[intact + 1] - 1
<1>1. /\ file \in Seq(Int) /\ Len(file) \in Nat /\ intact \in Nat
      /\ b \in [1..intact + 1 -> Nat] /\ b[1] = 1 /\ b[intact + 1] <= Len(file) + 1
      /\ b[intact + 1] \in Nat
  <2>1. file \in Seq(Int) /\ Len(file) \in Nat /\ intact \in Nat
    BY DEF StTyped
  <2>2. b \in [1..intact + 1 -> Nat] /\ b[1] = 1 /\ b[intact + 1] <= Len(file) + 1
    BY Zenon DEF StLines
  <2>3. intact + 1 \in 1..intact + 1
    BY <2>1
  <2> QED BY <2>1, <2>2, <2>3
<1>2. intact # 0 => file[n] = ST!NEWLINE /\ n \in Nat
  <2>1. SUFFICES ASSUME intact # 0 PROVE file[n] = ST!NEWLINE /\ n \in Nat
    BY Zenon
  <2>2. intact \in 1..intact
    BY <1>1, <2>1
  <2>3. b[intact + 1] > b[intact] /\ b[intact] \in Nat /\ file[b[intact + 1] - 1] = ST!NEWLINE
    BY <2>2, StIndices, Zenon
  <2> QED BY <1>1, <2>3
<1>3. n \in Nat /\ n <= Len(file)
  <2>1. CASE intact = 0
    <3>1. b[intact + 1] = 1
      BY <1>1, <2>1
    <3> QED BY <1>1, <3>1
  <2>2. CASE intact # 0
    BY <1>1, <1>2, <2>2
  <2> QED BY <2>1, <2>2, Zenon
<1>4. ASSUME NEW x \in 1..n PROVE file'[x] = file[x]
  <2>1. x \in 1..Len(file)
    BY <1>1, <1>3
  <2>2. x = Len(file) => ST!IsBlank(file[x])
    <3>1. SUFFICES ASSUME x = Len(file) PROVE ST!IsBlank(file[x])
      BY Zenon
    <3>2. x = n
      BY <1>1, <1>3, <3>1
    <3>3. intact # 0
      <4>1. intact = 0 => n = 0
        BY <1>1
      <4> QED BY <3>2, <4>1
    <3> QED BY <1>2, <3>2, <3>3, StBlanks, Zenon
  <2> QED BY <2>1, <2>2, Zenon DEF StContinued
<1>5. Len(file') \in Nat /\ Len(file) <= Len(file')
  BY DEF StContinued
<1>6. b[intact + 1] <= Len(file') + 1
  BY <1>1, <1>5
<1>7. ASSUME NEW k \in 1..intact
      PROVE  \E t : StLineAt(file', recs'[k], b[k], t, b[k + 1]) /\ b[k + 1] <= b[intact + 1]
  <2>1. PICK t : StLineAt(file, recs[k], b[k], t, b[k + 1]) /\ b[k + 1] <= b[intact + 1]
    BY Zenon DEF StLines
  <2>2. b[k + 1] <= n + 1
    <3>1. n + 1 = b[intact + 1]
      BY <1>1
    <3> QED BY <2>1, <3>1, Zenon
  <2>3. PICK f, g, m, r, q, e : f = file /\ g = file' /\ m = n /\ r = recs[k] /\ q = b[k] /\ e = b[k + 1]
    OBVIOUS
  <2>4. m \in Nat /\ (\A x \in 1..m : g[x] = f[x]) /\ StLineAt(f, r, q, t, e) /\ e <= m + 1
    BY <1>3, <1>4, <2>1, <2>2, <2>3, Zenon
  <2>5. StLineAt(g, r, q, t, e)
    BY <2>4, StLineKept, Zenon
  <2>6. recs'[k] = r
    BY <2>3, Zenon
  <2> QED BY <2>1, <2>3, <2>5, <2>6, Zenon
<1> HIDE DEF n
<1> QED BY <1>1, <1>6, <1>7, Zenon DEF StLines

\* What is written when the disk is full is torn, or nothing.
LEMMA StAppendFails ==
  ASSUME StInv, ST!AppendFails
  PROVE  StInv'
<1>1. /\ pc = "append" /\ pc' = "menu" /\ a' = ST!NoRecord /\ failed < MaxFailed /\ failed' = failed + 1
      /\ run' = run /\ pos' = pos /\ id' = id /\ recs' = recs /\ seen' = seen
      /\ intact' = intact /\ StTyped /\ StTyping /\ StIds /\ (plain => StNextId)
  BY DEF ST!AppendFails, StInv
<1>2. PICK part \in ST!Torn(ST!Line(a)) :
        file' = ST!Written(part) /\ plain' = (plain /\ part = <<>>)
  BY DEF ST!AppendFails
<1>3. part \in Seq(Int)
  <2>1. PICK l : l = ST!Line(a)
    OBVIOUS
  <2>2. l \in Seq(Int)
    <3>1. a \in StRecords
      BY <1>1 DEF StTyping
    <3> QED BY <2>1, <3>1, StLineText, Zenon
  <2>3. part \in ST!Torn(l)
    BY <2>1
  <2> QED BY <2>2, <2>3, StTorn, Zenon
<1>4. /\ StContinued(file', part) /\ file' \in Seq(Int) /\ Len(file) <= Len(file')
      /\ (plain' => file' = file /\ plain)
  <2>1. file \in Seq(Int)
    BY <1>1 DEF StTyped
  <2>2. StContinued(file', part)
    <3>1. PICK f : f = file'
      OBVIOUS
    <3>2. f = ST!Written(part)
      BY <1>2, <3>1, Zenon
    <3>3. StContinued(f, part)
      BY <1>3, <2>1, <3>2, StWrittenAtEnd, Zenon
    <3> QED BY <3>1, <3>3, Zenon
  <2> QED BY <1>2, <2>2, Zenon DEF StContinued
<1>5. StTyped'
  <2>1. /\ pos \in 1..Len(file) + 1 /\ Len(file) \in Nat /\ Len(file') \in Nat
        /\ plain' \in BOOLEAN /\ failed \in 0..MaxFailed
    BY <1>1, <1>2, <1>4 DEF StTyped
  <2>2. pos' \in 1..Len(file') + 1
    BY <1>1, <1>4, <2>1
  <2>3. failed' \in 0..MaxFailed
    <3>1. failed \in Nat /\ failed < MaxFailed
      BY <1>1, <2>1
    <3> QED BY <1>1, <3>1, BoundsAssumption
  <2>4. pc' \notin StMaking /\ pc' \in {"off", "id_setup", "menu"} \cup StMaking
    BY <1>1 DEF StMaking
  <2>5. plain' /\ file' # <<>> => file'[Len(file')] = ST!NEWLINE
    BY <1>1, <1>4, Zenon DEF StTyped
  <2> QED BY <1>1, <1>4, <2>1, <2>2, <2>3, <2>4, <2>5, Zenon DEF StTyped
<1>6. StTyping'
  BY <1>1, StNoRecord DEF StTyping, StMaking
<1>7. StIds'
  <2>1. \A j : ST!Fields(recs[j])' = ST!Fields(recs[j])
    BY <1>1 DEF ST!Fields
  <2>2. pc \notin {"off", "id_setup"} /\ pc' # "off"
    BY <1>1
  <2> QED BY <1>1, <1>4, <2>1, <2>2, Zenon DEF StIds
<1>8. (plain => StNextId)'
  <2>1. pc \notin {"off", "id_setup"} /\ pc' # "id_setup" /\ pc' \notin StMaking
    BY <1>1 DEF StMaking
  <2> QED BY <1>1, <1>4, <2>1, Zenon DEF StNextId
<1>9. PICK b : StLines(b)
  BY Zenon DEF StInv
<1>10. StLines(b)'
  <2>1. pc' # "id_setup"
    BY <1>1
  <2>2. CASE plain'
    BY <1>1, <1>4, <1>9, <2>1, <2>2, StLinesKept
  <2>3. CASE ~plain'
    <3>1. \A k \in 1..intact : recs'[k] = recs[k]
      BY <1>1
    <3> QED BY <1>1, <1>4, <1>9, <2>1, <2>3, <3>1, StLinesStay, Zenon
  <2> QED BY <2>2, <2>3, Zenon
<1> QED BY <1>5, <1>6, <1>7, <1>8, <1>10, Zenon DEF StInv

LEMMA StAppend1 ==
  ASSUME MaxRecords \in Nat, StInv, ST!Append1
  PROVE  StInv'
<1>1. /\ pc = "append" /\ pc' = "menu" /\ a' = ST!NoRecord
      /\ file' = ST!Written(ST!Line(a)) /\ recs' = Append(recs, a)
      /\ seen' = Append(seen, ST!Fields(a))
      /\ intact' = (IF plain' THEN Len(recs') ELSE intact)
      /\ run' = run /\ pos' = pos /\ id' = id /\ failed' = failed
      /\ StTyped /\ StTyping /\ StIds /\ (plain => StNextId)
  BY DEF ST!Append1, StInv
<1>2. plain' = (plain /\ Len(a.email) = 1 /\ Len(a.phone) = 1)
  BY DEF ST!Append1
<1>3. a \in StRecords /\ a.id < id /\ a.name \in Names /\ a.email \in Emails /\ a.phone \in Phones
  BY <1>1 DEF StTyping, StMaking
<1>4. a.id \in Nat
  BY <1>3 DEF StRecords
<1>5. /\ file \in Seq(Int) /\ recs \in Seq(StRecords) /\ seen \in Seq(Texts2)
      /\ Len(recs) < MaxRecords /\ pos \in 1..Len(file) + 1 /\ id \in Nat
      /\ Len(recs) \in Nat /\ Len(seen) \in Nat /\ intact \in 0..Len(recs)
      /\ (plain => intact = Len(recs))
  BY <1>1 DEF StTyped, StMaking
<1>6. PICK l : l = ST!Line(a)
  OBVIOUS
<1>7. l \in Seq(Int) /\ Len(l) > 0 /\ l[Len(l)] = ST!NEWLINE
  BY <1>3, <1>6, StLineText, Zenon
<1>8. /\ StContinued(file', l) /\ file' \in Seq(Int) /\ Len(file) <= Len(file')
      /\ (plain => file' = file \o l)
  <2>1. StContinued(file', l)
    <3>1. PICK f : f = file'
      OBVIOUS
    <3>2. f = ST!Written(l)
      BY <1>1, <1>6, <3>1, Zenon
    <3>3. StContinued(f, l)
      BY <1>5, <1>7, <3>2, StWrittenAtEnd, Zenon
    <3> QED BY <3>1, <3>3, Zenon
  <2>2. plain => file = <<>> \/ ST!IsBlank(file[Len(file)])
    BY <1>1, StBlanks, Zenon DEF StTyped
  <2> QED BY <2>1, <2>2, Zenon DEF StContinued
<1>9. plain => /\ Len(file') = Len(file) + Len(l) /\ Len(file) \in Nat /\ Len(l) \in Nat
               /\ \A k \in 1..Len(file) : file'[k] = file[k]
               /\ \A k \in 1..Len(l) : file'[Len(file) + k] = l[k]
  <2>1. SUFFICES ASSUME plain
                 PROVE  /\ Len(file') = Len(file) + Len(l) /\ Len(file) \in Nat /\ Len(l) \in Nat
                        /\ \A k \in 1..Len(file) : file'[k] = file[k]
                        /\ \A k \in 1..Len(l) : file'[Len(file) + k] = l[k]
    BY Zenon
  <2>2. IsJoined(file', file, l, Len(file))
    <3>1. PICK f : f = file'
      OBVIOUS
    <3>2. f = file \o l
      BY <1>8, <2>1, <3>1, Zenon
    <3>3. IsJoined(f, file, l, Len(file))
      BY <1>5, <1>7, <3>2, Joined, Zenon
    <3> QED BY <3>1, <3>3, Zenon
  <2>3. Len(l) \in Nat
    BY <1>7
  <2> QED BY <2>2, <2>3, Zenon DEF IsJoined
<1>10. plain => file'[Len(file')] = ST!NEWLINE
  <2>1. SUFFICES ASSUME plain PROVE file'[Len(file')] = ST!NEWLINE
    BY Zenon
  <2>2. Len(l) \in 1..Len(l)
    BY <1>7
  <2> QED BY <1>7, <1>9, <2>1, <2>2, Zenon
<1>11. /\ recs' \in Seq(StRecords) /\ Len(recs') = Len(recs) + 1
       /\ recs'[Len(recs) + 1] = a /\ \A k \in 1..Len(recs) : recs'[k] = recs[k]
  BY <1>1, <1>3, <1>5
<1>12. /\ seen' \in Seq(Texts2) /\ Len(seen') = Len(seen) + 1
       /\ seen'[Len(seen) + 1] = ST!Fields(a) /\ \A k \in 1..Len(seen) : seen'[k] = seen[k]
  <2>1. PICK g : g = ST!Fields(a)
    OBVIOUS
  <2>2. g \in Texts2
    <3>1. <<a.id>> \in Seq(Int) /\ a.name \in Seq(Int) /\ a.email \in Seq(Int) /\ a.phone \in Seq(Int)
      BY <1>3 DEF StRecords
    <3>2. <<a.exp>> \in Seq(Int)
      BY <1>3 DEF StRecords
    <3>3. <<<<a.id>>, a.name, a.email, a.phone, <<a.exp>>>> \in Seq(Seq(Int))
      BY <3>1, <3>2, StFive, Zenon
    <3> QED BY <2>1, <3>3, Zenon DEF Texts2, ST!Fields
  <2>3. seen' = Append(seen, g)
    BY <1>1, <2>1
  <2> QED BY <1>5, <2>1, <2>2, <2>3
<1>13. plain' \in BOOLEAN
  BY <1>2, Zenon
<1>14. intact' \in 0..Len(recs') /\ (plain' => intact' = Len(recs'))
  BY <1>1, <1>5, <1>11
<1>15. StTyped'
  <2>1. pos' \in 1..Len(file') + 1
    <3>1. Len(file') \in Nat /\ Len(file) \in Nat
      BY <1>5, <1>8
    <3> QED BY <1>1, <1>5, <1>8, <3>1
  <2>2. Len(recs') <= MaxRecords
    BY <1>5, <1>11
  <2>3. /\ run' \in 0..MaxRuns /\ failed' \in 0..MaxFailed
        /\ pc' \notin StMaking /\ pc' \in {"off", "id_setup", "menu"} \cup StMaking
    BY <1>1 DEF StTyped, StMaking
  <2>4. plain' /\ file' # <<>> => file'[Len(file')] = ST!NEWLINE
    BY <1>2, <1>10
  <2> QED BY <1>1, <1>5, <1>8, <1>11, <1>12, <1>13, <1>14, <2>1, <2>2, <2>3, <2>4, Zenon DEF StTyped
<1>16. StTyping'
  BY <1>1, StNoRecord DEF StTyping, StMaking
<1>17. Len(seen) >= intact /\ (plain => Len(seen) <= Len(recs))
  BY <1>1 DEF StIds
<1>18. PICK b : StLines(b)
  BY Zenon DEF StInv
<1>19. pc' # "id_setup" /\ pc' # "off" /\ pc' \notin StMaking
  BY <1>1 DEF StMaking
<1>20. \A j : ST!Fields(recs[j])' = ST!Fields(recs'[j])
  BY DEF ST!Fields
<1>21. CASE ~plain'
  <2>1. intact' = intact
    BY <1>1, <1>21, Zenon
  <2>2. \A k \in 1..intact : recs'[k] = recs[k] /\ k \in 1..Len(recs) /\ k \in 1..Len(seen)
    BY <1>5, <1>11, <1>17
  <2>3. StLines(b)'
    BY <1>1, <1>8, <1>18, <1>19, <1>21, <2>1, <2>2, StLinesStay, Zenon
  <2>4. StIds'
    <3>1. \A j, k \in 1..intact : j < k => recs'[j].id < recs'[k].id
      BY <1>1, <2>2, Zenon DEF StIds
    <3>2. ASSUME NEW k \in 1..Len(seen'), k <= intact PROVE seen'[k] = ST!Fields(recs'[k])
      <4>1. k \in 1..intact
        BY <1>5, <1>12, <3>2
      <4>2. seen'[k] = seen[k] /\ recs'[k] = recs[k] /\ k \in 1..Len(seen)
        BY <1>12, <2>2, <4>1, Zenon
      <4>3. seen[k] = ST!Fields(recs[k])
        BY <1>1, <3>2, <4>2, Zenon DEF StIds
      <4> QED BY <4>2, <4>3, Zenon
    <3>3. Len(seen') >= intact
      BY <1>5, <1>12, <1>17
    <3> QED BY <1>19, <1>20, <1>21, <2>1, <3>1, <3>2, <3>3, Zenon DEF StIds
  <2> QED BY <1>15, <1>16, <1>21, <2>3, <2>4, Zenon DEF StInv
<1>22. CASE plain'
  <2>1. plain /\ Len(a.email) = 1 /\ Len(a.phone) = 1
    BY <1>2, <1>22
  <2>2. a.email = <<ST!WORD>> /\ a.phone = <<Phone1>>
    BY <1>3, <2>1, StTexts
  <2>3. PICK t : StLineAt(file', a, Len(file) + 1, t, Len(file') + 1)
    <3>1. PICK f : f = file'
      OBVIOUS
    <3>2. f = file \o ST!Line(a)
      BY <1>6, <1>8, <2>1, <3>1, Zenon
    <3>3. \E t : StLineAt(f, a, Len(file) + 1, t, Len(f) + 1)
      BY <1>3, <1>5, <2>2, <3>2, StWritten, Zenon
    <3> QED BY <3>1, <3>3, Zenon
  <2>4. PICK n : n = Len(recs)
    OBVIOUS
  <2>5. PICK d : d = [k \in 1..n + 2 |-> IF k = n + 2 THEN Len(file') + 1 ELSE b[k]]
    OBVIOUS
  <2>6. /\ n \in Nat /\ Len(recs') = n + 1 /\ intact = n /\ intact' = n + 1 /\ Len(seen) = n
        /\ intact' + 1 = n + 2
    BY <1>5, <1>11, <1>14, <1>17, <1>22, <2>1, <2>4
  <2>7. b \in [1..n + 1 -> Nat] /\ b[1] = 1 /\ b[n + 1] = Len(file) + 1
    BY <1>18, <2>1, <2>6, Zenon DEF StLines
  <2>8. /\ d \in [1..n + 2 -> Nat] /\ d[n + 2] = Len(file') + 1 /\ \A k \in 1..n + 1 : d[k] = b[k]
    <3>1. Len(file') + 1 \in Nat
      BY <1>8
    <3>2. \A k \in 1..n + 2 : k # n + 2 => k \in 1..n + 1
      BY <2>6
    <3>3. \A k \in 1..n + 1 : k \in 1..n + 2 /\ k # n + 2
      BY <2>6
    <3>4. n + 2 \in 1..n + 2
      BY <2>6
    <3> QED BY <2>5, <2>7, <3>1, <3>2, <3>3, <3>4
  <2>9. d[1] = 1 /\ d[n + 1] = Len(file) + 1
    <3>1. 1 \in 1..n + 1 /\ n + 1 \in 1..n + 1
      BY <2>6
    <3> QED BY <2>7, <2>8, <3>1, Zenon
  <2>10. Len(file) \in Nat /\ Len(file') \in Nat
    BY <1>5, <1>8
  <2>11. ASSUME NEW k \in 1..(n + 1)
         PROVE  \E u : StLineAt(file', recs'[k], d[k], u, d[k + 1]) /\ d[k + 1] <= Len(file') + 1
    <3>1. CASE k = n + 1
      <4>1. k + 1 = n + 2
        BY <2>6, <3>1
      <4>2. recs'[k] = a /\ d[k] = Len(file) + 1 /\ d[k + 1] = Len(file') + 1
        BY <1>11, <2>4, <2>8, <2>9, <3>1, <4>1, Zenon
      <4>3. d[k + 1] <= Len(file') + 1
        BY <2>10, <4>2
      <4> QED BY <2>3, <4>2, <4>3, Zenon
    <3>2. CASE k # n + 1
      <4>1. k \in 1..n /\ k + 1 \in 1..n + 1 /\ k \in 1..n + 1
        BY <2>6, <3>2
      <4>0. k \in 1..intact
        BY <2>6, <4>1
      <4>2. PICK u : StLineAt(file, recs[k], b[k], u, b[k + 1]) /\ b[k + 1] <= b[intact + 1]
        BY <1>18, <4>0, Zenon DEF StLines
      <4>3. StLineAt(file', recs[k], b[k], u, b[k + 1])
        <5>1. PICK f, g, m, r, q, e : f = file /\ g = file' /\ m = Len(file) /\ r = recs[k] /\ q = b[k] /\ e = b[k + 1]
          OBVIOUS
        <5>2. m \in Nat /\ (\A x \in 1..m : g[x] = f[x]) /\ StLineAt(f, r, q, u, e) /\ e <= m + 1
          BY <1>9, <2>1, <2>6, <2>7, <4>2, <5>1, Zenon
        <5>3. StLineAt(g, r, q, u, e)
          BY <5>2, StLineKept, Zenon
        <5> QED BY <5>1, <5>3, Zenon
      <4>4. recs'[k] = recs[k] /\ d[k] = b[k] /\ d[k + 1] = b[k + 1]
        BY <1>11, <2>4, <2>8, <4>1, Zenon
      <4>5. b[k + 1] <= Len(file') + 1
        <5>1. b[k + 1] \in Nat
          BY <2>7, <4>1
        <5> QED BY <1>8, <2>6, <2>7, <2>10, <4>2, <5>1
      <4> QED BY <4>3, <4>4, <4>5, Zenon
    <3> QED BY <3>1, <3>2, Zenon
  <2>12. StLines(d)'
    <3>1. 1..intact' + 1 = 1..n + 2 /\ 1..intact' = 1..(n + 1)
      BY <2>6
    <3>2. d[intact' + 1] = Len(file') + 1
      BY <2>6, <2>8, Zenon
    <3>3. Len(file') + 1 <= Len(file') + 1
      BY <2>10
    <3> QED BY <1>19, <2>8, <2>9, <2>11, <3>1, <3>2, <3>3, Zenon DEF StLines
  <2>13. /\ \A j, k \in 1..n : j < k => recs[j].id < recs[k].id
         /\ \A k \in 1..n : recs[k].id < a.id
         /\ \A k \in 1..n : seen[k] = ST!Fields(recs[k])
    <3>1. pc \in StMaking
      BY <1>1 DEF StMaking
    <3>2. \A k \in 1..n : k <= n
      OBVIOUS
    <3> QED BY <1>1, <2>1, <2>4, <2>6, <3>1, <3>2, Zenon DEF StIds, StNextId
  <2>14. \A k \in 1..(n + 1) : k = n + 1 \/ k \in 1..n
    BY <2>6
  <2>15. recs'[n + 1] = a /\ \A k \in 1..n : recs'[k] = recs[k]
    BY <1>11, <2>4, Zenon
  <2>16. ASSUME NEW k \in 1..(n + 1) PROVE recs'[k].id < id'
    <3>1. CASE k = n + 1
      BY <1>1, <1>3, <2>15, <3>1, Zenon
    <3>2. CASE k \in 1..n
      <4>1. PICK v : v = recs[k].id
        OBVIOUS
      <4>2. v \in Nat
        <5>1. recs[k] \in StRecords
          BY <1>5, <2>4, <3>2
        <5> QED BY <4>1, <5>1 DEF StRecords
      <4>3. v < a.id
        BY <2>13, <3>2, <4>1, Zenon
      <4>4. v < id
        BY <1>3, <1>4, <1>5, <4>2, <4>3
      <4> QED BY <1>1, <2>15, <3>2, <4>1, <4>4, Zenon
    <3> QED BY <2>14, <3>1, <3>2, Zenon
  <2>17. ASSUME NEW j \in 1..(n + 1), NEW k \in 1..(n + 1), j < k PROVE recs'[j].id < recs'[k].id
    <3>1. j \in 1..n
      BY <2>6, <2>17
    <3>2. CASE k = n + 1
      BY <2>13, <2>15, <3>1, <3>2, Zenon
    <3>3. CASE k \in 1..n
      BY <2>13, <2>15, <2>17, <3>1, <3>3, Zenon
    <3> QED BY <2>14, <3>2, <3>3, Zenon
  <2>18. ASSUME NEW k \in 1..(n + 1) PROVE seen'[k] = ST!Fields(recs'[k])
    <3>1. CASE k = n + 1
      BY <1>12, <2>6, <2>15, <3>1, Zenon
    <3>2. CASE k \in 1..n
      BY <1>12, <2>6, <2>13, <2>15, <3>2, Zenon
    <3> QED BY <2>14, <3>1, <3>2, Zenon
  <2>19. Len(seen') = n + 1 /\ Len(seen') >= intact' /\ Len(seen') <= Len(recs')
    BY <1>12, <2>6
  <2>20. StIds'
    BY <1>19, <1>20, <2>6, <2>17, <2>18, <2>19, Zenon DEF StIds
  <2>21. StNextId'
    BY <1>19, <2>6, <2>16, Zenon DEF StNextId
  <2> QED BY <1>15, <1>16, <2>12, <2>20, <2>21, Zenon DEF StInv
<1> QED BY <1>21, <1>22, Zenon

LEMMA StNext1 ==
  ASSUME MaxRecords \in Nat, MaxRuns \in Nat, Exps \subseteq Nat, StInv, ST!Next
  PROVE  StInv'
<1>1. CASE ST!Start
  BY <1>1, StStart
<1>2. CASE ST!id_setup
  BY <1>2, StSetup
<1>3. CASE ST!Choose1
  BY <1>3, StChoose1
<1>4. CASE ST!ReadIn("name", Names, "email")
  BY <1>4, StReadIn, Zenon
<1>5. CASE ST!ReadIn("email", Emails, "phone")
  BY <1>5, StReadIn, Zenon
<1>6. CASE ST!ReadIn("phone", Phones, "exp")
  BY <1>6, StReadIn, Zenon
<1>7. CASE ST!ReadExp
  BY <1>7, StReadExp
<1>8. CASE ST!Append1
  BY <1>8, StAppend1
<1>9. CASE ST!AppendFails
  BY <1>9, StAppendFails
<1>10. CASE ST!Ends
  BY <1>10, StEnds
<1> QED BY <1>1, <1>2, <1>3, <1>4, <1>5, <1>6, <1>7, <1>8, <1>9, <1>10, Zenon DEF ST!Next, ST!driver_creation

LEMMA StStutters ==
  ASSUME StInv, UNCHANGED <<pc, file, pos, strukturaVars>>
  PROVE  StInv'
<1>1. /\ pc' = pc /\ file' = file /\ pos' = pos /\ run' = run /\ id' = id /\ a' = a /\ seen' = seen
      /\ recs' = recs /\ plain' = plain /\ intact' = intact /\ failed' = failed
  BY DEF strukturaVars
<1>2. StTyped'
  BY <1>1, Zenon DEF StInv, StTyped
<1>3. StTyping'
  BY <1>1, Zenon DEF StInv, StTyping
<1>4. StIds'
  <2>1. \A j : ST!Fields(recs[j])' = ST!Fields(recs[j])
    BY <1>1 DEF ST!Fields
  <2> QED BY <1>1, <2>1, Zenon DEF StInv, StIds
<1>5. (plain => StNextId)'
  BY <1>1, Zenon DEF StInv, StNextId
<1>6. PICK b : StLines(b)
  BY Zenon DEF StInv
<1>7. StLines(b)'
  BY <1>1, <1>6, Zenon DEF StLines
<1> QED BY <1>2, <1>3, <1>4, <1>5, <1>7, Zenon DEF StInv

LEMMA StTypeOK == ASSUME StInv PROVE ST!TypeOK
<1>1. StTyped
  BY DEF StInv
<1>2. plain /\ file # <<>> => ST!Last(file) = ST!NEWLINE
  BY <1>1, Zenon DEF StTyped, ST!Last
<1>3. id >= 0
  BY <1>1 DEF StTyped
<1>4. pc \in {"off", "id_setup", "menu", "name", "email", "phone", "exp", "append"}
  BY <1>1 DEF StTyped, StMaking
<1> QED BY <1>1, <1>2, <1>3, <1>4, Zenon DEF StTyped, ST!TypeOK

LEMMA StIdsIncrease == ASSUME StInv PROVE ST!IdsIncrease
<1>1. DOMAIN recs = 1..Len(recs)
  BY DEF StInv, StTyped
<1>2. StIds /\ (plain => StNextId)
  BY DEF StInv
<1>3. "append" \in StMaking
  BY DEF StMaking
<1> QED BY <1>1, <1>2, <1>3, Zenon DEF ST!IdsIncrease, StIds, StNextId

LEMMA StReadsBack == ASSUME StInv PROVE ST!ReadsBack
<1>1. DOMAIN seen = 1..Len(seen)
  BY DEF StInv, StTyped
<1>2. StIds
  BY DEF StInv
<1> QED BY <1>1, <1>2, Zenon DEF ST!ReadsBack, StIds

-----------------------------------------------------------------------------
(***************************************************************************)
(* The programs of Masolas                                                 *)
(***************************************************************************)

Texts1 == Seq(M!Characters)

\* o is what the first n characters of the file are.
Copy(o, n) == Len(o) = n /\ \A k \in 1..n : o[k] = file[k]

MaTyped ==
  /\ file \in Texts1 /\ c \in Texts1 /\ out \in Texts1 /\ pos \in 1..Len(file) + 1
  /\ feof \in BOOLEAN /\ Len(c) < Buffer
  /\ kind \in {"file", "same", "directory"} /\ (kind # "file" => Is("file"))
  /\ ~Is("open_fopen") => Len(out) <= Disk
  /\ pc = "open" => pos = 1 /\ out = <<>> /\ feof = FALSE

\* Each program is at a label of its own.
MaPlaces ==
  /\ pc \in M!Labels
  /\ pc \in {"read", "write"} => Is("file")
  /\ pc \in {"fgetc", "fputc"} => Is("fopen_readwrite")
  /\ pc \in {"fgets", "write_line", "while"} => Is("feladat")
  /\ pc \in {"text", "text_end", "open_bin", "open_bin_end", "fopen_bin", "fopen_bin_end"} => Is("open_fopen")
  /\ pc = "failed" => program \in {"file", "feladat"}

\* file.c: what is written is what has been read, but for the character read last.
MaFile ==
  /\ kind = "directory" => pc # "done"
  /\ kind # "directory" =>
       /\ pc \in {"open", "read", "done"} => Copy(out, pos - 1)
       /\ pc \in {"write", "failed"} => Len(c) = 1 /\ Copy(out \o c, pos - 1)
       /\ pc = "done" => pos = Len(file) + 1
       /\ pc = "failed" => Len(out) = Disk

\* fopen_readwrite.c: the same, up to a full disk or a byte 0xFF.
MaStdio ==
  /\ Len(out) <= pos - 1 /\ Copy(out, Len(out)) /\ \A k \in 1..Len(out) : out[k] # "0xFF"
  /\ pc # "fputc" => Len(out) = pos - 1 \/ Len(out) = Disk
  /\ pc = "fputc" => /\ Len(c) = 1 /\ c[1] # "0xFF"
                     /\ Copy(out \o c, pos - 1) \/ Len(out) = Disk
  /\ pc = "done" => pos = Len(file) + 1 \/ file[pos] = "0xFF"

\* The whole file is at the beginning of o.
Whole(o) == Len(file) <= Len(o) /\ \A k \in 1..Len(file) : o[k] = file[k]

\* feladat.c: the same, line by line; at the end of the input the last line is
\* written again, which is not the one that ends the program.
MaFeladat ==
  /\ pc \in {"open", "fgets"} => c # M!OverLine
  /\ pc \in {"open", "fgets"} => Copy(out, pos - 1) \/ (pos = Len(file) + 1 /\ Whole(out))
  /\ pc = "write_line" => \/ Copy(out \o c, pos - 1)
                          \/ pos = Len(file) + 1 /\ Whole(out) /\ c # M!OverLine
  /\ pc = "while" => \/ Copy(out, pos - 1) /\ M!IsSuffix(c, out)
                     \/ pos = Len(file) + 1 /\ Whole(out) /\ c # M!OverLine
  /\ pc = "done" => Copy(out, pos - 1) /\ M!IsSuffix(M!OverLine, out)
  /\ pc = "failed" => Len(out) = Disk /\ (Whole(out) \/ (Copy(out, Disk) /\ Disk <= Len(file)))

NewlineAtEnd == file = <<>> \/ file[Len(file)] = "newline"

\* open_fopen.c: what is printed is what has been read, until feof() is true; by
\* then what was read last may have been printed again.
MaOpenFopen ==
  /\ pc \in {"open", "text", "open_bin", "fopen_bin"} /\ ~feof => Copy(out, pos - 1)
  /\ pc = "text_end" => feof
  /\ pc \in {"text", "text_end"} /\ feof => /\ out = file \/ out = file \o c
                                            /\ NewlineAtEnd => out = file \o c
  /\ pc \in {"open", "open_bin"} => ~feof
  /\ pc = "open_bin_end" => out = file
  /\ pc = "fopen_bin_end" => feof
  /\ pc \in {"fopen_bin", "fopen_bin_end"} /\ feof => out = file \o c

MaInv ==
  /\ MaTyped /\ MaPlaces
  /\ Is("file") => MaFile
  /\ Is("fopen_readwrite") => MaStdio
  /\ Is("feladat") => MaFeladat
  /\ Is("open_fopen") => MaOpenFopen

-----------------------------------------------------------------------------

LEMMA MaJoined ==
  ASSUME NEW s \in Texts1, NEW u \in Texts1
  PROVE  /\ s \o u \in Texts1 /\ Len(s \o u) = Len(s) + Len(u) /\ Len(s) \in Nat /\ Len(u) \in Nat
         /\ \A k \in 1..Len(s) : (s \o u)[k] = s[k]
         /\ \A k \in 1..Len(u) : (s \o u)[Len(s) + k] = u[k]
<1>1. s \o u \in Texts1 /\ Len(s \o u) = Len(s) + Len(u) /\ Len(s) \in Nat /\ Len(u) \in Nat
  BY ConcatProperties DEF Texts1
<1>2. ASSUME NEW k \in 1..Len(s) PROVE (s \o u)[k] = s[k]
  BY <1>1, <1>2 DEF Texts1
<1>3. ASSUME NEW k \in 1..Len(u) PROVE (s \o u)[Len(s) + k] = u[k]
  BY <1>1, <1>3 DEF Texts1
<1> QED BY <1>1, <1>2, <1>3

LEMMA MaOne ==
  ASSUME file \in Texts1, NEW q \in 1..Len(file)
  PROVE  <<file[q]>> \in Texts1 /\ Len(<<file[q]>>) = 1 /\ <<file[q]>>[1] = file[q]
BY DEF Texts1

\* One more character is read.
LEMMA MaCopyNext ==
  ASSUME file \in Texts1, NEW o \in Texts1, NEW q \in 1..Len(file), Copy(o, q - 1),
         NEW x, x = <<file[q]>>
  PROVE  o \o x \in Texts1 /\ Copy(o \o x, q)
<1>1. x \in Texts1 /\ Len(x) = 1 /\ x[1] = file[q]
  BY MaOne
<1>2. Len(o) = q - 1 /\ \A k \in 1..(q - 1) : o[k] = file[k]
  BY DEF Copy
<1>3. /\ o \o x \in Texts1 /\ Len(o \o x) = Len(o) + Len(x)
      /\ \A k \in 1..Len(o) : (o \o x)[k] = o[k]
      /\ \A k \in 1..Len(x) : (o \o x)[Len(o) + k] = x[k]
  BY <1>1, MaJoined, Zenon
<1>4. Len(file) \in Nat
  BY DEF Texts1
<1>5. (q - 1) + 1 = q /\ q \in Nat /\ 1 \in 1..1
  BY <1>4
<1>6. Len(o \o x) = q /\ (o \o x)[q] = file[q]
  BY <1>1, <1>2, <1>3, <1>5, Zenon
<1>7. ASSUME NEW k \in 1..q PROVE (o \o x)[k] = file[k]
  <2>1. k = q \/ k \in 1..(q - 1)
    BY <1>5
  <2> QED BY <1>2, <1>3, <1>6, <2>1, Zenon
<1> QED BY <1>3, <1>6, <1>7, Zenon DEF Copy

\* x is what is in the file from q to last.
MaIsLine(x, q, last) ==
  /\ x \in Texts1 /\ Len(x) = last - q + 1 /\ x[Len(x)] = file[last] /\ Len(x) > 0
  /\ \A k \in 1..(last - q + 1) : x[k] = file[q + k - 1]

LEMMA MaLine ==
  ASSUME file \in Texts1, NEW q \in 1..Len(file), NEW last \in q..Len(file),
         NEW x, x = SubSeq(file, q, last)
  PROVE  MaIsLine(x, q, last)
<1>0. Len(file) \in Nat /\ q \in Nat /\ last \in Nat /\ q <= last /\ last <= Len(file) /\ 1 <= q
  BY DEF Texts1
<1>1. x \in Texts1 /\ Len(x) = last - q + 1 /\ \A k \in 1..(last - q + 1) : x[k] = file[q + k - 1]
  BY <1>0 DEF Texts1
<1>2. Len(x) \in 1..(last - q + 1) /\ q + Len(x) - 1 = last /\ Len(x) > 0
  BY <1>0, <1>1
<1> QED BY <1>1, <1>2, Zenon DEF MaIsLine

\* One more line is read.
LEMMA MaCopyLine ==
  ASSUME file \in Texts1, NEW o \in Texts1, NEW q \in 1..Len(file), Copy(o, q - 1),
         NEW last \in q..Len(file), NEW x, x = SubSeq(file, q, last)
  PROVE  o \o x \in Texts1 /\ Copy(o \o x, last)
<1>0. Len(file) \in Nat /\ q \in Nat /\ last \in Nat /\ q <= last /\ last <= Len(file) /\ 1 <= q
  BY DEF Texts1
<1>1. x \in Texts1 /\ Len(x) = last - q + 1 /\ \A k \in 1..(last - q + 1) : x[k] = file[q + k - 1]
  <2>1. MaIsLine(x, q, last)
    BY MaLine, Zenon
  <2> QED BY <2>1, Zenon DEF MaIsLine
<1>2. Len(o) = q - 1 /\ \A k \in 1..(q - 1) : o[k] = file[k]
  BY DEF Copy
<1>3. /\ o \o x \in Texts1 /\ Len(o \o x) = Len(o) + Len(x)
      /\ \A k \in 1..Len(o) : (o \o x)[k] = o[k]
      /\ \A k \in 1..Len(x) : (o \o x)[Len(o) + k] = x[k]
  BY <1>1, MaJoined, Zenon
<1>4. Len(o \o x) = last
  BY <1>0, <1>1, <1>2, <1>3
<1>5. ASSUME NEW k \in 1..last PROVE (o \o x)[k] = file[k]
  <2>1. CASE k \in 1..(q - 1)
    BY <1>2, <1>3, <2>1, Zenon
  <2>2. CASE k \notin 1..(q - 1)
    <3>1. PICK j : j = k - (q - 1)
      OBVIOUS
    <3>2. j \in 1..(last - q + 1) /\ (q - 1) + j = k /\ q + j - 1 = k
      BY <1>0, <2>2, <3>1
    <3>3. (o \o x)[(q - 1) + j] = x[j]
      BY <1>1, <1>2, <1>3, <3>2, Zenon
    <3> QED BY <1>1, <3>2, <3>3, Zenon
  <2> QED BY <2>1, <2>2, Zenon
<1> QED BY <1>3, <1>4, <1>5, Zenon DEF Copy

LEMMA MaCopyAll ==
  ASSUME file \in Texts1, NEW o \in Texts1, Copy(o, Len(file))
  PROVE  o = file
BY DEF Copy, Texts1

LEMMA MaCopyIs ==
  ASSUME file \in Texts1, NEW o \in Texts1, NEW n \in 0..Len(file), Copy(o, n)
  PROVE  o = SubSeq(file, 1, n) /\ M!IsPrefix(o, file)
<1>1. Len(file) \in Nat /\ Len(o) = n /\ \A k \in 1..n : o[k] = file[k]
  BY DEF Texts1, Copy
<1>2. o = SubSeq(file, 1, n)
  BY <1>1 DEF Texts1
<1>3. SubSeq(o, 1, Len(o)) = o
  BY DEF Texts1
<1> QED BY <1>1, <1>2, <1>3 DEF M!IsPrefix

\* The first part of a copy
LEMMA MaCopyFirst ==
  ASSUME NEW o \in Texts1, NEW x \in Texts1, NEW n, Copy(o \o x, n)
  PROVE  Copy(o, Len(o)) /\ Len(o) <= n
<1>1. /\ Len(o \o x) = Len(o) + Len(x) /\ Len(o) \in Nat /\ Len(x) \in Nat
      /\ \A k \in 1..Len(o) : (o \o x)[k] = o[k]
  BY MaJoined, Zenon
<1>2. n = Len(o) + Len(x) /\ \A k \in 1..n : (o \o x)[k] = file[k]
  BY <1>1 DEF Copy
<1>3. Len(o) <= n /\ \A k \in 1..Len(o) : k \in 1..n
  BY <1>1, <1>2
<1> QED BY <1>1, <1>2, <1>3, Zenon DEF Copy

\* v is o and the beginning that fits of x
IsTorn(v, o, x) ==
  /\ v \in Texts1 /\ Len(v) = Disk
  /\ \A k \in 1..Len(o) : v[k] = o[k]
  /\ \A k \in 1..Disk : v[k] = (o \o x)[k]

LEMMA MaTorn ==
  ASSUME Disk \in Nat, NEW o \in Texts1, NEW x \in Texts1, Len(o) <= Disk,
         ~(Len(o) + Len(x) <= Disk)
  PROVE  IsTorn(o \o SubSeq(x, 1, Disk - Len(o)), o, x)
<1>0. PICK v : v = o \o SubSeq(x, 1, Disk - Len(o))
  OBVIOUS
<1>1. PICK n, u, w : n = Disk - Len(o) /\ u = SubSeq(x, 1, n) /\ w = o \o x
  OBVIOUS
<1>2. Len(o) \in Nat /\ Len(x) \in Nat /\ n \in Nat /\ n < Len(x) /\ Len(o) + n = Disk
  BY <1>1 DEF Texts1
<1>3. u \in Texts1 /\ Len(u) = n /\ \A k \in 1..n : u[k] = x[k]
  BY <1>1, <1>2 DEF Texts1
<1>4. /\ v \in Texts1 /\ Len(v) = Len(o) + Len(u)
      /\ \A k \in 1..Len(o) : v[k] = o[k]
      /\ \A k \in 1..Len(u) : v[Len(o) + k] = u[k]
  <2>1. v = o \o u
    BY <1>0, <1>1, Zenon
  <2>2. /\ o \o u \in Texts1 /\ Len(o \o u) = Len(o) + Len(u)
        /\ \A k \in 1..Len(o) : (o \o u)[k] = o[k]
        /\ \A k \in 1..Len(u) : (o \o u)[Len(o) + k] = u[k]
    BY <1>3, MaJoined, Zenon
  <2> QED BY <2>1, <2>2
<1>5. /\ \A k \in 1..Len(o) : w[k] = o[k]
      /\ \A k \in 1..Len(x) : w[Len(o) + k] = x[k]
  BY <1>1, MaJoined, Zenon
<1>6. Len(v) = Disk
  BY <1>2, <1>3, <1>4
<1>7. ASSUME NEW k \in 1..Disk PROVE v[k] = w[k]
  <2>1. CASE k \in 1..Len(o)
    BY <1>4, <1>5, <2>1, Zenon
  <2>2. CASE k \notin 1..Len(o)
    <3>1. PICK j : j = k - Len(o)
      OBVIOUS
    <3>2. j \in 1..n /\ j \in 1..Len(x) /\ Len(o) + j = k
      BY <1>2, <2>2, <3>1
    <3> QED BY <1>3, <1>4, <1>5, <3>2, Zenon
  <2> QED BY <2>1, <2>2, Zenon
<1> QED BY <1>0, <1>1, <1>4, <1>6, <1>7, Zenon DEF IsTorn

\* What is written after the whole file
LEMMA MaWhole ==
  ASSUME file \in Texts1, NEW o \in Texts1, Whole(o), NEW v \in Texts1, Len(o) <= Len(v),
         \A k \in 1..Len(o) : v[k] = o[k]
  PROVE  Whole(v)
<1>1. Len(o) \in Nat /\ Len(v) \in Nat /\ Len(file) \in Nat
  BY DEF Texts1
<1> QED BY <1>1 DEF Whole

LEMMA MaWholeIs ==
  ASSUME file \in Texts1, NEW o \in Texts1, Whole(o)
  PROVE  M!IsPrefix(file, o)
<1>1. Len(o) \in Nat /\ Len(file) \in Nat /\ Len(file) <= Len(o) /\ \A k \in 1..Len(file) : o[k] = file[k]
  BY DEF Texts1, Whole
<1>2. SubSeq(file, 1, Len(file)) = SubSeq(o, 1, Len(file))
  BY <1>1 DEF Texts1
<1> QED BY <1>1, <1>2 DEF M!IsPrefix

LEMMA MaReverse ==
  ASSUME NEW s \in Texts1
  PROVE  /\ M!Reverse(s) \in Texts1 /\ Len(M!Reverse(s)) = Len(s)
         /\ \A k \in 1..Len(s) : M!Reverse(s)[k] = s[Len(s) - k + 1]
<1>1. Len(s) \in Nat
  BY DEF Texts1
<1>2. M!Reverse(s) = [k \in 1..Len(s) |-> s[(Len(s) - k) + 1]]
  BY DEF M!Reverse
<1>3. \A k \in 1..Len(s) : s[(Len(s) - k) + 1] \in M!Characters
  BY <1>1 DEF Texts1
<1>4. M!Reverse(s) \in [1..Len(s) -> M!Characters]
  BY <1>2, <1>3
<1>5. M!Reverse(s) \in Texts1
  BY <1>1, <1>4 DEF Texts1
<1>6. Len(M!Reverse(s)) = Len(s)
  BY <1>1, <1>4, <1>5 DEF Texts1
<1> QED BY <1>2, <1>5, <1>6

LEMMA MaSuffix ==
  ASSUME NEW o \in Texts1, NEW x \in Texts1
  PROVE  M!IsSuffix(x, o \o x)
<1>1. PICK y, n, m : y = o \o x /\ n = Len(x) /\ m = Len(o)
  OBVIOUS
<1>2. /\ y \in Texts1 /\ Len(y) = m + n /\ m \in Nat /\ n \in Nat
      /\ \A k \in 1..n : y[m + k] = x[k]
  BY <1>1, MaJoined, Zenon
<1>3. PICK r, s : r = M!Reverse(x) /\ s = M!Reverse(y)
  OBVIOUS
<1>4. /\ r \in Texts1 /\ s \in Texts1 /\ Len(r) = n /\ Len(s) = m + n
      /\ \A k \in 1..n : r[k] = x[n - k + 1]
      /\ \A k \in 1..(m + n) : s[k] = y[(m + n) - k + 1]
  <2>1. r \in Texts1 /\ Len(r) = n /\ \A k \in 1..n : r[k] = x[n - k + 1]
    BY <1>1, <1>3, MaReverse, Zenon
  <2>2. Len(y) = m + n /\ s \in Texts1 /\ Len(s) = Len(y) /\ \A k \in 1..Len(y) : s[k] = y[Len(y) - k + 1]
    BY <1>2, <1>3, MaReverse, Zenon
  <2> QED BY <2>1, <2>2, Zenon
<1>5. ASSUME NEW k \in 1..n PROVE s[k] = r[k]
  <2>1. k \in 1..(m + n) /\ (n - k + 1) \in 1..n /\ m + (n - k + 1) = (m + n) - k + 1
    BY <1>2
  <2>2. s[k] = y[(m + n) - k + 1]
    BY <1>4, <2>1, Zenon
  <2>3. y[m + (n - k + 1)] = x[n - k + 1]
    BY <1>2, <2>1, Zenon
  <2>4. r[k] = x[n - k + 1]
    BY <1>4, Zenon
  <2> QED BY <2>1, <2>2, <2>3, <2>4, Zenon
<1>6. SubSeq(r, 1, n) = SubSeq(s, 1, n)
  BY <1>2, <1>4, <1>5 DEF Texts1
<1>7. Len(r) <= Len(s)
  BY <1>2, <1>4
<1>8. M!IsPrefix(r, s)
  BY <1>4, <1>6, <1>7, Zenon DEF M!IsPrefix
<1> QED BY <1>1, <1>3, <1>8, Zenon DEF M!IsSuffix

-----------------------------------------------------------------------------

LEMMA MaLabels ==
  /\ "over" \in M!Characters /\ "newline" \in M!Characters /\ "y" \in M!Characters
  /\ "0xFF" \in M!Characters /\ M!OverLine = <<"over", "newline">> /\ M!OverLine[2] = "newline"
  /\ Len(<<"y">>) = 1 /\ <<"y">> # M!OverLine /\ <<>> # M!OverLine
  /\ <<>> \in Texts1 /\ <<"y">> \in Texts1
<1>1. "over" \in M!Characters /\ "newline" \in M!Characters /\ "y" \in M!Characters /\ "0xFF" \in M!Characters
  BY DEF M!Characters
<1>2. M!OverLine = <<"over", "newline">> /\ M!OverLine[2] = "newline" /\ Len(M!OverLine) = 2
  BY DEF M!OverLine
<1>3. Len(<<"y">>) = 1 /\ Len(<<>>) = 0
  OBVIOUS
<1>4. <<>> \in Texts1 /\ <<"y">> \in Texts1
  BY <1>1 DEF Texts1
<1> QED BY <1>1, <1>2, <1>3, <1>4

LEMMA MaInitially ==
  ASSUME Buffer \in Nat, Buffer >= 2, Disk \in Nat, M!Init
  PROVE  MaInv
<1>1. /\ kind \in {"file", "same", "directory"} /\ (kind # "file" => Is("file"))
      /\ pc = "open" /\ file \in Texts /\ pos = 1 /\ feof = FALSE /\ out = <<>>
      /\ c \in {<<>>, <<"y">>}
      /\ Is("file") => c = <<"y">>
  BY DEF M!Init, M!Garbage, M!GarbageLine, M!Is, Is
<1>2. file \in Texts1
  <2>1. Texts = UNION {[1..n -> {"x", "over", "newline", "0xFF"}] : n \in 0..4}
    BY DEF Texts, SeqOf
  <2>2. PICK n \in 0..4 : file \in [1..n -> {"x", "over", "newline", "0xFF"}]
    BY <1>1, <2>1, Zenon
  <2>3. {"x", "over", "newline", "0xFF"} \subseteq M!Characters
    BY DEF M!Characters
  <2>4. file \in [1..n -> M!Characters]
    BY <2>2, <2>3
  <2> QED BY <2>4 DEF Texts1
<1>3. Len(file) \in Nat /\ Len(out) = 0 /\ out \in Texts1 /\ c \in Texts1 /\ Len(c) < 2 /\ c # M!OverLine
  <2>1. Len(file) \in Nat
    BY <1>2 DEF Texts1
  <2>2. Len(out) = 0
    BY <1>1
  <2>3. c = <<>> \/ c = <<"y">>
    BY <1>1
  <2>4. c # M!OverLine /\ c \in Texts1
    BY <2>3, MaLabels, Zenon
  <2>5. Len(c) < 2
    <3>1. Len(c) = 0 \/ Len(c) = 1
      <4>1. Len(<<>>) = 0
        OBVIOUS
      <4> QED BY <2>3, <4>1, MaLabels, Zenon
    <3> QED BY <3>1
  <2>6. out \in Texts1
    BY <1>1, MaLabels, Zenon
  <2> QED BY <2>1, <2>2, <2>4, <2>5, <2>6, Zenon
<1>4. Copy(out, pos - 1) /\ Copy(out, Len(out)) /\ Len(out) <= pos - 1
  <2>1. Len(out) = 0 /\ pos - 1 = 0 /\ 1..0 = {} /\ 0 <= 0
    BY <1>1
  <2> QED BY <2>1 DEF Copy
<1>5. MaTyped
  <2>1. pos \in 1..Len(file) + 1
    BY <1>1, <1>3
  <2>2. Len(c) < 2 /\ Len(out) = 0
    BY <1>3, Zenon
  <2>3. Len(c) < Buffer /\ Len(out) <= Disk
    <3>1. c \in Texts1
      BY <1>3, Zenon
    <3>2. Len(c) \in Nat
      BY <3>1 DEF Texts1
    <3> QED BY <2>2, <3>2
  <2>4. feof \in BOOLEAN
    BY <1>1, Zenon
  <2> QED BY <1>1, <1>2, <1>3, <2>1, <2>3, <2>4, Zenon DEF MaTyped
<1>6. MaPlaces
  BY <1>1 DEF MaPlaces, M!Labels
<1>7. MaFile /\ MaFeladat
  BY <1>1, <1>3, <1>4 DEF MaFile, MaFeladat
<1>8. MaStdio
  BY <1>1, <1>3, <1>4 DEF MaStdio
<1>9. MaOpenFopen
  BY <1>1, <1>4 DEF MaOpenFopen
<1> QED BY <1>5, <1>6, <1>7, <1>8, <1>9 DEF MaInv

\* What every step of a program of Masolas leaves alone
MaSame(p) == Is(p) /\ program' = program /\ kind' = kind

LEMMA MaOnly ==
  ASSUME NEW p \in {"file", "fopen_readwrite", "feladat", "open_fopen"}, MaSame(p),
         MaTyped', MaPlaces',
         p = "file" => MaFile',
         p = "fopen_readwrite" => MaStdio',
         p = "feladat" => MaFeladat',
         p = "open_fopen" => MaOpenFopen'
  PROVE  MaInv'
BY DEF MaInv, MaSame, Is

LEMMA MaOpen ==
  ASSUME MaInv, program' = program,
         \/ M!Open("file", "read")
         \/ M!Open("fopen_readwrite", "fgetc")
         \/ M!Open("feladat", "fgets")
         \/ M!Open("open_fopen", "text")
  PROVE  MaInv'
<1>1. /\ pc = "open" /\ file' = IF kind = "same" THEN <<>> ELSE file
      /\ kind' = kind /\ pos' = pos /\ feof' = feof /\ c' = c /\ out' = out
  BY DEF M!Open, M!Goto
<1>2. MaTyped /\ pos = 1 /\ out = <<>> /\ feof = FALSE
  BY <1>1 DEF MaInv, MaTyped
<1>3. <<>> \in Texts1 /\ Len(<<>>) = 0 /\ file \in Texts1 /\ Len(file) \in Nat
  BY <1>2 DEF MaTyped, Texts1
<1>4. file' \in Texts1 /\ pos' \in 1..Len(file') + 1
  BY <1>1, <1>2, <1>3
<1>5. Copy(out, pos - 1)' /\ Len(out') = 0 /\ Copy(out, Len(out))'
  BY <1>1, <1>2 DEF Copy
<1>6. ASSUME pc' # "open" PROVE MaTyped'
  BY <1>1, <1>2, <1>4, <1>6 DEF MaTyped, Is
<1>7. CASE M!Open("file", "read")
  <2>1. program = "file" /\ pc' = "read"
    BY <1>7 DEF M!Open, M!Goto, M!Is
  <2>2. MaPlaces'
    BY <2>1 DEF MaPlaces, M!Labels, Is
  <2>3. MaFile'
    BY <1>5, <2>1 DEF MaFile
  <2> QED BY <1>1, <1>6, <2>1, <2>2, <2>3, MaOnly DEF MaSame, Is
<1>8. CASE M!Open("fopen_readwrite", "fgetc")
  <2>1. program = "fopen_readwrite" /\ pc' = "fgetc"
    BY <1>8 DEF M!Open, M!Goto, M!Is
  <2>2. MaPlaces'
    BY <2>1 DEF MaPlaces, M!Labels, Is
  <2>3. MaStdio'
    BY <1>1, <1>2, <1>5, <2>1 DEF MaStdio
  <2> QED BY <1>1, <1>6, <2>1, <2>2, <2>3, MaOnly DEF MaSame, Is
<1>9. CASE M!Open("feladat", "fgets")
  <2>1. program = "feladat" /\ pc' = "fgets"
    BY <1>9 DEF M!Open, M!Goto, M!Is
  <2>2. MaPlaces'
    BY <2>1 DEF MaPlaces, M!Labels, Is
  <2>3. c # M!OverLine
    BY <1>1, <2>1 DEF MaInv, MaFeladat, Is
  <2>4. MaFeladat'
    BY <1>1, <1>5, <2>1, <2>3 DEF MaFeladat, M!OverLine
  <2> QED BY <1>1, <1>6, <2>1, <2>2, <2>4, MaOnly DEF MaSame, Is
<1>10. CASE M!Open("open_fopen", "text")
  <2>1. program = "open_fopen" /\ pc' = "text"
    BY <1>10 DEF M!Open, M!Goto, M!Is
  <2>2. MaPlaces'
    BY <2>1 DEF MaPlaces, M!Labels, Is
  <2>3. MaOpenFopen'
    BY <1>1, <1>2, <1>5, <2>1 DEF MaOpenFopen
  <2> QED BY <1>1, <1>6, <2>1, <2>2, <2>3, MaOnly DEF MaSame, Is
<1> QED BY <1>7, <1>8, <1>9, <1>10

-----------------------------------------------------------------------------
(* file.c and fopen_readwrite.c *)

\* One character from the file
LEMMA MaNext1 ==
  ASSUME MaTyped, Buffer \in Nat, Buffer >= 2, ~(pos > Len(file)), M!Next1
  PROVE  /\ pos \in 1..Len(file) /\ pos' = pos + 1 /\ c' = <<file[pos]>> /\ c' \in Texts1
         /\ Len(c') = 1 /\ Len(c') < Buffer /\ c'[1] = file[pos] /\ pos' \in 1..Len(file) + 1
<1>1. file \in Texts1 /\ Len(file) \in Nat /\ pos \in 1..Len(file) /\ pos' = pos + 1 /\ c' = <<file[pos]>>
  BY DEF MaTyped, M!Next1, Texts1
<1>2. c' \in Texts1 /\ Len(c') = 1 /\ c'[1] = file[pos]
  BY <1>1, MaOne
<1>3. Len(c') < Buffer
  BY <1>2
<1> QED BY <1>1, <1>2, <1>3

LEMMA MaRead ==
  ASSUME Buffer \in Nat, Buffer >= 2, MaInv, program' = program, M!Read("read", "write", "done")
  PROVE  MaInv'
<1>1. /\ pc = "read" /\ pc' \in {"write", "done"}
      /\ kind' = kind /\ file' = file /\ feof' = feof /\ out' = out
  BY DEF M!Read, M!Goto
<1>2. Is("file") /\ MaTyped /\ MaFile
  BY <1>1 DEF MaInv, MaPlaces
<1>3. MaPlaces'
  BY <1>1, <1>2 DEF MaPlaces, M!Labels, Is
<1>4. CASE kind = "directory"
  <2>1. pc' = "write" /\ c' = c /\ pos' = pos
    BY <1>4 DEF M!Read, M!Goto
  <2>2. MaTyped'
    BY <1>1, <1>2, <2>1 DEF MaTyped, Is
  <2>3. MaFile'
    BY <1>1, <1>4, <2>1 DEF MaFile
  <2> QED BY <1>1, <1>2, <1>3, <2>2, <2>3, MaOnly DEF MaSame
<1>5. CASE kind # "directory" /\ pos > Len(file)
  <2>1. pc' = "done" /\ c' = c /\ pos' = pos
    BY <1>5 DEF M!Read, M!Goto, M!AtEnd
  <2>2. MaTyped'
    BY <1>1, <1>2, <2>1 DEF MaTyped, Is
  <2>3. pos = Len(file) + 1
    BY <1>2, <1>5 DEF MaTyped, Texts1
  <2>4. Copy(out, pos - 1)
    BY <1>1, <1>2, <1>5 DEF MaFile
  <2>5. Copy(out, pos - 1)'
    BY <1>1, <2>1, <2>4 DEF Copy
  <2>6. MaFile'
    BY <1>1, <1>5, <2>1, <2>3, <2>5 DEF MaFile
  <2> QED BY <1>1, <1>2, <1>3, <2>2, <2>6, MaOnly DEF MaSame
<1>6. CASE kind # "directory" /\ ~(pos > Len(file))
  <2>1. pc' = "write" /\ M!Next1
    BY <1>6 DEF M!Read, M!Goto, M!AtEnd
  <2>2. /\ pos \in 1..Len(file) /\ pos' = pos + 1 /\ c' = <<file[pos]>> /\ c' \in Texts1
        /\ Len(c') = 1 /\ Len(c') < Buffer /\ pos' \in 1..Len(file) + 1
    BY <1>2, <1>6, <2>1, MaNext1
  <2>3. MaTyped'
    BY <1>1, <1>2, <2>1, <2>2 DEF MaTyped, Is
  <2>4. Copy(out, pos - 1) /\ out \in Texts1 /\ file \in Texts1
    BY <1>1, <1>2, <1>6 DEF MaFile, MaTyped
  <2>5. Copy(out \o c', pos)
    BY <2>2, <2>4, MaCopyNext
  <2>6. pos' - 1 = pos
    BY <2>2
  <2>7. Copy(out \o c, pos - 1)'
    BY <1>1, <2>5, <2>6 DEF Copy
  <2>8. MaFile'
    BY <1>1, <1>6, <2>1, <2>2, <2>7 DEF MaFile
  <2> QED BY <1>1, <1>2, <1>3, <2>3, <2>8, MaOnly DEF MaSame
<1> QED BY <1>4, <1>5, <1>6

LEMMA MaWriteFile ==
  ASSUME Buffer \in Nat, Disk \in Nat, MaInv, program' = program, M!Write("write", "read")
  PROVE  MaInv'
<1>1. /\ pc = "write" /\ kind' = kind /\ file' = file /\ pos' = pos /\ feof' = feof /\ c' = c
      /\ IF Len(out) + Len(c) <= Disk
           THEN pc' = "read" /\ out' = out \o c
           ELSE pc' = "failed" /\ out' = out \o SubSeq(c, 1, Disk - Len(out))
  BY DEF M!Write, M!Goto
<1>2. Is("file") /\ MaTyped /\ MaFile
  BY <1>1 DEF MaInv, MaPlaces
<1>3. MaPlaces'
  BY <1>1, <1>2 DEF MaPlaces, M!Labels, Is
<1>4. /\ out \in Texts1 /\ c \in Texts1 /\ Len(out) \in Nat /\ Len(c) \in Nat /\ Len(out) <= Disk
      /\ out \o c \in Texts1 /\ Len(out \o c) = Len(out) + Len(c)
  <2>1. out \in Texts1 /\ c \in Texts1 /\ Len(out) <= Disk
    BY <1>2 DEF MaTyped, Is
  <2> QED BY <2>1, MaJoined, Zenon
<1>5. kind # "directory" => Len(c) = 1 /\ Copy(out \o c, pos - 1)
  BY <1>1, <1>2 DEF MaFile
<1>6. CASE Len(out) + Len(c) <= Disk
  <2>1. pc' = "read" /\ out' = out \o c
    BY <1>1, <1>6
  <2>2. out' \in Texts1 /\ Len(out') <= Disk
    BY <1>4, <1>6, <2>1
  <2>3. MaTyped'
    BY <1>1, <1>2, <2>1, <2>2 DEF MaTyped, Is
  <2>4. kind # "directory" => Copy(out, pos - 1)'
    BY <1>1, <1>5, <2>1, Zenon DEF Copy
  <2>5. MaFile'
    BY <1>1, <2>1, <2>4 DEF MaFile
  <2> QED BY <1>1, <1>2, <1>3, <2>3, <2>5, MaOnly DEF MaSame
<1>7. CASE ~(Len(out) + Len(c) <= Disk)
  <2>1. /\ pc' = "failed" /\ out' \in Texts1 /\ Len(out') = Disk
        /\ \A k \in 1..Len(out) : out'[k] = out[k]
        /\ \A k \in 1..Disk : out'[k] = (out \o c)[k]
    <3>1. IsTorn(out \o SubSeq(c, 1, Disk - Len(out)), out, c)
      BY <1>4, <1>7, MaTorn, Zenon
    <3>2. pc' = "failed" /\ out' = out \o SubSeq(c, 1, Disk - Len(out))
      BY <1>1, <1>7, Zenon
    <3> QED BY <3>1, <3>2, Zenon DEF IsTorn
  <2>2. Len(c) = 1 => out' = out
    <3>1. Len(c) = 1 => Len(out') = Len(out)
      BY <1>4, <1>7, <2>1
    <3> QED BY <1>4, <2>1, <3>1 DEF Texts1
  <2>3. MaTyped'
    <3>1. Len(out') <= Disk
      BY <2>1
    <3>2. pc' # "open"
      BY <2>1
    <3> QED BY <1>1, <1>2, <2>1, <3>1, <3>2, Zenon DEF MaTyped, Is
  <2>4. kind # "directory" => Copy(out \o c, pos - 1)'
    BY <1>1, <1>5, <2>1, <2>2, Zenon DEF Copy
  <2>5. MaFile'
    BY <1>1, <1>5, <2>1, <2>4 DEF MaFile
  <2> QED BY <1>1, <1>2, <1>3, <2>3, <2>5, MaOnly DEF MaSame
<1> QED BY <1>6, <1>7

LEMMA MaFgetc ==
  ASSUME Buffer \in Nat, Buffer >= 2, MaInv, program' = program, M!fgetc
  PROVE  MaInv'
<1>1. /\ pc = "fgetc" /\ pc' \in {"done", "fputc"}
      /\ kind' = kind /\ file' = file /\ feof' = feof /\ out' = out
  BY DEF M!fgetc, M!Goto
<1>2. Is("fopen_readwrite") /\ MaTyped /\ MaStdio
  BY <1>1 DEF MaInv, MaPlaces
<1>3. MaPlaces'
  BY <1>1, <1>2 DEF MaPlaces, M!Labels, Is
<1>4. /\ Len(out) <= pos - 1 /\ Copy(out, Len(out)) /\ \A k \in 1..Len(out) : out[k] # "0xFF"
      /\ Len(out) = pos - 1 \/ Len(out) = Disk
  BY <1>1, <1>2 DEF MaStdio
<1>5. Copy(out, Len(out))' /\ \A k \in 1..Len(out') : out'[k] # "0xFF"
  BY <1>1, <1>4 DEF Copy
<1>6. CASE pos > Len(file) \/ file[pos] = "0xFF"
  <2>1. pc' = "done" /\ c' = c /\ pos' = pos
    BY <1>6 DEF M!fgetc, M!Goto, M!AtEnd
  <2>2. MaTyped'
    BY <1>1, <1>2, <2>1 DEF MaTyped, Is
  <2>3. pos = Len(file) + 1 \/ file[pos] = "0xFF"
    BY <1>2, <1>6 DEF MaTyped, Texts1
  <2>4. MaStdio'
    BY <1>1, <1>4, <1>5, <2>1, <2>3 DEF MaStdio
  <2> QED BY <1>1, <1>2, <1>3, <2>2, <2>4, MaOnly DEF MaSame
<1>7. CASE ~(pos > Len(file)) /\ file[pos] # "0xFF"
  <2>1. pc' = "fputc" /\ M!Next1
    BY <1>7 DEF M!fgetc, M!Goto, M!AtEnd
  <2>2. /\ pos \in 1..Len(file) /\ pos' = pos + 1 /\ c' = <<file[pos]>> /\ c' \in Texts1
        /\ Len(c') = 1 /\ Len(c') < Buffer /\ pos' \in 1..Len(file) + 1 /\ c'[1] = file[pos]
    BY <1>2, <1>7, <2>1, MaNext1
  <2>3. MaTyped'
    BY <1>1, <1>2, <2>1, <2>2 DEF MaTyped, Is
  <2>4. out \in Texts1 /\ file \in Texts1 /\ Len(out) \in Nat /\ Len(file) \in Nat
    BY <1>2 DEF MaTyped, Texts1
  <2>5. pos' - 1 = pos /\ Len(out) <= pos
    BY <1>4, <2>2, <2>4
  <2>6. Copy(out \o c, pos - 1)' \/ Len(out) = Disk
    <3>1. SUFFICES ASSUME Len(out) = pos - 1 PROVE Copy(out \o c, pos - 1)'
      BY <1>4
    <3>2. Copy(out, pos - 1)
      BY <1>4, <3>1, Zenon
    <3>3. Copy(out \o c', pos)
      BY <2>2, <2>4, <3>2, MaCopyNext, Zenon
    <3> QED BY <1>1, <2>5, <3>3 DEF Copy
  <2>7. Len(out') <= pos' - 1 /\ c'[1] # "0xFF"
    BY <1>1, <1>7, <2>2, <2>5
  <2>8. MaStdio'
    BY <1>1, <1>5, <2>1, <2>2, <2>6, <2>7 DEF MaStdio
  <2> QED BY <1>1, <1>2, <1>3, <2>3, <2>8, MaOnly DEF MaSame
<1> QED BY <1>6, <1>7

LEMMA MaFputc ==
  ASSUME Buffer \in Nat, Disk \in Nat, MaInv, program' = program, M!fputc("fputc", "fgetc")
  PROVE  MaInv'
<1>1. /\ pc = "fputc" /\ pc' = "fgetc" /\ kind' = kind /\ file' = file /\ pos' = pos /\ feof' = feof
      /\ c' = c /\ out' = IF Len(out) < Disk THEN out \o c ELSE out
  BY DEF M!fputc, M!Goto
<1>2. Is("fopen_readwrite") /\ MaTyped /\ MaStdio
  BY <1>1 DEF MaInv, MaPlaces
<1>3. MaPlaces'
  BY <1>1, <1>2 DEF MaPlaces, M!Labels, Is
<1>4. /\ Len(out) <= pos - 1 /\ Copy(out, Len(out)) /\ \A k \in 1..Len(out) : out[k] # "0xFF"
      /\ Len(c) = 1 /\ c[1] # "0xFF"
      /\ Copy(out \o c, pos - 1) \/ Len(out) = Disk
  BY <1>1, <1>2 DEF MaStdio
<1>5. /\ out \in Texts1 /\ c \in Texts1 /\ Len(out) \in Nat /\ Len(out) <= Disk
      /\ out \o c \in Texts1 /\ Len(out \o c) = Len(out) + Len(c)
      /\ \A k \in 1..Len(out) : (out \o c)[k] = out[k]
      /\ \A k \in 1..Len(c) : (out \o c)[Len(out) + k] = c[k]
  <2>1. out \in Texts1 /\ c \in Texts1 /\ Len(out) <= Disk
    BY <1>2 DEF MaTyped, Is
  <2> QED BY <2>1, MaJoined, Zenon
<1>6. CASE Len(out) < Disk
  <2>1. out' = out \o c
    BY <1>1, <1>6
  <2>2. Copy(out \o c, pos - 1)
    BY <1>4, <1>5, <1>6
  <2>3. Len(out') = pos - 1 /\ Len(out') = Len(out) + 1 /\ Len(out') <= Disk
    BY <1>4, <1>5, <1>6, <2>1, <2>2 DEF Copy
  <2>4. MaTyped'
    BY <1>1, <1>2, <1>5, <2>1, <2>3 DEF MaTyped, Is
  <2>5. Copy(out, Len(out))'
    BY <1>1, <2>1, <2>2, <2>3 DEF Copy
  <2>6. ASSUME NEW k \in 1..Len(out') PROVE out'[k] # "0xFF"
    <3>1. k \in 1..Len(out) \/ k = Len(out) + 1
      BY <1>5, <2>3
    <3>2. (out \o c)[Len(out) + 1] = c[1]
      BY <1>4, <1>5
    <3> QED BY <1>4, <1>5, <2>1, <3>1, <3>2, Zenon
  <2>7. Len(out') <= pos' - 1
    BY <1>1, <1>4, <1>5, <2>3
  <2>8. MaStdio'
    BY <1>1, <2>3, <2>5, <2>6, <2>7 DEF MaStdio
  <2> QED BY <1>1, <1>2, <1>3, <2>4, <2>8, MaOnly DEF MaSame
<1>7. CASE ~(Len(out) < Disk)
  <2>1. out' = out /\ Len(out) = Disk
    BY <1>1, <1>5, <1>7
  <2>2. MaTyped'
    BY <1>1, <1>2, <2>1 DEF MaTyped, Is
  <2>3. Copy(out, Len(out))'
    BY <1>1, <1>4, <2>1 DEF Copy
  <2>4. MaStdio'
    BY <1>1, <1>4, <2>1, <2>3 DEF MaStdio
  <2> QED BY <1>1, <1>2, <1>3, <2>2, <2>4, MaOnly DEF MaSame
<1> QED BY <1>6, <1>7

-----------------------------------------------------------------------------
(* feladat.c and open_fopen.c *)

\* fgets() before the end of the file: from pos to the last character it reads
LEMMA MaFgets ==
  ASSUME Buffer \in Nat, Buffer >= 2, MaTyped, ~(pos > Len(file)), M!fgets
  PROVE  \E last \in pos..Len(file) :
           /\ c' = SubSeq(file, pos, last) /\ pos' = last + 1 /\ pos \in 1..Len(file)
           /\ pos' \in 1..Len(file) + 1
           /\ feof' = (Len(c') < Buffer - 1 /\ M!Last(c') # "newline")
           /\ c' \in Texts1 /\ Len(c') = last - pos + 1 /\ Len(c') < Buffer
           /\ c'[Len(c')] = file[last] /\ M!Last(c') = file[last]
           /\ feof' => last = Len(file) /\ file[last] # "newline"
           /\ \A o \in Texts1 : Copy(o, pos - 1) => o \o c' \in Texts1 /\ Copy(o \o c', last)
<1>1. file \in Texts1 /\ Len(file) \in Nat /\ pos \in 1..Len(file)
  BY DEF MaTyped, Texts1
<1> DEFINE S == {k \in pos..Len(file) : file[k] = "newline"} \cup {Len(file), pos + Buffer - 2}
<1>2. S \in SUBSET Nat /\ S \in SUBSET Int /\ S # {} /\ Len(file) \in S /\ pos + Buffer - 2 \in S
  BY <1>1
<1>3. PICK last \in S : \A x \in S : last <= x
  BY <1>2, LeastNat
<1>4. M!Min(S) = last
  <2>1. \A x \in S : (\A y \in S : x <= y) => x = last
    BY <1>2, <1>3
  <2> QED BY <1>3, <2>1 DEF M!Min
<1>5. last \in pos..Len(file) /\ last <= pos + Buffer - 2
  <2>1. \A x \in S : pos <= x
    BY <1>1
  <2> QED BY <1>1, <1>2, <1>3, <2>1
<1>6. c' = SubSeq(file, pos, last) /\ pos' = last + 1
      /\ feof' = (Len(c') < Buffer - 1 /\ M!Last(c') # "newline")
  BY <1>4 DEF M!fgets, M!AtEnd
<1>10. last = Len(file) \/ last = pos + Buffer - 2 \/ file[last] = "newline"
  BY <1>3
<1> HIDE DEF S
<1>8. /\ c' \in Texts1 /\ Len(c') = last - pos + 1 /\ c'[Len(c')] = file[last] /\ Len(c') > 0
  <2>1. MaIsLine(c', pos, last)
    BY <1>1, <1>5, <1>6, MaLine, Zenon
  <2> QED BY <2>1, Zenon DEF MaIsLine
<1>9. M!Last(c') = file[last] /\ Len(c') < Buffer /\ pos' \in 1..Len(file) + 1
  <2>1. M!Last(c') = file[last]
    BY <1>8, Zenon DEF M!Last
  <2> QED BY <1>1, <1>5, <1>6, <1>8, <2>1
<1>11. ASSUME feof' PROVE last = Len(file) /\ file[last] # "newline"
  <2>1. Len(c') < Buffer - 1 /\ file[last] # "newline"
    BY <1>6, <1>9, <1>11
  <2>2. last # pos + Buffer - 2
    BY <1>1, <1>5, <1>8, <2>1
  <2> QED BY <1>10, <2>1, <2>2
<1>12. ASSUME NEW o \in Texts1, Copy(o, pos - 1) PROVE o \o c' \in Texts1 /\ Copy(o \o c', last)
  BY <1>1, <1>5, <1>6, <1>12, MaCopyLine, Zenon
<1> QED BY <1>1, <1>5, <1>6, <1>8, <1>9, <1>11, <1>12

LEMMA MaFgetsLine ==
  ASSUME Buffer \in Nat, Buffer >= 2, MaInv, program' = program, M!Fgets("fgets", "write_line")
  PROVE  MaInv'
<1>1. /\ pc = "fgets" /\ pc' = "write_line" /\ kind' = kind /\ file' = file /\ out' = out /\ M!fgets
  BY DEF M!Fgets, M!Goto
<1>2. Is("feladat") /\ MaTyped /\ MaFeladat
  BY <1>1 DEF MaInv, MaPlaces
<1>3. MaPlaces'
  BY <1>1, <1>2 DEF MaPlaces, M!Labels, Is
<1>4. c # M!OverLine /\ (Copy(out, pos - 1) \/ (pos = Len(file) + 1 /\ Whole(out)))
  BY <1>1, <1>2 DEF MaFeladat
<1>5. CASE pos > Len(file)
  <2>1. c' = c /\ pos' = pos /\ feof' = TRUE
    BY <1>1, <1>5 DEF M!fgets, M!AtEnd
  <2>2. MaTyped'
    BY <1>1, <1>2, <2>1 DEF MaTyped, Is
  <2>3. pos = Len(file) + 1
    BY <1>2, <1>5 DEF MaTyped, Texts1
  <2>4. Whole(out)
    <3>1. Len(file) \in Nat /\ pos - 1 = Len(file)
      BY <1>2, <2>3 DEF MaTyped, Texts1
    <3>2. Copy(out, Len(file)) => Whole(out)
      BY <3>1 DEF Copy, Whole
    <3> QED BY <1>4, <3>1, <3>2, Zenon
  <2>5. c' # M!OverLine' /\ pos' = Len(file') + 1 /\ Whole(out)'
    BY <1>1, <1>4, <2>1, <2>3, <2>4 DEF Whole, M!OverLine
  <2>6. MaFeladat'
    BY <1>1, <2>5 DEF MaFeladat
  <2> QED BY <1>1, <1>2, <1>3, <2>2, <2>6, MaOnly DEF MaSame
<1>6. CASE ~(pos > Len(file))
  <2>1. PICK last \in pos..Len(file) :
           /\ c' = SubSeq(file, pos, last) /\ pos' = last + 1 /\ pos \in 1..Len(file)
           /\ pos' \in 1..Len(file) + 1
           /\ feof' = (Len(c') < Buffer - 1 /\ M!Last(c') # "newline")
           /\ c' \in Texts1 /\ Len(c') = last - pos + 1 /\ Len(c') < Buffer
           /\ c'[Len(c')] = file[last] /\ M!Last(c') = file[last]
           /\ feof' => last = Len(file) /\ file[last] # "newline"
           /\ \A o \in Texts1 : Copy(o, pos - 1) => o \o c' \in Texts1 /\ Copy(o \o c', last)
    BY <1>1, <1>2, <1>6, MaFgets, Zenon
  <2>2. feof' \in BOOLEAN
    BY <2>1, Zenon
  <2>3. MaTyped'
    BY <1>1, <1>2, <2>1, <2>2 DEF MaTyped, Is
  <2>4. Copy(out, pos - 1) /\ out \in Texts1
    <3>1. pos # Len(file) + 1
      BY <2>1
    <3> QED BY <1>2, <1>4, <3>1 DEF MaTyped
  <2>5. Copy(out \o c', last)
    BY <2>1, <2>4, Zenon
  <2>6. pos' - 1 = last
    BY <2>1
  <2>7. Copy(out \o c, pos - 1)'
    BY <1>1, <2>5, <2>6 DEF Copy
  <2>8. MaFeladat'
    BY <1>1, <2>7 DEF MaFeladat
  <2> QED BY <1>1, <1>2, <1>3, <2>3, <2>8, MaOnly DEF MaSame
<1> QED BY <1>5, <1>6

LEMMA MaWriteLine ==
  ASSUME Disk \in Nat, MaInv, program' = program, M!Write("write_line", "while")
  PROVE  MaInv'
<1>1. /\ pc = "write_line" /\ kind' = kind /\ file' = file /\ pos' = pos /\ feof' = feof /\ c' = c
      /\ IF Len(out) + Len(c) <= Disk
           THEN pc' = "while" /\ out' = out \o c
           ELSE pc' = "failed" /\ out' = out \o SubSeq(c, 1, Disk - Len(out))
  BY DEF M!Write, M!Goto
<1>2. Is("feladat") /\ MaTyped /\ MaFeladat
  BY <1>1 DEF MaInv, MaPlaces
<1>3. MaPlaces'
  BY <1>1, <1>2 DEF MaPlaces, M!Labels, Is
<1>4. /\ out \in Texts1 /\ c \in Texts1 /\ out \o c \in Texts1 /\ Len(out \o c) = Len(out) + Len(c)
      /\ Len(out) \in Nat /\ Len(c) \in Nat /\ Len(out) <= Disk /\ file \in Texts1
      /\ \A k \in 1..Len(out) : (out \o c)[k] = out[k]
      /\ M!IsSuffix(c, out \o c)
  <2>1. out \in Texts1 /\ c \in Texts1 /\ Len(out) <= Disk /\ file \in Texts1
    BY <1>2 DEF MaTyped, Is
  <2> QED BY <2>1, MaJoined, MaSuffix, Zenon
<1>5. Copy(out \o c, pos - 1) \/ (pos = Len(file) + 1 /\ Whole(out) /\ c # M!OverLine)
  BY <1>1, <1>2 DEF MaFeladat
<1>6. CASE Len(out) + Len(c) <= Disk
  <2>1. pc' = "while" /\ out' = out \o c
    BY <1>1, <1>6
  <2>2. out' \in Texts1 /\ Len(out') <= Disk
    BY <1>4, <1>6, <2>1
  <2>3. MaTyped'
    BY <1>1, <1>2, <2>1, <2>2 DEF MaTyped, Is
  <2>4. \/ Copy(out, pos - 1)' /\ M!IsSuffix(c, out)'
        \/ pos' = Len(file') + 1 /\ Whole(out)' /\ c' # M!OverLine
    <3>1. M!IsSuffix(c, out)'
      BY <1>1, <1>4, <2>1, Zenon DEF M!IsSuffix, M!IsPrefix, M!Reverse
    <3>2. Copy(out \o c, pos - 1) => Copy(out, pos - 1)'
      BY <1>1, <2>1, Zenon DEF Copy
    <3>3. Whole(out) => Whole(out)'
      <4>1. Len(out) <= Len(out \o c)
        BY <1>4
      <4>2. Whole(out) => Whole(out \o c)
        BY <1>4, <4>1, MaWhole, Zenon
      <4> QED BY <1>1, <2>1, <4>2, Zenon DEF Whole
    <3> QED BY <1>1, <1>5, <3>1, <3>2, <3>3, Zenon
  <2>5. MaFeladat'
    <3>1. M!OverLine' = M!OverLine
      BY DEF M!OverLine
    <3> QED BY <2>1, <2>4, <3>1 DEF MaFeladat
  <2> QED BY <1>1, <1>2, <1>3, <2>3, <2>5, MaOnly DEF MaSame
<1>7. CASE ~(Len(out) + Len(c) <= Disk)
  <2>1. /\ pc' = "failed" /\ out' \in Texts1 /\ Len(out') = Disk
        /\ \A k \in 1..Len(out) : out'[k] = out[k]
        /\ \A k \in 1..Disk : out'[k] = (out \o c)[k]
    <3>1. IsTorn(out \o SubSeq(c, 1, Disk - Len(out)), out, c)
      BY <1>4, <1>7, MaTorn, Zenon
    <3>2. pc' = "failed" /\ out' = out \o SubSeq(c, 1, Disk - Len(out))
      BY <1>1, <1>7, Zenon
    <3> QED BY <3>1, <3>2, Zenon DEF IsTorn
  <2>2. MaTyped'
    <3>1. Len(out') <= Disk
      BY <2>1
    <3>2. pc' # "open"
      BY <2>1
    <3> QED BY <1>1, <1>2, <2>1, <3>1, <3>2, Zenon DEF MaTyped, Is
  <2>3. Whole(out)' \/ (Copy(out, Disk)' /\ Disk <= Len(file'))
    <3>1. CASE Whole(out)
      <4>1. Len(out) <= Len(out')
        BY <1>4, <2>1
      <4>2. Whole(out')
        BY <1>4, <2>1, <3>1, <4>1, MaWhole, Zenon
      <4> QED BY <1>1, <4>2, Zenon DEF Whole
    <3>2. CASE Copy(out \o c, pos - 1)
      <4>1. PICK n : n = Len(out) + Len(c)
        OBVIOUS
      <4>2. pos - 1 = n /\ \A k \in 1..n : (out \o c)[k] = file[k]
        BY <1>4, <3>2, <4>1 DEF Copy
      <4>3. Len(file) \in Nat /\ n <= Len(file) /\ Disk <= n /\ n \in Nat
        BY <1>2, <1>4, <1>7, <4>1, <4>2 DEF MaTyped, Texts1
      <4>4. \A k \in 1..Disk : k \in 1..n
        BY <4>3
      <4>5. \A k \in 1..Disk : out'[k] = file[k]
        BY <2>1, <4>2, <4>4, Zenon
      <4>6. Disk <= Len(file)
        BY <4>3
      <4> QED BY <1>1, <2>1, <4>5, <4>6, Zenon DEF Copy
    <3> QED BY <1>5, <3>1, <3>2
  <2>4. MaFeladat'
    BY <2>1, <2>3 DEF MaFeladat
  <2> QED BY <1>1, <1>2, <1>3, <2>2, <2>4, MaOnly DEF MaSame
<1> QED BY <1>6, <1>7

LEMMA MaWhile ==
  ASSUME MaInv, program' = program,
         M!Goto("while", IF c = M!OverLine THEN "done" ELSE "fgets"),
         UNCHANGED <<kind, file, pos, feof, c, out>>
  PROVE  MaInv'
<1>1. /\ pc = "while" /\ pc' = (IF c = M!OverLine THEN "done" ELSE "fgets")
      /\ kind' = kind /\ file' = file /\ pos' = pos /\ feof' = feof /\ c' = c /\ out' = out
  BY DEF M!Goto
<1>2. Is("feladat") /\ MaTyped /\ MaFeladat
  BY <1>1 DEF MaInv, MaPlaces
<1>3. MaPlaces' /\ pc' # "open" /\ pc' \in {"done", "fgets"}
  BY <1>1, <1>2 DEF MaPlaces, M!Labels, Is
<1>4. MaTyped'
  BY <1>1, <1>2, <1>3 DEF MaTyped, Is
<1>5. \/ Copy(out, pos - 1) /\ M!IsSuffix(c, out)
      \/ pos = Len(file) + 1 /\ Whole(out) /\ c # M!OverLine
  BY <1>1, <1>2 DEF MaFeladat
<1>6. Copy(out, pos - 1) => Copy(out, pos - 1)'
  BY <1>1 DEF Copy
<1>7. CASE c = M!OverLine
  <2>1. Copy(out, pos - 1) /\ M!IsSuffix(M!OverLine, out)
    BY <1>5, <1>7
  <2>2. pc' = "done" /\ Copy(out, pos - 1)'
    BY <1>1, <1>6, <1>7, <2>1
  <2>3. M!IsSuffix(M!OverLine, out)'
    BY <1>1, <2>1, Zenon DEF M!IsSuffix, M!IsPrefix, M!Reverse, M!OverLine
  <2>4. MaFeladat'
    BY <2>2, <2>3 DEF MaFeladat
  <2> QED BY <1>1, <1>2, <1>3, <1>4, <2>4, MaOnly DEF MaSame
<1>8. CASE c # M!OverLine
  <2>1. pc' = "fgets" /\ c' # M!OverLine'
    BY <1>1, <1>8 DEF M!OverLine
  <2>2. Copy(out, pos - 1)' \/ (pos' = Len(file') + 1 /\ Whole(out)')
    <3>1. Whole(out) => Whole(out)'
      BY <1>1, Zenon DEF Whole
    <3> QED BY <1>1, <1>5, <1>6, <3>1, Zenon
  <2>3. MaFeladat'
    BY <2>1, <2>2 DEF MaFeladat
  <2> QED BY <1>1, <1>2, <1>3, <1>4, <2>3, MaOnly DEF MaSame
<1> QED BY <1>7, <1>8

LEMMA MaJoinedTyped ==
  ASSUME MaTyped, c' \in Texts1
  PROVE  out \o c' \in Texts1
BY MaJoined, Zenon DEF MaTyped

LEMMA MaText ==
  ASSUME Buffer \in Nat, Buffer >= 2, MaInv, program' = program, M!use_fopen_text
  PROVE  MaInv'
<1>1. pc = "text" /\ pc' \in {"text", "text_end"} /\ kind' = kind /\ file' = file
  BY DEF M!use_fopen_text, M!Goto
<1>2. Is("open_fopen") /\ MaTyped /\ MaOpenFopen
  BY <1>1 DEF MaInv, MaPlaces
<1>3. MaPlaces'
  BY <1>1, <1>2 DEF MaPlaces, M!Labels, Is
<1>4. file \in Texts1 /\ Len(file) \in Nat /\ out \in Texts1 /\ c \in Texts1 /\ pos \in 1..Len(file) + 1
  BY <1>2 DEF MaTyped, Texts1
<1>5. CASE feof
  <2>1. pc' = "text_end" /\ c' = c /\ pos' = pos /\ feof' = feof /\ out' = out
    BY <1>5 DEF M!use_fopen_text, M!Goto
  <2>2. MaTyped'
    BY <1>1, <1>2, <2>1 DEF MaTyped, Is
  <2>3. (out = file \/ out = file \o c) /\ (NewlineAtEnd => out = file \o c)
    BY <1>1, <1>2, <1>5 DEF MaOpenFopen
  <2>4. MaOpenFopen'
    BY <1>1, <1>5, <2>1, <2>3 DEF MaOpenFopen, NewlineAtEnd
  <2> QED BY <1>1, <1>2, <1>3, <2>2, <2>4, MaOnly DEF MaSame
<1>6. ASSUME ~feof PROVE pc' = "text" /\ M!fgets /\ out' = out \o c' /\ Copy(out, pos - 1)
  <2>1. pc' = "text" /\ M!fgets /\ out' = out \o c'
    BY <1>6 DEF M!use_fopen_text, M!Goto, M!Printed
  <2>2. Copy(out, pos - 1)
    BY <1>1, <1>2, <1>6 DEF MaOpenFopen
  <2> QED BY <2>1, <2>2
<1>7. CASE ~feof /\ pos > Len(file)
  <2>1. c' = c /\ pos' = pos /\ feof' = TRUE
    BY <1>6, <1>7 DEF M!fgets, M!AtEnd
  <2>2. pos = Len(file) + 1 /\ pos - 1 = Len(file)
    BY <1>4, <1>7
  <2>3. out = file
    BY <1>4, <1>6, <1>7, <2>2, MaCopyAll
  <2>4. out' = file \o c /\ out' \in Texts1 /\ pc' = "text"
    BY <1>2, <1>4, <1>6, <1>7, <2>1, <2>3, MaJoinedTyped
  <2>5. MaTyped'
    BY <1>1, <1>2, <2>1, <2>4 DEF MaTyped, Is
  <2>6. MaOpenFopen'
    BY <1>1, <2>1, <2>4 DEF MaOpenFopen, NewlineAtEnd
  <2> QED BY <1>1, <1>2, <1>3, <2>5, <2>6, MaOnly DEF MaSame
<1>8. CASE ~feof /\ ~(pos > Len(file))
  <2>1. PICK last \in pos..Len(file) :
           /\ c' = SubSeq(file, pos, last) /\ pos' = last + 1 /\ pos \in 1..Len(file)
           /\ pos' \in 1..Len(file) + 1
           /\ feof' = (Len(c') < Buffer - 1 /\ M!Last(c') # "newline")
           /\ c' \in Texts1 /\ Len(c') = last - pos + 1 /\ Len(c') < Buffer
           /\ c'[Len(c')] = file[last] /\ M!Last(c') = file[last]
           /\ feof' => last = Len(file) /\ file[last] # "newline"
           /\ \A o \in Texts1 : Copy(o, pos - 1) => o \o c' \in Texts1 /\ Copy(o \o c', last)
    BY <1>2, <1>6, <1>8, MaFgets, Zenon
  <2>2. feof' \in BOOLEAN
    BY <2>1, Zenon
  <2>3. pc' = "text" /\ out' = out \o c' /\ out' \in Texts1 /\ Copy(out', last)
    BY <1>4, <1>6, <1>8, <2>1, Zenon
  <2>4. MaTyped'
    BY <1>1, <1>2, <2>1, <2>2, <2>3 DEF MaTyped, Is
  <2>5. pos' - 1 = last
    BY <2>1
  <2>6. Copy(out, pos - 1)'
    BY <1>1, <2>3, <2>5 DEF Copy
  <2>7. ASSUME feof' PROVE out' = file' /\ ~NewlineAtEnd'
    <3>1. last = Len(file) /\ file[last] # "newline" /\ Len(file) > 0
      BY <2>1, <2>7
    <3>2. out' = file
      BY <1>4, <2>3, <3>1, MaCopyAll, Zenon
    <3>3. file # <<>>
      BY <3>1
    <3> QED BY <1>1, <3>1, <3>2, <3>3, Zenon DEF NewlineAtEnd
  <2>8. MaOpenFopen'
    BY <2>3, <2>6, <2>7, Zenon DEF MaOpenFopen
  <2> QED BY <1>1, <1>2, <1>3, <2>4, <2>8, MaOnly DEF MaSame
<1> QED BY <1>5, <1>7, <1>8

LEMMA MaReopen ==
  ASSUME Buffer \in Nat, Buffer >= 2, MaInv, program' = program,
         \/ M!Reopen("text_end", "open_bin")
         \/ M!Reopen("open_bin_end", "fopen_bin")
         \/ M!Reopen("fopen_bin_end", "done")
  PROVE  MaInv'
<1>1. /\ pc \in {"text_end", "open_bin_end", "fopen_bin_end"}
      /\ pc' \in {"open_bin", "fopen_bin", "done"}
      /\ kind' = kind /\ file' = file /\ pos' = 1 /\ feof' = FALSE /\ out' = <<>> /\ c' = <<"y">>
  BY DEF M!Reopen, M!Goto, M!Garbage
<1>2. Is("open_fopen") /\ MaTyped
  BY <1>1 DEF MaInv, MaPlaces
<1>3. MaPlaces'
  BY <1>1, <1>2 DEF MaPlaces, M!Labels, Is
<1>4. c' \in Texts1 /\ out' \in Texts1 /\ Len(c') = 1
  BY <1>1, MaLabels, Zenon
<1>5. Len(file) \in Nat /\ Len(c') < Buffer /\ pos' \in 1..Len(file) + 1
  <2>1. Len(file) \in Nat
    BY <1>2 DEF MaTyped, Texts1
  <2> QED BY <1>1, <1>4, <2>1
<1>6. MaTyped'
  <2>1. file \in Texts1 /\ kind \in {"file", "same", "directory"} /\ (kind # "file" => Is("file"))
    BY <1>2 DEF MaTyped
  <2>2. pc' # "open" /\ Is("open_fopen")'
    BY <1>1, <1>2 DEF Is
  <2>3. kind' = "file" /\ feof' \in BOOLEAN
    BY <1>1, <1>2, <2>1 DEF Is
  <2> QED BY <1>1, <1>4, <1>5, <2>1, <2>2, <2>3, Zenon DEF MaTyped
<1>7. Copy(out, pos - 1)'
  <2>1. Len(out') = 0 /\ pos' - 1 = 0 /\ 1..0 = {}
    BY <1>1
  <2> QED BY <2>1 DEF Copy
<1>8. MaOpenFopen'
  BY <1>1, <1>7 DEF MaOpenFopen
<1> QED BY <1>1, <1>2, <1>3, <1>6, <1>8, MaOnly DEF MaSame

LEMMA MaOpenBin ==
  ASSUME Buffer \in Nat, Buffer >= 2, MaInv, program' = program, M!use_open_bin
  PROVE  MaInv'
<1>1. /\ pc = "open_bin" /\ pc' \in {"open_bin", "open_bin_end"} /\ kind' = kind /\ file' = file
      /\ feof' = feof
  BY DEF M!use_open_bin, M!Goto
<1>2. Is("open_fopen") /\ MaTyped /\ MaOpenFopen
  BY <1>1 DEF MaInv, MaPlaces
<1>3. MaPlaces'
  BY <1>1, <1>2 DEF MaPlaces, M!Labels, Is
<1>4. /\ file \in Texts1 /\ Len(file) \in Nat /\ out \in Texts1 /\ c \in Texts1 /\ pos \in 1..Len(file) + 1
      /\ ~feof /\ Copy(out, pos - 1)
  BY <1>1, <1>2 DEF MaTyped, Texts1, MaOpenFopen
<1>5. CASE pos > Len(file)
  <2>1. pc' = "open_bin_end" /\ c' = c /\ pos' = pos /\ out' = out
    BY <1>5 DEF M!use_open_bin, M!Goto, M!AtEnd
  <2>2. MaTyped'
    BY <1>1, <1>2, <2>1 DEF MaTyped, Is
  <2>3. pos - 1 = Len(file)
    BY <1>4, <1>5
  <2>4. out = file
    BY <1>4, <2>3, MaCopyAll
  <2>5. MaOpenFopen'
    BY <1>1, <1>4, <2>1, <2>4 DEF MaOpenFopen
  <2> QED BY <1>1, <1>2, <1>3, <2>2, <2>5, MaOnly DEF MaSame
<1>6. CASE ~(pos > Len(file))
  <2>1. pc' = "open_bin" /\ M!Next1 /\ out' = out \o c'
    BY <1>6 DEF M!use_open_bin, M!Goto, M!AtEnd, M!Printed
  <2>2. /\ pos \in 1..Len(file) /\ pos' = pos + 1 /\ c' = <<file[pos]>> /\ c' \in Texts1
        /\ Len(c') = 1 /\ Len(c') < Buffer /\ pos' \in 1..Len(file) + 1
    BY <1>2, <1>6, <2>1, MaNext1
  <2>3. out' \in Texts1 /\ Copy(out', pos)
    BY <1>4, <2>1, <2>2, MaCopyNext, Zenon
  <2>4. MaTyped'
    BY <1>1, <1>2, <2>1, <2>2, <2>3 DEF MaTyped, Is
  <2>5. pos' - 1 = pos
    BY <2>2
  <2>6. Copy(out, pos - 1)'
    BY <1>1, <2>3, <2>5 DEF Copy
  <2>7. MaOpenFopen'
    BY <1>1, <1>4, <2>1, <2>6 DEF MaOpenFopen
  <2> QED BY <1>1, <1>2, <1>3, <2>4, <2>7, MaOnly DEF MaSame
<1> QED BY <1>5, <1>6

LEMMA MaFopenBin ==
  ASSUME Buffer \in Nat, Buffer >= 2, MaInv, program' = program, M!use_fopen_bin
  PROVE  MaInv'
<1>1. pc = "fopen_bin" /\ pc' \in {"fopen_bin", "fopen_bin_end"} /\ kind' = kind /\ file' = file
  BY DEF M!use_fopen_bin, M!Goto
<1>2. Is("open_fopen") /\ MaTyped /\ MaOpenFopen
  BY <1>1 DEF MaInv, MaPlaces
<1>3. MaPlaces'
  BY <1>1, <1>2 DEF MaPlaces, M!Labels, Is
<1>4. /\ file \in Texts1 /\ Len(file) \in Nat /\ out \in Texts1 /\ c \in Texts1 /\ pos \in 1..Len(file) + 1
  BY <1>2 DEF MaTyped, Texts1
<1>5. CASE feof
  <2>1. pc' = "fopen_bin_end" /\ c' = c /\ pos' = pos /\ feof' = feof /\ out' = out
    BY <1>5 DEF M!use_fopen_bin, M!Goto
  <2>2. MaTyped'
    BY <1>1, <1>2, <2>1 DEF MaTyped, Is
  <2>3. out = file \o c
    BY <1>1, <1>2, <1>5 DEF MaOpenFopen
  <2>4. MaOpenFopen'
    BY <1>1, <1>5, <2>1, <2>3 DEF MaOpenFopen
  <2> QED BY <1>1, <1>2, <1>3, <2>2, <2>4, MaOnly DEF MaSame
<1>6. ASSUME ~feof PROVE Copy(out, pos - 1)
  BY <1>1, <1>2, <1>6 DEF MaOpenFopen
<1>7. CASE ~feof /\ pos > Len(file)
  <2>1. pc' = "fopen_bin" /\ c' = c /\ pos' = pos /\ feof' = TRUE /\ out' = out \o c'
    BY <1>7 DEF M!use_fopen_bin, M!Goto, M!AtEnd, M!Printed
  <2>2. pos - 1 = Len(file)
    BY <1>4, <1>7
  <2>3. out = file
    BY <1>4, <1>6, <1>7, <2>2, MaCopyAll
  <2>4. out' = file \o c /\ out' \in Texts1
    BY <1>2, <1>4, <2>1, <2>3, MaJoinedTyped
  <2>5. MaTyped'
    BY <1>1, <1>2, <2>1, <2>4 DEF MaTyped, Is
  <2>6. MaOpenFopen'
    BY <1>1, <2>1, <2>4 DEF MaOpenFopen
  <2> QED BY <1>1, <1>2, <1>3, <2>5, <2>6, MaOnly DEF MaSame
<1>8. CASE ~feof /\ ~(pos > Len(file))
  <2>1. pc' = "fopen_bin" /\ M!Next1 /\ out' = out \o c' /\ feof' = feof
    BY <1>8 DEF M!use_fopen_bin, M!Goto, M!AtEnd, M!Printed
  <2>2. /\ pos \in 1..Len(file) /\ pos' = pos + 1 /\ c' = <<file[pos]>> /\ c' \in Texts1
        /\ Len(c') = 1 /\ Len(c') < Buffer /\ pos' \in 1..Len(file) + 1
    BY <1>2, <1>8, <2>1, MaNext1
  <2>3. out' \in Texts1 /\ Copy(out', pos)
    BY <1>4, <1>6, <1>8, <2>1, <2>2, MaCopyNext, Zenon
  <2>4. MaTyped'
    BY <1>1, <1>2, <2>1, <2>2, <2>3 DEF MaTyped, Is
  <2>5. pos' - 1 = pos
    BY <2>2
  <2>6. Copy(out, pos - 1)'
    BY <1>1, <2>3, <2>5 DEF Copy
  <2>7. MaOpenFopen'
    BY <1>8, <2>1, <2>6 DEF MaOpenFopen
  <2> QED BY <1>1, <1>2, <1>3, <2>4, <2>7, MaOnly DEF MaSame
<1> QED BY <1>5, <1>7, <1>8

-----------------------------------------------------------------------------

LEMMA MaNext ==
  ASSUME Buffer \in Nat, Buffer >= 2, Disk \in Nat, MaInv, program' = program, M!Next
  PROVE  MaInv'
<1>1. CASE \/ M!Open("file", "read") \/ M!Open("fopen_readwrite", "fgetc")
           \/ M!Open("feladat", "fgets") \/ M!Open("open_fopen", "text")
  BY <1>1, MaOpen
<1>2. CASE M!Read("read", "write", "done")
  BY <1>2, MaRead
<1>3. CASE M!Write("write", "read")
  BY <1>3, MaWriteFile
<1>4. CASE M!fgetc
  BY <1>4, MaFgetc
<1>5. CASE M!fputc("fputc", "fgetc")
  BY <1>5, MaFputc
<1>6. CASE M!Fgets("fgets", "write_line")
  BY <1>6, MaFgetsLine
<1>7. CASE M!Write("write_line", "while")
  BY <1>7, MaWriteLine
<1>8. CASE /\ M!Goto("while", IF c = M!OverLine THEN "done" ELSE "fgets")
           /\ UNCHANGED <<program, kind, file, pos, feof, c, out>>
  <2>1. UNCHANGED <<kind, file, pos, feof, c, out>>
    BY <1>8
  <2> QED BY <1>8, <2>1, MaWhile
<1>9. CASE M!use_fopen_text
  BY <1>9, MaText
<1>10. CASE \/ M!Reopen("text_end", "open_bin") \/ M!Reopen("open_bin_end", "fopen_bin")
            \/ M!Reopen("fopen_bin_end", "done")
  BY <1>10, MaReopen
<1>11. CASE M!use_open_bin
  BY <1>11, MaOpenBin
<1>12. CASE M!use_fopen_bin
  BY <1>12, MaFopenBin
<1>13. M!copy \/ M!copy_stdio \/ M!feladat \/ M!open_fopen
  BY Zenon DEF M!Next
<1>14. CASE M!copy
  BY <1>1, <1>2, <1>3, <1>14, Zenon DEF M!copy
<1>15. CASE M!copy_stdio
  BY <1>1, <1>4, <1>5, <1>15, Zenon DEF M!copy_stdio
<1>16. CASE M!feladat
  BY <1>1, <1>6, <1>7, <1>8, <1>16, Zenon DEF M!feladat
<1>17. CASE M!open_fopen
  BY <1>1, <1>9, <1>10, <1>11, <1>12, <1>17, Zenon DEF M!open_fopen
<1> QED BY <1>13, <1>14, <1>15, <1>16, <1>17, Zenon

LEMMA MaStutters ==
  ASSUME MaInv, UNCHANGED <<program, pc, file, pos, masolasVars>>
  PROVE  MaInv'
<1>1. /\ program' = program /\ pc' = pc /\ file' = file /\ pos' = pos /\ kind' = kind /\ feof' = feof
      /\ c' = c /\ out' = out
  BY DEF masolasVars
<1>2. Texts1' = Texts1 /\ M!OverLine' = M!OverLine
  BY DEF Texts1, M!OverLine, M!Characters
<1>3. MaTyped' /\ MaPlaces'
  BY <1>1, <1>2, Zenon DEF MaInv, MaTyped, MaPlaces, Is, M!Labels
<1>4. Is("file")' => MaFile'
  BY <1>1, <1>2, Zenon DEF MaInv, MaFile, Copy, Is
<1>5. Is("fopen_readwrite")' => MaStdio'
  BY <1>1, <1>2, Zenon DEF MaInv, MaStdio, Copy, Is
<1>6. Is("feladat")' => MaFeladat'
  BY <1>1, <1>2, Zenon DEF MaInv, MaFeladat, Copy, Whole, Is, M!IsSuffix, M!IsPrefix, M!Reverse
<1>7. Is("open_fopen")' => MaOpenFopen'
  BY <1>1, <1>2, Zenon DEF MaInv, MaOpenFopen, Copy, NewlineAtEnd, Is
<1> QED BY <1>3, <1>4, <1>5, <1>6, <1>7, Zenon DEF MaInv

LEMMA MaTypeOK == ASSUME MaInv PROVE M!TypeOK
<1>1. MaTyped /\ MaPlaces
  BY DEF MaInv
<1>2. \A s \in Texts1 : M!ToSet(s) \subseteq M!Characters
  BY DEF M!ToSet, Texts1
<1>3. M!ToSet(c) \cup M!ToSet(out) \subseteq M!Characters
  BY <1>1, <1>2, Zenon DEF MaTyped
<1>4. pc \in M!Labels
  BY <1>1, Zenon DEF MaPlaces
<1> QED BY <1>1, <1>3, <1>4, Zenon DEF MaTyped, M!TypeOK, Is

LEMMA MaWrittenAsRead == ASSUME MaInv PROVE M!WrittenAsRead
<1>1. MaTyped /\ MaPlaces
  BY DEF MaInv
<1>2. /\ file \in Texts1 /\ Len(file) \in Nat /\ out \in Texts1 /\ c \in Texts1 /\ Len(out) \in Nat
      /\ pos \in 1..Len(file) + 1 /\ pos - 1 \in 0..Len(file)
  <2>1. file \in Texts1 /\ out \in Texts1 /\ c \in Texts1 /\ pos \in 1..Len(file) + 1
    BY <1>1 DEF MaTyped
  <2>2. Len(file) \in Nat /\ Len(out) \in Nat
    BY <2>1 DEF Texts1
  <2> QED BY <2>1, <2>2
<1>3. ASSUME Is("file"), pc = "done" PROVE kind # "directory" /\ out = file
  <2>1. kind # "directory" /\ Copy(out, pos - 1) /\ pos = Len(file) + 1
    BY <1>3 DEF MaInv, MaFile
  <2>2. pos - 1 = Len(file)
    BY <1>2, <2>1
  <2> QED BY <1>2, <2>1, <2>2, MaCopyAll
<1>4. ASSUME Is("file"), pc = "failed", kind = "file"
      PROVE  Len(out) = Disk /\ M!IsPrefix(out, file)
  <2>1. Len(out) = Disk /\ Copy(out \o c, pos - 1)
    BY <1>4 DEF MaInv, MaFile
  <2>2. Copy(out, Len(out)) /\ Len(out) <= pos - 1
    BY <1>2, <2>1, MaCopyFirst, Zenon
  <2>3. Len(out) \in 0..Len(file)
    BY <1>2, <2>2
  <2> QED BY <1>2, <2>1, <2>2, <2>3, MaCopyIs, Zenon
<1>5. ASSUME Is("fopen_readwrite")
      PROVE  /\ M!IsPrefix(out, file) /\ "0xFF" \notin M!ToSet(out)
             /\ pc = "done" => out = M!Consumed \/ Len(out) = Disk
             /\ pc = "done" => M!AtEnd \/ file[pos] = "0xFF"
  <2>1. MaStdio
    BY <1>5 DEF MaInv
  <2>2. /\ Len(out) <= pos - 1 /\ Copy(out, Len(out)) /\ \A k \in 1..Len(out) : out[k] # "0xFF"
        /\ pc = "done" => Len(out) = pos - 1 \/ Len(out) = Disk
        /\ pc = "done" => pos = Len(file) + 1 \/ file[pos] = "0xFF"
    BY <2>1 DEF MaStdio
  <2>3. Len(out) \in 0..Len(file)
    BY <1>2, <2>2
  <2>4. out = SubSeq(file, 1, Len(out)) /\ M!IsPrefix(out, file)
    BY <1>2, <2>2, <2>3, MaCopyIs, Zenon
  <2>5. "0xFF" \notin M!ToSet(out)
    BY <1>2, <2>2 DEF M!ToSet, Texts1
  <2>6. pos = Len(file) + 1 => M!AtEnd
    BY <1>2 DEF M!AtEnd
  <2>7. pc = "done" => out = M!Consumed \/ Len(out) = Disk
    BY <2>2, <2>4, Zenon DEF M!Consumed
  <2> QED BY <2>2, <2>4, <2>5, <2>6, <2>7, Zenon
<1>6. ASSUME Is("feladat"), pc = "done"
      PROVE  M!IsSuffix(M!OverLine, out) /\ out = M!Consumed
  <2>1. Copy(out, pos - 1) /\ M!IsSuffix(M!OverLine, out)
    BY <1>6 DEF MaInv, MaFeladat
  <2>2. out = SubSeq(file, 1, pos - 1)
    BY <1>2, <2>1, MaCopyIs, Zenon
  <2> QED BY <2>1, <2>2, Zenon DEF M!Consumed
<1>11. ASSUME Is("feladat"), pc = "failed"
       PROVE  Len(out) = Disk /\ (M!IsPrefix(out, file) \/ M!IsPrefix(file, out))
  <2>1. Len(out) = Disk /\ (Whole(out) \/ (Copy(out, Disk) /\ Disk <= Len(file)))
    BY <1>11 DEF MaInv, MaFeladat
  <2>2. CASE Whole(out)
    BY <1>2, <2>1, <2>2, MaWholeIs, Zenon
  <2>3. CASE Copy(out, Disk) /\ Disk <= Len(file)
    <3>1. Disk \in 0..Len(file)
      BY <1>2, <2>1, <2>3 DEF Texts1
    <3> QED BY <1>2, <2>1, <2>3, <3>1, MaCopyIs, Zenon
  <2> QED BY <2>1, <2>2, <2>3, Zenon
<1>7. ASSUME pc = "text_end"
      PROVE  /\ out \in {file, file \o c}
             /\ file = <<>> \/ M!Last(file) = "newline" => out = file \o c
  <2>1. MaOpenFopen
    BY <1>1, <1>7 DEF MaInv, MaPlaces
  <2>2. (out = file \/ out = file \o c) /\ (NewlineAtEnd => out = file \o c)
    BY <1>7, <2>1 DEF MaOpenFopen
  <2> QED BY <2>2, Zenon DEF NewlineAtEnd, M!Last
<1>8. ASSUME pc = "open_bin_end" PROVE out = file
  BY <1>1, <1>8 DEF MaInv, MaPlaces, MaOpenFopen
<1>9. ASSUME pc = "fopen_bin_end" PROVE out = file \o c
  BY <1>1, <1>9 DEF MaInv, MaPlaces, MaOpenFopen
<1>10. \A p : M!Is(p) <=> Is(p)
  BY DEF M!Is, Is
<1> QED BY <1>3, <1>4, <1>5, <1>6, <1>7, <1>8, <1>9, <1>10, <1>11, Zenon DEF M!WrittenAsRead

-----------------------------------------------------------------------------
(* All programs *)

\* One invariant for the programs of the run: struktura.c has its own, the four
\* programs of Masolas have one each.
AllomanyInv == IF Is("struktura") THEN StInv ELSE MaInv

LEMMA AllomanyInvInitially == Init => AllomanyInv
<1>1. SUFFICES ASSUME Init PROVE AllomanyInv
  OBVIOUS
<1>2. CASE Is("struktura")
  <2>1. ST!Init
    BY <1>1, <1>2, Zenon DEF Init
  <2>2. StInv
    BY <2>1, StInitially, BoundsAssumption
  <2> QED BY <1>2, <2>2, Zenon DEF AllomanyInv
<1>3. CASE ~Is("struktura")
  <2>1. M!Init
    BY <1>1, <1>3, Zenon DEF Init, Is
  <2>2. MaInv
    BY <2>1, MaInitially, BufferAssumption, DiskAssumption
  <2> QED BY <1>3, <2>2, Zenon DEF AllomanyInv
<1> QED BY <1>2, <1>3

LEMMA AllomanyInvInductive == AllomanyInv /\ [Next]_allVars => AllomanyInv'
<1>1. SUFFICES ASSUME AllomanyInv, [Next]_allVars PROVE AllomanyInv'
  OBVIOUS
<1>2. program' = program
  BY <1>1 DEF Next, allVars
<1>3. CASE Is("struktura")
  <2>1. StInv
    BY <1>1, <1>3, Zenon DEF AllomanyInv
  <2>2. ASSUME ST!Next PROVE StInv'
    BY <2>1, <2>2, StNext1, BoundsAssumption, ExpsAssumption
  <2>3. ASSUME UNCHANGED allVars PROVE StInv'
    BY <2>1, <2>3, StStutters DEF allVars
  <2>4. ST!Next \/ UNCHANGED allVars
    BY <1>1, <1>3, Zenon DEF Next
  <2>5. StInv'
    BY <2>2, <2>3, <2>4, Zenon
  <2> QED BY <1>2, <1>3, <2>5, Zenon DEF AllomanyInv, Is
<1>4. CASE ~Is("struktura")
  <2>1. MaInv
    BY <1>1, <1>4, Zenon DEF AllomanyInv
  <2>2. ASSUME M!Next PROVE MaInv'
    BY <1>2, <2>1, <2>2, MaNext, BufferAssumption, DiskAssumption
  <2>3. ASSUME UNCHANGED allVars PROVE MaInv'
    BY <2>1, <2>3, MaStutters DEF allVars
  <2>4. M!Next \/ UNCHANGED allVars
    BY <1>1, <1>4, Zenon DEF Next
  <2>5. MaInv'
    BY <2>2, <2>3, <2>4, Zenon
  <2> QED BY <1>2, <1>4, <2>5, Zenon DEF AllomanyInv, Is
<1> QED BY <1>3, <1>4

\* AllomanyInv is an invariant of the programs that work on a file.
THEOREM AllomanyInvHolds == Spec => []AllomanyInv
BY AllomanyInvInitially, AllomanyInvInductive, PTL DEF Spec

\* The texts of the five programs are of the characters they should be, positions
\* are in the file, and the file of the drivers ends with the end of a line until a
\* full disk has torn one.
THEOREM TypeCorrect == Spec => []TypeOK
<1>1. AllomanyInv => TypeOK
  BY StTypeOK, MaTypeOK, Zenon DEF AllomanyInv, TypeOK
<1> QED BY <1>1, AllomanyInvHolds, PTL

\* Over all runs of struktura.c, the ids increase in the records before the first
\* line that a full disk has torn, or that has a blank in an email or a phone; and
\* as long as there is none the next id is a new one.
THEOREM IdsIncreaseHolds == Spec => []IdsIncrease
<1>1. AllomanyInv => IdsIncrease
  BY StIdsIncrease, Zenon DEF AllomanyInv, IdsIncrease
<1> QED BY <1>1, AllomanyInvHolds, PTL

\* What is read is what was written: all fields of the records before such a line
\* by id_setup(), whatever is written after them, and a file by the loops that copy
\* or print it, up to where the disk is full.
THEOREM ReadAsWrittenHolds == Spec => []ReadAsWritten
<1>1. AllomanyInv => ReadAsWritten
  BY StReadsBack, MaWrittenAsRead, Zenon DEF AllomanyInv, ReadAsWritten
<1> QED BY <1>1, AllomanyInvHolds, PTL
=====
