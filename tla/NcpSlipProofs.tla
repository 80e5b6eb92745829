--------------------------- MODULE NcpSlipProofs ---------------------------
(***************************************************************************)
(* What slip.c makes of a frame, for frames of every length: the induction *)
(* over their bytes is made on sets of numbers, by the least element that  *)
(* a set of numbers has.                                                   *)
(***************************************************************************)
EXTENDS NcpSlip, SequenceTheorems, WellFoundedInduction, TLAPS

-----------------------------------------------------------------------------
(* Induction, and functions that are defined by recursion.                 *)

LEMMA LeastNumber ==
  ASSUME NEW T \in SUBSET Nat, T # {}
  PROVE  \E n \in T : \A m \in T : n <= m
<1> DEFINE R == OpToRel(<, Nat)
<1>1. R = {ss \in Nat \X Nat : ss[1] < ss[2]}
  BY DEF OpToRel
<1>2. IsWellFoundedOn(R, Nat)
  BY NatLessThanWellFounded
<1> HIDE DEF R
<1>3. PICK n \in T : \A m \in T : ~ (<<m, n>> \in R)
  BY <1>2, WFMin
<1>4. \A m \in T : n <= m
  <2> TAKE m \in T
  <2>1. <<m, n>> \in Nat \X Nat /\ <<m, n>>[1] = m /\ <<m, n>>[2] = n
    OBVIOUS
  <2>2. ~(m < n)
    BY <1>1, <1>3, <2>1
  <2>3. QED
    BY <2>2
<1>5. QED
  BY <1>4

LEMMA Induct ==
  ASSUME NEW S \in SUBSET Nat, 0 \in S, \A n \in S : n + 1 \in S
  PROVE  S = Nat
<1> DEFINE T == Nat \ S
<1>1. SUFFICES ASSUME T # {} PROVE FALSE
  OBVIOUS
<1>2. PICK n \in T : \A m \in T : n <= m
  BY <1>1, LeastNumber
<1>3. n # 0 /\ n - 1 \in Nat /\ n - 1 \notin T
  BY <1>2
<1>4. QED
  BY <1>2, <1>3

\* A function whose value at i comes from that at i - 1.
Ascends(f, n, S, first, next) ==
  f \in [0..n -> S] /\ f[0] = first /\ \A i \in 1..n : f[i] = next[i][f[i - 1]]

LEMMA Ascending ==
  ASSUME NEW n \in Nat, NEW S, NEW first \in S, NEW next \in [1..n -> [S -> S]]
  PROVE  \E f : Ascends(f, n, S, first, next)
<1> DEFINE Has(k) == \E f \in [0..k -> S] :
                       f[0] = first /\ \A i \in 1..k : f[i] = next[i][f[i - 1]]
           K == {k \in Nat : k <= n => Has(k)}
<1>1. 0 \in K
  <2>1. [i \in 0..0 |-> first] \in [0..0 -> S] /\ [i \in 0..0 |-> first][0] = first
    OBVIOUS
  <2>2. 1..0 = {}
    OBVIOUS
  <2>3. Has(0)
    BY <2>1, <2>2
  <2>4. QED
    BY <2>3
<1>2. ASSUME NEW k \in K PROVE k + 1 \in K
  <2> SUFFICES ASSUME k + 1 <= n PROVE Has(k + 1)
    BY <1>2
  <2>1. PICK f \in [0..k -> S] :
               f[0] = first /\ \A i \in 1..k : f[i] = next[i][f[i - 1]]
    BY <1>2
  <2> DEFINE g == [i \in 0..(k + 1) |-> IF i = k + 1 THEN next[k + 1][f[k]] ELSE f[i]]
  <2>2. next[k + 1][f[k]] \in S
    <3>1. k + 1 \in 1..n /\ f[k] \in S
      BY <2>1
    <3>2. QED
      BY <3>1
  <2>3. g \in [0..(k + 1) -> S]
    BY <2>1, <2>2
  <2>4. g[0] = first /\ g[k + 1] = next[k + 1][g[k]] /\ \A i \in 0..k : g[i] = f[i]
    BY <2>1
  <2> HIDE DEF g
  <2>5. ASSUME NEW i \in 1..(k + 1) PROVE g[i] = next[i][g[i - 1]]
    <3>1. CASE i = k + 1
      <4>1. i - 1 = k
        BY <3>1
      <4>2. QED
        BY <2>4, <3>1, <4>1
    <3>2. CASE i # k + 1
      <4>1. i \in 1..k /\ i \in 0..k /\ i - 1 \in 0..k
        BY <3>2
      <4>2. QED
        BY <2>1, <2>4, <4>1
    <3>3. QED
      BY <3>1, <3>2
  <2>6. QED
    BY <2>3, <2>4, <2>5
<1>3. K = Nat
  <2> HIDE DEF Has
  <2>1. K \in SUBSET Nat
    OBVIOUS
  <2>2. QED
    BY <1>1, <1>2, <2>1, Induct
<1>4. Has(n)
  <2> HIDE DEF Has
  <2>1. n \in K
    BY <1>3
  <2>2. QED
    BY <2>1
<1>5. QED
  BY <1>4 DEF Ascends

\* A function whose value at i comes from those at i + 1 and i + 2.
Descends(f, n, S, last, next) ==
  /\ f \in [1..(n + 1) -> S] /\ f[n + 1] = last
  /\ \A i \in 1..n : f[i] = next[i][f[i + 1]][IF i = n THEN last ELSE f[i + 2]]

LEMMA Descending ==
  ASSUME NEW n \in Nat, NEW S, NEW last \in S, NEW next \in [1..n -> [S -> [S -> S]]]
  PROVE  \E f : Descends(f, n, S, last, next)
<1> DEFINE Step(f, i) == f[i] = next[i][f[i + 1]][IF i = n THEN last ELSE f[i + 2]]
           Has(k) == \E f \in [(n + 1 - k)..(n + 1) -> S] :
                       f[n + 1] = last /\ \A i \in (n + 1 - k)..n : Step(f, i)
           K == {k \in Nat : k <= n => Has(k)}
<1>1. 0 \in K
  <2>1. /\ [i \in (n + 1)..(n + 1) |-> last] \in [(n + 1)..(n + 1) -> S]
        /\ [i \in (n + 1)..(n + 1) |-> last][n + 1] = last
    OBVIOUS
  <2>2. n + 1 - 0 = n + 1 /\ (n + 1)..n = {}
    OBVIOUS
  <2>3. QED
    BY <2>1, <2>2
<1>2. ASSUME NEW k \in K PROVE k + 1 \in K
  <2> HIDE DEF Has
  <2> SUFFICES ASSUME k + 1 <= n PROVE Has(k + 1)
    BY <1>2
  <2>0. Has(k)
    BY <1>2
  <2> USE DEF Has
  <2>1. PICK f \in [(n + 1 - k)..(n + 1) -> S] :
               f[n + 1] = last /\ \A i \in (n + 1 - k)..n : Step(f, i)
    <3> HIDE DEF Step
    <3>1. QED
      BY <2>0
  <2> DEFINE m == n - k
             v == next[m][f[m + 1]][IF m = n THEN last ELSE f[m + 2]]
             g == [i \in m..(n + 1) |-> IF i = m THEN v ELSE f[i]]
  <2>2. m \in 1..n /\ n + 1 - k = m + 1 /\ n + 1 - (k + 1) = m
    OBVIOUS
  <2> HIDE DEF m
  <2>3. f \in [(m + 1)..(n + 1) -> S] /\ f[n + 1] = last /\ \A i \in (m + 1)..n : Step(f, i)
    BY <2>1, <2>2
  <2> DEFINE two == IF m = n THEN last ELSE f[m + 2]
  <2>4. f[m + 1] \in S /\ two \in S
    BY <2>2, <2>3
  <2>5. v \in S
    <3>1. next[m] \in [S -> [S -> S]] /\ next[m][f[m + 1]] \in [S -> S]
      BY <2>2, <2>4
    <3>2. next[m][f[m + 1]][two] \in S
      <4> HIDE DEF two
      <4>1. QED
        BY <2>4, <3>1
    <3>3. QED
      BY <3>2
  <2>6. v = next[m][f[m + 1]][two]
    OBVIOUS
  <2> HIDE DEF v
  <2>7. g \in [m..(n + 1) -> S] /\ g[m] = v /\ \A i \in (m + 1)..(n + 1) : g[i] = f[i]
    BY <2>2, <2>3, <2>5
  <2> HIDE DEF g
  <2>8. g[n + 1] = last
    BY <2>2, <2>3, <2>7
  <2>9. ASSUME NEW i \in m..n PROVE Step(g, i)
    <3>1. g[i + 1] = f[i + 1] /\ (i # n => g[i + 2] = f[i + 2])
      BY <2>2, <2>7
    <3>2. (IF i = n THEN last ELSE g[i + 2]) = (IF i = n THEN last ELSE f[i + 2])
      BY <3>1
    <3>3. CASE i = m
      BY <2>6, <2>7, <3>1, <3>2, <3>3
    <3>4. CASE i # m
      <4>1. i \in (m + 1)..n /\ i \in (m + 1)..(n + 1)
        BY <2>2, <3>4
      <4>2. QED
        BY <2>3, <2>7, <3>1, <3>2, <4>1
    <3>5. QED
      BY <3>3, <3>4
  <2>10. QED
    BY <2>2, <2>7, <2>8, <2>9
<1>3. K = Nat
  <2> HIDE DEF Has
  <2>1. K \in SUBSET Nat
    OBVIOUS
  <2>2. QED
    BY <1>1, <1>2, <2>1, Induct
<1>4. Has(n)
  <2> HIDE DEF Has
  <2>1. n \in K
    BY <1>3
  <2>2. QED
    BY <2>1
<1>5. n + 1 - n = 1
  OBVIOUS
<1>6. QED
  BY <1>4, <1>5 DEF Descends

-----------------------------------------------------------------------------
(* slip_encode.                                                            *)

\* A frame behind its flags, however long.
SlipFrame(f) == f \in Seq(Bytes) /\ Len(f) >= 2 /\ f[1] = Other /\ f[2] = Other

\* What the loop of slip_encode has sent before each byte.
Sends(f, E) == /\ E \in [0..Len(f) -> Seq(Bytes)] /\ E[0] = <<SLIP_END>>
               /\ \A i \in 1..Len(f) : E[i] = E[i - 1] \o Escape(f[i])

LEMMA EncodeUnfolds ==
  ASSUME NEW f
  PROVE  LET cap == Capacity(f)
             body(e) == [i \in 0..Len(f) |->
                           IF i = 0 THEN StreamSend(<<>>, <<SLIP_END>>, cap)
                           ELSE StreamSend(e[i - 1], Escape(f[i]), cap)]
             enc == CHOOSE e : e = body(e)
         IN  slip_encode(f) = StreamSend(enc[Len(f)], <<SLIP_END>>, cap)
BY DEF slip_encode

LEMMA DecodeUnfolds ==
  ASSUME NEW w
  PROVE  LET n == Len(w)
             body(d) == [i \in 1..(n + 1) |->
               CASE i = n + 1          -> <<>>
                 [] i <= n /\ w[i] = SLIP_END -> IF i = n THEN <<>> ELSE d[i + 1]
                 [] i < n /\ w[i] = SLIP_ESC  -> <<Unescape(w[i + 1])>> \o d[i + 2]
                 [] OTHER              -> IF i = n THEN <<>> ELSE <<w[i]>> \o d[i + 1]]
             dec == CHOOSE d : d = body(d)
         IN  slip_decode(w) = dec[1]
BY DEF slip_decode

LEMMA EscapeOf ==
  ASSUME NEW c \in Bytes
  PROVE  /\ c = SLIP_END => Escape(c) = <<SLIP_ESC, SLIP_ESC_END>>
         /\ c = SLIP_ESC => Escape(c) = <<SLIP_ESC, SLIP_ESC_ESC>>
         /\ c \notin {SLIP_END, SLIP_ESC} => Escape(c) = <<c>>
<1>1. SLIP_END # SLIP_ESC
  BY SlipAssumption
<1>2. CASE c = SLIP_END
  BY <1>1, <1>2 DEF Escape
<1>3. CASE c = SLIP_ESC
  BY <1>1, <1>3 DEF Escape
<1>4. CASE c \notin {SLIP_END, SLIP_ESC}
  BY <1>4 DEF Escape
<1>5. QED
  BY <1>1, <1>2, <1>3, <1>4

LEMMA EscapeType ==
  ASSUME NEW c \in Bytes
  PROVE  /\ Escape(c) \in Seq(Bytes) /\ Len(Escape(c)) \in {1, 2}
         /\ \A k \in 1..Len(Escape(c)) : Escape(c)[k] # SLIP_END
         /\ c = Other => Len(Escape(c)) = 1
<1>0. {SLIP_END, SLIP_ESC, SLIP_ESC_END, SLIP_ESC_ESC, c} \subseteq Bytes
  BY DEF Bytes
<1>1. CASE c = SLIP_END
  <2>1. Escape(c) = <<SLIP_ESC, SLIP_ESC_END>> /\ c # Other
    BY <1>1, EscapeOf, SlipAssumption
  <2>2. Len(Escape(c)) = 2 /\ Escape(c)[1] = SLIP_ESC /\ Escape(c)[2] = SLIP_ESC_END
    BY <2>1
  <2>3. Escape(c) \in Seq(Bytes)
    BY <1>0, <2>1
  <2>4. QED
    BY <2>1, <2>2, <2>3, SlipAssumption
<1>2. CASE c = SLIP_ESC
  <2>1. Escape(c) = <<SLIP_ESC, SLIP_ESC_ESC>> /\ c # Other
    BY <1>2, EscapeOf, SlipAssumption
  <2>2. Len(Escape(c)) = 2 /\ Escape(c)[1] = SLIP_ESC /\ Escape(c)[2] = SLIP_ESC_ESC
    BY <2>1
  <2>3. Escape(c) \in Seq(Bytes)
    BY <1>0, <2>1
  <2>4. QED
    BY <2>1, <2>2, <2>3, SlipAssumption
<1>3. CASE c \notin {SLIP_END, SLIP_ESC}
  <2>1. Escape(c) = <<c>>
    BY <1>3, EscapeOf
  <2>2. Len(Escape(c)) = 1 /\ Escape(c)[1] = c /\ Escape(c) \in Seq(Bytes)
    BY <2>1
  <2>3. QED
    BY <1>3, <2>2
<1>4. QED
  BY <1>1, <1>2, <1>3

\* The stream buffer takes bytes, and all of them while they fit.
LEMMA StreamTakes ==
  ASSUME NEW buf \in Seq(Bytes), NEW s \in Seq(Bytes), NEW cap \in Nat
  PROVE  /\ StreamSend(buf, s, cap) \in Seq(Bytes)
         /\ Len(buf) + Len(s) <= cap => StreamSend(buf, s, cap) = buf \o s
<1> DEFINE t == buf \o s
           m == IF Len(t) < cap THEN Len(t) ELSE cap
<1>1. t \in Seq(Bytes) /\ Len(t) = Len(buf) + Len(s) /\ Len(t) \in Nat
  OBVIOUS
<1>2. StreamSend(buf, s, cap) = SubSeq(t, 1, m)
  BY DEF StreamSend
<1>3. m \in 0..Len(t)
  BY <1>1
<1>4. Len(buf) + Len(s) <= cap => m = Len(t)
  BY <1>1
<1> HIDE DEF t, m
<1>5. SubSeq(t, 1, m) \in Seq(Bytes)
  <2>1. \A i \in 1..m : t[i] \in Bytes
    BY <1>1, <1>3
  <2>2. QED
    BY <1>1, <1>3, <2>1
<1>6. m = Len(t) => SubSeq(t, 1, m) = t
  BY <1>1
<1>7. QED
  BY <1>2, <1>4, <1>5, <1>6 DEF t

\* The function of slip_encode: it is there, and says what it says.
LEMMA EncodeRuns ==
  ASSUME NEW f \in Seq(Bytes), NEW cap \in Nat
  PROVE  LET body(e) == [i \in 0..Len(f) |->
                           IF i = 0 THEN StreamSend(<<>>, <<SLIP_END>>, cap)
                           ELSE StreamSend(e[i - 1], Escape(f[i]), cap)]
             enc == CHOOSE e : e = body(e)
         IN  /\ enc[0] = StreamSend(<<>>, <<SLIP_END>>, cap)
             /\ \A i \in 1..Len(f) : enc[i] = StreamSend(enc[i - 1], Escape(f[i]), cap)
<1> DEFINE n == Len(f)
           S == Seq(Bytes)
           body(e) == [i \in 0..n |->
                         IF i = 0 THEN StreamSend(<<>>, <<SLIP_END>>, cap)
                         ELSE StreamSend(e[i - 1], Escape(f[i]), cap)]
           enc == CHOOSE e : e = body(e)
           first == StreamSend(<<>>, <<SLIP_END>>, cap)
           next == [i \in 1..n |-> [s \in S |-> StreamSend(s, Escape(f[i]), cap)]]
<1>1. n \in Nat /\ \A i \in 1..n : f[i] \in Bytes
  OBVIOUS
<1>2. first \in S
  <2>1. <<>> \in S /\ <<SLIP_END>> \in S
    BY DEF Bytes
  <2>2. QED
    BY <2>1, StreamTakes
<1>3. next \in [1..n -> [S -> S]]
  <2>1. ASSUME NEW i \in 1..n, NEW s \in S PROVE StreamSend(s, Escape(f[i]), cap) \in S
    <3>1. f[i] \in Bytes
      BY <1>1
    <3>2. QED
      BY <3>1, EscapeType, StreamTakes
  <2>2. QED
    BY <2>1
<1>4. PICK e \in [0..n -> S] : e[0] = first /\ \A i \in 1..n : e[i] = next[i][e[i - 1]]
  <2> HIDE DEF first, next, S, n
  <2>1. n \in Nat
    BY <1>1
  <2>2. \E g : Ascends(g, n, S, first, next)
    BY <2>1, <1>2, <1>3, Ascending
  <2>3. QED
    BY <2>2 DEF Ascends
<1>5. \A i \in 1..n : e[i] = StreamSend(e[i - 1], Escape(f[i]), cap)
  <2>1. ASSUME NEW i \in 1..n PROVE e[i] = StreamSend(e[i - 1], Escape(f[i]), cap)
    <3>1. i - 1 \in 0..n
      BY <1>1
    <3>2. e[i - 1] \in S
      BY <1>4, <3>1
    <3>3. next[i][e[i - 1]] = StreamSend(e[i - 1], Escape(f[i]), cap)
      BY <3>2
    <3>4. QED
      BY <1>4, <3>3
  <2>2. QED
    BY <2>1
<1>6. e = body(e)
  <2>1. \A i \in 0..n : e[i] = IF i = 0 THEN first ELSE StreamSend(e[i - 1], Escape(f[i]), cap)
    <3> HIDE DEF first
    <3>1. \A i \in 0..n : i = 0 \/ i \in 1..n
      BY <1>1
    <3>2. QED
      BY <1>4, <1>5, <3>1
  <2>2. QED
    BY <1>4, <2>1
<1>7. enc = body(enc)
  <2> HIDE DEF body
  <2>1. QED
    BY <1>6
<1> HIDE DEF enc
<1>8. 0 \in 0..n /\ \A i \in 1..n : i \in 0..n /\ i # 0
  BY <1>1
<1>9. /\ enc[0] = first
      /\ \A i \in 1..n : enc[i] = StreamSend(enc[i - 1], Escape(f[i]), cap)
  BY <1>7, <1>8
<1>10. QED
  BY <1>9 DEF enc

LEMMA EncodeIs ==
  ASSUME NEW f \in Seq(Bytes)
  PROVE  \E e : /\ e[0] = StreamSend(<<>>, <<SLIP_END>>, Capacity(f))
                /\ \A i \in 1..Len(f) : e[i] = StreamSend(e[i - 1], Escape(f[i]), Capacity(f))
                /\ slip_encode(f) = StreamSend(e[Len(f)], <<SLIP_END>>, Capacity(f))
<1>1. Capacity(f) \in Nat
  BY DEF Capacity
<1> DEFINE cap == Capacity(f)
           body(e) == [i \in 0..Len(f) |->
                         IF i = 0 THEN StreamSend(<<>>, <<SLIP_END>>, cap)
                         ELSE StreamSend(e[i - 1], Escape(f[i]), cap)]
           enc == CHOOSE e : e = body(e)
<1>2. slip_encode(f) = StreamSend(enc[Len(f)], <<SLIP_END>>, cap)
  BY EncodeUnfolds
<1>3. /\ enc[0] = StreamSend(<<>>, <<SLIP_END>>, cap)
      /\ \A i \in 1..Len(f) : enc[i] = StreamSend(enc[i - 1], Escape(f[i]), cap)
  BY <1>1, EncodeRuns
<1> HIDE DEF enc
<1>4. QED
  BY <1>2, <1>3

\* A stream buffer of twice the length is enough, for the flags need no escape:
\* nothing is dropped.
LEMMA Encoded ==
  ASSUME NEW f, SlipFrame(f)
  PROVE  \E E : Sends(f, E) /\ slip_encode(f) = E[Len(f)] \o <<SLIP_END>>
<1> DEFINE n == Len(f)
           cap == Capacity(f)
<1>1. /\ f \in Seq(Bytes) /\ n \in Nat /\ n >= 2 /\ f[1] = Other /\ f[2] = Other
      /\ \A i \in 1..n : f[i] \in Bytes
  BY DEF SlipFrame
<1>2. cap = 2 * n /\ cap \in Nat
  BY <1>1 DEF Capacity
<1>3. PICK e : /\ e[0] = StreamSend(<<>>, <<SLIP_END>>, cap)
               /\ \A i \in 1..n : e[i] = StreamSend(e[i - 1], Escape(f[i]), cap)
               /\ slip_encode(f) = StreamSend(e[n], <<SLIP_END>>, cap)
  BY <1>1, EncodeIs
<1>4. <<SLIP_END>> \in Seq(Bytes) /\ Len(<<SLIP_END>>) = 1
  BY DEF Bytes
<1> HIDE DEF n, cap
<1> DEFINE Fits(i) == /\ e[i] \in Seq(Bytes) /\ Len(e[i]) <= 2 * i + 1
                      /\ i >= 1 => Len(e[i]) <= 2 * i /\ e[i] = e[i - 1] \o Escape(f[i])
                      /\ i >= 2 => Len(e[i]) <= 2 * i - 1
           K == {i \in Nat : i <= n => Fits(i)}
<1>5. Fits(0) /\ e[0] = <<SLIP_END>>
  <2>1. <<>> \in Seq(Bytes) /\ Len(<<>>) = 0 /\ Len(<<>>) + Len(<<SLIP_END>>) <= cap
    BY <1>1, <1>2, <1>4
  <2>2. e[0] = <<>> \o <<SLIP_END>>
    BY <1>2, <1>3, <1>4, <2>1, StreamTakes
  <2>3. e[0] = <<SLIP_END>>
    BY <1>4, <2>2
  <2>4. QED
    BY <1>4, <2>3
<1>6. ASSUME NEW i \in Nat, Fits(i), i + 1 <= n PROVE Fits(i + 1)
  <2> DEFINE c == f[i + 1]
             j == i + 1
  <2>1. i + 1 \in 1..n /\ c \in Bytes /\ (i < 2 => c = Other)
    BY <1>1, <1>6
  <2> HIDE DEF c
  <2>2. /\ Escape(c) \in Seq(Bytes) /\ Len(Escape(c)) \in {1, 2}
        /\ c = Other => Len(Escape(c)) = 1
    BY <2>1, EscapeType
  <2> DEFINE a == Len(e[i])
             b == Len(Escape(c))
  <2>3. e[i] \in Seq(Bytes) /\ a \in Nat /\ b \in {1, 2} /\ i \in Nat /\ n \in Nat
    BY <1>1, <1>6, <2>2
  <2>4. /\ a <= 2 * i + 1 /\ (i >= 1 => a <= 2 * i) /\ (i >= 2 => a <= 2 * i - 1)
        /\ i + 1 <= n /\ n >= 2 /\ cap = 2 * n /\ (i < 2 => b = 1)
    BY <1>1, <1>2, <1>6, <2>1, <2>2
  <2> HIDE DEF a, b, Fits
  <2>5. a + b <= cap
    BY ONLY <2>3, <2>4
  <2>6. e[i + 1] = StreamSend(e[i], Escape(c), cap)
    <3>1. (i + 1) - 1 = i
      OBVIOUS
    <3>2. QED
      BY <1>3, <2>1, <3>1 DEF c
  <2>7. e[i + 1] = e[i] \o Escape(c)
    BY <1>2, <2>2, <2>3, <2>5, <2>6, StreamTakes DEF a, b
  <2>8. e[i + 1] \in Seq(Bytes) /\ Len(e[i + 1]) = a + b
    BY <2>2, <2>3, <2>7 DEF a, b
  <2>9. i + 1 >= 1 => Len(e[i + 1]) <= 2 * (i + 1) /\ e[i + 1] = e[(i + 1) - 1] \o Escape(f[i + 1])
    <3>1. (i + 1) - 1 = i
      OBVIOUS
    <3>2. a + b <= 2 * (i + 1)
      BY ONLY <2>3, <2>4
    <3>3. QED
      BY <2>7, <2>8, <3>1, <3>2 DEF c
  <2>10. Len(e[i + 1]) <= 2 * (i + 1) + 1
    BY ONLY <2>3, <2>4, <2>8
  <2>11. i + 1 >= 2 => Len(e[i + 1]) <= 2 * (i + 1) - 1
    BY ONLY <2>3, <2>4, <2>8
  <2>12. QED
    BY <2>8, <2>9, <2>10, <2>11 DEF Fits
<1>7. K = Nat
  <2> HIDE DEF Fits
  <2>1. K \in SUBSET Nat /\ 0 \in K
    BY <1>5
  <2>2. ASSUME NEW i \in K PROVE i + 1 \in K
    BY <1>1, <1>6, <2>2
  <2>3. QED
    BY <2>1, <2>2, Induct
<1>8. \A i \in 0..n : Fits(i)
  <2> HIDE DEF Fits
  <2>1. QED
    BY <1>1, <1>7
<1> DEFINE E == [i \in 0..n |-> e[i]]
<1>9. E \in [0..n -> Seq(Bytes)] /\ E[0] = <<SLIP_END>>
  <2>1. \A i \in 0..n : e[i] \in Seq(Bytes)
    BY <1>8
  <2>2. 0 \in 0..n
    BY <1>1
  <2>3. QED
    BY <1>5, <2>1, <2>2
<1>10. \A i \in 1..n : E[i] = E[i - 1] \o Escape(f[i])
  <2>1. \A i \in 1..n : i \in 0..n /\ i - 1 \in 0..n /\ i >= 1
    BY <1>1
  <2>2. QED
    BY <1>8, <2>1
<1>11. slip_encode(f) = E[n] \o <<SLIP_END>>
  <2>0. n \in 0..n
    BY <1>1
  <2>1. e[n] \in Seq(Bytes) /\ Len(e[n]) <= 2 * n - 1 /\ E[n] = e[n]
    BY <1>1, <1>8, <2>0
  <2>2. Len(e[n]) + Len(<<SLIP_END>>) <= cap
    <3>1. Len(e[n]) \in Nat
      BY <2>1
    <3>2. QED
      BY ONLY <1>1, <1>2, <1>4, <2>1, <3>1
  <2>3. StreamSend(e[n], <<SLIP_END>>, cap) = e[n] \o <<SLIP_END>>
    BY <1>2, <1>4, <2>1, <2>2, StreamTakes
  <2>4. QED
    BY <1>3, <2>1, <2>3
<1> HIDE DEF E
<1>12. QED
  BY <1>9, <1>10, <1>11 DEF Sends, n

\* What one pass of the loop adds.
OneMore(f, E, i) ==
  /\ f[i + 1] \in Bytes /\ E[i] \in Seq(Bytes)
  /\ E[i + 1] \in Seq(Bytes) /\ Len(E[i + 1]) = Len(E[i]) + Len(Escape(f[i + 1]))
  /\ \A k \in 1..Len(E[i]) : E[i + 1][k] = E[i][k]
  /\ \A m \in 1..Len(Escape(f[i + 1])) : E[i + 1][Len(E[i]) + m] = Escape(f[i + 1])[m]

LEMMA SendsOne ==
  ASSUME NEW f \in Seq(Bytes), NEW E, Sends(f, E), NEW i \in Nat, i + 1 <= Len(f)
  PROVE  OneMore(f, E, i)
<1> DEFINE c == f[i + 1]
           s == Escape(c)
<1>1. i + 1 \in 1..Len(f) /\ i \in 0..Len(f) /\ i + 1 \in 0..Len(f) /\ (i + 1) - 1 = i
  OBVIOUS
<1>2. c \in Bytes
  BY <1>1
<1>3. E[i] \in Seq(Bytes) /\ E[i + 1] = E[i] \o s
  BY <1>1 DEF Sends
<1>4. s \in Seq(Bytes)
  BY <1>2, EscapeType
<1> HIDE DEF c, s
<1>5. /\ E[i + 1] \in Seq(Bytes) /\ Len(E[i + 1]) = Len(E[i]) + Len(s)
      /\ \A k \in 1..Len(E[i]) : E[i + 1][k] = E[i][k]
      /\ \A m \in 1..Len(s) : E[i + 1][Len(E[i]) + m] = s[m]
  BY <1>3, <1>4
<1>6. QED
  BY <1>2, <1>3, <1>5 DEF c, s, OneMore

\* The first byte is an END and no other is.
LEMMA SendsNoEnd ==
  ASSUME NEW f \in Seq(Bytes), NEW E, Sends(f, E), NEW i \in 0..Len(f)
  PROVE  /\ E[i] \in Seq(Bytes) /\ Len(E[i]) >= 1
         /\ \A k \in 1..Len(E[i]) : E[i][k] = SLIP_END <=> k = 1
<1> DEFINE Ends(j) == /\ E[j] \in Seq(Bytes) /\ Len(E[j]) >= 1
                      /\ \A k \in 1..Len(E[j]) : E[j][k] = SLIP_END <=> k = 1
           K == {j \in Nat : j <= Len(f) => Ends(j)}
<1>1. Ends(0)
  <2>1. E[0] = <<SLIP_END>>
    BY DEF Sends
  <2>2. E[0] \in Seq(Bytes) /\ Len(E[0]) = 1 /\ E[0][1] = SLIP_END
    BY <2>1 DEF Bytes
  <2>3. QED
    BY <2>2
<1>2. ASSUME NEW j \in Nat, Ends(j), j + 1 <= Len(f) PROVE Ends(j + 1)
  <2> DEFINE c == f[j + 1]
             a == Len(E[j])
             b == Len(Escape(c))
  <2>1. /\ c \in Bytes /\ E[j + 1] \in Seq(Bytes) /\ Len(E[j + 1]) = a + b
        /\ \A k \in 1..a : E[j + 1][k] = E[j][k]
        /\ \A m \in 1..b : E[j + 1][a + m] = Escape(c)[m]
    <3>1. OneMore(f, E, j)
      <4> HIDE DEF Ends
      <4>1. QED
        BY <1>2, SendsOne
    <3>2. QED
      BY <3>1 DEF OneMore
  <2>2. a \in Nat /\ a >= 1 /\ \A k \in 1..a : E[j][k] = SLIP_END <=> k = 1
    BY <1>2
  <2> HIDE DEF c, a
  <2>3. b \in {1, 2} /\ \A m \in 1..b : Escape(c)[m] # SLIP_END
    BY <2>1, EscapeType
  <2> HIDE DEF b
  <2>4. ASSUME NEW k \in 1..(a + b) PROVE E[j + 1][k] = SLIP_END <=> k = 1
    <3>1. CASE k <= a
      BY <2>1, <2>2, <3>1
    <3>2. CASE k > a
      <4>1. k - a \in 1..b /\ a + (k - a) = k
        BY <2>2, <2>3, <3>2
      <4>2. E[j + 1][a + (k - a)] # SLIP_END
        BY <2>1, <2>3, <4>1
      <4>3. QED
        BY <2>2, <3>2, <4>1, <4>2
    <3>3. QED
      BY <2>2, <3>1, <3>2
  <2>5. Len(E[j + 1]) >= 1
    BY <2>1, <2>2, <2>3
  <2>6. QED
    BY <2>1, <2>4, <2>5
<1>3. K = Nat
  <2> HIDE DEF Ends
  <2>1. K \in SUBSET Nat /\ 0 \in K
    BY <1>1
  <2>2. ASSUME NEW j \in K PROVE j + 1 \in K
    BY <1>2, <2>2
  <2>3. QED
    BY <2>1, <2>2, Induct
<1>4. Ends(i)
  <2> HIDE DEF Ends
  <2>1. i \in Nat /\ i <= Len(f)
    OBVIOUS
  <2>2. QED
    BY <1>3, <2>1
<1>5. QED
  BY <1>4

Grows(E, j, i) ==
  Len(E[j]) <= Len(E[i]) /\ \A k \in 1..Len(E[j]) : E[i][k] = E[j][k]

\* What is sent stays sent.
LEMMA SendsMore ==
  ASSUME NEW f \in Seq(Bytes), NEW E, Sends(f, E), NEW j \in 0..Len(f), NEW i \in j..Len(f)
  PROVE  Grows(E, j, i)
<1> DEFINE More(m) == Len(E[j]) <= Len(E[m]) /\ \A k \in 1..Len(E[j]) : E[m][k] = E[j][k]
           K == {d \in Nat : j + d <= Len(f) => More(j + d)}
<1>1. j \in Nat /\ Len(f) \in Nat /\ i \in Nat
  OBVIOUS
<1>2. Len(E[j]) \in Nat
  BY SendsNoEnd
<1>3. 0 \in K
  <2>1. j + 0 = j
    BY <1>1
  <2>2. More(j)
    BY <1>2
  <2> HIDE DEF More
  <2>3. QED
    BY <2>1, <2>2
<1>4. ASSUME NEW m \in Nat, j <= m, m + 1 <= Len(f), More(m) PROVE More(m + 1)
  <2>1. /\ E[m] \in Seq(Bytes) /\ Len(E[m + 1]) = Len(E[m]) + Len(Escape(f[m + 1]))
        /\ \A k \in 1..Len(E[m]) : E[m + 1][k] = E[m][k]
        /\ f[m + 1] \in Bytes
    <3>1. OneMore(f, E, m)
      <4> HIDE DEF More
      <4>1. QED
        BY <1>4, SendsOne
    <3>2. QED
      BY <3>1 DEF OneMore
  <2>2. Len(Escape(f[m + 1])) \in {1, 2}
    BY <2>1, EscapeType
  <2>3. Len(E[m]) \in Nat
    BY <2>1
  <2> DEFINE a == Len(E[j])
             b == Len(E[m])
             c == Len(E[m + 1])
  <2>4. a \in Nat /\ b \in Nat /\ a <= b /\ c \in Nat /\ b <= c
    <3> DEFINE d == Len(Escape(f[m + 1]))
    <3>1. a \in Nat /\ b \in Nat /\ a <= b /\ c = b + d
      BY <1>2, <1>4, <2>1, <2>3
    <3>2. d \in {1, 2}
      BY <2>2
    <3> HIDE DEF a, b, c, d
    <3>3. QED
      BY <3>1, <3>2
  <2>5. /\ \A k \in 1..a : E[m][k] = E[j][k]
        /\ \A k \in 1..b : E[m + 1][k] = E[m][k]
    BY <1>4, <2>1
  <2> HIDE DEF a, b, c
  <2>6. \A k \in 1..a : k \in 1..b
    BY <2>4
  <2>7. a <= c /\ \A k \in 1..a : E[m + 1][k] = E[j][k]
    BY <2>4, <2>5, <2>6
  <2>8. QED
    BY <2>7 DEF a, c
<1>5. K = Nat
  <2> HIDE DEF More
  <2>1. ASSUME NEW d \in K PROVE d + 1 \in K
    <3> DEFINE m == j + d
    <3>1. m \in Nat /\ j <= m /\ j + (d + 1) = m + 1
      BY <1>1
    <3>2. m + 1 <= Len(f) => More(m)
      BY <1>1, <2>1
    <3>3. j + (d + 1) <= Len(f) => More(j + (d + 1))
      BY <1>4, <3>1, <3>2
    <3>4. QED
      BY <3>3
  <2>2. K \in SUBSET Nat
    OBVIOUS
  <2>3. QED
    BY <1>3, <2>1, <2>2, Induct
<1>6. More(i)
  <2> HIDE DEF More
  <2>1. i - j \in Nat /\ j + (i - j) = i /\ i <= Len(f)
    BY <1>1
  <2>2. i - j \in K
    BY <1>5, <2>1
  <2>3. QED
    BY <2>1, <2>2
<1>7. QED
  BY <1>6 DEF Grows

\* The wire of a frame: the ENDs are the first byte and the last.
LEMMA WireEnds ==
  ASSUME NEW f, SlipFrame(f)
  PROVE  LET wire == slip_encode(f) IN
         /\ wire \in Seq(Bytes) /\ Len(wire) >= 2
         /\ \A k \in DOMAIN wire : wire[k] = SLIP_END <=> k \in {1, Len(wire)}
<1> DEFINE wire == slip_encode(f)
<1>1. PICK E : Sends(f, E) /\ wire = E[Len(f)] \o <<SLIP_END>>
  BY Encoded
<1> HIDE DEF wire
<1> DEFINE s == E[Len(f)]
<1>2. f \in Seq(Bytes) /\ Len(f) \in 0..Len(f)
  BY DEF SlipFrame
<1>3. s \in Seq(Bytes) /\ Len(s) >= 1 /\ \A k \in 1..Len(s) : s[k] = SLIP_END <=> k = 1
  BY <1>1, <1>2, SendsNoEnd
<1> HIDE DEF s
<1>4. <<SLIP_END>> \in Seq(Bytes)
  BY DEF Bytes
<1>5. wire = s \o <<SLIP_END>>
  BY <1>1 DEF s
<1>6. /\ wire \in Seq(Bytes) /\ Len(wire) = Len(s) + 1 /\ DOMAIN wire = 1..(Len(s) + 1)
      /\ wire[Len(s) + 1] = SLIP_END /\ \A k \in 1..Len(s) : wire[k] = s[k]
      /\ Len(s) \in Nat
  BY <1>3, <1>4, <1>5
<1>7. ASSUME NEW k \in DOMAIN wire PROVE wire[k] = SLIP_END <=> k \in {1, Len(wire)}
  <2>1. k \in 1..Len(s) \/ k = Len(s) + 1
    BY <1>6
  <2>2. QED
    BY <1>3, <1>6, <2>1
<1>8. QED
  BY <1>3, <1>6, <1>7 DEF wire

-----------------------------------------------------------------------------
(* slip_decode.                                                            *)

\* What the loop of slip_decode stores from each byte on.
Stores(w, D) ==
  /\ D \in [1..(Len(w) + 1) -> Seq(Bytes)] /\ D[Len(w) + 1] = <<>>
  /\ \A i \in 1..Len(w) :
       /\ w[i] = SLIP_END => D[i] = IF i = Len(w) THEN <<>> ELSE D[i + 1]
       /\ w[i] = SLIP_ESC /\ i < Len(w) => D[i] = <<Unescape(w[i + 1])>> \o D[i + 2]
       /\ w[i] \notin {SLIP_END, SLIP_ESC} /\ i < Len(w) => D[i] = <<w[i]>> \o D[i + 1]

LEMMA UnescapeType == \A c \in Bytes : Unescape(c) \in Bytes
BY SlipAssumption DEF Unescape, Bytes

\* The escapes are undone.
LEMMA UnescapeEscape ==
  Unescape(SLIP_ESC_END) = SLIP_END /\ Unescape(SLIP_ESC_ESC) = SLIP_ESC
BY SlipAssumption DEF Unescape

\* One pass of the loop of slip_decode, with what follows it.
Pass(w, i, one, two) ==
  CASE w[i] = SLIP_END -> IF i = Len(w) THEN <<>> ELSE one
    [] i < Len(w) /\ w[i] = SLIP_ESC -> <<Unescape(w[i + 1])>> \o two
    [] OTHER -> IF i = Len(w) THEN <<>> ELSE <<w[i]>> \o one

LEMMA PassType ==
  ASSUME NEW w \in Seq(Bytes), NEW i \in 1..Len(w), NEW one \in Seq(Bytes),
         NEW two \in Seq(Bytes)
  PROVE  Pass(w, i, one, two) \in Seq(Bytes)
<1>1. w[i] \in Bytes /\ SLIP_END # SLIP_ESC
  BY SlipAssumption
<1>2. <<>> \in Seq(Bytes)
  OBVIOUS
<1>3. CASE w[i] = SLIP_END
  BY <1>1, <1>2, <1>3 DEF Pass
<1>4. CASE i < Len(w) /\ w[i] = SLIP_ESC
  <2>1. w[i + 1] \in Bytes
    BY <1>4
  <2>2. <<Unescape(w[i + 1])>> \o two \in Seq(Bytes)
    BY <2>1, UnescapeType
  <2>3. Pass(w, i, one, two) = <<Unescape(w[i + 1])>> \o two
    BY <1>1, <1>4 DEF Pass
  <2>4. QED
    BY <2>2, <2>3
<1>5. CASE w[i] # SLIP_END /\ ~(i < Len(w) /\ w[i] = SLIP_ESC)
  <2>1. Pass(w, i, one, two) = IF i = Len(w) THEN <<>> ELSE <<w[i]>> \o one
    BY <1>5 DEF Pass
  <2>2. <<w[i]>> \o one \in Seq(Bytes)
    BY <1>1
  <2>3. QED
    BY <1>2, <2>1, <2>2
<1>6. QED
  BY <1>3, <1>4, <1>5

LEMMA Decoded ==
  ASSUME NEW w \in Seq(Bytes)
  PROVE  \E D : Stores(w, D) /\ slip_decode(w) = D[1]
<1> DEFINE n == Len(w)
           S == Seq(Bytes)
           body(d) == [i \in 1..(n + 1) |->
             CASE i = n + 1          -> <<>>
               [] i <= n /\ w[i] = SLIP_END -> IF i = n THEN <<>> ELSE d[i + 1]
               [] i < n /\ w[i] = SLIP_ESC  -> <<Unescape(w[i + 1])>> \o d[i + 2]
               [] OTHER              -> IF i = n THEN <<>> ELSE <<w[i]>> \o d[i + 1]]
           dec == CHOOSE d : d = body(d)
           next == [i \in 1..n |-> [s \in S |-> [t \in S |-> Pass(w, i, s, t)]]]
<1>1. n \in Nat /\ <<>> \in S /\ SLIP_END # SLIP_ESC
  BY SlipAssumption
<1>2. next \in [1..n -> [S -> [S -> S]]]
  BY PassType
<1>3. PICK d : Descends(d, n, S, <<>>, next)
  <2> HIDE DEF next, S, n
  <2>1. QED
    BY <1>1, <1>2, Descending
<1>4. d \in [1..(n + 1) -> S] /\ d[n + 1] = <<>>
  BY <1>3 DEF Descends
<1>5. ASSUME NEW i \in 1..n
      PROVE  d[i] = Pass(w, i, d[i + 1], IF i = n THEN <<>> ELSE d[i + 2])
  <2> DEFINE two == IF i = n THEN <<>> ELSE d[i + 2]
  <2>1. d[i] = next[i][d[i + 1]][two]
    BY <1>3 DEF Descends
  <2>2. i + 1 \in 1..(n + 1) /\ (i # n => i + 2 \in 1..(n + 1))
    BY <1>1
  <2>3. d[i + 1] \in S /\ two \in S
    BY <1>1, <1>4, <2>2
  <2> HIDE DEF two
  <2>4. next[i][d[i + 1]][two] = Pass(w, i, d[i + 1], two)
    BY <2>3
  <2>5. QED
    BY <2>1, <2>4 DEF two
<1>6. ASSUME NEW i \in 1..n
      PROVE  /\ w[i] = SLIP_END => d[i] = IF i = n THEN <<>> ELSE d[i + 1]
             /\ w[i] = SLIP_ESC /\ i < n => d[i] = <<Unescape(w[i + 1])>> \o d[i + 2]
             /\ w[i] # SLIP_END /\ ~(w[i] = SLIP_ESC /\ i < n)
                  => d[i] = IF i = n THEN <<>> ELSE <<w[i]>> \o d[i + 1]
  <2> DEFINE two == IF i = n THEN <<>> ELSE d[i + 2]
  <2>1. d[i] = Pass(w, i, d[i + 1], two)
    BY <1>5
  <2>2. i < n => two = d[i + 2]
    BY <1>1
  <2> HIDE DEF two
  <2>3. QED
    BY <1>1, <2>1, <2>2 DEF Pass
<1>7. d = body(d)
  <2>1. ASSUME NEW i \in 1..(n + 1)
        PROVE  d[i] = CASE i = n + 1          -> <<>>
                        [] i <= n /\ w[i] = SLIP_END -> IF i = n THEN <<>> ELSE d[i + 1]
                        [] i < n /\ w[i] = SLIP_ESC  -> <<Unescape(w[i + 1])>> \o d[i + 2]
                        [] OTHER -> IF i = n THEN <<>> ELSE <<w[i]>> \o d[i + 1]
    <3>1. CASE i = n + 1
      BY <1>1, <1>4, <3>1
    <3>2. CASE i # n + 1
      <4>1. i \in 1..n /\ i <= n
        BY <1>1, <3>2
      <4>2. QED
        BY <1>1, <1>6, <3>2, <4>1
    <3>3. QED
      BY <3>1, <3>2
  <2>2. d = [i \in 1..(n + 1) |-> d[i]]
    BY <1>4
  <2>3. QED
    BY <2>1, <2>2
<1>8. dec = body(dec)
  <2> HIDE DEF body
  <2>1. QED
    BY <1>7
<1> HIDE DEF dec
<1>9. /\ dec[n + 1] = <<>>
      /\ \A i \in 1..n :
           /\ w[i] = SLIP_END => dec[i] = IF i = n THEN <<>> ELSE dec[i + 1]
           /\ w[i] = SLIP_ESC /\ i < n => dec[i] = <<Unescape(w[i + 1])>> \o dec[i + 2]
           /\ w[i] # SLIP_END /\ ~(w[i] = SLIP_ESC /\ i < n)
                => dec[i] = IF i = n THEN <<>> ELSE <<w[i]>> \o dec[i + 1]
  <2>1. \A i \in 1..(n + 1) :
          dec[i] = CASE i = n + 1          -> <<>>
                     [] i <= n /\ w[i] = SLIP_END -> IF i = n THEN <<>> ELSE dec[i + 1]
                     [] i < n /\ w[i] = SLIP_ESC  -> <<Unescape(w[i + 1])>> \o dec[i + 2]
                     [] OTHER -> IF i = n THEN <<>> ELSE <<w[i]>> \o dec[i + 1]
    BY <1>8
  <2>2. n + 1 \in 1..(n + 1) /\ ~(n + 1 <= n) /\ ~(n + 1 < n)
    BY <1>1
  <2>3. dec[n + 1] = <<>>
    BY <2>1, <2>2
  <2>4. ASSUME NEW i \in 1..n
        PROVE  /\ w[i] = SLIP_END => dec[i] = IF i = n THEN <<>> ELSE dec[i + 1]
               /\ w[i] = SLIP_ESC /\ i < n => dec[i] = <<Unescape(w[i + 1])>> \o dec[i + 2]
               /\ w[i] # SLIP_END /\ ~(w[i] = SLIP_ESC /\ i < n)
                    => dec[i] = IF i = n THEN <<>> ELSE <<w[i]>> \o dec[i + 1]
    <3>1. i \in 1..(n + 1) /\ i # n + 1 /\ i <= n
      BY <1>1
    <3>2. dec[i] = CASE w[i] = SLIP_END -> IF i = n THEN <<>> ELSE dec[i + 1]
                     [] i < n /\ w[i] = SLIP_ESC -> <<Unescape(w[i + 1])>> \o dec[i + 2]
                     [] OTHER -> IF i = n THEN <<>> ELSE <<w[i]>> \o dec[i + 1]
      BY <1>1, <2>1, <3>1
    <3>3. QED
      BY <1>1, <3>2
  <2>5. QED
    BY <2>3, <2>4
\* There is one such function.
<1> DEFINE Same(k) == /\ dec[n + 1 - k] = d[n + 1 - k]
                      /\ k >= 1 => dec[n + 1 - (k - 1)] = d[n + 1 - (k - 1)]
           K == {k \in Nat : k <= n => Same(k)}
<1>10. Same(0)
  <2>1. n + 1 - 0 = n + 1
    BY <1>1
  <2>2. QED
    BY <1>4, <1>9, <2>1
<1>11. ASSUME NEW k \in Nat, Same(k), k + 1 <= n PROVE Same(k + 1)
  <2> DEFINE i == n - k
  <2>1. /\ i \in 1..n /\ n + 1 - k = i + 1 /\ n + 1 - (k + 1) = i
        /\ k >= 1 => n + 1 - (k - 1) = i + 2
        /\ n + 1 - ((k + 1) - 1) = i + 1
        /\ i < n => k >= 1
    BY <1>1, <1>11
  <2> HIDE DEF i
  <2>2. dec[i + 1] = d[i + 1] /\ (i < n => dec[i + 2] = d[i + 2])
    BY <1>11, <2>1
  <2>3. dec[i] = d[i]
    <3>1. CASE w[i] = SLIP_END
      <4>1. i # n => i < n
        BY <1>1, <2>1
      <4>2. QED
        BY <1>6, <1>9, <2>1, <2>2, <3>1, <4>1
    <3>2. CASE w[i] = SLIP_ESC /\ i < n
      BY <1>6, <1>9, <2>1, <2>2, <3>2
    <3>3. CASE w[i] # SLIP_END /\ ~(w[i] = SLIP_ESC /\ i < n)
      BY <1>6, <1>9, <2>1, <2>2, <3>3
    <3>4. QED
      BY <3>1, <3>2, <3>3
  <2>4. QED
    BY <2>1, <2>2, <2>3
<1>12. K = Nat
  <2> HIDE DEF Same
  <2>1. K \in SUBSET Nat /\ 0 \in K
    BY <1>10
  <2>2. ASSUME NEW k \in K PROVE k + 1 \in K
    BY <1>1, <1>11, <2>2
  <2>3. QED
    BY <2>1, <2>2, Induct
<1>13. dec[1] = d[1]
  <2>1. Same(n)
    <3> HIDE DEF Same
    <3>1. n \in K
      BY <1>1, <1>12
    <3>2. QED
      BY <3>1
  <2>2. n + 1 - n = 1
    BY <1>1
  <2>3. QED
    BY <2>1, <2>2
<1>14. slip_decode(w) = dec[1]
  BY DecodeUnfolds DEF dec
<1>15. Stores(w, d)
  <2>1. ASSUME NEW i \in 1..n
        PROVE  /\ w[i] = SLIP_END => d[i] = IF i = n THEN <<>> ELSE d[i + 1]
               /\ w[i] = SLIP_ESC /\ i < n => d[i] = <<Unescape(w[i + 1])>> \o d[i + 2]
               /\ w[i] \notin {SLIP_END, SLIP_ESC} /\ i < n => d[i] = <<w[i]>> \o d[i + 1]
    <3>1. w[i] \notin {SLIP_END, SLIP_ESC} /\ i < n => d[i] = <<w[i]>> \o d[i + 1]
      <4>1. i < n => i # n
        BY <1>1
      <4>2. QED
        BY <1>6, <4>1
    <3>2. QED
      BY <1>6, <3>1
  <2>2. QED
    BY <1>4, <2>1 DEF Stores
<1>16. QED
  BY <1>13, <1>14, <1>15

-----------------------------------------------------------------------------
(* slip_decode after slip_encode.                                          *)

\* The bytes that are sent for a byte are read as that byte, and no further.
LEMMA DecodesByte ==
  ASSUME NEW w \in Seq(Bytes), NEW D, Stores(w, D), NEW c \in Bytes,
         NEW p \in Nat, p >= 1, p + Len(Escape(c)) <= Len(w),
         \A m \in 1..Len(Escape(c)) : w[p + (m - 1)] = Escape(c)[m]
  PROVE  D[p] = <<c>> \o D[p + Len(Escape(c))]
<1>1. p \in 1..Len(w) /\ p < Len(w) /\ SLIP_END # SLIP_ESC
  <2> DEFINE b == Len(Escape(c))
  <2>1. b \in {1, 2} /\ p + b <= Len(w) /\ Len(w) \in Nat
    BY EscapeType
  <2> HIDE DEF b
  <2>2. QED
    BY <2>1, SlipAssumption
<1>2. /\ w[p] = SLIP_ESC => D[p] = <<Unescape(w[p + 1])>> \o D[p + 2]
      /\ w[p] \notin {SLIP_END, SLIP_ESC} => D[p] = <<w[p]>> \o D[p + 1]
  BY <1>1 DEF Stores
<1>3. p + (1 - 1) = p /\ p + (2 - 1) = p + 1
  OBVIOUS
<1>4. CASE c = SLIP_END
  <2>1. Escape(c) = <<SLIP_ESC, SLIP_ESC_END>>
    BY <1>4, EscapeOf
  <2>2. Len(Escape(c)) = 2 /\ Escape(c)[1] = SLIP_ESC /\ Escape(c)[2] = SLIP_ESC_END
    BY <2>1
  <2>3. w[p] = SLIP_ESC /\ w[p + 1] = SLIP_ESC_END
    BY <1>3, <2>2
  <2>4. QED
    BY <1>2, <1>4, <2>2, <2>3, UnescapeEscape
<1>5. CASE c = SLIP_ESC
  <2>1. Escape(c) = <<SLIP_ESC, SLIP_ESC_ESC>>
    BY <1>5, EscapeOf
  <2>2. Len(Escape(c)) = 2 /\ Escape(c)[1] = SLIP_ESC /\ Escape(c)[2] = SLIP_ESC_ESC
    BY <2>1
  <2>3. w[p] = SLIP_ESC /\ w[p + 1] = SLIP_ESC_ESC
    BY <1>3, <2>2
  <2>4. QED
    BY <1>2, <1>5, <2>2, <2>3, UnescapeEscape
<1>6. CASE c \notin {SLIP_END, SLIP_ESC}
  <2>1. Escape(c) = <<c>>
    BY <1>6, EscapeOf
  <2>2. Len(Escape(c)) = 1 /\ Escape(c)[1] = c
    BY <2>1
  <2>3. w[p] = c
    BY <1>3, <2>2
  <2>4. QED
    BY <1>2, <1>6, <2>2, <2>3
<1>7. QED
  BY <1>4, <1>5, <1>6

\* Where w holds the wire of f behind the first o bytes.
Embeds(w, o, wire) == o + Len(wire) <= Len(w) /\ \A k \in 1..Len(wire) : w[o + k] = wire[k]

\* Decoding gives f, and then what comes after.
Reads(w, D, o, f, wire) ==
  D[o + 1] = f \o (IF o + Len(wire) = Len(w) THEN <<>> ELSE D[o + Len(wire) + 1])

LEMMA DecodesFrame ==
  ASSUME NEW w \in Seq(Bytes), NEW D, Stores(w, D), NEW f, SlipFrame(f),
         NEW o \in Nat, Embeds(w, o, slip_encode(f))
  PROVE  Reads(w, D, o, f, slip_encode(f))
<1> DEFINE wire == slip_encode(f)
           n == Len(f)
<1>1. f \in Seq(Bytes) /\ n \in Nat /\ n >= 2 /\ \A i \in 1..n : f[i] \in Bytes
  BY DEF SlipFrame
<1>2. PICK E : Sends(f, E) /\ wire = E[n] \o <<SLIP_END>>
  BY Encoded
<1> HIDE DEF wire
<1>3. o + Len(wire) <= Len(w) /\ \A k \in 1..Len(wire) : w[o + k] = wire[k]
  BY DEF Embeds, wire
<1>4. <<SLIP_END>> \in Seq(Bytes) /\ Len(<<SLIP_END>>) = 1
  BY DEF Bytes
<1>5. n \in 0..n /\ E[n] \in Seq(Bytes) /\ Len(E[n]) \in Nat /\ Len(E[n]) >= 1
  BY <1>1, <1>2, SendsNoEnd
<1>6. /\ Len(wire) = Len(E[n]) + 1 /\ wire[Len(E[n]) + 1] = SLIP_END
      /\ \A k \in 1..Len(E[n]) : wire[k] = E[n][k]
  BY <1>2, <1>4, <1>5
<1> DEFINE at(i) == o + Len(E[i]) + 1
           Read(i) == D[o + 2] = SubSeq(f, 1, i) \o D[at(i)]
           K == {i \in Nat : i <= n => Read(i)}
<1>7. Len(w) \in Nat /\ D \in [1..(Len(w) + 1) -> Seq(Bytes)]
  BY DEF Stores
<1>8. Read(0)
  <2>1. E[0] = <<SLIP_END>> /\ Len(E[0]) = 1
    BY <1>2, <1>4 DEF Sends
  <2>2. at(0) = o + 2 /\ SubSeq(f, 1, 0) = <<>>
    BY <1>1, <2>1
  <2>3. o + 2 \in 1..(Len(w) + 1)
    BY <1>3, <1>5, <1>6, <1>7
  <2>4. D[o + 2] \in Seq(Bytes)
    BY <1>7, <2>3
  <2>5. <<>> \o D[o + 2] = D[o + 2]
    BY <2>4
  <2>6. QED
    BY <2>2, <2>5
<1>9. ASSUME NEW i \in Nat, Read(i), i + 1 <= n PROVE Read(i + 1)
  <2> DEFINE c == f[i + 1]
             a == Len(E[i])
             b == Len(Escape(c))
             p == at(i)
  <2>1. OneMore(f, E, i)
    BY <1>1, <1>2, <1>9, SendsOne
  <2>2. /\ c \in Bytes /\ E[i + 1] \in Seq(Bytes) /\ Len(E[i + 1]) = a + b /\ a \in Nat
        /\ \A m \in 1..b : E[i + 1][a + m] = Escape(c)[m]
    BY <2>1 DEF OneMore
  <2>3. b \in {1, 2}
    BY <2>2, EscapeType
  <2>4. /\ Len(E[i + 1]) <= Len(E[n])
        /\ \A k \in 1..Len(E[i + 1]) : E[n][k] = E[i + 1][k]
    <3>1. i + 1 \in 0..n /\ n \in (i + 1)..n
      BY <1>1, <1>9
    <3> HIDE DEF Read
    <3>2. Grows(E, i + 1, n)
      BY <1>1, <1>2, <3>1, SendsMore
    <3>3. QED
      BY <3>2 DEF Grows
  <2>5. p = o + a + 1 /\ at(i + 1) = p + b
    <3>1. at(i + 1) = o + (a + b) + 1 /\ p = o + a + 1
      BY <2>2
    <3>2. o \in Nat /\ a \in Nat /\ b \in {1, 2}
      BY <2>2, <2>3
    <3> HIDE DEF a, b, p, at
    <3>3. QED
      BY <3>1, <3>2
  <2> HIDE DEF c, a, b, p
  <2>6. p \in Nat /\ p >= 1 /\ p + b <= Len(w)
    BY <1>3, <1>5, <1>6, <1>7, <2>2, <2>3, <2>4, <2>5
  <2>7. ASSUME NEW m \in 1..b PROVE w[p + (m - 1)] = Escape(c)[m]
    <3>1. a + m \in 1..Len(E[i + 1]) /\ a + m \in 1..Len(E[n]) /\ a + m \in 1..Len(wire)
      BY <1>5, <1>6, <2>2, <2>3, <2>4
    <3>2. p + (m - 1) = o + (a + m)
      BY <2>2, <2>3, <2>5
    <3>3. w[o + (a + m)] = E[i + 1][a + m]
      BY <1>3, <1>6, <2>4, <3>1
    <3>4. QED
      BY <2>2, <3>2, <3>3
  <2>8. D[p] = <<c>> \o D[p + b]
    BY <2>2, <2>6, <2>7, DecodesByte DEF b
  <2>9. p + b \in 1..(Len(w) + 1)
    BY <1>7, <2>3, <2>6
  <2>10. D[p + b] \in Seq(Bytes)
    BY <1>7, <2>9
  <2>11. SubSeq(f, 1, i) \in Seq(Bytes) /\ SubSeq(f, 1, i + 1) = SubSeq(f, 1, i) \o <<c>>
    BY <1>1, <1>9 DEF c
  <2>12. <<c>> \in Seq(Bytes)
    BY <2>2
  <2>13. SubSeq(f, 1, i) \o (<<c>> \o D[p + b]) = (SubSeq(f, 1, i) \o <<c>>) \o D[p + b]
    <3> DEFINE x == SubSeq(f, 1, i)
               y == <<c>>
               z == D[p + b]
    <3>1. x \in Seq(Bytes) /\ y \in Seq(Bytes) /\ z \in Seq(Bytes)
      BY <2>10, <2>11, <2>12
    <3> HIDE DEF x, y, z
    <3>2. x \o (y \o z) = (x \o y) \o z
      BY <3>1
    <3>3. QED
      BY <3>2 DEF x, y, z
  <2>14. D[o + 2] = SubSeq(f, 1, i) \o D[p]
    BY <1>9 DEF p
  <2>15. QED
    BY <2>5, <2>8, <2>11, <2>13, <2>14
<1>10. K = Nat
  <2> HIDE DEF Read
  <2>1. K \in SUBSET Nat /\ 0 \in K
    BY <1>8
  <2>2. ASSUME NEW i \in K PROVE i + 1 \in K
    BY <1>1, <1>9, <2>2
  <2>3. QED
    BY <2>1, <2>2, Induct
<1>11. Read(n)
  <2> HIDE DEF Read
  <2>1. n \in K
    BY <1>1, <1>10
  <2>2. QED
    BY <2>1
<1>12. SubSeq(f, 1, n) = f
  BY <1>1
<1> DEFINE q == o + Len(wire)
<1>13. q = at(n) /\ q \in 1..Len(w) /\ w[q] = SLIP_END
  BY <1>3, <1>5, <1>6, <1>7
<1>14. D[q] = IF q = Len(w) THEN <<>> ELSE D[q + 1]
  <2> HIDE DEF q
  <2>1. QED
    BY <1>13 DEF Stores
<1>15. D[o + 1] = D[o + 2]
  <2>1. /\ 1 \in 1..Len(wire) /\ o + 1 \in 1..Len(w) /\ o + 1 # Len(w)
    BY <1>3, <1>5, <1>6, <1>7
  <2>2. wire[1] = SLIP_END
    <3>1. 1 \in 1..Len(E[n])
      BY <1>5
    <3>2. E[n][1] = SLIP_END
      BY <1>1, <1>2, <1>5, <3>1, SendsNoEnd
    <3>3. QED
      BY <1>6, <3>1, <3>2
  <2>3. w[o + 1] = SLIP_END
    BY <1>3, <2>1, <2>2
  <2>4. D[o + 1] = D[(o + 1) + 1]
    BY <2>1, <2>3 DEF Stores
  <2>5. (o + 1) + 1 = o + 2
    OBVIOUS
  <2>6. QED
    BY <2>4, <2>5
<1>16. D[o + 1] = f \o D[q]
  BY <1>11, <1>12, <1>13, <1>15
<1>17. QED
  BY <1>14, <1>16 DEF wire, Reads

-----------------------------------------------------------------------------
LEMMA Joined ==
  ASSUME NEW t \in Seq(Bytes), NEW s \in Seq(Bytes)
  PROVE  /\ t \o s \in Seq(Bytes) /\ Len(t \o s) = Len(t) + Len(s)
         /\ Len(t) \in Nat /\ Len(s) \in Nat
         /\ \A k \in 1..Len(t) : (t \o s)[k] = t[k]
OBVIOUS

LEMMA BehindFlags ==
  ASSUME NEW t \in Seq(Bytes), NEW s \in Seq(Bytes), Len(t) = 2, t[1] = Other, t[2] = Other
  PROVE  SlipFrame(t \o s)
<1> DEFINE r == t \o s
<1>1. /\ r \in Seq(Bytes) /\ Len(r) = Len(t) + Len(s) /\ Len(t) \in Nat /\ Len(s) \in Nat
      /\ \A k \in 1..Len(t) : r[k] = t[k]
  BY ONLY Joined, t \in Seq(Bytes), s \in Seq(Bytes)
<1> HIDE DEF r
<1>2. Len(r) >= 2 /\ r[1] = Other /\ r[2] = Other
  <2>1. 1 \in 1..Len(t) /\ 2 \in 1..Len(t)
    BY <1>1
  <2>2. QED
    BY <1>1, <2>1
<1>3. QED
  BY <1>1, <1>2 DEF SlipFrame, r

LEMMA FramesAreFrames == \A f \in Frames : SlipFrame(f)
<1> SUFFICES ASSUME NEW n \in 0..MaxLen, NEW s \in [1..n -> Bytes]
             PROVE  SlipFrame(<<Other, Other>> \o s)
  BY DEF Frames
<1>1. n \in Nat
  BY SlipAssumption
<1>2. s \in Seq(Bytes)
  BY <1>1
<1> DEFINE t == <<Other, Other>>
<1>3. t \in Seq(Bytes) /\ Len(t) = 2 /\ t[1] = Other /\ t[2] = Other
  BY DEF Bytes
<1> HIDE DEF t
<1>4. SlipFrame(t \o s)
  BY <1>2, <1>3, BehindFlags
<1>5. QED
  BY <1>4 DEF t

\* The pattern detector of the UART finds the end of every frame that
\* slip_encode writes, whatever its bytes and however many.
THEOREM EndsDelimited == Delimited
BY FramesAreFrames, WireEnds DEF Delimited

\* slip_decode undoes slip_encode.
THEOREM DecodesEach == DecodesOne
<1> SUFFICES ASSUME NEW f \in Frames PROVE slip_decode(slip_encode(f)) = f
  BY DEF DecodesOne
<1> DEFINE w == slip_encode(f)
<1>1. SlipFrame(f) /\ f \in Seq(Bytes)
  BY FramesAreFrames DEF SlipFrame
<1>2. w \in Seq(Bytes) /\ Len(w) \in Nat
  BY <1>1, WireEnds
<1>3. PICK D : Stores(w, D) /\ slip_decode(w) = D[1]
  BY <1>2, Decoded
<1>4. Embeds(w, 0, w)
  <2> HIDE DEF w
  <2>1. QED
    BY <1>2 DEF Embeds
<1>5. Reads(w, D, 0, f, w)
  BY <1>1, <1>2, <1>3, <1>4, DecodesFrame
<1> HIDE DEF w
<1>6. D[1] = f \o <<>>
  BY <1>2, <1>5 DEF Reads
<1>7. QED
  BY <1>1, <1>3, <1>6 DEF w

\* Of two frames that the receiver took for one, slip_decode gives both, and
\* reads nothing of the one as of the other.
THEOREM DecodesRunTogether == DecodesTwo
<1> DEFINE g == <<Other, Other, SLIP_ESC>>
<1> SUFFICES ASSUME NEW f \in Frames
             PROVE  slip_decode(slip_encode(f) \o slip_encode(g)) = f \o g
  BY DEF DecodesTwo
<1> DEFINE u == slip_encode(f)
           v == slip_encode(g)
           w == u \o v
<1>1. SlipFrame(f) /\ f \in Seq(Bytes)
  BY FramesAreFrames DEF SlipFrame
<1>2. SlipFrame(g) /\ g \in Seq(Bytes)
  <2>1. g \in Seq(Bytes) /\ Len(g) = 3 /\ g[1] = Other /\ g[2] = Other
    BY DEF Bytes
  <2>2. QED
    BY <2>1 DEF SlipFrame
<1> HIDE DEF g
<1>3. /\ u \in Seq(Bytes) /\ Len(u) >= 2 /\ Len(u) \in Nat
      /\ v \in Seq(Bytes) /\ Len(v) >= 2 /\ Len(v) \in Nat
  BY <1>1, <1>2, WireEnds
<1>4. Embeds(w, 0, u) /\ Embeds(w, Len(u), v) /\ w \in Seq(Bytes) /\ Len(w) = Len(u) + Len(v)
  <2> HIDE DEF u, v
  <2>1. w \in Seq(Bytes) /\ Len(w) = Len(u) + Len(v)
    BY <1>3
  <2>2. (\A k \in 1..Len(u) : w[0 + k] = u[k]) /\ \A k \in 1..Len(v) : w[Len(u) + k] = v[k]
    BY <1>3
  <2> HIDE DEF w
  <2>3. QED
    BY <1>3, <2>1, <2>2 DEF Embeds
<1>5. PICK D : Stores(w, D) /\ slip_decode(w) = D[1]
  BY <1>4, Decoded
<1> HIDE DEF w
<1>6. Reads(w, D, 0, f, u)
  BY <1>1, <1>4, <1>5, DecodesFrame
<1>7. Reads(w, D, Len(u), g, v)
  BY <1>2, <1>3, <1>4, <1>5, DecodesFrame
<1> HIDE DEF u, v
<1>8. D[Len(u) + 1] = g
  BY <1>2, <1>4, <1>7 DEF Reads
<1>9. D[1] = f \o D[Len(u) + 1]
  BY <1>3, <1>4, <1>6 DEF Reads
<1>10. QED
  BY <1>5, <1>8, <1>9 DEF u, v, w
=============================================================================
