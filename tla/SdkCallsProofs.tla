--------------------------- MODULE SdkCallsProofs ---------------------------
(***************************************************************************)
(* That a unary call of the SDK takes effect at most once, that the server *)
(* sees what the application passed, and that the caller gets what the     *)
(* answer means, for every argument the application may pass and every     *)
(* answer of any length.                                                   *)
(***************************************************************************)
EXTENDS SdkCalls, SequenceTheorems, NaturalsInduction, WellFoundedInduction, TLAPS

-----------------------------------------------------------------------------
(* What FlattenSeq does, by which the codec joins what it writes and what  *)
(* a wire means is defined.                                                *)

\* A set that holds 1 and with a number the next one holds all up to n.
LEMMA Climb ==
    ASSUME NEW n \in Nat, NEW S, 1 \in S, \A k \in 1 .. n : k \in S /\ k + 1 <= n => k + 1 \in S
    PROVE  \A k \in 1 .. n : k \in S
<1>1. PICK T : T = {k \in 1 .. n : k \notin S}
  OBVIOUS
<1>2. ASSUME T # {} PROVE FALSE
  <2>1. PICK x \in T : \A y \in T : ~(<<y, x>> \in OpToRel(<, Nat))
    <3>1. T \in SUBSET Nat
      BY <1>1
    <3> QED BY <1>2, <3>1, NatLessThanWellFounded, WFMin
  <2>2. x \in 1 .. n /\ x \notin S /\ x # 1
    BY <1>1, <2>1
  <2>3. x - 1 \in 1 .. n /\ x - 1 < x
    BY <2>2
  <2>4. x - 1 \notin T
    <3>1. x - 1 \in Nat /\ x \in Nat
      BY <2>2, <2>3
    <3>2. <<x - 1, x>> \in OpToRel(<, Nat)
      BY <2>3, <3>1 DEF OpToRel
    <3> QED BY <2>1, <3>2
  <2>5. x - 1 \in S
    BY <1>1, <2>3, <2>4
  <2>6. (x - 1) + 1 = x
    BY <2>2
  <2> QED BY <2>2, <2>3, <2>5, <2>6
<1> QED BY <1>1, <1>2

\* g holds what the first sequences come to, for each number of them.
Flattens(ss, g, n) ==
    \A i \in 1 .. n : g[i] = IF i = 1 THEN ss[i] ELSE g[i - 1] \o ss[i]

LEMMA FlattenExists ==
    ASSUME NEW D, NEW ss \in Seq(Seq(D)), NEW n \in 1 .. Len(ss)
    PROVE  \E g \in [1 .. n -> Seq(D)] : Flattens(ss, g, n)
<1>1. PICK S : S = {k \in 1 .. Len(ss) : \E g \in [1 .. k -> Seq(D)] : Flattens(ss, g, k)}
  OBVIOUS
<1>2. Len(ss) \in Nat /\ 1 \in 1 .. Len(ss) /\ \A k \in 1 .. Len(ss) : ss[k] \in Seq(D)
  OBVIOUS
<1>3. 1 \in S
  <2>1. PICK g : g = [i \in 1 .. 1 |-> ss[1]]
    OBVIOUS
  <2>2. g \in [1 .. 1 -> Seq(D)] /\ Flattens(ss, g, 1)
    BY <1>2, <2>1 DEF Flattens
  <2> QED BY <1>1, <1>2, <2>2
<1>4. ASSUME NEW k \in 1 .. Len(ss), k \in S, k + 1 <= Len(ss) PROVE k + 1 \in S
  <2>1. PICK g \in [1 .. k -> Seq(D)] : Flattens(ss, g, k)
    BY <1>1, <1>4
  <2>2. PICK h : h = [i \in 1 .. k + 1 |-> IF i = k + 1 THEN g[k] \o ss[k + 1] ELSE g[i]]
    OBVIOUS
  <2>3. k + 1 \in 1 .. Len(ss) /\ g[k] \in Seq(D) /\ ss[k + 1] \in Seq(D) /\ k + 1 # 1 /\ (k + 1) - 1 = k
    BY <1>2, <1>4
  <2>4. g[k] \o ss[k + 1] \in Seq(D)
    BY <2>3
  <2>5. h \in [1 .. k + 1 -> Seq(D)]
    BY <2>2, <2>4
  <2>6. \A i \in 1 .. k : h[i] = g[i]
    BY <1>4, <2>2
  <2>7. h[k + 1] = g[k] \o ss[k + 1]
    <3>1. k + 1 \in 1 .. k + 1
      BY <1>4
    <3> QED BY <2>2, <3>1
  <2>8. ASSUME NEW i \in 1 .. k + 1 PROVE h[i] = IF i = 1 THEN ss[i] ELSE h[i - 1] \o ss[i]
    <3>1. CASE i = k + 1
      <4>1. k \in 1 .. k
        BY <1>4
      <4> QED BY <2>3, <2>6, <2>7, <3>1, <4>1
    <3>2. CASE i # k + 1
      <4>1. i \in 1 .. k /\ (i # 1 => i - 1 \in 1 .. k)
        BY <3>2
      <4> QED BY <2>1, <2>6, <4>1 DEF Flattens
    <3> QED BY <3>1, <3>2
  <2>9. Flattens(ss, h, k + 1)
    BY <2>5, <2>8 DEF Flattens
  <2> QED BY <1>1, <2>3, <2>5, <2>9
<1>5. \A k \in 1 .. Len(ss) : k \in S
  BY <1>2, <1>3, <1>4, Climb
<1> QED BY <1>1, <1>5

Agree(p, q, n) == \A i \in 1 .. n : p[i] = q[i]

LEMMA FlattenUnique ==
    ASSUME NEW n \in Nat, NEW p, NEW q, NEW g, NEW h, Agree(p, q, n),
           Flattens(p, g, n), Flattens(q, h, n)
    PROVE  Agree(g, h, n)
<1>1. PICK S : S = {k \in Nat : k \in 1 .. n => g[k] = h[k]}
  OBVIOUS
<1>2. 1 \in S
  BY <1>1 DEF Flattens, Agree
<1>3. ASSUME NEW k \in 1 .. n, k \in S, k + 1 <= n PROVE k + 1 \in S
  <2>1. k + 1 \in 1 .. n /\ k + 1 # 1 /\ (k + 1) - 1 = k
    BY <1>3
  <2>2. g[k] = h[k]
    BY <1>1, <1>3
  <2>3. g[k + 1] = g[k] \o p[k + 1] /\ h[k + 1] = h[k] \o q[k + 1]
    BY <2>1 DEF Flattens
  <2>4. p[k + 1] = q[k + 1] /\ k + 1 \in Nat
    BY <2>1 DEF Agree
  <2>5. g[k + 1] = h[k + 1]
    BY <2>2, <2>3, <2>4
  <2> QED BY <1>1, <2>4, <2>5
<1>4. \A k \in 1 .. n : k \in S
  BY <1>2, <1>3, Climb
<1> QED BY <1>1, <1>4 DEF Agree

\* FlattenSeq does what its recursive function says.
LEMMA FlattenFacts ==
    ASSUME NEW D, NEW ss \in Seq(Seq(D)), ss # <<>>
    PROVE  \E g \in [1 .. Len(ss) -> Seq(D)] :
              Flattens(ss, g, Len(ss)) /\ FlattenSeq(ss) = g[Len(ss)]
<1>1. Len(ss) \in 1 .. Len(ss) /\ Len(ss) # 0
  OBVIOUS
<1>2. PICK g \in [1 .. Len(ss) -> Seq(D)] : Flattens(ss, g, Len(ss))
  BY <1>1, FlattenExists
<1>3. g = [i \in 1 .. Len(ss) |-> IF i = 1 THEN ss[i] ELSE g[i - 1] \o ss[i]]
  BY <1>2 DEF Flattens
<1>4. PICK h : /\ h = [i \in 1 .. Len(ss) |-> IF i = 1 THEN ss[i] ELSE h[i - 1] \o ss[i]]
               /\ FlattenSeq(ss) = h[Len(ss)]
  BY <1>1, <1>3 DEF FlattenSeq
<1>5. Flattens(ss, h, Len(ss))
  BY <1>4 DEF Flattens
<1>6. h[Len(ss)] = g[Len(ss)]
  <2>1. Len(ss) \in Nat
    OBVIOUS
  <2>2. Agree(ss, ss, Len(ss))
    BY DEF Agree
  <2>3. Agree(h, g, Len(ss))
    BY <1>2, <1>5, <2>1, <2>2, FlattenUnique
  <2> QED BY <1>1, <2>3 DEF Agree
<1> QED BY <1>2, <1>4, <1>6

LEMMA FlattenType ==
    ASSUME NEW D, NEW ss \in Seq(Seq(D)) PROVE FlattenSeq(ss) \in Seq(D)
<1>1. CASE ss = <<>>
  BY <1>1 DEF FlattenSeq
<1>2. CASE ss # <<>>
  <2>1. PICK g \in [1 .. Len(ss) -> Seq(D)] : FlattenSeq(ss) = g[Len(ss)]
    BY <1>2, FlattenFacts
  <2>2. Len(ss) \in 1 .. Len(ss)
    BY <1>2
  <2> QED BY <2>1, <2>2
<1> QED BY <1>1, <1>2

LEMMA FlattenEmpty == FlattenSeq(<<>>) = <<>>
  BY DEF FlattenSeq

\* What is appended comes last.
LEMMA FlattenAppend ==
    ASSUME NEW D, NEW ss \in Seq(Seq(D)), NEW x \in Seq(D)
    PROVE  FlattenSeq(Append(ss, x)) = FlattenSeq(ss) \o x
<1>1. PICK tt : tt = Append(ss, x)
  OBVIOUS
<1>2. PICK n : n = Len(ss)
  OBVIOUS
<1>3. /\ tt \in Seq(Seq(D)) /\ tt # <<>> /\ Len(tt) = n + 1 /\ n \in Nat
      /\ \A i \in 1 .. n : tt[i] = ss[i]
      /\ tt[n + 1] = x
  BY <1>1, <1>2
<1>4. PICK h \in [1 .. n + 1 -> Seq(D)] : Flattens(tt, h, n + 1) /\ FlattenSeq(tt) = h[n + 1]
  BY <1>3, FlattenFacts
<1>5. CASE ss = <<>>
  <2>1. n = 0 /\ FlattenSeq(ss) = <<>>
    BY <1>2, <1>5, FlattenEmpty
  <2>2. h[1] = tt[1]
    BY <1>4, <2>1 DEF Flattens
  <2> QED BY <1>1, <1>3, <1>4, <2>1, <2>2
<1>6. CASE ss # <<>>
  <2>1. n # 0 /\ n \in 1 .. n /\ n + 1 \in 1 .. n + 1 /\ n + 1 # 1 /\ (n + 1) - 1 = n
        /\ \A i \in 1 .. n : i \in 1 .. n + 1
    BY <1>2, <1>3, <1>6
  <2>2. PICK g \in [1 .. n -> Seq(D)] : Flattens(ss, g, n) /\ FlattenSeq(ss) = g[n]
    BY <1>2, <1>6, FlattenFacts
  <2>3. Flattens(tt, h, n)
    BY <1>4, <2>1 DEF Flattens
  <2>5. h[n] = g[n]
    <3>1. Agree(tt, ss, n)
      BY <1>3 DEF Agree
    <3>2. Agree(h, g, n)
      BY <1>3, <2>2, <2>3, <3>1, FlattenUnique
    <3> QED BY <2>1, <3>2 DEF Agree
  <2>6. h[n + 1] = h[n] \o tt[n + 1]
    BY <1>4, <2>1 DEF Flattens
  <2> QED BY <1>1, <1>3, <1>4, <2>2, <2>5, <2>6
<1> QED BY <1>5, <1>6
-----------------------------------------------------------------------------
(* The loop of internalBinaryRead. *)

Reads(t, wire, target, g, n) ==
    \A i \in 0 .. n : g[i] = IF i = 0 THEN target ELSE ReadField(t, g[i - 1], wire[i])

LEMMA ReadsExist ==
    ASSUME NEW t, NEW wire, NEW target, NEW n \in Nat
    PROVE  \E g : g = [i \in 0 .. n |-> g[i]] /\ Reads(t, wire, target, g, n)
<1>1. PICK S : S = {k \in Nat : \E g : g = [i \in 0 .. k - 1 |-> g[i]] /\ Reads(t, wire, target, g, k - 1)}
  OBVIOUS
<1>2. 1 \in S
  <2>1. PICK g : g = [i \in 0 .. 0 |-> target]
    OBVIOUS
  <2>2. g = [i \in 0 .. 1 - 1 |-> g[i]] /\ Reads(t, wire, target, g, 1 - 1)
    BY <2>1 DEF Reads
  <2> QED BY <1>1, <2>2
<1>3. ASSUME NEW k \in 1 .. n + 1, k \in S, k + 1 <= n + 1 PROVE k + 1 \in S
  <2>1. PICK g : g = [i \in 0 .. k - 1 |-> g[i]] /\ Reads(t, wire, target, g, k - 1)
    BY <1>1, <1>3
  <2>2. PICK h : h = [i \in 0 .. k |-> IF i = k THEN ReadField(t, g[k - 1], wire[k]) ELSE g[i]]
    OBVIOUS
  <2>3. k \in 0 .. k /\ k # 0 /\ k - 1 \in 0 .. k - 1 /\ k - 1 \in 0 .. k /\ k - 1 # k /\ (k + 1) - 1 = k
        /\ k + 1 \in Nat
    BY <1>3
  <2>4. \A i \in 0 .. k - 1 : h[i] = g[i]
    BY <1>3, <2>2
  <2>5. h[k] = ReadField(t, g[k - 1], wire[k])
    BY <2>2, <2>3
  <2>6. ASSUME NEW i \in 0 .. k PROVE h[i] = IF i = 0 THEN target ELSE ReadField(t, h[i - 1], wire[i])
    <3>1. CASE i = k
      BY <2>3, <2>4, <2>5, <3>1
    <3>2. CASE i # k
      <4>1. i \in 0 .. k - 1 /\ (i # 0 => i - 1 \in 0 .. k - 1)
        BY <3>2
      <4> QED BY <2>1, <2>4, <4>1 DEF Reads
    <3> QED BY <3>1, <3>2
  <2>7. h = [i \in 0 .. k |-> h[i]] /\ Reads(t, wire, target, h, k)
    BY <2>2, <2>6 DEF Reads
  <2> QED BY <1>1, <2>3, <2>7
<1>4. \A k \in 1 .. n + 1 : k \in S
  <2>1. n + 1 \in Nat
    OBVIOUS
  <2> QED BY <1>2, <1>3, <2>1, Climb
<1>5. n + 1 \in 1 .. n + 1 /\ (n + 1) - 1 = n
  OBVIOUS
<1>6. n + 1 \in S
  BY <1>4, <1>5
<1> QED BY <1>1, <1>5, <1>6

LEMMA ReadsUnique ==
    ASSUME NEW t, NEW v, NEW w, NEW target, NEW g, NEW h, NEW n \in Nat, Agree(v, w, n),
           Reads(t, v, target, g, n), Reads(t, w, target, h, n)
    PROVE  g[n] = h[n]
<1>1. PICK S : S = {k \in Nat : k - 1 \in 0 .. n => g[k - 1] = h[k - 1]}
  OBVIOUS
<1>2. 1 \in S
  BY <1>1 DEF Reads
<1>3. ASSUME NEW k \in 1 .. n + 1, k \in S, k + 1 <= n + 1 PROVE k + 1 \in S
  <2>1. k \in 1 .. n /\ k \in 0 .. n /\ k # 0 /\ k - 1 \in 0 .. n /\ (k + 1) - 1 = k /\ k + 1 \in Nat
    BY <1>3
  <2>2. g[k - 1] = h[k - 1] /\ v[k] = w[k]
    BY <1>1, <1>3, <2>1 DEF Agree
  <2>3. g[k] = ReadField(t, g[k - 1], v[k]) /\ h[k] = ReadField(t, h[k - 1], w[k])
    BY <2>1 DEF Reads
  <2> QED BY <1>1, <2>1, <2>2, <2>3
<1>4. \A k \in 1 .. n + 1 : k \in S
  <2>1. n + 1 \in Nat
    OBVIOUS
  <2> QED BY <1>2, <1>3, <2>1, Climb
<1>5. n + 1 \in 1 .. n + 1 /\ (n + 1) - 1 = n /\ n \in 0 .. n
  OBVIOUS
<1>6. n + 1 \in S
  BY <1>4, <1>5
<1> QED BY <1>1, <1>5, <1>6

LEMMA ReadFacts ==
    ASSUME NEW t, NEW wire, NEW target, Len(wire) \in Nat
    PROVE  \E g : /\ Reads(t, wire, target, g, Len(wire))
                 /\ internalBinaryRead(t, wire, target) = g[Len(wire)]
<1>1. PICK g : g = [i \in 0 .. Len(wire) |-> g[i]] /\ Reads(t, wire, target, g, Len(wire))
  BY ReadsExist
<1>2. g = [i \in 0 .. Len(wire) |-> IF i = 0 THEN target ELSE ReadField(t, g[i - 1], wire[i])]
  BY <1>1 DEF Reads
<1>3. PICK h : /\ h = [i \in 0 .. Len(wire) |-> IF i = 0 THEN target ELSE ReadField(t, h[i - 1], wire[i])]
               /\ internalBinaryRead(t, wire, target) = h[Len(wire)]
  BY <1>2 DEF internalBinaryRead
<1>4. Reads(t, wire, target, h, Len(wire))
  BY <1>3 DEF Reads
<1> QED BY <1>3, <1>4

\* Nothing to read leaves the target as it is.
LEMMA ReadEmpty == ASSUME NEW t, NEW target PROVE internalBinaryRead(t, <<>>, target) = target
<1>1. Len(<<>>) = 0 /\ 0 \in Nat /\ 0 \in 0 .. 0
  OBVIOUS
<1>2. PICK g : Reads(t, <<>>, target, g, 0) /\ internalBinaryRead(t, <<>>, target) = g[0]
  BY <1>1, ReadFacts
<1> QED BY <1>1, <1>2 DEF Reads

\* One more field is one more turn of the loop.
LEMMA ReadAppend ==
    ASSUME NEW t, NEW target, NEW D, NEW w \in Seq(D), NEW e \in D
    PROVE  internalBinaryRead(t, Append(w, e), target) =
              ReadField(t, internalBinaryRead(t, w, target), e)
<1>1. PICK v, n : v = Append(w, e) /\ n = Len(w)
  OBVIOUS
<1>2. n \in Nat /\ Len(v) = n + 1 /\ n + 1 \in Nat /\ Agree(v, w, n) /\ v[n + 1] = e
  BY <1>1 DEF Agree
<1>3. PICK g : Reads(t, v, target, g, n + 1) /\ internalBinaryRead(t, v, target) = g[n + 1]
  BY <1>2, ReadFacts
<1>4. PICK h : Reads(t, w, target, h, n) /\ internalBinaryRead(t, w, target) = h[n]
  BY <1>1, <1>2, ReadFacts
<1>5. n + 1 \in 0 .. n + 1 /\ n + 1 # 0 /\ (n + 1) - 1 = n /\ \A i \in 0 .. n : i \in 0 .. n + 1
  BY <1>2
<1>6. Reads(t, v, target, g, n)
  BY <1>3, <1>5 DEF Reads
<1>7. g[n] = h[n]
  BY <1>2, <1>4, <1>6, ReadsUnique
<1>8. g[n + 1] = ReadField(t, g[n], v[n + 1])
  BY <1>3, <1>5 DEF Reads
<1> QED BY <1>1, <1>2, <1>3, <1>4, <1>7, <1>8
-----------------------------------------------------------------------------
(* Induction over the length of a sequence. *)

LEMMA Induct ==
    ASSUME NEW S, 0 \in S, \A k \in Nat : k \in S => k + 1 \in S
    PROVE  \A n \in Nat : n \in S
<1> SUFFICES ASSUME NEW n \in Nat PROVE n \in S
  OBVIOUS
<1>1. PICK R : R = {k \in Nat : k - 1 \in S}
  OBVIOUS
<1>2. 1 \in R
  BY <1>1
<1>3. ASSUME NEW k \in 1 .. n + 1, k \in R, k + 1 <= n + 1 PROVE k + 1 \in R
  <2>1. k - 1 \in Nat /\ (k - 1) + 1 = (k + 1) - 1 /\ k + 1 \in Nat
    BY <1>3
  <2>2. k - 1 \in S
    BY <1>1, <1>3
  <2>3. (k + 1) - 1 \in S
    BY <2>1, <2>2
  <2> QED BY <1>1, <2>1, <2>3
<1>4. \A k \in 1 .. n + 1 : k \in R
  <2>1. n + 1 \in Nat
    OBVIOUS
  <2> QED BY <1>2, <1>3, <2>1, Climb
<1>5. n + 1 \in 1 .. n + 1 /\ (n + 1) - 1 = n
  OBVIOUS
<1>6. n + 1 \in R
  BY <1>4, <1>5
<1> QED BY <1>1, <1>5, <1>6

LEMMA LastOff ==
    ASSUME NEW D, NEW k \in Nat, NEW s \in Seq(D), Len(s) = k + 1
    PROVE  /\ SubSeq(s, 1, k) \in Seq(D) /\ Len(SubSeq(s, 1, k)) = k /\ s[k + 1] \in D
           /\ s = Append(SubSeq(s, 1, k), s[k + 1])
  OBVIOUS

\* A wire in two parts is read part by part.
LEMMA ReadConcat ==
    ASSUME NEW t, NEW target, NEW D, NEW a \in Seq(D), NEW b \in Seq(D)
    PROVE  internalBinaryRead(t, a \o b, target) =
              internalBinaryRead(t, b, internalBinaryRead(t, a, target))
<1>1. PICK S : S = {k \in Nat : \A c \in Seq(D) : Len(c) = k =>
                        internalBinaryRead(t, a \o c, target) =
                           internalBinaryRead(t, c, internalBinaryRead(t, a, target))}
  OBVIOUS
<1>2. 0 \in S
  <2>1. ASSUME NEW c \in Seq(D), Len(c) = 0 PROVE a \o c = a /\ c = <<>>
    BY <2>1
  <2> QED BY <1>1, <2>1, ReadEmpty
<1>3. ASSUME NEW k \in Nat, k \in S PROVE k + 1 \in S
  <2>1. ASSUME NEW c \in Seq(D), Len(c) = k + 1
        PROVE  internalBinaryRead(t, a \o c, target) =
                  internalBinaryRead(t, c, internalBinaryRead(t, a, target))
    <3>1. PICK r \in Seq(D), e \in D : Len(r) = k /\ c = Append(r, e)
      <4>1. SubSeq(c, 1, k) \in Seq(D) /\ Len(SubSeq(c, 1, k)) = k /\ c[k + 1] \in D
        BY <2>1, LastOff
      <4>2. c = Append(SubSeq(c, 1, k), c[k + 1])
        BY <2>1, LastOff
      <4> QED BY <4>1, <4>2, Zenon
    <3>2. PICK u \in Seq(D) : u = a \o r
      <4>1. a \o r \in Seq(D)
        OBVIOUS
      <4> QED BY <4>1, Zenon
    <3>6. a \o c = Append(u, e)
      BY <3>1, <3>2
    <3>3. internalBinaryRead(t, u, target) =
             internalBinaryRead(t, r, internalBinaryRead(t, a, target))
      BY <1>1, <1>3, <3>1, <3>2
    <3>4. internalBinaryRead(t, Append(u, e), target) =
             ReadField(t, internalBinaryRead(t, u, target), e)
      BY ReadAppend
    <3>5. internalBinaryRead(t, Append(r, e), internalBinaryRead(t, a, target)) =
             ReadField(t, internalBinaryRead(t, r, internalBinaryRead(t, a, target)), e)
      BY ReadAppend
    <3> QED BY <3>1, <3>2, <3>3, <3>4, <3>5, <3>6
  <2> QED BY <1>1, <2>1
<1>4. Len(b) \in Nat
  OBVIOUS
<1>5. Len(b) \in S
  BY <1>2, <1>3, <1>4, Induct
<1> QED BY <1>1, <1>5

-----------------------------------------------------------------------------
(* One turn of the loop, case by case. *)

LEMMA OneFieldPerNumber ==
    ASSUME NEW t \in DOMAIN MessageType, NEW f \in Fields(t)
    PROVE  Numbered(t, Field(t, f).no) = {f}
  BY Schema DEF Numbered

LEMMA ReadsUnknown ==
    ASSUME NEW t, NEW m, NEW e, Numbered(t, e.no) = {}
    PROVE  ReadField(t, m, e) = [m EXCEPT ![UNKNOWN] = Append(@, e)]
  BY DEF ReadField

LEMMA TheField ==
    ASSUME NEW t \in DOMAIN MessageType, NEW f \in Fields(t), NEW n, n = Field(t, f).no
    PROVE  Numbered(t, n) # {} /\ (CHOOSE g \in Numbered(t, n) : TRUE) = f
<1>1. PICK known : known = Numbered(t, n)
  OBVIOUS
<1>2. known = {f}
  BY <1>1, OneFieldPerNumber
<1>3. known # {} /\ (CHOOSE g \in known : TRUE) = f
  BY <1>2
<1> QED BY <1>1, <1>3

Unpack(F, data) == [i \in DOMAIN data |-> Scalar(F.T, data[i])]

Extended(m, f, s) == [m EXCEPT ![f] = m[f] \o s]

LEMMA ReadsPacked ==
    ASSUME NEW t \in DOMAIN MessageType, NEW f \in Fields(t), NEW m, NEW e,
           e.no = Field(t, f).no, Field(t, f).repeat = "packed", e.wt = "len"
    PROVE  ReadField(t, m, e) = Extended(m, f, Unpack(Field(t, f), e.data))
  BY TheField DEF ReadField, Unpack, Extended

LEMMA ReadsOne ==
    ASSUME NEW t \in DOMAIN MessageType, NEW f \in Fields(t), NEW m, NEW e,
           e.no = Field(t, f).no, Field(t, f).repeat = "no"
    PROVE  ReadField(t, m, e) = [m EXCEPT ![f] = Value(Field(t, f), e.data, m[f])]
  BY TheField DEF ReadField

LEMMA ReadsMany ==
    ASSUME NEW t \in DOMAIN MessageType, NEW f \in Fields(t), NEW m, NEW e,
           e.no = Field(t, f).no, Field(t, f).repeat # "no",
           Field(t, f).repeat = "packed" => e.wt # "len"
    PROVE  ReadField(t, m, e) = [m EXCEPT ![f] = Append(m[f], Value(Field(t, f), e.data, Undefined))]
  BY TheField DEF ReadField

LEMMA ReadSingle ==
    ASSUME NEW t, NEW e, NEW target
    PROVE  internalBinaryRead(t, <<e>>, target) = ReadField(t, target, e)
<1>1. PICK D : D = {e}
  OBVIOUS
<1>2. PICK d \in D : d = e
  BY <1>1
<1>3. PICK w \in Seq(D) : w = <<>>
  <2>1. <<>> \in Seq(D)
    OBVIOUS
  <2> QED BY <2>1, Zenon
<1>4. internalBinaryRead(t, Append(w, d), target) = ReadField(t, internalBinaryRead(t, w, target), d)
  BY ReadAppend
<1>5. internalBinaryRead(t, w, target) = target
  BY <1>3, ReadEmpty
<1>6. Append(w, d) = <<e>>
  BY <1>2, <1>3
<1> QED BY <1>2, <1>4, <1>5, <1>6

-----------------------------------------------------------------------------
(* What is written is read again. *)

LEMMA ModOfSum ==
    ASSUME NEW p \in Nat \ {0}, NEW q \in Int, NEW r \in 0 .. p - 1
    PROVE  (q * p + r) % p = r
  OBVIOUS

LEMMA ModOfSmall ==
    ASSUME NEW p \in Nat \ {0}, NEW r \in 0 .. p - 1 PROVE r % p = r
  OBVIOUS

LEMMA ModOfNegative ==
    ASSUME NEW p \in Nat \ {0}, NEW r \in 1 .. p PROVE (-r) % p = p - r
  OBVIOUS

LEMMA ModOfDifference ==
    ASSUME NEW p \in Nat \ {0}, NEW q \in Nat, NEW r \in 1 .. p
    PROVE  (q * p - r) % p = p - r
<1>1. PICK s \in Int : s = q - 1
  OBVIOUS
<1>2. q * p - r = s * p + (p - r)
  BY <1>1
<1>3. p - r \in 0 .. p - 1
  OBVIOUS
<1> QED BY <1>2, <1>3, ModOfSum

\* A signed number of w bits survives being taken modulo a multiple of 2^w.
LEMMA SignBack ==
    ASSUME NEW p \in Nat \ {0}, NEW q \in Nat \ {0}, NEW M \in Nat, M = q * (2 * p),
           NEW v \in -p .. p - 1
    PROVE  LET n == v % M
               r == n % (2 * p)
           IN  v = IF r >= p THEN r - 2 * p ELSE r
<1>1. PICK P \in Nat \ {0} : P = 2 * p
  OBVIOUS
<1>2. M \in Nat \ {0} /\ M = q * P /\ M >= P
  BY <1>1
<1>3. CASE v >= 0
  <2>1. v \in 0 .. M - 1 /\ v \in 0 .. P - 1
    BY <1>1, <1>2, <1>3
  <2>2. v % M = v /\ v % P = v
    BY <1>2, <2>1, ModOfSmall
  <2> QED BY <1>1, <1>3, <2>2
<1>4. CASE v < 0
  <2>1. PICK r \in 1 .. p : r = -v
    BY <1>4
  <2>2. r \in 1 .. M /\ r \in 1 .. P /\ v = -r
    BY <1>1, <1>2, <2>1
  <2>3. v % M = M - r
    BY <1>2, <2>2, ModOfNegative
  <2>4. (M - r) % P = P - r
    <3>1. (q * P - r) % P = P - r
      BY <2>2, ModOfDifference
    <3> QED BY <1>2, <3>1
  <2>5. P - r >= p /\ (P - r) - P = v
    BY <1>1, <2>1
  <2> QED BY <1>1, <2>3, <2>4, <2>5
<1> QED BY <1>3, <1>4

LEMMA PowersOfTwo ==
    /\ 2^(W32 - 1) \in Nat \ {0} /\ 2^W32 \in Nat \ {0} /\ 2^W32 = 2 * 2^(W32 - 1)
    /\ 2^(W64 - 1) \in Nat \ {0} /\ 2^W64 \in Nat \ {0} /\ 2^W64 = 2 * 2^(W64 - 1)
    /\ 2^(W64 - W32) \in Nat \ {0} /\ 2^W64 = 2^(W64 - W32) * 2^W32 /\ 2^W32 <= 2^W64
<1>1. PICK a, b, c, d, e : a = 2^(W32 - 1) /\ b = 2^W32 /\ c = 2^(W64 - 1) /\ d = 2^W64 /\ e = 2^(W64 - W32)
  OBVIOUS
<1>2. a \in Nat \ {0} /\ b = 2 * a /\ c \in Nat \ {0} /\ d = 2 * c /\ e \in Nat \ {0} /\ d = e * b
  BY <1>1, Powers
<1>3. b \in Nat \ {0} /\ d \in Nat \ {0}
  BY <1>2
<1>4. b <= e * b
  BY <1>2, <1>3
<1> QED BY <1>1, <1>2, <1>3, <1>4

\* The writer's varint of a number it accepts is the number for the reader.
LEMMA ScalarBack ==
    ASSUME NEW T \in ScalarType, NEW v, Accepts(T, v), T = "bool" => v \in BOOLEAN
    PROVE  Scalar(T, IF T \in {"string", "bytes"} THEN v ELSE Varint(T, v)) = v
<1>1. CASE T \in {"string", "bytes"}
  BY <1>1 DEF Scalar
<1>2. CASE T = "bool"
  BY <1>2 DEF Scalar, Varint
<1>3. CASE T \in {"int64", "int32", "enum", "uint64", "uint32"}
  <2>1. v \in RangeOf(T) /\ Varint(T, v) = v % 2^W64
    BY <1>3 DEF Accepts, Varint
  <2>2. CASE T = "int64"
    <3>1. v \in -(2^(W64 - 1)) .. 2^(W64 - 1) - 1
      BY <2>1, <2>2 DEF RangeOf, Signed
    <3>2. PICK p \in Nat \ {0}, M \in Nat, q \in Nat \ {0} :
             p = 2^(W64 - 1) /\ M = 2^W64 /\ M = 2 * p /\ q = 1 /\ M = q * (2 * p)
      BY PowersOfTwo
    <3>3. LET r == (v % M) % (2 * p) IN v = IF r >= p THEN r - 2 * p ELSE r
      BY <3>1, <3>2, SignBack
    <3>4. v = SignExtend(W64, v % 2^W64)
      BY <3>2, <3>3 DEF SignExtend
    <3> QED BY <2>1, <2>2, <3>4 DEF Scalar
  <2>3. CASE T \in {"int32", "enum"}
    <3>1. v \in -(2^(W32 - 1)) .. 2^(W32 - 1) - 1
      BY <2>1, <2>3 DEF RangeOf, Signed
    <3>2. 2^W64 = 2^(W64 - W32) * (2 * 2^(W32 - 1)) /\ 2^W32 = 2 * 2^(W32 - 1)
      BY PowersOfTwo
    <3>3. v = SignExtend(W32, v % 2^W64)
      BY <3>1, <3>2, PowersOfTwo, SignBack DEF SignExtend
    <3> QED BY <2>1, <2>3, <3>3 DEF Scalar
  <2>4. CASE T = "uint64"
    <3>1. v \in 0 .. 2^W64 - 1
      BY <2>1, <2>4 DEF RangeOf, Unsigned
    <3>2. v % 2^W64 = v
      BY <3>1, PowersOfTwo, ModOfSmall
    <3> QED BY <2>1, <2>4, <3>2 DEF Scalar
  <2>5. CASE T = "uint32"
    <3>1. v \in 0 .. 2^W32 - 1
      BY <2>1, <2>5 DEF RangeOf, Unsigned
    <3>2. v % 2^W32 = v /\ v \in 0 .. 2^W64 - 1
      BY <3>1, PowersOfTwo, ModOfSmall
    <3>3. v % 2^W64 = v
      BY <3>2, PowersOfTwo, ModOfSmall
    <3> QED BY <2>1, <2>5, <3>2, <3>3 DEF Scalar
  <2> QED BY <1>3, <2>2, <2>3, <2>4, <2>5
<1> QED BY <1>1, <1>2, <1>3 DEF ScalarType
\* What one value of a field has to be for the writer.
Ok(F, v) == IF IsMessage(F.T) THEN v = Undefined \/ CanWrite(F.T, v) ELSE Accepts(F.T, v)

\* Every filling of t that can be written is read again as it was.
RoundTrip(t) ==
    \A args \in Arguments[t] :
        Writable(t, create(t, args)) =>
            internalBinaryRead(t, internalBinaryWrite(t, create(t, args)), create(t, NoFields))
                = create(t, args)

\* m is a function on the fields of t and UNKNOWN.
IsA(t, m) == m = [x \in Fields(t) \cup {UNKNOWN} |-> m[x]]

\* What is known of the fields inside t when t is looked at.
Within(t) == \A f \in Fields(t) : IsMessage(Field(t, f).T) => RoundTrip(Field(t, f).T)

LEMMA NoScalar ==
    ASSUME NEW T, IsMessage(T) PROVE T \notin {"string", "bytes", "bool"}
  BY Schema DEF IsMessage, ScalarType

LEMMA UnsetMessage ==
    ASSUME NEW F, F.repeat = "no", IsMessage(F.T) PROVE Default(F) = Undefined
  BY NoScalar DEF Default

LEMMA ValueBack ==
    ASSUME Recursion, NEW t \in DOMAIN MessageType, Within(t), NEW f \in Fields(t),
           NEW v, IsMessage(Field(t, f).T) => v # Undefined, Fills(Field(t, f), v), Ok(Field(t, f), v),
           NEW target, IsMessage(Field(t, f).T) => target = Undefined
    PROVE  Value(Field(t, f), Payload(Field(t, f), v), target) = v
<1>1. PICK F : F = Field(t, f)
  OBVIOUS
<1>2. CASE IsMessage(F.T)
  <2>1. PICK args \in Arguments[F.T] : v = create(F.T, args)
    BY <1>1, <1>2, NoScalar DEF Fills
  <2>2. F.T \in DOMAIN MessageType /\ v # Undefined /\ target = Undefined
    BY <1>1, <1>2 DEF IsMessage
  <2>3. Writable(F.T, v)
    BY <1>1, <1>2, <2>2 DEF Ok, Recursion
  <2>4. internalBinaryRead(F.T, internalBinaryWrite(F.T, v), create(F.T, NoFields)) = v
    BY <1>1, <1>2, <2>1, <2>3 DEF Within, RoundTrip
  <2>5. Payload(F, v) = internalBinaryWrite(F.T, v)
    <3>1. F.T \notin {"string", "bytes"}
      BY <1>2, NoScalar
    <3>2. Payload(F, v) = WriteMessage(F.T, v)
      BY <1>2, <3>1 DEF Payload
    <3> QED BY <2>2, <3>2 DEF Recursion
  <2>6. Value(F, Payload(F, v), target) = ReadMessage(F.T, Payload(F, v), create(F.T, NoFields))
    BY <1>2, <2>2 DEF Value
  <2>7. ReadMessage(F.T, Payload(F, v), create(F.T, NoFields))
           = internalBinaryRead(F.T, Payload(F, v), create(F.T, NoFields))
    BY <2>2 DEF Recursion
  <2> QED BY <1>1, <2>4, <2>5, <2>6, <2>7
<1>3. CASE ~IsMessage(F.T)
  <2>1. F.T \in ScalarType
    BY <1>1, <1>3, Schema
  <2>2. Accepts(F.T, v) /\ (F.T = "bool" => v \in BOOLEAN)
    BY <1>1, <1>3 DEF Ok, Fills
  <2>3. Payload(F, v) = IF F.T \in {"string", "bytes"} THEN v ELSE Varint(F.T, v)
    BY <1>3 DEF Payload
  <2>4. Value(F, Payload(F, v), target) = Scalar(F.T, Payload(F, v))
    BY <1>3 DEF Value
  <2> QED BY <1>1, <2>1, <2>2, <2>3, <2>4, ScalarBack
<1> QED BY <1>2, <1>3

\* The wire of one field sets that field and nothing else.
LEMMA OneBack ==
    ASSUME Recursion, NEW t \in DOMAIN MessageType, Within(t), NEW f \in Fields(t),
           Field(t, f).repeat = "no", NEW v, Fills(Field(t, f), v), Ok(Field(t, f), v),
           NEW base, IsA(t, base), base[f] = Default(Field(t, f))
    PROVE  internalBinaryRead(t, WriteField(Field(t, f), v), base) = [base EXCEPT ![f] = v]
<1>1. PICK F : F = Field(t, f)
  OBVIOUS
<1>2. f \in Fields(t) \cup {UNKNOWN}
  OBVIOUS
<1>3. CASE v = Default(F)
  <2>1. WriteField(F, v) = <<>>
    BY <1>1, <1>3 DEF WriteField
  <2>2. [base EXCEPT ![f] = v] = base
    BY <1>1, <1>2, <1>3 DEF IsA
  <2> QED BY <1>1, <2>1, <2>2, ReadEmpty
<1>4. CASE v # Default(F)
  <2>1. PICK e : e = Entry(F, Payload(F, v))
    OBVIOUS
  <2>2. WriteField(F, v) = <<e>>
    BY <1>1, <1>4, <2>1 DEF WriteField
  <2>3. e.no = F.no /\ e.data = Payload(F, v)
    BY <2>1 DEF Entry
  <2>4. internalBinaryRead(t, <<e>>, base) = ReadField(t, base, e)
    BY ReadSingle
  <2>5. ReadField(t, base, e) = [base EXCEPT ![f] = Value(F, e.data, base[f])]
    BY <1>1, <2>3, ReadsOne
  <2>6. IsMessage(F.T) => base[f] = Undefined /\ v # Undefined
    BY <1>1, <1>4, UnsetMessage
  <2>7. Value(F, Payload(F, v), base[f]) = v
    BY <1>1, <2>6, ValueBack
  <2> QED BY <1>1, <1>2, <2>2, <2>3, <2>4, <2>5, <2>7 DEF IsA
<1> QED BY <1>3, <1>4
LEMMA ManyBack ==
    ASSUME Recursion, NEW t \in DOMAIN MessageType, Within(t), NEW f \in Fields(t),
           Field(t, f).repeat = "unpacked",
           NEW V, \A x \in V : Fills(Field(t, f), x) /\ x # Undefined /\ Ok(Field(t, f), x), NEW v \in Seq(V),
           NEW base, IsA(t, base), base[f] = <<>>
    PROVE  internalBinaryRead(t, WriteField(Field(t, f), v), base) = [base EXCEPT ![f] = v]
<1>1. PICK F, D : F = Field(t, f) /\ D = {Entry(F, Payload(F, x)) : x \in V}
  OBVIOUS
<1>2. f \in Fields(t) \cup {UNKNOWN}
  OBVIOUS
<1>3. PICK S : S = {k \in Nat : \A u \in Seq(V) : Len(u) = k =>
                        internalBinaryRead(t, WriteField(F, u), base) = [base EXCEPT ![f] = u]}
  OBVIOUS
<1>4. ASSUME NEW u \in Seq(V)
      PROVE  WriteField(F, u) = [i \in 1 .. Len(u) |-> Entry(F, Payload(F, u[i]))] /\ WriteField(F, u) \in Seq(D)
  <2>1. WriteField(F, u) = [i \in DOMAIN u |-> Entry(F, Payload(F, u[i]))]
    BY <1>1 DEF WriteField
  <2>2. DOMAIN u = 1 .. Len(u) /\ Len(u) \in Nat /\ \A i \in 1 .. Len(u) : u[i] \in V
    OBVIOUS
  <2>3. \A i \in 1 .. Len(u) : Entry(F, Payload(F, u[i])) \in D
    BY <1>1, <2>2
  <2> QED BY <2>1, <2>2, <2>3
<1>5. 0 \in S
  <2>1. ASSUME NEW u \in Seq(V), Len(u) = 0
        PROVE  internalBinaryRead(t, WriteField(F, u), base) = [base EXCEPT ![f] = u]
    <3>1. u = <<>>
      BY <2>1, EmptySeq
    <3>3. WriteField(F, u) = <<>>
      <4>1. WriteField(F, u) = [i \in 1 .. Len(u) |-> Entry(F, Payload(F, u[i]))]
        BY <1>4
      <4>2. WriteField(F, u) \in Seq(D)
        BY <1>4
      <4>3. Len(WriteField(F, u)) = 0
        BY <2>1, <4>1
      <4> QED BY <4>2, <4>3, EmptySeq
    <3>2. [base EXCEPT ![f] = u] = base
      BY <1>2, <3>1 DEF IsA
    <3> QED BY <3>2, <3>3, ReadEmpty
  <2> QED BY <1>3, <2>1
<1>6. ASSUME NEW k \in Nat, k \in S PROVE k + 1 \in S
  <2>1. ASSUME NEW u \in Seq(V), Len(u) = k + 1
        PROVE  internalBinaryRead(t, WriteField(F, u), base) = [base EXCEPT ![f] = u]
    <3>1. PICK r \in Seq(V), x \in V : Len(r) = k /\ u = Append(r, x)
      <4>1. SubSeq(u, 1, k) \in Seq(V) /\ Len(SubSeq(u, 1, k)) = k /\ u[k + 1] \in V
        BY <2>1, LastOff
      <4>2. u = Append(SubSeq(u, 1, k), u[k + 1])
        BY <2>1, LastOff
      <4> QED BY <4>1, <4>2, Zenon
    <3>2. PICK w \in Seq(D) : w = WriteField(F, r)
      <4>1. WriteField(F, r) \in Seq(D)
        BY <1>4
      <4> QED BY <4>1, Zenon
    <3>3. PICK e \in D : e = Entry(F, Payload(F, x))
      BY <1>1
    <3>4. WriteField(F, u) = Append(w, e)
      <4>1. /\ WriteField(F, u) = [i \in 1 .. Len(u) |-> Entry(F, Payload(F, u[i]))]
            /\ w = [i \in 1 .. Len(r) |-> Entry(F, Payload(F, r[i]))]
        BY <1>4, <3>2
      <4>2. \A i \in 1 .. k : u[i] = r[i]
        BY <3>1
      <4>3. u[k + 1] = x /\ Len(w) = k
        BY <3>1, <4>1
      <4> QED BY <2>1, <3>1, <3>3, <4>1, <4>2, <4>3
    <3>5. internalBinaryRead(t, w, base) = [base EXCEPT ![f] = r]
      BY <1>3, <1>6, <3>1, <3>2
    <3>6. internalBinaryRead(t, Append(w, e), base) = ReadField(t, internalBinaryRead(t, w, base), e)
      BY ReadAppend
    <3>7. e.no = F.no /\ e.data = Payload(F, x)
      BY <3>3 DEF Entry
    <3>8. PICK m : m = [base EXCEPT ![f] = r]
      OBVIOUS
    <3>9. ReadField(t, m, e) = [m EXCEPT ![f] = Append(m[f], Value(F, e.data, Undefined))]
      BY <1>1, <3>7, ReadsMany
    <3>10. Value(F, Payload(F, x), Undefined) = x
      BY <1>1, ValueBack
    <3>11. m[f] = r
      BY <1>2, <3>8 DEF IsA
    <3>12. [m EXCEPT ![f] = u] = [base EXCEPT ![f] = u]
      BY <1>2, <3>8 DEF IsA
    <3> QED BY <3>1, <3>4, <3>5, <3>6, <3>7, <3>8, <3>9, <3>10, <3>11, <3>12
  <2> QED BY <1>3, <2>1
<1>7. Len(v) \in Nat
  OBVIOUS
<1>8. Len(v) \in S
  BY <1>5, <1>6, <1>7, Induct
<1> QED BY <1>1, <1>3, <1>8

LEMMA PackedBack ==
    ASSUME Recursion, NEW t \in DOMAIN MessageType, Within(t), NEW f \in Fields(t),
           Field(t, f).repeat = "packed",
           NEW V, \A x \in V : Fills(Field(t, f), x) /\ x # Undefined /\ Ok(Field(t, f), x), NEW v \in Seq(V),
           NEW base, IsA(t, base), base[f] = <<>>
    PROVE  internalBinaryRead(t, WriteField(Field(t, f), v), base) = [base EXCEPT ![f] = v]
<1>1. PICK F : F = Field(t, f)
  OBVIOUS
<1>2. f \in Fields(t) \cup {UNKNOWN}
  OBVIOUS
<1>3. CASE v = <<>>
  <2>1. WriteField(F, v) = <<>>
    BY <1>1, <1>3 DEF WriteField
  <2>2. [base EXCEPT ![f] = v] = base
    BY <1>2, <1>3 DEF IsA
  <2> QED BY <1>1, <2>1, <2>2, ReadEmpty
<1>4. CASE v # <<>>
  <2>1. PICK e : e = [no |-> F.no, wt |-> "len", data |-> [i \in DOMAIN v |-> Payload(F, v[i])]]
    OBVIOUS
  <2>2. WriteField(F, v) = <<e>>
    BY <1>1, <1>4, <2>1 DEF WriteField
  <2>3. e.no = F.no /\ e.wt = "len" /\ e.data = [i \in DOMAIN v |-> Payload(F, v[i])]
    BY <2>1
  <2>4. ReadField(t, base, e) =
           [base EXCEPT ![f] = base[f] \o Unpack(F, e.data)]
    <3>1. ReadField(t, base, e) = Extended(base, f, Unpack(F, e.data))
      BY <1>1, <2>3, ReadsPacked
    <3> QED BY <3>1 DEF Extended
  <2>5. ~IsMessage(F.T)
    BY <1>1, Schema DEF Delimited
  <2>6. ASSUME NEW i \in DOMAIN v PROVE Scalar(F.T, Payload(F, v[i])) = v[i]
    <3>1. PICK x \in V : x = v[i]
      OBVIOUS
    <3>2. Value(F, Payload(F, x), Undefined) = x
      BY <1>1, <2>5, ValueBack
    <3> QED BY <2>5, <3>1, <3>2 DEF Value
  <2>7. Unpack(F, e.data) = v
    <3>1. DOMAIN e.data = DOMAIN v /\ \A i \in DOMAIN v : e.data[i] = Payload(F, v[i])
      BY <2>3
    <3>2. Unpack(F, e.data) = [i \in DOMAIN v |-> v[i]]
      BY <2>6, <3>1 DEF Unpack
    <3> QED BY <3>2
  <2>8. base[f] \o v = v
    OBVIOUS
  <2>9. internalBinaryRead(t, <<e>>, base) = ReadField(t, base, e)
    BY ReadSingle
  <2> QED BY <1>1, <2>2, <2>4, <2>7, <2>8, <2>9
<1> QED BY <1>3, <1>4
LEMMA Created ==
    ASSUME NEW t \in DOMAIN MessageType, NEW args \in Arguments[t]
    PROVE  /\ create(t, args) = [x \in Fields(t) \cup {UNKNOWN} |-> IF x = UNKNOWN THEN <<>> ELSE args[x]]
           /\ \A x \in Fields(t) : x # UNKNOWN /\ create(t, args)[x] = args[x]
           /\ create(t, args)[UNKNOWN] = <<>>
<1>1. DOMAIN args = Fields(t) /\ UNKNOWN \notin Fields(t)
  BY ArgumentsAssumption, Schema
<1> QED BY <1>1 DEF create

LEMMA Cleared ==
    ASSUME NEW t \in DOMAIN MessageType
    PROVE  /\ IsA(t, create(t, NoFields)) /\ create(t, NoFields)[UNKNOWN] = <<>>
           /\ \A x \in Fields(t) : create(t, NoFields)[x] = Default(Field(t, x))
<1>1. UNKNOWN \notin Fields(t) /\ DOMAIN NoFields = {}
  BY Schema DEF NoFields
<1>2. create(t, NoFields) =
         [x \in Fields(t) \cup {UNKNOWN} |-> IF x = UNKNOWN THEN <<>> ELSE Default(Field(t, x))]
  BY <1>1 DEF create
<1> QED BY <1>1, <1>2 DEF IsA

LEMMA FieldBack ==
    ASSUME Recursion, NEW t \in DOMAIN MessageType, Within(t), NEW f \in Fields(t),
           NEW args \in Arguments[t], Writable(t, create(t, args)),
           NEW base, IsA(t, base), base[f] = Default(Field(t, f))
    PROVE  internalBinaryRead(t, WriteField(Field(t, f), args[f]), base) = [base EXCEPT ![f] = args[f]]
<1>1. PICK F, v : F = Field(t, f) /\ v = args[f]
  OBVIOUS
<1>2. create(t, args)[f] = v
  BY <1>1, Created
<1>3. F.repeat \in {"no", "unpacked", "packed"}
  BY <1>1, Schema
<1>4. CASE F.repeat = "no"
  <2>1. Fills(F, v)
    BY <1>1, <1>4, ArgumentsAssumption
  <2>2. Ok(F, v)
    BY <1>1, <1>2, <1>4 DEF Writable, Ok
  <2> QED BY <1>1, <1>4, <2>1, <2>2, OneBack
<1>5. CASE F.repeat # "no"
  <2>1. PICK V : V = Range(v)
    OBVIOUS
  <2>2. v \in Seq(V) /\ \A x \in V : Fills(F, x) /\ x # Undefined
    BY <1>1, <1>5, <2>1, ArgumentsAssumption
  <2>3. \A i \in DOMAIN v : Ok(F, v[i])
    BY <1>1, <1>2, <1>5 DEF Writable, Ok
  <2>4. \A x \in V : Fills(F, x) /\ x # Undefined /\ Ok(F, x)
    BY <2>1, <2>2, <2>3 DEF Range
  <2>5. base[f] = <<>>
    BY <1>1, <1>5 DEF Default
  <2>6. CASE F.repeat = "unpacked"
    BY <1>1, <2>2, <2>4, <2>5, <2>6, ManyBack
  <2>7. CASE F.repeat = "packed"
    BY <1>1, <2>2, <2>4, <2>5, <2>7, PackedBack
  <2> QED BY <1>3, <1>5, <2>6, <2>7
<1> QED BY <1>4, <1>5

LEMMA FieldWire ==
    ASSUME NEW t \in DOMAIN MessageType, NEW f \in Fields(t), NEW args \in Arguments[t]
    PROVE  WriteField(Field(t, f), args[f]) \in Seq(Range(WriteField(Field(t, f), args[f])))
<1>1. PICK F, v : F = Field(t, f) /\ v = args[f]
  OBVIOUS
<1>2. F.repeat \in {"no", "unpacked", "packed"}
  BY <1>1, Schema
<1>3. PICK w : w = WriteField(F, v)
  OBVIOUS
<1>4. CASE F.repeat = "unpacked"
  <2>1. PICK V : v \in Seq(V)
    BY <1>1, <1>4, ArgumentsAssumption
  <2>2. DOMAIN v = 1 .. Len(v) /\ Len(v) \in Nat
    BY <2>1
  <2>3. w = [i \in DOMAIN v |-> Entry(F, Payload(F, v[i]))]
    BY <1>3, <1>4 DEF WriteField
  <2>4. w = [i \in 1 .. Len(v) |-> w[i]]
    BY <2>2, <2>3
  <2>5. \A i \in 1 .. Len(v) : w[i] \in Range(w)
    BY <2>4 DEF Range
  <2>6. w \in Seq(Range(w))
    BY <2>2, <2>4, <2>5
  <2> QED BY <1>1, <1>3, <2>6
<1>5. CASE F.repeat # "unpacked"
  <2>1. w = <<>> \/ \E e : w = <<e>>
    BY <1>2, <1>3, <1>5 DEF WriteField
  <2>2. CASE w = <<>>
    <3>1. w \in Seq(Range(w))
      BY <2>2
    <3> QED BY <1>1, <1>3, <3>1
  <2>3. ASSUME NEW e, w = <<e>> PROVE w \in Seq(Range(w))
    <3>1. e = w[1] /\ 1 \in DOMAIN w
      BY <2>3
    <3>2. e \in Range(w)
      BY <3>1 DEF Range
    <3> QED BY <2>3, <3>2
  <2> QED BY <1>1, <1>3, <2>1, <2>2, <2>3
<1> QED BY <1>4, <1>5
\* What the writer writes for the field of number n, for the first k numbers,
\* and what has been read after them.
Written(t, m, n) ==
    IF Numbered(t, n) = {} THEN <<>>
    ELSE LET f == CHOOSE f \in Numbered(t, n) : TRUE
         IN  WriteField(Field(t, f), m[f])
Blocks(t, m, k) == [n \in 1 .. k |-> Written(t, m, n)]
Part(t, m, k) ==
    [x \in Fields(t) \cup {UNKNOWN} |->
        IF x # UNKNOWN /\ Field(t, x).no <= k THEN m[x] ELSE create(t, NoFields)[x]]

LEMMA WrittenIs ==
    ASSUME NEW t \in DOMAIN MessageType, NEW f \in Fields(t), NEW m, NEW n, n = Field(t, f).no
    PROVE  Written(t, m, n) = WriteField(Field(t, f), m[f])
<1>1. Numbered(t, n) # {} /\ (CHOOSE g \in Numbered(t, n) : TRUE) = f
  BY TheField
<1> QED BY <1>1 DEF Written

LEMMA PartStep ==
    ASSUME Recursion, NEW t \in DOMAIN MessageType, Within(t),
           NEW args \in Arguments[t], Writable(t, create(t, args)), NEW k \in Nat
    PROVE  LET m == create(t, args)
           IN  internalBinaryRead(t, Written(t, m, k + 1), Part(t, m, k)) = Part(t, m, k + 1)
<1>1. PICK m : m = create(t, args)
  OBVIOUS
<1>2. \A x \in Fields(t) : Field(t, x).no \in Int /\ x # UNKNOWN
  BY Schema
<1>3. CASE Numbered(t, k + 1) = {}
  <2>1. Written(t, m, k + 1) = <<>>
    BY <1>3 DEF Written
  <2>2. ASSUME NEW x \in Fields(t) PROVE Field(t, x).no <= k <=> Field(t, x).no <= k + 1
    <3>1. Field(t, x).no # k + 1
      BY <1>3 DEF Numbered
    <3> QED BY <1>2, <3>1
  <2>3. Part(t, m, k) = Part(t, m, k + 1)
    BY <2>2 DEF Part
  <2> QED BY <1>1, <2>1, <2>3, ReadEmpty
<1>4. CASE Numbered(t, k + 1) # {}
  <2>1. PICK f \in Fields(t) : Field(t, f).no = k + 1
    BY <1>4 DEF Numbered
  <2>2. Written(t, m, k + 1) = WriteField(Field(t, f), m[f])
    BY <2>1, WrittenIs
  <2>3. m[f] = args[f] /\ f # UNKNOWN /\ f \in Fields(t) \cup {UNKNOWN}
    BY <1>1, <1>2, Created
  <2>4. IsA(t, Part(t, m, k)) /\ Part(t, m, k)[f] = Default(Field(t, f))
    <3>1. ~(Field(t, f).no <= k)
      BY <2>1
    <3>2. Part(t, m, k)[f] = create(t, NoFields)[f]
      BY <2>3, <3>1 DEF Part
    <3>3. IsA(t, Part(t, m, k))
      BY DEF Part, IsA
    <3> QED BY <3>2, <3>3, Cleared
  <2>5. internalBinaryRead(t, WriteField(Field(t, f), args[f]), Part(t, m, k))
           = [Part(t, m, k) EXCEPT ![f] = args[f]]
    BY <2>4, FieldBack
  <2>6. ASSUME NEW x \in Fields(t), x # f PROVE Field(t, x).no <= k <=> Field(t, x).no <= k + 1
    <3>1. Field(t, x).no # k + 1
      BY <2>1, <2>6, Schema
    <3> QED BY <1>2, <3>1
  <2>7. [Part(t, m, k) EXCEPT ![f] = args[f]] = Part(t, m, k + 1)
    <3>1. Field(t, f).no <= k + 1
      BY <2>1
    <3>2. Part(t, m, k + 1)[f] = args[f]
      BY <2>3, <3>1 DEF Part
    <3>3. \A x \in (Fields(t) \cup {UNKNOWN}) \ {f} : Part(t, m, k + 1)[x] = Part(t, m, k)[x]
      BY <2>6 DEF Part
    <3>4. /\ Part(t, m, k + 1) = [x \in Fields(t) \cup {UNKNOWN} |-> Part(t, m, k + 1)[x]]
          /\ Part(t, m, k) = [x \in Fields(t) \cup {UNKNOWN} |-> Part(t, m, k)[x]]
      BY DEF Part
    <3> QED BY <2>3, <3>2, <3>3, <3>4
  <2> QED BY <1>1, <2>2, <2>3, <2>5, <2>7
<1> QED BY <1>3, <1>4

LEMMA BlocksBack ==
    ASSUME Recursion, NEW t \in DOMAIN MessageType, Within(t),
           NEW args \in Arguments[t], Writable(t, create(t, args)), NEW m, m = create(t, args),
           NEW D, \A n \in 1 .. LastNo(t) : Written(t, m, n) \in Seq(D), NEW k \in 0 .. LastNo(t)
    PROVE  /\ internalBinaryRead(t, FlattenSeq(Blocks(t, m, k)), create(t, NoFields)) = Part(t, m, k)
           /\ FlattenSeq(Blocks(t, m, k)) \in Seq(D)
<1>0. LastNo(t) \in Nat
  BY Schema
<1>1. PICK S : S = {j \in Nat : j <= LastNo(t) =>
                       /\ internalBinaryRead(t, FlattenSeq(Blocks(t, m, j)), create(t, NoFields)) = Part(t, m, j)
                       /\ FlattenSeq(Blocks(t, m, j)) \in Seq(D)}
  OBVIOUS
<1>2. 0 \in S
  <2>1. FlattenSeq(Blocks(t, m, 0)) = <<>>
    <3>1. Blocks(t, m, 0) = <<>>
      BY DEF Blocks
    <3> QED BY <3>1, FlattenEmpty
  <2>2. Part(t, m, 0) = create(t, NoFields)
    <3>1. \A x \in Fields(t) : ~(Field(t, x).no <= 0)
      BY <1>0, Schema
    <3> QED BY <3>1, Cleared DEF Part, IsA
  <2>3. <<>> \in Seq(D) /\ 0 \in Nat
    OBVIOUS
  <2>4. internalBinaryRead(t, FlattenSeq(Blocks(t, m, 0)), create(t, NoFields)) = Part(t, m, 0)
    BY <2>1, <2>2, ReadEmpty
  <2> QED BY <1>1, <2>1, <2>3, <2>4
<1>3. ASSUME NEW j \in Nat, j \in S PROVE j + 1 \in S
  <2>1. SUFFICES ASSUME j + 1 <= LastNo(t)
                 PROVE  /\ internalBinaryRead(t, FlattenSeq(Blocks(t, m, j + 1)), create(t, NoFields)) = Part(t, m, j + 1)
                        /\ FlattenSeq(Blocks(t, m, j + 1)) \in Seq(D)
    BY <1>1
  <2>2. \A n \in 1 .. j + 1 : n \in 1 .. LastNo(t)
    BY <1>0, <2>1
  <2>3. PICK ss \in Seq(Seq(D)) : ss = Blocks(t, m, j)
    <3>1. Blocks(t, m, j) \in Seq(Seq(D))
      BY <2>2 DEF Blocks
    <3> QED BY <3>1, Zenon
  <2>4. PICK x \in Seq(D) : x = Written(t, m, j + 1)
    <3>1. j + 1 \in 1 .. LastNo(t)
      BY <2>2
    <3> QED BY <3>1, Zenon
  <2>5. Blocks(t, m, j + 1) = Append(ss, x)
    BY <2>3, <2>4 DEF Blocks
  <2>6. FlattenSeq(Append(ss, x)) = FlattenSeq(ss) \o x
    BY FlattenAppend
  <2>7. PICK a \in Seq(D) : a = FlattenSeq(ss)
    BY FlattenType
  <2>8. internalBinaryRead(t, a, create(t, NoFields)) = Part(t, m, j)
    BY <1>0, <1>1, <1>3, <2>1, <2>3, <2>7
  <2>9. internalBinaryRead(t, a \o x, create(t, NoFields))
           = internalBinaryRead(t, x, internalBinaryRead(t, a, create(t, NoFields)))
    BY ReadConcat
  <2>10. internalBinaryRead(t, x, Part(t, m, j)) = Part(t, m, j + 1)
    BY <2>4, PartStep
  <2>11. a \o x \in Seq(D)
    OBVIOUS
  <2> QED BY <2>5, <2>6, <2>7, <2>8, <2>9, <2>10, <2>11
<1>4. k \in Nat /\ k <= LastNo(t)
  BY <1>0
<1>5. k \in S
  BY <1>2, <1>3, <1>4, Induct
<1> QED BY <1>1, <1>4, <1>5

\* A message is read again as it was if those inside it are.
LEMMA RoundTripOf ==
    ASSUME Recursion, NEW t \in DOMAIN MessageType, Within(t) PROVE RoundTrip(t)
<1> SUFFICES ASSUME NEW args \in Arguments[t], Writable(t, create(t, args))
             PROVE  internalBinaryRead(t, internalBinaryWrite(t, create(t, args)), create(t, NoFields))
                       = create(t, args)
  BY DEF RoundTrip
<1>1. PICK m, n : m = create(t, args) /\ n = LastNo(t)
  OBVIOUS
<1>2. PICK D : D = UNION {Range(Written(t, m, i)) : i \in 1 .. n}
  OBVIOUS
<1>3. ASSUME NEW i \in 1 .. n PROVE Written(t, m, i) \in Seq(D)
  <2>1. CASE Numbered(t, i) = {}
    BY <2>1 DEF Written
  <2>2. CASE Numbered(t, i) # {}
    <3>1. PICK f \in Fields(t) : Field(t, f).no = i
      BY <2>2 DEF Numbered
    <3>2. Written(t, m, i) = WriteField(Field(t, f), args[f])
      <4>1. Written(t, m, i) = WriteField(Field(t, f), m[f])
        BY <3>1, WrittenIs
      <4> QED BY <1>1, <4>1, Created
    <3>3. PICK w : w = Written(t, m, i)
      OBVIOUS
    <3>4. w \in Seq(Range(w))
      BY <3>2, <3>3, FieldWire
    <3>5. Range(w) \subseteq D
      BY <1>2, <3>3
    <3>6. w \in Seq(D)
      BY <3>4, <3>5
    <3> QED BY <3>3, <3>6
  <2> QED BY <2>1, <2>2
<1>4. n \in Nat /\ n \in 0 .. n
  BY <1>1, Schema
<1>5. /\ internalBinaryRead(t, FlattenSeq(Blocks(t, m, n)), create(t, NoFields)) = Part(t, m, n)
      /\ FlattenSeq(Blocks(t, m, n)) \in Seq(D)
  BY <1>1, <1>3, <1>4, BlocksBack
<1>6. internalBinaryWrite(t, m) = FlattenSeq(Blocks(t, m, n)) \o m[UNKNOWN]
  BY <1>1 DEF internalBinaryWrite, Blocks, Written
<1>7. m[UNKNOWN] = <<>> /\ m = [x \in Fields(t) \cup {UNKNOWN} |-> IF x = UNKNOWN THEN <<>> ELSE args[x]]
      /\ \A x \in Fields(t) : m[x] = args[x] /\ x # UNKNOWN
  BY <1>1, Created
<1>8. internalBinaryWrite(t, m) = FlattenSeq(Blocks(t, m, n))
  BY <1>5, <1>6, <1>7
<1>9. Part(t, m, n) = m
  <2>1. \A x \in Fields(t) : Field(t, x).no <= n
    BY <1>1, <1>4, Schema
  <2> QED BY <1>7, <2>1, Cleared DEF Part
<1> QED BY <1>1, <1>5, <1>8, <1>9

\* Messages nest three deep, so three times over no message is left out.
LEMMA AllRoundTrip ==
    ASSUME Recursion, NEW t \in DOMAIN MessageType PROVE RoundTrip(t)
<1>1. ASSUME NEW u \in DOMAIN MessageType, Flat(u) PROVE RoundTrip(u)
  BY <1>1, RoundTripOf DEF Flat, Within
<1>2. ASSUME NEW f \in Fields(t), IsMessage(Field(t, f).T) PROVE RoundTrip(Field(t, f).T)
  <2>1. PICK u : u = Field(t, f).T
    OBVIOUS
  <2>2. u \in DOMAIN MessageType
    BY <1>2, <2>1 DEF IsMessage
  <2>3. \A g \in Fields(u) : IsMessage(Field(u, g).T) => Flat(Field(u, g).T)
    BY <1>2, <2>1, Schema
  <2>4. Within(u)
    BY <1>1, <2>3 DEF Within, IsMessage
  <2> QED BY <2>1, <2>2, <2>4, RoundTripOf
<1>3. Within(t)
  BY <1>2 DEF Within
<1> QED BY <1>3, RoundTripOf
-----------------------------------------------------------------------------
(* The call.  Nothing here depends on how messages nest. *)

\* What the loop has read of an answer.
ReadFrom(O, wire) == internalBinaryRead(O, wire, create(O, NoFields))

\* The call is one of the API, with a method whose messages are known.
Known == call.service \in DOMAIN Api /\ call.api \in Api[call.service]

\* It was made with arguments; its one transmission was sent, is handled or
\* was handled only if they can be written.
Made ==
    /\ "args" \in DOMAIN call
    /\ Known /\ call.args \in Arguments[call.api.I] /\ call.phase \in {"sent", "rejected"}
    /\ call = [phase |-> call.phase, service |-> call.service, api |-> call.api, args |-> call.args,
               options |-> rpcOptions, code |-> call.code]
    /\ transit + server.executed > 0 => Writable(call.api.I, create(call.api.I, call.args))
    /\ server.request # NoRequest =>
          /\ server.executed = 1
          /\ server.request = [I |-> call.api.I, meta |-> rpcOptions.meta,
                               message |-> ReadFrom(call.api.I, internalBinaryWrite(call.api.I,
                                                       create(call.api.I, call.args)))]

\* It was executed and nothing of it is left on its way.
Done == server = [executed |-> 1, request |-> NoRequest] /\ transit = 0

Reading ==
    /\ call.phase = "reading" /\ Known /\ Done
    /\ call.wire \in Seq(AnswersOf[MethodOf(call).O])
    /\ call = [phase |-> "reading", service |-> call.service, api |-> call.api, wire |-> call.wire,
               message |-> ReadFrom(MethodOf(call).O, call.wire)]

Fulfilled ==
    /\ call.phase = "fulfilled" /\ Known /\ Done
    /\ call.wire \in Seq(AnswersOf[MethodOf(call).O])
    /\ call = [phase |-> "fulfilled", service |-> call.service, api |-> call.api, wire |-> call.wire,
               result |-> Result(call.api.result, ReadFrom(MethodOf(call).O, call.wire))]

Failed ==
    /\ call.phase = "rejected" /\ "args" \notin DOMAIN call /\ Known /\ Done
    /\ call = [phase |-> "rejected", service |-> call.service, api |-> call.api, code |-> Undefined]

Counted ==
    /\ transit \in Nat /\ server.executed \in Nat /\ transit + server.executed <= 1
    /\ server = [executed |-> server.executed, request |-> server.request]

IInv ==
    /\ client \in [credentials : BOOLEAN, timeoutMs : BOOLEAN]
    /\ Counted
    /\ \/ call = Idle /\ transit = 0 /\ server = [executed |-> 0, request |-> NoRequest]
       \/ Made \/ Reading \/ Fulfilled \/ Failed
LEMMA InputIs ==
    ASSUME NEW service \in DOMAIN Api, NEW api \in Api[service], NEW args \in Arguments[api.I]
    PROVE  /\ Method(service, api.stub).I = api.I /\ api.I \in DOMAIN MessageType
           /\ Method(service, api.stub).O \in DOMAIN MessageType
           /\ Input(api, args) = create(api.I, args)
<1>1. /\ Method(service, api.stub).I = api.I /\ api.I \in DOMAIN MessageType
      /\ Method(service, api.stub).O \in DOMAIN MessageType /\ api.passes = Fields(api.I)
  BY WrappersAssumption
<1>2. PICK t, value : t = api.I /\ value = [f \in Fields(t) |-> args[f]]
  OBVIOUS
<1>3. DOMAIN args = Fields(t) /\ DOMAIN value = Fields(t) /\ \A f \in Fields(t) : value[f] = args[f]
  BY <1>1, <1>2, ArgumentsAssumption
<1>4. create(t, value) = create(t, args)
  BY <1>3 DEF create
<1> QED BY <1>1, <1>2, <1>4 DEF Input

LEMMA InitIInv == Init => IInv
  BY DEF Init, IInv, Counted

LEMMA OnlyMade ==
    ASSUME IInv, call.phase = "sent" \/ transit > 0 \/ server.request # NoRequest PROVE Made
<1>1. call = Idle => call.phase = "idle"
  BY DEF Idle
<1>2. Reading \/ Fulfilled \/ Failed => call.phase # "sent" /\ transit = 0 /\ server.request = NoRequest
  BY DEF Reading, Fulfilled, Failed, Done
<1>3. CASE call = Idle /\ transit = 0 /\ server = [executed |-> 0, request |-> NoRequest]
  BY <1>1, <1>3
<1> QED BY <1>2, <1>3 DEF IInv

LEMMA InvokeStep ==
    ASSUME IInv, NEW service \in DOMAIN Api, NEW api \in Api[service], NEW args \in Arguments[api.I],
           Invoke(service, api, args)
    PROVE  IInv'
<1>1. transit = 0 /\ server = [executed |-> 0, request |-> NoRequest] /\ client' = client /\ server' = server
  <2>1. "args" \notin DOMAIN Idle /\ Idle.phase = "idle"
    BY DEF Idle
  <2>2. call = Idle /\ client' = client /\ server' = server
    BY DEF Invoke
  <2>3. ~Made /\ ~Reading /\ ~Fulfilled /\ ~Failed
    BY <2>1, <2>2 DEF Made, Reading, Fulfilled, Failed
  <2> QED BY <2>2, <2>3 DEF IInv
<1>2. PICK sent : sent = Writable(api.I, create(api.I, args))
  OBVIOUS
<1>3. /\ call' = [phase |-> IF sent THEN "sent" ELSE "rejected", service |-> service, api |-> api,
                  args |-> args, options |-> rpcOptions, code |-> Undefined]
      /\ transit' = IF sent THEN 1 ELSE 0
  BY <1>2, InputIs DEF Invoke
<1>4. rpcOptions' = rpcOptions
  BY <1>1 DEF rpcOptions
<1>5. Made'
  <2>1. call'.phase \in {"sent", "rejected"} /\ "args" \in DOMAIN call' /\ call'.service = service
        /\ call'.api = api /\ call'.args = args
    BY <1>3
  <2>2. call' = [phase |-> call'.phase, service |-> call'.service, api |-> call'.api, args |-> call'.args,
                 options |-> rpcOptions', code |-> call'.code]
    BY <1>3, <1>4
  <2>3. server'.request = NoRequest /\ server'.executed = 0
    BY <1>1
  <2>4. transit' + server'.executed > 0 => Writable(api.I, create(api.I, args))
    BY <1>2, <1>3, <2>3
  <2> QED BY <2>1, <2>2, <2>3, <2>4 DEF Made, Known
<1>6. Counted'
  BY <1>1, <1>3 DEF Counted
<1> QED BY <1>1, <1>5, <1>6 DEF IInv

LEMMA ExecuteStep == ASSUME IInv, Execute PROVE IInv'
<1>1. Made /\ Counted
  BY OnlyMade DEF Execute, IInv
<1>2. transit = 1 /\ server.executed = 0 /\ transit' = 0 /\ call' = call /\ client' = client
  BY <1>1 DEF Counted, Execute
<1>3. PICK I, m : I = call.api.I /\ m = create(I, call.args)
  OBVIOUS
<1>4. MethodOf(call).I = I /\ Input(call.api, call.args) = m
  BY <1>1, <1>3, InputIs DEF Made, Known, MethodOf
<1>5. call.options.meta = rpcOptions.meta
  <2>1. call.options = rpcOptions
    BY <1>1 DEF Made
  <2> QED BY <2>1
<1>6. server' = [executed |-> 1, request |-> [I |-> I, meta |-> rpcOptions.meta,
                                            message |-> ReadFrom(I, internalBinaryWrite(I, m))]]
  BY <1>2, <1>4, <1>5 DEF Execute, ReadFrom
<1>7. rpcOptions' = rpcOptions
  BY <1>2 DEF rpcOptions
<1>8. Made'
  <2>1. Writable(I, m)
    BY <1>1, <1>2, <1>3 DEF Made
  <2>2. server'.executed = 1 /\ server'.request = [I |-> I, meta |-> rpcOptions.meta,
                                                message |-> ReadFrom(I, internalBinaryWrite(I, m))]
    BY <1>6
  <2> QED BY <1>1, <1>2, <1>3, <1>7, <2>1, <2>2 DEF Made, Known
<1>9. Counted'
  BY <1>2, <1>6 DEF Counted
<1> QED BY <1>2, <1>8, <1>9 DEF IInv

LEMMA AnswerStep == ASSUME IInv, Answer PROVE IInv'
<1>1. Made /\ Counted
  BY OnlyMade DEF Answer, IInv
<1>2. /\ transit = 0 /\ server.executed = 1 /\ transit' = 0 /\ client' = client
      /\ server' = [server EXCEPT !.request = NoRequest]
  BY <1>1 DEF Made, Counted, Answer
<1>3. Done'
  BY <1>1, <1>2 DEF Counted, Done
<1>4. PICK O : O = MethodOf(call).O
  OBVIOUS
<1>5. call' = [phase |-> "reading", service |-> call.service, api |-> call.api, wire |-> <<>>,
               message |-> ReadFrom(O, <<>>)]
  BY <1>4, ReadEmpty DEF Answer, ReadFrom
<1>6. Reading'
  <2>1. MethodOf(call') = MethodOf(call) /\ call'.wire = <<>> /\ call'.service = call.service
        /\ call'.api = call.api /\ call'.phase = "reading"
    BY <1>5 DEF MethodOf
  <2>2. call'.wire \in Seq(AnswersOf[MethodOf(call').O])
    BY <2>1
  <2>3. call' = [phase |-> "reading", service |-> call'.service, api |-> call'.api, wire |-> call'.wire,
                 message |-> ReadFrom(MethodOf(call').O, call'.wire)]
    BY <1>4, <1>5, <2>1
  <2>4. Known'
    BY <1>1, <2>1 DEF Made, Known
  <2> QED BY <1>3, <2>1, <2>2, <2>3, <2>4 DEF Reading
<1>7. Counted'
  BY <1>3 DEF Done, Counted
<1> QED BY <1>2, <1>6, <1>7 DEF IInv

LEMMA OnlyReading == ASSUME IInv, call.phase = "reading" PROVE Reading
<1>1. call = Idle => call.phase = "idle"
  BY DEF Idle
<1> QED BY <1>1 DEF IInv, Made, Fulfilled, Failed

LEMMA ReadAnswerStep == ASSUME IInv, ReadAnswer PROVE IInv'
<1>1. Reading
  BY OnlyReading DEF ReadAnswer
<1>2. PICK O, w : O = MethodOf(call).O /\ w = call.wire
  OBVIOUS
<1>3. PICK e \in AnswersOf[O] : call' = [call EXCEPT !.wire = Append(@, e), !.message = ReadField(O, @, e)]
  BY <1>2 DEF ReadAnswer
<1>4. w \in Seq(AnswersOf[O]) /\ call.message = ReadFrom(O, w)
  BY <1>1, <1>2 DEF Reading
<1>5. ReadField(O, ReadFrom(O, w), e) = ReadFrom(O, Append(w, e))
  BY <1>4, ReadAppend DEF ReadFrom
<1>6. call' = [phase |-> "reading", service |-> call.service, api |-> call.api, wire |-> Append(w, e),
               message |-> ReadFrom(O, Append(w, e))]
  BY <1>1, <1>2, <1>3, <1>4, <1>5 DEF Reading
<1>7. Done' /\ client' = client
  BY <1>1 DEF Reading, Done, ReadAnswer
<1>8. Reading'
  <2>1. MethodOf(call') = MethodOf(call) /\ call'.wire = Append(w, e) /\ call'.service = call.service
        /\ call'.api = call.api /\ call'.phase = "reading"
    BY <1>6 DEF MethodOf
  <2>2. call'.wire \in Seq(AnswersOf[MethodOf(call').O])
    <3>1. Append(w, e) \in Seq(AnswersOf[O])
      BY <1>4
    <3> QED BY <1>2, <2>1, <3>1
  <2>3. call' = [phase |-> "reading", service |-> call'.service, api |-> call'.api, wire |-> call'.wire,
                 message |-> ReadFrom(MethodOf(call').O, call'.wire)]
    BY <1>2, <1>6, <2>1
  <2>4. Known'
    BY <1>1, <2>1 DEF Reading, Known
  <2> QED BY <1>7, <2>1, <2>2, <2>3, <2>4 DEF Reading
<1>9. Counted'
  BY <1>7 DEF Done, Counted
<1> QED BY <1>7, <1>8, <1>9 DEF IInv

LEMMA FulfilStep == ASSUME IInv, Fulfil PROVE IInv'
<1>1. Reading
  BY OnlyReading DEF Fulfil
<1>2. call.message = ReadFrom(MethodOf(call).O, call.wire)
  BY <1>1 DEF Reading
<1>3. call' = [phase |-> "fulfilled", service |-> call.service, api |-> call.api, wire |-> call.wire,
               result |-> Result(call.api.result, ReadFrom(MethodOf(call).O, call.wire))]
  BY <1>2 DEF Fulfil
<1>4. Done' /\ client' = client
  BY <1>1 DEF Reading, Done, Fulfil
<1>5. Fulfilled'
  <2>1. MethodOf(call') = MethodOf(call) /\ call'.wire = call.wire /\ call'.service = call.service
        /\ call'.api = call.api /\ call'.phase = "fulfilled"
    BY <1>3 DEF MethodOf
  <2>2. call'.wire \in Seq(AnswersOf[MethodOf(call').O])
    BY <1>1, <2>1 DEF Reading
  <2>3. call' = [phase |-> "fulfilled", service |-> call'.service, api |-> call'.api, wire |-> call'.wire,
                 result |-> Result(call'.api.result, ReadFrom(MethodOf(call').O, call'.wire))]
    BY <1>3, <2>1
  <2>4. Known'
    BY <1>1, <2>1 DEF Reading, Known
  <2> QED BY <1>4, <2>1, <2>2, <2>3, <2>4 DEF Fulfilled
<1>6. Counted'
  BY <1>4 DEF Done, Counted
<1> QED BY <1>4, <1>5, <1>6 DEF IInv

LEMMA NotJsonStep == ASSUME IInv, NotJson PROVE IInv'
<1>1. Reading
  BY OnlyReading DEF NotJson
<1>2. call' = [phase |-> "rejected", service |-> call.service, api |-> call.api, code |-> Undefined]
  BY DEF NotJson
<1>3. Done' /\ client' = client
  BY <1>1 DEF Reading, Done, NotJson
<1>4. Failed'
  <2>1. "args" \notin DOMAIN call' /\ call'.service = call.service /\ call'.api = call.api /\ call'.phase = "rejected"
    BY <1>2
  <2>2. Known'
    BY <1>1, <2>1 DEF Reading, Known
  <2> QED BY <1>2, <1>3, <2>1, <2>2 DEF Failed
<1>5. Counted'
  BY <1>3 DEF Done, Counted
<1> QED BY <1>3, <1>4, <1>5 DEF IInv

\* A rejection leaves at most what was on its way.
LEMMA RejectStep ==
    ASSUME IInv, Made, NEW code, NEW left \in Nat, left <= transit, Reject(code, left), client' = client,
           \/ server' = server
           \/ server' = [server EXCEPT !.request = NoRequest]
    PROVE  IInv'
<1>1. Counted
  BY DEF IInv
<1>2. transit' = left /\ transit \in Nat /\ server.executed \in Nat /\ server'.executed = server.executed
      /\ server' = [executed |-> server.executed, request |-> server'.request]
      /\ server'.request \in {server.request, NoRequest}
  BY <1>1 DEF Counted, Reject
<1>3. call' = [phase |-> "rejected", service |-> call.service, api |-> call.api, args |-> call.args,
               options |-> rpcOptions, code |-> code]
  <2>1. PICK p, s, a, x, o, c : /\ call = [phase |-> p, service |-> s, api |-> a, args |-> x,
                                            options |-> o, code |-> c]
                                /\ o = rpcOptions
    BY DEF Made
  <2>2. call' = [call EXCEPT !.phase = "rejected", !.code = code]
    BY DEF Reject
  <2>3. call' = [phase |-> "rejected", service |-> s, api |-> a, args |-> x, options |-> o, code |-> code]
    BY <2>1, <2>2
  <2>4. call.service = s /\ call.api = a /\ call.args = x
    BY <2>1
  <2> QED BY <2>1, <2>3, <2>4
<1>4. rpcOptions' = rpcOptions
  BY DEF rpcOptions
<1>5. Counted'
  BY <1>1, <1>2 DEF Counted
<1>6. Made'
  <2>1. call'.phase = "rejected" /\ "args" \in DOMAIN call' /\ call'.service = call.service
        /\ call'.api = call.api /\ call'.args = call.args
    BY <1>3
  <2>2. call' = [phase |-> call'.phase, service |-> call'.service, api |-> call'.api, args |-> call'.args,
                 options |-> rpcOptions', code |-> call'.code]
    BY <1>3, <1>4
  <2>3. transit' + server'.executed > 0 => transit + server.executed > 0
    BY <1>2
  <2>4. transit' + server'.executed > 0 => Writable(call'.api.I, create(call'.api.I, call'.args))
    BY <2>1, <2>3 DEF Made
  <2>5. Known' /\ call'.args \in Arguments[call'.api.I]
    BY <2>1 DEF Made, Known
  <2>6. server'.request # NoRequest =>
          /\ server'.executed = 1
          /\ server'.request = [I |-> call'.api.I, meta |-> rpcOptions'.meta,
                               message |-> ReadFrom(call'.api.I, internalBinaryWrite(call'.api.I,
                                                       create(call'.api.I, call'.args)))]
    <3>1. SUFFICES ASSUME server'.request # NoRequest PROVE server'.executed = 1
          /\ server'.request = [I |-> call'.api.I, meta |-> rpcOptions'.meta,
                               message |-> ReadFrom(call'.api.I, internalBinaryWrite(call'.api.I,
                                                       create(call'.api.I, call'.args)))]
      OBVIOUS
    <3>2. server'.request = server.request /\ server.request # NoRequest
      BY <1>2, <3>1
    <3> QED BY <1>2, <1>4, <2>1, <3>2 DEF Made
  <2> QED BY <2>1, <2>2, <2>4, <2>5, <2>6 DEF Made
<1> QED BY <1>5, <1>6 DEF IInv

LEMMA FailureStep ==
    ASSUME IInv, (\E code \in Codes : ServerFails(code)) \/ ConnectionLost \/ Deadline PROVE IInv'
<1>1. Made /\ transit \in Nat
  BY OnlyMade DEF ServerFails, ConnectionLost, Deadline, IInv, Counted
<1>2. ASSUME NEW code \in Codes, ServerFails(code) PROVE IInv'
  <2>1. CASE transit > 0 /\ Reject(code, transit - 1) /\ UNCHANGED server
    <3>1. transit - 1 \in Nat /\ transit - 1 <= transit /\ server' = server /\ client' = client
      BY <1>1, <1>2, <2>1 DEF ServerFails
    <3> QED BY <1>1, <2>1, <3>1, RejectStep
  <2>2. CASE server' = [server EXCEPT !.request = NoRequest] /\ Reject(code, transit)
    <3>1. transit <= transit /\ client' = client
      BY <1>1, <1>2 DEF ServerFails
    <3> QED BY <1>1, <2>2, <3>1, RejectStep
  <2> QED BY <1>2, <2>1, <2>2 DEF ServerFails
<1>3. CASE ConnectionLost \/ Deadline
  <2>1. PICK code : Reject(code, transit)
    BY <1>3 DEF ConnectionLost, Deadline
  <2>2. server' = server /\ client' = client /\ transit <= transit
    BY <1>1, <1>3 DEF ConnectionLost, Deadline
  <2> QED BY <1>1, <2>1, <2>2, RejectStep
<1> QED BY <1>2, <1>3

LEMMA UnchangedStep == ASSUME IInv, UNCHANGED vars PROVE IInv'
  BY DEF vars, IInv, Counted, Made, Reading, Fulfilled, Failed, Known, Done, rpcOptions, MethodOf

LEMMA NextIInv == IInv /\ [Next]_vars => IInv'
<1> SUFFICES ASSUME IInv, [Next]_vars PROVE IInv'
  OBVIOUS
<1>1. CASE \E service \in DOMAIN Api : \E api \in Api[service] : \E args \in Arguments[api.I] :
              Invoke(service, api, args)
  BY <1>1, InvokeStep
<1>2. CASE (\E code \in Codes : ServerFails(code)) \/ ConnectionLost \/ Deadline
  BY <1>2, FailureStep
<1> QED BY <1>1, <1>2, ExecuteStep, AnswerStep, ReadAnswerStep, FulfilStep, NotJsonStep,
           UnchangedStep DEF Next

LEMMA Invariance == Spec => []IInv
  BY InitIInv, NextIInv, PTL DEF Spec

LEMMA OnceIfCounted == IInv => AtMostOnce
<1> SUFFICES ASSUME IInv PROVE AtMostOnce
  OBVIOUS
<1>1. server.executed <= 1 /\ server.executed \in Nat /\ transit \in Nat
  BY DEF IInv, Counted
<1>2. ASSUME "args" \in DOMAIN call, server.executed > 0
      PROVE  Writable(call.api.I, create(call.api.I, call.args))
  <2>1. call # Idle /\ ~Reading /\ ~Fulfilled /\ ~Failed
    <3>1. "args" \notin DOMAIN Idle
      BY DEF Idle
    <3> QED BY <1>2, <3>1 DEF Reading, Fulfilled, Failed
  <2>2. Made
    BY <2>1 DEF IInv
  <2>3. transit + server.executed > 0
    BY <1>1, <1>2
  <2> QED BY <2>2, <2>3 DEF Made
<1> QED BY <1>1, <1>2 DEF AtMostOnce

\* A call takes effect at most once, however it ends, and not at all when its
\* arguments cannot be written: neither wrap nor the stubs ever send a second
\* transmission.  For every argument, answer and status code, whatever the
\* codec does with the messages inside a message.
THEOREM TakesEffectOnce == Spec => []AtMostOnce
  BY Invariance, OnceIfCounted, PTL

\* The server handles the method that was called, with every argument as the
\* application gave it, and with the credentials of the client: what
\* internalBinaryWrite leaves out because it has its default value is what
\* internalBinaryRead starts from, for every message of the API.
THEOREM ServerSeesEveryCall == Recursion => (Spec => []ServerSeesTheCall)
<1> SUFFICES ASSUME Recursion PROVE Spec => []ServerSeesTheCall
  OBVIOUS
<1>1. ASSUME IInv PROVE ServerSeesTheCall
  <2>1. SUFFICES ASSUME server.request # NoRequest
                 PROVE  /\ server.request.I = call.api.I
                        /\ server.request.message = create(call.api.I, call.args)
                        /\ server.request.meta = (IF client.credentials THEN {"x-pgapp-key", "x-pgapp-secret"} ELSE {})
    BY DEF ServerSeesTheCall
  <2>2. Made /\ Counted
    BY <1>1, <2>1, OnlyMade DEF IInv
  <2>3. PICK t, args : t = call.api.I /\ args = call.args
    OBVIOUS
  <2>4. t \in DOMAIN MessageType /\ args \in Arguments[t]
    BY <2>2, <2>3, InputIs DEF Made, Known
  <2>5. Writable(t, create(t, args))
    BY <2>1, <2>2, <2>3 DEF Made, Counted
  <2>6. server.request = [I |-> t, meta |-> rpcOptions.meta,
                          message |-> ReadFrom(t, internalBinaryWrite(t, create(t, args)))]
    BY <2>1, <2>2, <2>3 DEF Made
  <2>7. ReadFrom(t, internalBinaryWrite(t, create(t, args))) = create(t, args)
    BY <2>4, <2>5, AllRoundTrip DEF RoundTrip, ReadFrom
  <2>8. rpcOptions.meta = (IF client.credentials THEN {"x-pgapp-key", "x-pgapp-secret"} ELSE {})
    BY DEF rpcOptions
  <2> QED BY <2>3, <2>6, <2>7, <2>8
<1> QED BY <1>1, Invariance, PTL
-----------------------------------------------------------------------------
(* What the loop reads of an answer is what the answer means. *)

\* In JavaScript undefined and null are no objects; here they are constants.
Objects ==
    /\ \A t \in DOMAIN MessageType : \A wire : Denotes(t, wire) # Undefined
    /\ \A r : releaseSnapshot(r) # Null

\* tt is ss with x appended.
LEMMA Longer ==
    ASSUME NEW E, NEW ss \in Seq(E), NEW x \in E, NEW tt \in Seq(E), Len(tt) = Len(ss) + 1,
           \A i \in 1 .. Len(ss) : tt[i] = ss[i], tt[Len(ss) + 1] = x
    PROVE  tt = Append(ss, x)
  OBVIOUS

\* What g makes of the elements of s, one after the other.
Mapped(g, s) == [i \in DOMAIN s |-> g[s[i]]]
Joined(g, s) == FlattenSeq(Mapped(g, s))

LEMMA MappedLen ==
    ASSUME NEW E, NEW g, NEW s \in Seq(E) PROVE Len(Mapped(g, s)) = Len(s)
  BY DEF Mapped

LEMMA MappedType ==
    ASSUME NEW E, NEW D, NEW g \in [E -> Seq(D)], NEW s \in Seq(E)
    PROVE  Mapped(g, s) \in Seq(Seq(D))
<1>1. PICK n \in Nat : n = Len(s)
  OBVIOUS
<1>2. Mapped(g, s) = [i \in 1 .. n |-> g[s[i]]]
  BY <1>1 DEF Mapped
<1>3. ASSUME NEW i \in 1 .. n PROVE g[s[i]] \in Seq(D)
  BY <1>1
<1> QED BY <1>1, <1>2, <1>3

LEMMA JoinedType ==
    ASSUME NEW E, NEW D, NEW g \in [E -> Seq(D)], NEW s \in Seq(E) PROVE Joined(g, s) \in Seq(D)
<1>1. PICK ss \in Seq(Seq(D)) : ss = Mapped(g, s)
  <2>1. Mapped(g, s) \in Seq(Seq(D))
    BY MappedType
  <2> QED BY <2>1, Zenon
<1>2. FlattenSeq(ss) \in Seq(D)
  BY FlattenType
<1> QED BY <1>1, <1>2 DEF Joined

LEMMA JoinedEmpty == ASSUME NEW g PROVE Joined(g, <<>>) = <<>>
<1>1. Mapped(g, <<>>) = <<>>
  BY DEF Mapped
<1> QED BY <1>1, FlattenEmpty DEF Joined

LEMMA JoinedAppend ==
    ASSUME NEW E, NEW D, NEW g \in [E -> Seq(D)], NEW s \in Seq(E), NEW e \in E
    PROVE  Joined(g, Append(s, e)) = Joined(g, s) \o g[e]
<1>1. PICK x \in Seq(D) : x = g[e]
  OBVIOUS
<1>2. PICK ss \in Seq(Seq(D)) : ss = Mapped(g, s) /\ Len(ss) = Len(s)
  <2>1. Mapped(g, s) \in Seq(Seq(D))
    BY MappedType
  <2>2. Len(Mapped(g, s)) = Len(s)
    BY MappedLen
  <2> QED BY <2>1, <2>2, Zenon
<1>3. PICK v, n : v = Append(s, e) /\ n = Len(s)
  OBVIOUS
<1>4. /\ n \in Nat /\ v \in Seq(E) /\ Len(v) = n + 1 /\ DOMAIN v = 1 .. n + 1 /\ DOMAIN s = 1 .. n
      /\ (\A i \in 1 .. n : v[i] = s[i]) /\ v[n + 1] = e
  BY <1>3
<1>5. PICK tt \in Seq(Seq(D)) : tt = Mapped(g, v) /\ Len(tt) = n + 1
  <2>1. Mapped(g, v) \in Seq(Seq(D))
    BY <1>4, MappedType
  <2>2. Len(Mapped(g, v)) = Len(v)
    BY <1>4, MappedLen
  <2> QED BY <1>4, <2>1, <2>2, Zenon
<1>6. tt = Append(ss, x)
  <2>1. PICK B : B = Seq(D)
    OBVIOUS
  <2>2. ss \in Seq(B) /\ tt \in Seq(B) /\ x \in B
    BY <2>1
  <2>3. tt[n + 1] = x
    BY <1>1, <1>4, <1>5 DEF Mapped
  <2>4. \A i \in 1 .. n : tt[i] = ss[i]
    BY <1>2, <1>4, <1>5 DEF Mapped
  <2>5. Len(ss) = n
    BY <1>2, <1>3
  <2> QED BY <1>5, <2>2, <2>3, <2>4, <2>5, Longer
<1>7. FlattenSeq(Append(ss, x)) = FlattenSeq(ss) \o x
  BY FlattenAppend
<1> QED BY <1>1, <1>2, <1>3, <1>5, <1>6, <1>7 DEF Joined

\* Occurring keeps the fields of some numbers.
Kept(D, N) == [d \in D |-> IF d.no \in N THEN <<d>> ELSE <<>>]

LEMMA OccurringJoined ==
    ASSUME NEW D, NEW N, NEW w \in Seq(D)
    PROVE  /\ Occurring(w, N) = Joined(Kept(D, N), w)
           /\ Kept(D, N) \in [D -> Seq({d \in D : d.no \in N})]
<1>1. PICK E : E = {d \in D : d.no \in N}
  OBVIOUS
<1>2. ASSUME NEW d \in D PROVE (IF d.no \in N THEN <<d>> ELSE <<>>) \in Seq(E)
  <2>1. CASE d.no \in N
    <3>1. PICK x \in E : x = d
      BY <1>1, <2>1
    <3>2. <<x>> \in Seq(E)
      OBVIOUS
    <3> QED BY <2>1, <3>1, <3>2
  <2>2. CASE d.no \notin N
    BY <2>2
  <2> QED BY <2>1, <2>2
<1>3. Kept(D, N) \in [D -> Seq(E)]
  BY <1>2 DEF Kept
<1>4. \A i \in DOMAIN w : w[i] \in D
  OBVIOUS
<1>5. [i \in DOMAIN w |-> IF w[i].no \in N THEN <<w[i]>> ELSE <<>>] = Mapped(Kept(D, N), w)
  BY <1>4 DEF Kept, Mapped
<1> QED BY <1>1, <1>3, <1>5 DEF Occurring, Joined

LEMMA OccurringType ==
    ASSUME NEW D, NEW N, NEW w \in Seq(D)
    PROVE  Occurring(w, N) \in Seq({d \in D : d.no \in N})
<1>1. PICK g, E : g = Kept(D, N) /\ E = {d \in D : d.no \in N}
  OBVIOUS
<1>2. g \in [D -> Seq(E)] /\ Occurring(w, N) = Joined(g, w)
  BY <1>1, OccurringJoined
<1>3. Joined(g, w) \in Seq(E)
  BY <1>2, JoinedType
<1> QED BY <1>1, <1>2, <1>3

LEMMA OccurringEmpty == ASSUME NEW N PROVE Occurring(<<>>, N) = <<>>
<1>1. PICK D : D = {}
  OBVIOUS
<1>2. <<>> \in Seq(D)
  OBVIOUS
<1>3. Occurring(<<>>, N) = Joined(Kept(D, N), <<>>)
  BY <1>2, OccurringJoined
<1> QED BY <1>3, JoinedEmpty

LEMMA OccurringAppend ==
    ASSUME NEW D, NEW N, NEW w \in Seq(D), NEW e \in D
    PROVE  Occurring(Append(w, e), N) = IF e.no \in N THEN Append(Occurring(w, N), e) ELSE Occurring(w, N)
<1>1. PICK g, E : g = Kept(D, N) /\ E = {d \in D : d.no \in N}
  OBVIOUS
<1>2. PICK v \in Seq(D) : v = Append(w, e)
  <2>1. Append(w, e) \in Seq(D)
    OBVIOUS
  <2> QED BY <2>1, Zenon
<1>3. g \in [D -> Seq(E)] /\ Occurring(w, N) = Joined(g, w) /\ Occurring(v, N) = Joined(g, v)
  BY <1>1, OccurringJoined
<1>4. Joined(g, v) = Joined(g, w) \o g[e]
  BY <1>2, <1>3, JoinedAppend
<1>5. PICK o \in Seq(E) : o = Joined(g, w)
  BY <1>3, JoinedType
<1>6. CASE e.no \in N
  <2>1. g[e] = <<e>> /\ e \in E
    BY <1>1, <1>6 DEF Kept
  <2>2. o \o <<e>> = Append(o, e)
    BY <2>1
  <2> QED BY <1>2, <1>3, <1>4, <1>5, <1>6, <2>1, <2>2
<1>7. CASE e.no \notin N
  <2>1. g[e] = <<>> /\ o \o <<>> = o
    BY <1>1, <1>7 DEF Kept
  <2> QED BY <1>2, <1>3, <1>4, <1>5, <1>7, <2>1
<1> QED BY <1>6, <1>7
\* The loop reads of an answer what the answer means.
Means(t) == \A w \in Seq(AnswersOf[t]) : ReadFrom(t, w) = Denotes(t, w)
MeansWithin(t) == \A f \in Fields(t) : IsMessage(Field(t, f).T) => Means(Field(t, f).T)

\* The fields of an answer that bear the number of f.
Bearing(t, f) == {d \in AnswersOf[t] : d.no \in {Field(t, f).no}}

LEMMA BearingCarries ==
    ASSUME NEW t \in DOMAIN MessageType, NEW f \in Fields(t), NEW e \in Bearing(t, f)
    PROVE  e \in AnswersOf[t] /\ e.no = Field(t, f).no /\ Carries(Field(t, f), e)
<1>1. e \in AnswersOf[t] /\ e.no = Field(t, f).no
  BY DEF Bearing
<1>2. f \in Numbered(t, e.no)
  BY <1>1 DEF Numbered
<1> QED BY <1>1, <1>2, AnswersAssumption

LEMMA MeaningRead ==
    ASSUME Recursion, NEW T, IsMessage(T), Means(T), NEW d \in Seq(AnswersOf[T])
    PROVE  Meaning(T, d) = ReadMessage(T, d, create(T, NoFields))
<1>1. T \in DOMAIN MessageType
  BY DEF IsMessage
<1>2. Meaning(T, d) = Denotes(T, d)
  BY <1>1 DEF Recursion
<1>3. ReadMessage(T, d, create(T, NoFields)) = internalBinaryRead(T, d, create(T, NoFields))
  BY <1>1 DEF Recursion
<1> QED BY <1>2, <1>3 DEF Means, ReadFrom

\* A message sent in pieces is all pieces together.
LEMMA PieceRead ==
    ASSUME Recursion, NEW T, IsMessage(T), Means(T),
           NEW W \in Seq(AnswersOf[T]), NEW d \in Seq(AnswersOf[T])
    PROVE  Meaning(T, W \o d) = ReadMessage(T, d, Meaning(T, W))
<1>1. T \in DOMAIN MessageType
  BY DEF IsMessage
<1>2. PICK v \in Seq(AnswersOf[T]) : v = W \o d
  <2>1. W \o d \in Seq(AnswersOf[T])
    OBVIOUS
  <2> QED BY <2>1, Zenon
<1>3. Meaning(T, v) = ReadFrom(T, v) /\ Meaning(T, W) = ReadFrom(T, W)
  <2>1. Meaning(T, v) = Denotes(T, v) /\ Meaning(T, W) = Denotes(T, W)
    BY <1>1 DEF Recursion
  <2> QED BY <2>1 DEF Means
<1>4. ReadFrom(T, W \o d) = internalBinaryRead(T, d, ReadFrom(T, W))
  BY ReadConcat DEF ReadFrom
<1>5. ReadMessage(T, d, ReadFrom(T, W)) = internalBinaryRead(T, d, ReadFrom(T, W))
  BY <1>1 DEF Recursion
<1> QED BY <1>2, <1>3, <1>4, <1>5

LEMMA ElementsRead ==
    ASSUME Recursion, NEW t \in DOMAIN MessageType, MeansWithin(t), NEW f \in Fields(t),
           NEW e \in Bearing(t, f)
    PROVE  Elements(Field(t, f), e) = IF Field(t, f).repeat = "packed" /\ e.wt = "len"
                                      THEN Unpack(Field(t, f), e.data)
                                      ELSE <<Value(Field(t, f), e.data, Undefined)>>
<1>1. PICK F : F = Field(t, f)
  OBVIOUS
<1>2. Carries(F, e)
  BY <1>1, BearingCarries
<1>3. CASE IsMessage(F.T)
  <2>1. Means(F.T) /\ e.data \in Seq(AnswersOf[F.T])
    BY <1>1, <1>2, <1>3 DEF MeansWithin, Carries
  <2>2. Meaning(F.T, e.data) = ReadMessage(F.T, e.data, create(F.T, NoFields))
    BY <1>3, <2>1, MeaningRead
  <2>3. Value(F, e.data, Undefined) = Meaning(F.T, e.data)
    BY <1>3, <2>2 DEF Value
  <2> QED BY <1>1, <1>3, <2>3 DEF Elements, Unpack
<1>4. CASE ~IsMessage(F.T)
  BY <1>1, <1>4 DEF Elements, Unpack, Value
<1> QED BY <1>3, <1>4

\* A repeated field has all its elements in order.
LEMMA RepeatedAppend ==
    ASSUME NEW t \in DOMAIN MessageType, NEW f \in Fields(t), Field(t, f).repeat # "no",
           NEW occ \in Seq(Bearing(t, f)), NEW e \in Bearing(t, f)
    PROVE  /\ FieldMeaning(Field(t, f), Append(occ, e)) =
                 FieldMeaning(Field(t, f), occ) \o Elements(Field(t, f), e)
           /\ \E D : FieldMeaning(Field(t, f), occ) \in Seq(D)
<1>1. PICK F, E : F = Field(t, f) /\ E = Bearing(t, f)
  OBVIOUS
<1>2. PICK D, g : D = UNION {Range(Elements(F, d)) : d \in E} /\ g = [d \in E |-> Elements(F, d)]
  OBVIOUS
<1>3. ASSUME NEW d \in E PROVE Elements(F, d) \in Seq(D)
  <2>1. PICK s : s = Elements(F, d)
    OBVIOUS
  <2>2. Range(s) \subseteq D
    BY <1>2, <2>1
  <2>3. CASE F.repeat = "packed" /\ d.wt = "len"
    <3>1. d.data \in Seq(Unsigned(W64))
      BY <1>1, <2>3, BearingCarries DEF Carries
    <3>2. DOMAIN d.data = 1 .. Len(d.data) /\ Len(d.data) \in Nat
      BY <3>1
    <3>3. s = [i \in 1 .. Len(d.data) |-> Scalar(F.T, d.data[i])]
      BY <2>1, <2>3, <3>2 DEF Elements
    <3>4. \A i \in 1 .. Len(d.data) : Scalar(F.T, d.data[i]) \in D
      <4>1. \A i \in 1 .. Len(d.data) : s[i] \in Range(s)
        BY <3>3 DEF Range
      <4> QED BY <2>2, <3>3, <4>1
    <3>5. s \in Seq(D)
      BY <3>2, <3>3, <3>4
    <3> QED BY <2>1, <3>5
  <2>4. CASE ~(F.repeat = "packed" /\ d.wt = "len")
    <3>1. PICK x : s = <<x>>
      BY <2>1, <2>4 DEF Elements
    <3>2. x = s[1] /\ 1 \in DOMAIN s
      BY <3>1
    <3>3. x \in D
      BY <2>2, <3>2 DEF Range
    <3>4. s \in Seq(D)
      BY <3>1, <3>3
    <3> QED BY <2>1, <3>4
  <2> QED BY <2>3, <2>4
<1>4. g \in [E -> Seq(D)]
  BY <1>2, <1>3
<1>5. ASSUME NEW s \in Seq(E) PROVE FieldMeaning(F, s) = Joined(g, s)
  <2>1. \A i \in DOMAIN s : s[i] \in E
    OBVIOUS
  <2>2. [i \in DOMAIN s |-> Elements(F, s[i])] = Mapped(g, s)
    BY <1>2, <2>1 DEF Mapped
  <2> QED BY <1>1, <2>2 DEF FieldMeaning, Joined
<1>6. PICK o \in Seq(E), v \in Seq(E), x \in E : o = occ /\ x = e /\ v = Append(o, x)
  <2>1. occ \in Seq(E) /\ e \in E /\ Append(occ, e) \in Seq(E)
    BY <1>1
  <2> QED BY <2>1, Zenon
<1>7. Joined(g, Append(o, x)) = Joined(g, o) \o g[x]
  BY <1>4, JoinedAppend
<1>8. Joined(g, o) \in Seq(D)
  BY <1>4, JoinedType
<1>9. g[x] = Elements(F, x)
  BY <1>2
<1>10. FieldMeaning(F, v) = Joined(g, v) /\ FieldMeaning(F, o) = Joined(g, o)
  BY <1>5
<1> QED BY <1>1, <1>6, <1>7, <1>8, <1>9, <1>10

\* A single field has its last value, a message its pieces.
LEMMA SingleAppend ==
    ASSUME Recursion, Objects, NEW t \in DOMAIN MessageType, MeansWithin(t), NEW f \in Fields(t),
           Field(t, f).repeat = "no", NEW occ \in Seq(Bearing(t, f)), NEW e \in Bearing(t, f)
    PROVE  FieldMeaning(Field(t, f), Append(occ, e)) =
              Value(Field(t, f), e.data, FieldMeaning(Field(t, f), occ))
<1>1. PICK F, E, v : F = Field(t, f) /\ E = Bearing(t, f) /\ v = Append(occ, e)
  OBVIOUS
<1>2. v # <<>> /\ v[Len(v)] = e /\ occ \in Seq(E) /\ v \in Seq(E) /\ e \in E
  BY <1>1
<1>3. CASE ~IsMessage(F.T)
  <2>1. FieldMeaning(F, v) = Scalar(F.T, Last(v).data)
    BY <1>1, <1>2, <1>3 DEF FieldMeaning
  <2>2. Last(v) = e
    BY <1>2 DEF Last
  <2>3. Value(F, e.data, FieldMeaning(F, occ)) = Scalar(F.T, e.data)
    BY <1>3 DEF Value
  <2> QED BY <1>1, <2>1, <2>2, <2>3
<1>4. CASE IsMessage(F.T)
  <2>1. PICK T, g : T = F.T /\ g = [d \in E |-> d.data]
    OBVIOUS
  <2>2. IsMessage(T) /\ Means(T) /\ T \in DOMAIN MessageType
    BY <1>1, <1>4, <2>1 DEF MeansWithin, IsMessage
  <2>3. g \in [E -> Seq(AnswersOf[T])]
    <3>1. \A d \in E : d.data \in Seq(AnswersOf[T])
      BY <1>1, <1>4, <2>1, BearingCarries DEF Carries
    <3> QED BY <2>1, <3>1
  <2>4. ASSUME NEW s \in Seq(E)
        PROVE  FieldMeaning(F, s) = IF s = <<>> THEN Undefined ELSE Meaning(T, Joined(g, s))
    <3>1. \A i \in DOMAIN s : s[i] \in E
      OBVIOUS
    <3>2. [i \in DOMAIN s |-> s[i].data] = Mapped(g, s)
      BY <2>1, <3>1 DEF Mapped
    <3>3. CASE s = <<>>
      <4>1. FieldMeaning(F, s) = Default(F)
        BY <1>1, <3>3 DEF FieldMeaning
      <4> QED BY <1>1, <1>4, <3>3, <4>1, UnsetMessage
    <3>4. CASE s # <<>>
      BY <1>1, <1>4, <2>1, <3>2, <3>4 DEF FieldMeaning, Joined
    <3> QED BY <3>3, <3>4
  <2>5. PICK W \in Seq(AnswersOf[T]) : W = Joined(g, occ)
    BY <1>2, <2>3, JoinedType
  <2>6. PICK d \in Seq(AnswersOf[T]) : d = e.data /\ d = g[e]
    BY <1>2, <2>1, <2>3
  <2>7. Joined(g, v) = W \o d
    <3>1. PICK o \in Seq(E), x \in E : o = occ /\ x = e
      BY <1>2, Zenon
    <3>2. Joined(g, Append(o, x)) = Joined(g, o) \o g[x]
      BY <2>3, JoinedAppend
    <3> QED BY <1>1, <2>5, <2>6, <3>1, <3>2
  <2>8. FieldMeaning(F, v) = Meaning(T, W \o d)
    BY <1>2, <2>4, <2>7
  <2>9. CASE occ = <<>>
    <3>1. W \o d = d
      <4>1. W = <<>>
        BY <2>5, <2>9, JoinedEmpty
      <4> QED BY <4>1
    <3>2. FieldMeaning(F, occ) = Undefined
      BY <1>2, <2>4, <2>9
    <3>3. Meaning(T, d) = ReadMessage(T, d, create(T, NoFields))
      BY <2>2, MeaningRead
    <3>4. Value(F, d, Undefined) = ReadMessage(T, d, create(T, NoFields))
      BY <1>4, <2>1 DEF Value
    <3> QED BY <1>1, <2>6, <2>8, <3>1, <3>2, <3>3, <3>4
  <2>10. CASE occ # <<>>
    <3>1. FieldMeaning(F, occ) = Meaning(T, W)
      BY <1>2, <2>4, <2>5, <2>10
    <3>2. Meaning(T, W) # Undefined
      BY <2>2 DEF Recursion, Objects
    <3>3. Meaning(T, W \o d) = ReadMessage(T, d, Meaning(T, W))
      BY <2>2, PieceRead
    <3>4. Value(F, d, Meaning(T, W)) = ReadMessage(T, d, Meaning(T, W))
      BY <1>4, <2>1, <3>2 DEF Value
    <3> QED BY <1>1, <2>6, <2>8, <3>1, <3>3, <3>4
  <2> QED BY <2>9, <2>10
<1> QED BY <1>3, <1>4
KnownNos(t) == {Field(t, g).no : g \in Fields(t)}

LEMMA MeantParts ==
    ASSUME NEW t \in DOMAIN MessageType, NEW w
    PROVE  /\ IsA(t, Denotes(t, w))
           /\ Denotes(t, w)[UNKNOWN] = Occurring(w, Nat \ KnownNos(t))
           /\ \A f \in Fields(t) : /\ f # UNKNOWN
                                   /\ Denotes(t, w)[f] = FieldMeaning(Field(t, f), Occurring(w, {Field(t, f).no}))
<1>1. UNKNOWN \notin Fields(t)
  BY Schema
<1> QED BY <1>1 DEF Denotes, KnownNos, IsA

LEMMA MeantEmpty ==
    ASSUME NEW t \in DOMAIN MessageType PROVE Denotes(t, <<>>) = create(t, NoFields)
<1>1. ASSUME NEW f \in Fields(t) PROVE FieldMeaning(Field(t, f), <<>>) = Default(Field(t, f))
  <2>1. PICK F : F = Field(t, f)
    OBVIOUS
  <2>2. CASE F.repeat # "no"
    <3>1. [i \in DOMAIN <<>> |-> Elements(F, <<>>[i])] = <<>>
      OBVIOUS
    <3>2. FieldMeaning(F, <<>>) = FlattenSeq(<<>>)
      BY <2>2, <3>1 DEF FieldMeaning
    <3>3. Default(F) = <<>>
      BY <2>2 DEF Default
    <3> QED BY <2>1, <3>2, <3>3, FlattenEmpty
  <2>3. CASE F.repeat = "no"
    BY <2>1, <2>3 DEF FieldMeaning
  <2> QED BY <2>2, <2>3
<1>2. PICK m, c : m = Denotes(t, <<>>) /\ c = create(t, NoFields)
  OBVIOUS
<1>3. m[UNKNOWN] = c[UNKNOWN]
  BY <1>2, MeantParts, OccurringEmpty, Cleared
<1>4. ASSUME NEW f \in Fields(t) PROVE m[f] = c[f]
  BY <1>1, <1>2, MeantParts, OccurringEmpty, Cleared
<1>5. IsA(t, m) /\ IsA(t, c)
  BY <1>2, MeantParts, Cleared
<1>6. m = c
  BY <1>3, <1>4, <1>5 DEF IsA
<1> QED BY <1>2, <1>6

\* One more field means one more turn of the loop.
LEMMA MeantAppend ==
    ASSUME Recursion, Objects, NEW t \in DOMAIN MessageType, MeansWithin(t),
           NEW w \in Seq(AnswersOf[t]), NEW e \in AnswersOf[t]
    PROVE  Denotes(t, Append(w, e)) = ReadField(t, Denotes(t, w), e)
<1>1. PICK m, v : m = Denotes(t, w) /\ v = Denotes(t, Append(w, e))
  OBVIOUS
<1>2. IsA(t, m) /\ IsA(t, v)
  BY <1>1, MeantParts
<1>3. e.no \in Nat
  BY AnswersAssumption
<1>4. ASSUME NEW x \in Fields(t), Field(t, x).no # e.no PROVE v[x] = m[x]
  <2>1. PICK N : N = {Field(t, x).no}
    OBVIOUS
  <2>2. e.no \notin N
    BY <1>4, <2>1
  <2>3. Occurring(Append(w, e), N) = Occurring(w, N)
    BY <2>2, OccurringAppend
  <2> QED BY <1>1, <2>1, <2>3, MeantParts
<1>5. CASE Numbered(t, e.no) = {}
  <2>1. PICK N : N = Nat \ KnownNos(t)
    OBVIOUS
  <2>2. \A x \in Fields(t) : Field(t, x).no # e.no
    BY <1>5 DEF Numbered
  <2>3. e.no \in N
    BY <1>3, <2>1, <2>2 DEF KnownNos
  <2>4. Occurring(Append(w, e), N) = Append(Occurring(w, N), e)
    BY <2>3, OccurringAppend
  <2>5. v[UNKNOWN] = Append(m[UNKNOWN], e)
    BY <1>1, <2>1, <2>4, MeantParts
  <2>6. ReadField(t, m, e) = [m EXCEPT ![UNKNOWN] = Append(@, e)]
    BY <1>5, ReadsUnknown
  <2>7. v = [m EXCEPT ![UNKNOWN] = Append(@, e)]
    <3>1. PICK u : u = Append(m[UNKNOWN], e)
      OBVIOUS
    <3>2. \A x \in Fields(t) : v[x] = m[x]
      BY <1>4, <2>2
    <3>3. v = [m EXCEPT ![UNKNOWN] = u]
      BY <1>2, <2>5, <3>1, <3>2 DEF IsA
    <3> QED BY <3>1, <3>3
  <2> QED BY <1>1, <2>6, <2>7
<1>6. CASE Numbered(t, e.no) # {}
  <2>1. PICK f \in Fields(t) : Field(t, f).no = e.no
    BY <1>6 DEF Numbered
  <2>2. PICK F, N : F = Field(t, f) /\ N = {F.no}
    OBVIOUS
  <2>3. PICK occ \in Seq(Bearing(t, f)) : occ = Occurring(w, N)
    <3>1. Occurring(w, N) \in Seq(Bearing(t, f))
      BY <2>2, OccurringType DEF Bearing
    <3> QED BY <3>1, Zenon
  <2>4. PICK b \in Bearing(t, f) : b = e
    BY <2>1 DEF Bearing
  <2>5. Occurring(Append(w, e), N) = Append(occ, e)
    BY <2>1, <2>2, <2>3, OccurringAppend
  <2>6. m[f] = FieldMeaning(F, occ) /\ v[f] = FieldMeaning(F, Append(occ, b))
    BY <1>1, <2>2, <2>3, <2>4, <2>5, MeantParts
  <2>7. v[UNKNOWN] = m[UNKNOWN]
    <3>1. PICK M : M = Nat \ KnownNos(t)
      OBVIOUS
    <3>2. e.no \notin M
      BY <2>1, <3>1 DEF KnownNos
    <3>3. Occurring(Append(w, e), M) = Occurring(w, M)
      BY <3>2, OccurringAppend
    <3> QED BY <1>1, <3>1, <3>3, MeantParts
  <2>8. ASSUME NEW x \in Fields(t), x # f PROVE v[x] = m[x]
    <3>1. Field(t, x).no # e.no
      BY <2>1, <2>8, Schema
    <3> QED BY <1>4, <3>1
  <2>9. v = [m EXCEPT ![f] = v[f]]
    BY <1>2, <2>7, <2>8 DEF IsA
  <2>10. ReadField(t, m, e) = [m EXCEPT ![f] = v[f]]
    <3>1. CASE F.repeat = "no"
      <4>1. v[f] = Value(F, b.data, m[f])
        BY <2>2, <2>6, <3>1, SingleAppend
      <4>2. ReadField(t, m, e) = [m EXCEPT ![f] = Value(F, e.data, m[f])]
        BY <2>1, <2>2, <3>1, ReadsOne
      <4> QED BY <2>4, <4>1, <4>2
    <3>2. CASE F.repeat # "no"
      <4>1. v[f] = m[f] \o Elements(F, b)
        BY <2>2, <2>6, <3>2, RepeatedAppend
      <4>2. PICK D : m[f] \in Seq(D)
        BY <2>2, <2>6, <3>2, RepeatedAppend
      <4>3. CASE F.repeat = "packed" /\ e.wt = "len"
        <5>1. Elements(F, b) = Unpack(F, e.data)
          BY <2>2, <2>4, <4>3, ElementsRead
        <5>2. ReadField(t, m, e) = Extended(m, f, Unpack(F, e.data))
          BY <2>1, <2>2, <4>3, ReadsPacked
        <5> QED BY <4>1, <5>1, <5>2 DEF Extended
      <4>4. CASE ~(F.repeat = "packed" /\ e.wt = "len")
        <5>1. PICK x : x = Value(F, e.data, Undefined)
          OBVIOUS
        <5>2. Elements(F, b) = <<x>>
          BY <2>2, <2>4, <4>4, <5>1, ElementsRead
        <5>3. ReadField(t, m, e) = [m EXCEPT ![f] = Append(m[f], x)]
          BY <2>1, <2>2, <3>2, <4>4, <5>1, ReadsMany
        <5>4. m[f] \o <<x>> = Append(m[f], x)
          BY <4>2
        <5> QED BY <4>1, <5>2, <5>3, <5>4
      <4> QED BY <4>3, <4>4
    <3> QED BY <3>1, <3>2
  <2> QED BY <1>1, <2>9, <2>10
<1> QED BY <1>5, <1>6

LEMMA MeansOf ==
    ASSUME Recursion, Objects, NEW t \in DOMAIN MessageType, MeansWithin(t) PROVE Means(t)
<1>1. PICK D : D = AnswersOf[t]
  OBVIOUS
<1>2. PICK S : S = {k \in Nat : \A w \in Seq(D) : Len(w) = k => ReadFrom(t, w) = Denotes(t, w)}
  OBVIOUS
<1>3. 0 \in S
  <2>1. ASSUME NEW w \in Seq(D), Len(w) = 0 PROVE ReadFrom(t, w) = Denotes(t, w)
    <3>1. w = <<>>
      BY <2>1, EmptySeq
    <3> QED BY <3>1, ReadEmpty, MeantEmpty DEF ReadFrom
  <2> QED BY <1>2, <2>1
<1>4. ASSUME NEW k \in Nat, k \in S PROVE k + 1 \in S
  <2>1. ASSUME NEW w \in Seq(D), Len(w) = k + 1 PROVE ReadFrom(t, w) = Denotes(t, w)
    <3>1. PICK r \in Seq(D), e \in D : Len(r) = k /\ w = Append(r, e)
      <4>1. SubSeq(w, 1, k) \in Seq(D) /\ Len(SubSeq(w, 1, k)) = k /\ w[k + 1] \in D
        BY <2>1, LastOff
      <4>2. w = Append(SubSeq(w, 1, k), w[k + 1])
        BY <2>1, LastOff
      <4> QED BY <4>1, <4>2, Zenon
    <3>2. ReadFrom(t, Append(r, e)) = ReadField(t, ReadFrom(t, r), e)
      BY ReadAppend DEF ReadFrom
    <3>3. ReadFrom(t, r) = Denotes(t, r)
      BY <1>2, <1>4, <3>1
    <3>4. Denotes(t, Append(r, e)) = ReadField(t, Denotes(t, r), e)
      BY <1>1, MeantAppend
    <3> QED BY <3>1, <3>2, <3>3, <3>4
  <2> QED BY <1>2, <2>1
<1>5. \A k \in Nat : k \in S
  BY <1>3, <1>4, Induct
<1>6. \A w \in Seq(D) : Len(w) \in Nat
  OBVIOUS
<1> QED BY <1>1, <1>2, <1>5, <1>6 DEF Means

LEMMA AllMeans ==
    ASSUME Recursion, Objects, NEW t \in DOMAIN MessageType PROVE Means(t)
<1>1. ASSUME NEW u \in DOMAIN MessageType, Flat(u) PROVE Means(u)
  BY <1>1, MeansOf DEF Flat, MeansWithin
<1>2. ASSUME NEW f \in Fields(t), IsMessage(Field(t, f).T) PROVE Means(Field(t, f).T)
  <2>1. PICK u : u = Field(t, f).T
    OBVIOUS
  <2>2. u \in DOMAIN MessageType
    BY <1>2, <2>1 DEF IsMessage
  <2>3. \A g \in Fields(u) : IsMessage(Field(u, g).T) => Flat(Field(u, g).T)
    BY <1>2, <2>1, Schema
  <2>4. MeansWithin(u)
    BY <1>1, <2>3 DEF MeansWithin, IsMessage
  <2> QED BY <2>1, <2>2, <2>4, MeansOf
<1>3. MeansWithin(t)
  BY <1>2 DEF MeansWithin
<1> QED BY <1>3, MeansOf
-----------------------------------------------------------------------------
(* What the wrappers make of an answer. *)

LEMMA AbsFacts ==
    ASSUME NEW n \in Int
    PROVE  AbsOf(n) \in Nat /\ AbsOf(n - n) = 0 /\ n <= AbsOf(n) /\ -n <= AbsOf(n)
           /\ \A d \in Int : d # n => AbsOf(d - n) > 0
  BY DEF AbsOf

LEMMA SafeIsDouble ==
    ASSUME NEW n \in Int, AbsOf(n) <= 2^SafeBits PROVE n \in Doubles
<1>1. PICK p \in Nat \ {0}, q \in Nat, r \in Nat :
         p = 2^(SafeBits - 1) /\ q = 2^SafeBits /\ q = 2 * p /\ r = 2^W64 /\ q <= r
  <2>1. 2^(SafeBits - 1) \in Nat \ {0} /\ 2^SafeBits = 2 * 2^(SafeBits - 1) /\ 2^SafeBits <= 2^W64
    BY Powers
  <2>2. 2^SafeBits \in Nat /\ 2^W64 \in Nat
    BY <2>1, PowersOfTwo
  <2> QED BY <2>1, <2>2
<1>2. n \in -r .. r
  BY <1>1, AbsFacts
<1>3. 0 \in 0 .. W64 /\ 1 \in 0 .. W64 /\ 2^0 = 1 /\ 2^1 = 2
  BY Widths, Powers
<1>4. \E k \in 0 .. W64 : n % 2^k = 0 /\ AbsOf(n) \div 2^k < 2^SafeBits
  <2>1. CASE AbsOf(n) < q
    <3>1. n % 1 = 0 /\ AbsOf(n) \div 1 = AbsOf(n)
      BY AbsFacts
    <3>2. n % 2^0 = 0 /\ AbsOf(n) \div 2^0 < 2^SafeBits
      BY <1>1, <1>3, <2>1, <3>1
    <3> QED BY <1>3, <3>2
  <2>2. CASE AbsOf(n) = q
    <3>1. n = 2 * p \/ n = 2 * (-p)
      BY <1>1, <2>2 DEF AbsOf
    <3>2. n % 2 = 0
      BY <3>1
    <3>3. AbsOf(n) \div 2 = p /\ p < q
      BY <1>1, <2>2
    <3>4. n % 2^1 = 0 /\ AbsOf(n) \div 2^1 < 2^SafeBits
      BY <1>1, <1>3, <3>2, <3>3
    <3> QED BY <1>3, <3>4
  <2> QED BY <1>1, <2>1, <2>2, AbsFacts
<1> QED BY <1>1, <1>2, <1>4 DEF Doubles

\* d is nearer to n than e is, or as near and the even one.
Nearer(n, d, e) ==
    \/ AbsOf(d - n) < AbsOf(e - n)
    \/ /\ AbsOf(d - n) = AbsOf(e - n)
       /\ \E k \in 0 .. W64 : d % 2^k = 0 /\ e % 2^k # 0

\* A number up to 2^53 is itself.
LEMMA NumberExact ==
    ASSUME NEW n \in Int, AbsOf(n) <= 2^SafeBits PROVE Number(n) = n
<1>1. n \in Doubles
  BY SafeIsDouble
<1>2. \A d \in Doubles : d \in Int
  <2>1. 2^W64 \in Nat
    BY PowersOfTwo
  <2> QED BY <2>1 DEF Doubles
<1>3. ASSUME NEW e \in Doubles, e # n PROVE Nearer(n, n, e)
  <2>1. AbsOf(n - n) < AbsOf(e - n)
    BY <1>2, <1>3, AbsFacts
  <2> QED BY <2>1 DEF Nearer
<1>4. ASSUME NEW d \in Doubles, d # n PROVE ~Nearer(n, d, n)
  <2>1. AbsOf(d - n) > 0 /\ AbsOf(n - n) = 0 /\ AbsOf(d - n) \in Nat
    BY <1>2, <1>4, AbsFacts
  <2>2. ~(AbsOf(d - n) < AbsOf(n - n)) /\ AbsOf(d - n) # AbsOf(n - n)
    BY <2>1
  <2> QED BY <2>2 DEF Nearer
<1>5. \A d \in Doubles : (\A e \in Doubles \ {d} : Nearer(n, d, e)) <=> d = n
  BY <1>1, <1>3, <1>4, Zenon
<1>6. Number(n) = CHOOSE d \in Doubles : \A e \in Doubles \ {d} : Nearer(n, d, e)
  BY DEF Number, Nearer
<1> QED BY <1>1, <1>5, <1>6

\* A single scalar field of an answer is its default or some occurrence's.
LEMMA MeantSingle ==
    ASSUME NEW t \in DOMAIN MessageType, NEW w \in Seq(AnswersOf[t]), NEW f \in Fields(t),
           Field(t, f).repeat = "no", ~IsMessage(Field(t, f).T)
    PROVE  \/ Denotes(t, w)[f] = Default(Field(t, f))
           \/ \E e \in Bearing(t, f) : Denotes(t, w)[f] = Scalar(Field(t, f).T, e.data)
<1>1. PICK F, N : F = Field(t, f) /\ N = {F.no}
  OBVIOUS
<1>2. PICK occ \in Seq(Bearing(t, f)) : occ = Occurring(w, N)
  <2>1. Occurring(w, N) \in Seq(Bearing(t, f))
    BY <1>1, OccurringType DEF Bearing
  <2> QED BY <2>1, Zenon
<1>3. Denotes(t, w)[f] = FieldMeaning(F, occ)
  BY <1>1, <1>2, MeantParts
<1>4. CASE occ = <<>>
  BY <1>1, <1>3, <1>4 DEF FieldMeaning
<1>5. CASE occ # <<>>
  <2>1. FieldMeaning(F, occ) = Scalar(F.T, Last(occ).data)
    BY <1>1, <1>5 DEF FieldMeaning
  <2>2. Last(occ) \in Bearing(t, f)
    BY <1>5 DEF Last
  <2> QED BY <1>1, <1>3, <2>1, <2>2
<1> QED BY <1>4, <1>5

LEMMA MeantBytes ==
    ASSUME NEW t \in DOMAIN MessageType, NEW w \in Seq(AnswersOf[t]), NEW f, Single(t, f, {"bytes"})
    PROVE  Denotes(t, w)[f] # Null
<1>1. PICK F : F = Field(t, f)
  OBVIOUS
<1>2. f \in Fields(t) /\ F.repeat = "no" /\ F.T = "bytes" /\ ~IsMessage(F.T)
  <2>1. f \in Fields(t) /\ F.repeat = "no" /\ F.T = "bytes"
    BY <1>1 DEF Single
  <2> QED BY <2>1, NoScalar
<1>3. Default(F) = "" /\ Null # ""
  BY <1>2, AnswersAssumption DEF Default
<1>4. ASSUME NEW e \in Bearing(t, f) PROVE Scalar(F.T, e.data) # Null
  <2>1. e.data # Null
    BY <1>2, BearingCarries DEF Carries
  <2>2. Scalar(F.T, e.data) = e.data
    BY <1>2 DEF Scalar
  <2> QED BY <2>1, <2>2
<1> QED BY <1>1, <1>2, <1>3, <1>4, MeantSingle

LEMMA MeantNumber ==
    ASSUME NEW t \in DOMAIN MessageType, NEW w \in Seq(AnswersOf[t]), NEW f,
           Single(t, f, {"int64", "uint64"})
    PROVE  Denotes(t, w)[f] \in Int
<1>1. PICK F : F = Field(t, f)
  OBVIOUS
<1>2. f \in Fields(t) /\ F.repeat = "no" /\ F.T \in {"int64", "uint64"} /\ ~IsMessage(F.T)
  <2>1. f \in Fields(t) /\ F.repeat = "no" /\ F.T \in {"int64", "uint64"}
    BY <1>1 DEF Single
  <2> QED BY <2>1, Schema DEF IsMessage, ScalarType
<1>3. Default(F) = 0
  BY <1>2 DEF Default
<1>4. ASSUME NEW e \in Bearing(t, f) PROVE Scalar(F.T, e.data) \in Int
  <2>1. PICK M \in Nat \ {0} : M = 2^W64
    BY PowersOfTwo
  <2>2. e.data \in 0 .. M - 1
    BY <1>1, <1>2, <2>1, BearingCarries DEF Carries, Unsigned
  <2>3. e.data % M \in Int /\ e.data \in Int
    BY <2>2
  <2>4. SignExtend(W64, e.data) \in Int
    BY <2>1, <2>3 DEF SignExtend
  <2> QED BY <1>2, <2>3, <2>4 DEF Scalar
<1> QED BY <1>1, <1>2, <1>3, <1>4, MeantSingle

\* The promise is fulfilled only after the server has executed the request
\* and, but for the wrappers in NotConverted, with what the answer means by
\* the rules of protocol buffers, in whatever order and number of pieces and
\* with whatever unknown fields it was written: get and getSet return null
\* for a miss and only for a miss, watch for an absent release and only for
\* that, and a number is exact up to 2^53.  For answers of every length.
THEOREM AnswersReachTheCaller == Recursion /\ Objects => (Spec => []AnswerReachesTheCaller)
<1> SUFFICES ASSUME Recursion, Objects PROVE Spec => []AnswerReachesTheCaller
  OBVIOUS
<1>1. ASSUME IInv PROVE AnswerReachesTheCaller
  <2>1. SUFFICES ASSUME call.phase = "fulfilled"
                 PROVE  LET meant == Denotes(MethodOf(call).O, call.wire)
                            R == call.api.result
                        IN  /\ server.executed = 1
                            /\ call.api.stub \notin NotConverted => call.result = Result(R, meant)
                            /\ R.as = "nullable" => (call.result = Null <=> ~meant.hit)
                            /\ R.as = "number" /\ AbsOf(meant[R.of]) <= 2^SafeBits => call.result = meant[R.of]
                            /\ R.as = "watch" => (call.result.release = Null <=> meant.release = Undefined)
    BY DEF AnswerReachesTheCaller
  <2>2. Fulfilled
    <3>1. call = Idle => call.phase = "idle"
      BY DEF Idle
    <3> QED BY <1>1, <2>1, <3>1 DEF IInv, Made, Reading, Failed
  <2>3. PICK O, w, R, meant : /\ O = MethodOf(call).O /\ w = call.wire /\ R = call.api.result
                              /\ meant = Denotes(O, w)
    OBVIOUS
  <2>4. O \in DOMAIN MessageType /\ w \in Seq(AnswersOf[O])
    BY <2>2, <2>3, WrappersAssumption DEF Fulfilled, Known, MethodOf
  <2>5. ReadFrom(O, w) = meant
    BY <2>3, <2>4, AllMeans DEF Means
  <2>6. call.result = Result(R, meant) /\ server.executed = 1
    BY <2>2, <2>3, <2>5 DEF Fulfilled, Done
  <2>7. R.as = "nullable" => (call.result = Null <=> ~meant.hit)
    <3>1. SUFFICES ASSUME R.as = "nullable" PROVE call.result = Null <=> ~meant.hit
      OBVIOUS
    <3>2. Single(O, R.of, {"bytes"})
      BY <2>2, <2>3, <3>1, WrappersAssumption DEF Fulfilled, Known, MethodOf
    <3>3. meant[R.of] # Null
      BY <2>3, <2>4, <3>2, MeantBytes
    <3>4. call.result = IF meant.hit THEN meant[R.of] ELSE Null
      BY <2>6, <3>1 DEF Result, Nullable
    <3> QED BY <3>3, <3>4
  <2>8. R.as = "number" /\ AbsOf(meant[R.of]) <= 2^SafeBits => call.result = meant[R.of]
    <3>1. SUFFICES ASSUME R.as = "number", AbsOf(meant[R.of]) <= 2^SafeBits
                   PROVE  call.result = meant[R.of]
      OBVIOUS
    <3>2. Single(O, R.of, {"int64", "uint64"})
      BY <2>2, <2>3, <3>1, WrappersAssumption DEF Fulfilled, Known, MethodOf
    <3>3. meant[R.of] \in Int
      BY <2>3, <2>4, <3>2, MeantNumber
    <3>4. call.result = Number(meant[R.of])
      BY <2>6, <3>1 DEF Result
    <3> QED BY <3>1, <3>3, <3>4, NumberExact
  <2>9. R.as = "watch" => (call.result.release = Null <=> meant.release = Undefined)
    <3>1. SUFFICES ASSUME R.as = "watch" PROVE call.result.release = Null <=> meant.release = Undefined
      OBVIOUS
    <3>2. call.result.release = IF meant.release = Undefined THEN Null ELSE releaseSnapshot(meant.release)
      BY <2>6, <3>1 DEF Result
    <3>3. releaseSnapshot(meant.release) # Null
      BY DEF Objects
    <3> QED BY <3>2, <3>3
  <2> QED BY <2>3, <2>6, <2>7, <2>8, <2>9
<1> QED BY <1>1, Invariance, PTL
=============================================================================
