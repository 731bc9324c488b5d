---------------------------- MODULE StagingProofs ----------------------------
(***************************************************************************)
(* Theorems about the algorithms of a staged run, for every input: the     *)
(* waves that plan_staging_waves cuts the actions into, and the frames that *)
(* compare_stream and stream_diff_frames make of two files.                *)
(***************************************************************************)
EXTENDS Delta, WavePlan, DataInduction

Ops(V) == [op : {"copy", "bytes"}, offset : Nat, len : Nat, bytes : Seq(V)]

LEMMA SliceType ==
  ASSUME NEW V, NEW s \in Seq(V), NEW from \in Nat, NEW n \in Nat
  PROVE  /\ Slice(s, from, n) \in Seq(V)
         /\ from + n <= Len(s) => Len(Slice(s, from, n)) = n
         /\ Len(Slice(s, from, n)) <= n
         /\ \A i \in 1..Len(Slice(s, from, n)) : Slice(s, from, n)[i] = s[from + i]
  <1> DEFINE e == Least(from + n, Len(s))
  <1>1. Len(s) \in Nat /\ e \in Nat /\ e <= from + n /\ e <= Len(s) /\ (from + n <= Len(s) => e = from + n)
    BY LenProperties DEF Least
  <1>2. \A i \in (from + 1)..e : s[i] \in V
    BY <1>1, ElementOfSeq
  <1> HIDE DEF e
  <1>3. /\ SubSeq(s, from + 1, e) \in Seq(V)
        /\ Len(SubSeq(s, from + 1, e)) = IF from + 1 <= e THEN e - (from + 1) + 1 ELSE 0
        /\ \A i \in 1 .. e - (from + 1) + 1 : SubSeq(s, from + 1, e)[i] = s[from + 1 + i - 1]
    BY <1>1, <1>2, SubSeqProperties
  <1>4. Slice(s, from, n) = SubSeq(s, from + 1, e)
    BY DEF Slice, e
  <1> QED
    BY <1>1, <1>3, <1>4

(* What Scan says of the place w, if f is what it says of the others.       *)
ScanBody(sig, r, f, w) ==
  LET p == w[1]
      n == w[2]
      k == w[3]
      b == Slice(r, p, n)
      rest == IF p + n < Len(r) THEN n ELSE n - 1
  IN IF b \in DOMAIN sig
     THEN Pending(r, p, k) \o <<CopyOf(sig[b], Window)>>
          \o (IF n = 0 THEN <<>> ELSE f[<<p + n, Room(r, p + n), 0>>])
     ELSE IF n = 0 THEN Pending(r, p, k)
     ELSE IF k + 1 >= Chunk
          THEN Pending(r, p + 1, k + 1) \o f[<<p + 1, rest, 0>>]
          ELSE f[<<p + 1, rest, k + 1>>]

LEMMA ScanIs ==
  ASSUME NEW sig, NEW r
  PROVE  Scan(sig, r) = CHOOSE f : f = [w \in Places(r) |-> ScanBody(sig, r, f, w)]
  BY DEF Scan, ScanBody

LEMMA NextNumbers ==
  ASSUME NEW L \in Nat, NEW W \in Nat, NEW p \in 0..L, NEW n \in 0..W, p + n <= L, n # 0
  PROVE  LET rest == IF p + n < L THEN n ELSE n - 1
             space == IF W < L - (p + n) THEN W ELSE L - (p + n)
         IN /\ p + n \in 0..L /\ space \in 0..W /\ p + n + space <= L
            /\ p + 1 \in 0..L /\ rest \in 0..W /\ p + 1 + rest <= L
  OBVIOUS

(* The places that a place looks at are places, and nearer to the end.      *)
LEMMA NextPlaces ==
  ASSUME NEW V, NEW r \in Seq(V), NEW w \in Places(r)
  PROVE  /\ w[1] \in 0..Len(r) /\ w[2] \in 0..Window /\ w[3] \in 0..Chunk
         /\ w[1] + w[2] <= Len(r) /\ Len(r) \in Nat /\ w[3] <= w[1]
         /\ w = <<w[1], w[2], w[3]>>
         /\ w[2] # 0 =>
              /\ <<w[1] + w[2], Room(r, w[1] + w[2]), 0>> \in Places(r)
              /\ LET rest == IF w[1] + w[2] < Len(r) THEN w[2] ELSE w[2] - 1 IN
                   /\ <<w[1] + 1, rest, 0>> \in Places(r)
                   /\ w[3] + 1 < Chunk => <<w[1] + 1, rest, w[3] + 1>> \in Places(r)
  <1>1. /\ w[1] \in 0..Len(r) /\ w[2] \in 0..Window /\ w[3] \in 0..Chunk
        /\ w[1] + w[2] <= Len(r) /\ w = <<w[1], w[2], w[3]>> /\ w[3] <= w[1]
    BY DEF Places
  <1>2. Len(r) \in Nat /\ Window \in Nat /\ Chunk \in Nat /\ Window > 0 /\ Chunk > 0
    BY LenProperties, DeltaAssumption
  <1> DEFINE rest == IF w[1] + w[2] < Len(r) THEN w[2] ELSE w[2] - 1
             space == Room(r, w[1] + w[2])
  <1>3. ASSUME w[2] # 0
        PROVE  /\ w[1] + w[2] \in 0..Len(r) /\ space \in 0..Window /\ w[1] + w[2] + space <= Len(r)
               /\ w[1] + 1 \in 0..Len(r) /\ rest \in 0..Window /\ w[1] + 1 + rest <= Len(r)
    BY <1>1, <1>2, <1>3, NextNumbers DEF Room, Least
  <1>4. ASSUME w[3] + 1 < Chunk PROVE w[3] + 1 \in 0..Chunk
    BY <1>1, <1>2, <1>4
  <1> HIDE DEF rest, space
  <1>5. 0 \in 0..Chunk /\ 0 <= w[1] + w[2] /\ 0 <= w[1] + 1 /\ w[3] + 1 <= w[1] + 1
    BY <1>1, <1>2
  <1>6. ASSUME NEW p \in 0..Len(r), NEW n \in 0..Window, NEW k \in 0..Chunk, p + n <= Len(r), k <= p
        PROVE  <<p, n, k>> \in Places(r)
    BY <1>6 DEF Places
  <1>7. ASSUME w[2] # 0
        PROVE  /\ <<w[1] + w[2], space, 0>> \in Places(r) /\ <<w[1] + 1, rest, 0>> \in Places(r)
               /\ w[3] + 1 < Chunk => <<w[1] + 1, rest, w[3] + 1>> \in Places(r)
    BY <1>3, <1>4, <1>5, <1>6, <1>7
  <1> QED
    BY <1>1, <1>2, <1>7 DEF rest, space

(* A signature brings what is in O: the copies of its blocks, and any bytes. *)
Brings(V, O, sig) ==
  (\A b \in Seq(V) : BytesOf(b) \in O) /\ \A b \in DOMAIN sig : CopyOf(sig[b], Window) \in O

LEMMA PendingType ==
  ASSUME NEW V, NEW O, \A b \in Seq(V) : BytesOf(b) \in O,
         NEW r \in Seq(V), NEW p \in Nat, NEW k \in Nat, k <= p
  PROVE  Pending(r, p, k) \in Seq(O)
  <1>1. p - k \in Nat
    OBVIOUS
  <1>2. Slice(r, p - k, k) \in Seq(V)
    BY <1>1, SliceType
  <1>3. BytesOf(Slice(r, p - k, k)) \in O
    BY <1>2
  <1>4. <<BytesOf(Slice(r, p - k, k))>> \in Seq(O)
    BY <1>3, OneOp
  <1>5. <<>> \in Seq(O)
    BY EmptySeq
  <1> QED
    BY <1>4, <1>5 DEF Pending

LEMMA CopyType ==
  ASSUME NEW V, NEW o \in Nat, NEW n \in Nat
  PROVE  CopyOf(o, n) \in Ops(V)
  <1>1. <<>> \in Seq(V)
    BY EmptySeq
  <1> QED
    BY <1>1 DEF CopyOf, Ops

LEMMA BodyType ==
  ASSUME NEW V, NEW S, NEW sig, Brings(V, S, sig), NEW r \in Seq(V),
         NEW f \in [Places(r) -> Seq(S)], NEW w \in Places(r)
  PROVE  ScanBody(sig, r, f, w) \in Seq(S)
  <1> DEFINE p == w[1]
             n == w[2]
             k == w[3]
             b == Slice(r, p, n)
             rest == IF p + n < Len(r) THEN n ELSE n - 1
             O == Seq(S)
             body == IF b \in DOMAIN sig
               THEN Pending(r, p, k) \o <<CopyOf(sig[b], Window)>>
                    \o (IF n = 0 THEN <<>> ELSE f[<<p + n, Room(r, p + n), 0>>])
               ELSE IF n = 0 THEN Pending(r, p, k)
               ELSE IF k + 1 >= Chunk
                    THEN Pending(r, p + 1, k + 1) \o f[<<p + 1, rest, 0>>]
                    ELSE f[<<p + 1, rest, k + 1>>]
  <1>0. ScanBody(sig, r, f, w) = body
    BY DEF ScanBody
  <1>1. /\ p \in 0..Len(r) /\ n \in 0..Window /\ k \in 0..Chunk /\ k <= p /\ Len(r) \in Nat
        /\ n # 0 =>
             /\ <<p + n, Room(r, p + n), 0>> \in Places(r)
             /\ <<p + 1, rest, 0>> \in Places(r)
             /\ k + 1 < Chunk => <<p + 1, rest, k + 1>> \in Places(r)
    BY NextPlaces
  <1>2. Window \in Nat /\ Chunk \in Nat
    BY DeltaAssumption
  <1>3. /\ n # 0 => f[<<p + n, Room(r, p + n), 0>>] \in O /\ f[<<p + 1, rest, 0>>] \in O
        /\ n # 0 /\ k + 1 < Chunk => f[<<p + 1, rest, k + 1>>] \in O
    <2> HIDE DEF O, p, n, k, rest
    <2> QED
      BY <1>1 DEF O
  <1>12. /\ p \in Nat /\ k \in Nat /\ k <= p /\ p + 1 \in Nat /\ k + 1 \in Nat /\ k + 1 <= p + 1
    BY <1>1, <1>2
  <1>4. Pending(r, p, k) \in O /\ Pending(r, p + 1, k + 1) \in O
    <2> HIDE DEF p, k
    <2> QED
      BY <1>12, PendingType DEF Brings
  <1>7. b \in DOMAIN sig => <<CopyOf(sig[b], Window)>> \in O
    BY OneOp DEF Brings
  <1>8. <<>> \in O
    BY EmptySeq
  <1>9. \A x, y \in O : x \o y \in O
    BY ConcatProperties
  <1>10. (k + 1 >= Chunk) \/ (k + 1 < Chunk)
    BY <1>1, <1>2
  <1> SUFFICES body \in O
    BY <1>0
  <1> DEFINE found == Pending(r, p, k) \o <<CopyOf(sig[b], Window)>>
  <1> HIDE DEF O, p, n, k, b, rest
  <1>13. b \in DOMAIN sig => found \in O
    BY <1>4, <1>7, <1>9
  <1> HIDE DEF found
  <1>14. body = IF b \in DOMAIN sig
               THEN found \o (IF n = 0 THEN <<>> ELSE f[<<p + n, Room(r, p + n), 0>>])
               ELSE IF n = 0 THEN Pending(r, p, k)
               ELSE IF k + 1 >= Chunk
                    THEN Pending(r, p + 1, k + 1) \o f[<<p + 1, rest, 0>>]
                    ELSE f[<<p + 1, rest, k + 1>>]
    BY DEF found
  <1> HIDE DEF body
  <1>15. CASE b \in DOMAIN sig /\ n = 0
    BY <1>15, <1>8, <1>9, <1>13, <1>14
  <1>16. CASE b \in DOMAIN sig /\ n # 0
    BY <1>16, <1>3, <1>9, <1>13, <1>14
  <1>17. CASE b \notin DOMAIN sig /\ n = 0
    BY <1>17, <1>4, <1>14
  <1>18. CASE b \notin DOMAIN sig /\ n # 0 /\ k + 1 >= Chunk
    BY <1>18, <1>3, <1>4, <1>9, <1>14
  <1>19. CASE b \notin DOMAIN sig /\ n # 0 /\ ~(k + 1 >= Chunk)
    BY <1>19, <1>3, <1>10, <1>14
  <1> QED
    BY <1>15, <1>16, <1>17, <1>18, <1>19
LEMMA BodyLocal ==
  ASSUME NEW V, NEW sig, NEW r \in Seq(V), NEW w \in Places(r), NEW f, NEW g,
         \A y \in Places(r) : Len(r) - y[1] < Len(r) - w[1] => f[y] = g[y]
  PROVE  ScanBody(sig, r, f, w) = ScanBody(sig, r, g, w)
  <1> DEFINE p == w[1]
             n == w[2]
             k == w[3]
             rest == IF p + n < Len(r) THEN n ELSE n - 1
             x == <<p + n, Room(r, p + n), 0>>
             y == <<p + 1, rest, 0>>
             z == <<p + 1, rest, k + 1>>
  <1>1. /\ p \in 0..Len(r) /\ n \in 0..Window /\ Len(r) \in Nat /\ k \in 0..Chunk
        /\ n # 0 => x \in Places(r) /\ y \in Places(r) /\ (k + 1 < Chunk => z \in Places(r))
    BY NextPlaces
  <1>2. Window \in Nat /\ Chunk \in Nat
    BY DeltaAssumption
  <1>3. n # 0 => Len(r) - (p + n) < Len(r) - p /\ Len(r) - (p + 1) < Len(r) - p
    BY <1>1, <1>2
  <1>4. x[1] = p + n /\ y[1] = p + 1 /\ z[1] = p + 1
    OBVIOUS
  <1> HIDE DEF x, y, z
  <1>5. /\ n # 0 => f[x] = g[x] /\ f[y] = g[y]
        /\ n # 0 /\ k + 1 < Chunk => f[z] = g[z]
    BY <1>1, <1>3, <1>4
  <1>6. (k + 1 >= Chunk) \/ (k + 1 < Chunk)
    BY <1>1, <1>2
  <1> DEFINE Body(h) ==
         IF Slice(r, p, n) \in DOMAIN sig
         THEN Pending(r, p, k) \o <<CopyOf(sig[Slice(r, p, n)], Window)>>
              \o (IF n = 0 THEN <<>> ELSE h[x])
         ELSE IF n = 0 THEN Pending(r, p, k)
         ELSE IF k + 1 >= Chunk
              THEN Pending(r, p + 1, k + 1) \o h[y]
              ELSE h[z]
  <1>7. ScanBody(sig, r, f, w) = Body(f) /\ ScanBody(sig, r, g, w) = Body(g)
    BY DEF ScanBody, x, y, z
  <1> HIDE DEF p, n, k, rest
  <1>8. Body(f) = Body(g)
    BY <1>5, <1>6
  <1> QED
    BY <1>7, <1>8

LEMMA ScanSolves ==
  ASSUME NEW V, NEW U, NEW sig, Brings(V, U, sig), NEW r \in Seq(V)
  PROVE  /\ Scan(sig, r) \in [Places(r) -> Seq(U)]
         /\ \A w \in Places(r) : Scan(sig, r)[w] = ScanBody(sig, r, Scan(sig, r), w)
  <1> DEFINE D == Places(r)
             O == Seq(U)
             W == [D -> O]
             h == [a \in W |-> [w \in D |-> ScanBody(sig, r, a, w)]]
             m == [w \in D |-> Len(r) - w[1]]
             N == Len(r)
             z == [w \in D |-> <<>>]
  <1>1. N \in Nat
    BY LenProperties
  <1>2. m \in [D -> 0..N]
    <2> SUFFICES ASSUME NEW w \in D PROVE Len(r) - w[1] \in 0..N
      OBVIOUS
    <2>1. w[1] \in 0..Len(r)
      BY DEF Places
    <2> QED
      BY <1>1, <2>1
  <1>3. z \in W
    <2>1. <<>> \in O
      BY EmptySeq
    <2> HIDE DEF O
    <2> QED
      BY <2>1
  <1>4. h \in [W -> W]
    <2>1. ASSUME NEW a \in W, NEW w \in D PROVE ScanBody(sig, r, a, w) \in O
      BY BodyType
    <2> HIDE DEF O, D
    <2> QED
      BY <2>1
  <1>5. ASSUME NEW w \in D, NEW a \in W, NEW b \in W,
               \A y \in D : m[y] < m[w] => a[y] = b[y]
        PROVE  h[a][w] = h[b][w]
    <2>1. \A y \in Places(r) : Len(r) - y[1] < Len(r) - w[1] => a[y] = b[y]
      BY <1>5
    <2>2. ScanBody(sig, r, a, w) = ScanBody(sig, r, b, w)
      BY <2>1, BodyLocal
    <2> QED
      BY <2>2
  <1>6. Descends(D, O, W, m, h)
    <2> HIDE DEF m, h, D, O
    <2> QED
      BY <1>5 DEF Descends
  <1>7. \E f \in W : f = h[f]
    <2> HIDE DEF D, O, W, m, h, N, z
    <2> QED
      BY <1>1, <1>2, <1>3, <1>4, <1>6, Recursion
  <1>8. PICK f \in W : f = [w \in D |-> ScanBody(sig, r, f, w)]
    BY <1>7
  <1> DEFINE S == CHOOSE g : g = [w \in D |-> ScanBody(sig, r, g, w)]
  <1>9. S = [w \in D |-> ScanBody(sig, r, S, w)]
    BY <1>8
  <1>10. Scan(sig, r) = S
    BY ScanIs
  <1>11. \A w \in D : S[w] = ScanBody(sig, r, S, w) /\ f[w] = ScanBody(sig, r, f, w)
    <2> HIDE DEF S, D
    <2> QED
      BY <1>8, <1>9
  <1>12. \A w \in D : w \in {v \in D : S[v] = f[v]}
    <2> DEFINE A == {v \in D : S[v] = f[v]}
    <2>1. ASSUME NEW w \in D, \A y \in D : m[y] < m[w] => y \in A
          PROVE  w \in A
      <3>1. \A y \in Places(r) : Len(r) - y[1] < Len(r) - w[1] => S[y] = f[y]
        <4> HIDE DEF S
        <4> QED
          BY <2>1
      <3>2. ScanBody(sig, r, S, w) = ScanBody(sig, r, f, w)
        <4> HIDE DEF S
        <4> QED
          BY <3>1, BodyLocal
      <3> HIDE DEF S, D
      <3> QED
        BY <3>2, <1>11
    <2>2. m \in [D -> Nat]
      <3> HIDE DEF m, D
      <3> QED
        BY <1>1, <1>2
    <2> HIDE DEF A, m, D, S
    <2>3. \A w \in D : w \in A
      BY <2>1, <2>2, MeasureInduction
    <2> QED
      BY <2>3 DEF A
  <1>13. S = f
    <2> HIDE DEF D, S, O
    <2>1. \A w \in D : S[w] = f[w]
      BY <1>12
    <2> QED
      BY <1>8, <1>9, <2>1
  <1> HIDE DEF S
  <1> QED
    BY <1>10, <1>11, <1>13

LEMMA OpsBring ==
  ASSUME NEW V, NEW sig, \A b \in DOMAIN sig : sig[b] \in Nat
  PROVE  Brings(V, Ops(V), sig)
  <1>1. \A b \in Seq(V) : BytesOf(b) \in Ops(V)
    BY DEF BytesOf, Ops
  <1>2. Window \in Nat
    BY DeltaAssumption
  <1>3. \A b \in DOMAIN sig : CopyOf(sig[b], Window) \in Ops(V)
    BY <1>2, CopyType
  <1> QED
    BY <1>1, <1>3 DEF Brings
-----------------------------------------------------------------------------
(* fs makes x of the file s: piece after piece, a copy or literal bytes.    *)
Piece(s, f) == IF f.op = "copy" THEN Slice(s, f.offset, f.len) ELSE f.bytes
Grows(V, s, fs, g) ==
  /\ g \in [0..Len(fs) -> Seq(V)] /\ g[0] = <<>>
  /\ \A n \in 1..Len(fs) : g[n] = g[n - 1] \o Piece(s, fs[n])
Yields(V, s, fs, x) ==
  fs \in Seq(Ops(V)) /\ \E g : Grows(V, s, fs, g) /\ g[Len(fs)] = x

LEMMA PieceType ==
  ASSUME NEW V, NEW s \in Seq(V), NEW f \in Ops(V)
  PROVE  Piece(s, f) \in Seq(V)
  <1>1. f.offset \in Nat /\ f.len \in Nat /\ f.bytes \in Seq(V)
    BY DEF Ops
  <1>2. Slice(s, f.offset, f.len) \in Seq(V)
    BY <1>1, SliceType
  <1> QED
    BY <1>1, <1>2 DEF Piece

LEMMA YieldsType ==
  ASSUME NEW V, NEW s \in Seq(V), NEW fs, NEW x, Yields(V, s, fs, x)
  PROVE  fs \in Seq(Ops(V)) /\ x \in Seq(V) /\ Len(fs) \in Nat
  <1>1. PICK g : Grows(V, s, fs, g) /\ g[Len(fs)] = x
    BY DEF Yields
  <1>2. fs \in Seq(Ops(V)) /\ Len(fs) \in Nat
    BY LenProperties DEF Yields
  <1> QED
    BY <1>1, <1>2 DEF Grows

LEMMA YieldsNothing ==
  ASSUME NEW V, NEW s \in Seq(V)
  PROVE  Yields(V, s, <<>>, <<>>)
  <1> DEFINE e == <<>>
             g == [n \in 0..Len(e) |-> <<>>]
  <1>1. e \in Seq(Ops(V)) /\ Len(e) = 0 /\ <<>> \in Seq(V)
    BY EmptySeq
  <1>2. g \in [0..Len(e) -> Seq(V)] /\ g[0] = <<>> /\ g[Len(e)] = <<>>
    BY <1>1
  <1>3. \A n \in 1..Len(e) : g[n] = g[n - 1] \o Piece(s, e[n])
    BY <1>1
  <1> HIDE DEF g, e
  <1>4. Grows(V, s, e, g)
    BY <1>2, <1>3 DEF Grows
  <1>5. Yields(V, s, e, <<>>)
    BY <1>1, <1>2, <1>4 DEF Yields
  <1> QED
    BY <1>5 DEF e

LEMMA YieldsConcat ==
  ASSUME NEW V, NEW s \in Seq(V), NEW fs, NEW x, NEW gs, NEW y,
         Yields(V, s, fs, x), Yields(V, s, gs, y)
  PROVE  Yields(V, s, fs \o gs, x \o y)
  <1>1. PICK g : Grows(V, s, fs, g) /\ g[Len(fs)] = x
    BY DEF Yields
  <1>2. PICK h : Grows(V, s, gs, h) /\ h[Len(gs)] = y
    BY DEF Yields
  <1> DEFINE m == Len(fs)
             n == Len(gs)
             c == fs \o gs
             j == [i \in 0..(m + n) |-> IF i <= m THEN g[i] ELSE x \o h[i - m]]
  <1>3. /\ fs \in Seq(Ops(V)) /\ gs \in Seq(Ops(V)) /\ m \in Nat /\ n \in Nat
        /\ x \in Seq(V) /\ y \in Seq(V)
    BY YieldsType
  <1>4. /\ c \in Seq(Ops(V)) /\ Len(c) = m + n
        /\ \A i \in 1..(m + n) : c[i] = IF i <= m THEN fs[i] ELSE gs[i - m]
    BY <1>3, ConcatProperties
  <1>5. /\ g \in [0..m -> Seq(V)] /\ h \in [0..n -> Seq(V)] /\ g[0] = <<>> /\ h[0] = <<>>
        /\ g[m] = x /\ h[n] = y
    BY <1>1, <1>2 DEF Grows
  <1>6. /\ \A i \in 1..m : g[i] = g[i - 1] \o Piece(s, fs[i])
        /\ \A i \in 1..n : h[i] = h[i - 1] \o Piece(s, gs[i])
    BY <1>1, <1>2 DEF Grows
  <1> HIDE DEF m, n, c
  <1>7. ASSUME NEW i \in 0..(m + n) PROVE j[i] \in Seq(V)
    <2>1. CASE i <= m
      BY <2>1, <1>3, <1>5
    <2>2. CASE ~(i <= m)
      <3>1. i - m \in 0..n
        BY <2>2, <1>3
      <3>2. h[i - m] \in Seq(V)
        BY <3>1, <1>5
      <3>3. x \o h[i - m] \in Seq(V)
        BY <3>2, <1>3, ConcatProperties
      <3> QED
        BY <3>3, <2>2
    <2> QED
      BY <2>1, <2>2
  <1>8. j \in [0..(m + n) -> Seq(V)]
    BY <1>7
  <1>9. j[0] = <<>>
    BY <1>3, <1>5
  <1>10. j[m + n] = x \o y
    <2>1. CASE n = 0
      <3>1. j[m + n] = x /\ y = <<>>
        BY <2>1, <1>3, <1>5
      <3> QED
        BY <3>1, <1>3, ConcatEmptySeq
    <2>2. CASE n # 0
      <3>1. ~(m + n <= m) /\ m + n \in 0..(m + n) /\ (m + n) - m = n
        BY <2>2, <1>3
      <3> QED
        BY <3>1, <1>5
    <2> QED
      BY <2>1, <2>2
  <1>11. ASSUME NEW i \in 1..(m + n)
         PROVE  j[i] = j[i - 1] \o Piece(s, c[i])
    <2>1. i - 1 \in 0..(m + n) /\ i \in 0..(m + n)
      BY <1>3
    <2>2. CASE i <= m
      <3>1. i \in 1..m /\ i - 1 <= m
        BY <2>2, <1>3
      <3>2. j[i] = g[i] /\ j[i - 1] = g[i - 1] /\ c[i] = fs[i]
        BY <2>1, <2>2, <3>1, <1>4
      <3> HIDE DEF j
      <3> QED
        BY <3>1, <3>2, <1>6
    <2>3. CASE ~(i <= m)
      <3>1. i - m \in 1..n /\ (i - m) - 1 \in 0..n /\ (i - 1) - m = (i - m) - 1
        BY <2>3, <1>3
      <3>2. j[i] = x \o h[i - m] /\ c[i] = gs[i - m]
        BY <2>1, <2>3, <1>4
      <3>3. j[i - 1] = x \o h[(i - m) - 1]
        <4>1. CASE i - 1 = m
          <5>1. j[i - 1] = x /\ h[(i - m) - 1] = <<>>
            BY <4>1, <2>1, <1>3, <1>5
          <5> QED
            BY <5>1, <1>3, ConcatEmptySeq
        <4>2. CASE i - 1 # m
          BY <4>2, <2>1, <2>3, <3>1, <1>3
        <4> QED
          BY <4>1, <4>2
      <3>4. h[i - m] = h[(i - m) - 1] \o Piece(s, gs[i - m])
        BY <3>1, <1>6
      <3>5. h[(i - m) - 1] \in Seq(V) /\ gs[i - m] \in Ops(V)
        <4>1. h[(i - m) - 1] \in Seq(V)
          BY <3>1, <1>5
        <4>2. gs[i - m] \in Ops(V)
          BY <3>1, <1>3, ElementOfSeq DEF n
        <4> QED
          BY <4>1, <4>2
      <3>6. Piece(s, gs[i - m]) \in Seq(V)
        BY <3>5, PieceType
      <3> HIDE DEF j
      <3>7. x \o (h[(i - m) - 1] \o Piece(s, gs[i - m])) = (x \o h[(i - m) - 1]) \o Piece(s, gs[i - m])
        <4> DEFINE a == h[(i - m) - 1]
                   b == Piece(s, gs[i - m])
        <4>1. x \in Seq(V) /\ a \in Seq(V) /\ b \in Seq(V)
          BY <3>5, <3>6, <1>3
        <4> HIDE DEF a, b
        <4>2. (x \o a) \o b = x \o (a \o b)
          BY <4>1, ConcatAssociative
        <4> QED
          BY <4>2 DEF a, b
      <3> QED
        BY <3>2, <3>3, <3>4, <3>7
    <2> QED
      BY <2>2, <2>3
  <1> HIDE DEF j
  <1>12. Grows(V, s, c, j) /\ j[Len(c)] = x \o y
    BY <1>4, <1>8, <1>9, <1>10, <1>11 DEF Grows
  <1> QED
    BY <1>4, <1>12 DEF Yields, c
LEMMA YieldsOne ==
  ASSUME NEW V, NEW s \in Seq(V), NEW f \in Ops(V)
  PROVE  Yields(V, s, <<f>>, Piece(s, f))
  <1> DEFINE c == <<f>>
             x == Piece(s, f)
             g == [n \in 0..1 |-> IF n = 0 THEN <<>> ELSE x]
  <1>1. c \in Seq(Ops(V)) /\ Len(c) = 1 /\ c[1] = f
    OBVIOUS
  <1>2. x \in Seq(V) /\ <<>> \in Seq(V)
    BY PieceType, EmptySeq
  <1>3. <<>> \o x = x
    <2> HIDE DEF x
    <2> QED
      BY <1>2, ConcatEmptySeq
  <1>4. g \in [0..1 -> Seq(V)] /\ g[0] = <<>> /\ g[1] = x
    <2> HIDE DEF x
    <2> QED
      BY <1>2
  <1>5. ASSUME NEW n \in 1..1 PROVE g[n] = g[n - 1] \o Piece(s, c[n])
    <2>1. n = 1 /\ n - 1 = 0 /\ Piece(s, c[n]) = x
      BY <1>1
    <2> HIDE DEF x, g, c
    <2> QED
      BY <2>1, <1>3, <1>4
  <1> HIDE DEF g, c, x
  <1>6. Grows(V, s, c, g) /\ g[Len(c)] = x
    BY <1>1, <1>4, <1>5 DEF Grows
  <1>7. Yields(V, s, c, x)
    BY <1>1, <1>6 DEF Yields
  <1> QED
    BY <1>7 DEF c, x

LEMMA FrontAndLast ==
  ASSUME NEW S, NEW fs \in Seq(S), fs # <<>>
  PROVE  /\ Front(fs) \in Seq(S) /\ Last(fs) \in S
         /\ Len(fs) \in Nat \ {0} /\ Len(Front(fs)) = Len(fs) - 1
         /\ \A i \in 1..(Len(fs) - 1) : Front(fs)[i] = fs[i]
  <1>1. Len(fs) \in Nat \ {0} /\ Len(fs) - 1 \in Int
    BY EmptySeq
  <1>2. \A i \in 1..(Len(fs) - 1) : fs[i] \in S
    BY <1>1, ElementOfSeq
  <1>3. /\ SubSeq(fs, 1, Len(fs) - 1) \in Seq(S)
        /\ Len(SubSeq(fs, 1, Len(fs) - 1)) = IF 1 <= Len(fs) - 1 THEN (Len(fs) - 1) - 1 + 1 ELSE 0
        /\ \A i \in 1..((Len(fs) - 1) - 1 + 1) : SubSeq(fs, 1, Len(fs) - 1)[i] = fs[1 + i - 1]
    <2> DEFINE n == Len(fs) - 1
    <2>1. n \in Int /\ 1 \in Int
      BY <1>1
    <2>2. \A i \in 1..n : fs[i] \in S
      BY <1>2
    <2> HIDE DEF n
    <2>3. /\ SubSeq(fs, 1, n) \in Seq(S)
          /\ Len(SubSeq(fs, 1, n)) = IF 1 <= n THEN n - 1 + 1 ELSE 0
          /\ \A i \in 1..(n - 1 + 1) : SubSeq(fs, 1, n)[i] = fs[1 + i - 1]
      BY <2>1, <2>2, SubSeqProperties
    <2> QED
      BY <2>3 DEF n
  <1>4. Len(fs) \in 1..Len(fs)
    BY <1>1
  <1>5. fs[Len(fs)] \in S
    BY <1>4, ElementOfSeq
  <1> DEFINE n == Len(fs)
             c == SubSeq(fs, 1, n - 1)
  <1>6. n \in Nat \ {0} /\ (n - 1) - 1 + 1 = n - 1 /\ (IF 1 <= n - 1 THEN n - 1 ELSE 0) = n - 1
    <2>1. n \in Nat \ {0}
      BY <1>1
    <2> HIDE DEF n
    <2> QED
      BY <2>1
  <1>7. /\ c \in Seq(S) /\ Len(c) = IF 1 <= n - 1 THEN (n - 1) - 1 + 1 ELSE 0
        /\ \A i \in 1..((n - 1) - 1 + 1) : c[i] = fs[1 + i - 1]
    BY <1>3
  <1>8. Front(fs) = c /\ Last(fs) = fs[n]
    BY DEF Front, Last
  <1> HIDE DEF c, n
  <1>9. Len(c) = n - 1 /\ \A i \in 1..(n - 1) : c[i] = fs[i]
    <2>1. \A i \in 1..(n - 1) : 1 + i - 1 = i
      BY <1>6
    <2> QED
      BY <1>6, <1>7, <2>1
  <1> QED
    BY <1>5, <1>6, <1>7, <1>8, <1>9 DEF n

FrontYields(V, s, fs, x) ==
  \E y : Yields(V, s, Front(fs), y) /\ x = y \o Piece(s, Last(fs))

LEMMA YieldsFront ==
  ASSUME NEW V, NEW s \in Seq(V), NEW fs, NEW x, Yields(V, s, fs, x), fs # <<>>
  PROVE  FrontYields(V, s, fs, x)
  <1>1. PICK g : Grows(V, s, fs, g) /\ g[Len(fs)] = x
    BY DEF Yields
  <1>2. fs \in Seq(Ops(V))
    BY DEF Yields
  <1> DEFINE n == Len(fs)
             c == Front(fs)
             h == [i \in 0..(n - 1) |-> g[i]]
  <1>3. /\ c \in Seq(Ops(V)) /\ n \in Nat \ {0} /\ Len(c) = n - 1
        /\ \A i \in 1..(n - 1) : c[i] = fs[i]
    BY <1>2, FrontAndLast
  <1>4. /\ g \in [0..n -> Seq(V)] /\ g[0] = <<>> /\ g[n] = x
        /\ \A i \in 1..n : g[i] = g[i - 1] \o Piece(s, fs[i])
    BY <1>1 DEF Grows
  <1>5. Last(fs) = fs[n]
    BY DEF Last
  <1> HIDE DEF n, c
  <1>6. x = g[n - 1] \o Piece(s, Last(fs))
    <2>1. n \in 1..n
      BY <1>3
    <2> QED
      BY <2>1, <1>4, <1>5
  <1>7. h \in [0..(n - 1) -> Seq(V)] /\ h[0] = <<>> /\ h[n - 1] = g[n - 1]
    BY <1>3, <1>4
  <1>8. ASSUME NEW i \in 1..(n - 1) PROVE h[i] = h[i - 1] \o Piece(s, c[i])
    <2>1. i \in 1..n /\ i \in 0..(n - 1) /\ i - 1 \in 0..(n - 1)
      BY <1>3
    <2>2. h[i] = g[i] /\ h[i - 1] = g[i - 1] /\ c[i] = fs[i]
      BY <2>1, <1>3
    <2> HIDE DEF h
    <2> QED
      BY <2>1, <2>2, <1>4
  <1> HIDE DEF h
  <1>9. Grows(V, s, c, h)
    BY <1>3, <1>7, <1>8 DEF Grows
  <1>10. Yields(V, s, c, g[n - 1])
    BY <1>3, <1>7, <1>9 DEF Yields
  <1> QED
    BY <1>6, <1>10 DEF c, FrontYields

LEMMA YieldsSome ==
  ASSUME NEW V, NEW s \in Seq(V), NEW fs \in Seq(Ops(V))
  PROVE  \E x : Yields(V, s, fs, x)
  <1> DEFINE N == Len(fs)
             S == Seq(V)
             e == <<>>
             g == [n \in 1..N |-> [a \in S |-> a \o Piece(s, fs[n])]]
  <1>1. N \in Nat /\ e \in S
    BY LenProperties, EmptySeq
  <1>2. g \in [1..N -> [S -> S]]
    <2>1. ASSUME NEW n \in 1..N, NEW a \in S PROVE a \o Piece(s, fs[n]) \in S
      <3>1. fs[n] \in Ops(V)
        BY ElementOfSeq
      <3> DEFINE p == Piece(s, fs[n])
      <3>2. p \in S
        BY <3>1, PieceType
      <3> HIDE DEF p
      <3>3. a \o p \in S
        BY <3>2, ConcatProperties
      <3> QED
        BY <3>3 DEF p
    <2> HIDE DEF S, N
    <2> QED
      BY <2>1
  <1>3. \E f : Iterated(f, S, e, N, g)
    <2> HIDE DEF S, N, g, e
    <2> QED
      BY <1>1, <1>2, Iterates
  <1>4. PICK f : Iterated(f, S, e, N, g)
    BY <1>3
  <1>5. f \in [0..N -> S] /\ f[0] = e /\ \A n \in 1..N : f[n] = g[n][f[n - 1]]
    <2> HIDE DEF S, N, g, e
    <2> QED
      BY <1>4 DEF Iterated
  <1>6. ASSUME NEW n \in 1..N PROVE f[n] = f[n - 1] \o Piece(s, fs[n])
    <2>1. f[n - 1] \in S
      <3>1. n - 1 \in 0..N
        BY <1>1
      <3> HIDE DEF S, N, g, e
      <3> QED
        BY <3>1, <1>5
    <2>2. g[n][f[n - 1]] = f[n - 1] \o Piece(s, fs[n])
      BY <2>1
    <2> HIDE DEF S, N, g, e
    <2> QED
      BY <2>2, <1>5
  <1>7. Grows(V, s, fs, f)
    BY <1>5, <1>6 DEF Grows
  <1> QED
    BY <1>7 DEF Yields
LEMMA SliceJoins ==
  ASSUME NEW V, NEW s \in Seq(V), NEW o \in Nat, NEW m \in Nat, NEW n \in Nat
  PROVE  Slice(s, o, m) \o Slice(s, o + m, n) = Slice(s, o, m + n)
  <1> DEFINE L == Len(s)
  <1>1. L \in Nat
    BY LenProperties
  <1>2. CASE o + m <= L
    <2> DEFINE e == Least(o + m + n, L)
    <2>1. /\ Least(o + m, L) = o + m /\ e \in (o + m)..L
          /\ Least((o + m) + n, L) = e /\ Least(o + (m + n), L) = e
          /\ o + 1 \in 1..(L + 1) /\ o + m \in ((o + 1) - 1)..L
      BY <1>1, <1>2 DEF Least
    <2> HIDE DEF e, L
    <2>2. SubSeq(s, o + 1, o + m) \o SubSeq(s, (o + m) + 1, e) = SubSeq(s, o + 1, e)
      BY <2>1, ConcatAdjacentSubSeq DEF L
    <2> QED
      BY <2>1, <2>2 DEF Slice, L
  <1>3. CASE ~(o + m <= L)
    <2>1. /\ Least(o + m, L) = L /\ Least((o + m) + n, L) = L /\ Least(o + (m + n), L) = L
          /\ L < (o + m) + 1 /\ (o + m) + 1 \in Int
      BY <1>1, <1>3 DEF Least
    <2> HIDE DEF L
    <2>2. SubSeq(s, (o + m) + 1, L) = <<>>
      BY <2>1, <1>1, SubSeqEmpty
    <2> DEFINE a == Slice(s, o, m)
    <2>3. a \in Seq(V)
      BY SliceType
    <2>4. Slice(s, o + m, n) = <<>> /\ Slice(s, o, m + n) = a
      BY <2>1, <2>2 DEF Slice, L
    <2> HIDE DEF a
    <2>5. a \o <<>> = a
      BY <2>3, ConcatEmptySeq
    <2> QED
      BY <2>4, <2>5 DEF a
  <1> QED
    BY <1>2, <1>3

(* What stream_diff_frames merges copies what the two frames copied.        *)
LEMMA JoinYields ==
  ASSUME NEW V, NEW s \in Seq(V), NEW fs, NEW x, Yields(V, s, fs, x), NEW f \in Ops(V)
  PROVE  Yields(V, s, Join(fs, f), x \o Piece(s, f))
  <1>1. fs \in Seq(Ops(V)) /\ x \in Seq(V)
    BY YieldsType
  <1>2. Piece(s, f) \in Seq(V)
    BY PieceType
  <1>3. CASE ~(fs # <<>> /\ Continues(Last(fs), f))
    <2>1. Join(fs, f) = fs \o <<f>>
      BY <1>1, <1>3, AppendIsConcat DEF Join
    <2>2. Yields(V, s, <<f>>, Piece(s, f))
      BY YieldsOne
    <2> DEFINE g == <<f>>
               p == Piece(s, f)
    <2> HIDE DEF g, p
    <2>3. Yields(V, s, fs \o g, x \o p)
      BY <2>2, YieldsConcat DEF g, p
    <2> QED
      BY <2>1, <2>3 DEF g, p
  <1>5. fs # <<>> => FrontYields(V, s, fs, x)
    BY YieldsFront
  <1>4. CASE fs # <<>> /\ Continues(Last(fs), f)
    <2> DEFINE l == Last(fs)
               c == Front(fs)
               o == l.offset
               m == l.len
               n == f.len
               t == CopyOf(o, m + n)
    <2>1. l \in Ops(V) /\ c \in Seq(Ops(V))
      BY <1>1, <1>4, FrontAndLast
    <2>2. /\ o \in Nat /\ m \in Nat /\ n \in Nat /\ m + n \in Nat
          /\ l.op = "copy" /\ f.op = "copy" /\ f.offset = o + m
      BY <2>1, <1>4 DEF Ops, Continues
    <2>3. PICK y : Yields(V, s, c, y) /\ x = y \o Piece(s, l)
      BY <1>4, <1>5 DEF FrontYields
    <2>4. t \in Ops(V) /\ t.op = "copy" /\ t.offset = o /\ t.len = m + n
      <3>1. t \in Ops(V)
        <4> HIDE DEF o, m, n
        <4> QED
          BY <2>2, CopyType
      <3> QED
        BY <3>1 DEF CopyOf
    <2>5. Join(fs, f) = c \o <<t>>
      <3>1. Join(fs, f) = Append(c, t)
        BY <1>4 DEF Join
      <3> HIDE DEF c, t
      <3> QED
        BY <3>1, <2>1, <2>4, AppendIsConcat
    <2> DEFINE a == Piece(s, l)
               b == Piece(s, f)
               d == Piece(s, t)
    <2>6. a = Slice(s, o, m) /\ b = Slice(s, o + m, n) /\ d = Slice(s, o, m + n)
      <3> HIDE DEF o, m, n, t
      <3> QED
        BY <2>2, <2>4 DEF Piece, o, m, n
    <2>7. a \o b = d
      <3> HIDE DEF o, m, n, a, b, d
      <3> QED
        BY <2>2, <2>6, SliceJoins
    <2>8. a \in Seq(V) /\ b \in Seq(V) /\ y \in Seq(V)
      <3>1. y \in Seq(V)
        BY <2>3, YieldsType
      <3> QED
        BY <2>1, <3>1, PieceType
    <2>9. Yields(V, s, <<t>>, d)
      <3> HIDE DEF t
      <3> QED
        BY <2>4, YieldsOne
    <2>10. Yields(V, s, c \o <<t>>, y \o d)
      <3> DEFINE u == <<t>>
      <3> HIDE DEF u, c, d
      <3> QED
        BY <2>3, <2>9, YieldsConcat DEF u
    <2>11. x \o b = y \o d
      <3>1. x = y \o a
        BY <2>3
      <3> HIDE DEF a, b, d
      <3>2. (y \o a) \o b = y \o (a \o b)
        BY <2>8, ConcatAssociative
      <3> QED
        BY <3>1, <3>2, <2>7
    <2> QED
      BY <2>5, <2>10, <2>11
  <1> QED
    BY <1>3, <1>4
LEMMA JoinType ==
  ASSUME NEW V, NEW fs \in Seq(Ops(V)), NEW f \in Ops(V)
  PROVE  Join(fs, f) \in Seq(Ops(V))
  <1> DEFINE s == <<>>
  <1>1. s \in Seq(V)
    BY EmptySeq
  <1> HIDE DEF s
  <1>2. PICK x : Yields(V, s, fs, x)
    BY <1>1, YieldsSome
  <1>3. Yields(V, s, Join(fs, f), x \o Piece(s, f))
    BY <1>1, <1>2, JoinYields
  <1> QED
    BY <1>1, <1>3, YieldsType

JoinedSolves(fs, j) == j = [n \in 0..Len(fs) |-> IF n = 0 THEN <<>> ELSE Join(j[n - 1], fs[n])]

LEMMA JoinedExists ==
  ASSUME NEW V, NEW fs \in Seq(Ops(V))
  PROVE  \E j : JoinedSolves(fs, j)
  <1> DEFINE N == Len(fs)
             S == Seq(Ops(V))
             e == <<>>
             g == [n \in 1..N |-> [a \in S |-> Join(a, fs[n])]]
  <1>1. N \in Nat /\ e \in S
    BY LenProperties, EmptySeq
  <1>2. g \in [1..N -> [S -> S]]
    <2>1. ASSUME NEW n \in 1..N, NEW a \in S PROVE Join(a, fs[n]) \in S
      <3>1. fs[n] \in Ops(V)
        BY ElementOfSeq
      <3> QED
        BY <3>1, JoinType
    <2> HIDE DEF S, N
    <2> QED
      BY <2>1
  <1>3. PICK f : Iterated(f, S, e, N, g)
    <2> HIDE DEF S, N, g, e
    <2> QED
      BY <1>1, <1>2, Iterates
  <1>5. f \in [0..N -> S] /\ f[0] = e /\ \A n \in 1..N : f[n] = g[n][f[n - 1]]
    <2> HIDE DEF S, N, g, e
    <2> QED
      BY <1>3 DEF Iterated
  <1>6. ASSUME NEW n \in 0..N PROVE f[n] = IF n = 0 THEN <<>> ELSE Join(f[n - 1], fs[n])
    <2>1. CASE n = 0
      BY <2>1, <1>5
    <2>2. CASE n # 0
      <3>1. n \in 1..N /\ n - 1 \in 0..N
        BY <2>2, <1>1
      <3>2. f[n - 1] \in S
        <4> HIDE DEF S, N, g, e
        <4> QED
          BY <3>1, <1>5
      <3>3. g[n][f[n - 1]] = Join(f[n - 1], fs[n])
        BY <3>1, <3>2
      <3> HIDE DEF S, N, g, e
      <3> QED
        BY <2>2, <3>1, <3>3, <1>5
    <2> QED
      BY <2>1, <2>2
  <1>7. f = [n \in 0..N |-> IF n = 0 THEN <<>> ELSE Join(f[n - 1], fs[n])]
    <2> HIDE DEF S, N, g, e
    <2> QED
      BY <1>5, <1>6
  <1> QED
    BY <1>7 DEF JoinedSolves

JoinedBy(fs, j) ==
  Joined(fs) = j[Len(fs)] /\ j[0] = <<>> /\ \A n \in 1..Len(fs) : j[n] = Join(j[n - 1], fs[n])

LEMMA JoinedSteps ==
  ASSUME NEW V, NEW fs \in Seq(Ops(V))
  PROVE  \E j : JoinedBy(fs, j)
  <1> DEFINE N == Len(fs)
             j == CHOOSE k : k = [n \in 0..Len(fs) |-> IF n = 0 THEN <<>> ELSE Join(k[n - 1], fs[n])]
  <1>0. N \in Nat
    BY LenProperties
  <1>1. Joined(fs) = j[N]
    BY DEF Joined
  <1>2. JoinedSolves(fs, j)
    <2>1. PICK k : JoinedSolves(fs, k)
      BY JoinedExists
    <2> QED
      BY <2>1 DEF JoinedSolves
  <1> HIDE DEF j
  <1>3. j[0] = <<>> /\ \A n \in 1..N : j[n] = Join(j[n - 1], fs[n])
    <2>1. j = [n \in 0..N |-> IF n = 0 THEN <<>> ELSE Join(j[n - 1], fs[n])]
      BY <1>2 DEF JoinedSolves
    <2>2. 0 \in 0..N /\ \A n \in 1..N : n \in 0..N /\ n # 0
      BY <1>0
    <2> HIDE DEF N
    <2> QED
      BY <2>1, <2>2
  <1>4. JoinedBy(fs, j)
    BY <1>1, <1>3 DEF JoinedBy
  <1> QED
    BY <1>4

(* The frames that travel make what the frames of the comparison make.      *)
LEMMA JoinedYields ==
  ASSUME NEW V, NEW s \in Seq(V), NEW fs, NEW x, Yields(V, s, fs, x)
  PROVE  Yields(V, s, Joined(fs), x)
  <1> DEFINE N == Len(fs)
  <1>0. fs \in Seq(Ops(V)) /\ N \in Nat
    BY YieldsType
  <1>2. PICK j : JoinedBy(fs, j)
    BY <1>0, JoinedSteps
  <1>1. Joined(fs) = j[N]
    BY <1>2 DEF JoinedBy
  <1>3. j[0] = <<>> /\ \A n \in 1..N : j[n] = Join(j[n - 1], fs[n])
    BY <1>2 DEF JoinedBy
  <1>4. PICK g : Grows(V, s, fs, g) /\ g[N] = x
    BY DEF Yields
  <1>5. g[0] = <<>> /\ \A n \in 1..N : g[n] = g[n - 1] \o Piece(s, fs[n])
    BY <1>4 DEF Grows
  <1> DEFINE D == 0..N
             m == [n \in D |-> n]
             A == {n \in D : Yields(V, s, j[n], g[n])}
  <1>6. m \in [D -> Nat]
    BY <1>0
  <1>7. ASSUME NEW n \in D, \A y \in D : m[y] < m[n] => y \in A PROVE n \in A
    <2>1. CASE n = 0
      BY <2>1, <1>3, <1>5, YieldsNothing
    <2>2. CASE n # 0
      <3>1. n \in 1..N /\ n - 1 \in D /\ n - 1 < n
        BY <2>2, <1>0
      <3>2. Yields(V, s, j[n - 1], g[n - 1])
        BY <3>1, <1>7
      <3>3. fs[n] \in Ops(V)
        BY <3>1, <1>0, ElementOfSeq
      <3>4. Yields(V, s, Join(j[n - 1], fs[n]), g[n - 1] \o Piece(s, fs[n]))
        <4> HIDE DEF N, D, m, A
        <4> QED
          BY <3>2, <3>3, JoinYields
      <3>5. Yields(V, s, j[n], g[n])
        <4> HIDE DEF N, D, m, A
        <4> QED
          BY <3>1, <3>4, <1>3, <1>5
      <3> QED
        BY <3>5
    <2> QED
      BY <2>1, <2>2
  <1>8. \A n \in D : n \in A
    <2> HIDE DEF D, m, A
    <2> QED
      BY <1>6, <1>7, MeasureInduction
  <1>9. N \in A
    <2>1. N \in D
      BY <1>0
    <2> HIDE DEF A, D
    <2> QED
      BY <1>8, <2>1
  <1> QED
    BY <1>1, <1>4, <1>9
-----------------------------------------------------------------------------
(* What the signature says is where its blocks are.                         *)

Located(V, s, sig) ==
  \A b \in DOMAIN sig : sig[b] \in Nat /\ sig[b] <= Len(s) /\ Slice(s, sig[b], Window) = b

LEMMA Quotient ==
  ASSUME NEW b \in Nat \ {0}, NEW x \in Nat
  PROVE  /\ x \div b \in Nat /\ b * (x \div b) \in Nat
         /\ b * (x \div b) <= x /\ x < b * (x \div b) + b
  <1> DEFINE q == x \div b
             r == x % b
  <1>1. q \in Int /\ r \in 0..(b - 1) /\ x = b * q + r
    OBVIOUS
  <1> HIDE DEF q, r
  <1>2. q >= 0
    <2>1. CASE q < 0
      <3>1. b * q <= b * (-1)
        BY <1>1, <2>1
      <3> QED
        BY <1>1, <3>1
    <2> QED
      BY <1>1, <2>1
  <1>3. b * q \in Nat /\ b * q <= x /\ x < b * q + b
    BY <1>1, <1>2
  <1> QED
    BY <1>1, <1>2, <1>3 DEF q

(* The multiples of b keep the order of numbers.                            *)
LEMMA SignatureLocated ==
  ASSUME NEW V, NEW s \in Seq(V)
  PROVE  Located(V, s, Signature(s))
  <1> DEFINE starts == 0..(Len(s) \div Window)
             piece(i) == Slice(s, i * Window, Window)
             pick(b) == CHOOSE i \in starts : piece(i) = b /\ \A j \in starts : piece(j) = b => j <= i
  <1>1. Len(s) \in Nat /\ Window \in Nat \ {0} /\ Len(s) \div Window \in Nat
    BY LenProperties, DeltaAssumption
  <1>2. Signature(s) = [b \in {piece(i) : i \in starts} |-> Window * pick(b)]
    BY DEF Signature
  <1> SUFFICES ASSUME NEW b \in {piece(i) : i \in starts}
               PROVE  /\ Window * pick(b) \in Nat /\ Window * pick(b) <= Len(s)
                      /\ Slice(s, Window * pick(b), Window) = b
    BY <1>2 DEF Located
  <1> DEFINE hits == {i \in starts : piece(i) = b}
             i == pick(b)
  <1>3. PICK l \in hits : \A j \in hits : j <= l
    <2>1. hits \in SUBSET starts /\ hits # {}
      OBVIOUS
    <2> HIDE DEF hits
    <2> QED
      BY <1>1, <2>1, LargestOf
  <1>4. i \in starts /\ piece(i) = b
    <2>1. l \in starts /\ piece(l) = b /\ \A j \in starts : piece(j) = b => j <= l
      BY <1>3
    <2> HIDE DEF starts, piece
    <2> QED
      BY <2>1
  <1> HIDE DEF i
  <1>5. i \in Nat
    BY <1>1, <1>4
  <1>6. Window * i = i * Window /\ Window * i \in Nat
    BY <1>1, <1>5
  <1>7. Window * i <= Len(s)
    <2> DEFINE q == Len(s) \div Window
    <2>1. Window * q <= Len(s) /\ q \in Nat /\ Window * q \in Nat
      BY <1>1, Quotient
    <2>2. i <= q
      BY <1>4, <1>5, <2>1
    <2> HIDE DEF q
    <2>3. Window * i <= Window * q
      BY <1>1, <1>5, <2>1, <2>2
    <2> QED
      BY <1>1, <1>6, <2>1, <2>3
  <1> QED
    BY <1>4, <1>6, <1>7 DEF i

-----------------------------------------------------------------------------
(* What the comparison says of a place makes the rest of the file, from the *)
(* pending bytes on.                                                        *)

Rest(r, p) == SubSeq(r, p + 1, Len(r))

LEMMA RestJoins ==
  ASSUME NEW V, NEW r \in Seq(V), NEW p \in Nat, NEW n \in Nat, p + n <= Len(r)
  PROVE  /\ Slice(r, p, n) \o Rest(r, p + n) = Rest(r, p)
         /\ Rest(r, p) \in Seq(V) /\ Slice(r, p, n) \in Seq(V)
  <1> DEFINE L == Len(r)
  <1>1. L \in Nat
    BY LenProperties
  <1>2. /\ Least(p + n, L) = p + n /\ p + 1 \in 1..(L + 1)
        /\ p + n \in ((p + 1) - 1)..L /\ L \in (p + n)..L
    BY <1>1 DEF Least
  <1>3. \A i \in (p + 1)..L : r[i] \in V
    <2>1. \A i \in (p + 1)..L : i \in 1..L
      BY <1>1
    <2> QED
      BY <2>1, ElementOfSeq
  <1> HIDE DEF L
  <1>4. SubSeq(r, p + 1, p + n) \o SubSeq(r, (p + n) + 1, L) = SubSeq(r, p + 1, L)
    BY <1>2, ConcatAdjacentSubSeq DEF L
  <1>5. SubSeq(r, p + 1, L) \in Seq(V)
    <2>1. p + 1 \in Int /\ L \in Int
      BY <1>1
    <2> DEFINE q == p + 1
    <2> HIDE DEF q
    <2>2. SubSeq(r, q, L) \in Seq(V)
      BY <2>1, <1>3, SubSeqProperties DEF q
    <2> QED
      BY <2>2 DEF q
  <1>6. Slice(r, p, n) \in Seq(V)
    BY SliceType
  <1> QED
    BY <1>2, <1>4, <1>5, <1>6 DEF Slice, Rest, L

LEMMA PendingYields ==
  ASSUME NEW V, NEW s \in Seq(V), NEW r \in Seq(V), NEW p \in Nat, NEW k \in Nat, k <= p
  PROVE  Yields(V, s, Pending(r, p, k), Slice(r, p - k, k))
  <1> DEFINE o == p - k
             b == Slice(r, o, k)
  <1>1. o \in Nat /\ b \in Seq(V)
    <2>1. o \in Nat
      OBVIOUS
    <2> HIDE DEF o
    <2> QED
      BY <2>1, SliceType
  <1>2. CASE k = 0
    <2>1. b = <<>>
      <3>1. o + 0 = o /\ Least(o + 0, Len(r)) < o + 1 /\ Least(o + 0, Len(r)) \in Int /\ o + 1 \in Int
        <4>1. Len(r) \in Nat
          BY LenProperties
        <4> HIDE DEF o
        <4> QED
          BY <1>1, <4>1 DEF Least
      <3> HIDE DEF o
      <3> QED
        BY <1>2, <3>1, SubSeqEmpty DEF Slice
    <2>2. Pending(r, p, k) = <<>>
      BY <1>2 DEF Pending
    <2> HIDE DEF b
    <2> QED
      BY <2>1, <2>2, YieldsNothing DEF b
  <1>3. CASE k # 0
    <2> DEFINE f == BytesOf(b)
    <2>1. f \in Ops(V) /\ f.op = "bytes" /\ f.bytes = b
      <3> HIDE DEF b
      <3> QED
        BY <1>1 DEF BytesOf, Ops
    <2>2. Pending(r, p, k) = <<f>>
      BY <1>3 DEF Pending
    <2> HIDE DEF f, b
    <2>3. Yields(V, s, <<f>>, Piece(s, f))
      BY <2>1, YieldsOne
    <2>4. Piece(s, f) = b
      BY <2>1 DEF Piece
    <2> QED
      BY <2>2, <2>3, <2>4 DEF b
  <1> QED
    BY <1>2, <1>3

(* The whole of compare_stream, from the end of the file to its start.      *)
LEMMA ScanYields ==
  ASSUME NEW V, NEW s \in Seq(V), NEW sig, Located(V, s, sig), NEW r \in Seq(V),
         NEW w \in Places(r), w[2] = 0 => w[1] = Len(r),
         NEW f \in [Places(r) -> Seq(Ops(V))], f[w] = ScanBody(sig, r, f, w),
         \A y \in Places(r) : Len(r) - y[1] < Len(r) - w[1] /\ (y[2] = 0 => y[1] = Len(r))
            => Yields(V, s, f[y], Rest(r, y[1] - y[3]))
  PROVE  Yields(V, s, f[w], Rest(r, w[1] - w[3]))
  <1> DEFINE L == Len(r)
             p == w[1]
             n == w[2]
             k == w[3]
             b == Slice(r, p, n)
             rest == IF p + n < L THEN n ELSE n - 1
             x == <<p + n, Room(r, p + n), 0>>
             y == <<p + 1, rest, 0>>
             z == <<p + 1, rest, k + 1>>
  <1>1. /\ p \in 0..L /\ n \in 0..Window /\ k \in 0..Chunk /\ k <= p /\ L \in Nat /\ p + n <= L
        /\ n # 0 =>
             /\ x \in Places(r)
             /\ y \in Places(r)
             /\ k + 1 < Chunk => z \in Places(r)
    BY NextPlaces
  <1>2. Window \in Nat \ {0} /\ Chunk \in Nat
    BY DeltaAssumption
  <1>3. /\ p \in Nat /\ n \in Nat /\ k \in Nat /\ p + 1 \in Nat /\ k + 1 \in Nat /\ k + 1 <= p + 1
        /\ p - k \in Nat /\ (p - k) + k = p /\ (p + 1) - (k + 1) = p - k /\ (p - k) + k <= L
        /\ (p + n) - 0 = p + n /\ (p + 1) - 0 = p + 1 /\ p + n \in Nat
    <2> HIDE DEF x, y, z, p, n, k, L
    <2> QED
      BY <1>1, <1>2
  <1>4. x[1] = p + n /\ x[2] = Room(r, p + n) /\ x[3] = 0
    OBVIOUS
  <1>5. y[1] = p + 1 /\ y[2] = rest /\ y[3] = 0 /\ z[1] = p + 1 /\ z[2] = rest /\ z[3] = k + 1
    OBVIOUS
  <1>6. n # 0 => /\ p + 1 <= L /\ L - (p + n) < L - p /\ L - (p + 1) < L - p
                 /\ rest = 0 => p + 1 = L
                 /\ Room(r, p + n) = 0 => p + n = L
                 /\ (p - k) + (k + 1) = p + 1
    <2> HIDE DEF x, y, z, p, n, k, L
    <2>1. n # 0 => p + 1 <= L /\ L - (p + n) < L - p /\ L - (p + 1) < L - p
                   /\ (p - k) + (k + 1) = p + 1
      BY <1>1, <1>3
    <2>2. n # 0 /\ rest = 0 => p + 1 = L
      BY <1>1, <1>3
    <2>3. Room(r, p + n) = IF Window < L - (p + n) THEN Window ELSE L - (p + n)
      BY DEF Room, Least, L
    <2>4. Room(r, p + n) = 0 => p + n = L
      BY <2>3, <1>1, <1>2, <1>3
    <2> QED
      BY <2>1, <2>2, <2>4
  <1>7. f[w] = IF b \in DOMAIN sig
               THEN Pending(r, p, k) \o <<CopyOf(sig[b], Window)>>
                    \o (IF n = 0 THEN <<>> ELSE f[x])
               ELSE IF n = 0 THEN Pending(r, p, k)
               ELSE IF k + 1 >= Chunk THEN Pending(r, p + 1, k + 1) \o f[y] ELSE f[z]
    BY DEF ScanBody
  <1> HIDE DEF x, y, z, rest, L, b
  <1>8. n # 0 => Yields(V, s, f[x], Rest(r, p + n)) /\ Yields(V, s, f[y], Rest(r, p + 1))
    BY <1>1, <1>3, <1>4, <1>5, <1>6 DEF L
  <1>9. n # 0 /\ k + 1 < Chunk => Yields(V, s, f[z], Rest(r, p - k))
    BY <1>1, <1>3, <1>5, <1>6 DEF L
  <1> HIDE DEF p, n, k
  <1>10. /\ Yields(V, s, Pending(r, p, k), Slice(r, p - k, k))
         /\ Yields(V, s, Pending(r, p + 1, k + 1), Slice(r, p - k, k + 1))
    <2>1. Yields(V, s, Pending(r, p, k), Slice(r, p - k, k))
      BY <1>1, <1>3, PendingYields
    <2>2. Yields(V, s, Pending(r, p + 1, k + 1), Slice(r, (p + 1) - (k + 1), k + 1))
      BY <1>3, PendingYields
    <2> QED
      BY <2>1, <2>2, <1>3
  <1>11. /\ Slice(r, p - k, k) \o Rest(r, p) = Rest(r, p - k)
         /\ b \o Rest(r, p + n) = Rest(r, p)
         /\ n # 0 => Slice(r, p - k, k + 1) \o Rest(r, p + 1) = Rest(r, p - k)
    <2>1. Slice(r, p - k, k) \o Rest(r, (p - k) + k) = Rest(r, p - k)
      BY <1>3, RestJoins DEF L
    <2>2. b \o Rest(r, p + n) = Rest(r, p)
      BY <1>1, <1>3, RestJoins DEF L, b
    <2>3. n # 0 => Slice(r, p - k, k + 1) \o Rest(r, (p - k) + (k + 1)) = Rest(r, p - k)
      BY <1>3, <1>6, RestJoins DEF L
    <2> QED
      BY <2>1, <2>2, <2>3, <1>3, <1>6
  <1>12. CASE b \in DOMAIN sig
    <2> DEFINE c == CopyOf(sig[b], Window)
               q == <<c>>
    <2>1. c \in Ops(V) /\ c.op = "copy" /\ c.offset = sig[b] /\ c.len = Window
      <3>1. sig[b] \in Nat /\ Window \in Nat
        BY <1>2, <1>12 DEF Located
      <3>2. c \in Ops(V)
        BY <3>1, CopyType
      <3> QED
        BY <3>2 DEF CopyOf
    <2> HIDE DEF c
    <2>2. Piece(s, c) = b
      BY <2>1, <1>12 DEF Piece, Located
    <2>3. Yields(V, s, q, b)
      BY <2>1, <2>2, YieldsOne
    <2> HIDE DEF q
    <2> DEFINE l == IF n = 0 THEN <<>> ELSE f[x]
               t == Rest(r, p + n)
               a == Slice(r, p - k, k)
               u == Pending(r, p, k)
    <2>4. Yields(V, s, l, t)
      <3>1. CASE n = 0
        <4>1. t = <<>>
          <5>1. t = SubSeq(r, p + n + 1, L) /\ L < p + n + 1 /\ p + n + 1 \in Int /\ L \in Int
            BY <3>1, <1>1, <1>3 DEF Rest, L, p, n
          <5> HIDE DEF t
          <5> QED
            BY <5>1, SubSeqEmpty
        <4>2. l = <<>>
          BY <3>1
        <4> HIDE DEF t, l
        <4> QED
          BY <4>1, <4>2, YieldsNothing
      <3>2. CASE n # 0
        BY <3>2, <1>8
      <3> QED
        BY <3>1, <3>2
    <2>5. Yields(V, s, u, a)
      BY <1>10
    <2>6. f[w] = (u \o q) \o l
      BY <1>7, <1>12 DEF q, c
    <2>7. a \o Rest(r, p) = Rest(r, p - k) /\ b \o t = Rest(r, p)
      BY <1>11
    <2> HIDE DEF l, t, a, u
    <2>8. Yields(V, s, u \o q, a \o b)
      BY <2>3, <2>5, YieldsConcat
    <2> DEFINE uq == u \o q
               ab == a \o b
    <2> HIDE DEF uq, ab
    <2>9. Yields(V, s, uq \o l, ab \o t)
      BY <2>8, <2>4, YieldsConcat DEF uq, ab
    <2>10. a \in Seq(V) /\ b \in Seq(V) /\ t \in Seq(V)
      BY <2>3, <2>4, <2>5, YieldsType
    <2>11. (a \o b) \o t = a \o (b \o t)
      <3> HIDE DEF b
      <3> QED
        BY ONLY <2>10, ConcatAssociative
    <2>12. ab \o t = Rest(r, p - k)
      BY <2>7, <2>11 DEF ab
    <2> QED
      BY <2>6, <2>9, <2>12 DEF uq, p, k
  <1>13. CASE b \notin DOMAIN sig /\ n = 0
    <2>1. p = L
      BY <1>13 DEF p, n, L
    <2>2. Rest(r, p) = <<>>
      <3>1. Rest(r, p) = SubSeq(r, p + 1, L) /\ L < p + 1 /\ p + 1 \in Int /\ L \in Int
        BY <2>1, <1>1 DEF Rest, L
      <3> QED
        BY <3>1, SubSeqEmpty
    <2> DEFINE a == Slice(r, p - k, k)
    <2>3. a \in Seq(V)
      BY <1>10, YieldsType
    <2>4. a \o Rest(r, p) = Rest(r, p - k)
      BY <1>11
    <2>5. Yields(V, s, Pending(r, p, k), a) /\ f[w] = Pending(r, p, k)
      BY <1>7, <1>10, <1>13
    <2> HIDE DEF a
    <2>6. a \o <<>> = a
      BY <2>3, ConcatEmptySeq
    <2> QED
      BY <2>2, <2>4, <2>5, <2>6 DEF p, k
  <1>14. CASE b \notin DOMAIN sig /\ n # 0 /\ k + 1 >= Chunk
    <2> DEFINE u == Pending(r, p + 1, k + 1)
               a == Slice(r, p - k, k + 1)
               t == Rest(r, p + 1)
    <2>1. Yields(V, s, u, a) /\ Yields(V, s, f[y], t) /\ f[w] = u \o f[y] /\ a \o t = Rest(r, p - k)
      BY <1>7, <1>8, <1>10, <1>11, <1>14
    <2> HIDE DEF u, a, t
    <2>2. Yields(V, s, u \o f[y], a \o t)
      BY <2>1, YieldsConcat
    <2> QED
      BY <2>1, <2>2 DEF p, k
  <1>15. CASE b \notin DOMAIN sig /\ n # 0 /\ ~(k + 1 >= Chunk)
    <2>1. k + 1 < Chunk
      BY <1>1, <1>2, <1>15
    <2> QED
      BY <2>1, <1>7, <1>9, <1>15 DEF p, k
  <1> QED
    BY <1>12, <1>13, <1>14, <1>15
(* The difference of a file to another, from the signature of the one, makes *)
(* the other of the one, for any two files.                                 *)
LEMMA CompareYields ==
  ASSUME NEW V, NEW s \in Seq(V), NEW sig, Located(V, s, sig), NEW r \in Seq(V)
  PROVE  Yields(V, s, Compare(sig, r), r)
  <1> DEFINE D == Places(r)
             f == Scan(sig, r)
             m == [w \in D |-> Len(r) - w[1]]
             A == {w \in D : (w[2] = 0 => w[1] = Len(r)) => Yields(V, s, f[w], Rest(r, w[1] - w[3]))}
             o == <<0, Room(r, 0), 0>>
  <1>1. /\ f \in [D -> Seq(Ops(V))]
        /\ \A w \in D : f[w] = ScanBody(sig, r, f, w)
    <2>1. \A b \in DOMAIN sig : sig[b] \in Nat
      BY DEF Located
    <2>2. Brings(V, Ops(V), sig)
      BY <2>1, OpsBring
    <2> QED
      BY <2>2, ScanSolves
  <1>2. Len(r) \in Nat /\ Window \in Nat \ {0} /\ Chunk \in Nat \ {0}
    BY LenProperties, DeltaAssumption
  <1>3. m \in [D -> Nat]
    <2> SUFFICES ASSUME NEW w \in D PROVE Len(r) - w[1] \in Nat
      OBVIOUS
    <2>1. w[1] \in 0..Len(r)
      BY DEF Places
    <2> QED
      BY <2>1, <1>2
  <1>4. ASSUME NEW w \in D, \A y \in D : m[y] < m[w] => y \in A PROVE w \in A
    <2> SUFFICES ASSUME w[2] = 0 => w[1] = Len(r)
                 PROVE  Yields(V, s, f[w], Rest(r, w[1] - w[3]))
      OBVIOUS
    <2>1. \A y \in Places(r) : Len(r) - y[1] < Len(r) - w[1] /\ (y[2] = 0 => y[1] = Len(r))
            => Yields(V, s, f[y], Rest(r, y[1] - y[3]))
      <3> SUFFICES ASSUME NEW y \in Places(r), Len(r) - y[1] < Len(r) - w[1],
                          y[2] = 0 => y[1] = Len(r)
                   PROVE  Yields(V, s, f[y], Rest(r, y[1] - y[3]))
        OBVIOUS
      <3>1. m[y] < m[w]
        OBVIOUS
      <3>2. y \in A
        BY <3>1, <1>4
      <3> QED
        BY <3>2
    <2>2. f[w] = ScanBody(sig, r, f, w)
      BY <1>1
    <2> HIDE DEF f, m, A
    <2> QED
      BY <2>1, <2>2, <1>1, ScanYields
  <1>5. \A w \in D : w \in A
    <2> HIDE DEF D, m, A
    <2> QED
      BY <1>3, <1>4, MeasureInduction
  <1>6. o \in D /\ o[1] = 0 /\ o[3] = 0 /\ (o[2] = 0 => o[1] = Len(r))
    <2>1. Room(r, 0) \in 0..Window /\ 0 + Room(r, 0) <= Len(r) /\ (Room(r, 0) = 0 => Len(r) = 0)
      BY <1>2 DEF Room, Least
    <2>2. o[1] = 0 /\ o[2] = Room(r, 0) /\ o[3] = 0
      OBVIOUS
    <2>3. 0 \in 0..Len(r) /\ 0 \in 0..Chunk
      BY <1>2
    <2>4. o \in D
      BY <2>1, <2>3 DEF Places
    <2> QED
      BY <2>1, <2>2, <2>4
  <1>7. Yields(V, s, f[o], Rest(r, o[1] - o[3]))
    <2>1. o \in A
      <3> HIDE DEF o, D, A
      <3> QED
        BY <1>5, <1>6
    <2> QED
      BY <2>1, <1>6
  <1>8. Rest(r, o[1] - o[3]) = r
    <2>1. Rest(r, 0) = SubSeq(r, 1, Len(r))
      BY DEF Rest
    <2>2. SubSeq(r, 1, Len(r)) = r
      BY SubSeqFull
    <2>3. o[1] - o[3] = 0
      BY <1>6
    <2> QED
      BY <2>1, <2>2, <2>3
  <1> QED
    BY <1>7, <1>8 DEF Compare

(* The frames that compare_stream and stream_diff_frames make of a file and *)
(* the signature of another rebuild the file from the other, piece by piece, *)
(* for any two files and any lengths of window and chunk.                   *)
THEOREM DeltaIsExact ==
  ASSUME NEW V, NEW s \in Seq(V), NEW r \in Seq(V)
  PROVE  Yields(V, s, Frames(Signature(s), r), r)
  <1>1. Yields(V, s, Compare(Signature(s), r), r)
    BY SignatureLocated, CompareYields
  <1> QED
    BY <1>1, JoinedYields DEF Frames

(* Frames are of any kind O that what a signature brings is of, and what    *)
(* joins such.                                                              *)
Joinable(V, O) ==
  /\ O \subseteq Ops(V)
  /\ \A f, g \in O : Continues(f, g) => CopyOf(f.offset, f.len + g.len) \in O

LEMMA FramesMake ==
  ASSUME NEW V, NEW O, Joinable(V, O), NEW sig, Brings(V, O, sig), NEW r \in Seq(V)
  PROVE  Frames(sig, r) \in Seq(O)
  <1> DEFINE fs == Compare(sig, r)
             N == Len(fs)
  <1>1. fs \in Seq(O)
    <2>1. <<0, Room(r, 0), 0>> \in Places(r)
      <3> DEFINE L == Len(r)
                 n == Room(r, 0)
      <3>1. L \in Nat /\ Window \in Nat \ {0} /\ Chunk \in Nat \ {0}
        BY LenProperties, DeltaAssumption
      <3>2. n = (IF Window < L - 0 THEN Window ELSE L - 0)
        BY DEF Room, Least
      <3> HIDE DEF L, n
      <3>3. n \in 0..Window /\ 0 + n <= L /\ 0 \in 0..L /\ 0 \in 0..Chunk /\ 0 <= 0
        BY <3>1, <3>2
      <3>4. <<0, n, 0>> \in (0..L) \X (0..Window) \X (0..Chunk)
        BY <3>3
      <3> QED
        BY <3>3, <3>4 DEF Places, L, n
    <2>2. Scan(sig, r) \in [Places(r) -> Seq(O)]
      BY ScanSolves
    <2> QED
      BY <2>1, <2>2 DEF Compare
  <1> HIDE DEF fs
  <1>2. fs \in Seq(Ops(V)) /\ N \in Nat /\ \A n \in 1..N : fs[n] \in O
    <2>1. N \in Nat /\ \A n \in 1..N : fs[n] \in O
      BY <1>1, LenProperties, ElementOfSeq
    <2>2. \A n \in 1..N : fs[n] \in Ops(V)
      BY <2>1 DEF Joinable
    <2>3. DOMAIN fs = 1..N /\ fs = [n \in 1..N |-> fs[n]]
      BY <1>1, LenProperties
    <2>4. fs \in [1..N -> Ops(V)]
      BY <2>2, <2>3
    <2> QED
      BY <2>1, <2>4, SeqDef
  <1>3. PICK j : JoinedBy(fs, j)
    BY <1>2, JoinedSteps
  <1>4. Joined(fs) = j[N] /\ j[0] = <<>> /\ \A n \in 1..N : j[n] = Join(j[n - 1], fs[n])
    BY <1>3 DEF JoinedBy
  <1>5. ASSUME NEW c \in Seq(O), NEW f \in O PROVE Join(c, f) \in Seq(O)
    <2>1. CASE c # <<>> /\ Continues(Last(c), f)
      <3> DEFINE l == Last(c)
                 t == CopyOf(l.offset, l.len + f.len)
      <3>1. Front(c) \in Seq(O) /\ l \in O
        BY <2>1, FrontAndLast
      <3>2. t \in O
        BY <2>1, <3>1 DEF Joinable
      <3>3. Join(c, f) = Append(Front(c), t)
        BY <2>1 DEF Join
      <3> HIDE DEF t
      <3> QED
        BY <3>1, <3>2, <3>3, AppendProperties
    <2>2. CASE ~(c # <<>> /\ Continues(Last(c), f))
      BY <2>2, AppendProperties DEF Join
    <2> QED
      BY <2>1, <2>2
  <1> DEFINE D == 0..N
             m == [n \in D |-> n]
             A == {n \in D : j[n] \in Seq(O)}
  <1>6. m \in [D -> Nat]
    BY <1>2
  <1>7. ASSUME NEW n \in D, \A y \in D : m[y] < m[n] => y \in A PROVE n \in A
    <2>1. CASE n = 0
      BY <2>1, <1>4, EmptySeq
    <2>2. CASE n # 0
      <3>1. n \in 1..N /\ n - 1 \in D /\ n - 1 < n
        BY <2>2, <1>2
      <3>2. j[n - 1] \in Seq(O)
        BY <3>1, <1>7
      <3>3. Join(j[n - 1], fs[n]) \in Seq(O)
        BY <3>1, <3>2, <1>2, <1>5
      <3> QED
        BY <3>1, <3>3, <1>4
    <2> QED
      BY <2>1, <2>2
  <1>8. \A n \in D : n \in A
    <2> HIDE DEF D, m, A
    <2> QED
      BY <1>6, <1>7, MeasureInduction
  <1>9. N \in A
    <2>1. N \in D
      BY <1>2
    <2> HIDE DEF A, D
    <2> QED
      BY <1>8, <2>1
  <1> QED
    BY <1>4, <1>9 DEF Frames, fs

(* A copy ends at most a window behind the end of the file it is of.        *)
Near(V, L) == {f \in Ops(V) : f.op = "copy" => f.offset + f.len <= L + Window}

LEMMA FramesNear ==
  ASSUME NEW V, NEW s \in Seq(V), NEW r \in Seq(V)
  PROVE  Frames(Signature(s), r) \in Seq(Near(V, Len(s)))
  <1> DEFINE L == Len(s)
             O == Near(V, L)
             sig == Signature(s)
  <1>1. L \in Nat /\ Window \in Nat
    BY LenProperties, DeltaAssumption
  <1>2. \A b \in DOMAIN sig : sig[b] \in Nat /\ sig[b] <= L
    BY SignatureLocated DEF Located
  <1> HIDE DEF L, sig
  <1>3. Brings(V, O, sig)
    <2>1. Brings(V, Ops(V), sig)
      BY <1>2, OpsBring
    <2>2. \A b \in Seq(V) : BytesOf(b) \in O
      BY <2>1 DEF Brings, Near, BytesOf
    <2>3. ASSUME NEW b \in DOMAIN sig PROVE CopyOf(sig[b], Window) \in O
      <3> DEFINE c == CopyOf(sig[b], Window)
      <3>1. c \in Ops(V) /\ c.offset = sig[b] /\ c.len = Window
        BY <2>1 DEF Brings, CopyOf
      <3> HIDE DEF c
      <3>2. c.offset + c.len <= L + Window
        BY <1>1, <1>2, <3>1
      <3> QED
        BY <3>1, <3>2 DEF Near, c
    <2> QED
      BY <2>2, <2>3 DEF Brings
  <1>4. Joinable(V, O)
    <2>1. ASSUME NEW f \in O, NEW g \in O, Continues(f, g)
          PROVE  CopyOf(f.offset, f.len + g.len) \in O
      <3> DEFINE c == CopyOf(f.offset, f.len + g.len)
      <3>1. /\ f.offset \in Nat /\ f.len \in Nat /\ g.len \in Nat /\ g.offset \in Nat
            /\ g.offset + g.len <= L + Window /\ f.offset + f.len = g.offset
        BY <2>1 DEF Near, Ops, Continues
      <3>2. c \in Ops(V)
        BY <3>1, CopyType
      <3>3. c.offset + c.len <= L + Window
        <4>1. c.offset = f.offset /\ c.len = f.len + g.len
          BY DEF CopyOf
        <4> HIDE DEF c
        <4> QED
          BY <3>1, <4>1
      <3> QED
        BY <3>2, <3>3 DEF Near
    <2> QED
      BY <2>1 DEF Joinable, Near
  <1> HIDE DEF O
  <1>5. Frames(sig, r) \in Seq(O)
    BY <1>3, <1>4, FramesMake
  <1> QED
    BY <1>5 DEF sig, O, L
-----------------------------------------------------------------------------
(* An output holds what the verifier has seen of it; a clone may hold more. *)
Holds(V) == [data : Seq(V), pos : Nat, seen : Seq(V), owned : SUBSET Nat, clone : BOOLEAN]
SoundOutput(V, o) ==
  /\ o \in Holds(V) /\ IsFiniteSet(o.owned)
  /\ o.pos = Len(o.seen) /\ Slice(o.data, 0, o.pos) = o.seen
  /\ ~o.clone => o.data = o.seen /\ o.owned = Touched(0, o.pos)

LEMMA Multiples ==
  ASSUME NEW b \in Nat \ {0}, NEW x \in Int, NEW y \in Int
  PROVE  /\ x < y => b * x + b <= b * y
         /\ x <= y => b * x <= b * y
         /\ b * x < b * y => x < y
         /\ b * x < b * y + b => x <= y
         /\ b * (x + y) = b * x + b * y
  OBVIOUS
-----------------------------------------------------------------------------
(* Blocks of the filesystem. *)

UpTo(n) == (n + Block - 1) \div Block

LEMMA BlockIs ==
  Block \in Nat \ {0}
  BY DeltaAssumption

LEMMA UpToIs ==
  ASSUME NEW n \in Nat
  PROVE  /\ UpTo(n) \in Nat /\ n <= Block * UpTo(n) /\ Block * UpTo(n) < n + Block
         /\ Block * UpTo(n) \in Nat
         /\ n = 0 => UpTo(n) = 0
         /\ n > 0 => UpTo(n) > 0 /\ (n - 1) \div Block = UpTo(n) - 1
  <1> DEFINE b == Block
             q == UpTo(n)
             x == n + b - 1
  <1>1. b \in Nat \ {0} /\ x \in Nat
    BY BlockIs
  <1>2. q = x \div b
    BY DEF UpTo
  <1>3. q \in Nat /\ b * q \in Nat /\ b * q <= x /\ x < b * q + b
    <2> HIDE DEF x, q, b
    <2> QED
      BY <1>1, <1>2, Quotient
  <1>4. x = n + b - 1
    OBVIOUS
  <1>5. ASSUME n > 0 PROVE /\ n - 1 \in Nat /\ (n - 1) \div b \in Nat
                           /\ b * ((n - 1) \div b) <= n - 1 /\ n - 1 < b * ((n - 1) \div b) + b
    <2>1. n - 1 \in Nat
      BY <1>5
    <2> HIDE DEF b
    <2> QED
      BY <1>1, <2>1, Quotient
  <1> HIDE DEF q, b, x
  <1>6. n <= b * q /\ b * q < n + b
    BY <1>1, <1>3, <1>4
  <1>7. n = 0 => q = 0
    <2>1. n = 0 => b * q < b * 1
      BY <1>1, <1>6
    <2> QED
      BY <1>1, <1>3, <2>1
  <1>8. ASSUME n > 0 PROVE q > 0 /\ (n - 1) \div b = q - 1
    <2> DEFINE k == (n - 1) \div b
    <2>1. k \in Nat /\ b * k <= n - 1 /\ n - 1 < b * k + b
      BY <1>5, <1>8
    <2> HIDE DEF k
    <2>2. b * k < b * q
      BY <1>1, <1>3, <1>6, <2>1
    <2>3. k < q
      BY <1>1, <1>3, <2>1, <2>2, Multiples
    <2>4. b * q < b * k + b + b
      BY <1>1, <1>3, <1>6, <2>1
    <2>5. b * (k + 1) = b * k + b
      BY <1>1, <2>1
    <2>6. q <= k + 1
      <3> DEFINE l == k + 1
      <3>1. l \in Int /\ b * q < b * l + b
        BY <1>1, <1>3, <2>1, <2>4, <2>5
      <3> HIDE DEF l
      <3>2. q <= l
        BY <1>1, <1>3, <3>1, Multiples
      <3> QED
        BY <3>2 DEF l
    <2>7. q > 0 /\ k = q - 1
      BY <1>3, <2>1, <2>3, <2>6
    <2> QED
      BY <2>7 DEF k
  <1> QED
    BY <1>3, <1>6, <1>7, <1>8 DEF q, b

LEMMA UpToAdds ==
  ASSUME NEW p \in Nat, NEW n \in Nat
  PROVE  UpTo(p) <= UpTo(p + n) /\ UpTo(p + n) <= UpTo(p) + UpTo(n)
  <1> DEFINE b == Block
             x == UpTo(p)
             y == UpTo(n)
             z == UpTo(p + n)
             m == p + n
  <1>1. b \in Nat \ {0} /\ m \in Nat
    BY BlockIs
  <1>2. /\ x \in Nat /\ p <= b * x /\ b * x < p + b /\ b * x \in Nat
        /\ y \in Nat /\ n <= b * y /\ b * y < n + b /\ b * y \in Nat
    BY UpToIs
  <1>3. z \in Nat /\ m <= b * z /\ b * z < m + b /\ b * z \in Nat
    BY <1>1, UpToIs
  <1>4. m = p + n
    OBVIOUS
  <1> HIDE DEF b, x, y, z, m
  <1>5. b * x < b * z + b
    BY <1>1, <1>2, <1>3, <1>4
  <1>6. x <= z
    BY <1>1, <1>2, <1>3, <1>5, Multiples
  <1>7. b * (x + y) = b * x + b * y
    BY <1>1, <1>2, Multiples
  <1>8. b * z < b * (x + y) + b
    BY <1>1, <1>2, <1>3, <1>4, <1>7
  <1>9. z <= x + y
    <2> DEFINE l == x + y
    <2>1. l \in Int
      BY <1>2
    <2> HIDE DEF l
    <2>2. b * z < b * l + b
      BY <1>8 DEF l
    <2>3. z <= l
      BY <1>1, <1>3, <2>1, <2>2, Multiples
    <2> QED
      BY <2>3 DEF l
  <1> QED
    BY <1>6, <1>9 DEF x, y, z, m

LEMMA TouchedType ==
  ASSUME NEW p \in Nat, NEW n \in Nat
  PROVE  Touched(p, n) \in SUBSET Nat /\ IsFiniteSet(Touched(p, n))
  <1>1. CASE n = 0
    BY <1>1, FS_EmptySet DEF Touched
  <1>2. CASE n # 0
    <2> DEFINE x == p \div Block
               y == (p + n - 1) \div Block
    <2>1. p + n - 1 \in Nat
      BY <1>2
    <2>2. x \in Nat /\ y \in Nat
      BY <2>1, BlockIs, Quotient
    <2>3. Touched(p, n) = x..y
      BY <1>2 DEF Touched
    <2> HIDE DEF x, y
    <2>4. x..y \in SUBSET Nat /\ IsFiniteSet(x..y)
      BY <2>2, FS_Interval
    <2> QED
      BY <2>3, <2>4
  <1> QED
    BY <1>1, <1>2

LEMMA TouchedFirst ==
  ASSUME NEW n \in Nat
  PROVE  Touched(0, n) = 0..(UpTo(n) - 1) /\ Cardinality(Touched(0, n)) = UpTo(n)
  <1> DEFINE q == UpTo(n)
  <1>1. /\ q \in Nat /\ (n = 0 => q = 0)
        /\ n > 0 => q > 0 /\ (n - 1) \div Block = q - 1
    BY UpToIs
  <1> HIDE DEF q
  <1>2. 0 \div Block = 0
    <2> DEFINE x == 0 \div Block
    <2>1. x \in Nat /\ Block * x <= 0 /\ Block \in Nat \ {0}
      BY BlockIs, Quotient
    <2> HIDE DEF x
    <2>2. Block * x < Block * 1
      BY <2>1
    <2>3. x < 1
      BY <2>1, <2>2
    <2> QED
      BY <2>1, <2>3 DEF x
  <1>3. Touched(0, n) = 0..(q - 1)
    <2>1. CASE n = 0
      <3>1. 0..(q - 1) = {}
        BY <1>1, <2>1
      <3> QED
        BY <2>1, <3>1 DEF Touched
    <2>2. CASE n # 0
      <3>1. 0 + n - 1 = n - 1 /\ n > 0
        BY <2>2
      <3>2. Touched(0, n) = (0 \div Block)..((0 + n - 1) \div Block)
        BY <2>2 DEF Touched
      <3>3. Touched(0, n) = (0 \div Block)..((n - 1) \div Block)
        BY ONLY <3>1, <3>2
      <3> QED
        BY <1>1, <1>2, <3>1, <3>3
    <2> QED
      BY <2>1, <2>2
  <1>4. Cardinality(0..(q - 1)) = q
    BY <1>1, FS_Interval
  <1> QED
    BY <1>3, <1>4 DEF q

LEMMA TouchedMore ==
  ASSUME NEW p \in Nat, NEW n \in Nat
  PROVE  Touched(0, p) \cup Touched(p, n) = Touched(0, p + n)
  <1> DEFINE m == p + n
             x == UpTo(p)
             z == UpTo(m)
             k == p \div Block
             b == Block
  <1>1. CASE n = 0
    BY <1>1 DEF Touched
  <1>2. CASE n # 0
    <2>1. m \in Nat /\ m > 0 /\ p <= m - 1 /\ b \in Nat \ {0}
      BY <1>2, BlockIs
    <2>2. Touched(0, p) = 0..(x - 1) /\ Touched(0, m) = 0..(z - 1)
      BY <2>1, TouchedFirst
    <2>3. Touched(p, n) = k..((m - 1) \div b)
      BY <1>2 DEF Touched
    <2>4. x \in Nat /\ z \in Nat /\ z > 0 /\ (m - 1) \div b = z - 1 /\ p <= b * x /\ b * x < p + b /\ b * x \in Nat
      BY <2>1, UpToIs
    <2>5. k \in Nat /\ b * k <= p /\ p < b * k + b /\ b * k \in Nat
      BY <2>1, Quotient
    <2>6. x <= z
      BY UpToAdds
    <2> HIDE DEF m, x, z, k, b
    <2>7. k <= x
      <3>1. b * k < b * x + b
        BY <2>1, <2>4, <2>5
      <3> QED
        BY <2>1, <2>4, <2>5, <3>1, Multiples
    <2>8. (0..(x - 1)) \cup (k..(z - 1)) = 0..(z - 1)
      BY <2>4, <2>5, <2>6, <2>7
    <2>9. Touched(0, p) \cup Touched(p, n) = Touched(0, m)
      BY <2>2, <2>3, <2>4, <2>8
    <2> QED
      BY <2>9 DEF m
  <1> QED
    BY <1>1, <1>2

LEMMA TouchedCount ==
  ASSUME NEW p \in Nat, NEW n \in Nat
  PROVE  /\ Cardinality(Touched(p, n)) \in Nat
         /\ n = 0 => Cardinality(Touched(p, n)) = 0
         /\ Cardinality(Touched(p, n)) <= UpTo(n) + 1
  <1>1. Cardinality(Touched(p, n)) \in Nat
    BY TouchedType, FS_CardinalityType
  <1>2. UpTo(n) \in Nat
    BY UpToIs
  <1>3. CASE n = 0
    <2>1. Cardinality(Touched(p, n)) = 0
      BY <1>3, FS_EmptySet DEF Touched
    <2> QED
      BY <1>2, <2>1
  <1>4. CASE n # 0
    <2> DEFINE b == Block
               q == UpTo(n)
               x == p \div b
               m == p + n - 1
               y == m \div b
    <2>1. m \in Nat /\ b \in Nat \ {0}
      BY <1>4, BlockIs
    <2>2. x \in Nat /\ b * x <= p /\ p < b * x + b /\ b * x \in Nat
      BY <2>1, Quotient
    <2>3. y \in Nat /\ b * y <= m /\ m < b * y + b /\ b * y \in Nat
      BY <2>1, Quotient
    <2>4. q \in Nat /\ n <= b * q /\ b * q \in Nat
      BY UpToIs
    <2>5. Touched(p, n) = x..y
      BY <1>4 DEF Touched
    <2>6. m = p + n - 1
      OBVIOUS
    <2> HIDE DEF b, q, x, m, y
    <2>7. b * (x + q) = b * x + b * q
      BY <2>1, <2>2, <2>4, Multiples
    <2>8. y <= x + q
      <3> DEFINE l == x + q
      <3>1. l \in Int /\ b * l = b * x + b * q
        BY <2>2, <2>4, <2>7
      <3> HIDE DEF l
      <3>2. b * y < b * l + b
        BY <2>1, <2>2, <2>3, <2>4, <2>6, <3>1
      <3>3. y <= l
        BY <2>1, <2>3, <3>1, <3>2, Multiples
      <3> QED
        BY <3>3 DEF l
    <2>9. Cardinality(x..y) <= q + 1
      <3>1. Cardinality(x..y) = IF x > y THEN 0 ELSE y - x + 1
        BY <2>2, <2>3, FS_Interval
      <3> QED
        BY <2>2, <2>3, <2>4, <2>8, <3>1
    <2> QED
      BY <1>1, <1>4, <2>5, <2>9 DEF q
  <1> QED
    BY <1>3, <1>4
-----------------------------------------------------------------------------
(* Outputs. *)

LEMMA SlicePrefix ==
  ASSUME NEW V, NEW x \in Seq(V), NEW y \in Seq(V)
  PROVE  Slice(x \o y, 0, Len(x)) = x
  <1> DEFINE z == x \o y
             n == Len(x)
  <1>1. n \in Nat /\ Len(y) \in Nat /\ z \in Seq(V) /\ Len(z) = n + Len(y)
    BY LenProperties, ConcatProperties
  <1>2. Slice(z, 0, n) = SubSeq(z, 1, n)
    <2> HIDE DEF z, n
    <2>1. 0 + 1 = 1 /\ Least(0 + n, Len(z)) = n
      BY <1>1 DEF Least
    <2> QED
      BY <2>1 DEF Slice
  <1>3. CASE n = 0
    <2>1. SubSeq(z, 1, n) = <<>>
      BY <1>3, SubSeqEmpty
    <2>2. x = <<>>
      BY <1>3, EmptySeq
    <2> QED
      BY <1>2, <2>1, <2>2
  <1>4. CASE n # 0
    <2>1. 1 \in 1..n /\ n \in 1..n
      BY <1>1, <1>4
    <2>2. SubSeq(z, 1, n) = SubSeq(x, 1, n)
      BY <2>1, SubSeqOfConcat1
    <2>3. SubSeq(x, 1, n) = x
      BY SubSeqFull
    <2> QED
      BY <1>2, <2>2, <2>3
  <1> QED
    BY <1>3, <1>4

LEMMA SliceAgain ==
  ASSUME NEW V, NEW s \in Seq(V), NEW n \in Nat
  PROVE  Slice(s, 0, Len(Slice(s, 0, n))) = Slice(s, 0, n)
  <1> DEFINE x == Slice(s, 0, n)
             y == Rest(s, n)
  <1>1. CASE n <= Len(s)
    <2>1. Len(x) = n
      <3>1. 0 + n <= Len(s)
        BY <1>1
      <3> QED
        BY <3>1, SliceType
    <2> QED
      BY <2>1
  <1>2. CASE ~(n <= Len(s))
    <2> DEFINE L == Len(s)
    <2>1. L \in Nat /\ ~(n <= L)
      BY <1>2, LenProperties
    <2>2. Slice(s, 0, n) = SubSeq(s, 0 + 1, IF 0 + n < L THEN 0 + n ELSE L)
      BY DEF Slice, Least
    <2>3. Slice(s, 0, L) = SubSeq(s, 0 + 1, IF 0 + L < L THEN 0 + L ELSE L)
      BY DEF Slice, Least
    <2>4. 0 + 1 = 1 /\ ~(0 + n < L) /\ ~(0 + L < L)
      <3> HIDE DEF L
      <3> QED
        BY <2>1
    <2>5. SubSeq(s, 1, L) = s
      BY SubSeqFull
    <2> HIDE DEF L
    <2>6. Slice(s, 0, n) = s /\ Slice(s, 0, L) = s
      BY <2>2, <2>3, <2>4, <2>5
    <2> QED
      BY <2>6 DEF L
  <1> QED
    BY <1>1, <1>2

LEMMA FreshSound ==
  ASSUME NEW V
  PROVE  SoundOutput(V, Fresh) /\ Fresh.owned = {} /\ ~Fresh.clone
  <1> DEFINE e == <<>>
  <1>1. e \in Seq(V) /\ Len(e) = 0
    BY EmptySeq
  <1>2. Slice(e, 0, 0) = e
    <2>1. SubSeq(e, 0 + 1, Least(0 + 0, 0)) = e
      BY SubSeqEmpty DEF Least
    <2> QED
      BY <1>1, <2>1 DEF Slice
  <1>3. Touched(0, 0) = {} /\ IsFiniteSet({})
    BY FS_EmptySet DEF Touched
  <1>4. Fresh = [data |-> e, pos |-> 0, seen |-> e, owned |-> {}, clone |-> FALSE]
    BY DEF Fresh
  <1> HIDE DEF e
  <1> QED
    BY <1>1, <1>2, <1>3, <1>4 DEF SoundOutput, Holds

LEMMA CloneSound ==
  ASSUME NEW V, NEW s \in Seq(V)
  PROVE  SoundOutput(V, CloneOf(s)) /\ CloneOf(s).owned = {}
  <1> DEFINE e == <<>>
  <1>1. e \in Seq(V) /\ Len(e) = 0
    BY EmptySeq
  <1>2. Slice(s, 0, 0) = e
    <2>1. Slice(s, 0, 0) \in Seq(V) /\ Len(Slice(s, 0, 0)) <= 0
      BY SliceType
    <2> DEFINE u == Slice(s, 0, 0)
    <2>2. Len(u) \in Nat
      BY <2>1, LenProperties
    <2> HIDE DEF u
    <2>3. u = <<>>
      BY <2>1, <2>2, EmptySeq DEF u
    <2> QED
      BY <2>3 DEF u
  <1>3. IsFiniteSet({})
    BY FS_EmptySet
  <1>4. CloneOf(s) = [data |-> s, pos |-> 0, seen |-> e, owned |-> {}, clone |-> TRUE]
    <2> HIDE DEF e
    <2>1. Fresh = [data |-> e, pos |-> 0, seen |-> e, owned |-> {}, clone |-> FALSE]
      BY DEF Fresh, e
    <2>2. CloneOf(s) = [[Fresh EXCEPT !.data = s] EXCEPT !.clone = TRUE]
      BY <2>1 DEF CloneOf
    <2> QED
      BY <2>1, <2>2
  <1> HIDE DEF e
  <1> QED
    BY <1>1, <1>2, <1>3, <1>4 DEF SoundOutput, Holds

LEMMA SoundParts ==
  ASSUME NEW V, NEW o, SoundOutput(V, o)
  PROVE  /\ o = [data |-> o.data, pos |-> o.pos, seen |-> o.seen, owned |-> o.owned, clone |-> o.clone]
         /\ o.data \in Seq(V) /\ o.pos \in Nat /\ o.seen \in Seq(V) /\ o.owned \in SUBSET Nat
         /\ o.clone \in BOOLEAN /\ IsFiniteSet(o.owned) /\ o.pos = Len(o.seen)
         /\ Slice(o.data, 0, o.pos) = o.seen
         /\ ~o.clone => o.data = o.seen /\ o.owned = Touched(0, o.pos)
  BY DEF SoundOutput, Holds

LEMMA WriteSound ==
  ASSUME NEW V, NEW o, SoundOutput(V, o), NEW b \in Seq(V)
  PROVE  /\ SoundOutput(V, Write(o, b))
         /\ Write(o, b).seen = o.seen \o b /\ Write(o, b).clone = o.clone
         /\ Write(o, b).owned = o.owned \cup Touched(o.pos, Len(b))
  <1> DEFINE d == o.data
             p == o.pos
             n == Len(b)
             x == o.seen
             t == SubSeq(d, p + n + 1, Len(d))
             w == Write(o, b)
             U == o.owned \cup Touched(p, n)
  <1>1. /\ o = [data |-> d, pos |-> p, seen |-> x, owned |-> o.owned, clone |-> o.clone]
        /\ d \in Seq(V) /\ p \in Nat /\ x \in Seq(V) /\ o.owned \in SUBSET Nat
        /\ o.clone \in BOOLEAN /\ IsFiniteSet(o.owned) /\ p = Len(x)
        /\ Slice(d, 0, p) = x
        /\ ~o.clone => d = x /\ o.owned = Touched(0, p)
    BY SoundParts
  <1>2. n \in Nat /\ Len(d) \in Nat
    BY <1>1, LenProperties
  <1>3. t \in Seq(V)
    <2> HIDE DEF p, n, d
    <2>1. p + n + 1 \in Int /\ \A i \in (p + n + 1)..Len(d) : i \in 1..Len(d)
      BY <1>1, <1>2
    <2>2. \A i \in (p + n + 1)..Len(d) : d[i] \in V
      BY <1>1, <2>1, ElementOfSeq
    <2> QED
      BY <1>2, <2>1, <2>2, SubSeqProperties
  <1>4. U \in SUBSET Nat /\ IsFiniteSet(U)
    <2>1. Touched(p, n) \in SUBSET Nat /\ IsFiniteSet(Touched(p, n))
      BY <1>1, <1>2, TouchedType
    <2> QED
      BY <1>1, <2>1, FS_Union
  <1>5. w = [data |-> x \o b \o t, pos |-> p + n, seen |-> x \o b, owned |-> U, clone |-> o.clone]
    <2>1. Write(o, b) = [o EXCEPT !.data = Slice(d, 0, p) \o b \o t, !.pos = @ + n, !.seen = @ \o b,
                                  !.owned = @ \cup Touched(p, n)]
      BY DEF Write
    <2>2. Write(o, b) = [[[[o EXCEPT !.data = x \o b \o t] EXCEPT !.pos = p + n]
                            EXCEPT !.seen = x \o b] EXCEPT !.owned = U]
      <3> HIDE DEF t, n
      <3> QED
        BY <1>1, <2>1
    <2> DEFINE c == o.clone
               ow == o.owned
    <2>3. o = [data |-> d, pos |-> p, seen |-> x, owned |-> ow, clone |-> c]
      BY <1>1
    <2> HIDE DEF t, n, d, p, x, U, c, ow, w
    <2>4. w = [data |-> x \o b \o t, pos |-> p + n, seen |-> x \o b, owned |-> U, clone |-> c]
      BY <2>2, <2>3 DEF w
    <2> QED
      BY <2>4 DEF c
  <1>6. x \o b \in Seq(V) /\ Len(x \o b) = p + n /\ (x \o b) \o t \in Seq(V)
    <2> HIDE DEF t, n, d, p, x
    <2>1. x \o b \in Seq(V) /\ Len(x \o b) = p + n
      BY <1>1, ConcatProperties DEF n
    <2> QED
      BY <1>3, <2>1, ConcatProperties
  <1>7. Slice((x \o b) \o t, 0, p + n) = x \o b
    <2> DEFINE y == x \o b
    <2>1. y \in Seq(V) /\ Len(y) = p + n
      BY <1>6
    <2> HIDE DEF y, t
    <2>2. Slice(y \o t, 0, Len(y)) = y
      BY <1>3, <2>1, SlicePrefix
    <2> QED
      BY <2>1, <2>2 DEF y
  <1>8. ASSUME ~o.clone PROVE (x \o b) \o t = x \o b /\ U = Touched(0, p + n)
    <2>1. t = <<>>
      <3>1. Len(d) = p
        BY <1>1, <1>8
      <3> HIDE DEF p, n, d
      <3>2. p + n + 1 \in Int /\ Len(d) < p + n + 1
        BY <1>1, <1>2, <3>1
      <3> QED
        BY <1>2, <3>2, SubSeqEmpty
    <2>2. U = Touched(0, p + n)
      <3> HIDE DEF p, n
      <3> QED
        BY <1>1, <1>2, <1>8, TouchedMore DEF p
    <2> HIDE DEF t, U, x
    <2> QED
      BY <2>1, <2>2, <1>6, ConcatEmptySeq
  <1> HIDE DEF w, d, p, n, x, t, U
  <1>9. p + n \in Nat
    BY <1>1, <1>2
  <1>10. SoundOutput(V, w)
    <2> DEFINE y == x \o b
               z == y \o t
               m == p + n
    <2>1. /\ w = [data |-> z, pos |-> m, seen |-> y, owned |-> U, clone |-> o.clone]
          /\ y \in Seq(V) /\ z \in Seq(V) /\ m \in Nat /\ Len(y) = m /\ Slice(z, 0, m) = y
          /\ ~o.clone => z = y /\ U = Touched(0, m)
      BY <1>5, <1>6, <1>7, <1>8, <1>9
    <2> HIDE DEF y, z, m
    <2> QED
      BY <1>1, <1>4, <2>1 DEF SoundOutput, Holds
  <1> QED
    BY <1>5, <1>10 DEF w, U, p, n, x

LEMMA InPlaceSound ==
  ASSUME NEW V, NEW o, SoundOutput(V, o), NEW f, f.offset \in Nat, f.len \in Nat, InPlace(o, f), NEW source
  PROVE  /\ SoundOutput(V, Apply(o, f, source))
         /\ Apply(o, f, source).owned = o.owned /\ Apply(o, f, source).clone = o.clone
  <1> DEFINE d == o.data
             p == o.pos
             x == o.seen
             b == Slice(d, p, f.len)
             w == Apply(o, f, source)
             c == o.clone
             ow == o.owned
  <1>1. /\ o = [data |-> d, pos |-> p, seen |-> x, owned |-> ow, clone |-> c]
        /\ d \in Seq(V) /\ p \in Nat /\ x \in Seq(V) /\ ow \in SUBSET Nat
        /\ c \in BOOLEAN /\ IsFiniteSet(ow) /\ p = Len(x) /\ Slice(d, 0, p) = x
    BY SoundParts
  <1>2. f.offset = p /\ c = TRUE
    BY <1>1 DEF InPlace
  <1>3. b \in Seq(V) /\ Len(b) \in Nat
    BY <1>1, SliceType, LenProperties
  <1>4. w = [[o EXCEPT !.pos = p + Len(b)] EXCEPT !.seen = x \o b]
    BY <1>2 DEF Apply
  <1>5. w = [data |-> d, pos |-> p + Len(b), seen |-> x \o b, owned |-> ow, clone |-> c]
    <2> HIDE DEF d, p, x, b, c, ow, w
    <2> QED
      BY <1>1, <1>4
  <1>6. x \o b \in Seq(V) /\ Len(x \o b) = p + Len(b)
    <2> HIDE DEF d, p, b, x
    <2> QED
      BY <1>1, <1>3, ConcatProperties
  <1>7. x \o b = Slice(d, 0, p + f.len)
    <2>1. 0 \in Nat /\ 0 + p = p
      BY <1>1
    <2>2. Slice(d, 0, p) \o Slice(d, 0 + p, f.len) = Slice(d, 0, p + f.len)
      BY <1>1, <2>1, SliceJoins
    <2> HIDE DEF d, p, x
    <2> QED
      BY <1>1, <2>1, <2>2
  <1>8. Slice(d, 0, p + Len(b)) = x \o b
    <2> DEFINE m == p + f.len
    <2>1. m \in Nat
      BY <1>1
    <2>2. Slice(d, 0, Len(Slice(d, 0, m))) = Slice(d, 0, m)
      <3> HIDE DEF m, d
      <3> QED
        BY <1>1, <2>1, SliceAgain
    <2> HIDE DEF b, p, d, x
    <2> QED
      BY <1>6, <1>7, <2>2
  <1>9. p + Len(b) \in Nat
    BY <1>1, <1>3
  <1> HIDE DEF d, p, x, b, w, ow
  <1> DEFINE m == p + Len(b)
             y == x \o b
  <1>10. /\ w = [data |-> d, pos |-> m, seen |-> y, owned |-> ow, clone |-> c]
         /\ m \in Nat /\ y \in Seq(V) /\ Len(y) = m /\ Slice(d, 0, m) = y
    BY <1>5, <1>6, <1>8, <1>9
  <1> HIDE DEF m, y
  <1>11. SoundOutput(V, w)
    BY <1>1, <1>2, <1>10 DEF SoundOutput, Holds
  <1> QED
    BY <1>10, <1>11 DEF w, ow, c

(* A write takes the blocks of its bytes, and one more within a clone,      *)
(* where they need not start with a block.                                  *)
Extra(o) == IF o.clone THEN 1 ELSE 0
Taken(o, w) == Cardinality(w.owned) - Cardinality(o.owned)
LEMMA WriteTakes ==
  ASSUME NEW V, NEW o, SoundOutput(V, o), NEW b \in Seq(V)
  PROVE  Taken(o, Write(o, b)) \in 0..(UpTo(Len(b)) + Extra(o))
  <1> DEFINE p == o.pos
             n == Len(b)
             ow == o.owned
             t == Touched(p, n)
  <1>1. p \in Nat /\ IsFiniteSet(ow) /\ (~o.clone => ow = Touched(0, p)) /\ o.clone \in BOOLEAN
    BY SoundParts
  <1>2. n \in Nat
    BY LenProperties
  <1>3. Write(o, b).owned = ow \cup t
    BY WriteSound
  <1>4. IsFiniteSet(t) /\ Cardinality(t) \in Nat /\ Cardinality(t) <= UpTo(n) + 1 /\ UpTo(n) \in Nat
    BY <1>1, <1>2, TouchedType, TouchedCount, UpToIs
  <1>5. /\ IsFiniteSet(ow \cup t) /\ Cardinality(ow) \in Nat /\ Cardinality(ow \cup t) \in Nat
        /\ IsFiniteSet(ow \cap t) /\ Cardinality(ow \cap t) \in Nat
        /\ Cardinality(ow \cup t) = Cardinality(ow) + Cardinality(t) - Cardinality(ow \cap t)
        /\ Cardinality(ow) <= Cardinality(ow \cup t)
    <2>1. IsFiniteSet(ow \cup t) /\ Cardinality(ow \cup t) = Cardinality(ow) + Cardinality(t) - Cardinality(ow \cap t)
      BY <1>1, <1>4, FS_Union
    <2>2. IsFiniteSet(ow \cap t)
      BY <1>1, FS_Subset
    <2>3. Cardinality(ow) <= Cardinality(ow \cup t)
      BY <2>1, FS_Subset
    <2> QED
      BY <1>1, <2>1, <2>2, <2>3, FS_CardinalityType
  <1>6. Taken(o, Write(o, b)) = Cardinality(ow \cup t) - Cardinality(ow)
    BY <1>3 DEF Taken
  <1>7. CASE o.clone
    <2>1. Extra(o) = 1
      BY <1>7 DEF Extra
    <2> HIDE DEF ow, t, p, n
    <2>2. Taken(o, Write(o, b)) \in 0..(UpTo(n) + Extra(o))
      BY <1>4, <1>5, <1>6, <2>1
    <2> QED
      BY <2>2 DEF n
  <1>8. CASE ~o.clone
    <2>1. Extra(o) = 0 /\ ow = Touched(0, p)
      BY <1>1, <1>8 DEF Extra
    <2>2. ow \cup t = Touched(0, p + n)
      BY <1>1, <1>2, <2>1, TouchedMore
    <2>3. p + n \in Nat
      BY <1>1, <1>2
    <2>4. Cardinality(ow) = UpTo(p) /\ UpTo(p) \in Nat
      BY <1>1, <2>1, TouchedFirst, UpToIs
    <2>5. Cardinality(ow \cup t) = UpTo(p + n) /\ UpTo(p + n) \in Nat
      <3> DEFINE m == p + n
      <3>1. m \in Nat /\ ow \cup t = Touched(0, m)
        BY <2>2, <2>3
      <3> HIDE DEF m, ow, t
      <3>2. Cardinality(Touched(0, m)) = UpTo(m) /\ UpTo(m) \in Nat
        BY <3>1, TouchedFirst, UpToIs
      <3>3. Cardinality(ow \cup t) = UpTo(m) /\ UpTo(m) \in Nat
        BY <3>1, <3>2
      <3> QED
        BY <3>3 DEF m
    <2>6. UpTo(p) <= UpTo(p + n) /\ UpTo(p + n) <= UpTo(p) + UpTo(n)
      BY <1>1, <1>2, UpToAdds
    <2> HIDE DEF ow, t, p, n
    <2>7. Taken(o, Write(o, b)) \in 0..(UpTo(n) + Extra(o))
      BY <1>4, <1>6, <2>1, <2>4, <2>5, <2>6
    <2> QED
      BY <2>7 DEF n
  <1> QED
    BY <1>1, <1>7, <1>8

LEMMA UpToMore ==
  ASSUME NEW m \in Nat, NEW n \in Nat, m <= n
  PROVE  UpTo(m) <= UpTo(n) /\ UpTo(m) \in Nat /\ UpTo(n) \in Nat
  <1> DEFINE k == n - m
  <1>1. k \in Nat /\ m + k = n
    OBVIOUS
  <1> HIDE DEF k
  <1>2. UpTo(m) <= UpTo(m + k)
    BY <1>1, UpToAdds
  <1> QED
    BY <1>1, <1>2, UpToIs

Length(f) == IF f.op = "copy" THEN f.len ELSE Len(f.bytes)
Moved(V, o, f, w) ==
  /\ SoundOutput(V, w) /\ w.clone = o.clone
  /\ InPlace(o, f) => w.owned = o.owned
  /\ Length(f) \in Nat /\ Taken(o, w) \in 0..(UpTo(Length(f)) + Extra(o))

LEMMA ApplySound ==
  ASSUME NEW V, NEW o, SoundOutput(V, o), NEW f, f.offset \in Nat, f.len \in Nat, f.bytes \in Seq(V),
         NEW source, f.op = "copy" => source \in Seq(V)
  PROVE  Moved(V, o, f, Apply(o, f, source))
  <1>1. Length(f) \in Nat
    BY LenProperties DEF Length
  <1>2. CASE InPlace(o, f)
    <2> DEFINE w == Apply(o, f, source)
    <2>1. SoundOutput(V, w) /\ w.owned = o.owned /\ w.clone = o.clone
      BY <1>2, InPlaceSound
    <2>2. IsFiniteSet(o.owned)
      BY SoundParts
    <2>3. Cardinality(o.owned) \in Nat
      BY <2>2, FS_CardinalityType
    <2>4. Taken(o, w) = 0
      BY <2>1, <2>3 DEF Taken
    <2>5. UpTo(Length(f)) \in Nat /\ Extra(o) \in Nat
      BY <1>1, UpToIs DEF Extra
    <2> HIDE DEF w
    <2>6. Taken(o, w) \in 0..(UpTo(Length(f)) + Extra(o))
      BY <2>4, <2>5
    <2>7. Moved(V, o, f, w)
      BY <1>1, <2>1, <2>6 DEF Moved
    <2> QED
      BY <2>7 DEF w
  <1>3. CASE ~InPlace(o, f)
    <2> DEFINE b == IF f.op = "copy" THEN Slice(source, f.offset, f.len) ELSE f.bytes
               w == Write(o, b)
    <2>1. b \in Seq(V) /\ Len(b) <= Length(f) /\ Len(b) \in Nat
      <3>1. CASE f.op = "copy"
        <4>1. b = Slice(source, f.offset, f.len) /\ Length(f) = f.len /\ source \in Seq(V)
          BY <3>1 DEF Length
        <4> HIDE DEF b
        <4> QED
          BY <4>1, SliceType, LenProperties
      <3>2. CASE f.op # "copy"
        <4>1. b = f.bytes /\ Length(f) = Len(f.bytes)
          BY <3>2 DEF Length
        <4> HIDE DEF b
        <4> QED
          BY <4>1, LenProperties
      <3> QED
        BY <3>1, <3>2
    <2>2. Apply(o, f, source) = w
      BY <1>3 DEF Apply
    <2> HIDE DEF b
    <2>3. SoundOutput(V, w) /\ w.clone = o.clone
      BY <2>1, WriteSound
    <2>4. Taken(o, w) \in 0..(UpTo(Len(b)) + Extra(o))
      BY <2>1, WriteTakes
    <2>5. UpTo(Len(b)) <= UpTo(Length(f)) /\ UpTo(Len(b)) \in Nat /\ UpTo(Length(f)) \in Nat
      BY <1>1, <2>1, UpToMore
    <2>6. Extra(o) \in Nat
      BY DEF Extra
    <2> HIDE DEF w
    <2>7. Taken(o, w) \in 0..(UpTo(Length(f)) + Extra(o))
      BY <2>4, <2>5, <2>6
    <2> QED
      BY <1>1, <1>3, <2>2, <2>3, <2>7 DEF Moved
  <1> QED
    BY <1>2, <1>3

(* DiffEnd leaves exactly what the verifier has seen.                       *)
LEMMA TruncateSound ==
  ASSUME NEW V, NEW o, SoundOutput(V, o)
  PROVE  /\ Truncate(o).data = o.seen /\ Truncate(o).owned = o.owned
         /\ SoundOutput(V, Truncate(o)) /\ (~o.clone => o.data = o.seen)
  <1> DEFINE d == o.data
             p == o.pos
             x == o.seen
             ow == o.owned
             c == o.clone
             w == Truncate(o)
  <1>1. /\ o = [data |-> d, pos |-> p, seen |-> x, owned |-> ow, clone |-> c]
        /\ d \in Seq(V) /\ p \in Nat /\ x \in Seq(V) /\ ow \in SUBSET Nat
        /\ c \in BOOLEAN /\ IsFiniteSet(ow) /\ p = Len(x) /\ Slice(d, 0, p) = x
        /\ ~c => d = x /\ ow = Touched(0, p)
    BY SoundParts
  <1>2. w = [o EXCEPT !.data = x]
    BY <1>1 DEF Truncate
  <1> HIDE DEF d, p, x, ow, c, w
  <1>3. w = [data |-> x, pos |-> p, seen |-> x, owned |-> ow, clone |-> c]
    BY <1>1, <1>2
  <1>4. Slice(x, 0, p) = x
    <2>1. <<>> \in Seq(V) /\ x \o <<>> = x
      BY <1>1, EmptySeq, ConcatEmptySeq
    <2>2. Slice(x \o <<>>, 0, Len(x)) = x
      BY <1>1, <2>1, SlicePrefix
    <2> QED
      BY <1>1, <2>1, <2>2
  <1>5. SoundOutput(V, w)
    BY <1>1, <1>3, <1>4 DEF SoundOutput, Holds
  <1> QED
    BY <1>1, <1>3, <1>5 DEF w, d, x, ow, c
-----------------------------------------------------------------------------
(* c is made of the intervals between the bounds e, from lo to below hi.    *)
Bounded(c, e, lo, hi) ==
  /\ c \in Seq(SUBSET Nat) /\ e \in [0..Len(c) -> Nat] /\ e[0] = lo /\ e[Len(c)] = hi
  /\ \A n \in 1..Len(c) : e[n - 1] < e[n] /\ c[n] = e[n - 1]..(e[n] - 1)

LEMMA BoundedNone ==
  ASSUME NEW lo \in Nat
  PROVE  Bounded(<<>>, [n \in 0..0 |-> lo], lo, lo)
  <1> DEFINE c == <<>>
             e == [n \in 0..0 |-> lo]
  <1>1. c \in Seq(SUBSET Nat) /\ Len(c) = 0
    BY EmptySeq
  <1>2. e \in [0..Len(c) -> Nat] /\ e[0] = lo /\ e[Len(c)] = lo
    BY <1>1
  <1>3. \A n \in 1..Len(c) : FALSE
    BY <1>1
  <1> HIDE DEF c, e
  <1>4. Bounded(c, e, lo, lo)
    BY <1>1, <1>2, <1>3 DEF Bounded
  <1> QED
    BY <1>4 DEF c, e


LEMMA BoundedCons ==
  ASSUME NEW c, NEW e, NEW lo \in Nat, NEW hi \in Nat, NEW l \in Nat, Bounded(c, e, lo, hi), l < lo
  PROVE  LET d == <<l..(lo - 1)>> \o c
             f == [n \in 0..(Len(c) + 1) |-> IF n = 0 THEN l ELSE e[n - 1]]
         IN /\ Bounded(d, f, l, hi) /\ Len(d) = Len(c) + 1
            /\ \A n \in 1..Len(c) : d[n + 1] = c[n]
  <1> DEFINE N == Len(c)
             G == l..(lo - 1)
             u == <<G>>
             d == u \o c
             f == [n \in 0..(N + 1) |-> IF n = 0 THEN l ELSE e[n - 1]]
  <1>1. /\ c \in Seq(SUBSET Nat) /\ e \in [0..N -> Nat] /\ e[0] = lo /\ e[N] = hi
        /\ \A n \in 1..N : e[n - 1] < e[n] /\ c[n] = e[n - 1]..(e[n] - 1)
    BY DEF Bounded
  <1>2. N \in Nat /\ G \in SUBSET Nat
    BY <1>1, LenProperties
  <1>3. u \in Seq(SUBSET Nat) /\ Len(u) = 1 /\ u[1] = G
    <2> HIDE DEF G
    <2> QED
      BY <1>2
  <1>4. /\ d \in Seq(SUBSET Nat) /\ Len(d) = N + 1 /\ d[1] = G
        /\ \A n \in 1..N : d[n + 1] = c[n]
    <2> HIDE DEF u, N
    <2>1. /\ d \in Seq(SUBSET Nat) /\ Len(d) = 1 + N
          /\ \A i \in 1..(1 + N) : d[i] = IF i <= 1 THEN u[i] ELSE c[i - 1]
      BY <1>1, <1>3, ConcatProperties DEF N
    <2>2. \A n \in 1..N : n + 1 \in 1..(1 + N) /\ ~(n + 1 <= 1) /\ (n + 1) - 1 = n
      BY <1>2
    <2> HIDE DEF d
    <2> QED
      BY <2>1, <2>2, <1>2, <1>3
  <1>5. f \in [0..(N + 1) -> Nat] /\ f[0] = l /\ f[1] = lo /\ f[N + 1] = hi /\ \A n \in 0..N : f[n + 1] = e[n]
    <2> HIDE DEF N
    <2>1. \A n \in 0..N : n + 1 \in 0..(N + 1) /\ n + 1 # 0 /\ (n + 1) - 1 = n
      BY <1>2
    <2>2. \A n \in 0..(N + 1) : n # 0 => n - 1 \in 0..N
      BY <1>2
    <2>3. 0 \in 0..N /\ N \in 0..N /\ 0 \in 0..(N + 1) /\ 0 + 1 = 1
      BY <1>2
    <2>4. \A n \in 0..(N + 1) : (IF n = 0 THEN l ELSE e[n - 1]) \in Nat
      BY <2>2, <1>1
    <2>5. \A n \in 0..N : f[n + 1] = e[n]
      BY <2>1
    <2>6. f \in [0..(N + 1) -> Nat] /\ f[0] = l
      BY <2>3, <2>4
    <2> HIDE DEF f
    <2> QED
      BY <2>3, <2>5, <2>6, <1>1
  <1>6. ASSUME NEW n \in 1..(N + 1)
        PROVE  f[n - 1] < f[n] /\ d[n] = f[n - 1]..(f[n] - 1)
    <2>1. CASE n = 1
      <3>1. n - 1 = 0
        BY <2>1
      <3> HIDE DEF N, f, d
      <3> QED
        BY <2>1, <3>1, <1>4, <1>5
    <2>2. CASE n # 1
      <3> DEFINE k == n - 1
      <3>1. k \in 1..N /\ k \in 0..N /\ k - 1 \in 0..N /\ n = k + 1 /\ (k - 1) + 1 = k
        BY <1>2, <2>2
      <3>2. n - 1 = k
        OBVIOUS
      <3> HIDE DEF N, f, d, k
      <3>3. f[n] = e[k] /\ f[n - 1] = e[k - 1] /\ d[n] = c[k]
        BY <3>1, <3>2, <1>4, <1>5
      <3> QED
        BY <3>1, <3>3, <1>1
    <2> QED
      BY <2>1, <2>2
  <1> HIDE DEF d, f, N
  <1>7. Bounded(d, f, l, hi)
    BY <1>4, <1>5, <1>6 DEF Bounded
  <1> QED
    BY <1>4, <1>7 DEF d, f, N, u, G
-----------------------------------------------------------------------------
(* The dependency groups are intervals, one after the other.                *)

HasPaths(as, L) == L = Len(as) /\ \A i \in 1..L : as[i].path \in Seq(Nat)

LEMMA GroupIs ==
  ASSUME NEW as, NEW L \in Nat, HasPaths(as, L), NEW i \in 1..L
  PROVE  LET n == Cardinality(GroupAt(as, i)) IN
         /\ n \in 1..(L - i + 1)
         /\ GroupAt(as, i) = i..(i + n - 1)
  <1> DEFINE G == GroupAt(as, i)
             n == Cardinality(G)
  <1>1. L \in Nat /\ i \in 1..L
    OBVIOUS
  <1>2. i \in G /\ G \subseteq i..L /\ \A j \in G : i..j \subseteq G
    <2>1. CASE ~as[i].dir
      <3>1. G = {i}
        BY <2>1 DEF GroupAt
      <3>2. i..i = {i}
        BY <1>1
      <3> HIDE DEF G
      <3> QED
        BY <3>1, <3>2, <1>1
    <2>2. CASE as[i].dir
      <3>1. G = {j \in i..L : \A k \in i..j : StartsWith(as[k].path, as[i].path)}
        BY <2>2 DEF GroupAt, HasPaths
      <3>2. \A k \in i..i : k = i
        BY <1>1
      <3>3. StartsWith(as[i].path, as[i].path)
        <4> DEFINE p == as[i].path
        <4>1. p \in Seq(Nat)
          BY DEF HasPaths
        <4> HIDE DEF p
        <4>2. SubSeq(p, 1, Len(p)) = p /\ Len(p) \in Nat
          BY <4>1, SubSeqFull, LenProperties
        <4>3. StartsWith(p, p)
          BY <4>2 DEF StartsWith
        <4> QED
          BY <4>3 DEF p
      <3>4. i \in i..L
        BY <1>1
      <3>5. i \in G /\ G \subseteq i..L
        BY <3>1, <3>2, <3>3, <3>4
      <3>6. ASSUME NEW j \in G, NEW x \in i..j PROVE x \in G
        <4>1. j \in i..L /\ \A k \in i..j : StartsWith(as[k].path, as[i].path)
          BY <3>1
        <4>2. x \in i..L /\ \A k \in i..x : k \in i..j
          BY <4>1, <1>1
        <4> QED
          BY <3>1, <4>1, <4>2
      <3> QED
        BY <3>5, <3>6
    <2> QED
      BY <2>1, <2>2
  <1> HIDE DEF G
  <1>3. PICK e \in G : \A j \in G : j <= e
    <2>1. G \in SUBSET (0..L) /\ G # {}
      BY <1>1, <1>2
    <2>2. \E e \in G : \A j \in G : j <= e
      BY <1>1, <2>1, LargestOf
    <2> QED
      BY <2>2
  <1>4. e \in i..L /\ G = i..e
    <2>1. e \in i..L
      BY <1>2
    <2>2. \A j \in G : j \in i..e
      BY <1>1, <1>2, <1>3
    <2> QED
      BY <2>1, <2>2, <1>2
  <1>5. n = e - i + 1
    <2>1. i \in Int /\ e \in Int /\ i <= e
      BY <1>1, <1>4
    <2>2. Cardinality(i..e) = IF i > e THEN 0 ELSE e - i + 1
      BY <2>1, FS_Interval
    <2> QED
      BY <2>1, <2>2, <1>4
  <1>6. n \in 1..(L - i + 1) /\ i + n - 1 = e
    <2> HIDE DEF n
    <2> QED
      BY <1>1, <1>4, <1>5
  <1> QED
    BY <1>4, <1>6 DEF G

GroupBody(as, f, i) ==
  IF i > Len(as) THEN <<>> ELSE <<GroupAt(as, i)>> \o f[i + Cardinality(GroupAt(as, i))]

LEMMA GroupsIs ==
  ASSUME NEW as
  PROVE  Groups(as) = (CHOOSE f : f = [i \in 1..(Len(as) + 1) |-> GroupBody(as, f, i)])[1]
  BY DEF Groups, GroupBody

LEMMA NextGroup ==
  ASSUME NEW as, NEW L \in Nat, HasPaths(as, L), NEW i \in 1..(L + 1), ~(i > L)
  PROVE  LET j == i + Cardinality(GroupAt(as, i)) IN
         /\ i \in 1..L /\ j \in 1..(L + 1) /\ i < j
         /\ GroupAt(as, i) = i..(j - 1)
  <1> DEFINE G == GroupAt(as, i)
             n == Cardinality(G)
  <1>2. i \in 1..L
    OBVIOUS
  <1>3. n \in 1..(L - i + 1) /\ G = i..(i + n - 1)
    BY <1>2, GroupIs
  <1> HIDE DEF n, G
  <1> DEFINE j == i + n
  <1>4. j \in 1..(L + 1) /\ i < j /\ G = i..(j - 1)
    BY <1>2, <1>3
  <1> HIDE DEF j
  <1>5. j = i + Cardinality(GroupAt(as, i))
    BY DEF j, n, G
  <1> QED
    BY <1>2, <1>4, <1>5 DEF G

LEMMA GroupsExist ==
  ASSUME NEW as, NEW L \in Nat, HasPaths(as, L)
  PROVE  \E f : f = [i \in 1..(Len(as) + 1) |-> GroupBody(as, f, i)]
  <1> DEFINE D == 1..(L + 1)
             S == Seq(SUBSET Nat)
             W == [D -> S]
             h == [a \in W |-> [i \in D |-> GroupBody(as, a, i)]]
             m == [i \in D |-> L + 1 - i]
             N == L + 1
             z == [i \in D |-> <<>>]
  <1>0. L \in Nat /\ L = Len(as)
    BY DEF HasPaths
  <1>1. L \in Nat /\ N \in Nat
    OBVIOUS
  <1>2. m \in [D -> 0..N]
    BY <1>1
  <1>3. z \in W
    <2>1. <<>> \in S
      BY EmptySeq
    <2> HIDE DEF S, D
    <2> QED
      BY <2>1
  <1>4. h \in [W -> W]
    <2>1. ASSUME NEW a \in W, NEW i \in D PROVE GroupBody(as, a, i) \in S
      <3>1. CASE i > L
        BY <3>1, EmptySeq DEF GroupBody, HasPaths
      <3>2. CASE ~(i > L)
        <4> DEFINE G == GroupAt(as, i)
                   j == i + Cardinality(G)
                   u == <<G>>
        <4>1. i \in 1..L /\ j \in D /\ G = i..(j - 1)
          BY <3>2, NextGroup
        <4>2. G \in SUBSET Nat
          <5> HIDE DEF G, j
          <5>1. i \in Nat /\ j \in Nat
            BY ONLY L \in Nat, <4>1
          <5> QED
            BY <4>1, <5>1
        <4> HIDE DEF j, G
        <4>3. u \in S
          BY <4>2, OneOp
        <4>4. a[j] \in S
          BY <4>1
        <4>5. GroupBody(as, a, i) = u \o a[j]
          BY <3>2 DEF GroupBody, G, j, HasPaths
        <4> HIDE DEF u
        <4> QED
          BY <4>3, <4>4, <4>5, ConcatProperties
      <3> QED
        BY <3>1, <3>2
    <2> HIDE DEF D, S
    <2> QED
      BY <2>1
  <1>5. ASSUME NEW i \in D, NEW a \in W, NEW b \in W, \A j \in D : m[j] < m[i] => a[j] = b[j]
        PROVE  h[a][i] = h[b][i]
    <2>1. CASE i > L
      BY <2>1 DEF GroupBody, HasPaths
    <2>2. CASE ~(i > L)
      <3> DEFINE j == i + Cardinality(GroupAt(as, i))
      <3>1. j \in D /\ i < j
        BY <2>2, NextGroup
      <3>2. m[j] < m[i]
        <4> HIDE DEF j
        <4> QED
          BY <1>1, <3>1
      <3> HIDE DEF j, m
      <3>3. a[j] = b[j]
        BY <1>5, <3>1, <3>2
      <3>4. GroupBody(as, a, i) = GroupBody(as, b, i)
        BY <3>3 DEF GroupBody, j
      <3> QED
        BY <3>4
    <2> QED
      BY <2>1, <2>2
  <1>6. Descends(D, S, W, m, h)
    <2> HIDE DEF m, h, D, S
    <2> QED
      BY <1>5 DEF Descends
  <1>7. PICK f \in W : f = h[f]
    <2> HIDE DEF D, S, W, m, h, N, z
    <2> QED
      BY <1>1, <1>2, <1>3, <1>4, <1>6, Recursion
  <1> QED
    BY <1>7 DEF HasPaths

Tiled(as, g, i) == \E b : Bounded(g, b, i, Len(as) + 1)

LEMMA GroupsTiled ==
  ASSUME NEW as, NEW L \in Nat, HasPaths(as, L)
  PROVE  Tiled(as, Groups(as), 1)
  <1> DEFINE D == 1..(L + 1)
             f == CHOOSE g : g = [i \in 1..(Len(as) + 1) |-> GroupBody(as, g, i)]
             m == [i \in D |-> L + 1 - i]
             A == {i \in D : Tiled(as, f[i], i)}
  <1>1. L \in Nat
    OBVIOUS
  <1>2. \A i \in D : f[i] = GroupBody(as, f, i)
    <2>1. f = [i \in D |-> GroupBody(as, f, i)]
      BY GroupsExist DEF HasPaths
    <2> HIDE DEF f, D
    <2> QED
      BY <2>1
  <1> HIDE DEF f
  <1>3. m \in [D -> Nat]
    BY <1>1
  <1>4. ASSUME NEW i \in D, \A j \in D : m[j] < m[i] => j \in A
        PROVE  i \in A
    <2>1. CASE i > L
      <3>1. i = L + 1 /\ f[i] = <<>> /\ L + 1 \in Nat
        <4>1. i = L + 1 /\ L + 1 \in Nat
          BY <1>1, <2>1
        <4>2. f[i] = GroupBody(as, f, i)
          BY <1>2
        <4>3. GroupBody(as, f, i) = <<>>
          BY <2>1 DEF GroupBody, HasPaths
        <4> QED
          BY <4>1, <4>2, <4>3
      <3>2. Bounded(<<>>, [n \in 0..0 |-> L + 1], L + 1, L + 1)
        BY <3>1, BoundedNone
      <3>3. Tiled(as, f[i], i)
        BY <3>1, <3>2 DEF Tiled, HasPaths
      <3> QED
        BY <3>3
    <2>2. CASE ~(i > L)
      <3> DEFINE j == i + Cardinality(GroupAt(as, i))
                 c == f[j]
      <3>1. i \in 1..L /\ j \in D /\ i < j /\ GroupAt(as, i) = i..(j - 1)
        BY <2>2, NextGroup
      <3>2. f[i] = <<i..(j - 1)>> \o c
        BY <1>2, <2>2, <3>1 DEF GroupBody, HasPaths
      <3> HIDE DEF j
      <3>3. m[j] < m[i]
        BY <1>1, <3>1
      <3>4. Tiled(as, c, j)
        BY <3>1, <3>3, <1>4
      <3> HIDE DEF c
      <3>5. PICK b : Bounded(c, b, j, L + 1)
        BY <3>4 DEF Tiled, HasPaths
      <3>6. i \in Nat /\ j \in Nat /\ L + 1 \in Nat
        BY <1>1, <3>1
      <3> DEFINE d == <<i..(j - 1)>> \o c
                 e == [n \in 0..(Len(c) + 1) |-> IF n = 0 THEN i ELSE b[n - 1]]
      <3>7. \E k : Bounded(f[i], k, i, L + 1)
        <4>1. Bounded(d, e, i, L + 1)
          <5> DEFINE hi == L + 1
          <5> HIDE DEF hi
          <5> QED
            BY <3>1, <3>5, <3>6, BoundedCons DEF hi
        <4>2. f[i] = d
          BY <3>2
        <4> HIDE DEF d, e
        <4> QED
          BY <4>1, <4>2
      <3>8. Tiled(as, f[i], i)
        BY <3>7 DEF Tiled, HasPaths
      <3> QED
        BY <3>8
    <2> QED
      BY <2>1, <2>2
  <1>5. \A i \in D : i \in A
    <2> HIDE DEF D, m, A
    <2> QED
      BY <1>3, <1>4, MeasureInduction
  <1>6. 1 \in A
    <2>1. 1 \in D
      BY <1>1
    <2> QED
      BY <1>5, <2>1
  <1>7. Groups(as) = f[1]
    BY GroupsIs DEF f, HasPaths
  <1> QED
    BY <1>6, <1>7
-----------------------------------------------------------------------------
(* What a side stages for more actions is no less.                          *)

HasSizes(as, L) == \A i \in 1..L : as[i].size \in Nat
HasBudgets(B) == \A s \in Sides : B[s].budget \in Int /\ B[s].usable \in Int

LEMMA BytesMore ==
  ASSUME NEW as, NEW L \in Nat, HasSizes(as, L), NEW H \in SUBSET (1..L), NEW G \in SUBSET H, NEW s
  PROVE  /\ BytesIn(as, G, s) \in Nat /\ BytesIn(as, H, s) \in Nat
         /\ BytesIn(as, G, s) <= BytesIn(as, H, s)
  <1> DEFINE S == Outputs(as, G, s)
             R == Outputs(as, H, s)
             f == [i \in S |-> as[i].size]
             h == [i \in R |-> as[i].size]
  <1>1. S \subseteq R /\ R \subseteq 1..L
    BY DEF Outputs
  <1>2. IsFiniteSet(R) /\ IsFiniteSet(S)
    <2>1. IsFiniteSet(1..L)
      BY FS_Interval
    <2> HIDE DEF S, R
    <2> QED
      BY <1>1, <2>1, FS_Subset
  <1> HIDE DEF S, R
  <1>3. /\ \A i \in S : f[i] \in Nat /\ f[i] = h[i]
        /\ \A i \in R : h[i] \in Nat
        /\ DOMAIN f = S /\ DOMAIN h = R
    BY <1>1 DEF HasSizes
  <1> HIDE DEF f, h
  <1>4. SumFunctionOnSet(f, S) = SumFunctionOnSet(h, S)
    BY <1>2, <1>3, SumSame
  <1>5. SumFunctionOnSet(h, S) <= SumFunctionOnSet(h, R)
    BY <1>1, <1>2, <1>3, SumOfPart
  <1>6. SumFunctionOnSet(f, S) \in Nat /\ SumFunctionOnSet(h, R) \in Nat
    BY <1>2, <1>3, SumType
  <1>7. BytesIn(as, G, s) = SumFunctionOnSet(f, S) /\ BytesIn(as, H, s) = SumFunctionOnSet(h, R)
    <2>1. BytesIn(as, G, s) = SumFunction(f) /\ BytesIn(as, H, s) = SumFunction(h)
      BY DEF BytesIn, f, h, S, R
    <2> QED
      BY <2>1, <1>3 DEF SumFunction
  <1> QED
    BY <1>4, <1>5, <1>6, <1>7

LEMMA IsolatedMore ==
  ASSUME NEW as, NEW L \in Nat, HasSizes(as, L), NEW B, HasBudgets(B),
         NEW H \in SUBSET (1..L), NEW G \in SUBSET H, Isolated(as, G, B)
  PROVE  Isolated(as, H, B)
  <1>1. PICK s \in Sides : BytesIn(as, G, s) > B[s].budget
    BY DEF Isolated, Oversize
  <1>2. /\ BytesIn(as, G, s) \in Nat /\ BytesIn(as, H, s) \in Nat
        /\ BytesIn(as, G, s) <= BytesIn(as, H, s)
    BY BytesMore
  <1>3. B[s].budget \in Int
    BY DEF HasBudgets
  <1>4. BytesIn(as, H, s) > B[s].budget
    <2> DEFINE x == BytesIn(as, G, s)
               y == BytesIn(as, H, s)
               z == B[s].budget
    <2>1. x \in Nat /\ y \in Nat /\ x <= y /\ z \in Int /\ x > z
      BY <1>1, <1>2, <1>3
    <2> HIDE DEF x, y, z
    <2>2. y > z
      BY <2>1
    <2> QED
      BY <2>2 DEF y, z
  <1> QED
    BY <1>4 DEF Isolated, Oversize

LEMMA JoinsIs ==
  ASSUME NEW as, NEW L \in Nat, HasSizes(as, L), NEW B, HasBudgets(B),
         NEW G, NEW H, G \cup H \in SUBSET (1..L)
  PROVE  Joins(as, G, H, B) <=> ~Isolated(as, G \cup H, B)
  <1> DEFINE U == G \cup H
  <1>1. \A s \in Sides : BytesIn(as, U, s) \in Nat /\ B[s].budget \in Int
    BY BytesMore DEF HasBudgets
  <1> HIDE DEF U
  <1>2. (\A s \in Sides : BytesIn(as, U, s) <= B[s].budget) <=> ~\E s \in Sides : BytesIn(as, U, s) > B[s].budget
    <2>1. ASSUME NEW s \in Sides
          PROVE  BytesIn(as, U, s) <= B[s].budget <=> ~(BytesIn(as, U, s) > B[s].budget)
      <3> DEFINE y == BytesIn(as, U, s)
                 z == B[s].budget
      <3>1. y \in Nat /\ z \in Int
        BY <1>1
      <3> HIDE DEF y, z
      <3>2. y <= z <=> ~(y > z)
        BY <3>1
      <3> QED
        BY <3>2 DEF y, z
    <2> QED
      BY <2>1
  <1> QED
    BY <1>2 DEF Joins, Isolated, Oversize, U
-----------------------------------------------------------------------------
(* The runs of the loop of plan_staging_waves over the groups g.            *)
Pieces(L) == [shut : Seq(SUBSET (1..L)), open : SUBSET (1..L)]
NoPieces == [shut |-> <<>>, open |-> {}]
CutRun(as, L, B, g, w) ==
  /\ w \in [0..Len(g) -> Pieces(L)] /\ w[0] = NoPieces
  /\ \A n \in 1..Len(g) : w[n] = AddGroup(as, B, w[n - 1], g[n])

LEMMA PiecesType ==
  ASSUME NEW L \in Nat, NEW p \in Pieces(L)
  PROVE  p.shut \in Seq(SUBSET (1..L)) /\ p.open \in SUBSET (1..L) /\ p = [shut |-> p.shut, open |-> p.open]
  BY DEF Pieces

LEMMA CloseType ==
  ASSUME NEW L \in Nat, NEW p \in Pieces(L)
  PROVE  Close(p) \in Seq(SUBSET (1..L))
  <1> DEFINE V == SUBSET (1..L)
             s == p.shut
             o == p.open
  <1>1. s \in Seq(V) /\ o \in V
    BY DEF Pieces
  <1> HIDE DEF V, s, o
  <1>2. Append(s, o) \in Seq(V)
    BY <1>1
  <1>3. Close(p) = IF o = {} THEN s ELSE Append(s, o)
    BY DEF Close, s, o
  <1>4. Close(p) \in Seq(V)
    BY <1>1, <1>2, <1>3
  <1> QED
    BY <1>4 DEF V

LEMMA AddType ==
  ASSUME NEW as, NEW B, NEW L \in Nat, NEW p \in Pieces(L), NEW G \in SUBSET (1..L)
  PROVE  AddGroup(as, B, p, G) \in Pieces(L)
  <1> DEFINE V == SUBSET (1..L)
             s == p.shut
             o == p.open
             c == Close(p)
  <1>1. s \in Seq(V) /\ o \in V /\ c \in Seq(V) /\ G \in V /\ o \cup G \in V /\ {} \in V
    BY CloseType DEF Pieces
  <1>2. p = [shut |-> s, open |-> o]
    BY PiecesType
  <1> HIDE DEF V, s, o, c
  <1>3. Append(c, G) \in Seq(V)
    BY <1>1
  <1>4. \/ AddGroup(as, B, p, G) = [shut |-> Append(c, G), open |-> {}]
        \/ AddGroup(as, B, p, G) = [p EXCEPT !.open = @ \cup G]
        \/ AddGroup(as, B, p, G) = [shut |-> c, open |-> G]
    BY DEF AddGroup, c
  <1>5. [p EXCEPT !.open = @ \cup G] = [shut |-> s, open |-> o \cup G]
    BY <1>2
  <1>6. AddGroup(as, B, p, G) \in [shut : Seq(V), open : V]
    <2>1. /\ [shut |-> Append(c, G), open |-> {}] \in [shut : Seq(V), open : V]
          /\ [shut |-> s, open |-> o \cup G] \in [shut : Seq(V), open : V]
          /\ [shut |-> c, open |-> G] \in [shut : Seq(V), open : V]
      BY <1>1, <1>3
    <2> QED
      BY ONLY <1>4, <1>5, <2>1
  <1> QED
    BY <1>6 DEF V, Pieces

CutRan(as, L, B, g) == \E w : CutRun(as, L, B, g, w) /\ Cut(as, B) = Close(w[Len(g)])

CutStep(as, B, g, f, n) == IF n = 0 THEN NoPieces ELSE AddGroup(as, B, f[n - 1], g[n])

CutOf(as, B, g) == CHOOSE f : f = [n \in 0..Len(g) |-> CutStep(as, B, g, f, n)]

LEMMA CutIs ==
  ASSUME NEW as, NEW B, NEW g, g = Groups(as)
  PROVE  Cut(as, B) = Close(CutOf(as, B, g)[Len(g)])
  BY DEF Cut, CutOf, CutStep, NoPieces

LEMMA CutRuns ==
  ASSUME NEW as, NEW B, NEW L \in Nat, NEW g, g = Groups(as), g \in Seq(SUBSET (1..L))
  PROVE  CutRan(as, L, B, g)
  <1> DEFINE N == Len(g)
             V == Pieces(L)
             a == [n \in 1..N |-> [p \in V |-> AddGroup(as, B, p, g[n])]]
             w == CutOf(as, B, g)
  <1>1. N \in Nat
    BY LenProperties
  <1>2. NoPieces \in V
    <2> DEFINE U == SUBSET (1..L)
    <2>1. <<>> \in Seq(U) /\ {} \in U
      BY EmptySeq
    <2> HIDE DEF U
    <2>2. NoPieces \in [shut : Seq(U), open : U]
      BY <2>1 DEF NoPieces
    <2> QED
      BY <2>2 DEF U, Pieces
  <1>3. a \in [1..N -> [V -> V]]
    <2>1. ASSUME NEW n \in 1..N, NEW p \in V PROVE AddGroup(as, B, p, g[n]) \in V
      <3>1. g[n] \in SUBSET (1..L)
        BY ElementOfSeq
      <3> QED
        BY <3>1, AddType
    <2> HIDE DEF V, N
    <2> QED
      BY <2>1
  <1>4. PICK f : Iterated(f, V, NoPieces, N, a)
    <2> HIDE DEF V, N, a
    <2> QED
      BY <1>1, <1>2, <1>3, Iterates
  <1>5. /\ f \in [0..N -> V] /\ f[0] = NoPieces
        /\ \A n \in 1..N : f[n] = a[n][f[n - 1]]
    BY <1>4 DEF Iterated
  <1>6. /\ \A n \in 1..N : n - 1 \in 0..N /\ n \in 0..N /\ n # 0 /\ n - 1 < n
        /\ \A n \in 0..N : n \in Nat /\ (n # 0 => n \in 1..N)
    <2> HIDE DEF N
    <2> QED
      BY <1>1
  <1>7. \A n \in 1..N : f[n] = AddGroup(as, B, f[n - 1], g[n])
    <2>1. \A n \in 1..N : f[n - 1] \in V
      BY <1>5, <1>6
    <2> HIDE DEF V, N
    <2> QED
      BY <1>5, <2>1
  <1>8. f = [n \in 0..N |-> CutStep(as, B, g, f, n)]
    <2>1. ASSUME NEW n \in 0..N PROVE f[n] = CutStep(as, B, g, f, n)
      <3>1. CASE n = 0
        BY <3>1, <1>5 DEF CutStep
      <3>2. CASE n # 0
        <4>1. n \in 1..N
          BY <3>2, <1>6
        <4> QED
          BY <4>1, <3>2, <1>7 DEF CutStep
      <3> QED
        BY <3>1, <3>2
    <2> HIDE DEF V, N
    <2> QED
      BY <2>1, <1>5
  <1>9. w = [n \in 0..N |-> CutStep(as, B, g, w, n)]
    BY <1>8 DEF CutOf
  <1> HIDE DEF w
  <1>10. w \in [0..N -> V] /\ w[0] = NoPieces /\ \A n \in 1..N : w[n] = AddGroup(as, B, w[n - 1], g[n])
    <2> DEFINE A == {n \in 0..N : w[n] = f[n]}
               m == [n \in 0..N |-> n]
    <2>1. \A n \in 0..N : w[n] = CutStep(as, B, g, w, n)
      <3> HIDE DEF N
      <3> QED
        BY <1>9
    <2>2. ASSUME NEW n \in 0..N, \A k \in 0..N : m[k] < m[n] => k \in A
          PROVE  n \in A
      <3>1. CASE n = 0
        BY <3>1, <2>1, <1>5 DEF CutStep
      <3>2. CASE n # 0
        <4>1. n - 1 \in 0..N /\ n \in 1..N /\ n - 1 < n
          BY <3>2, <1>6
        <4>2. w[n - 1] = f[n - 1]
          <5> HIDE DEF N
          <5> QED
            BY <4>1, <2>2
        <4> QED
          BY <4>1, <4>2, <3>2, <2>1, <1>7 DEF CutStep
      <3> QED
        BY <3>1, <3>2
    <2>3. m \in [0..N -> Nat]
      <3> HIDE DEF N
      <3> QED
        BY <1>6
    <2> DEFINE D == 0..N
    <2>4. \A n \in D : n \in A
      <3>1. m \in [D -> Nat] /\ \A n \in D : (\A k \in D : m[k] < m[n] => k \in A) => n \in A
        BY <2>2, <2>3
      <3> HIDE DEF A, m, D
      <3> QED
        BY <3>1, MeasureInduction
    <2>5. \A n \in D : w[n] = f[n]
      BY <2>4
    <2>6. w = f
      <3>1. DOMAIN w = D
        <4> HIDE DEF N
        <4> QED
          BY <1>9
      <3>2. w = [n \in D |-> w[n]] /\ f = [n \in D |-> f[n]]
        <4>1. w = [n \in D |-> CutStep(as, B, g, w, n)]
          BY <1>9
        <4>2. f \in [D -> V]
          BY <1>5
        <4> HIDE DEF D, V
        <4> QED
          BY <4>1, <4>2
      <3> HIDE DEF D, V
      <3> QED
        BY <2>5, <3>2
    <2> HIDE DEF V, N
    <2> QED
      BY <2>6, <1>5, <1>7
  <1>11. CutRun(as, L, B, g, w)
    BY <1>10 DEF CutRun
  <1>12. Cut(as, B) = Close(w[N])
    BY CutIs DEF w
  <1> HIDE DEF N
  <1> QED
    BY <1>11, <1>12 DEF N, CutRan

(* What rises from each number to the next rises.                           *)
LEMMA Rises ==
  ASSUME NEW N \in Nat, NEW e \in [0..N -> Nat], \A n \in 1..N : e[n - 1] < e[n]
  PROVE  \A n \in 0..N : \A m \in 0..n : e[m] <= e[n] /\ (m < n => e[m] < e[n])
  <1> DEFINE D == 0..N
             m == [n \in D |-> n]
             A == {n \in D : \A k \in 0..n : e[k] <= e[n] /\ (k < n => e[k] < e[n])}
  <1>2. ASSUME NEW n \in D, \A k \in D : m[k] < m[n] => k \in A
        PROVE  n \in A
    <2>1. CASE n = 0
      BY <2>1
    <2>2. CASE n # 0
      <3>1. n - 1 \in D /\ n \in 1..N /\ m[n - 1] < m[n]
        BY <2>2
      <3>2. n - 1 \in A /\ e[n - 1] < e[n]
        BY <3>1, <1>2
      <3>3. ASSUME NEW k \in 0..n PROVE e[k] <= e[n] /\ (k < n => e[k] < e[n])
        <4>1. CASE k = n
          BY <4>1
        <4>2. CASE k # n
          <5>1. k \in 0..(n - 1) /\ k \in D
            BY <4>2
          <5>2. e[k] <= e[n - 1]
            BY <3>2, <5>1
          <5>3. e[k] \in Nat /\ e[n - 1] \in Nat /\ e[n] \in Nat
            BY <3>1, <5>1
          <5> QED
            BY <3>2, <5>2, <5>3
        <4> QED
          BY <4>1, <4>2
      <3> QED
        BY <3>3
    <2> QED
      BY <2>1, <2>2
  <1>3. m \in [D -> Nat]
    OBVIOUS
  <1>4. \A n \in D : n \in A
    <2> HIDE DEF A, m, D
    <2> QED
      BY <1>2, <1>3, MeasureInduction
  <1> QED
    BY <1>4

LEMMA BoundsGrow ==
  ASSUME NEW c, NEW e, NEW lo, NEW hi, Bounded(c, e, lo, hi)
  PROVE  /\ Len(c) \in Nat /\ e \in [0..Len(c) -> Nat]
         /\ \A n \in 0..Len(c) : \A m \in 0..n : e[m] <= e[n] /\ (m < n => e[m] < e[n])
  <1> DEFINE N == Len(c)
  <1>1. N \in Nat /\ e \in [0..N -> Nat] /\ \A n \in 1..N : e[n - 1] < e[n]
    BY LenProperties DEF Bounded
  <1> HIDE DEF N
  <1> QED
    BY <1>1, Rises DEF N

(* The groups are pieces of the actions.                                    *)
LEMMA GroupsType ==
  ASSUME NEW as, NEW L \in Nat, HasPaths(as, L)
  PROVE  Groups(as) \in Seq(SUBSET (1..L))
  <1> DEFINE g == Groups(as)
             N == Len(g)
  <1>1. PICK b : Bounded(g, b, 1, L + 1)
    BY GroupsTiled DEF Tiled, HasPaths
  <1> HIDE DEF g
  <1>2. /\ g \in Seq(SUBSET Nat) /\ b \in [0..N -> Nat] /\ b[0] = 1 /\ b[N] = L + 1
        /\ \A n \in 1..N : b[n - 1] < b[n] /\ g[n] = b[n - 1]..(b[n] - 1)
    BY <1>1 DEF Bounded
  <1>3. /\ N \in Nat
        /\ \A n \in 0..N : \A m \in 0..n : b[m] <= b[n] /\ (m < n => b[m] < b[n])
    BY <1>1, BoundsGrow
  <1>4. g = [n \in 1..N |-> g[n]]
    BY <1>2
  <1> HIDE DEF N
  <1>5. ASSUME NEW n \in 1..N PROVE g[n] \in SUBSET (1..L)
    <2>1. n \in 0..N /\ N \in 0..N /\ n - 1 \in 0..N /\ 0 \in 0..(n - 1) /\ n \in 0..N
      BY <1>3
    <2>2. b[0] <= b[n - 1] /\ b[n] <= b[N] /\ b[n] \in Nat /\ b[n - 1] \in Nat
      BY <1>2, <1>3, <2>1
    <2> DEFINE x == b[n - 1]
               y == b[n]
    <2>3. g[n] = x..(y - 1) /\ 1 <= x /\ y <= L + 1 /\ x \in Nat /\ y \in Nat
      BY <1>2, <2>2
    <2> HIDE DEF x, y
    <2> QED
      BY <2>3
  <1>6. [n \in 1..N |-> g[n]] \in Seq(SUBSET (1..L))
    BY <1>3, <1>5
  <1> QED
    BY <1>4, <1>6 DEF g
-----------------------------------------------------------------------------
(* The bounds of the groups: group n is from b[n - 1] to below b[n].        *)
Edges(b, N, L) ==
  /\ N \in Nat /\ L \in Nat /\ b \in [0..N -> 1..(L + 1)] /\ b[0] = 1 /\ b[N] = L + 1
  /\ \A m, n \in 0..N : m < n => b[m] < b[n]
Span(b, x, y) == b[x]..(b[y] - 1)

(* Waves c that are made of the groups up to n, wave k of those after a[k - 1] *)
(* up to a[k]: one group, or no more than the budgets; and with the group    *)
(* that follows it would be more.                                           *)
Chain(as, B, b, c, a, n) ==
  /\ c \in Seq(SUBSET Nat) /\ a \in [0..Len(c) -> 0..n] /\ a[0] = 0
  /\ \A k \in 1..Len(c) :
       /\ a[k - 1] < a[k] /\ c[k] = Span(b, a[k - 1], a[k])
       /\ Isolated(as, c[k], B) => a[k] = a[k - 1] + 1
       /\ a[k] < n => Isolated(as, Span(b, a[k - 1], a[k] + 1), B)
EndsAt(c, a, e) == a[Len(c)] = e

LEMMA SpanIs ==
  ASSUME NEW b, NEW N, NEW L, Edges(b, N, L), NEW x \in 0..N, NEW y \in 0..N
  PROVE  /\ Span(b, x, y) \in SUBSET (1..L) /\ Span(b, x, y) \in SUBSET Nat
         /\ x = y => Span(b, x, y) = {}
         /\ x < y => Span(b, x, y) # {} /\ b[x] \in Span(b, x, y)
  <1> DEFINE u == b[x]
             v == b[y]
  <1>1. L \in Nat /\ u \in 1..(L + 1) /\ v \in 1..(L + 1) /\ (x = y => u = v) /\ (x < y => u < v)
    BY DEF Edges
  <1> HIDE DEF u, v
  <1>2. u..(v - 1) \in SUBSET (1..L) /\ u..(v - 1) \in SUBSET Nat
    BY <1>1
  <1>3. (x = y => u..(v - 1) = {}) /\ (x < y => u \in u..(v - 1))
    BY <1>1
  <1>4. Span(b, x, y) = u..(v - 1)
    BY DEF Span, u, v
  <1> HIDE DEF Span
  <1> QED
    BY <1>2, <1>3, <1>4 DEF u

LEMMA SpanJoins ==
  ASSUME NEW b, NEW N, NEW L, Edges(b, N, L), NEW x \in 0..N, NEW y \in 0..N, NEW z \in 0..N,
         x <= y, y <= z
  PROVE  /\ Span(b, x, y) \cup Span(b, y, z) = Span(b, x, z)
         /\ Span(b, y, z) \subseteq Span(b, x, z) /\ Span(b, x, y) \subseteq Span(b, x, z)
  <1> DEFINE u == b[x]
             v == b[y]
             t == b[z]
  <1>1. /\ L \in Nat /\ u \in 1..(L + 1) /\ v \in 1..(L + 1) /\ t \in 1..(L + 1)
        /\ x \in Nat /\ y \in Nat /\ z \in Nat
    BY DEF Edges
  <1>2. u <= v /\ v <= t
    <2>1. (x = y => u = v) /\ (x < y => u < v) /\ (y = z => v = t) /\ (y < z => v < t)
      BY DEF Edges
    <2> HIDE DEF u, v, t
    <2> QED
      BY <1>1, <2>1
  <1> HIDE DEF u, v, t
  <1>3. u..(v - 1) \cup v..(t - 1) = u..(t - 1)
    BY <1>1, <1>2
  <1>4. u..(v - 1) \subseteq u..(t - 1) /\ v..(t - 1) \subseteq u..(t - 1)
    BY <1>1, <1>2
  <1> QED
    BY <1>3, <1>4 DEF Span, u, v, t

LEMMA ChainGrow ==
  ASSUME NEW as, NEW B, NEW b, NEW c, NEW a, NEW n \in Nat, Chain(as, B, b, c, a, n),
         NEW m \in Nat, m = n + 1, Len(c) \in Nat,
         EndsAt(c, a, n) /\ Len(c) > 0 => Isolated(as, Span(b, a[Len(c) - 1], m), B)
  PROVE  Chain(as, B, b, c, a, m)
  <1> DEFINE C == Len(c)
  <1>1. /\ c \in Seq(SUBSET Nat) /\ a \in [0..C -> 0..n] /\ a[0] = 0 /\ C \in Nat
        /\ \A k \in 1..C :
             /\ a[k - 1] < a[k] /\ c[k] = Span(b, a[k - 1], a[k])
             /\ Isolated(as, c[k], B) => a[k] = a[k - 1] + 1
             /\ a[k] < n => Isolated(as, Span(b, a[k - 1], a[k] + 1), B)
    BY DEF Chain
  <1>2. a[C] = n /\ C > 0 => Isolated(as, Span(b, a[C - 1], m), B)
    BY DEF EndsAt
  <1> HIDE DEF C
  <1>3. a \in [0..C -> 0..m]
    BY <1>1
  <1>4. ASSUME NEW k \in 1..C, a[k] < m PROVE Isolated(as, Span(b, a[k - 1], a[k] + 1), B)
    <2>1. CASE a[k] < n
      BY <2>1, <1>1
    <2>2. CASE ~(a[k] < n)
      <3>1. a[k] = n /\ a[k] + 1 = m
        <4>1. a[k] \in 0..n
          BY <1>1
        <4> QED
          BY <4>1, <2>2
      <3>2. k = C
        <4>1. CASE k # C
          <5>1. a \in [0..C -> Nat] /\ \A i \in 1..C : a[i - 1] < a[i]
            <6>1. a \in [0..C -> Nat]
              BY <1>1
            <6>2. \A i \in 1..C : a[i - 1] < a[i]
              BY <1>1
            <6> QED
              BY <6>1, <6>2
          <5>2. C \in 0..C /\ k \in 0..C /\ k < C
            BY <4>1, <1>1
          <5>3. a[k] < a[C]
            BY <1>1, <5>1, <5>2, Rises
          <5>4. a[C] > n /\ a[C] \in 0..n
            BY <3>1, <5>2, <5>3, <1>1
          <5> QED
            BY <5>4
        <4> QED
          BY <4>1
      <3> QED
        BY <3>1, <3>2, <1>1, <1>2
    <2> QED
      BY <2>1, <2>2
  <1>5. \A k \in 1..C :
             /\ a[k - 1] < a[k] /\ c[k] = Span(b, a[k - 1], a[k])
             /\ Isolated(as, c[k], B) => a[k] = a[k - 1] + 1
             /\ a[k] < m => Isolated(as, Span(b, a[k - 1], a[k] + 1), B)
    BY <1>1, <1>4
  <1> QED
    BY <1>1, <1>3, <1>5 DEF Chain, C

Longer(c, a, n) == [k \in 0..(Len(c) + 1) |-> IF k = Len(c) + 1 THEN n ELSE a[k]]

Appended(as, B, b, c, a, n, e, G) ==
  /\ Chain(as, B, b, Append(c, G), Longer(c, a, n), n)
  /\ Len(Append(c, G)) = Len(c) + 1 /\ Len(c) \in Nat
  /\ EndsAt(Append(c, G), Longer(c, a, n), n)
  /\ Longer(c, a, n)[Len(c)] = e
  /\ Append(c, G)[Len(c) + 1] = G

LEMMA ChainAppend ==
  ASSUME NEW as, NEW B, NEW b, NEW c, NEW a, NEW n \in Nat, Chain(as, B, b, c, a, n),
         NEW e \in Nat, EndsAt(c, a, e), e < n, NEW G, G = Span(b, e, n), G \in SUBSET Nat,
         Isolated(as, G, B) => n = e + 1
  PROVE  Appended(as, B, b, c, a, n, e, G)
  <1> DEFINE C == Len(c)
             d == Append(c, G)
             f == Longer(c, a, n)
             V == SUBSET Nat
  <1>1. /\ c \in Seq(V) /\ a \in [0..C -> 0..n] /\ a[0] = 0 /\ C \in Nat
        /\ \A k \in 1..C :
             /\ a[k - 1] < a[k] /\ c[k] = Span(b, a[k - 1], a[k])
             /\ Isolated(as, c[k], B) => a[k] = a[k - 1] + 1
             /\ a[k] < n => Isolated(as, Span(b, a[k - 1], a[k] + 1), B)
    BY LenProperties DEF Chain
  <1>2. a[C] = e
    BY DEF EndsAt
  <1>3. d \in Seq(V) /\ Len(d) = C + 1 /\ d[C + 1] = G /\ \A k \in 1..C : d[k] = c[k]
    <2>1. G \in V
      OBVIOUS
    <2> HIDE DEF V, C
    <2> QED
      BY <1>1, <2>1 DEF C
  <1>4. f = [k \in 0..(C + 1) |-> IF k = C + 1 THEN n ELSE a[k]]
    BY DEF Longer
  <1> HIDE DEF C, d, f, V
  <1>5. f \in [0..(C + 1) -> 0..n] /\ f[C + 1] = n /\ \A k \in 0..C : f[k] = a[k]
    BY <1>1, <1>4
  <1>6. f[0] = 0 /\ f[C] = e
    BY <1>1, <1>2, <1>5
  <1>7. ASSUME NEW k \in 1..(C + 1)
        PROVE  /\ f[k - 1] < f[k] /\ d[k] = Span(b, f[k - 1], f[k])
               /\ Isolated(as, d[k], B) => f[k] = f[k - 1] + 1
               /\ f[k] < n => Isolated(as, Span(b, f[k - 1], f[k] + 1), B)
    <2>1. CASE k = C + 1
      <3>1. k - 1 = C
        BY <2>1, <1>1
      <3> QED
        <4>1. f[k - 1] = e /\ f[k] = n /\ d[k] = G
          BY <2>1, <3>1, <1>3, <1>5, <1>6
        <4>2. ~(n < n)
          OBVIOUS
        <4> QED
          BY <4>1, <4>2
    <2>2. CASE k # C + 1
      <3>1. k \in 1..C /\ k \in 0..C /\ k - 1 \in 0..C
        BY <2>2, <1>1
      <3> QED
        BY <3>1, <1>1, <1>3, <1>5
    <2> QED
      BY <2>1, <2>2
  <1>8. Chain(as, B, b, d, f, n)
    BY <1>3, <1>5, <1>6, <1>7 DEF Chain, V
  <1>9. EndsAt(d, f, n)
    BY <1>3, <1>5 DEF EndsAt
  <1> QED
    BY <1>1, <1>3, <1>6, <1>8, <1>9 DEF Appended, C, d, f
-----------------------------------------------------------------------------
Setting(as, B, g, b, N, L) ==
  /\ HasSizes(as, L) /\ HasBudgets(B) /\ Edges(b, N, L)
  /\ \A n \in 1..N : g[n] = Span(b, n - 1, n)

LEMMA SettingNumbers ==
  ASSUME NEW as, NEW B, NEW g, NEW b, NEW N, NEW L, Setting(as, B, g, b, N, L)
  PROVE  N \in Nat /\ L \in Nat /\ HasSizes(as, L) /\ HasBudgets(B) /\ Edges(b, N, L)
  BY DEF Setting, Edges

LEMMA IsolatedSpan ==
  ASSUME NEW as, NEW B, NEW g, NEW b, NEW N, NEW L, Setting(as, B, g, b, N, L),
         NEW x \in 0..N, NEW y \in 0..N, NEW v \in 0..N, NEW z \in 0..N,
         v <= x, x <= y, y <= z, Isolated(as, Span(b, x, y), B)
  PROVE  Isolated(as, Span(b, v, z), B)
  <1> DEFINE G == Span(b, x, y)
             H == Span(b, v, z)
  <1>1. L \in Nat /\ HasSizes(as, L) /\ HasBudgets(B) /\ Edges(b, N, L) /\ N \in Nat
    BY SettingNumbers
  <1>2. v \in Nat /\ x \in Nat /\ y \in Nat /\ z \in Nat /\ v <= y
    BY <1>1
  <1>3. G \subseteq Span(b, v, y)
    BY <1>1, <1>2, SpanJoins
  <1>4. Span(b, v, y) \subseteq H
    BY <1>1, <1>2, SpanJoins
  <1>5. H \in SUBSET (1..L)
    BY <1>1, SpanIs
  <1> HIDE DEF G, H
  <1>6. G \in SUBSET H /\ H \in SUBSET (1..L)
    BY <1>3, <1>4, <1>5
  <1>7. Isolated(as, G, B)
    BY DEF G
  <1>8. Isolated(as, H, B)
    BY ONLY <1>1, <1>6, <1>7, IsolatedMore
  <1> QED
    BY <1>8 DEF H

(* The waves closed after n groups end with group e, and the open one holds *)
(* the groups after it.                                                     *)
LoopAt(as, B, b, c, o, n, a, e) ==
  /\ Chain(as, B, b, c, a, n) /\ EndsAt(c, a, e) /\ e \in 0..n
  /\ o = Span(b, e, n)
  /\ e < n => ~Isolated(as, o, B)
  /\ e = n /\ Len(c) > 0 => Isolated(as, Span(b, a[Len(c) - 1], n), B)
Loop(as, B, b, w, n) == \E a, e : LoopAt(as, B, b, w.shut, w.open, n, a, e)

LEMMA ChainFacts ==
  ASSUME NEW as, NEW B, NEW b, NEW c, NEW a, NEW n \in Nat, Chain(as, B, b, c, a, n),
         NEW e, EndsAt(c, a, e)
  PROVE  /\ Len(c) \in Nat /\ c \in Seq(SUBSET Nat) /\ e \in 0..n
         /\ Len(c) > 0 => a[Len(c) - 1] \in 0..n /\ a[Len(c) - 1] < e /\ c[Len(c)] = Span(b, a[Len(c) - 1], e)
  <1> DEFINE C == Len(c)
  <1>1. /\ C \in Nat /\ c \in Seq(SUBSET Nat) /\ a \in [0..C -> 0..n] /\ a[C] = e
        /\ \A k \in 1..C : a[k - 1] < a[k] /\ c[k] = Span(b, a[k - 1], a[k])
    BY LenProperties DEF Chain, EndsAt
  <1> HIDE DEF C
  <1>2. C \in 0..C /\ (C > 0 => C \in 1..C /\ C - 1 \in 0..C)
    BY <1>1
  <1>3. e \in 0..n
    BY <1>1, <1>2
  <1>4. C > 0 => a[C - 1] \in 0..n /\ a[C - 1] < e /\ c[C] = Span(b, a[C - 1], e)
    BY <1>1, <1>2
  <1> QED
    BY <1>1, <1>3, <1>4 DEF C

(* A group that is a wave of its own is closed at once.                     *)
LEMMA LoopShut ==
  ASSUME NEW as, NEW B, NEW g, NEW b, NEW N, NEW L, Setting(as, B, g, b, N, L),
         NEW n \in Nat, NEW m \in 0..N, m = n + 1, n \in 0..N,
         NEW c, NEW a, Chain(as, B, b, c, a, m), EndsAt(c, a, n), Isolated(as, Span(b, n, m), B)
  PROVE  \E f : LoopAt(as, B, b, Append(c, Span(b, n, m)), {}, m, f, m)
  <1> DEFINE G == Span(b, n, m)
             d == Append(c, G)
             f == Longer(c, a, m)
  <1>1. m \in Nat /\ n < m /\ N \in Nat /\ Edges(b, N, L)
    <2>1. N \in Nat /\ Edges(b, N, L)
      BY SettingNumbers
    <2> HIDE DEF d, f, G
    <2> QED
      BY <2>1
  <1>2. G \in SUBSET Nat /\ Span(b, m, m) = {}
    BY <1>1, SpanIs
  <1>3. /\ Chain(as, B, b, d, f, m) /\ Len(d) = Len(c) + 1 /\ Len(c) \in Nat
        /\ EndsAt(d, f, m) /\ f[Len(c)] = n
    <2> HIDE DEF G
    <2>1. G = Span(b, n, m) /\ G \in SUBSET Nat /\ (Isolated(as, G, B) => m = n + 1)
      BY <1>2 DEF G
    <2>2. Chain(as, B, b, c, a, m) /\ EndsAt(c, a, n) /\ m \in Nat /\ n \in Nat /\ n < m
      BY <1>1
    <2>3. Appended(as, B, b, c, a, m, n, G)
      BY ONLY <2>1, <2>2, ChainAppend
    <2> QED
      BY <2>3 DEF Appended
  <1>4. Isolated(as, Span(b, f[Len(d) - 1], m), B)
    <2>1. Len(d) - 1 = Len(c)
      <3> HIDE DEF d
      <3> QED
        BY <1>3
    <2>2. f[Len(d) - 1] = n
      BY <1>3, <2>1
    <2> QED
      BY <2>2
  <1>5. m \in 0..m /\ ~(m < m)
    BY <1>1
  <1> HIDE DEF d, f
  <1>6. LoopAt(as, B, b, d, {}, m, f, m)
    BY <1>2, <1>3, <1>4, <1>5 DEF LoopAt
  <1>7. \E h : LoopAt(as, B, b, d, {}, m, h, m)
    BY <1>6
  <1> QED
    BY <1>7 DEF d, G

LEMMA LoopStep ==
  ASSUME NEW as, NEW B, NEW g, NEW b, NEW N, NEW L, Setting(as, B, g, b, N, L),
         NEW n \in Nat, NEW m \in 1..N, m = n + 1,
         NEW w \in Pieces(L), Loop(as, B, b, w, n)
  PROVE  Loop(as, B, b, AddGroup(as, B, w, g[m]), m)
  <1> DEFINE c == w.shut
             o == w.open
             G == Span(b, n, m)
             p == AddGroup(as, B, w, g[m])
  <1>1. PICK a, e : LoopAt(as, B, b, c, o, n, a, e)
    BY DEF Loop
  <1>2. /\ Chain(as, B, b, c, a, n) /\ EndsAt(c, a, e) /\ e \in 0..n /\ o = Span(b, e, n)
        /\ e < n => ~Isolated(as, o, B)
        /\ e = n /\ Len(c) > 0 => Isolated(as, Span(b, a[Len(c) - 1], n), B)
    BY <1>1 DEF LoopAt
  <1>3. /\ N \in Nat /\ L \in Nat /\ HasSizes(as, L) /\ HasBudgets(B) /\ Edges(b, N, L)
    BY SettingNumbers
  <1>4. /\ m \in 0..N /\ n \in 0..N /\ e \in 0..N /\ m \in Nat /\ e \in Nat /\ n < m /\ e <= n /\ e < m
        /\ m - 1 = n /\ 1 \in Nat
    BY <1>2, <1>3
  <1>5. g[m] = G
    BY <1>4 DEF Setting
  <1>6. /\ Len(c) \in Nat /\ c \in Seq(SUBSET Nat)
        /\ Len(c) > 0 => a[Len(c) - 1] \in 0..n /\ a[Len(c) - 1] < e
    BY <1>2, ChainFacts
  <1>7. /\ G \in SUBSET (1..L) /\ o \in SUBSET (1..L) /\ G \in SUBSET Nat /\ o \in SUBSET Nat
        /\ (e = n => o = {}) /\ (e < n => o # {})
        /\ o \cup G = Span(b, e, m)
    BY <1>2, <1>3, <1>4, SpanIs, SpanJoins
  <1>8. w = [shut |-> c, open |-> o]
    BY PiecesType, <1>3
  <1> HIDE DEF c, o, G
  <1>9. Close(w) = IF o = {} THEN c ELSE Append(c, o)
    BY DEF Close, c, o
  <1>10. /\ Isolated(as, G, B) => p = [shut |-> Append(Close(w), G), open |-> {}]
         /\ ~Isolated(as, G, B) /\ (o = {} \/ Joins(as, o, G, B)) => p = [w EXCEPT !.open = @ \cup G]
         /\ ~Isolated(as, G, B) /\ ~(o = {} \/ Joins(as, o, G, B)) => p = [shut |-> Close(w), open |-> G]
    BY <1>5 DEF AddGroup, o
  <1> SUFFICES Loop(as, B, b, p, m)
    OBVIOUS
  <1> HIDE DEF p
  <1>11. \A f, k : LoopAt(as, B, b, p.shut, p.open, m, f, k) => Loop(as, B, b, p, m)
    BY DEF Loop
  <1>12. Len(c) > 0 => a[Len(c) - 1] \in 0..N /\ a[Len(c) - 1] <= e /\ a[Len(c) - 1] <= n
    <2> DEFINE x == a[Len(c) - 1]
    <2>1. Len(c) > 0 => x \in 0..n /\ x < e
      BY <1>6
    <2> HIDE DEF x
    <2>2. Len(c) > 0 => x \in 0..N /\ x <= e /\ x <= n
      BY <1>3, <1>4, <2>1
    <2> QED
      BY <2>2 DEF x
  <1>13. (EndsAt(c, a, n) => e = n)
    BY <1>2 DEF EndsAt
  (* Without anything open, the waves so far stay as they are.              *)
  <1>14. ASSUME e = n PROVE Chain(as, B, b, c, a, m)
    <2>1. Len(c) > 0 => Isolated(as, Span(b, a[Len(c) - 1], m), B)
      <3>1. ASSUME Len(c) > 0 PROVE Isolated(as, Span(b, a[Len(c) - 1], m), B)
        <4>1. Isolated(as, Span(b, a[Len(c) - 1], n), B)
          BY <1>2, <1>14, <3>1
        <4>2. n <= m /\ a[Len(c) - 1] <= a[Len(c) - 1] /\ a[Len(c) - 1] <= n /\ a[Len(c) - 1] \in 0..N
          <5> DEFINE x == a[Len(c) - 1]
          <5>1. x \in 0..N /\ x <= n
            BY <1>12, <3>1
          <5> HIDE DEF x
          <5>2. x <= x
            BY <5>1
          <5> QED
            BY <1>4, <5>1, <5>2 DEF x
        <4> QED
          BY <1>4, <4>1, <4>2, IsolatedSpan
      <3> QED
        BY <3>1
    <2> QED
      BY <1>2, <1>4, <1>6, <2>1, ChainGrow
  <1>15. ASSUME e < n PROVE Chain(as, B, b, c, a, m)
    <2>1. ~EndsAt(c, a, n)
      BY <1>4, <1>13, <1>15
    <2> QED
      BY <1>2, <1>4, <1>6, <2>1, ChainGrow
  (* The open wave is closed.                                               *)
  <1> DEFINE d == Append(c, o)
             h == Longer(c, a, n)
  <1>16. ASSUME e < n, Isolated(as, Span(b, e, m), B)
         PROVE  Chain(as, B, b, d, h, m) /\ EndsAt(d, h, n)
    <2>1. /\ Chain(as, B, b, d, h, n) /\ Len(d) = Len(c) + 1 /\ EndsAt(d, h, n)
          /\ h[Len(c)] = e
      <3>1. o = Span(b, e, n) /\ o \in SUBSET Nat /\ (Isolated(as, o, B) => n = e + 1)
        BY <1>2, <1>7, <1>16
      <3>2. Chain(as, B, b, c, a, n) /\ EndsAt(c, a, e) /\ n \in Nat /\ e \in Nat /\ e < n
        BY <1>2, <1>4, <1>16
      <3>3. Appended(as, B, b, c, a, n, e, o)
        BY ONLY <3>1, <3>2, ChainAppend
      <3> QED
        BY <3>3 DEF Appended
    <2>2. Len(d) \in Nat /\ Len(d) - 1 = Len(c)
      <3> HIDE DEF d
      <3> QED
        BY <2>1, <1>6
    <2>3. Isolated(as, Span(b, h[Len(d) - 1], m), B)
      <3>1. h[Len(d) - 1] = e
        BY <2>1, <2>2
      <3> QED
        BY <3>1, <1>16
    <2> HIDE DEF d, h
    <2> QED
      BY <1>4, <2>1, <2>2, <2>3, ChainGrow
  <1> HIDE DEF d, h
  <1>17. CASE Isolated(as, G, B)
    <2>1. CASE e = n
      <3>1. p.shut = Append(c, G) /\ p.open = {}
        BY <1>7, <1>9, <1>10, <1>17, <2>1
      <3>2. \E f : LoopAt(as, B, b, Append(c, G), {}, m, f, m)
        BY <1>2, <1>4, <1>14, <1>17, <2>1, LoopShut DEF G
      <3> QED
        BY <3>1, <3>2, <1>11
    <2>2. CASE e < n
      <3>1. p.shut = Append(d, G) /\ p.open = {}
        BY <1>7, <1>9, <1>10, <1>17, <2>2 DEF d
      <3>2. Isolated(as, Span(b, e, m), B)
        <4>1. e <= n /\ n <= m /\ m <= m
          BY <1>4
        <4> QED
          BY <1>4, <1>17, <4>1, IsolatedSpan DEF G
      <3>3. Chain(as, B, b, d, h, m) /\ EndsAt(d, h, n)
        BY <2>2, <3>2, <1>16
      <3>4. \E f : LoopAt(as, B, b, Append(d, G), {}, m, f, m)
        BY <1>4, <1>17, <3>3, LoopShut DEF G
      <3> QED
        BY <3>1, <3>4, <1>11
    <2>3. e = n \/ e < n
      BY <1>4
    <2> QED
      BY <2>1, <2>2, <2>3
  <1>18. CASE ~Isolated(as, G, B) /\ (o = {} \/ Joins(as, o, G, B))
    <2>1. p.shut = c /\ p.open = o \cup G
      BY <1>8, <1>10, <1>18
    <2>2. Chain(as, B, b, c, a, m)
      <3>1. e = n \/ e < n
        BY <1>4
      <3> QED
        BY <3>1, <1>14, <1>15
    <2>3. ~Isolated(as, o \cup G, B)
      <3>1. CASE o = {}
        <4>1. o \cup G = G
          BY <3>1
        <4> QED
          BY <4>1, <1>18
      <3>2. CASE Joins(as, o, G, B)
        <4>1. o \cup G \in SUBSET (1..L)
          BY <1>7
        <4> QED
          BY <3>2, <4>1, <1>3, JoinsIs
      <3> QED
        BY <3>1, <3>2, <1>18
    <2>4. e \in 0..m /\ e # m
      BY <1>4
    <2>5. LoopAt(as, B, b, c, o \cup G, m, a, e)
      BY <1>2, <1>7, <2>2, <2>3, <2>4 DEF LoopAt
    <2> QED
      BY <2>1, <2>5, <1>11
  <1>19. CASE ~Isolated(as, G, B) /\ ~(o = {} \/ Joins(as, o, G, B))
    <2>1. e < n
      <3>1. e = n \/ e < n
        BY <1>4
      <3>2. o # {}
        BY <1>19
      <3> QED
        BY <3>1, <3>2, <1>7
    <2>2. p.shut = d /\ p.open = G
      <3>1. p = [shut |-> Close(w), open |-> G] /\ o # {}
        BY <1>10, <1>19
      <3>2. Close(w) = d
        BY <3>1, <1>9 DEF d
      <3> QED
        BY <3>1, <3>2
    <2>3. Isolated(as, Span(b, e, m), B)
      <3>1. o \cup G \in SUBSET (1..L)
        BY <1>7
      <3>2. Isolated(as, o \cup G, B)
        BY <3>1, <1>19, <1>3, JoinsIs
      <3> QED
        BY <3>2, <1>7
    <2>4. Chain(as, B, b, d, h, m) /\ EndsAt(d, h, n)
      BY <2>1, <2>3, <1>16
    <2>5. n \in 0..m /\ n # m
      BY <1>4
    <2>6. LoopAt(as, B, b, d, G, m, h, n)
      BY <1>19, <2>4, <2>5 DEF LoopAt, G
    <2> QED
      BY <2>2, <2>6, <1>11
  <1> QED
    BY <1>17, <1>18, <1>19 DEF p
-----------------------------------------------------------------------------
(* Bounds of the groups, and the waves c that end with the last of them.    *)
Laid(as, B, L, b, c, a) ==
  /\ Setting(as, B, Groups(as), b, Len(Groups(as)), L)
  /\ Groups(as) \in Seq(SUBSET (1..L))
  /\ Chain(as, B, b, c, a, Len(Groups(as))) /\ EndsAt(c, a, Len(Groups(as)))

LEMMA GroupsSet ==
  ASSUME NEW as, NEW L \in Nat, HasPaths(as, L), HasSizes(as, L), NEW B, HasBudgets(B)
  PROVE  \E b : Setting(as, B, Groups(as), b, Len(Groups(as)), L)
  <1> DEFINE g == Groups(as)
             N == Len(g)
  <1>1. PICK b : Bounded(g, b, 1, L + 1)
    BY GroupsTiled DEF Tiled, HasPaths
  <1> HIDE DEF g
  <1>2. /\ b \in [0..N -> Nat] /\ b[0] = 1 /\ b[N] = L + 1
        /\ \A n \in 1..N : b[n - 1] < b[n] /\ g[n] = b[n - 1]..(b[n] - 1)
    BY <1>1 DEF Bounded
  <1>3. /\ N \in Nat
        /\ \A n \in 0..N : \A m \in 0..n : b[m] <= b[n] /\ (m < n => b[m] < b[n])
    BY <1>1, BoundsGrow
  <1> HIDE DEF N
  <1>4. ASSUME NEW n \in 0..N PROVE b[n] \in 1..(L + 1)
    <2>1. 0 \in 0..n /\ n \in 0..N /\ N \in 0..N
      BY <1>3
    <2>2. b[0] <= b[n] /\ b[n] <= b[N] /\ b[n] \in Nat
      BY <1>2, <1>3, <2>1
    <2> DEFINE y == b[n]
    <2>3. 1 <= y /\ y <= L + 1 /\ y \in Nat
      BY <1>2, <2>2
    <2> HIDE DEF y
    <2>4. y \in 1..(L + 1)
      BY <2>3
    <2> QED
      BY <2>4 DEF y
  <1>5. ASSUME NEW m \in 0..N, NEW n \in 0..N, m < n PROVE b[m] < b[n]
    <2>1. m \in 0..n
      BY <1>3, <1>5
    <2> QED
      BY <1>3, <1>5, <2>1
  <1>6. b \in [0..N -> 1..(L + 1)]
    BY <1>2, <1>4
  <1>7. Edges(b, N, L)
    BY <1>2, <1>3, <1>5, <1>6 DEF Edges
  <1>8. \A n \in 1..N : g[n] = Span(b, n - 1, n)
    BY <1>2 DEF Span
  <1>9. Setting(as, B, g, b, N, L)
    BY <1>7, <1>8 DEF Setting
  <1> QED
    BY <1>9 DEF g, N

LEMMA LoopBegins ==
  ASSUME NEW as, NEW B, NEW g, NEW b, NEW N, NEW L, Setting(as, B, g, b, N, L)
  PROVE  Loop(as, B, b, NoPieces, 0)
  <1> DEFINE c == <<>>
             a == [k \in 0..0 |-> 0]
  <1>1. N \in Nat /\ Edges(b, N, L)
    BY SettingNumbers
  <1>2. c \in Seq(SUBSET Nat) /\ Len(c) = 0
    BY EmptySeq
  <1>3. a \in [0..Len(c) -> 0..0] /\ a[0] = 0
    BY <1>2
  <1>4. \A k \in 1..Len(c) : FALSE
    BY <1>2
  <1>5. Span(b, 0, 0) = {}
    BY <1>1, SpanIs
  <1> HIDE DEF c, a
  <1>6. Chain(as, B, b, c, a, 0) /\ EndsAt(c, a, 0)
    BY <1>2, <1>3, <1>4 DEF Chain, EndsAt
  <1>7. LoopAt(as, B, b, c, {}, 0, a, 0)
    <2>1. ~(Len(c) > 0) /\ 0 \in 0..0 /\ ~(0 < 0)
      BY <1>2
    <2> QED
      BY <1>5, <1>6, <2>1 DEF LoopAt
  <1>8. NoPieces.shut = c /\ NoPieces.open = {}
    BY DEF NoPieces, c
  <1> QED
    BY <1>7, <1>8 DEF Loop

LEMMA LoopEnds ==
  ASSUME NEW as, NEW B, NEW g, NEW b, NEW N, NEW L, Setting(as, B, g, b, N, L),
         NEW w \in Pieces(L), Loop(as, B, b, w, N)
  PROVE  \E a : Chain(as, B, b, Close(w), a, N) /\ EndsAt(Close(w), a, N)
  <1> DEFINE c == w.shut
             o == w.open
  <1>1. PICK a, e : LoopAt(as, B, b, c, o, N, a, e)
    BY DEF Loop
  <1>2. /\ Chain(as, B, b, c, a, N) /\ EndsAt(c, a, e) /\ e \in 0..N /\ o = Span(b, e, N)
        /\ e < N => ~Isolated(as, o, B)
    BY <1>1 DEF LoopAt
  <1>3. N \in Nat /\ L \in Nat /\ Edges(b, N, L)
    BY SettingNumbers
  <1>4. N \in 0..N /\ e \in Nat /\ (e = N \/ e < N)
    BY <1>2, <1>3
  <1>5. (e = N => o = {}) /\ (e < N => o # {}) /\ o \in SUBSET Nat
    BY <1>2, <1>3, <1>4, SpanIs
  <1>6. Close(w) = IF o = {} THEN c ELSE Append(c, o)
    BY DEF Close
  <1> HIDE DEF c, o
  <1>7. CASE e = N
    BY <1>2, <1>5, <1>6, <1>7
  <1>8. CASE e < N
    <2>1. /\ Chain(as, B, b, c, a, N) /\ EndsAt(c, a, e) /\ N \in Nat /\ e \in Nat /\ e < N
          /\ o = Span(b, e, N) /\ o \in SUBSET Nat /\ (Isolated(as, o, B) => N = e + 1)
      BY <1>2, <1>3, <1>4, <1>5, <1>8
    <2>2. Appended(as, B, b, c, a, N, e, o)
      BY ONLY <2>1, ChainAppend
    <2>3. Close(w) = Append(c, o)
      BY <1>5, <1>6, <1>8
    <2> QED
      BY <2>2, <2>3 DEF Appended
  <1> QED
    BY <1>4, <1>7, <1>8

LEMMA CutLaid ==
  ASSUME NEW as, NEW L \in Nat, HasPaths(as, L), HasSizes(as, L), NEW B, HasBudgets(B)
  PROVE  \E b, a : Laid(as, B, L, b, Cut(as, B), a)
  <1> DEFINE g == Groups(as)
             N == Len(g)
  <1>1. PICK b : Setting(as, B, g, b, N, L)
    BY GroupsSet
  <1>2. g \in Seq(SUBSET (1..L)) /\ N \in Nat
    BY GroupsType, LenProperties
  <1>3. g = Groups(as)
    OBVIOUS
  <1> HIDE DEF g
  <1>4. PICK w : CutRun(as, L, B, g, w) /\ Cut(as, B) = Close(w[N])
    <2>1. CutRan(as, L, B, g)
      BY ONLY L \in Nat, <1>2, <1>3, CutRuns
    <2> QED
      BY <2>1 DEF CutRan
  <1> HIDE DEF N
  <1>5. /\ w \in [0..N -> Pieces(L)] /\ w[0] = NoPieces
        /\ \A n \in 1..N : w[n] = AddGroup(as, B, w[n - 1], g[n])
    BY <1>4 DEF CutRun, N
  <1> DEFINE D == 0..N
             A == {n \in D : Loop(as, B, b, w[n], n)}
             m == [n \in D |-> n]
  <1>6. ASSUME NEW n \in D, \A k \in D : m[k] < m[n] => k \in A
        PROVE  n \in A
    <2>1. CASE n = 0
      BY <2>1, <1>1, <1>5, LoopBegins
    <2>2. CASE n # 0
      <3> DEFINE k == n - 1
      <3>1. k \in D /\ n \in 1..N /\ m[k] < m[n] /\ k \in Nat /\ n = k + 1
        BY <1>2, <2>2
      <3>2. w[n] = AddGroup(as, B, w[k], g[n])
        BY <1>5, <3>1
      <3> HIDE DEF k
      <3>3. Loop(as, B, b, w[k], k) /\ w[k] \in Pieces(L)
        BY <1>5, <1>6, <3>1
      <3>4. Loop(as, B, b, AddGroup(as, B, w[k], g[n]), n)
        BY ONLY <1>1, <3>1, <3>3, LoopStep
      <3> QED
        BY <3>2, <3>4
    <2> QED
      BY <2>1, <2>2
  <1>7. m \in [D -> Nat]
    BY <1>2
  <1>8. \A n \in D : n \in A
    <2> HIDE DEF A, m, D
    <2> QED
      BY <1>6, <1>7, MeasureInduction
  <1>9. Loop(as, B, b, w[N], N) /\ w[N] \in Pieces(L)
    <2>1. N \in D
      BY <1>2
    <2> QED
      BY <1>5, <1>8, <2>1
  <1>10. PICK a : Chain(as, B, b, Cut(as, B), a, N) /\ EndsAt(Cut(as, B), a, N)
    BY <1>1, <1>4, <1>9, LoopEnds
  <1>11. Laid(as, B, L, b, Cut(as, B), a)
    BY <1>1, <1>2, <1>10 DEF Laid, N, g
  <1> QED
    BY <1>11
-----------------------------------------------------------------------------
(* There are N groups and C waves.                                          *)
LaidAs(as, B, L, b, c, a, N, C) ==
  /\ N \in Nat /\ L \in Nat /\ Edges(b, N, L) /\ Setting(as, B, Groups(as), b, N, L)
  /\ C \in Nat /\ c \in Seq(SUBSET Nat) /\ a \in [0..C -> 0..N]
  /\ a[0] = 0 /\ a[C] = N
  /\ \A k \in 1..C :
       /\ a[k - 1] < a[k] /\ c[k] = Span(b, a[k - 1], a[k])
       /\ Isolated(as, c[k], B) => a[k] = a[k - 1] + 1
       /\ a[k] < N => Isolated(as, Span(b, a[k - 1], a[k] + 1), B)

LEMMA LaidFacts ==
  ASSUME NEW as, NEW B, NEW L, NEW b, NEW c, NEW a, Laid(as, B, L, b, c, a)
  PROVE  LaidAs(as, B, L, b, c, a, Len(Groups(as)), Len(c))
  <1> DEFINE N == Len(Groups(as))
             C == Len(c)
  <1>1. Setting(as, B, Groups(as), b, N, L) /\ Chain(as, B, b, c, a, N) /\ EndsAt(c, a, N)
    BY DEF Laid
  <1>2. N \in Nat /\ L \in Nat /\ Edges(b, N, L)
    BY <1>1, SettingNumbers
  <1>3. c \in Seq(SUBSET Nat)
    BY <1>1 DEF Chain
  <1>4. C \in Nat
    BY <1>3, LenProperties
  <1>5. /\ a \in [0..C -> 0..N] /\ a[0] = 0
        /\ \A k \in 1..C :
             /\ a[k - 1] < a[k] /\ c[k] = Span(b, a[k - 1], a[k])
             /\ Isolated(as, c[k], B) => a[k] = a[k - 1] + 1
             /\ a[k] < N => Isolated(as, Span(b, a[k - 1], a[k] + 1), B)
    BY <1>1 DEF Chain
  <1>6. a[C] = N
    BY <1>1 DEF EndsAt
  <1> HIDE DEF N, C
  <1>7. LaidAs(as, B, L, b, c, a, N, C)
    BY <1>1, <1>2, <1>3, <1>4, <1>5, <1>6 DEF LaidAs
  <1> QED
    BY <1>7 DEF N, C

LEMMA LaidRises ==
  ASSUME NEW as, NEW B, NEW L, NEW b, NEW c, NEW a, Laid(as, B, L, b, c, a),
         NEW m \in 0..Len(c), NEW n \in 0..Len(c), m < n
  PROVE  a[m] < a[n]
  <1> DEFINE N == Len(Groups(as))
             C == Len(c)
  <1>0. LaidAs(as, B, L, b, c, a, N, C)
    BY LaidFacts
  <1> HIDE DEF N, C
  <1>1. N \in Nat /\ C \in Nat /\ a \in [0..C -> 0..N] /\ \A k \in 1..C : a[k - 1] < a[k]
    BY <1>0 DEF LaidAs
  <1>2. a \in [0..C -> Nat]
    BY <1>1
  <1>3. m \in 0..n /\ m \in 0..C /\ n \in 0..C
    BY <1>1 DEF C
  <1> QED
    BY <1>1, <1>2, <1>3, Rises

(* Together the waves are all the actions.                                  *)
LEMMA LaidCovers ==
  ASSUME NEW as, NEW B, NEW L, NEW b, NEW c, NEW a, Laid(as, B, L, b, c, a)
  PROVE  UNION {c[n] : n \in 1..Len(c)} = 1..L
  <1> DEFINE N == Len(Groups(as))
             C == Len(c)
  <1>0. LaidAs(as, B, L, b, c, a, N, C)
    BY LaidFacts
  <1> HIDE DEF N, C
  <1>1. /\ N \in Nat /\ L \in Nat /\ Edges(b, N, L) /\ C \in Nat /\ a \in [0..C -> 0..N]
        /\ a[0] = 0 /\ a[C] = N
        /\ \A k \in 1..C : a[k - 1] < a[k] /\ c[k] = Span(b, a[k - 1], a[k])
    BY <1>0 DEF LaidAs
  <1>2. ASSUME NEW n \in 1..C PROVE c[n] \subseteq 1..L
    <2>1. n \in 0..C /\ n - 1 \in 0..C
      BY <1>1
    <2>2. c[n] = Span(b, a[n - 1], a[n]) /\ a[n - 1] \in 0..N /\ a[n] \in 0..N
      BY <1>1, <2>1
    <2>3. Span(b, a[n - 1], a[n]) \in SUBSET (1..L)
      BY <1>1, <2>2, SpanIs
    <2> QED
      BY <2>2, <2>3
  <1>3. ASSUME NEW i \in 1..L PROVE \E n \in 1..C : i \in c[n]
    <2> DEFINE S == {n \in 0..C : i < b[a[n]]}
    <2>1. C \in S
      <3>1. C \in 0..C /\ b[a[C]] = L + 1 /\ i < L + 1
        BY <1>1 DEF Edges
      <3> QED
        BY <3>1
    <2>2. S \in SUBSET Nat
      BY <1>1
    <2>3. \E n \in S : \A m \in S : n <= m
      BY <2>1, <2>2, NatMin
    <2>4. PICK n \in S : \A m \in S : n <= m
      BY <2>3
    <2>5. n # 0
      <3>1. b[a[0]] = 1 /\ ~(i < 1)
        BY <1>1 DEF Edges
      <3> QED
        BY <3>1, <2>4
    <2>6. n \in 1..C /\ n - 1 \in 0..C /\ n \in 0..C /\ ~(n <= n - 1)
      BY <1>1, <2>4, <2>5
    <2>7. ~(i < b[a[n - 1]]) /\ i < b[a[n]]
      BY <2>4, <2>6
    <2>8. c[n] = Span(b, a[n - 1], a[n]) /\ a[n - 1] \in 0..N /\ a[n] \in 0..N
      BY <1>1, <2>6
    <2> DEFINE u == b[a[n - 1]]
               v == b[a[n]]
    <2>9. u \in 1..(L + 1) /\ v \in 1..(L + 1) /\ c[n] = u..(v - 1)
      BY <1>1, <2>8 DEF Span, Edges
    <2>10. ~(i < u) /\ i < v
      BY <2>7
    <2> HIDE DEF u, v
    <2>11. i \in u..(v - 1)
      BY <2>9, <2>10, <1>1
    <2> QED
      BY <2>6, <2>9, <2>11
  <1> QED
    BY <1>2, <1>3 DEF C

LEMMA TwoOf ==
  ASSUME NEW C \in Nat, NEW m \in 1..C, NEW n \in 1..C, m < n
  PROVE  /\ m - 1 \in 0..C /\ n - 1 \in 0..C /\ m \in 0..C /\ n \in 0..C
         /\ (m = n - 1 \/ m < n - 1)
  OBVIOUS

(* An action of an earlier wave comes before one of a later wave.           *)
LEMMA LaidInOrder ==
  ASSUME NEW as, NEW B, NEW L, NEW b, NEW c, NEW a, Laid(as, B, L, b, c, a),
         NEW m \in 1..Len(c), NEW n \in 1..Len(c), m < n, NEW i \in c[m], NEW j \in c[n]
  PROVE  i < j
  <1> DEFINE N == Len(Groups(as))
             C == Len(c)
  <1>0. LaidAs(as, B, L, b, c, a, N, C)
    BY LaidFacts
  <1>3. m \in 1..C /\ n \in 1..C /\ m < n
    OBVIOUS
  <1> HIDE DEF N, C
  <1>1. /\ N \in Nat /\ L \in Nat /\ Edges(b, N, L) /\ C \in Nat /\ a \in [0..C -> 0..N]
        /\ \A k \in 1..C : a[k - 1] < a[k] /\ c[k] = Span(b, a[k - 1], a[k])
    BY <1>0 DEF LaidAs
  <1>2. \A k, l \in 0..C : k < l => a[k] < a[l]
    BY LaidRises DEF C
  <1>4. /\ m - 1 \in 0..C /\ n - 1 \in 0..C /\ m \in 0..C /\ n \in 0..C
        /\ (m = n - 1 \/ m < n - 1)
    BY ONLY <1>1, <1>3, TwoOf
  <1>5. /\ a[m - 1] \in 0..N /\ a[m] \in 0..N /\ a[n - 1] \in 0..N /\ a[n] \in 0..N
        /\ (a[m] = a[n - 1] \/ a[m] < a[n - 1])
    BY <1>1, <1>2, <1>4
  <1> DEFINE u == b[a[m - 1]]
             v == b[a[m]]
             x == b[a[n - 1]]
             y == b[a[n]]
  <1>6. /\ u \in Nat /\ v \in Nat /\ x \in Nat /\ y \in Nat /\ (v = x \/ v < x)
        /\ c[m] = u..(v - 1) /\ c[n] = x..(y - 1)
    <2>1. u \in 1..(L + 1) /\ v \in 1..(L + 1) /\ x \in 1..(L + 1) /\ y \in 1..(L + 1) /\ (v = x \/ v < x)
      BY <1>1, <1>5 DEF Edges
    <2>2. c[m] = u..(v - 1) /\ c[n] = x..(y - 1)
      BY <1>1, <1>3 DEF Span
    <2>3. L \in Nat
      BY <1>1
    <2> HIDE DEF u, v, x, y
    <2>4. u \in Nat /\ v \in Nat /\ x \in Nat /\ y \in Nat
      BY ONLY <2>1, <2>3
    <2> QED
      BY ONLY <2>1, <2>2, <2>4
  <1>7. i \in u..(v - 1) /\ j \in x..(y - 1)
    BY <1>6
  <1> HIDE DEF u, v, x, y
  <1> QED
    BY <1>6, <1>7

(* No wave has only a part of a group.                                      *)
LEMMA LaidWhole ==
  ASSUME NEW as, NEW B, NEW L, NEW b, NEW c, NEW a, Laid(as, B, L, b, c, a),
         NEW n \in 1..Len(c), NEW k \in 1..Len(Groups(as))
  PROVE  Groups(as)[k] \cap c[n] \in {{}, Groups(as)[k]}
  <1> DEFINE N == Len(Groups(as))
             C == Len(c)
             G == Groups(as)[k]
  <1>0. LaidAs(as, B, L, b, c, a, N, C)
    BY LaidFacts
  <1>3. n \in 1..C /\ k \in 1..N
    OBVIOUS
  <1> HIDE DEF N, C
  <1>1. /\ N \in Nat /\ L \in Nat /\ Edges(b, N, L) /\ C \in Nat /\ a \in [0..C -> 0..N]
        /\ c[n] = Span(b, a[n - 1], a[n])
        /\ Setting(as, B, Groups(as), b, N, L)
    BY <1>0, <1>3 DEF LaidAs
  <1>2. G = Span(b, k - 1, k)
    BY <1>1, <1>3 DEF Setting, G
  <1> HIDE DEF G
  <1>4. /\ n - 1 \in 0..C /\ n \in 0..C /\ k - 1 \in 0..N /\ k \in 0..N
    BY <1>1, <1>3
  <1> DEFINE e == a[n - 1]
             f == a[n]
             h == k - 1
  <1>5. e \in 0..N /\ f \in 0..N /\ h \in 0..N /\ k \in 0..N /\ c[n] = Span(b, e, f) /\ G = Span(b, h, k)
    BY <1>1, <1>2, <1>4
  <1>6. k = h + 1 /\ k \in Nat
    BY <1>3, <1>1
  <1> HIDE DEF e, f, h
  <1> DEFINE u == b[e]
             v == b[f]
             x == b[h]
             y == b[k]
  <1>7. /\ u \in 1..(L + 1) /\ v \in 1..(L + 1) /\ x \in 1..(L + 1) /\ y \in 1..(L + 1)
        /\ c[n] = u..(v - 1) /\ G = x..(y - 1)
        /\ (k < e => y < u) /\ (k = e => y = u) /\ (f < h => v < x) /\ (f = h => v = x)
        /\ (e < h => u < x) /\ (e = h => u = x) /\ (k < f => y < v) /\ (k = f => y = v)
    BY <1>1, <1>5 DEF Edges, Span
  <1>8. \/ k <= e
        \/ f <= h
        \/ e <= h /\ k <= f
    BY <1>1, <1>5, <1>6
  <1>9. y <= u \/ v <= x \/ (u <= x /\ y <= v)
    <2>1. /\ (k <= e => k < e \/ k = e) /\ (f <= h => f < h \/ f = h)
          /\ (e <= h => e < h \/ e = h) /\ (k <= f => k < f \/ k = f)
      BY <1>1, <1>5
    <2> HIDE DEF u, v, x, y
    <2> QED
      BY <1>1, <1>7, <1>8, <2>1
  <1> HIDE DEF u, v, x, y
  <1>10. (x..(y - 1)) \cap (u..(v - 1)) \in {{}, x..(y - 1)}
    <2>1. CASE y <= u \/ v <= x
      <3>1. (x..(y - 1)) \cap (u..(v - 1)) = {}
        BY <1>1, <1>7, <2>1
      <3> QED
        BY <3>1
    <2>2. CASE u <= x /\ y <= v
      <3>1. x..(y - 1) \subseteq u..(v - 1)
        BY <1>1, <1>7, <2>2
      <3> QED
        BY <3>1
    <2> QED
      BY <1>9, <2>1, <2>2
  <1>11. G \cap c[n] \in {{}, G}
    BY <1>7, <1>10
  <1> QED
    BY <1>11 DEF G

(* A wave that is more than a budget is one group.                          *)
LEMMA LaidAlone ==
  ASSUME NEW as, NEW B, NEW L, NEW b, NEW c, NEW a, Laid(as, B, L, b, c, a),
         NEW n \in 1..Len(c), Isolated(as, c[n], B)
  PROVE  \E k \in 1..Len(Groups(as)) : c[n] = Groups(as)[k]
  <1> DEFINE N == Len(Groups(as))
             C == Len(c)
             k == a[n]
  <1>0. LaidAs(as, B, L, b, c, a, N, C)
    BY LaidFacts
  <1>2. n \in 1..C
    OBVIOUS
  <1> HIDE DEF N, C
  <1>1. /\ N \in Nat /\ C \in Nat /\ a \in [0..C -> 0..N]
        /\ c[n] = Span(b, a[n - 1], a[n]) /\ a[n] = a[n - 1] + 1
        /\ Setting(as, B, Groups(as), b, N, L)
    BY <1>0, <1>2 DEF LaidAs
  <1>3. n - 1 \in 0..C /\ n \in 0..C
    BY <1>1, <1>2
  <1>4. k \in 1..N /\ a[n - 1] = k - 1
    <2> DEFINE j == a[n - 1]
    <2>1. j \in 0..N /\ k \in 0..N /\ k = j + 1
      BY <1>1, <1>3
    <2> HIDE DEF j, k
    <2>2. k \in 1..N /\ j = k - 1
      BY <1>1, <2>1
    <2> QED
      BY <2>2 DEF j
  <1>5. c[n] = Span(b, k - 1, k)
    BY <1>1, <1>4
  <1> HIDE DEF k
  <1>6. Groups(as)[k] = Span(b, k - 1, k)
    BY <1>1, <1>4 DEF Setting
  <1> QED
    BY <1>4, <1>5, <1>6 DEF N
-----------------------------------------------------------------------------
(* No cut has fewer waves. *)

Between(as, x, y) == UNION {Groups(as)[n] : n \in (x + 1)..y}

LEMMA SpanBetween ==
  ASSUME NEW as, NEW B, NEW b, NEW N, NEW L, Setting(as, B, Groups(as), b, N, L),
         NEW x \in 0..N, NEW y \in 0..N, x < y
  PROVE  Span(b, x, y) \subseteq Between(as, x, y) /\ Between(as, x, y) \subseteq 1..L
  <1>1. N \in Nat /\ L \in Nat /\ Edges(b, N, L)
    BY SettingNumbers
  <1>2. \A n \in 1..N : Groups(as)[n] = Span(b, n - 1, n)
    BY DEF Setting
  <1>3. \A n \in 1..N : n - 1 \in 0..N /\ n \in 0..N
    BY <1>1
  <1>4. \A n \in (x + 1)..y : n \in 1..N
    BY <1>1
  <1>5. Between(as, x, y) \subseteq 1..L
    <2>1. ASSUME NEW n \in (x + 1)..y PROVE Groups(as)[n] \in SUBSET (1..L)
      <3>1. Groups(as)[n] = Span(b, n - 1, n) /\ n - 1 \in 0..N /\ n \in 0..N
        BY <1>2, <1>3, <1>4
      <3>2. Span(b, n - 1, n) \in SUBSET (1..L)
        BY <1>1, <3>1, SpanIs
      <3> QED
        BY <3>1, <3>2
    <2> QED
      BY <2>1 DEF Between
  <1>6. ASSUME NEW i \in Span(b, x, y)
        PROVE  i \in Between(as, x, y)
    <2> DEFINE S == {n \in 0..N : i < b[n]}
    <2>0. i \in b[x]..(b[y] - 1) /\ b[x] \in 1..(L + 1) /\ b[y] \in 1..(L + 1)
      BY <1>1 DEF Span, Edges
    <2>1. y \in S /\ i \in Nat /\ i >= b[x]
      <3> DEFINE u == b[x]
                 v == b[y]
      <3>1. i \in u..(v - 1) /\ u \in 1..(L + 1) /\ v \in 1..(L + 1)
        BY <2>0
      <3> HIDE DEF u, v
      <3>2. i \in Nat /\ i >= u /\ i < v
        BY <1>1, <3>1
      <3> QED
        BY <3>2 DEF u, v
    <2>2. S \in SUBSET Nat
      BY <1>1
    <2>3. \E n \in S : \A m \in S : n <= m
      BY <2>1, <2>2, NatMin
    <2>4. PICK n \in S : \A m \in S : n <= m
      BY <2>3
    <2>5. n \in 0..N /\ i < b[n] /\ n <= y
      BY <2>1, <2>4
    <2>6. n > x
      <3>1. CASE n <= x
        <4>1. n = x \/ n < x
          BY <1>1, <2>5, <3>1
        <4>2. b[n] = b[x] \/ b[n] < b[x]
          BY <1>1, <2>5, <4>1 DEF Edges
        <4> DEFINE u == b[x]
                   v == b[n]
        <4>3. u \in 1..(L + 1) /\ v \in 1..(L + 1) /\ i < v /\ i >= u /\ (v = u \/ v < u)
          BY <1>1, <2>1, <2>5, <4>2 DEF Edges
        <4> HIDE DEF u, v
        <4> QED
          BY <1>1, <2>1, <4>3
      <3> QED
        BY <1>1, <2>5, <3>1
    <2>7. n \in (x + 1)..y /\ n - 1 \in 0..N /\ ~(n <= n - 1) /\ n \in 1..N
      BY <1>1, <2>5, <2>6
    <2>8. ~(i < b[n - 1]) /\ b[n - 1] \in 1..(L + 1) /\ b[n] \in 1..(L + 1)
      BY <1>1, <2>4, <2>5, <2>7 DEF Edges
    <2>9. i \in Groups(as)[n]
      <3> DEFINE u == b[n - 1]
                 v == b[n]
      <3>1. Groups(as)[n] = u..(v - 1)
        BY <1>2, <2>7 DEF Span
      <3>2. i < v /\ ~(i < u) /\ u \in 1..(L + 1) /\ v \in 1..(L + 1)
        BY <2>5, <2>8
      <3> HIDE DEF u, v
      <3>3. i \in u..(v - 1)
        BY <1>1, <2>1, <3>2
      <3> QED
        BY <3>1, <3>3
    <2> QED
      BY <2>7, <2>9 DEF Between
  <1> QED
    BY <1>5, <1>6

(* The bounds C between groups of some other cut into waves that fit.       *)
Fitting(as, B, N, C) ==
  /\ C \in SUBSET (0..N) /\ 0 \in C /\ N \in C
  /\ \A x, y \in C : x < y /\ (\A z \in C : ~(x < z /\ z < y)) =>
       ~Isolated(as, Between(as, x, y), B) \/ y = x + 1

LEMMA LaidCrossed ==
  ASSUME NEW as, NEW B, NEW L, NEW b, NEW c, NEW a, Laid(as, B, L, b, c, a),
         NEW C, Fitting(as, B, Len(Groups(as)), C), NEW k \in 1..Len(c)
  PROVE  \E x \in C : a[k - 1] < x /\ x <= a[k]
  <1> DEFINE N == Len(Groups(as))
             M == Len(c)
             e == a[k - 1]
             f == a[k]
  <1>0. LaidAs(as, B, L, b, c, a, N, M)
    BY LaidFacts
  <1>1. /\ C \in SUBSET (0..N) /\ 0 \in C /\ N \in C
        /\ \A x, y \in C : x < y /\ (\A z \in C : ~(x < z /\ z < y)) =>
            ~Isolated(as, Between(as, x, y), B) \/ y = x + 1
    BY DEF Fitting
  <1>2. k \in 1..M
    OBVIOUS
  <1> HIDE DEF N, M
  <1>3. M \in Nat /\ N \in Nat /\ L \in Nat /\ Setting(as, B, Groups(as), b, N, L) /\ a \in [0..M -> 0..N]
    BY <1>0 DEF LaidAs
  <1>4. e < f /\ (f < N => Isolated(as, Span(b, e, f + 1), B))
    BY <1>0, <1>2 DEF LaidAs
  <1>5. e \in 0..N /\ f \in 0..N
    <2>1. k - 1 \in 0..M /\ k \in 0..M
      BY <1>2, <1>3
    <2> QED
      BY <1>3, <2>1
  <1> SUFFICES ASSUME \A x \in C : ~(e < x /\ x <= f) PROVE FALSE
    OBVIOUS
  <1> HIDE DEF e, f
  <1>6. f < N
    <2>1. f = N => e < N /\ N <= f
      BY <1>3, <1>4
    <2> QED
      BY <1>1, <1>3, <1>5, <2>1
  <1> DEFINE S == {i \in C : i <= e}
             R == {i \in C : i > f}
  <1>7. PICK x \in S : \A i \in S : i <= x
    <2>1. 0 \in S
      BY <1>1, <1>3, <1>5
    <2>2. S \in SUBSET (0..N) /\ S # {}
      BY <1>1, <2>1
    <2> HIDE DEF S
    <2>3. \E x \in S : \A i \in S : i <= x
      BY <1>3, <2>2, LargestOf
    <2> QED
      BY <2>3
  <1>8. PICK y \in R : \A i \in R : y <= i
    <2>1. N \in R
      BY <1>1, <1>3, <1>5, <1>6
    <2>2. R \in SUBSET Nat /\ R # {}
      BY <1>1, <1>3, <2>1
    <2> HIDE DEF R
    <2>3. \E y \in R : \A i \in R : y <= i
      BY <2>2, NatMin
    <2> QED
      BY <2>3
  <1>9. x \in C /\ y \in C /\ x \in 0..N /\ y \in 0..N /\ x <= e /\ y > f
    BY <1>1, <1>7, <1>8
  <1>10. x < y /\ y # x + 1 /\ f + 1 <= y /\ f + 1 \in 0..N /\ e <= f + 1
    BY <1>3, <1>4, <1>5, <1>9
  <1>11. ASSUME NEW z \in C, x < z, z < y PROVE FALSE
    <2>1. z \in 0..N
      BY <1>1
    <2>2. z <= e \/ z > f
      BY <1>3, <1>5, <2>1
    <2>3. z <= e => z <= x
      BY <1>7
    <2>4. z > f => y <= z
      BY <1>8
    <2> QED
      BY <1>3, <1>9, <1>11, <2>1, <2>2, <2>3, <2>4
  <1>12. ~Isolated(as, Between(as, x, y), B)
    BY <1>1, <1>9, <1>10, <1>11
  <1>13. Isolated(as, Span(b, x, y), B)
    BY <1>3, <1>4, <1>5, <1>6, <1>9, <1>10, IsolatedSpan
  <1>14. Span(b, x, y) \subseteq Between(as, x, y) /\ Between(as, x, y) \subseteq 1..L
    BY <1>3, <1>9, <1>10, SpanBetween
  <1>15. HasSizes(as, L) /\ HasBudgets(B)
    BY <1>3, SettingNumbers
  <1>16. Isolated(as, Between(as, x, y), B)
    <2> DEFINE G == Span(b, x, y)
               H == Between(as, x, y)
    <2>1. G \in SUBSET H /\ H \in SUBSET (1..L) /\ Isolated(as, G, B) /\ L \in Nat
      BY <1>3, <1>13, <1>14
    <2> HIDE DEF G, H
    <2>2. Isolated(as, H, B)
      BY ONLY <1>15, <2>1, IsolatedMore
    <2> QED
      BY <2>2 DEF H
  <1> QED
    BY <1>12, <1>16

LEMMA LaidFewest ==
  ASSUME NEW as, NEW B, NEW L, NEW b, NEW c, NEW a, Laid(as, B, L, b, c, a),
         NEW C, Fitting(as, B, Len(Groups(as)), C)
  PROVE  Len(c) + 1 <= Cardinality(C)
  <1> DEFINE N == Len(Groups(as))
             M == Len(c)
             D == 0..M
             f == [k \in D |-> IF k = 0 THEN 0 ELSE CHOOSE x \in C : a[k - 1] < x /\ x <= a[k]]
  <1>0. LaidAs(as, B, L, b, c, a, N, M)
    BY LaidFacts
  <1>1. C \in SUBSET (0..N) /\ 0 \in C
    BY DEF Fitting
  <1>2. \A k \in 1..M : \E x \in C : a[k - 1] < x /\ x <= a[k]
    BY LaidCrossed
  <1>3. \A k, l \in D : k < l => a[k] < a[l]
    BY LaidRises
  <1>4. M + 1 = Len(c) + 1
    OBVIOUS
  <1> HIDE DEF N, M
  <1>5. M \in Nat /\ N \in Nat /\ a \in [D -> 0..N] /\ a[0] = 0
    BY <1>0 DEF LaidAs
  <1>6. f[0] = 0 /\ f[0] \in C /\ \A k \in 1..M : f[k] \in C /\ a[k - 1] < f[k] /\ f[k] <= a[k]
    <2>1. 0 \in D /\ \A k \in 1..M : k \in D /\ k # 0
      BY <1>5
    <2>2. f[0] = 0
      BY <2>1
    <2>3. ASSUME NEW k \in 1..M PROVE f[k] \in C /\ a[k - 1] < f[k] /\ f[k] <= a[k]
      <3>1. f[k] = CHOOSE x \in C : a[k - 1] < x /\ x <= a[k]
        BY <2>1
      <3>2. \E x \in C : a[k - 1] < x /\ x <= a[k]
        BY <1>2
      <3> HIDE DEF f
      <3> QED
        BY <3>1, <3>2
    <2> QED
      BY <1>1, <2>2, <2>3
  <1>7. \A k \in D : k = 0 \/ k \in 1..M
    BY <1>5
  <1>8. DOMAIN f = D /\ f = [k \in D |-> f[k]]
    OBVIOUS
  <1> HIDE DEF f
  <1>9. \A k \in D : f[k] \in C /\ f[k] \in Nat /\ f[k] <= a[k]
    <2>1. ASSUME NEW k \in D PROVE f[k] \in C /\ f[k] <= a[k]
      <3>1. CASE k = 0
        BY <3>1, <1>5, <1>6
      <3>2. CASE k # 0
        BY <3>2, <1>6, <1>7
      <3> QED
        BY <3>1, <3>2
    <2>2. \A x \in C : x \in Nat
      BY <1>1, <1>5
    <2> QED
      BY <2>1, <2>2
  <1>10. ASSUME NEW k \in D, NEW l \in D, k < l PROVE f[k] < f[l]
    <2>1. l \in 1..M /\ l - 1 \in D /\ (k = l - 1 \/ k < l - 1)
      BY <1>5, <1>10
    <2>2. a[l - 1] < f[l] /\ f[k] <= a[k] /\ (a[k] = a[l - 1] \/ a[k] < a[l - 1])
      BY <1>3, <1>6, <1>9, <2>1
    <2> DEFINE u == a[k]
               v == a[l - 1]
    <2>3. u \in 0..N /\ v \in 0..N /\ f[k] \in Nat /\ f[l] \in Nat /\ v < f[l] /\ f[k] <= u /\ (u = v \/ u < v)
      BY <1>5, <1>9, <2>1, <2>2
    <2> HIDE DEF u, v
    <2> QED
      BY <1>5, <2>3
  <1>11. f \in Injection(D, C)
    <2>1. f \in [D -> C]
      BY <1>8, <1>9
    <2>2. ASSUME NEW k \in D, NEW l \in D, f[k] = f[l] PROVE k = l
      <3>1. k = l \/ k < l \/ l < k
        BY <1>5
      <3> QED
        BY <1>9, <1>10, <2>2, <3>1
    <2> QED
      BY <2>1, <2>2 DEF Injection, IsInjective
  <1>12. IsFiniteSet(C) /\ IsFiniteSet(D) /\ Cardinality(D) = M + 1
    <2>1. IsFiniteSet(0..N) /\ IsFiniteSet(D) /\ Cardinality(D) = M + 1
      BY <1>5, FS_Interval
    <2> QED
      BY <1>1, <2>1, FS_Subset
  <1>13. Cardinality(D) <= Cardinality(C)
    <2> HIDE DEF D
    <2> QED
      BY <1>11, <1>12, FS_Injection
  <1> QED
    BY <1>4, <1>12, <1>13
=============================================================================
