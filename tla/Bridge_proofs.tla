--------------------------- MODULE Bridge_proofs ----------------------------
(***************************************************************************)
(* What Bridge promises for every size and number of segments, however the *)
(* bytes are cut on the wire: each direction implements SegmentChannel.    *)
(***************************************************************************)
EXTENDS Bridge, SequenceTheorems, WellFoundedInduction, TLAPS

(* Among numbers there is a least one. *)
LEMMA LeastNumber ==
  ASSUME NEW T, T \subseteq Nat, T # {}
  PROVE  \E x \in T : \A y \in T : x <= y
<1>1. PICK x \in T : \A y \in T : ~(<<y, x>> \in OpToRel(<, Nat))
  BY NatLessThanWellFounded, WFMin
<1>2. \A y \in T : ~(y < x)
  BY <1>1 DEF OpToRel
<1> QED
  BY <1>2

(* What holds for a number when it holds for all smaller ones holds for all. *)
LEMMA Induction ==
  ASSUME NEW P, \A n \in Nat : (\A m \in 0..(n - 1) : m \in P) => n \in P
  PROVE  Nat \subseteq P
<1> SUFFICES ASSUME Nat \ P # {} PROVE FALSE
  OBVIOUS
<1>1. PICK x \in Nat \ P : \A y \in Nat \ P : x <= y
  BY LeastNumber
<1>2. \A m \in 0..(x - 1) : m \in P
  BY <1>1
<1> QED
  BY <1>1, <1>2

(* A loop that works on something smaller each time computes a function:   *)
(* as long as b is among more it goes on with step[b].                     *)
IsLoop(S, T, more, step, size, base, comb) ==
    /\ more \in SUBSET S /\ step \in [S -> S] /\ size \in [S -> Nat]
    /\ base \in [S -> T] /\ comb \in [S -> [T -> T]]
    /\ \A b \in more : size[step[b]] < size[b]

LEMMA Recursion ==
  ASSUME NEW S, NEW T, NEW more, NEW step, NEW size, NEW base, NEW comb,
         IsLoop(S, T, more, step, size, base, comb)
  PROVE  \E f \in [S -> T] :
            \A b \in S : f[b] = IF b \in more THEN comb[b][f[step[b]]] ELSE base[b]
<1> USE DEF IsLoop
<1> DEFINE Part(n) == {b \in S : size[b] < n}
           Good(n) == {f \in [Part(n) -> T] :
                         \A b \in Part(n) :
                            f[b] = IF b \in more THEN comb[b][f[step[b]]] ELSE base[b]}
<1>1. \A b \in S, n \in Nat : b \in Part(n) /\ b \in more => step[b] \in Part(n)
  OBVIOUS
<1>2. ASSUME NEW m \in Nat, NEW n \in Nat, NEW f \in Good(m), NEW g \in Good(n),
             NEW b \in Part(m) \cap Part(n)
      PROVE  f[b] = g[b]
  <2> DEFINE P == {k \in Nat : \A c \in Part(m) \cap Part(n) :
                                  size[c] = k => f[c] = g[c]}
  <2>1. ASSUME NEW k \in Nat, \A j \in 0..(k - 1) : j \in P,
               NEW c \in Part(m) \cap Part(n), size[c] = k
        PROVE  f[c] = g[c]
    <3>1. CASE c \in more
      <4>1. step[c] \in Part(m) \cap Part(n) /\ size[step[c]] \in 0..(k - 1)
        BY <1>1, <2>1, <3>1
      <4>2. f[step[c]] = g[step[c]]
        BY <2>1, <4>1
      <4>3. f[c] = comb[c][f[step[c]]] /\ g[c] = comb[c][g[step[c]]]
        BY <3>1
      <4> QED
        BY <4>2, <4>3
    <3>2. CASE c \notin more
      BY <3>2
    <3> QED
      BY <3>1, <3>2
  <2>2. \A k \in Nat : (\A j \in 0..(k - 1) : j \in P) => k \in P
    BY <2>1
  <2> HIDE DEF P
  <2>3. Nat \subseteq P
    BY <2>2, Induction
  <2> QED
    BY <2>3 DEF P
<1>3. ASSUME NEW n \in Nat PROVE Good(n) # {}
  <2> DEFINE P == {k \in Nat : Good(k) # {}}
  <2>1. ASSUME NEW k \in Nat, \A j \in 0..(k - 1) : j \in P
        PROVE  Good(k) # {}
    <3>1. CASE k = 0
      <4>1. Part(0) = {}
        OBVIOUS
      <4> DEFINE h == [b \in Part(0) |-> base[b]]
      <4>2. h \in [Part(0) -> T] /\ \A b \in Part(0) : FALSE
        BY <4>1
      <4> HIDE DEF h
      <4>3. h \in Good(0)
        BY <4>2
      <4> HIDE DEF Good
      <4> QED
        BY <3>1, <4>3
    <3>2. CASE k # 0
      <4>1. k - 1 \in 0..(k - 1)
        BY <3>2
      <4>2. PICK f \in Good(k - 1) : TRUE
        BY <2>1, <4>1
      <4> DEFINE h == [b \in Part(k) |->
                         IF b \in more THEN comb[b][f[step[b]]] ELSE base[b]]
      <4>3. \A b \in Part(k) : b \in more => step[b] \in Part(k - 1)
        BY <3>2
      <4>4. \A b \in Part(k - 1) : b \in Part(k) /\ h[b] = f[b]
        BY <4>2
      <4>5. h \in [Part(k) -> T]
        BY <4>2, <4>3
      <4>6. \A b \in Part(k) :
               h[b] = IF b \in more THEN comb[b][h[step[b]]] ELSE base[b]
        BY <4>3, <4>4
      <4> QED
        BY <4>5, <4>6
    <3> QED
      BY <3>1, <3>2
  <2>2. \A k \in Nat : (\A j \in 0..(k - 1) : j \in P) => k \in P
    BY <2>1
  <2> HIDE DEF P
  <2>3. Nat \subseteq P
    BY <2>2, Induction
  <2> QED
    BY <2>3 DEF P
<1> DEFINE G(n) == CHOOSE f \in Good(n) : TRUE
           F    == [b \in S |-> G(size[b] + 1)[b]]
<1>4. \A n \in Nat : G(n) \in Good(n)
  BY <1>3
<1> HIDE DEF G
<1>5. ASSUME NEW b \in S
      PROVE  /\ b \in Part(size[b] + 1)
             /\ G(size[b] + 1) \in Good(size[b] + 1)
             /\ G(size[b] + 1)[b] \in T
  <2>1. size[b] + 1 \in Nat /\ b \in Part(size[b] + 1)
    OBVIOUS
  <2>2. G(size[b] + 1) \in Good(size[b] + 1)
    BY <1>4, <2>1
  <2>3. G(size[b] + 1) \in [Part(size[b] + 1) -> T]
    BY <2>2
  <2> QED
    BY <2>1, <2>2, <2>3
<1>6. F \in [S -> T]
  BY <1>5
<1>7. ASSUME NEW b \in S
      PROVE  F[b] = IF b \in more THEN comb[b][F[step[b]]] ELSE base[b]
  <2> DEFINE f == G(size[b] + 1)
  <2>1. f \in Good(size[b] + 1) /\ F[b] = f[b] /\ b \in Part(size[b] + 1)
    BY <1>5
  <2> HIDE DEF f, F
  <2>2. f[b] = IF b \in more THEN comb[b][f[step[b]]] ELSE base[b]
    BY <2>1
  <2>3. ASSUME b \in more PROVE F[step[b]] = f[step[b]]
    <3> DEFINE c == step[b]
               g == G(size[c] + 1)
    <3>1. c \in S /\ size[b] + 1 \in Nat /\ size[c] + 1 \in Nat
      BY <2>3
    <3>2. c \in Part(size[b] + 1) /\ c \in Part(size[c] + 1)
      BY <1>1, <1>5, <2>1, <2>3, <3>1
    <3>3. g \in Good(size[c] + 1) /\ F[c] = g[c]
      BY <1>5, <3>1 DEF F
    <3> HIDE DEF g, c, Part, Good
    <3>4. F[c] = f[c]
      BY <1>2, <2>1, <3>1, <3>2, <3>3
    <3> QED
      BY <3>4 DEF c
  <2> QED
    BY <2>1, <2>2, <2>3
<1> QED
  BY <1>6, <1>7

(* The elements after the m-th up to the n-th. *)
LEMMA Section ==
  ASSUME NEW S, NEW s \in Seq(S), NEW m \in Nat, NEW n \in Nat, m <= n, n <= Len(s)
  PROVE  /\ SubSeq(s, m + 1, n) \in Seq(S) /\ Len(SubSeq(s, m + 1, n)) = n - m
         /\ \A k \in 1..(n - m) : SubSeq(s, m + 1, n)[k] = s[m + k]
<1>1. m + 1 \in Int /\ n \in Int /\ \A k \in (m + 1)..n : s[k] \in S
  OBVIOUS
<1>2. /\ SubSeq(s, m + 1, n) \in Seq(S)
      /\ Len(SubSeq(s, m + 1, n)) = IF m + 1 <= n THEN n - (m + 1) + 1 ELSE 0
      /\ \A k \in 1..(n - (m + 1) + 1) : SubSeq(s, m + 1, n)[k] = s[(m + 1) + k - 1]
  BY <1>1, SubSeqProperties
<1>3. \A k \in 1..(n - m) : k \in 1..(n - (m + 1) + 1) /\ (m + 1) + k - 1 = m + k
  OBVIOUS
<1> QED
  BY <1>2, <1>3

(* Two sequences, one after the other. *)
LEMMA Joined ==
  ASSUME NEW S, NEW s \in Seq(S), NEW t \in Seq(S)
  PROVE  /\ s \o t \in Seq(S) /\ Len(s \o t) = Len(s) + Len(t)
         /\ \A k \in 1..Len(s) : (s \o t)[k] = s[k]
         /\ \A k \in 1..Len(t) : (s \o t)[Len(s) + k] = t[k]
<1>1. Len(s) \in Nat /\ Len(t) \in Nat
  OBVIOUS
<1>2. /\ s \o t \in Seq(S) /\ Len(s \o t) = Len(s) + Len(t)
      /\ \A k \in 1..(Len(s) + Len(t)) :
            (s \o t)[k] = IF k <= Len(s) THEN s[k] ELSE t[k - Len(s)]
  BY ConcatProperties
<1> QED
  BY <1>1, <1>2
-----------------------------------------------------------------------------
(* What the read loop cuts off the front of its buffer. *)

LEMMA SplitType ==
  ASSUME NEW b \in Seq(Byte), Complete(b)
  PROVE  /\ b[1] \in Byte /\ Len(b) >= 1
         /\ Frame(b) \in HDR..Len(b)
         /\ SubSeq(b, HDR + 1, Frame(b)) \in Seq(Byte)
         /\ Split(b) \in Seq(Byte) /\ Len(Split(b)) = Len(b) - Frame(b)
         /\ \A k \in 1..Len(Split(b)) : Split(b)[k] = b[Frame(b) + k]
<1>1. HDR \in Nat /\ HDR > 0 /\ Size \in Seq(Nat)
  BY BridgeAssumption
<1>2. Len(b) \in Nat /\ Len(b) >= HDR /\ Len(b) >= Frame(b)
  BY DEF Complete
<1>3. b[1] \in Byte /\ Len(b) >= 1
  BY <1>1, <1>2
<1>4. Size[b[1][1]] \in Nat
  BY <1>1, <1>3 DEF Byte, InSegs
<1>5. Frame(b) \in HDR..Len(b)
  BY <1>1, <1>2, <1>4 DEF Frame
<1>6. SubSeq(b, HDR + 1, Frame(b)) \in Seq(Byte)
  BY <1>1, <1>2, <1>5
<1>7. /\ Split(b) \in Seq(Byte) /\ Len(Split(b)) = Len(b) - Frame(b)
      /\ \A k \in 1..Len(Split(b)) : Split(b)[k] = b[Frame(b) + k]
  <2> DEFINE n == Frame(b)
  <2>1. n \in Nat /\ n <= Len(b) /\ Split(b) = SubSeq(b, n + 1, Len(b))
    BY <1>1, <1>5 DEF Split
  <2> HIDE DEF n
  <2>2. /\ SubSeq(b, n + 1, Len(b)) \in Seq(Byte)
        /\ Len(SubSeq(b, n + 1, Len(b))) = Len(b) - n
        /\ \A k \in 1..(Len(b) - n) : SubSeq(b, n + 1, Len(b))[k] = b[n + k]
    BY <1>2, <2>1
  <2> QED
    BY <2>1, <2>2 DEF n
<1> QED
  BY <1>3, <1>5, <1>6, <1>7

(* The two functions of the loop are what their definitions say. *)
LEMMA FramedDef ==
  \A b \in Seq(Byte) :
     Framed[b] = IF Complete(b)
                 THEN <<SubSeq(b, HDR + 1, Frame(b))>> \o Framed[Split(b)]
                 ELSE <<>>
<1> DEFINE S == Seq(Byte)
           T == Seq(Seq(Byte))
           more == {b \in S : Complete(b)}
           step == [b \in S |-> IF b \in more THEN Split(b) ELSE b]
           size == [b \in S |-> Len(b)]
           base == [b \in S |-> <<>>]
           first(b) == <<SubSeq(b, HDR + 1, Frame(b))>>
           comb == [b \in S |-> [x \in T |-> IF b \in more THEN first(b) \o x ELSE x]]
<1>1. \A b \in more : Split(b) \in S /\ Len(Split(b)) < Len(b) /\ first(b) \in T
  <2> SUFFICES ASSUME NEW b \in S, Complete(b)
               PROVE  Split(b) \in S /\ Len(Split(b)) < Len(b) /\ first(b) \in T
    OBVIOUS
  <2>1. HDR \in Nat \ {0} /\ Len(b) \in Nat
    BY BridgeAssumption
  <2> QED
    BY <2>1, SplitType
<1> HIDE DEF more, first
<1>2. step \in [S -> S]
  BY <1>1
<1>3. size \in [S -> Nat] /\ base \in [S -> T]
  OBVIOUS
<1>4. comb \in [S -> [T -> T]]
  <2>1. ASSUME NEW b \in S, NEW x \in T
        PROVE  (IF b \in more THEN first(b) \o x ELSE x) \in T
    BY <1>1
  <2> QED
    BY <2>1
<1>5. \A b \in more : size[step[b]] < size[b]
  BY <1>1 DEF more
<1> HIDE DEF T
<1>6. PICK f \in [S -> T] :
         \A b \in S : f[b] = IF b \in more THEN comb[b][f[step[b]]] ELSE base[b]
  <2>1. more \in SUBSET S
    BY DEF more
  <2> HIDE DEF S, step, size, base, comb
  <2>2. IsLoop(S, T, more, step, size, base, comb)
    BY <1>2, <1>3, <1>4, <1>5, <2>1 DEF IsLoop
  <2> QED
    BY <2>2, Recursion
<1>7. \A b \in S : f[b] = IF Complete(b) THEN first(b) \o f[Split(b)] ELSE <<>>
  <2>1. ASSUME NEW b \in S, b \in more PROVE f[b] = first(b) \o f[Split(b)]
    BY <1>1, <1>6, <2>1
  <2>2. ASSUME NEW b \in S, b \notin more PROVE f[b] = <<>>
    BY <1>6, <2>2
  <2> QED
    BY <2>1, <2>2 DEF more
<1>8. f = [b \in S |-> IF Complete(b) THEN first(b) \o f[Split(b)] ELSE <<>>]
  BY <1>6, <1>7
<1>9. Framed = [b \in S |-> IF Complete(b) THEN first(b) \o Framed[Split(b)] ELSE <<>>]
  BY <1>8 DEF Framed, first
<1> QED
  BY <1>9 DEF first

LEMMA RestDef ==
  \A b \in Seq(Byte) : Rest[b] = IF Complete(b) THEN Rest[Split(b)] ELSE b
<1> DEFINE S == Seq(Byte)
           more == {b \in S : Complete(b)}
           step == [b \in S |-> IF b \in more THEN Split(b) ELSE b]
           size == [b \in S |-> Len(b)]
           base == [b \in S |-> b]
           comb == [b \in S |-> [x \in S |-> x]]
<1>1. \A b \in more : Split(b) \in S /\ Len(Split(b)) < Len(b)
  <2> SUFFICES ASSUME NEW b \in S, Complete(b)
               PROVE  Split(b) \in S /\ Len(Split(b)) < Len(b)
    OBVIOUS
  <2>1. HDR \in Nat \ {0} /\ Len(b) \in Nat
    BY BridgeAssumption
  <2> QED
    BY <2>1, SplitType
<1> HIDE DEF more
<1>2. step \in [S -> S]
  BY <1>1
<1>3. size \in [S -> Nat] /\ base \in [S -> S]
  OBVIOUS
<1>4. comb \in [S -> [S -> S]]
  OBVIOUS
<1>5. \A b \in more : size[step[b]] < size[b]
  BY <1>1 DEF more
<1>6. PICK f \in [S -> S] :
         \A b \in S : f[b] = IF b \in more THEN comb[b][f[step[b]]] ELSE base[b]
  <2>1. more \in SUBSET S
    BY DEF more
  <2> HIDE DEF S, step, size, base, comb
  <2>2. IsLoop(S, S, more, step, size, base, comb)
    BY <1>2, <1>3, <1>4, <1>5, <2>1 DEF IsLoop
  <2> QED
    BY <2>2, Recursion
<1>7. \A b \in S : f[b] = IF Complete(b) THEN f[Split(b)] ELSE b
  <2>1. ASSUME NEW b \in S, b \in more PROVE f[b] = f[Split(b)]
    <3>1. f[b] = comb[b][f[step[b]]] /\ step[b] = Split(b) /\ step[b] \in S
      BY <1>1, <1>6, <2>1
    <3>2. f[step[b]] \in S
      BY <1>6, <3>1
    <3> QED
      BY <3>1, <3>2
  <2>2. ASSUME NEW b \in S, b \notin more PROVE f[b] = b
    BY <1>6, <2>2
  <2> QED
    BY <2>1, <2>2 DEF more
<1>8. f = [b \in S |-> IF Complete(b) THEN f[Split(b)] ELSE b]
  BY <1>6, <1>7
<1>9. Rest = [b \in S |-> IF Complete(b) THEN Rest[Split(b)] ELSE b]
  BY <1>8 DEF Rest
<1> QED
  BY <1>9
-----------------------------------------------------------------------------
(* The bytes of the i-th segment and those after it, up to the end of the  *)
(* n-th: each byte is followed by the next one.                            *)
After(x) ==
    IF x[2] < HDR + Size[x[1]] THEN <<x[1], x[2] + 1>> ELSE <<x[1] + 1, 1>>

Runs(b, i, n) ==
    /\ i \in 1..(n + 1)
    /\ \A k \in 1..Len(b) : b[k] \in (1..n) \X Nat
    /\ \A k \in 1..(Len(b) - 1) : b[k + 1] = After(b[k])
    /\ IF b = <<>> THEN i = n + 1
                   ELSE b[1] = <<i, 1>> /\ b[Len(b)] = <<n, HDR + Size[n]>>

(* They begin with all bytes of the i-th. *)
LEMMA RunsBytes ==
  ASSUME NEW b \in Seq(Byte), NEW i, NEW n \in 0..InSegs, Runs(b, i, n), b # <<>>
  PROVE  /\ i \in 1..n /\ Size[i] \in Nat
         /\ Len(b) >= HDR + Size[i]
         /\ \A k \in 1..(HDR + Size[i]) : b[k] = <<i, k>>
<1>1. HDR \in Nat /\ HDR > 0 /\ Size \in Seq(Nat) /\ Len(b) \in Nat /\ Len(b) > 0
      /\ n \in Nat /\ n <= Len(Size)
  BY BridgeAssumption DEF InSegs
<1>2. i \in 1..n /\ Size[i] \in Nat
  BY <1>1 DEF Runs
<1> DEFINE F == HDR + Size[i]
           P == {k \in Nat : k \in 1..Len(b) /\ k <= F => b[k] = <<i, k>>}
<1>3. F \in Nat /\ F > 0
  BY <1>1, <1>2
<1>4. ASSUME NEW k \in Nat, \A j \in 0..(k - 1) : j \in P, k \in 1..Len(b), k <= F
      PROVE  b[k] = <<i, k>>
  <2>1. CASE k = 1
    BY <2>1 DEF Runs
  <2>2. CASE k # 1
    <3> DEFINE j == k - 1
    <3>1. j \in Nat /\ j \in 1..Len(b) /\ j < F /\ j \in 1..(Len(b) - 1) /\ j + 1 = k
      BY <1>1, <1>3, <1>4, <2>2
    <3>2. b[j] = <<i, j>>
      <4>1. j \in 0..(k - 1)
        BY <3>1
      <4>2. j \in P
        BY <1>4, <4>1
      <4> HIDE DEF j, F
      <4> QED
        BY <1>3, <3>1, <4>2
    <3>3. After(b[j]) = <<i, j + 1>>
      BY <3>1, <3>2 DEF After
    <3> HIDE DEF j
    <3>4. b[j + 1] = After(b[j])
      BY <3>1 DEF Runs
    <3> QED
      BY <3>1, <3>3, <3>4
  <2> QED
    BY <2>1, <2>2
<1>5. Nat \subseteq P
  <2>1. \A k \in Nat : (\A j \in 0..(k - 1) : j \in P) => k \in P
    BY <1>4
  <2> HIDE DEF P
  <2> QED
    BY <2>1, Induction
<1>6. Len(b) >= F
  <2> SUFFICES ASSUME Len(b) < F PROVE FALSE
    BY <1>1, <1>3
  <2>1. b[Len(b)] = <<i, Len(b)>>
    <3>1. Len(b) \in P
      BY <1>1, <1>5
    <3> QED
      BY <1>1, <1>3, <3>1
  <2>2. b[Len(b)] = <<n, HDR + Size[n]>>
    BY DEF Runs
  <2> QED
    BY <1>3, <2>1, <2>2
<1>7. \A k \in 1..F : b[k] = <<i, k>>
  BY <1>1, <1>3, <1>5, <1>6
<1> QED
  BY <1>2, <1>6, <1>7

(* Without it they begin with those of the next. *)
LEMMA RunsSplit ==
  ASSUME NEW b \in Seq(Byte), NEW i, NEW n \in 0..InSegs, Runs(b, i, n), b # <<>>,
         NEW r \in Seq(Byte), Len(r) = Len(b) - (HDR + Size[i]),
         \A k \in 1..Len(r) : r[k] = b[HDR + Size[i] + k]
  PROVE  Runs(r, i + 1, n)
<1> DEFINE F == HDR + Size[i]
<1>1. /\ i \in 1..n /\ F \in Nat /\ F > 0 /\ Len(b) \in Nat /\ Len(b) >= F
      /\ b[F] = <<i, F>> /\ n \in Nat
  <2>1. /\ i \in 1..n /\ Size[i] \in Nat /\ Len(b) >= F
        /\ \A k \in 1..F : b[k] = <<i, k>>
    BY RunsBytes
  <2>2. InSegs \in Nat /\ n \in Nat /\ i \in 1..InSegs
    <3>1. InSegs \in Nat
      BY BridgeAssumption DEF InSegs
    <3> QED
      BY <2>1, <3>1
  <2>3. F \in Nat /\ F > 0 /\ Len(b) \in Nat
    BY <2>1, BridgeAssumption
  <2> QED
    BY <2>1, <2>2, <2>3
<1>2. /\ Len(r) \in Nat /\ Len(r) = Len(b) - F
      /\ \A k \in 1..Len(r) : r[k] = b[F + k]
  OBVIOUS
<1> HIDE DEF F
<1>3. \A k \in 1..Len(r) : k \in Nat /\ F + k \in 1..Len(b)
  BY <1>1, <1>2
<1>4. \A k \in 1..Len(r) : r[k] \in (1..n) \X Nat
  BY <1>2, <1>3 DEF Runs
<1>5. \A k \in 1..(Len(r) - 1) : r[k + 1] = After(r[k])
  <2> SUFFICES ASSUME NEW k \in 1..(Len(r) - 1) PROVE r[k + 1] = After(r[k])
    OBVIOUS
  <2>1. k \in 1..Len(r) /\ k + 1 \in 1..Len(r) /\ k \in Nat
    BY <1>2
  <2>2. F + k \in 1..(Len(b) - 1) /\ F + (k + 1) = (F + k) + 1
    BY <1>1, <1>2, <2>1
  <2>3. r[k] = b[F + k] /\ r[k + 1] = b[(F + k) + 1]
    BY <1>2, <2>1, <2>2
  <2> QED
    BY <2>2, <2>3 DEF Runs
<1>6. CASE r = <<>>
  <2>1. Len(b) = F
    BY <1>1, <1>2, <1>6
  <2>2. <<i, F>> = <<n, HDR + Size[n]>>
    BY <1>1, <2>1 DEF Runs
  <2> QED
    BY <1>1, <1>4, <1>5, <1>6, <2>2 DEF Runs
<1>7. CASE r # <<>>
  <2>1. Len(r) \in Nat /\ Len(r) > 0
    BY <1>7
  <2>2. 1 \in 1..Len(r) /\ Len(r) \in 1..Len(r) /\ F + Len(r) = Len(b)
        /\ F \in 1..(Len(b) - 1)
    BY <1>1, <1>2, <2>1
  <2>3. r[Len(r)] = b[Len(b)] /\ r[1] = b[F + 1]
    BY <1>2, <2>2
  <2>4. b[F + 1] = After(b[F])
    BY <2>2 DEF Runs
  <2>5. After(b[F]) = <<i + 1, 1>>
    BY <1>1 DEF After, F
  <2>6. b[Len(b)] = <<n, HDR + Size[n]>>
    BY DEF Runs
  <2> QED
    BY <1>1, <1>4, <1>5, <1>7, <2>3, <2>4, <2>5, <2>6 DEF Runs
<1> QED
  BY <1>6, <1>7

LEMMA BytesType ==
  ASSUME NEW i \in 1..InSegs
  PROVE  /\ Size[i] \in Nat
         /\ Bytes(i) \in Seq(Byte) /\ Len(Bytes(i)) = HDR + Size[i]
         /\ \A k \in 1..(HDR + Size[i]) : Bytes(i)[k] = <<i, k>>
         /\ Payload(i) \in Payloads /\ Payload(i) \in Seq(Byte)
         /\ Len(Payload(i)) = Size[i]
         /\ \A k \in 1..Size[i] : Payload(i)[k] = <<i, HDR + k>>
<1>1. HDR \in Nat /\ HDR > 0 /\ Size[i] \in Nat
  BY BridgeAssumption DEF InSegs
<1> DEFINE F == HDR + Size[i]
<1>2. F \in Nat /\ F >= HDR /\ F - HDR = Size[i] /\ Bytes(i) = [k \in 1..F |-> <<i, k>>]
  BY <1>1 DEF Bytes
<1> HIDE DEF F
<1>3. /\ Bytes(i) \in Seq(Byte) /\ Len(Bytes(i)) = F
      /\ \A k \in 1..F : Bytes(i)[k] = <<i, k>>
  BY <1>2 DEF Byte
<1> DEFINE p == SubSeq(Bytes(i), HDR + 1, F)
<1>4. /\ p \in Seq(Byte) /\ Len(p) = Size[i]
      /\ \A k \in 1..Size[i] : p[k] = Bytes(i)[HDR + k]
  <2> DEFINE b == Bytes(i)
  <2> HIDE DEF b
  <2>1. b \in Seq(Byte) /\ HDR <= F /\ F <= Len(b)
    BY <1>2, <1>3 DEF b
  <2>2. /\ SubSeq(b, HDR + 1, F) \in Seq(Byte) /\ Len(SubSeq(b, HDR + 1, F)) = F - HDR
        /\ \A k \in 1..(F - HDR) : SubSeq(b, HDR + 1, F)[k] = b[HDR + k]
    BY <1>1, <1>2, <2>1, Section
  <2> QED
    BY <1>2, <2>2 DEF b
<1>5. \A k \in 1..Size[i] : HDR + k \in 1..F
  BY <1>1, <1>2
<1>6. Payload(i) = p
  BY DEF Payload, F
<1> QED
  BY <1>1, <1>3, <1>4, <1>5, <1>6 DEF F, Payloads

(* What the loop frames are the segments the bytes belong to, one after    *)
(* the other, and the rest goes on with the segment after them.            *)
Cut(d, e, i, n) ==
    /\ Framed[d] \in Seq(Payloads) /\ Rest[d] \in Seq(Byte)
    /\ \A j \in 1..Len(Framed[d]) :
          i + j - 1 <= n /\ Framed[d][j] = Payload(i + j - 1)
    /\ Runs(Rest[d] \o e, i + Len(Framed[d]), n)

LEMMA CutOnce ==
  ASSUME NEW d \in Seq(Byte), NEW e \in Seq(Byte), NEW i, NEW n \in 0..InSegs,
         Runs(d \o e, i, n), Complete(d)
  PROVE  /\ i \in 1..n
         /\ SubSeq(d, HDR + 1, Frame(d)) = Payload(i)
         /\ Runs(Split(d) \o e, i + 1, n)
<1> DEFINE b == d \o e
           s == Split(d)
           F == HDR + Size[i]
<1>1. /\ b \in Seq(Byte) /\ Len(b) = Len(d) + Len(e)
      /\ \A k \in 1..Len(d) : b[k] = d[k]
      /\ \A k \in 1..Len(e) : b[Len(d) + k] = e[k]
  BY Joined
<1>2. /\ d[1] \in Byte /\ Len(d) >= 1 /\ Frame(d) \in HDR..Len(d)
      /\ s \in Seq(Byte) /\ Len(s) = Len(d) - Frame(d)
      /\ \A k \in 1..Len(s) : s[k] = d[Frame(d) + k]
  BY SplitType
<1> HIDE DEF b, s, F
<1>3. b # <<>> /\ Len(d) \in Nat /\ Len(e) \in Nat /\ n \in Nat /\ Runs(b, i, n)
      /\ HDR \in Nat /\ HDR > 0
  BY <1>1, <1>2, BridgeAssumption DEF b, InSegs
<1>4. /\ i \in 1..n /\ i \in 1..InSegs /\ Size[i] \in Nat
      /\ \A k \in 1..F : b[k] = <<i, k>>
  <2>1. /\ i \in 1..n /\ Size[i] \in Nat
        /\ \A k \in 1..F : b[k] = <<i, k>>
    BY <1>1, <1>3, RunsBytes DEF F
  <2> QED
    BY <2>1, BridgeAssumption DEF InSegs
<1>5. F \in Nat /\ F >= HDR /\ Frame(d) = F
  <2>1. d[1] = <<i, 1>>
    BY <1>1, <1>2, <1>3 DEF Runs
  <2> QED
    BY <1>3, <1>4, <2>1 DEF Frame, F
<1>6. SubSeq(d, HDR + 1, F) = Payload(i)
  <2> DEFINE q == SubSeq(d, HDR + 1, F)
  <2>1. F <= Len(d) /\ F - HDR = Size[i]
    BY <1>2, <1>3, <1>4, <1>5 DEF F
  <2>2. /\ q \in Seq(Byte) /\ Len(q) = Size[i]
        /\ \A k \in 1..Size[i] : q[k] = d[HDR + k]
    BY <1>3, <1>5, <2>1, Section
  <2>3. \A k \in 1..Size[i] : HDR + k \in 1..F /\ HDR + k \in 1..Len(d)
    BY <1>3, <1>4, <1>5, <2>1
  <2>4. \A k \in 1..Size[i] : q[k] = <<i, HDR + k>>
    BY <1>1, <1>4, <2>2, <2>3
  <2>5. /\ Payload(i) \in Seq(Byte) /\ Len(Payload(i)) = Size[i]
        /\ \A k \in 1..Size[i] : Payload(i)[k] = <<i, HDR + k>>
    BY <1>4, BytesType
  <2> HIDE DEF q
  <2>6. q = Payload(i)
    BY <2>2, <2>4, <2>5, SeqEqual
  <2> QED
    BY <2>6 DEF q
<1>7. Runs(s \o e, i + 1, n)
  <2> DEFINE r == s \o e
  <2>1. /\ r \in Seq(Byte) /\ Len(r) = Len(s) + Len(e)
        /\ \A k \in 1..Len(s) : r[k] = s[k]
        /\ \A k \in 1..Len(e) : r[Len(s) + k] = e[k]
    BY <1>2, Joined
  <2> HIDE DEF r
  <2>2. Len(s) = Len(d) - F /\ Len(s) \in Nat /\ Len(r) = Len(b) - F
    BY <1>1, <1>2, <1>3, <1>5, <2>1
  <2>3. ASSUME NEW k \in 1..Len(r) PROVE r[k] = b[F + k]
    <3>1. CASE k \in 1..Len(s)
      <4>1. r[k] = d[F + k] /\ F + k \in 1..Len(d)
        BY <1>2, <1>3, <1>5, <2>1, <2>2, <3>1
      <4> QED
        BY <1>1, <4>1
    <3>2. CASE k \notin 1..Len(s)
      <4>1. PICK j \in 1..Len(e) : k = Len(s) + j
        <5>1. k - Len(s) \in 1..Len(e) /\ k = Len(s) + (k - Len(s))
          BY <1>3, <2>1, <2>2, <3>2
        <5> QED
          BY <5>1
      <4>2. r[k] = e[j] /\ F + k = Len(d) + j
        BY <1>3, <1>5, <2>1, <2>2, <4>1
      <4> QED
        BY <1>1, <4>2
    <3> QED
      BY <3>1, <3>2
  <2>4. Runs(r, i + 1, n)
    BY <1>1, <1>3, <2>1, <2>2, <2>3, RunsSplit DEF F
  <2> QED
    BY <2>4 DEF r
<1> QED
  BY <1>4, <1>5, <1>6, <1>7 DEF s

LEMMA CutAll ==
  ASSUME NEW e \in Seq(Byte), NEW n \in 0..InSegs
  PROVE  \A d \in Seq(Byte), i \in Nat : Runs(d \o e, i, n) => Cut(d, e, i, n)
<1> DEFINE P == {k \in Nat : \A d \in Seq(Byte), i \in Nat :
                                Len(d) = k /\ Runs(d \o e, i, n) => Cut(d, e, i, n)}
<1>1. ASSUME NEW k \in Nat, \A j \in 0..(k - 1) : j \in P,
             NEW d \in Seq(Byte), NEW i \in Nat, Len(d) = k, Runs(d \o e, i, n)
      PROVE  Cut(d, e, i, n)
  <2>1. CASE ~Complete(d)
    <3>1. Framed[d] = <<>> /\ Rest[d] = d
      BY <2>1, FramedDef, RestDef
    <3>2. <<>> \in Seq(Payloads) /\ Len(<<>>) = 0 /\ i + 0 = i
      OBVIOUS
    <3> QED
      BY <1>1, <3>1, <3>2 DEF Cut
  <2>2. CASE Complete(d)
    <3> DEFINE q == SubSeq(d, HDR + 1, Frame(d))
               s == Split(d)
    <3>1. Framed[d] = <<q>> \o Framed[s] /\ Rest[d] = Rest[s]
      BY <2>2, FramedDef, RestDef
    <3>2. i \in 1..n /\ q = Payload(i) /\ Runs(s \o e, i + 1, n)
      BY <1>1, <2>2, CutOnce
    <3>3. s \in Seq(Byte) /\ Len(s) \in 0..(k - 1)
      <4>1. HDR \in Nat \ {0} /\ Len(d) \in Nat
        BY BridgeAssumption
      <4> QED
        BY <1>1, <2>2, <4>1, SplitType
    <3> HIDE DEF q, s
    <3>4. Len(s) \in P
      BY <1>1, <3>3
    <3>5. Cut(s, e, i + 1, n)
      BY <3>2, <3>3, <3>4
    <3>6. q \in Payloads /\ n \in Nat
      BY <3>2, BridgeAssumption DEF Payloads, InSegs
    <3> DEFINE f == Framed[s]
    <3>7. /\ f \in Seq(Payloads) /\ Len(f) \in Nat
          /\ \A j \in 1..Len(f) : (i + 1) + j - 1 <= n /\ f[j] = Payload((i + 1) + j - 1)
          /\ Runs(Rest[s] \o e, (i + 1) + Len(f), n) /\ Rest[s] \in Seq(Byte)
      <4>1. f \in Seq(Payloads) /\ Rest[s] \in Seq(Byte)
        BY <3>5 DEF Cut
      <4>2. Len(f) \in Nat
        BY <4>1
      <4>3. \A j \in 1..Len(f) : (i + 1) + j - 1 <= n /\ f[j] = Payload((i + 1) + j - 1)
        BY <3>5 DEF Cut
      <4>4. Runs(Rest[s] \o e, (i + 1) + Len(f), n)
        BY <3>5 DEF Cut
      <4> QED
        BY <4>1, <4>2, <4>3, <4>4, Zenon
    <3> HIDE DEF f
    <3> DEFINE g == <<q>> \o f
    <3>8. /\ <<q>> \in Seq(Payloads) /\ Len(<<q>>) = 1 /\ <<q>>[1] = q
      BY <3>6
    <3>9. /\ g \in Seq(Payloads) /\ Len(g) = 1 + Len(f) /\ g[1] = q
          /\ \A j \in 1..Len(f) : g[1 + j] = f[j]
      BY <3>7, <3>8, Joined
    <3> HIDE DEF g
    <3>10. ASSUME NEW j \in 1..Len(g)
           PROVE  i + j - 1 <= n /\ g[j] = Payload(i + j - 1)
      <4>1. CASE j = 1
        BY <3>2, <3>9, <4>1
      <4>2. CASE j # 1
        <5>1. j - 1 \in 1..Len(f) /\ 1 + (j - 1) = j
              /\ (i + 1) + (j - 1) - 1 = i + j - 1
          BY <3>7, <3>9, <4>2
        <5> QED
          BY <3>7, <3>9, <5>1
      <4> QED
        BY <4>1, <4>2
    <3>11. i + Len(g) = (i + 1) + Len(f)
      BY <3>7, <3>9
    <3>12. Framed[d] = g /\ Rest[d] = Rest[s]
      BY <3>1 DEF f, g
    <3> QED
      BY <3>7, <3>9, <3>10, <3>11, <3>12 DEF Cut
  <2> QED
    BY <2>1, <2>2
<1>2. Nat \subseteq P
  <2>1. \A k \in Nat : (\A j \in 0..(k - 1) : j \in P) => k \in P
    BY <1>1
  <2> HIDE DEF P
  <2> QED
    BY <2>1, Induction
<1> SUFFICES ASSUME NEW d \in Seq(Byte), NEW i \in Nat, Runs(d \o e, i, n)
             PROVE  Cut(d, e, i, n)
  OBVIOUS
<1>3. Len(d) \in P
  BY <1>2
<1> QED
  BY <1>3

(* The next segment follows. *)
LEMMA RunsAppend ==
  ASSUME NEW b \in Seq(Byte), NEW i, NEW n \in 0..(InSegs - 1), Runs(b, i, n)
  PROVE  Runs(b \o Bytes(n + 1), i, n + 1)
<1> DEFINE c == Bytes(n + 1)
           r == b \o c
           F == HDR + Size[n + 1]
<1>1. n \in Nat /\ n + 1 \in 1..InSegs /\ n \in 0..InSegs /\ HDR \in Nat /\ HDR > 0
  BY BridgeAssumption DEF InSegs
<1>2. /\ Size[n + 1] \in Nat /\ c \in Seq(Byte) /\ Len(c) = F
      /\ \A k \in 1..F : c[k] = <<n + 1, k>>
  BY <1>1, BytesType
<1> HIDE DEF c
<1>3. /\ r \in Seq(Byte) /\ Len(r) = Len(b) + Len(c)
      /\ \A k \in 1..Len(b) : r[k] = b[k]
      /\ \A k \in 1..Len(c) : r[Len(b) + k] = c[k]
  <2>1. c \in Seq(Byte)
    BY <1>2
  <2> QED
    BY <2>1, Joined
<1>4. F \in Nat /\ F > 0 /\ F = HDR + Size[n + 1] /\ Len(b) \in Nat
  BY <1>1, <1>2
<1> HIDE DEF r, F
<1>5. \A k \in 1..F : r[Len(b) + k] = <<n + 1, k>>
  BY <1>2, <1>3
<1>6. ASSUME NEW k \in 1..Len(r), k \notin 1..Len(b)
      PROVE  \E j \in 1..F : k = Len(b) + j
  <2>1. k - Len(b) \in 1..F /\ k = Len(b) + (k - Len(b))
    BY <1>2, <1>3, <1>4, <1>6
  <2> QED
    BY <2>1
<1>7. ASSUME NEW k \in 1..Len(r) PROVE r[k] \in (1..(n + 1)) \X Nat
  <2>1. CASE k \in 1..Len(b)
    BY <1>1, <1>3, <2>1 DEF Runs
  <2>2. CASE k \notin 1..Len(b)
    <3>1. PICK j \in 1..F : k = Len(b) + j
      BY <1>6, <2>2
    <3>2. r[k] = <<n + 1, j>> /\ j \in Nat
      BY <1>4, <1>5, <3>1
    <3> QED
      BY <1>1, <3>2
  <2> QED
    BY <2>1, <2>2
<1>8. ASSUME NEW k \in 1..(Len(r) - 1) PROVE r[k + 1] = After(r[k])
  <2>1. CASE k \in 1..(Len(b) - 1)
    <3>1. k \in 1..Len(b) /\ k + 1 \in 1..Len(b)
      BY <1>4, <2>1
    <3> QED
      BY <1>3, <2>1, <3>1 DEF Runs
  <2>2. CASE k = Len(b)
    <3>1. b # <<>> /\ k \in 1..Len(b) /\ 1 \in 1..F
      BY <1>4, <2>2
    <3>2. r[k] = <<n, HDR + Size[n]>> /\ r[k + 1] = <<n + 1, 1>>
      BY <1>3, <1>5, <2>2, <3>1 DEF Runs
    <3>3. n \in 1..InSegs
      BY <1>1, <3>1 DEF Runs
    <3>4. HDR + Size[n] \in Nat
      BY <1>1, <3>3, BytesType
    <3> QED
      BY <3>2, <3>4 DEF After
  <2>3. CASE k > Len(b)
    <3>1. k \in 1..Len(r) /\ k \notin 1..Len(b)
      BY <1>2, <1>3, <1>4, <2>3
    <3>2. PICK j \in 1..F : k = Len(b) + j
      BY <1>6, <3>1
    <3>3. j + 1 \in 1..F /\ k + 1 = Len(b) + (j + 1) /\ j < F
      BY <1>2, <1>3, <1>4, <3>2
    <3>4. r[k] = <<n + 1, j>> /\ r[k + 1] = <<n + 1, j + 1>>
      BY <1>5, <3>2, <3>3
    <3> QED
      BY <1>4, <3>3, <3>4 DEF After
  <2> QED
    BY <1>4, <2>1, <2>2, <2>3
<1>9. r # <<>> /\ i \in 1..((n + 1) + 1)
  BY <1>1, <1>2, <1>3, <1>4 DEF Runs
<1>10. r[Len(r)] = <<n + 1, HDR + Size[n + 1]>>
  BY <1>2, <1>3, <1>4, <1>5
<1>11. r[1] = <<i, 1>>
  <2>1. CASE b = <<>>
    <3>1. Len(b) = 0 /\ 1 \in 1..F /\ Len(b) + 1 = 1 /\ i = n + 1
      BY <1>4, <2>1 DEF Runs
    <3> QED
      BY <1>5, <3>1
  <2>2. CASE b # <<>>
    BY <1>3, <1>4, <2>2 DEF Runs
  <2> QED
    BY <2>1, <2>2
<1>12. Runs(r, i, n + 1)
  BY <1>7, <1>8, <1>9, <1>10, <1>11 DEF Runs
<1> QED
  BY <1>12 DEF r, c
-----------------------------------------------------------------------------
(* The inductive invariant of the direction from the server. *)

InTyped ==
    /\ sent \in Seq(1..InSegs) /\ \A k \in 1..Len(sent) : sent[k] = k
    /\ wire \in Seq(Byte) /\ rbuf \in Seq(Byte) /\ buffer \in Seq(Byte)
    /\ got \in Seq(Payloads) /\ rq \in Seq(Payloads \cup {Poison})
    /\ cancelled \in BOOLEAN

(* The bytes in the bridge, in the transport and on the wire, with those a *)
(* reset discarded, are the next segments up to the last one sent: while   *)
(* the stream is not cancelled, those that were not put on the queue yet.  *)
Underway ==
    \E lost \in Seq(Byte), i \in Nat :
        /\ Runs((buffer \o rbuf) \o (wire \o lost), i, Len(sent))
        /\ peer # "rst" => lost = <<>>
        /\ ~cancelled => i = Len(got) + Len(rq) + 1

(* The queue holds the segments that follow those the reader took. *)
Queued ==
    /\ ~cancelled => \A j \in 1..Len(rq) : rq[j] # Poison
    /\ reader # "stopped" =>
          \A j \in 1..Len(rq) :
              rq[j] # Poison => /\ Len(got) + j <= Len(sent)
                                /\ rq[j] = Payload(Len(got) + j)

InInv == InTyped /\ Underway /\ Queued

inVars == <<wire, sent, peer, rbuf, buffer, rq, cancelled, reader, got>>

InStep ==
    \/ PeerSend \/ PeerFin \/ PeerReset \/ DataReceived
    \/ ReadSegment \/ ReadSegmentTimeout \/ ReadSegmentAgain
    \/ ReadChunk \/ ReadEof \/ ReadError \/ CancelStream

(* The other steps leave this direction alone. *)
LEMMA InOrNot == [Next]_vars => InStep \/ UNCHANGED inVars
<1> USE DEF net, tcp, loops, stream, ends
<1> SUFFICES ASSUME [Next]_vars, ~InStep PROVE UNCHANGED inVars
  OBVIOUS
<1>1. CASE Environment
  BY <1>1 DEF Environment, InStep, WriteSegment, WriteLongSegment, inVars
<1>2. CASE EventLoop
  BY <1>2 DEF EventLoop, InStep, EofReceived, ResetSeen, ConnectionLost, inVars
<1>3. CASE Reader
  BY <1>3 DEF Reader, InStep
<1>4. CASE ReadLoop
  BY <1>4 DEF ReadLoop, InStep, ReadLoopStart, inVars
<1>5. CASE WriteLoop
  BY <1>5 DEF WriteLoop, WriteTimeout, WriteDropped, WriteSent, WriteFails,
              WriteRefused, DrainReturns, DrainRaises, WriteRetry, inVars
<1>6. CASE Disconnect
  BY <1>6 DEF Disconnect, InStep, StopBridge, CloseConnection, WaitClosed, inVars
<1>7. CASE UNCHANGED vars
  BY <1>7 DEF vars, inVars
<1> QED
  BY <1>1, <1>2, <1>3, <1>4, <1>5, <1>6, <1>7 DEF Next

LEMMA SentSoFar ==
  ASSUME InTyped
  PROVE  Len(sent) \in 0..InSegs
<1>1. Len(sent) \in Nat /\ InSegs \in Nat
  BY BridgeAssumption DEF InTyped, InSegs
<1>2. CASE Len(sent) = 0
  BY <1>1, <1>2
<1>3. CASE Len(sent) # 0
  <2>1. Len(sent) \in 1..Len(sent)
    BY <1>1, <1>3
  <2>2. sent[Len(sent)] = Len(sent)
    BY <2>1 DEF InTyped
  <2>3. sent[Len(sent)] \in 1..InSegs
    <3>1. sent \in Seq(1..InSegs)
      BY DEF InTyped
    <3> QED
      BY <1>1, <2>1, <3>1, ElementOfSeq
  <2> QED
    BY <1>1, <2>2, <2>3
<1> QED
  BY <1>2, <1>3

LEMMA PeerSendKeeps == ASSUME InInv, PeerSend PROVE InInv'
<1> DEFINE n == Len(sent)
           c == Bytes(n + 1)
<1>1. /\ peer = "up" /\ n \in 0..(InSegs - 1) /\ n \in Nat /\ n + 1 \in 1..InSegs
      /\ peer' = peer /\ sent' = Append(sent, n + 1) /\ wire' = wire \o c
      /\ rbuf' = rbuf /\ buffer' = buffer /\ rq' = rq /\ cancelled' = cancelled
      /\ reader' = reader /\ got' = got
  <2>1. InSegs \in Nat /\ n \in 0..InSegs
    BY SentSoFar, BridgeAssumption DEF InInv, InSegs
  <2> QED
    BY <2>1 DEF PeerSend, tcp, loops, stream, ends
<1>2. c \in Seq(Byte)
  BY <1>1, BytesType
<1>3. wire' \in Seq(Byte)
  BY <1>1, <1>2 DEF InInv, InTyped
<1>4. sent \in Seq(1..InSegs) /\ \A k \in 1..n : sent[k] = k
  BY DEF InInv, InTyped
<1>5. /\ sent' \in Seq(1..InSegs) /\ Len(sent') = n + 1
      /\ \A k \in 1..(n + 1) : sent'[k] = k
  BY <1>1, <1>4
<1>6. InTyped'
  BY <1>1, <1>3, <1>5 DEF InInv, InTyped
<1>7. Underway'
  <2>1. PICK i \in Nat :
          /\ Runs((buffer \o rbuf) \o (wire \o <<>>), i, n)
          /\ ~cancelled => i = Len(got) + Len(rq) + 1
    BY <1>1 DEF InInv, Underway
  <2> DEFINE b == buffer \o rbuf
  <2>2. b \in Seq(Byte) /\ wire \in Seq(Byte)
    BY DEF InInv, InTyped
  <2> HIDE DEF b, c, n
  <2>3. wire \o <<>> = wire /\ wire' \o <<>> = wire'
    BY <1>3, <2>2, ConcatEmptySeq
  <2>4. Runs(b \o wire, i, n) /\ b \o wire \in Seq(Byte)
    BY <2>1, <2>2, <2>3 DEF b
  <2>5. Runs((b \o wire) \o c, i, n + 1)
    BY <1>1, <2>4, RunsAppend DEF c
  <2>6. (b \o wire) \o c = b \o (wire \o c)
    BY <1>2, <2>2, ConcatAssociative
  <2>7. Runs((buffer' \o rbuf') \o (wire' \o <<>>), i, Len(sent'))
    BY <1>1, <1>5, <2>3, <2>5, <2>6 DEF b
  <2>8. ~cancelled' => i = Len(got') + Len(rq') + 1
    BY <1>1, <2>1
  <2>9. <<>> \in Seq(Byte)
    OBVIOUS
  <2> QED
    BY <2>7, <2>8, <2>9 DEF Underway
<1>8. Queued'
  BY <1>1, <1>5 DEF InInv, Queued
<1> QED
  BY <1>6, <1>7, <1>8 DEF InInv

LEMMA PeerEndsKeeps == ASSUME InInv, PeerFin \/ PeerReset PROVE InInv'
<1>1. /\ sent' = sent /\ rbuf' = rbuf /\ buffer' = buffer /\ rq' = rq
      /\ cancelled' = cancelled /\ reader' = reader /\ got' = got
      /\ \/ peer = "up" /\ peer' = "fin" /\ wire' = wire
         \/ peer' = "rst" /\ wire' = <<>>
  BY DEF PeerFin, PeerReset, tcp, loops, stream, ends
<1>2. InTyped' /\ Queued'
  <2>1. wire' \in Seq(Byte)
    <3>1. wire \in Seq(Byte) /\ <<>> \in Seq(Byte)
      BY DEF InInv, InTyped
    <3> QED
      BY <1>1, <3>1
  <2> QED
    BY <1>1, <2>1 DEF InInv, InTyped, Queued
<1>3. Underway'
  <2>1. PICK lost \in Seq(Byte), i \in Nat :
          /\ Runs((buffer \o rbuf) \o (wire \o lost), i, Len(sent))
          /\ peer # "rst" => lost = <<>>
          /\ ~cancelled => i = Len(got) + Len(rq) + 1
    BY DEF InInv, Underway
  <2>2. CASE peer' = "fin"
    BY <1>1, <2>1, <2>2 DEF Underway
  <2>3. CASE peer' = "rst"
    <3> DEFINE c == wire \o lost
    <3>1. c \in Seq(Byte) /\ <<>> \o c = c
      BY ConcatEmptySeq DEF InInv, InTyped
    <3> HIDE DEF c
    <3>2. Runs((buffer' \o rbuf') \o (wire' \o c), i, Len(sent'))
      BY <1>1, <2>1, <2>3, <3>1 DEF c
    <3> QED
      BY <1>1, <2>1, <2>3, <3>1, <3>2 DEF Underway
  <2> QED
    BY <1>1, <2>2, <2>3
<1> QED
  BY <1>2, <1>3 DEF InInv

(* What moves from one sequence to the other stays where it is in both. *)
Grouped(p, q, a) == (p \o q) \o a = p \o (q \o a)
Moved(p, q, a, b, c) ==
    (p \o (q \o a)) \o (b \o c) = (p \o q) \o ((a \o b) \o c)

LEMMA Grouping ==
  ASSUME NEW S, NEW p \in Seq(S), NEW q \in Seq(S), NEW a \in Seq(S)
  PROVE  Grouped(p, q, a)
  BY ConcatAssociative DEF Grouped

LEMMA Regroup ==
  ASSUME NEW S, NEW p \in Seq(S), NEW q \in Seq(S), NEW a \in Seq(S),
         NEW b \in Seq(S), NEW c \in Seq(S)
  PROVE  Moved(p, q, a, b, c)
<1>1. p \o q \in Seq(S) /\ b \o c \in Seq(S)
  OBVIOUS
<1>2. Grouped(p, q, a) /\ Grouped(a, b, c)
  BY Grouping
<1>3. Grouped(p \o q, a, b \o c)
  BY <1>1, Grouping
<1> QED
  BY <1>2, <1>3 DEF Grouped, Moved

LEMMA DataReceivedKeeps == ASSUME InInv, DataReceived PROVE InInv'
<1>1. PICK n \in 1..Len(wire) :
         /\ rbuf' = rbuf \o SubSeq(wire, 1, n)
         /\ wire' = SubSeq(wire, n + 1, Len(wire))
  BY DEF DataReceived
<1>2. /\ sent' = sent /\ buffer' = buffer /\ rq' = rq /\ peer' = peer
      /\ cancelled' = cancelled /\ reader' = reader /\ got' = got
  BY DEF DataReceived, stream, ends
<1>3. wire \in Seq(Byte) /\ rbuf \in Seq(Byte) /\ buffer \in Seq(Byte) /\ Len(wire) \in Nat
  BY DEF InInv, InTyped
<1> DEFINE a == SubSeq(wire, 1, n)
           b == SubSeq(wire, n + 1, Len(wire))
<1>4. /\ n \in Nat /\ a \in Seq(Byte) /\ Len(a) = n
      /\ \A k \in 1..n : a[k] = wire[k]
  <2>1. 0 \in Nat /\ n \in Nat /\ 0 <= n /\ n <= Len(wire) /\ 0 + 1 = 1 /\ n - 0 = n
    BY <1>3
  <2>2. /\ SubSeq(wire, 0 + 1, n) \in Seq(Byte) /\ Len(SubSeq(wire, 0 + 1, n)) = n - 0
        /\ \A k \in 1..(n - 0) : SubSeq(wire, 0 + 1, n)[k] = wire[0 + k]
    BY <1>3, <2>1, Section
  <2> QED
    BY <2>1, <2>2
<1>5. /\ b \in Seq(Byte) /\ Len(b) = Len(wire) - n
      /\ \A k \in 1..(Len(wire) - n) : b[k] = wire[n + k]
  <2>1. n <= Len(wire)
    BY <1>3
  <2> QED
    BY <1>3, <1>4, <2>1, Section
<1>6. rbuf' = rbuf \o a /\ wire' = b
  BY <1>1
<1> HIDE DEF a, b
<1>7. a \o b = wire
  <2>1. /\ a \o b \in Seq(Byte) /\ Len(a \o b) = n + (Len(wire) - n)
        /\ \A k \in 1..n : (a \o b)[k] = a[k]
        /\ \A k \in 1..Len(b) : (a \o b)[n + k] = b[k]
    <3>1. a \in Seq(Byte) /\ b \in Seq(Byte)
      BY <1>4, <1>5
    <3>2. /\ a \o b \in Seq(Byte) /\ Len(a \o b) = Len(a) + Len(b)
          /\ \A k \in 1..Len(a) : (a \o b)[k] = a[k]
          /\ \A k \in 1..Len(b) : (a \o b)[Len(a) + k] = b[k]
      BY <3>1, Joined
    <3>3. Len(a) = n /\ Len(b) = Len(wire) - n
      BY <1>4, <1>5
    <3> QED
      BY <3>2, <3>3
  <2>2. Len(a \o b) = Len(wire)
    <3>1. n + (Len(wire) - n) = Len(wire)
      BY <1>3, <1>4
    <3> QED
      BY <2>1, <3>1
  <2>3. ASSUME NEW k \in 1..Len(wire) PROVE (a \o b)[k] = wire[k]
    <3>1. CASE k <= n
      <4>1. k \in 1..n
        BY <1>4, <3>1
      <4> QED
        BY <1>4, <2>1, <4>1
    <3>2. CASE ~(k <= n)
      <4>1. k - n \in 1..Len(b) /\ n + (k - n) = k
        BY <1>3, <1>4, <1>5, <3>2
      <4> QED
        BY <1>5, <2>1, <4>1
    <3> QED
      BY <3>1, <3>2
  <2> QED
    BY <1>3, <2>1, <2>2, <2>3, SeqEqual
<1>8. InTyped' /\ Queued'
  <2>1. rbuf' \in Seq(Byte) /\ wire' \in Seq(Byte)
    BY <1>3, <1>4, <1>5, <1>6
  <2> QED
    BY <1>2, <2>1 DEF InInv, InTyped, Queued
<1>9. Underway'
  <2>1. PICK lost \in Seq(Byte), i \in Nat :
          /\ Runs((buffer \o rbuf) \o (wire \o lost), i, Len(sent))
          /\ peer # "rst" => lost = <<>>
          /\ ~cancelled => i = Len(got) + Len(rq) + 1
    BY DEF InInv, Underway
  <2>2. Moved(buffer, rbuf, a, b, lost)
    BY <1>3, <1>4, <1>5, Regroup
  <2>3. (buffer' \o rbuf') \o (wire' \o lost) = (buffer \o rbuf) \o (wire \o lost)
    BY <1>2, <1>6, <1>7, <2>2 DEF Moved
  <2> QED
    BY <1>2, <2>1, <2>3 DEF Underway
<1> QED
  BY <1>8, <1>9 DEF InInv

LEMMA ReaderKeeps ==
  ASSUME InInv, ReadSegment \/ ReadSegmentTimeout \/ ReadSegmentAgain
  PROVE  InInv'
<1>1. /\ sent' = sent /\ wire' = wire /\ peer' = peer /\ rbuf' = rbuf
      /\ buffer' = buffer /\ cancelled' = cancelled
  BY DEF ReadSegment, ReadSegmentTimeout, ReadSegmentAgain, net, tcp, loops, stream
<1>2. \/ reader # "stopped" /\ rq' = rq /\ got' = got
      \/ /\ reader = "get" /\ rq # <<>> /\ rq' = Tail(rq)
         /\ \/ Head(rq) = Poison /\ reader' = "stopped" /\ got' = got
            \/ Head(rq) # Poison /\ reader' = "check" /\ got' = Append(got, Head(rq))
  BY DEF ReadSegment, ReadSegmentTimeout, ReadSegmentAgain, net, tcp, loops, stream
<1>3. /\ rq \in Seq(Payloads \cup {Poison}) /\ got \in Seq(Payloads)
      /\ Len(rq) \in Nat /\ Len(got) \in Nat /\ Len(sent) \in Nat
  BY DEF InInv, InTyped
<1>4. CASE rq' = rq /\ got' = got /\ reader # "stopped"
  BY <1>1, <1>4 DEF InInv, InTyped, Underway, Queued
<1>5. CASE /\ reader = "get" /\ rq # <<>> /\ rq' = Tail(rq)
           /\ \/ Head(rq) = Poison /\ reader' = "stopped" /\ got' = got
              \/ Head(rq) # Poison /\ reader' = "check" /\ got' = Append(got, Head(rq))
  <2> DEFINE T == Payloads \cup {Poison}
  <2>1. /\ Head(rq) = rq[1] /\ Head(rq) \in T /\ Len(rq) > 0
        /\ rq' \in Seq(T) /\ Len(rq') = Len(rq) - 1
        /\ \A k \in 1..Len(rq') : rq'[k] = rq[k + 1] /\ k + 1 \in 1..Len(rq)
    <3> HIDE DEF T
    <3>1. rq \in Seq(T)
      BY <1>3 DEF T
    <3> QED
      BY <1>3, <1>5, <3>1, HeadTailProperties
  <2>2. CASE Head(rq) = Poison
    <3>1. got' = got /\ reader' = "stopped"
      BY <1>5, <2>2
    <3>2. 1 \in 1..Len(rq) /\ rq[1] = Poison
      BY <1>3, <2>1, <2>2
    <3>3. cancelled
      BY <3>2 DEF InInv, InTyped, Queued
    <3> QED
      BY <1>1, <2>1, <3>1, <3>3 DEF InInv, InTyped, Underway, Queued
  <2>3. CASE Head(rq) # Poison
    <3>1. got' = Append(got, Head(rq)) /\ Head(rq) \in Payloads
      <4>1. Head(rq) \in T
        BY <2>1
      <4> QED
        BY <1>5, <2>3, <4>1
    <3>2. got' \in Seq(Payloads) /\ Len(got') = Len(got) + 1
      BY <1>3, <3>1
    <3>3. Len(got') + Len(rq') + 1 = Len(got) + Len(rq) + 1
      BY <1>3, <2>1, <3>2
    <3>4. InTyped' /\ Underway'
      BY <1>1, <2>1, <3>2, <3>3 DEF InInv, InTyped, Underway
    <3>5. \A k \in 1..Len(rq') : Len(got') + k = Len(got) + (k + 1)
      BY <1>3, <2>1, <3>2
    <3>6. Queued'
      BY <1>1, <1>5, <2>1, <3>5 DEF InInv, Queued
    <3> QED
      BY <3>4, <3>6 DEF InInv
  <2> QED
    BY <2>2, <2>3
<1> QED
  BY <1>4, <1>5, <1>2

LEMMA ReadChunkKeeps == ASSUME InInv, ReadChunk PROVE InInv'
<1> DEFINE d == buffer \o rbuf
<1>1. /\ sent' = sent /\ wire' = wire /\ peer' = peer /\ got' = got
      /\ cancelled' = cancelled /\ reader' = reader
      /\ rq' = IF cancelled THEN rq ELSE rq \o Framed[d]
      /\ buffer' = Rest[d] /\ rbuf' = <<>>
  BY DEF ReadChunk, PutRead, net, ends
<1>2. /\ d \in Seq(Byte) /\ wire \in Seq(Byte) /\ <<>> \in Seq(Byte)
      /\ Len(sent) \in 0..InSegs
  BY SentSoFar DEF InInv, InTyped
<1> HIDE DEF d
<1>3. PICK lost \in Seq(Byte), i \in Nat :
        /\ Runs(d \o (wire \o lost), i, Len(sent))
        /\ peer # "rst" => lost = <<>>
        /\ ~cancelled => i = Len(got) + Len(rq) + 1
  BY DEF InInv, Underway, d
<1>4. wire \o lost \in Seq(Byte)
  BY <1>2
<1>5. Cut(d, wire \o lost, i, Len(sent))
  BY <1>2, <1>3, <1>4, CutAll
<1> DEFINE f == Framed[d]
<1>6. f \in Seq(Payloads) /\ Rest[d] \in Seq(Byte)
  BY <1>5 DEF Cut
<1>7. /\ Len(f) \in Nat
      /\ \A j \in 1..Len(f) : i + j - 1 <= Len(sent) /\ f[j] = Payload(i + j - 1)
  BY <1>5, <1>6 DEF Cut
<1>8. Runs(Rest[d] \o (wire \o lost), i + Len(f), Len(sent))
  BY <1>5 DEF Cut
<1> HIDE DEF f
<1>9. /\ rq \in Seq(Payloads \cup {Poison}) /\ Len(rq) \in Nat /\ Len(got) \in Nat
      /\ cancelled \in BOOLEAN
  BY DEF InInv, InTyped
<1>10. ASSUME ~cancelled
       PROVE  /\ rq' \in Seq(Payloads \cup {Poison}) /\ Len(rq') = Len(rq) + Len(f)
              /\ \A k \in 1..Len(rq) : rq'[k] = rq[k]
              /\ \A k \in 1..Len(f) : rq'[Len(rq) + k] = f[k]
  <2> DEFINE T == Payloads \cup {Poison}
  <2>1. rq' = rq \o f /\ rq \in Seq(T) /\ f \in Seq(T)
    BY <1>1, <1>6, <1>9, <1>10 DEF f
  <2> HIDE DEF T
  <2>2. /\ rq \o f \in Seq(T) /\ Len(rq \o f) = Len(rq) + Len(f)
        /\ \A k \in 1..Len(rq) : (rq \o f)[k] = rq[k]
        /\ \A k \in 1..Len(f) : (rq \o f)[Len(rq) + k] = f[k]
    BY <2>1, Joined
  <2> QED
    BY <2>1, <2>2 DEF T
<1>11. InTyped'
  <2>1. rq' \in Seq(Payloads \cup {Poison})
    BY <1>1, <1>9, <1>10
  <2> QED
    BY <1>1, <1>2, <1>6, <2>1 DEF InInv, InTyped
<1>12. Underway'
  <2>1. Rest[d] \o <<>> = Rest[d]
    BY <1>6, ConcatEmptySeq
  <2>2. Runs((buffer' \o rbuf') \o (wire' \o lost), i + Len(f), Len(sent'))
    <3>1. buffer' \o rbuf' = Rest[d] /\ wire' \o lost = wire \o lost
      BY <1>1, <2>1
    <3> QED
      BY <1>1, <1>8, <3>1
  <2>3. ~cancelled' => i + Len(f) = Len(got') + Len(rq') + 1
    <3>1. ~cancelled' => ~cancelled
      BY <1>1
    <3>2. got' = got
      BY <1>1
    <3>3. ~cancelled => i + Len(f) = Len(got) + Len(rq') + 1
      <4>1. ~cancelled => Len(rq') = Len(rq) + Len(f)
        BY <1>10
      <4>2. ~cancelled => i = Len(got) + Len(rq) + 1
        BY <1>3
      <4>3. {i, Len(f), Len(rq), Len(got)} \subseteq Nat
        BY <1>7, <1>9
      <4> QED
        BY <4>1, <4>2, <4>3
    <3> QED
      BY <3>1, <3>2, <3>3
  <2>4. i + Len(f) \in Nat
    BY <1>7
  <2> QED
    BY <1>1, <1>3, <2>2, <2>3, <2>4 DEF Underway
<1>13. Queued'
  <2>1. CASE cancelled
    BY <1>1, <2>1 DEF InInv, Queued
  <2>2. CASE ~cancelled
    <3>1. ASSUME NEW j \in 1..Len(rq')
          PROVE  /\ rq'[j] # Poison
                 /\ reader # "stopped" => /\ Len(got) + j <= Len(sent)
                                          /\ rq'[j] = Payload(Len(got) + j)
      <4>1. CASE j \in 1..Len(rq)
        BY <1>10, <2>2, <4>1 DEF InInv, Queued
      <4>2. CASE j \notin 1..Len(rq)
        <5> DEFINE k == j - Len(rq)
        <5>1. k \in 1..Len(f) /\ j = Len(rq) + k /\ i + k - 1 = Len(got) + j
          BY <1>3, <1>7, <1>9, <1>10, <2>2, <4>2
        <5> HIDE DEF k
        <5>2. rq'[j] = f[k] /\ f[k] \in Payloads
          BY <1>6, <1>10, <2>2, <5>1 DEF f
        <5> QED
          BY <1>7, <5>1, <5>2, BridgeAssumption
      <4> QED
        BY <4>1, <4>2
    <3> QED
      BY <1>1, <3>1 DEF Queued
  <2> QED
    BY <2>1, <2>2
<1> QED
  BY <1>11, <1>12, <1>13 DEF InInv

LEMMA CancelKeeps ==
  ASSUME InInv, ReadEof \/ ReadError \/ CancelStream
  PROVE  InInv'
<1>1. /\ sent' = sent /\ wire' = wire /\ peer' = peer /\ rbuf' = rbuf
      /\ buffer' = buffer /\ reader' = reader /\ got' = got
      /\ cancelled' = TRUE /\ rq' = Append(rq, Poison)
  BY DEF ReadEof, ReadError, CancelStream, Cancel, net, tcp, loops, ends
<1>2. /\ rq \in Seq(Payloads \cup {Poison}) /\ Len(rq) \in Nat
  BY DEF InInv, InTyped
<1>3. /\ rq' \in Seq(Payloads \cup {Poison}) /\ Len(rq') = Len(rq) + 1
      /\ rq'[Len(rq) + 1] = Poison
      /\ \A k \in 1..Len(rq) : rq'[k] = rq[k]
  BY <1>1, <1>2
<1>4. InTyped' /\ Underway'
  BY <1>1, <1>3 DEF InInv, InTyped, Underway
<1>5. \A j \in 1..Len(rq') : rq'[j] # Poison => j \in 1..Len(rq)
  BY <1>2, <1>3
<1>6. Queued'
  BY <1>1, <1>3, <1>5 DEF InInv, Queued
<1> QED
  BY <1>4, <1>6 DEF InInv

LEMMA InitIn == Init => InInv
<1> SUFFICES ASSUME Init PROVE InInv
  OBVIOUS
<1>1. /\ wire = <<>> /\ sent = <<>> /\ rbuf = <<>> /\ buffer = <<>>
      /\ got = <<>> /\ rq = <<>> /\ cancelled = FALSE
  BY DEF Init
<1>2. InTyped /\ Queued
  <2>1. Len(sent) = 0 /\ Len(rq) = 0 /\ cancelled \in BOOLEAN
    BY <1>1
  <2>2. /\ sent \in Seq(1..InSegs) /\ got \in Seq(Payloads)
        /\ rq \in Seq(Payloads \cup {Poison})
        /\ wire \in Seq(Byte) /\ rbuf \in Seq(Byte) /\ buffer \in Seq(Byte)
    BY <1>1
  <2>3. Queued
    BY <2>1 DEF Queued
  <2> QED
    BY <2>1, <2>2, <2>3 DEF InTyped
<1>3. /\ <<>> \in Seq(Byte) /\ <<>> \o <<>> = <<>> /\ 1 \in Nat
  BY ConcatEmptySeq
<1>4. Runs(<<>>, 1, 0)
  BY DEF Runs
<1>5. Runs((buffer \o rbuf) \o (wire \o <<>>), 1, Len(sent)) /\ 1 = Len(got) + Len(rq) + 1
  BY <1>1, <1>3, <1>4
<1>6. Underway
  BY <1>3, <1>5 DEF Underway
<1> QED
  BY <1>2, <1>6 DEF InInv

LEMMA InKept == InInv /\ [Next]_vars => InInv'
<1> SUFFICES ASSUME InInv, [Next]_vars PROVE InInv'
  OBVIOUS
<1>1. CASE InStep
  BY <1>1, PeerSendKeeps, PeerEndsKeeps, DataReceivedKeeps, ReaderKeeps,
     ReadChunkKeeps, CancelKeeps DEF InStep
<1>2. CASE UNCHANGED inVars
  BY <1>2 DEF InInv, InTyped, Underway, Queued, inVars
<1> QED
  BY <1>1, <1>2, InOrNot

LEMMA InInit == Init => Inbound!Init
<1> SUFFICES ASSUME Init PROVE Inbound!Init
  OBVIOUS
<1>1. sent = <<>> /\ got = <<>>
  BY DEF Init
<1>2. Len(sent) = 0 /\ [i \in 1..Len(sent) |-> Payload(sent[i])] = <<>>
  BY <1>1
<1> QED
  BY <1>1, <1>2 DEF Inbound!Init

LEMMA InStepImplements ==
  ASSUME InInv, [Next]_vars PROVE [Inbound!Next]_(Inbound!vars)
<1>1. CASE sent' = sent /\ got' = got
  BY <1>1 DEF Inbound!vars
<1>2. CASE PeerSend
  <2> DEFINE n == Len(sent)
  <2>1. /\ n \in Nat /\ n + 1 \in 1..InSegs /\ sent' = Append(sent, n + 1) /\ got' = got
    <3>1. InSegs \in Nat /\ n \in 0..InSegs
      BY SentSoFar, BridgeAssumption DEF InInv, InSegs
    <3> QED
      BY <1>2, <3>1 DEF PeerSend, ends
  <2>2. sent \in Seq(1..InSegs)
    BY DEF InInv, InTyped
  <2>3. /\ Len(sent') = n + 1 /\ sent'[n + 1] = n + 1
        /\ \A k \in 1..n : sent'[k] = sent[k] /\ sent[k] \in 1..InSegs
    <3>1. InSegs \in Nat
      BY BridgeAssumption DEF InSegs
    <3>2. \A k \in 1..n : sent[k] \in 1..InSegs
      BY <2>1, <2>2, <3>1, ElementOfSeq
    <3>3. \A k \in 1..n : sent'[k] = sent[k]
      BY <2>1, <2>2
    <3>4. Len(sent') = n + 1 /\ sent'[n + 1] = n + 1
      BY <2>1, <2>2
    <3> QED
      BY <3>2, <3>3, <3>4
  <2> DEFINE s == Payload(n + 1)
             M == [i \in 1..n |-> Payload(sent[i])]
             N == [i \in 1..(n + 1) |-> Payload(sent'[i])]
  <2>4. s \in Payloads
    BY <2>1 DEF Payloads
  <2>5. M \in Seq(Payloads) /\ Len(M) = n
    BY <2>1, <2>3 DEF Payloads
  <2>6. \A k \in 1..n : M[k] = Payload(sent[k])
    OBVIOUS
  <2>7. N \in Seq(Payloads) /\ Len(N) = n + 1
    <3>1. \A k \in 1..(n + 1) : sent'[k] \in 1..InSegs
      <4> SUFFICES ASSUME NEW k \in 1..(n + 1) PROVE sent'[k] \in 1..InSegs
        OBVIOUS
      <4>1. k \in 1..n \/ k = n + 1
        BY <2>1
      <4> QED
        BY <2>1, <2>3, <4>1
    <3>2. \A k \in 1..(n + 1) : Payload(sent'[k]) \in Payloads
      BY <3>1 DEF Payloads
    <3> QED
      BY <2>1, <3>2
  <2>8. \A k \in 1..(n + 1) : N[k] = Payload(sent'[k])
    OBVIOUS
  <2> HIDE DEF M, N, s
  <2>9. N = Append(M, s)
    <3> DEFINE A == Append(M, s)
    <3>1. /\ A \in Seq(Payloads) /\ Len(A) = n + 1 /\ A[n + 1] = s
          /\ \A k \in 1..n : A[k] = M[k]
      BY <2>1, <2>4, <2>5
    <3> HIDE DEF A
    <3>2. ASSUME NEW k \in 1..(n + 1) PROVE N[k] = A[k]
      <4>1. CASE k \in 1..n
        BY <2>3, <2>6, <2>8, <3>1, <4>1
      <4>2. CASE k = n + 1
        BY <2>3, <2>8, <3>1, <4>2 DEF s
      <4> QED
        BY <2>1, <4>1, <4>2
    <3>3. N = A
      BY <2>1, <2>7, <3>1, <3>2, SeqEqual
    <3> QED
      BY <3>3 DEF A
  <2>10. Inbound!Send(s)
    BY <2>1, <2>3, <2>9 DEF Inbound!Send, M, N
  <2> QED
    BY <2>4, <2>10 DEF Inbound!Next
<1>3. CASE ReadSegment
  <2>1. CASE Head(rq) = Poison
    BY <1>1, <1>3, <2>1 DEF ReadSegment, net
  <2>2. CASE Head(rq) # Poison
    <3>1. /\ reader = "get" /\ rq # <<>> /\ sent' = sent
          /\ got' = Append(got, Head(rq))
      BY <1>3, <2>2 DEF ReadSegment, net
    <3>2. /\ rq \in Seq(Payloads \cup {Poison}) /\ got \in Seq(Payloads)
          /\ sent \in Seq(1..InSegs) /\ \A k \in 1..Len(sent) : sent[k] = k
      BY DEF InInv, InTyped
    <3>3. 1 \in 1..Len(rq) /\ rq[1] = Head(rq)
      BY <3>1, <3>2
    <3>4. /\ Len(got) + 1 <= Len(sent)
          /\ Head(rq) = Payload(Len(got) + 1)
      BY <2>2, <3>1, <3>3 DEF InInv, Queued
    <3>5. Len(got) + 1 \in 1..Len(sent)
      BY <3>2, <3>4
    <3> DEFINE M == [i \in 1..Len(sent) |-> Payload(sent[i])]
    <3>6. M[Len(got) + 1] = Head(rq) /\ Len(M) = Len(sent)
      BY <3>2, <3>4, <3>5
    <3>7. Len(got) < Len(M)
      BY <3>2, <3>5, <3>6
    <3>8. UNCHANGED M
      BY <3>1
    <3>9. got' = Append(got, M[Len(got) + 1])
      BY <3>1, <3>6
    <3> QED
      BY <3>7, <3>8, <3>9 DEF Inbound!Next, Inbound!Take
  <2> QED
    BY <2>1, <2>2
<1>4. CASE InStep /\ ~PeerSend /\ ~ReadSegment
  <2>1. sent' = sent /\ got' = got
    BY <1>4 DEF InStep, PeerFin, PeerReset, DataReceived, ReadSegmentTimeout,
       ReadSegmentAgain, ReadChunk, ReadEof, ReadError, CancelStream, Cancel,
       net, tcp, loops, stream, ends
  <2> QED
    BY <1>1, <2>1
<1>5. CASE UNCHANGED inVars
  BY <1>1, <1>5 DEF inVars
<1> QED
  BY <1>2, <1>3, <1>4, <1>5, InOrNot

(* InboundFifo: whatever chunks TCP hands over, however a segment is cut,  *)
(* and whoever cancels the stream when, the reader gets an initial part of *)
(* the server's segments, whole, once and in order.                        *)
THEOREM InboundImplements == Spec => InboundFifo
<1>1. InInv /\ [Next]_vars => [Inbound!Next]_(Inbound!vars)
  BY InStepImplements
<1> QED
  BY <1>1, InitIn, InInit, InKept, PTL DEF Spec, InboundFifo, Inbound!Spec
-----------------------------------------------------------------------------
(* The inductive invariant of the direction to the server. *)

InWrite == (1..OutSegs) \cup {Poison, TooLong}

OutTyped ==
    /\ written \in Seq(1..OutSegs) /\ \A k \in 1..Len(written) : written[k] = k
    /\ delivered \in Seq(1..OutSegs)
    /\ wq \in Seq(InWrite)

(* As long as a segment may still reach the socket the queue holds, among  *)
(* over-long ones and the None of cancel(), those that follow the ones     *)
(* that did, in order, up to the last one accepted.                        *)
Pending ==
    /\ Len(delivered) <= Len(written)
    /\ \A j \in 1..Len(wq) :
          wq[j] \in 1..OutSegs => wq[j] > Len(delivered) /\ wq[j] <= Len(written)
    /\ \A j, k \in 1..Len(wq) :
          j < k /\ wq[j] \in 1..OutSegs /\ wq[k] \in 1..OutSegs => wq[j] < wq[k]
    /\ \A n \in (Len(delivered) + 1)..Len(written) : \E j \in 1..Len(wq) : wq[j] = n

CanWrite == wpc # "done" /\ transport = "open"

OutInv == OutTyped /\ (CanWrite => Pending)

outVars == <<written, delivered, wq>>

OutStep == \/ WriteSegment \/ WriteLongSegment
           \/ WriteDropped \/ WriteSent \/ WriteFails \/ WriteRefused
           \/ ReadEof \/ ReadError \/ CancelStream

(* The other steps leave the queue alone, and a loop that stopped or a     *)
(* transport that closes stays so.                                         *)
LEMMA OutOrNot ==
  [Next]_vars => OutStep \/ (UNCHANGED outVars /\ (CanWrite' => CanWrite))
<1> USE DEF net, tcp, loops, stream, ends, outVars, CanWrite
<1> SUFFICES ASSUME [Next]_vars, ~OutStep
             PROVE  UNCHANGED outVars /\ (CanWrite' => CanWrite)
  OBVIOUS
<1>1. CASE Environment
  BY <1>1 DEF Environment, OutStep, PeerSend, PeerFin, PeerReset
<1>2. CASE EventLoop
  BY <1>2 DEF EventLoop, DataReceived, EofReceived, ResetSeen, ConnectionLost
<1>3. CASE Reader
  BY <1>3 DEF Reader, ReadSegment, ReadSegmentTimeout, ReadSegmentAgain
<1>4. CASE ReadLoop
  BY <1>4 DEF ReadLoop, OutStep, ReadLoopStart, ReadChunk
<1>5. CASE WriteLoop
  BY <1>5 DEF WriteLoop, OutStep, WriteTimeout, DrainReturns, DrainRaises, WriteRetry
<1>6. CASE Disconnect
  BY <1>6 DEF Disconnect, OutStep, StopBridge, CloseConnection, WaitClosed
<1>7. CASE UNCHANGED vars
  BY <1>7 DEF vars
<1> QED
  BY <1>1, <1>2, <1>3, <1>4, <1>5, <1>6, <1>7 DEF Next

(* The types of an element and of the lengths. *)
LEMMA OutTypes ==
  ASSUME OutTyped
  PROVE  /\ written \in Seq(1..OutSegs) /\ \A k \in 1..Len(written) : written[k] = k
         /\ delivered \in Seq(1..OutSegs) /\ wq \in Seq(InWrite)
         /\ Len(written) \in Nat /\ Len(wq) \in Nat /\ Len(delivered) \in Nat
         /\ OutSegs \in Nat
  BY BridgeAssumption DEF OutTyped

(* What a queue looks like after a put. *)
LEMMA PutTypes ==
  ASSUME NEW x \in InWrite, OutTyped, wq' = Append(wq, x)
  PROVE  /\ wq' \in Seq(InWrite) /\ Len(wq') = Len(wq) + 1
         /\ \A k \in 1..Len(wq) : wq'[k] = wq[k]
         /\ wq'[Len(wq) + 1] = x
<1>1. wq \in Seq(InWrite)
  BY DEF OutTyped
<1> HIDE DEF InWrite
<1> QED
  BY <1>1

LEMMA WriteSegmentKeeps == ASSUME OutInv, WriteSegment PROVE OutInv'
<1> DEFINE n == Len(written) + 1
<1>1. /\ delivered' = delivered /\ written' = Append(written, n)
      /\ wq' = Append(wq, n) /\ Len(written) < OutSegs /\ CanWrite' = CanWrite
  BY DEF WriteSegment, PutWrite, tcp, loops, CanWrite
<1>2. OutTyped
  BY DEF OutInv
<1>3. n \in 1..OutSegs /\ n \in InWrite
  BY <1>1, <1>2, OutTypes DEF InWrite
<1>4. /\ written' \in Seq(1..OutSegs) /\ Len(written') = n
      /\ \A k \in 1..n : written'[k] = k
  <2>1. \A k \in 1..n : k = n \/ k \in 1..Len(written)
    BY <1>2, OutTypes
  <2> HIDE DEF n
  <2>2. /\ written' \in Seq(1..OutSegs) /\ Len(written') = Len(written) + 1
        /\ \A k \in 1..Len(written) : written'[k] = written[k]
        /\ written'[Len(written) + 1] = n
    BY <1>1, <1>2, <1>3, OutTypes
  <2> QED
    BY <1>2, <2>1, <2>2, OutTypes DEF n
<1>5. /\ wq' \in Seq(InWrite) /\ Len(wq') = Len(wq) + 1
      /\ \A k \in 1..Len(wq) : wq'[k] = wq[k]
      /\ wq'[Len(wq) + 1] = n
  BY <1>1, <1>2, <1>3, PutTypes
<1>6. OutTyped'
  BY <1>1, <1>2, <1>4, <1>5, OutTypes DEF OutTyped
<1>7. ASSUME CanWrite PROVE Pending'
  <2>1. Pending
    BY <1>7 DEF OutInv
  <2>2. \A j \in 1..Len(wq') : j \in 1..Len(wq) \/ j = Len(wq) + 1
    BY <1>2, <1>5, OutTypes
  <2>3. Len(delivered') <= Len(written')
    BY <1>1, <1>2, <1>4, <2>1, OutTypes DEF Pending
  <2>4. ASSUME NEW j \in 1..Len(wq'), wq'[j] \in 1..OutSegs
        PROVE  wq'[j] > Len(delivered) /\ wq'[j] <= n
    <3>1. CASE j \in 1..Len(wq)
      <4>1. wq[j] > Len(delivered) /\ wq[j] <= Len(written)
        BY <1>5, <2>1, <2>4, <3>1 DEF Pending
      <4> QED
        BY <1>2, <1>5, <2>4, <3>1, <4>1, OutTypes
    <3>2. CASE j = Len(wq) + 1
      BY <1>2, <1>5, <2>1, <3>2, OutTypes DEF Pending
    <3> QED
      BY <2>2, <3>1, <3>2
  <2>5. ASSUME NEW j \in 1..Len(wq'), NEW k \in 1..Len(wq'), j < k,
               wq'[j] \in 1..OutSegs, wq'[k] \in 1..OutSegs
        PROVE  wq'[j] < wq'[k]
    <3>1. j \in 1..Len(wq) /\ wq'[j] = wq[j]
      BY <1>2, <1>5, <2>2, <2>5, OutTypes
    <3>2. CASE k \in 1..Len(wq)
      BY <1>5, <2>1, <2>5, <3>1, <3>2 DEF Pending
    <3>3. CASE k = Len(wq) + 1
      <4>1. wq[j] <= Len(written)
        BY <2>1, <2>5, <3>1 DEF Pending
      <4> QED
        BY <1>2, <1>5, <2>5, <3>1, <3>3, <4>1, OutTypes
    <3> QED
      BY <2>2, <3>2, <3>3
  <2>6. ASSUME NEW m \in (Len(delivered) + 1)..n
        PROVE  \E j \in 1..Len(wq') : wq'[j] = m
    <3>1. CASE m = n
      <4>1. Len(wq) + 1 \in 1..Len(wq')
        BY <1>2, <1>5, OutTypes
      <4> QED
        BY <1>5, <3>1, <4>1
    <3>2. CASE m # n
      <4>1. m \in (Len(delivered) + 1)..Len(written)
        BY <1>2, <3>2, OutTypes
      <4>2. PICK j \in 1..Len(wq) : wq[j] = m
        BY <2>1, <4>1 DEF Pending
      <4>3. j \in 1..Len(wq')
        BY <1>2, <1>5, OutTypes
      <4> QED
        BY <1>5, <4>2, <4>3
    <3> QED
      BY <3>1, <3>2
  <2> HIDE DEF n
  <2> QED
    BY <1>1, <1>4, <2>3, <2>4, <2>5, <2>6 DEF Pending
<1> QED
  BY <1>1, <1>6, <1>7 DEF OutInv

(* A put of something that is not to reach the socket. *)
LEMMA AsideKeeps ==
  ASSUME OutInv, NEW x \in {Poison, TooLong}, wq' = Append(wq, x),
         written' = written, delivered' = delivered, CanWrite' = CanWrite
  PROVE  OutInv'
<1>1. OutTyped /\ x \in InWrite /\ x \notin 1..OutSegs
  BY BridgeAssumption DEF OutInv, InWrite
<1>2. /\ wq' \in Seq(InWrite) /\ Len(wq') = Len(wq) + 1
      /\ \A k \in 1..Len(wq) : wq'[k] = wq[k]
      /\ wq'[Len(wq) + 1] = x
  BY <1>1, PutTypes
<1>3. OutTyped'
  BY <1>1, <1>2 DEF OutTyped
<1>4. \A j \in 1..Len(wq') : wq'[j] \in 1..OutSegs => j \in 1..Len(wq)
  BY <1>1, <1>2, OutTypes
<1>5. \A j \in 1..Len(wq) : j \in 1..Len(wq')
  BY <1>1, <1>2, OutTypes
<1>6. CanWrite => Pending'
  <2> SUFFICES ASSUME Pending PROVE Pending'
    BY DEF OutInv
  <2>1. \A j, k \in 1..Len(wq') :
           j < k /\ wq'[j] \in 1..OutSegs /\ wq'[k] \in 1..OutSegs => wq'[j] < wq'[k]
    BY <1>2, <1>4 DEF Pending
  <2>2. \A j \in 1..Len(wq') : wq'[j] \in 1..OutSegs =>
           wq'[j] > Len(delivered) /\ wq'[j] <= Len(written)
    BY <1>2, <1>4 DEF Pending
  <2>3. \A n \in (Len(delivered) + 1)..Len(written) :
           \E j \in 1..Len(wq') : wq'[j] = n
    BY <1>2, <1>5 DEF Pending
  <2> QED
    BY <2>1, <2>2, <2>3 DEF Pending
<1> QED
  BY <1>3, <1>6 DEF OutInv

(* The segment at the head of the queue is the one that follows. *)
LEMMA HeadFollows ==
  ASSUME OutTyped, Pending, wq # <<>>, Head(wq) \in 1..OutSegs
  PROVE  Head(wq) = Len(delivered) + 1 /\ Len(delivered) < Len(written)
<1>1. 1 \in 1..Len(wq) /\ wq[1] = Head(wq)
  BY OutTypes
<1>2. Head(wq) > Len(delivered) /\ Head(wq) <= Len(written)
  BY <1>1 DEF Pending
<1>3. Len(delivered) + 1 \in (Len(delivered) + 1)..Len(written)
  BY <1>2, OutTypes
<1>4. PICK j \in 1..Len(wq) : wq[j] = Len(delivered) + 1
  BY <1>3 DEF Pending
<1>5. wq[j] \in 1..OutSegs
  BY <1>2, <1>4, OutTypes
<1>6. j # 1 => wq[1] < wq[j]
  <2>1. j # 1 => 1 < j
    BY <1>4, OutTypes
  <2> QED
    BY <1>1, <1>5, <2>1 DEF Pending
<1> QED
  BY <1>1, <1>2, <1>4, <1>6, OutTypes

LEMMA WriteTakesKeeps ==
  ASSUME OutInv, WriteDropped \/ WriteSent \/ WriteFails \/ WriteRefused
  PROVE  OutInv'
<1>1. /\ wq # <<>> /\ wq' = Tail(wq) /\ written' = written
      /\ \/ delivered' = delivered /\ ~CanWrite'
         \/ /\ Head(wq) \in 1..OutSegs /\ delivered' = Append(delivered, Head(wq))
            /\ CanWrite
         \/ Head(wq) = TooLong /\ delivered' = delivered /\ CanWrite' = CanWrite
  BY DEF WriteDropped, WriteSent, WriteFails, WriteRefused, IsConnected, CanWrite,
     ends, tcp
<1>2. OutTyped
  BY DEF OutInv
<1>3. /\ Head(wq) = wq[1] /\ 1 \in 1..Len(wq)
      /\ wq' \in Seq(InWrite) /\ Len(wq') = Len(wq) - 1
      /\ \A k \in 1..Len(wq') : wq'[k] = wq[k + 1] /\ k + 1 \in 1..Len(wq)
  <2>1. wq \in Seq(InWrite) /\ Len(wq) \in Nat
    BY <1>2, OutTypes
  <2> HIDE DEF InWrite
  <2> QED
    BY <1>1, <2>1, HeadTailProperties
<1>4. CASE delivered' = delivered /\ ~CanWrite'
  BY <1>1, <1>2, <1>3, <1>4 DEF OutInv, OutTyped
<1>5. ASSUME Pending, Len(delivered') >= Len(delivered),
             Len(delivered') <= Len(written), Len(delivered') \in Nat,
             Head(wq) \in 1..OutSegs => Len(delivered') = Head(wq),
             Head(wq) \notin 1..OutSegs => Len(delivered') = Len(delivered)
      PROVE  Pending'
  <2>1. ASSUME NEW j \in 1..Len(wq'), wq'[j] \in 1..OutSegs
        PROVE  wq'[j] > Len(delivered') /\ wq'[j] <= Len(written)
    <3>1. wq'[j] = wq[j + 1] /\ j + 1 \in 1..Len(wq) /\ 1 < j + 1
      BY <1>2, <1>3, OutTypes
    <3>2. wq[j + 1] > Len(delivered) /\ wq[j + 1] <= Len(written)
      BY <1>5, <2>1, <3>1 DEF Pending
    <3>3. Head(wq) \in 1..OutSegs => Head(wq) < wq[j + 1]
      BY <1>3, <1>5, <2>1, <3>1 DEF Pending
    <3> QED
      BY <1>5, <3>1, <3>2, <3>3
  <2>2. ASSUME NEW j \in 1..Len(wq'), NEW k \in 1..Len(wq'), j < k,
               wq'[j] \in 1..OutSegs, wq'[k] \in 1..OutSegs
        PROVE  wq'[j] < wq'[k]
    <3>1. /\ wq'[j] = wq[j + 1] /\ wq'[k] = wq[k + 1] /\ j + 1 < k + 1
          /\ j + 1 \in 1..Len(wq) /\ k + 1 \in 1..Len(wq)
      BY <1>3, <2>2
    <3> QED
      BY <1>5, <2>2, <3>1 DEF Pending
  <2>3. ASSUME NEW n \in (Len(delivered') + 1)..Len(written)
        PROVE  \E j \in 1..Len(wq') : wq'[j] = n
    <3>1. n \in (Len(delivered) + 1)..Len(written) /\ n \in 1..OutSegs /\ n # Head(wq)
      <4>1. n \in (Len(delivered) + 1)..Len(written) /\ n # Len(delivered')
        BY <1>2, <1>5, OutTypes
      <4>2. n \in 1..Len(written) /\ written[n] \in 1..OutSegs /\ written[n] = n
        BY <1>2, <4>1, OutTypes
      <4> QED
        BY <1>5, <4>1, <4>2
    <3>2. PICK j \in 1..Len(wq) : wq[j] = n
      BY <1>5, <3>1 DEF Pending
    <3>3. j - 1 \in 1..Len(wq') /\ (j - 1) + 1 = j
      BY <1>2, <1>3, <3>1, <3>2, OutTypes
    <3>4. wq'[j - 1] = wq[(j - 1) + 1]
      BY <1>3, <3>3
    <3> QED
      BY <3>2, <3>3, <3>4
  <2> QED
    BY <1>1, <1>5, <2>1, <2>2, <2>3 DEF Pending
<1>6. CASE /\ Head(wq) \in 1..OutSegs /\ delivered' = Append(delivered, Head(wq))
           /\ CanWrite
  <2>1. delivered' \in Seq(1..OutSegs) /\ Len(delivered') = Len(delivered) + 1
    BY <1>2, <1>6, OutTypes
  <2>2. OutTyped'
    BY <1>1, <1>2, <1>3, <2>1 DEF OutTyped
  <2>3. Pending
    BY <1>6 DEF OutInv
  <2>4. Head(wq) = Len(delivered) + 1 /\ Len(delivered) < Len(written)
    BY <1>1, <1>2, <1>6, <2>3, HeadFollows
  <2>5. /\ Len(delivered') >= Len(delivered) /\ Len(delivered') <= Len(written)
        /\ Len(delivered') \in Nat /\ Len(delivered') = Head(wq)
    BY <1>2, <2>1, <2>4, OutTypes
  <2>6. Pending'
    BY <1>5, <1>6, <2>3, <2>5
  <2> QED
    BY <2>2, <2>6 DEF OutInv
<1>7. CASE Head(wq) = TooLong /\ delivered' = delivered /\ CanWrite' = CanWrite
  <2>1. OutTyped'
    BY <1>1, <1>2, <1>3, <1>7 DEF OutTyped
  <2>2. Head(wq) \notin 1..OutSegs
    BY <1>7, BridgeAssumption
  <2>3. ASSUME CanWrite PROVE Pending'
    <3>1. Pending
      BY <2>3 DEF OutInv
    <3>2. /\ Len(delivered') >= Len(delivered) /\ Len(delivered') <= Len(written)
          /\ Len(delivered') \in Nat /\ Len(delivered') = Len(delivered)
      BY <1>2, <1>7, <3>1, OutTypes DEF Pending
    <3> QED
      BY <1>5, <2>2, <3>1, <3>2
  <2> QED
    BY <1>7, <2>1, <2>3 DEF OutInv
<1> QED
  BY <1>1, <1>4, <1>6, <1>7

LEMMA PutAsideKeeps ==
  ASSUME OutInv, WriteLongSegment \/ ReadEof \/ ReadError \/ CancelStream
  PROVE  OutInv'
<1>1. /\ written' = written /\ delivered' = delivered /\ CanWrite' = CanWrite
      /\ wq' = Append(wq, Poison) \/ wq' = Append(wq, TooLong)
  BY DEF WriteLongSegment, PutWrite, ReadEof, ReadError, CancelStream, Cancel, tcp,
     loops, ends, CanWrite
<1> QED
  BY <1>1, AsideKeeps

LEMMA InitOut == Init => OutInv /\ Outbound!Init
<1> SUFFICES ASSUME Init PROVE OutInv /\ Outbound!Init
  OBVIOUS
<1>1. wq = <<>> /\ written = <<>> /\ delivered = <<>>
  BY DEF Init
<1>2. Len(wq) = 0 /\ Len(written) = 0 /\ Len(delivered) = 0
  BY <1>1
<1>3. OutTyped
  <2>1. /\ written \in Seq(1..OutSegs) /\ delivered \in Seq(1..OutSegs)
        /\ wq \in Seq(InWrite)
    <3>1. <<>> \in Seq(1..OutSegs) /\ <<>> \in Seq(InWrite)
      OBVIOUS
    <3> QED
      BY <1>1, <3>1, Zenon
  <2>2. \A k \in 1..Len(written) : written[k] = k
    BY <1>2
  <2> QED
    BY <2>1, <2>2 DEF OutTyped
<1>4. Pending
  BY <1>2 DEF Pending
<1> QED
  BY <1>1, <1>3, <1>4 DEF OutInv, Outbound!Init

LEMMA OutKept == OutInv /\ [Next]_vars => OutInv'
<1> SUFFICES ASSUME OutInv, [Next]_vars PROVE OutInv'
  OBVIOUS
<1>1. CASE OutStep
  BY <1>1, WriteSegmentKeeps, WriteTakesKeeps, PutAsideKeeps DEF OutStep
<1>2. CASE UNCHANGED outVars /\ (CanWrite' => CanWrite)
  BY <1>2 DEF OutInv, OutTyped, Pending, outVars
<1> QED
  BY <1>1, <1>2, OutOrNot

LEMMA OutStepImplements ==
  ASSUME OutInv, [Next]_vars PROVE [Outbound!Next]_(Outbound!vars)
<1>1. CASE written' = written /\ delivered' = delivered
  BY <1>1 DEF Outbound!vars
<1>2. CASE WriteSegment
  <2>1. /\ Len(written) < OutSegs /\ written' = Append(written, Len(written) + 1)
        /\ delivered' = delivered
    BY <1>2 DEF WriteSegment
  <2>2. Len(written) + 1 \in 1..OutSegs
    <3>1. OutTyped
      BY DEF OutInv
    <3> QED
      BY <2>1, <3>1, OutTypes
  <2>3. Outbound!Send(Len(written) + 1)
    BY <2>1 DEF Outbound!Send
  <2> QED
    BY <2>2, <2>3 DEF Outbound!Next
<1>3. CASE WriteSent
  <2>1. /\ wq # <<>> /\ Head(wq) \in 1..OutSegs /\ CanWrite
        /\ delivered' = Append(delivered, Head(wq)) /\ written' = written
    BY <1>3 DEF WriteSent, IsConnected, CanWrite
  <2>2. OutTyped /\ Pending
    BY <2>1 DEF OutInv
  <2>3. Head(wq) = Len(delivered) + 1 /\ Len(delivered) < Len(written)
    BY <2>1, <2>2, HeadFollows
  <2>4. written[Len(delivered) + 1] = Len(delivered) + 1
    BY <2>2, <2>3, OutTypes
  <2> QED
    BY <2>1, <2>3, <2>4 DEF Outbound!Next, Outbound!Take
<1>4. CASE OutStep /\ ~WriteSegment /\ ~WriteSent
  <2>1. written' = written /\ delivered' = delivered
    BY <1>4 DEF OutStep, WriteLongSegment, WriteDropped, WriteFails, WriteRefused,
       ReadEof, ReadError, CancelStream, ends
  <2> QED
    BY <1>1, <2>1
<1>5. CASE UNCHANGED outVars
  BY <1>1, <1>5 DEF outVars
<1> QED
  BY <1>2, <1>3, <1>4, <1>5, OutOrNot

(* OutboundFifo: what reaches the socket is an initial part of the         *)
(* segments write_segment accepted that fit a frame.  One that was dropped *)
(* or lost with the connection is never followed by a later one; only      *)
(* over-long ones, which the write loop refuses, are passed over.          *)
THEOREM OutboundImplements == Spec => OutboundFifo
<1>1. OutInv /\ [Next]_vars => [Outbound!Next]_(Outbound!vars)
  BY OutStepImplements
<1> QED
  BY <1>1, InitOut, OutKept, PTL DEF Spec, OutboundFifo, Outbound!Spec
-----------------------------------------------------------------------------
(* What a channel promises: its steps keep what was taken an initial part  *)
(* of what was put in.                                                     *)
Initial(g, s) == Len(g) <= Len(s) /\ \A i \in 1..Len(g) : g[i] = s[i]

LEMMA ChannelStep ==
  ASSUME NEW S, NEW s \in Seq(S), NEW g \in Seq(S), NEW s2, NEW g2, Initial(g, s),
         \/ \E x \in S : s2 = Append(s, x) /\ g2 = g
         \/ Len(g) < Len(s) /\ g2 = Append(g, s[Len(g) + 1]) /\ s2 = s
         \/ s2 = s /\ g2 = g
  PROVE  Initial(g2, s2)
<1>1. Len(s) \in Nat /\ Len(g) \in Nat
  OBVIOUS
<1>2. CASE \E x \in S : s2 = Append(s, x) /\ g2 = g
  <2>1. PICK x \in S : s2 = Append(s, x) /\ g2 = g
    BY <1>2
  <2>2. Len(s2) = Len(s) + 1 /\ \A i \in 1..Len(s) : s2[i] = s[i]
    BY <2>1
  <2>3. \A i \in 1..Len(g) : i \in 1..Len(s)
    BY <1>1 DEF Initial
  <2> QED
    BY <1>1, <2>1, <2>2, <2>3 DEF Initial
<1>3. CASE Len(g) < Len(s) /\ g2 = Append(g, s[Len(g) + 1]) /\ s2 = s
  <2>1. s[Len(g) + 1] \in S
    BY <1>1, <1>3, ElementOfSeq
  <2>2. /\ Len(g2) = Len(g) + 1 /\ g2[Len(g) + 1] = s[Len(g) + 1]
        /\ \A i \in 1..Len(g) : g2[i] = g[i]
    BY <1>3, <2>1
  <2>3. \A i \in 1..Len(g2) : i = Len(g) + 1 \/ i \in 1..Len(g)
    BY <1>1, <2>2
  <2> QED
    BY <1>1, <1>3, <2>2, <2>3 DEF Initial
<1>4. CASE s2 = s /\ g2 = g
  BY <1>4
<1> QED
  BY <1>2, <1>3, <1>4

(* What the reader took is an initial part of what the server sent.        *)
THEOREM InboundInOrder == Spec => []Inbound!InOrder
<1> DEFINE M == [i \in 1..Len(sent) |-> Payload(sent[i])]
<1>1. Init => Inbound!InOrder
  <2>1. Init => Len(got) = 0 /\ Len(M) = 0
    BY DEF Init
  <2> QED
    BY <2>1 DEF Inbound!InOrder
<1>2. ASSUME InInv, Inbound!InOrder, [Next]_vars PROVE Inbound!InOrder'
  <2>1. [Inbound!Next]_(Inbound!vars)
    BY <1>2, InStepImplements
  <2>2. M \in Seq(Payloads) /\ got \in Seq(Payloads)
    <3>1. sent \in Seq(1..InSegs) /\ got \in Seq(Payloads) /\ Len(sent) \in Nat
      BY <1>2 DEF InInv, InTyped
    <3>2. InSegs \in Nat
      BY BridgeAssumption DEF InSegs
    <3>3. \A k \in 1..Len(sent) : Payload(sent[k]) \in Payloads
      <4>1. \A k \in 1..Len(sent) : sent[k] \in 1..InSegs
        BY <3>1, <3>2, ElementOfSeq
      <4> QED
        BY <4>1 DEF Payloads
    <3> QED
      BY <3>1, <3>3
  <2>3. Initial(got, M)
    BY <1>2 DEF Initial, Inbound!InOrder
  <2>4. \/ \E x \in Payloads : M' = Append(M, x) /\ got' = got
        \/ Len(got) < Len(M) /\ got' = Append(got, M[Len(got) + 1]) /\ M' = M
        \/ M' = M /\ got' = got
    BY <2>1 DEF Inbound!Next, Inbound!Send, Inbound!Take, Inbound!vars
  <2> HIDE DEF M
  <2>5. Initial(got', M')
    BY <2>2, <2>3, <2>4, ChannelStep
  <2> QED
    BY <2>5 DEF Initial, Inbound!InOrder, M
<1> QED
  BY <1>1, <1>2, InitIn, InKept, PTL DEF Spec

(* What reached the socket is an initial part of the accepted segments     *)
(* that fit a frame (_stream_to_tcp_loop and the write queue).             *)
THEOREM OutboundInOrder == Spec => []Outbound!InOrder
<1>1. Init => Outbound!InOrder
  <2>1. Init => Len(delivered) = 0 /\ Len(written) = 0
    BY DEF Init
  <2> QED
    BY <2>1 DEF Outbound!InOrder
<1>2. ASSUME OutInv, Outbound!InOrder, [Next]_vars PROVE Outbound!InOrder'
  <2>1. [Outbound!Next]_(Outbound!vars)
    BY <1>2, OutStepImplements
  <2>2. written \in Seq(1..OutSegs) /\ delivered \in Seq(1..OutSegs)
    BY <1>2 DEF OutInv, OutTyped
  <2>3. Initial(delivered, written)
    BY <1>2 DEF Initial, Outbound!InOrder
  <2>4. \/ \E x \in 1..OutSegs : written' = Append(written, x) /\ delivered' = delivered
        \/ /\ Len(delivered) < Len(written) /\ written' = written
           /\ delivered' = Append(delivered, written[Len(delivered) + 1])
        \/ written' = written /\ delivered' = delivered
    BY <2>1 DEF Outbound!Next, Outbound!Send, Outbound!Take, Outbound!vars
  <2>5. Initial(delivered', written')
    BY <2>2, <2>3, <2>4, ChannelStep
  <2> QED
    BY <2>5 DEF Initial, Outbound!InOrder
<1> QED
  BY <1>1, <1>2, InitOut, OutKept, PTL DEF Spec
=============================================================================
