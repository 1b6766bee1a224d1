----------------------------- MODULE EmbedsProofs -----------------------------
(***************************************************************************)
(* Machine-checked proofs about Document and Embeds, for every set of      *)
(* requests, documents, patches and tables and every bound.                *)
(***************************************************************************)
EXTENDS Embeds, FiniteSetTheorems, SequenceTheorems, WellFoundedInduction, TLAPS

-------------------------------------------------------------------------------
(* Induction and loops.  The provers cannot take an operator as a parameter *)
(* of a theorem, so induction is stated of sets, and a loop of functions.   *)

(* A set of natural numbers has a least element. *)
LEMMA LeastElement ==
  ASSUME NEW T, T \subseteq Nat, T # {}
  PROVE  \E x \in T : \A y \in T : x <= y
  <1>1. PICK x \in T : \A y \in T : ~ (<<y, x>> \in OpToRel(<, Nat))
    <2>1. \E x \in T : \A y \in T : ~ (<<y, x>> \in OpToRel(<, Nat))
      BY NatLessThanWellFounded, WFMin
    <2> QED
      BY <2>1
  <1>2. ASSUME NEW y \in T PROVE x <= y
    <2>1. x \in Nat /\ y \in Nat
      OBVIOUS
    <2>2. <<y, x>> \in OpToRel(<, Nat) <=> y < x
      BY <2>1 DEF OpToRel
    <2>3. ~(y < x)
      BY <1>1, <2>2, Zenon
    <2> QED
      BY <2>1, <2>3
  <1> QED
    BY <1>2

(* A set that has 0 and the successor of each of its elements has all. *)
LEMMA SetInduction ==
  ASSUME NEW S, 0 \in S, \A n \in Nat : n \in S => n + 1 \in S
  PROVE  Nat \subseteq S
  <1> DEFINE T == Nat \ S
  <1> SUFFICES ASSUME T # {} PROVE FALSE
    OBVIOUS
  <1>1. PICK x \in T : \A y \in T : x <= y
    BY LeastElement
  <1>2. x # 0 /\ x \in Nat /\ x \notin S
    OBVIOUS
  <1>3. x - 1 \in Nat /\ ~(x <= x - 1) /\ (x - 1) + 1 = x
    BY <1>2
  <1>4. x - 1 \in S
    BY <1>1, <1>3
  <1> QED
    BY <1>2, <1>3, <1>4

(* f has what a loop from 1 to N, begun with v0, has computed after each    *)
(* round, g[n] being what round n does to the result so far.                *)
IsLoop(N, V, v0, g, f) ==
    f \in [0..N -> V] /\ f[0] = v0 /\ \A n \in 1..N : f[n] = g[n][f[n - 1]]

(* There is such a function. *)
LEMMA LoopFunction ==
  ASSUME NEW N \in Nat, NEW V, NEW v0 \in V, NEW g \in [1..N -> [V -> V]]
  PROVE  \E f : IsLoop(N, V, v0, g, f)
  <1> DEFINE Upto(m, f) == f[0] = v0 /\ \A n \in 1..m : f[n] = g[n][f[n - 1]]
             S == {m \in Nat : m <= N => \E f \in [0..m -> V] : Upto(m, f)}
  <1>1. 0 \in S
    <2> DEFINE f0 == [n \in 0..0 |-> v0]
    <2>1. f0 \in [0..0 -> V] /\ Upto(0, f0)
      OBVIOUS
    <2> QED
      BY <2>1
  <1>2. ASSUME NEW m \in Nat, m \in S PROVE m + 1 \in S
    <2> SUFFICES ASSUME m + 1 <= N
                 PROVE  \E f \in [0..m + 1 -> V] : Upto(m + 1, f)
      OBVIOUS
    <2>1. PICK f \in [0..m -> V] : Upto(m, f)
      BY <1>2
    <2> DEFINE h == [n \in 0..m + 1 |-> IF n = m + 1 THEN g[m + 1][f[m]] ELSE f[n]]
    <2>2. g[m + 1] \in [V -> V] /\ f[m] \in V
      OBVIOUS
    <2>3. h \in [0..m + 1 -> V]
      BY <2>2
    <2>4. \A n \in 0..m : h[n] = f[n]
      OBVIOUS
    <2>5. h[m + 1] = g[m + 1][h[m]]
      BY <2>4
    <2>6. \A n \in 1..m : h[n] = g[n][h[n - 1]]
      BY <2>1, <2>4
    <2>7. h[0] = v0
      BY <2>1, <2>4
    <2> HIDE DEF h
    <2>8. Upto(m + 1, h)
      BY <2>5, <2>6, <2>7
    <2> QED
      BY <2>3, <2>8
  <1> HIDE DEF S
  <1>3. N \in S
    BY <1>1, <1>2, SetInduction
  <1>4. PICK f \in [0..N -> V] : Upto(N, f)
    BY <1>3 DEF S
  <1>5. IsLoop(N, V, v0, g, f)
    BY <1>4 DEF IsLoop
  <1> QED
    BY <1>5

-------------------------------------------------------------------------------
(* BlocksIn *)

(* chosen is what the loop of BlocksIn has chosen of the first n blocks. *)
IsChosen(blocks, S, chosen) ==
    chosen = [n \in 0 .. Len(blocks) |->
                IF n = 0 THEN <<>>
                ELSE IF blocks[n] \in S THEN Append(chosen[n - 1], blocks[n])
                ELSE chosen[n - 1]]

(* The rounds of the loop, for blocks from a set A. *)
Rounds(A, s, S, f) ==
    /\ f \in [0..Len(s) -> Seq(A)]
    /\ BlocksIn(s, S) = f[Len(s)]
    /\ f[0] = <<>>
    /\ \A n \in 1..Len(s) :
         f[n] = IF s[n] \in S THEN Append(f[n - 1], s[n]) ELSE f[n - 1]

LEMMA BlocksInLoop ==
  ASSUME NEW A, NEW s \in Seq(A), NEW S
  PROVE  \E f : Rounds(A, s, S, f)
  <1> DEFINE V == Seq(A)
             g == [n \in 1..Len(s) |->
                     [v \in V |-> IF s[n] \in S THEN Append(v, s[n]) ELSE v]]
  <1>1. g \in [1..Len(s) -> [V -> V]] /\ <<>> \in V
    OBVIOUS
  <1>2. \A n \in 1..Len(s) : \A v \in V :
          g[n][v] = IF s[n] \in S THEN Append(v, s[n]) ELSE v
    OBVIOUS
  <1> HIDE DEF g
  <1>3. PICK f \in [0..Len(s) -> V] :
          f[0] = <<>> /\ \A n \in 1..Len(s) : f[n] = g[n][f[n - 1]]
    <2> DEFINE N == Len(s)
               v0 == <<>>
    <2>1. N \in Nat /\ v0 \in V /\ g \in [1..N -> [V -> V]]
      BY <1>1
    <2> HIDE DEF V, N, v0
    <2>2. PICK f : IsLoop(N, V, v0, g, f)
      BY <2>1, LoopFunction
    <2> QED
      BY <2>2 DEF IsLoop, N, v0
  <1>4. /\ f[0] = <<>>
        /\ \A n \in 1..Len(s) :
             f[n] = IF s[n] \in S THEN Append(f[n - 1], s[n]) ELSE f[n - 1]
    <2>1. f[0] = <<>>
      BY <1>3
    <2>2. ASSUME NEW n \in 1..Len(s)
          PROVE  f[n] = IF s[n] \in S THEN Append(f[n - 1], s[n]) ELSE f[n - 1]
      <3>1. f[n] = g[n][f[n - 1]] /\ f[n - 1] \in V
        BY <1>3
      <3> HIDE DEF V
      <3> QED
        BY <1>2, <3>1
    <2> QED
      BY <2>1, <2>2
  <1>5. IsChosen(s, S, f)
    <2>1. f = [n \in 0..Len(s) |-> f[n]]
      OBVIOUS
    <2>2. ASSUME NEW n \in 0..Len(s)
          PROVE  f[n] = IF n = 0 THEN <<>>
                        ELSE IF s[n] \in S THEN Append(f[n - 1], s[n])
                        ELSE f[n - 1]
      <3>1. CASE n = 0
        BY <1>4, <3>1
      <3>2. CASE n \in 1..Len(s)
        BY <1>4, <3>2
      <3> QED
        BY <3>1, <3>2
    <2> QED
      BY <2>1, <2>2 DEF IsChosen
  <1> DEFINE h == CHOOSE x : IsChosen(s, S, x)
  <1>6. IsChosen(s, S, h)
    BY <1>5, Zenon
  <1>7. BlocksIn(s, S) = h[Len(s)]
    BY Zenon DEF BlocksIn, IsChosen
  <1> HIDE DEF h
  <1>8. /\ h[0] = <<>>
        /\ \A n \in 1..Len(s) :
             h[n] = IF s[n] \in S THEN Append(h[n - 1], s[n]) ELSE h[n - 1]
    <2>1. ASSUME NEW n \in 0..Len(s)
          PROVE  h[n] = IF n = 0 THEN <<>>
                        ELSE IF s[n] \in S THEN Append(h[n - 1], s[n])
                        ELSE h[n - 1]
      BY <1>6, Zenon DEF IsChosen
    <2>2. 0 \in 0..Len(s)
      OBVIOUS
    <2>3. h[0] = <<>>
      BY <2>1, <2>2
    <2>4. ASSUME NEW n \in 1..Len(s)
          PROVE  h[n] = IF s[n] \in S THEN Append(h[n - 1], s[n]) ELSE h[n - 1]
      <3>1. n \in 0..Len(s) /\ n # 0
        OBVIOUS
      <3> QED
        BY <2>1, <3>1, Zenon
    <2> QED
      BY <2>3, <2>4
  <1>9. h = f
    <2> DEFINE E == {n \in Nat : n <= Len(s) => h[n] = f[n]}
    <2>1. 0 \in E
      BY <1>4, <1>8
    <2>2. ASSUME NEW n \in Nat, n \in E PROVE n + 1 \in E
      BY <2>2, <1>4, <1>8
    <2>3. \A n \in 0..Len(s) : n \in E
      <3> HIDE DEF E
      <3> QED
        BY <2>1, <2>2, SetInduction
    <2>4. h = [n \in 0..Len(s) |-> h[n]]
      BY <1>6 DEF IsChosen
    <2>5. \A n \in 0..Len(s) : h[n] = f[n]
      BY <2>3
    <2>6. h = [n \in 0..Len(s) |-> f[n]]
      BY <2>4, <2>5
    <2>7. f = [n \in 0..Len(s) |-> f[n]]
      OBVIOUS
    <2> QED
      BY <2>6, <2>7
  <1>10. Rounds(A, s, S, f)
    BY <1>4, <1>7, <1>9 DEF Rounds
  <1> QED
    BY <1>10

(* Induction over sequences, from the front. *)
LEMMA SequenceInduction ==
  ASSUME NEW A, NEW P, <<>> \in P,
         \A s \in Seq(A) : \A e \in A : s \in P => Append(s, e) \in P
  PROVE  Seq(A) \subseteq P
  <1> DEFINE S == {n \in Nat : \A s \in Seq(A) : Len(s) = n => s \in P}
  <1>1. 0 \in S
    <2>1. \A s \in Seq(A) : Len(s) = 0 => s = <<>>
      OBVIOUS
    <2> QED
      BY <2>1
  <1>2. ASSUME NEW n \in Nat, n \in S PROVE n + 1 \in S
    <2> SUFFICES ASSUME NEW s \in Seq(A), Len(s) = n + 1 PROVE s \in P
      OBVIOUS
    <2> DEFINE front == SubSeq(s, 1, n)
    <2>1. front \in Seq(A) /\ Len(front) = n /\ s[n + 1] \in A
      OBVIOUS
    <2>2. s = Append(front, s[n + 1])
      OBVIOUS
    <2>3. front \in P
      BY <1>2, <2>1
    <2> HIDE DEF front
    <2> QED
      BY <2>1, <2>2, <2>3
  <1> HIDE DEF S
  <1>3. Nat \subseteq S
    BY <1>1, <1>2, SetInduction
  <1>4. ASSUME NEW s \in Seq(A) PROVE s \in P
    <2>1. Len(s) \in S
      BY <1>3
    <2> QED
      BY <2>1 DEF S
  <1> QED
    BY <1>4

(* Nothing is chosen from nothing, and a block that is added at the end is  *)
(* chosen at the end or not at all.                                         *)
LEMMA BlocksInType ==
  ASSUME NEW A, NEW s \in Seq(A), NEW S
  PROVE  BlocksIn(s, S) \in Seq(A)
  <1>1. PICK f : Rounds(A, s, S, f)
    BY BlocksInLoop
  <1> QED
    BY <1>1 DEF Rounds

LEMMA BlocksInEmpty ==
  ASSUME NEW S
  PROVE  BlocksIn(<<>>, S) = <<>>
  <1>1. <<>> \in Seq({}) /\ Len(<<>>) = 0
    OBVIOUS
  <1>2. PICK f : Rounds({}, <<>>, S, f)
    BY <1>1, BlocksInLoop
  <1> QED
    BY <1>1, <1>2 DEF Rounds

LEMMA BlocksInAppend ==
  ASSUME NEW A, NEW s \in Seq(A), NEW e \in A, NEW S
  PROVE  BlocksIn(Append(s, e), S) =
           IF e \in S THEN Append(BlocksIn(s, S), e) ELSE BlocksIn(s, S)
  <1> DEFINE t == Append(s, e)
  <1>1. /\ t \in Seq(A) /\ Len(t) = Len(s) + 1
        /\ \A n \in 1..Len(s) : t[n] = s[n]
        /\ t[Len(t)] = e
        /\ Len(s) \in Nat
    OBVIOUS
  <1> HIDE DEF t
  <1>2. PICK f : Rounds(A, s, S, f)
    BY BlocksInLoop
  <1>3. PICK h : Rounds(A, t, S, h)
    BY <1>1, BlocksInLoop
  <1> DEFINE E == {n \in Nat : n <= Len(s) => h[n] = f[n]}
  <1>4. 0 \in E
    BY <1>2, <1>3 DEF Rounds
  <1>5. ASSUME NEW n \in Nat, n \in E PROVE n + 1 \in E
    <2> SUFFICES ASSUME n + 1 <= Len(s) PROVE h[n + 1] = f[n + 1]
      OBVIOUS
    <2>1. n + 1 \in 1..Len(s) /\ n + 1 \in 1..Len(t) /\ (n + 1) - 1 = n
      BY <1>1
    <2>2. h[n] = f[n]
      BY <1>5, <2>1
    <2>3. t[n + 1] = s[n + 1]
      BY <1>1, <2>1
    <2>4. h[n + 1] = IF t[n + 1] \in S THEN Append(h[n], t[n + 1]) ELSE h[n]
      BY <1>3, <2>1 DEF Rounds
    <2>5. f[n + 1] = IF s[n + 1] \in S THEN Append(f[n], s[n + 1]) ELSE f[n]
      BY <1>2, <2>1 DEF Rounds
    <2> QED
      BY <2>2, <2>3, <2>4, <2>5
  <1>6. h[Len(s)] = f[Len(s)]
    <2>1. Len(s) \in E
      <3> HIDE DEF E
      <3> QED
        BY <1>1, <1>4, <1>5, SetInduction
    <2> QED
      BY <2>1
  <1>7. h[Len(t)] = IF e \in S THEN Append(h[Len(s)], e) ELSE h[Len(s)]
    <2>1. Len(t) \in 1..Len(t) /\ Len(t) - 1 = Len(s)
      BY <1>1
    <2> QED
      BY <1>1, <1>3, <2>1 DEF Rounds
  <1> QED
    BY <1>2, <1>3, <1>6, <1>7 DEF t, Rounds

(* What is chosen are the blocks of the sequence that are in S. *)
LEMMA BlocksInElements ==
  ASSUME NEW A, NEW s \in Seq(A), NEW S
  PROVE  /\ \A k \in 1..Len(BlocksIn(s, S)) :
              BlocksIn(s, S)[k] \in S /\ \E i \in 1..Len(s) : s[i] = BlocksIn(s, S)[k]
         /\ \A i \in 1..Len(s) : s[i] \in S =>
              \E k \in 1..Len(BlocksIn(s, S)) : BlocksIn(s, S)[k] = s[i]
  <1> DEFINE Good(t, c) ==
               /\ \A k \in 1..Len(c) : c[k] \in S /\ \E i \in 1..Len(t) : t[i] = c[k]
               /\ \A i \in 1..Len(t) : t[i] \in S => \E k \in 1..Len(c) : c[k] = t[i]
             P == {t \in Seq(A) : Good(t, BlocksIn(t, S))}
  <1>1. <<>> \in P
    <2>1. Good(<<>>, <<>>)
      OBVIOUS
    <2> HIDE DEF Good
    <2> QED
      BY <2>1, BlocksInEmpty
  <1>2. ASSUME NEW t \in Seq(A), NEW e \in A, t \in P PROVE Append(t, e) \in P
    <2> DEFINE c == BlocksIn(t, S)
               d == BlocksIn(Append(t, e), S)
               u == Append(t, e)
    <2>1. c \in Seq(A) /\ Good(t, c)
      BY <1>2, BlocksInType
    <2>2. d = IF e \in S THEN Append(c, e) ELSE c
      BY BlocksInAppend
    <2>3. /\ u \in Seq(A) /\ Len(u) = Len(t) + 1 /\ u[Len(t) + 1] = e
          /\ \A i \in 1..Len(t) : u[i] = t[i]
      OBVIOUS
    <2> HIDE DEF c, d, u
    <2>4. CASE e \in S
      <3>1. /\ Len(d) = Len(c) + 1 /\ d[Len(c) + 1] = e
            /\ \A i \in 1..Len(c) : d[i] = c[i]
            /\ Len(c) \in Nat
        BY <2>1, <2>2, <2>4
      <3>2. ASSUME NEW k \in 1..Len(d)
            PROVE  d[k] \in S /\ \E i \in 1..Len(u) : u[i] = d[k]
        <4>1. CASE k = Len(c) + 1
          BY <4>1, <3>1, <2>3, <2>4
        <4>2. CASE k \in 1..Len(c)
          <5>1. PICK i \in 1..Len(t) : t[i] = c[k]
            BY <4>2, <2>1
          <5>2. i \in 1..Len(u) /\ u[i] = d[k] /\ d[k] \in S
            BY <5>1, <4>2, <2>1, <2>3, <3>1
          <5> QED
            BY <5>2
        <4> QED
          BY <3>1, <4>1, <4>2
      <3>3. ASSUME NEW i \in 1..Len(u), u[i] \in S
            PROVE  \E k \in 1..Len(d) : d[k] = u[i]
        <4>1. CASE i = Len(t) + 1
          BY <4>1, <3>1, <2>3
        <4>2. CASE i \in 1..Len(t)
          <5>1. PICK k \in 1..Len(c) : c[k] = t[i]
            BY <4>2, <3>3, <2>1, <2>3
          <5>2. k \in 1..Len(d) /\ d[k] = u[i]
            BY <5>1, <4>2, <2>3, <3>1
          <5> QED
            BY <5>2
        <4> QED
          BY <2>3, <4>1, <4>2
      <3> QED
        BY <2>3, <3>2, <3>3 DEF u, d
    <2>5. CASE e \notin S
      <3>1. d = c
        BY <2>2, <2>5
      <3>2. ASSUME NEW k \in 1..Len(d)
            PROVE  d[k] \in S /\ \E i \in 1..Len(u) : u[i] = d[k]
        <4>1. PICK i \in 1..Len(t) : t[i] = c[k]
          BY <3>1, <2>1
        <4>2. i \in 1..Len(u) /\ u[i] = d[k] /\ d[k] \in S
          BY <4>1, <2>1, <2>3, <3>1
        <4> QED
          BY <4>2
      <3>3. ASSUME NEW i \in 1..Len(u), u[i] \in S
            PROVE  \E k \in 1..Len(d) : d[k] = u[i]
        <4>1. i \in 1..Len(t)
          BY <3>3, <2>3, <2>5
        <4>2. t[i] = u[i]
          BY <4>1, <2>3
        <4>3. PICK k \in 1..Len(c) : c[k] = t[i]
          BY <4>1, <4>2, <3>3, <2>1
        <4> QED
          BY <4>2, <4>3, <3>1
      <3> QED
        BY <2>3, <3>2, <3>3 DEF u, d
    <2> QED
      BY <2>4, <2>5
  <1>3. s \in P
    <2> HIDE DEF P
    <2> QED
      BY <1>1, <1>2, SequenceInduction
  <1> QED
    BY <1>3

(* What is chosen from two parts is chosen from each. *)
LEMMA BlocksInConcat ==
  ASSUME NEW A, NEW s \in Seq(A), NEW t \in Seq(A), NEW S
  PROVE  BlocksIn(s \o t, S) = BlocksIn(s, S) \o BlocksIn(t, S)
  <1> DEFINE P == {u \in Seq(A) : BlocksIn(s \o u, S) = BlocksIn(s, S) \o BlocksIn(u, S)}
  <1>0. BlocksIn(s, S) \in Seq(A)
    BY BlocksInType
  <1>1. <<>> \in P
    <2>1. s \o <<>> = s /\ BlocksIn(s, S) \o <<>> = BlocksIn(s, S)
      BY <1>0
    <2>2. BlocksIn(s \o <<>>, S) = BlocksIn(s, S) \o BlocksIn(<<>>, S)
      BY <2>1, BlocksInEmpty, Zenon
    <2> QED
      BY <2>2
  <1>2. ASSUME NEW u \in Seq(A), NEW e \in A, u \in P PROVE Append(u, e) \in P
    <2> DEFINE b == BlocksIn(s, S)
               c == BlocksIn(u, S)
    <2>1. s \o Append(u, e) = Append(s \o u, e) /\ s \o u \in Seq(A)
      OBVIOUS
    <2>2. BlocksIn(s \o u, S) = b \o c
      BY <1>2
    <2>3. c \in Seq(A)
      BY BlocksInType
    <2>4. BlocksIn(Append(s \o u, e), S) =
            IF e \in S THEN Append(BlocksIn(s \o u, S), e) ELSE BlocksIn(s \o u, S)
      BY <2>1, BlocksInAppend
    <2>5. BlocksIn(Append(u, e), S) = IF e \in S THEN Append(c, e) ELSE c
      BY BlocksInAppend
    <2> HIDE DEF b, c
    <2>6. b \o Append(c, e) = Append(b \o c, e)
      BY <1>0, <2>3 DEF b
    <2>7. BlocksIn(s \o Append(u, e), S) = b \o BlocksIn(Append(u, e), S)
      BY <2>1, <2>2, <2>4, <2>5, <2>6, Zenon
    <2>8. Append(u, e) \in Seq(A)
      OBVIOUS
    <2> QED
      BY <2>7, <2>8 DEF b
  <1>3. t \in P
    <2> HIDE DEF P
    <2> QED
      BY <1>1, <1>2, SequenceInduction
  <1> QED
    BY <1>3

(* u is the block e between s and t. *)
IsBetween(A, u, s, e, t) ==
    /\ u \in Seq(A)
    /\ Len(u) = Len(s) + 1 + Len(t)
    /\ \A k \in 1..Len(s) + 1 + Len(t) :
         u[k] = IF k <= Len(s) THEN s[k]
                ELSE IF k = Len(s) + 1 THEN e
                ELSE t[k - (Len(s) + 1)]

LEMMA Between ==
  ASSUME NEW A, NEW s \in Seq(A), NEW t \in Seq(A), NEW e \in A
  PROVE  IsBetween(A, s \o <<e>> \o t, s, e, t)
  <1> DEFINE u == s \o <<e>>
  <1>1. <<e>> \in Seq(A) /\ Len(<<e>>) = 1 /\ <<e>>[1] = e
    OBVIOUS
  <1>2. /\ u \in Seq(A) /\ Len(u) = Len(s) + 1
        /\ \A k \in 1..Len(s) + 1 : u[k] = IF k <= Len(s) THEN s[k] ELSE e
    OBVIOUS
  <1> HIDE DEF u
  <1>3. /\ u \o t \in Seq(A) /\ Len(u \o t) = Len(u) + Len(t)
        /\ \A k \in 1..Len(u) + Len(t) :
             (u \o t)[k] = IF k <= Len(u) THEN u[k] ELSE t[k - Len(u)]
    BY <1>2, ConcatProperties
  <1>4. Len(s) \in Nat /\ Len(t) \in Nat
    OBVIOUS
  <1> DEFINE v == u \o t
  <1>5. v \in Seq(A) /\ Len(v) = Len(s) + 1 + Len(t)
    BY <1>2, <1>3, <1>4
  <1>6. ASSUME NEW k \in 1..Len(s) + 1 + Len(t)
        PROVE  v[k] = IF k <= Len(s) THEN s[k]
                      ELSE IF k = Len(s) + 1 THEN e
                      ELSE t[k - (Len(s) + 1)]
    BY <1>2, <1>3, <1>4
  <1> HIDE DEF v
  <1>7. IsBetween(A, v, s, e, t)
    BY <1>5, <1>6 DEF IsBetween
  <1> QED
    BY <1>7 DEF u, v

(* A sequence cut before position i, and around it. *)
LEMMA CutBefore ==
  ASSUME NEW A, NEW s \in Seq(A), NEW i \in 1..Len(s) + 1
  PROVE  /\ SubSeq(s, 1, i - 1) \in Seq(A) /\ Len(SubSeq(s, 1, i - 1)) = i - 1
         /\ SubSeq(s, i, Len(s)) \in Seq(A)
         /\ Len(SubSeq(s, i, Len(s))) = Len(s) - i + 1
         /\ s = SubSeq(s, 1, i - 1) \o SubSeq(s, i, Len(s))
  <1> DEFINE a == SubSeq(s, 1, i - 1)
             b == SubSeq(s, i, Len(s))
  <1>1. /\ a \in Seq(A) /\ Len(a) = i - 1
        /\ \A k \in 1..i - 1 : a[k] = s[k]
    OBVIOUS
  <1>2. /\ b \in Seq(A) /\ Len(b) = Len(s) - i + 1
        /\ \A k \in 1..Len(s) - i + 1 : b[k] = s[i + k - 1]
    OBVIOUS
  <1> HIDE DEF a, b
  <1>3. /\ a \o b \in Seq(A) /\ Len(a \o b) = Len(a) + Len(b)
        /\ \A k \in 1..Len(a) + Len(b) :
             (a \o b)[k] = IF k <= Len(a) THEN a[k] ELSE b[k - Len(a)]
    BY <1>1, <1>2, ConcatProperties
  <1> DEFINE u == a \o b
  <1>4. /\ u \in Seq(A) /\ Len(u) = Len(a) + Len(b)
        /\ \A k \in 1..Len(a) + Len(b) :
             u[k] = IF k <= Len(a) THEN a[k] ELSE b[k - Len(a)]
    BY <1>3
  <1> HIDE DEF u
  <1>7. Len(s) \in Nat /\ i \in Nat /\ Len(a) + Len(b) = Len(s)
    BY <1>1, <1>2
  <1>8. Len(u) = Len(s)
    BY <1>4, <1>7
  <1>5. ASSUME NEW k \in 1..Len(s) PROVE u[k] = s[k]
    <2>1. CASE k <= i - 1
      BY <2>1, <1>1, <1>4, <1>7
    <2>2. CASE k > i - 1
      <3>1. u[k] = b[k - (i - 1)]
        BY <2>2, <1>1, <1>4, <1>7
      <3>2. k - (i - 1) \in 1..Len(s) - i + 1 /\ i + (k - (i - 1)) - 1 = k
        BY <2>2, <1>7
      <3> QED
        BY <3>1, <3>2, <1>2
    <2> QED
      BY <1>7, <2>1, <2>2
  <1>6. s = u
    BY <1>4, <1>5, <1>8, SeqEqual
  <1> QED
    BY <1>1, <1>2, <1>6 DEF a, b, u

LEMMA ReplacedBetween ==
  ASSUME NEW A, NEW s \in Seq(A), NEW i \in 1..Len(s), NEW e \in A
  PROVE  [s EXCEPT ![i] = e] =
           SubSeq(s, 1, i - 1) \o <<e>> \o SubSeq(s, i + 1, Len(s))
  <1> DEFINE a == SubSeq(s, 1, i - 1)
             b == SubSeq(s, i + 1, Len(s))
  <1>1. /\ a \in Seq(A) /\ Len(a) = i - 1
        /\ \A k \in 1..i - 1 : a[k] = s[k]
    OBVIOUS
  <1>2. /\ b \in Seq(A) /\ Len(b) = Len(s) - i
        /\ \A k \in 1..Len(s) - i : b[k] = s[i + k]
    OBVIOUS
  <1> HIDE DEF a, b
  <1>3. [s EXCEPT ![i] = e] = a \o <<e>> \o b
    <2> DEFINE t == [s EXCEPT ![i] = e]
               u == a \o <<e>> \o b
    <2>1. /\ t \in Seq(A) /\ Len(t) = Len(s)
          /\ \A k \in 1..Len(s) : t[k] = IF k = i THEN e ELSE s[k]
      BY ExceptSeq
    <2>2. IsBetween(A, u, a, e, b)
      BY <1>1, <1>2, Between
    <2>6. /\ u \in Seq(A) /\ Len(u) = Len(s)
          /\ \A k \in 1..Len(s) :
               u[k] = IF k <= i - 1 THEN a[k] ELSE IF k = i THEN e ELSE b[k - i]
      <3> HIDE DEF u
      <3> QED
        BY <1>1, <1>2, <2>2 DEF IsBetween
    <2> HIDE DEF t, u
    <2>3. Len(u) = Len(t)
      BY <2>1, <2>6
    <2>4. ASSUME NEW k \in 1..Len(t) PROVE t[k] = u[k]
      <3>1. CASE k < i
        BY <3>1, <1>1, <2>1, <2>6
      <3>2. CASE k = i
        BY <3>2, <2>1, <2>6
      <3>3. CASE k > i
        <4>1. u[k] = b[k - i] /\ t[k] = s[k]
          BY <3>3, <2>1, <2>6
        <4>2. k - i \in 1..Len(s) - i /\ i + (k - i) = k
          BY <3>3, <2>1
        <4> QED
          BY <4>1, <4>2, <1>2
      <3> QED
        BY <2>1, <3>1, <3>2, <3>3
    <2>5. t = u
      BY <2>1, <2>6, <2>3, <2>4, SeqEqual
    <2> QED
      BY <2>5 DEF t, u
  <1> QED
    BY <1>3 DEF a, b

LEMMA CutAround ==
  ASSUME NEW A, NEW s \in Seq(A), NEW i \in 1..Len(s)
  PROVE  /\ SubSeq(s, 1, i - 1) \in Seq(A) /\ Len(SubSeq(s, 1, i - 1)) = i - 1
         /\ SubSeq(s, i + 1, Len(s)) \in Seq(A)
         /\ Len(SubSeq(s, i + 1, Len(s))) = Len(s) - i
         /\ s[i] \in A
         /\ s = SubSeq(s, 1, i - 1) \o <<s[i]>> \o SubSeq(s, i + 1, Len(s))
  <1>1. s[i] \in A /\ [s EXCEPT ![i] = s[i]] = s
    OBVIOUS
  <1>2. s = SubSeq(s, 1, i - 1) \o <<s[i]>> \o SubSeq(s, i + 1, Len(s))
    <2> DEFINE e == s[i]
    <2>1. e \in A
      BY <1>1
    <2> HIDE DEF e
    <2>2. [s EXCEPT ![i] = e] =
             SubSeq(s, 1, i - 1) \o <<e>> \o SubSeq(s, i + 1, Len(s))
      BY <2>1, ReplacedBetween
    <2> QED
      BY <1>1, <2>2, Zenon DEF e
  <1>3. /\ SubSeq(s, 1, i - 1) \in Seq(A) /\ Len(SubSeq(s, 1, i - 1)) = i - 1
        /\ SubSeq(s, i + 1, Len(s)) \in Seq(A)
        /\ Len(SubSeq(s, i + 1, Len(s))) = Len(s) - i
    OBVIOUS
  <1> QED
    BY <1>1, <1>2, <1>3, Zenon

(* One block between two parts makes no difference when it is not chosen. *)
LEMMA NotChosen ==
  ASSUME NEW A, NEW s \in Seq(A), NEW t \in Seq(A), NEW e \in A, NEW S, e \notin S
  PROVE  BlocksIn(s \o <<e>> \o t, S) = BlocksIn(s \o t, S)
  <1> DEFINE x == <<e>>
             u == s \o x
  <1>1. x = Append(<<>>, e) /\ <<>> \in Seq(A) /\ x \in Seq(A) /\ u \in Seq(A)
    OBVIOUS
  <1> HIDE DEF x, u
  <1>2. BlocksIn(x, S) = <<>>
    <2>1. BlocksIn(Append(<<>>, e), S) =
            IF e \in S THEN Append(BlocksIn(<<>>, S), e) ELSE BlocksIn(<<>>, S)
      BY <1>1, BlocksInAppend, Zenon
    <2> QED
      BY <1>1, <2>1, BlocksInEmpty, Zenon
  <1>3. BlocksIn(u \o t, S) = BlocksIn(u, S) \o BlocksIn(t, S)
    BY <1>1, BlocksInConcat
  <1>4. BlocksIn(u, S) = BlocksIn(s, S) \o <<>>
    <2>0. x \in Seq(A)
      BY <1>1
    <2>1. BlocksIn(s \o x, S) = BlocksIn(s, S) \o BlocksIn(x, S)
      BY <2>0, BlocksInConcat
    <2> QED
      BY <1>2, <2>1 DEF u
  <1>5. BlocksIn(s, S) \o <<>> = BlocksIn(s, S)
    <2>1. BlocksIn(s, S) \in Seq(A)
      BY BlocksInType
    <2> QED
      BY <2>1
  <1>6. BlocksIn(s \o t, S) = BlocksIn(s, S) \o BlocksIn(t, S)
    BY BlocksInConcat
  <1>7. BlocksIn(u \o t, S) = BlocksIn(s \o t, S)
    BY <1>3, <1>4, <1>5, <1>6
  <1> QED
    BY <1>7 DEF u, x

(* A block is inserted, or removed, or replaced, and the blocks in S stay,  *)
(* in their order.                                                          *)
LEMMA InsertKeeps ==
  ASSUME NEW A, NEW s \in Seq(A), NEW i \in 1..Len(s) + 1, NEW e \in A,
         NEW S, e \notin S
  PROVE  /\ InsertAt(s, i, e) \in Seq(A)
         /\ Len(InsertAt(s, i, e)) = Len(s) + 1
         /\ BlocksIn(InsertAt(s, i, e), S) = BlocksIn(s, S)
  <1> DEFINE a == SubSeq(s, 1, i - 1)
             b == SubSeq(s, i, Len(s))
  <1>1. /\ a \in Seq(A) /\ Len(a) = i - 1 /\ b \in Seq(A)
        /\ Len(b) = Len(s) - i + 1 /\ s = a \o b
    BY CutBefore
  <1>2. InsertAt(s, i, e) = a \o <<e>> \o b
    BY DEF InsertAt
  <1> HIDE DEF a, b
  <1>3. BlocksIn(a \o <<e>> \o b, S) = BlocksIn(a \o b, S)
    BY <1>1, NotChosen
  <1>4. a \o <<e>> \o b \in Seq(A) /\ Len(a \o <<e>> \o b) = Len(s) + 1
    BY <1>1
  <1> QED
    BY <1>1, <1>2, <1>3, <1>4

LEMMA RemoveKeeps ==
  ASSUME NEW A, NEW s \in Seq(A), NEW i \in 1..Len(s), NEW S, s[i] \notin S
  PROVE  /\ RemoveAt(s, i) \in Seq(A)
         /\ Len(RemoveAt(s, i)) = Len(s) - 1
         /\ BlocksIn(RemoveAt(s, i), S) = BlocksIn(s, S)
  <1> DEFINE a == SubSeq(s, 1, i - 1)
             b == SubSeq(s, i + 1, Len(s))
  <1>1. /\ a \in Seq(A) /\ Len(a) = i - 1 /\ b \in Seq(A)
        /\ Len(b) = Len(s) - i /\ s[i] \in A /\ s = a \o <<s[i]>> \o b
    BY CutAround
  <1>2. RemoveAt(s, i) = a \o b
    BY DEF RemoveAt
  <1> HIDE DEF a, b
  <1>3. BlocksIn(a \o <<s[i]>> \o b, S) = BlocksIn(a \o b, S)
    BY <1>1, NotChosen
  <1>4. a \o b \in Seq(A) /\ Len(a \o b) = Len(s) - 1
    <2>1. a \in Seq(A) /\ b \in Seq(A) /\ Len(a) + Len(b) = Len(s) - 1
      BY <1>1
    <2> QED
      BY <2>1
  <1>5. BlocksIn(s, S) = BlocksIn(a \o b, S)
    BY <1>1, <1>3
  <1> QED
    BY <1>2, <1>4, <1>5

LEMMA ReplaceKeeps ==
  ASSUME NEW A, NEW s \in Seq(A), NEW i \in 1..Len(s), NEW e \in A,
         NEW S, s[i] \notin S, e \notin S
  PROVE  /\ [s EXCEPT ![i] = e] \in Seq(A)
         /\ Len([s EXCEPT ![i] = e]) = Len(s)
         /\ BlocksIn([s EXCEPT ![i] = e], S) = BlocksIn(s, S)
  <1> DEFINE a == SubSeq(s, 1, i - 1)
             b == SubSeq(s, i + 1, Len(s))
  <1>1. /\ a \in Seq(A) /\ Len(a) = i - 1 /\ b \in Seq(A)
        /\ Len(b) = Len(s) - i /\ s[i] \in A /\ s = a \o <<s[i]>> \o b
    BY CutAround
  <1>2. [s EXCEPT ![i] = e] \in Seq(A) /\ Len([s EXCEPT ![i] = e]) = Len(s)
    OBVIOUS
  <1>3. [s EXCEPT ![i] = e] = a \o <<e>> \o b
    BY ReplacedBetween
  <1> HIDE DEF a, b
  <1>4. BlocksIn(a \o <<s[i]>> \o b, S) = BlocksIn(a \o b, S)
    BY <1>1, NotChosen
  <1>5. BlocksIn(a \o <<e>> \o b, S) = BlocksIn(a \o b, S)
    BY <1>1, NotChosen
  <1>6. BlocksIn(s, S) = BlocksIn(a \o b, S)
    BY <1>1, <1>4
  <1> QED
    BY <1>2, <1>3, <1>5, <1>6

-------------------------------------------------------------------------------
(* Operations and patches *)

(* The position BlockIndex finds is that of a block with the id. *)
LEMMA BlockIndexFinds ==
  ASSUME NEW A, NEW s \in Seq(A), NEW id, BlockIndex(s, id) # 0
  PROVE  BlockIndex(s, id) \in 1..Len(s) /\ s[BlockIndex(s, id)].id = id
  <1> DEFINE I == {i \in 1..Len(s) : s[i].id = id}
  <1>1. BlockIndex(s, id) = IF I # {} THEN Min(I) ELSE 0
    BY DEF BlockIndex, SelectInSeq
  <1>2. I # {}
    BY <1>1
  <1>3. I \subseteq Nat
    OBVIOUS
  <1>4. BlockIndex(s, id) = CHOOSE x \in I : \A y \in I : x <= y
    BY <1>1, <1>2 DEF Min
  <1>5. \E x \in I : \A y \in I : x <= y
    <2> HIDE DEF I
    <2> QED
      BY <1>2, <1>3, LeastElement
  <1>6. BlockIndex(s, id) \in I
    <2> HIDE DEF I
    <2> QED
      BY <1>4, <1>5
  <1> QED
    BY <1>6

(* What InputsAssumption says of an operation, and the id it names. *)
OpOK(op) ==
    /\ op.op = "insert_block" => op.block \in Blocks
    /\ op.op = "replace_block" => op.content \in {0, 1}

Named(op) == IF op.op = "insert_block" THEN op.block.id ELSE op.block_id

(* By how much an operation changes the length of a document. *)
Growth(op) ==
    IF op.op = "insert_block" THEN 1 ELSE IF op.op = "delete_block" THEN -1 ELSE 0

(* A valid operation makes a document of a document and touches no block    *)
(* but those with the id it names.                                          *)
LEMMA OpEffect ==
  ASSUME NEW d \in Seq(Blocks), NEW op, OpOK(op), ValidOp(d, op),
         NEW S, \A b \in Blocks : b.id = Named(op) => b \notin S
  PROVE  /\ ApplyOp(d, op) \in Seq(Blocks)
         /\ Len(ApplyOp(d, op)) = Len(d) + Growth(op)
         /\ BlocksIn(ApplyOp(d, op), S) = BlocksIn(d, S)
  <1>0. Len(d) \in Nat
    OBVIOUS
  <1>1. CASE op.op = "insert_block"
    <2> DEFINE i == InsertAtPosition(d, op)
    <2>1. ApplyOp(d, op) = InsertAt(d, i, op.block)
      BY <1>1 DEF ApplyOp
    <2>2. i \in 1..Len(d) + 1
      BY <1>1 DEF ValidOp
    <2>3. op.block \in Blocks /\ op.block \notin S /\ Growth(op) = 1
      BY <1>1 DEF OpOK, Named, Growth
    <2> HIDE DEF i
    <2> QED
      BY <2>1, <2>2, <2>3, InsertKeeps
  <1> DEFINE at == BlockIndex(d, op.block_id)
  <1>2. ASSUME op.op \in {"replace_block", "move_block", "delete_block"}
        PROVE  at \in 1..Len(d) /\ d[at] \in Blocks /\ d[at] \notin S
    <2>1. at # 0
      BY <1>2 DEF ValidOp
    <2>2. at \in 1..Len(d) /\ d[at].id = op.block_id
      BY <2>1, BlockIndexFinds
    <2>3. d[at] \in Blocks
      BY <2>2, ElementOfSeq
    <2>4. Named(op) = op.block_id
      BY <1>2 DEF Named
    <2> QED
      BY <2>2, <2>3, <2>4
  <1>3. CASE op.op = "delete_block"
    <2>1. ApplyOp(d, op) = RemoveAt(d, at)
      BY <1>3 DEF ApplyOp
    <2>2. Growth(op) = -1
      BY <1>3 DEF Growth
    <2>3. at \in 1..Len(d) /\ d[at] \notin S
      BY <1>2, <1>3
    <2> HIDE DEF at
    <2>4. /\ RemoveAt(d, at) \in Seq(Blocks)
          /\ Len(RemoveAt(d, at)) = Len(d) - 1
          /\ BlocksIn(RemoveAt(d, at), S) = BlocksIn(d, S)
      BY <2>3, RemoveKeeps
    <2> QED
      BY <1>0, <2>1, <2>2, <2>4
  <1>4. CASE op.op = "replace_block"
    <2> DEFINE e == [d[at] EXCEPT !.content = op.content]
    <2>1. at \in 1..Len(d) /\ d[at] \in Blocks /\ d[at] \notin S
      BY <1>2, <1>4
    <2>2. ApplyOp(d, op) = [d EXCEPT ![at] = e]
      BY <1>4, <2>1 DEF ApplyOp
    <2>3. op.content \in {0, 1}
      BY <1>4 DEF OpOK
    <2>4. e \in Blocks /\ e.id = d[at].id
      BY <2>1, <2>3 DEF Blocks
    <2>5. d[at].id = op.block_id
      <3>1. at # 0
        BY <2>1
      <3> QED
        BY <3>1, BlockIndexFinds
    <2>6. e \notin S
      BY <1>4, <2>4, <2>5 DEF Named
    <2>7. Growth(op) = 0
      BY <1>4 DEF Growth
    <2> HIDE DEF at, e
    <2>8. /\ [d EXCEPT ![at] = e] \in Seq(Blocks)
          /\ Len([d EXCEPT ![at] = e]) = Len(d)
          /\ BlocksIn([d EXCEPT ![at] = e], S) = BlocksIn(d, S)
      BY <2>1, <2>4, <2>6, ReplaceKeeps
    <2> QED
      BY <1>0, <2>2, <2>7, <2>8
  <1>5. CASE op.op = "move_block"
    <2> DEFINE r == RemoveAt(d, at)
               i == op.to_index + 1
    <2>1. at \in 1..Len(d) /\ d[at] \in Blocks /\ d[at] \notin S
      BY <1>2, <1>5
    <2>2. ApplyOp(d, op) = InsertAt(r, i, d[at])
      BY <1>5 DEF ApplyOp
    <2>3. op.to_index \in 0..Len(d) - 1
      BY <1>5 DEF ValidOp
    <2>4. Growth(op) = 0
      BY <1>5 DEF Growth
    <2> HIDE DEF at
    <2>5. /\ r \in Seq(Blocks) /\ Len(r) = Len(d) - 1
          /\ BlocksIn(r, S) = BlocksIn(d, S)
      BY <2>1, RemoveKeeps
    <2>6. i \in 1..Len(r) + 1
      BY <1>0, <2>3, <2>5
    <2> HIDE DEF r, i
    <2> DEFINE e == d[at]
    <2>7. e \in Blocks /\ e \notin S
      BY <2>1
    <2> HIDE DEF e
    <2>8. /\ InsertAt(r, i, e) \in Seq(Blocks)
          /\ Len(InsertAt(r, i, e)) = Len(r) + 1
          /\ BlocksIn(InsertAt(r, i, e), S) = BlocksIn(r, S)
      BY <2>5, <2>6, <2>7, InsertKeeps
    <2> QED
      BY <1>0, <2>2, <2>4, <2>5, <2>8 DEF e
  <1>6. op.op \in {"insert_block", "replace_block", "move_block", "delete_block"}
    BY DEF ValidOp
  <1> QED
    BY <1>1, <1>3, <1>4, <1>5, <1>6

(* A document, or the failure of a patch. *)
Outcome == [ok : BOOLEAN, blocks : Seq(Blocks)]

(* An operation on the outcome of those before it. *)
Applied(d, op) ==
    IF d.ok /\ ValidOp(d.blocks, op)
    THEN [ok |-> TRUE, blocks |-> ApplyOp(d.blocks, op)]
    ELSE [ok |-> FALSE, blocks |-> <<>>]

LEMMA AppliedType ==
  ASSUME NEW d \in Outcome, NEW op, OpOK(op)
  PROVE  Applied(d, op) \in Outcome
  <1>1. CASE d.ok /\ ValidOp(d.blocks, op)
    <2>1. d.blocks \in Seq(Blocks)
      BY DEF Outcome
    <2>2. ApplyOp(d.blocks, op) \in Seq(Blocks)
      <3> DEFINE x == d.blocks
                 none == {}
      <3>1. \A b \in Blocks : b.id = Named(op) => b \notin none
        OBVIOUS
      <3>2. x \in Seq(Blocks) /\ ValidOp(x, op)
        BY <1>1, <2>1
      <3> HIDE DEF x, none
      <3>3. ApplyOp(x, op) \in Seq(Blocks)
        BY <3>1, <3>2, OpEffect
      <3> QED
        BY <3>3 DEF x
    <2> QED
      BY <1>1, <2>2 DEF Applied, Outcome
  <1>2. CASE ~(d.ok /\ ValidOp(d.blocks, op))
    BY <1>2 DEF Applied, Outcome
  <1> QED
    BY <1>1, <1>2

(* after is what the loop of ApplyPatch has after n operations. *)
IsAfter(document, ops, after) ==
    after = [n \in 0 .. Len(ops) |->
               IF n = 0 THEN [ok |-> TRUE, blocks |-> document]
               ELSE IF after[n - 1].ok /\ ValidOp(after[n - 1].blocks, ops[n])
                    THEN [ok |-> TRUE, blocks |-> ApplyOp(after[n - 1].blocks, ops[n])]
                    ELSE [ok |-> FALSE, blocks |-> <<>>]]

(* The rounds of that loop. *)
PatchRounds(document, ops, f) ==
    /\ f \in [0..Len(ops) -> Outcome]
    /\ ApplyPatch(document, ops) = f[Len(ops)]
    /\ f[0] = [ok |-> TRUE, blocks |-> document]
    /\ \A n \in 1..Len(ops) : f[n] = Applied(f[n - 1], ops[n])

LEMMA ApplyPatchLoop ==
  ASSUME NEW document \in Seq(Blocks), NEW ops, Len(ops) \in Nat,
         \A k \in 1..Len(ops) : OpOK(ops[k])
  PROVE  \E f : PatchRounds(document, ops, f)
  <1> DEFINE N == Len(ops)
             v0 == [ok |-> TRUE, blocks |-> document]
             g == [n \in 1..N |-> [v \in Outcome |-> Applied(v, ops[n])]]
  <1>1. N \in Nat /\ v0 \in Outcome
    BY DEF Outcome
  <1>2. g \in [1..N -> [Outcome -> Outcome]]
    BY AppliedType
  <1>3. \A n \in 1..N : \A v \in Outcome : g[n][v] = Applied(v, ops[n])
    OBVIOUS
  <1> HIDE DEF N, v0, g
  <1>4. PICK f \in [0..N -> Outcome] : f[0] = v0 /\ \A n \in 1..N : f[n] = g[n][f[n - 1]]
    <2>1. PICK f : IsLoop(N, Outcome, v0, g, f)
      BY <1>1, <1>2, LoopFunction
    <2> QED
      BY <2>1 DEF IsLoop
  <1>5. ASSUME NEW n \in 1..N PROVE f[n] = Applied(f[n - 1], ops[n])
    <2>1. f[n] = g[n][f[n - 1]] /\ f[n - 1] \in Outcome
      BY <1>1, <1>4
    <2> QED
      BY <1>3, <2>1
  <1>6. IsAfter(document, ops, f)
    <2>1. f = [n \in 0..N |-> f[n]]
      OBVIOUS
    <2>2. ASSUME NEW n \in 0..N
          PROVE  f[n] = IF n = 0 THEN v0 ELSE Applied(f[n - 1], ops[n])
      <3>1. CASE n = 0
        BY <1>4, <3>1
      <3>2. CASE n \in 1..N
        BY <1>5, <3>2
      <3> QED
        BY <1>1, <3>1, <3>2
    <2>3. f = [n \in 0..N |-> IF n = 0 THEN v0 ELSE Applied(f[n - 1], ops[n])]
      BY <2>1, <2>2
    <2> QED
      BY <2>3, Zenon DEF IsAfter, Applied, v0, N
  <1> DEFINE h == CHOOSE x : IsAfter(document, ops, x)
  <1>7. IsAfter(document, ops, h)
    BY <1>6, Zenon
  <1>8. ApplyPatch(document, ops) = h[Len(ops)]
    BY Zenon DEF ApplyPatch, IsAfter
  <1> HIDE DEF h
  <1>9. h = [n \in 0..N |-> IF n = 0 THEN v0 ELSE Applied(h[n - 1], ops[n])]
    BY <1>7, Zenon DEF IsAfter, Applied, v0, N
  <1>10. h = f
    <2> DEFINE E == {n \in Nat : n <= N => h[n] = f[n]}
    <2>1. 0 \in E
      BY <1>1, <1>4, <1>9
    <2>2. ASSUME NEW n \in Nat, n \in E PROVE n + 1 \in E
      <3> SUFFICES ASSUME n + 1 <= N PROVE h[n + 1] = f[n + 1]
        OBVIOUS
      <3>1. n + 1 \in 1..N /\ n + 1 \in 0..N /\ (n + 1) - 1 = n /\ n + 1 # 0
        BY <1>1
      <3>2. h[n] = f[n]
        <4>1. n <= N
          BY <1>1, <3>1
        <4> QED
          BY <2>2, <4>1
      <3>3. h[n + 1] = Applied(h[n], ops[n + 1])
        BY <1>9, <3>1
      <3>4. f[n + 1] = Applied(f[n], ops[n + 1])
        BY <1>5, <3>1
      <3> QED
        BY <3>2, <3>3, <3>4
    <2>3. Nat \subseteq E
      <3> HIDE DEF E
      <3> QED
        BY <2>1, <2>2, SetInduction
    <2>4. \A n \in 0..N : h[n] = f[n]
      BY <1>1, <2>3
    <2>5. h = [n \in 0..N |-> h[n]]
      BY <1>9
    <2>6. f = [n \in 0..N |-> f[n]]
      OBVIOUS
    <2> QED
      BY <2>4, <2>5, <2>6
  <1>11. PatchRounds(document, ops, f)
    BY <1>4, <1>5, <1>8, <1>10 DEF PatchRounds, N, v0
  <1> QED
    BY <1>11

(* One more element of a set of positions, or none. *)
LEMMA CountStep ==
  ASSUME NEW n \in Nat, NEW K
  PROVE  /\ Cardinality({k \in 1..n : k \in K}) \in Nat
         /\ Cardinality({k \in 1..n + 1 : k \in K}) =
              Cardinality({k \in 1..n : k \in K}) + (IF n + 1 \in K THEN 1 ELSE 0)
  <1> DEFINE M == {k \in 1..n : k \in K}
             L == {k \in 1..n + 1 : k \in K}
  <1>1. IsFiniteSet(1..n)
    BY FS_Interval
  <1>2. M \subseteq 1..n
    OBVIOUS
  <1>3. IsFiniteSet(M)
    BY <1>1, <1>2, FS_Subset
  <1>4. Cardinality(M) \in Nat
    BY <1>3, FS_CardinalityType
  <1>5. CASE n + 1 \in K
    <2>1. L = M \cup {n + 1} /\ n + 1 \notin M
      BY <1>5
    <2> HIDE DEF L, M
    <2>2. Cardinality(L) = Cardinality(M) + 1
      BY <1>3, <2>1, FS_AddElement
    <2> QED
      BY <1>4, <1>5, <2>2 DEF L, M
  <1>6. CASE n + 1 \notin K
    <2>1. L = M
      BY <1>6
    <2> HIDE DEF L, M
    <2>2. Cardinality(L) = Cardinality(M) + 0
      BY <1>4, <2>1
    <2> QED
      BY <1>4, <1>6, <2>2 DEF L, M
  <1> QED
    BY <1>5, <1>6

(* The insertions less the deletions among the first n operations. *)
Balance(ops, n) ==
    Cardinality({k \in 1..n : k \in OpsOf(ops, "insert_block")})
    - Cardinality({k \in 1..n : k \in OpsOf(ops, "delete_block")})

LEMMA BalanceStart ==
  ASSUME NEW ops
  PROVE  Balance(ops, 0) = 0
  <1>1. /\ {k \in 1..0 : k \in OpsOf(ops, "insert_block")} = {}
        /\ {k \in 1..0 : k \in OpsOf(ops, "delete_block")} = {}
    OBVIOUS
  <1>2. Cardinality({}) = 0
    BY FS_EmptySet
  <1> QED
    BY <1>1, <1>2 DEF Balance

LEMMA BalanceStep ==
  ASSUME NEW ops, NEW n \in Nat, n + 1 \in DOMAIN ops
  PROVE  /\ Balance(ops, n) \in Int
         /\ Balance(ops, n + 1) = Balance(ops, n) + Growth(ops[n + 1])
  <1> DEFINE I == OpsOf(ops, "insert_block")
             D == OpsOf(ops, "delete_block")
             i0 == Cardinality({k \in 1..n : k \in I})
             d0 == Cardinality({k \in 1..n : k \in D})
             i1 == Cardinality({k \in 1..n + 1 : k \in I})
             d1 == Cardinality({k \in 1..n + 1 : k \in D})
  <1>1. /\ n + 1 \in I <=> ops[n + 1].op = "insert_block"
        /\ n + 1 \in D <=> ops[n + 1].op = "delete_block"
    BY DEF OpsOf
  <1>2. Balance(ops, n) = i0 - d0 /\ Balance(ops, n + 1) = i1 - d1
    BY DEF Balance
  <1> HIDE DEF I, D
  <1>3. i0 \in Nat /\ i1 = i0 + (IF n + 1 \in I THEN 1 ELSE 0)
    BY CountStep
  <1>4. d0 \in Nat /\ d1 = d0 + (IF n + 1 \in D THEN 1 ELSE 0)
    BY CountStep
  <1> HIDE DEF i0, d0, i1, d1
  <1>5. Growth(ops[n + 1]) = (IF n + 1 \in I THEN 1 ELSE 0)
                             - (IF n + 1 \in D THEN 1 ELSE 0)
    BY <1>1 DEF Growth
  <1> QED
    BY <1>2, <1>3, <1>4, <1>5

(* What is not named by the operations of a patch. *)
NotNamed(ops) == {b \in Blocks : b.id \notin NamedBy(ops)}

(* A patch makes a document of a document, or fails. *)
LEMMA PatchType ==
  ASSUME NEW document \in Seq(Blocks), NEW ops \in Patches
  PROVE  ApplyPatch(document, ops) \in Outcome
  <1>1. Len(ops) \in Nat /\ \A k \in 1..Len(ops) : OpOK(ops[k])
    BY InputsAssumption DEF OpOK
  <1>2. PICK f : PatchRounds(document, ops, f)
    BY <1>1, ApplyPatchLoop
  <1>3. Len(ops) \in 0..Len(ops)
    BY <1>1
  <1> QED
    BY <1>2, <1>3 DEF PatchRounds

(* A patch that applies leaves the blocks it does not name as they were, in *)
(* their order, and the length tells the insertions from the deletions.     *)
LEMMA PatchEffect ==
  ASSUME NEW document \in Seq(Blocks), NEW ops \in Patches,
         ApplyPatch(document, ops).ok
  PROVE  LET blocks == ApplyPatch(document, ops).blocks IN
         /\ BlocksIn(blocks, NotNamed(ops)) = BlocksIn(document, NotNamed(ops))
         /\ Len(blocks) = Len(document)
                          + Cardinality(OpsOf(ops, "insert_block"))
                          - Cardinality(OpsOf(ops, "delete_block"))
  <1> DEFINE N == Len(ops)
             S == NotNamed(ops)
             Kept(n, d) == /\ d.ok
                           /\ BlocksIn(d.blocks, S) = BlocksIn(document, S)
                           /\ Len(d.blocks) = Len(document) + Balance(ops, n)
  <1>1. /\ N \in Nat /\ DOMAIN ops = 1..N
        /\ \A k \in 1..N : OpOK(ops[k])
    BY InputsAssumption DEF OpOK
  <1>2. PICK f : PatchRounds(document, ops, f)
    BY <1>1, ApplyPatchLoop
  <1>3. /\ f \in [0..N -> Outcome] /\ ApplyPatch(document, ops) = f[N]
        /\ f[0] = [ok |-> TRUE, blocks |-> document]
        /\ \A n \in 1..N : f[n] = Applied(f[n - 1], ops[n])
    BY <1>2 DEF PatchRounds
  <1> DEFINE E == {n \in Nat : n <= N => (f[n].ok => Kept(n, f[n]))}
  <1> HIDE DEF N, S
  <1>4. 0 \in E
    <2>1. f[0].ok /\ f[0].blocks = document
      BY <1>3
    <2>2. Len(document) \in Nat
      OBVIOUS
    <2>3. Kept(0, f[0])
      BY <2>1, <2>2, BalanceStart
    <2> QED
      BY <2>3
  <1>5. ASSUME NEW n \in Nat, n \in E PROVE n + 1 \in E
    <2> DEFINE d == f[n]
               op == ops[n + 1]
    <2> SUFFICES ASSUME n + 1 <= N, f[n + 1].ok PROVE Kept(n + 1, f[n + 1])
      OBVIOUS
    <2>1. n <= N /\ n \in 0..N /\ n + 1 \in 1..N /\ (n + 1) - 1 = n
      BY <1>1
    <2>2. f[n + 1] = Applied(d, op)
      BY <1>3, <2>1
    <2>3. d.ok => Kept(n, d)
      BY <1>5, <2>1
    <2>4. d \in Outcome /\ OpOK(op) /\ n + 1 \in DOMAIN ops
      BY <1>1, <1>3, <2>1
    <2>5. Named(op) \in NamedBy(ops)
      BY <2>4 DEF NamedBy, Named
    <2>6. \A b \in Blocks : b.id = Named(op) => b \notin S
      BY <2>5 DEF S, NotNamed
    <2>7. /\ Balance(ops, n) \in Int
          /\ Balance(ops, n + 1) = Balance(ops, n) + Growth(op)
      BY <2>4, BalanceStep
    <2> HIDE DEF E, d, op
    <2>8. /\ d.ok /\ ValidOp(d.blocks, op)
          /\ f[n + 1] = [ok |-> TRUE, blocks |-> ApplyOp(d.blocks, op)]
      <3>1. CASE ~(d.ok /\ ValidOp(d.blocks, op))
        BY <2>2, <3>1 DEF Applied
      <3> QED
        BY <2>2, <3>1 DEF Applied
    <2> DEFINE x == d.blocks
    <2>9. x \in Seq(Blocks) /\ ValidOp(x, op)
      BY <2>4, <2>8 DEF Outcome
    <2>10. /\ BlocksIn(x, S) = BlocksIn(document, S)
           /\ Len(x) = Len(document) + Balance(ops, n)
      BY <2>3, <2>8
    <2>11. f[n + 1].blocks = ApplyOp(x, op)
      BY <2>8
    <2> HIDE DEF x
    <2>12. /\ Len(ApplyOp(x, op)) = Len(x) + Growth(op)
           /\ BlocksIn(ApplyOp(x, op), S) = BlocksIn(x, S)
      BY <2>4, <2>6, <2>9, OpEffect
    <2>13. Len(document) \in Nat /\ Growth(op) \in Int
      BY DEF Growth
    <2>14. Len(x) + Growth(op) = Len(document) + Balance(ops, n + 1)
      BY <2>7, <2>10, <2>13
    <2> QED
      BY <2>10, <2>11, <2>12, <2>14
  <1>6. N \in E
    <2> HIDE DEF E
    <2> QED
      BY <1>1, <1>4, <1>5, SetInduction
  <1>7. Kept(N, f[N])
    BY <1>1, <1>3, <1>6
  <1> DEFINE I == OpsOf(ops, "insert_block")
             D == OpsOf(ops, "delete_block")
  <1>8. Balance(ops, N) = Cardinality(I) - Cardinality(D)
    <2>1. {k \in 1..N : k \in I} = I /\ {k \in 1..N : k \in D} = D
      BY <1>1 DEF OpsOf
    <2> HIDE DEF I, D
    <2>2. Balance(ops, N) = Cardinality({k \in 1..N : k \in I})
                            - Cardinality({k \in 1..N : k \in D})
      BY DEF Balance, I, D
    <2> QED
      BY <2>1, <2>2
  <1>9. Cardinality(I) \in Nat /\ Cardinality(D) \in Nat
    <2>1. IsFiniteSet(1..N)
      BY <1>1, FS_Interval
    <2>2. I \subseteq 1..N /\ D \subseteq 1..N
      BY <1>1 DEF OpsOf
    <2> HIDE DEF I, D
    <2>3. IsFiniteSet(I) /\ IsFiniteSet(D)
      BY <2>1, <2>2, FS_Subset
    <2> QED
      BY <2>3, FS_CardinalityType
  <1> HIDE DEF I, D
  <1>10. Len(document) \in Nat
    OBVIOUS
  <1>11. Len(f[N].blocks) = Len(document) + Cardinality(I) - Cardinality(D)
    BY <1>7, <1>8, <1>9, <1>10
  <1> QED
    BY <1>3, <1>7, <1>11 DEF I, D, S, N

-------------------------------------------------------------------------------
(* The invariant of Embeds *)

Resolves == {"access", "schema", "preview", "put", "reply"}

(* What is left to resolve are blocks of the document with a table, and of  *)
(* those blocks the others have a descriptor.  A patch resolves nothing.    *)
References(j) ==
    /\ \A k \in 1..Len(j.todo) :
         /\ j.todo[k].table # NoTable
         /\ \E i \in 1..Len(j.doc) : j.doc[i] = j.todo[k]
    /\ j.op # "patch" =>
         \A i \in 1..Len(j.doc) : j.doc[i].table # NoTable =>
            \/ \E k \in 1..Len(j.todo) : j.todo[k] = j.doc[i]
            \/ j.doc[i].id \in DOMAIN j.descriptors
    /\ j.op = "patch" => j.todo = <<>>

(* What a user may be shown of a table: it could be read, and the rows are  *)
(* not older than the schema, nor the schema than the request.              *)
Fresh(j, table, p, ver) ==
    /\ j.began[table] <= p.schema
    /\ p.schema <= p.rows
    /\ p.rows <= ver[table]

(* A descriptor is of the table of a block with its id, and a ready one may *)
(* be shown.                                                                *)
Descriptors(j, ver) ==
    \A id \in DOMAIN j.descriptors :
        /\ \E i \in 1..Len(j.doc) :
             j.doc[i].id = id /\ j.doc[i].table = j.descriptors[id].table
        /\ j.descriptors[id].state = "ready" =>
             /\ j.descriptors[id].table \in j.readable
             /\ \A p \in j.descriptors[id].preview :
                  Fresh(j, j.descriptors[id].table, p, ver)

(* A save leaves no table behind that could not be read. *)
Saves(j) ==
    j.op = "save" =>
        \A i \in 1..Len(j.doc) : j.doc[i].table # NoTable =>
            \/ j.doc[i].table \in j.readable
            \/ \E k \in 1..Len(j.todo) : j.todo[k].table = j.doc[i].table

(* Tables only get newer. *)
Began(j, ver) == \A t \in Tables : j.began[t] <= ver[t]

DataInv(j, ver) == References(j) /\ Descriptors(j, ver) /\ Saves(j) /\ Began(j, ver)

(* The stage tells whether a reference is being resolved, and what the      *)
(* answers so far say of its table.                                         *)
StageInv(j, acc, ver) ==
    /\ j.stage \in Resolves <=> j.todo # <<>>
    /\ j.outcome = "none" <=> j.stage # "done"
    /\ j.outcome = "none" => acc \subseteq j.readable
    /\ j.stage = "idle" => j.op # "patch"
    /\ j.stage \in Resolves \ {"access"} => Head(j.todo).table \in j.readable
    /\ j.stage \in {"preview", "put", "reply"} =>
         /\ j.began[Head(j.todo).table] <= j.fetched.schema
         /\ j.fetched.schema <= ver[Head(j.todo).table]
    /\ j.stage \in {"put", "reply"} =>
         /\ j.fetched.schema <= j.fetched.rows
         /\ j.fetched.rows <= ver[Head(j.todo).table]

(* The document a patch is to commit is the one it read, patched. *)
Patched(j, revisions) ==
    j.op = "patch" =>
        /\ j.ops \in Patches
        /\ j.base \in 1..Len(revisions)
        /\ ApplyPatch(revisions[j.base], j.ops).ok
        /\ j.doc = ApplyPatch(revisions[j.base], j.ops).blocks

(* A save that was answered has its revision. *)
Saved(j, revisions) ==
    j.op = "save" =>
        j.base + 1 \in 1..Len(revisions) /\ revisions[j.base + 1] = j.doc

HeadInv(j, revisions) ==
    /\ j.outcome = "none" => Patched(j, revisions)
    /\ j.outcome = "ok" => Saved(j, revisions)

JobInv(j, acc, revisions, ver) ==
    j \in Job /\ DataInv(j, ver) /\ StageInv(j, acc, ver) /\ HeadInv(j, revisions)

IndInv ==
    /\ TypeOK
    /\ Len(revs) >= 1
    /\ \A t \in Tables : version[t] <= changes
    /\ \A r \in Requests : JobInv(job[r], access[r], revs, version)

-------------------------------------------------------------------------------
(* What the steps of a request make of its fields *)

DescriptorMaps == UNION {[S -> Descriptor] : S \in SUBSET Ids}

LEMMA DescriptorMapsType ==
  ASSUME NEW m
  PROVE  m \in DescriptorMaps <=>
           DOMAIN m \subseteq Ids /\ m \in [DOMAIN m -> Descriptor]
  BY DEF DescriptorMaps

LEMMA NothingDescribed ==
  <<>> \in DescriptorMaps /\ DOMAIN <<>> = {}
  <1>1. DOMAIN <<>> = {} /\ <<>> \in [{} -> Descriptor]
    OBVIOUS
  <1> QED
    BY <1>1, DescriptorMapsType

(* Nothing is known of the fields that k and j share but that. *)
SameRequest(k, j) ==
    /\ k.op = j.op /\ k.base = j.base /\ k.ops = j.ops /\ k.doc = j.doc
    /\ k.readable = j.readable /\ k.began = j.began

LEMMA IdleType ==
  /\ Idle \in Job
  /\ Idle.doc = <<>> /\ Idle.todo = <<>> /\ Idle.descriptors = <<>>
  /\ Idle.op = "read" /\ Idle.stage = "idle" /\ Idle.outcome = "none"
  /\ Idle.readable = {} /\ \A t \in Tables : Idle.began[t] = 0
  <1>1. 0 \in Versions /\ NothingFetched \in Preview
    BY ConstantsAssumption DEF Versions, Preview, NothingFetched
  <1>2. <<>> \in DescriptorMaps
    BY NothingDescribed
  <1>3. [t \in Tables |-> 0] \in [Tables -> Versions]
    BY <1>1
  <1>4. Idle \in Job
    <2>1. /\ "read" \in Ops /\ 0 \in Nat /\ <<>> \in Patches \cup {<<>>}
          /\ <<>> \in Seq(Blocks) /\ {} \in SUBSET Tables
      BY DEF Ops
    <2> QED
      BY <1>1, <1>2, <1>3, <2>1, Zenon DEF Idle, Job, DescriptorMaps
  <1>5. /\ Idle.doc = <<>> /\ Idle.todo = <<>> /\ Idle.descriptors = <<>>
        /\ Idle.op = "read" /\ Idle.stage = "idle" /\ Idle.outcome = "none"
        /\ Idle.readable = {} /\ \A t \in Tables : Idle.began[t] = 0
    BY DEF Idle
  <1> QED
    BY <1>4, <1>5

LEMMA RefuseType ==
  ASSUME NEW j, j.op \in Ops,
         NEW o \in {"conflict", "rejected", "forbidden", "embed_unavailable"}
  PROVE  LET k == Refuse(j, o) IN
         /\ k \in Job
         /\ k.doc = <<>> /\ k.todo = <<>> /\ k.descriptors = <<>>
         /\ k.stage = "done" /\ k.outcome = o
         /\ k.readable = {} /\ \A t \in Tables : k.began[t] = 0
  BY IdleType DEF Refuse, Job

LEMMA ProceedType ==
  ASSUME NEW j \in Job, j.outcome = "none"
  PROVE  LET k == Proceed(j) IN
         /\ k \in Job /\ SameRequest(k, j)
         /\ k.todo = j.todo /\ k.fetched = j.fetched
         /\ k.descriptors = j.descriptors
         /\ \/ j.todo # <<>> /\ k.stage = "access" /\ k.outcome = "none"
            \/ /\ j.todo = <<>> /\ Commits(j.op)
               /\ k.stage = "commit" /\ k.outcome = "none"
            \/ /\ j.todo = <<>> /\ ~Commits(j.op)
               /\ k.stage = "done" /\ k.outcome = "ok"
  <1>1. CASE j.todo # <<>>
    <2>1. Proceed(j) = [j EXCEPT !.stage = "access"]
      BY <1>1 DEF Proceed
    <2> QED
      BY <1>1, <2>1 DEF Job, SameRequest
  <1>2. CASE j.todo = <<>> /\ Commits(j.op)
    <2>1. Proceed(j) = [j EXCEPT !.stage = "commit"]
      BY <1>2 DEF Proceed
    <2> QED
      BY <1>2, <2>1 DEF Job, SameRequest
  <1>3. CASE j.todo = <<>> /\ ~Commits(j.op)
    <2>1. Proceed(j) = [j EXCEPT !.stage = "done", !.outcome = "ok"]
      BY <1>3 DEF Proceed, Answer
    <2> QED
      BY <1>3, <2>1 DEF Job, SameRequest
  <1> QED
    BY <1>1, <1>2, <1>3

-------------------------------------------------------------------------------
(* The steps of a request keep what is said of it *)

LEMMA RefuseInv ==
  ASSUME NEW j, j.op \in Ops, NEW acc, NEW rv, NEW ver \in [Tables -> Versions],
         NEW o \in {"conflict", "rejected", "forbidden", "embed_unavailable"}
  PROVE  JobInv(Refuse(j, o), acc, rv, ver)
  <1> DEFINE k == Refuse(j, o)
  <1>1. /\ k \in Job
        /\ k.doc = <<>> /\ k.todo = <<>> /\ k.descriptors = <<>>
        /\ k.stage = "done" /\ k.outcome = o
        /\ k.readable = {} /\ \A t \in Tables : k.began[t] = 0
    BY RefuseType
  <1> HIDE DEF k
  <1>2. DataInv(k, ver)
    <2>1. Len(k.doc) = 0 /\ Len(k.todo) = 0 /\ DOMAIN k.descriptors = {}
      BY <1>1, NothingDescribed
    <2>2. \A t \in Tables : ver[t] \in Nat
      BY ConstantsAssumption DEF Versions
    <2> QED
      BY <1>1, <2>1, <2>2 DEF DataInv, References, Descriptors, Saves, Began
  <1>3. StageInv(k, acc, ver)
    BY <1>1 DEF StageInv, Resolves
  <1>4. HeadInv(k, rv)
    BY <1>1 DEF HeadInv
  <1> QED
    BY <1>1, <1>2, <1>3, <1>4 DEF JobInv, k

(* The user may come to read more. *)
LEMMA ReadableGrows ==
  ASSUME NEW j, NEW acc, NEW rv, NEW ver, JobInv(j, acc, rv, ver),
         NEW R \in SUBSET Tables, j.readable \subseteq R,
         NEW acc2, acc2 \subseteq R
  PROVE  JobInv([j EXCEPT !.readable = R], acc2, rv, ver)
  <1> DEFINE k == [j EXCEPT !.readable = R]
  <1>1. j \in Job /\ DataInv(j, ver) /\ StageInv(j, acc, ver) /\ HeadInv(j, rv)
    BY DEF JobInv
  <1>2. /\ k \in Job /\ k.readable = R
        /\ k.op = j.op /\ k.base = j.base /\ k.ops = j.ops /\ k.doc = j.doc
        /\ k.todo = j.todo /\ k.stage = j.stage /\ k.fetched = j.fetched
        /\ k.descriptors = j.descriptors /\ k.outcome = j.outcome
        /\ k.began = j.began
    BY <1>1 DEF Job
  <1> HIDE DEF k
  <1>3. DataInv(k, ver)
    <2>1. References(k)
      BY <1>1, <1>2 DEF DataInv, References
    <2>2. Descriptors(k, ver)
      BY <1>1, <1>2 DEF DataInv, Descriptors, Fresh
    <2>3. Saves(k)
      BY <1>1, <1>2 DEF DataInv, Saves
    <2>4. Began(k, ver)
      BY <1>1, <1>2 DEF DataInv, Began
    <2> QED
      BY <2>1, <2>2, <2>3, <2>4 DEF DataInv
  <1>4. StageInv(k, acc2, ver)
    BY <1>1, <1>2 DEF StageInv
  <1>5. HeadInv(k, rv)
    BY <1>1, <1>2 DEF HeadInv, Patched, Saved
  <1> QED
    BY <1>2, <1>3, <1>4, <1>5 DEF JobInv, k

(* A request goes on to its next reference, to its commit or to its answer. *)
LEMMA ProceedInv ==
  ASSUME NEW j \in Job, NEW acc, NEW rv, NEW ver,
         DataInv(j, ver), Patched(j, rv), j.outcome = "none", acc \subseteq j.readable
  PROVE  JobInv(Proceed(j), acc, rv, ver)
  <1> DEFINE k == Proceed(j)
  <1>1. /\ k \in Job /\ SameRequest(k, j)
        /\ k.todo = j.todo /\ k.fetched = j.fetched
        /\ k.descriptors = j.descriptors
        /\ \/ j.todo # <<>> /\ k.stage = "access" /\ k.outcome = "none"
           \/ /\ j.todo = <<>> /\ Commits(j.op)
              /\ k.stage = "commit" /\ k.outcome = "none"
           \/ /\ j.todo = <<>> /\ ~Commits(j.op)
              /\ k.stage = "done" /\ k.outcome = "ok"
    BY ProceedType
  <1> HIDE DEF k
  <1>2. /\ k.op = j.op /\ k.base = j.base /\ k.ops = j.ops /\ k.doc = j.doc
        /\ k.readable = j.readable /\ k.began = j.began
    BY <1>1 DEF SameRequest
  <1>3. DataInv(k, ver)
    BY <1>1, <1>2 DEF DataInv, References, Descriptors, Saves, Began, Fresh
  <1>4. StageInv(k, acc, ver)
    BY <1>1, <1>2 DEF StageInv, Resolves
  <1>5. HeadInv(k, rv)
    <2>1. Patched(k, rv)
      BY <1>2 DEF Patched
    <2>2. k.outcome = "ok" => k.op # "save"
      BY <1>1, <1>2 DEF Commits
    <2> QED
      BY <2>1, <2>2 DEF HeadInv, Saved
  <1> QED
    BY <1>1, <1>3, <1>4, <1>5 DEF JobInv, k

(* The first reference is resolved, in a way the user may see. *)
LEMMA ResolvedInv ==
  ASSUME NEW j, NEW acc, NEW rv, NEW ver, JobInv(j, acc, rv, ver), j.todo # <<>>,
         NEW state \in {"ready", "degraded"}, NEW preview \in SUBSET Preview,
         state = "ready" \/ j.op = "save" => Head(j.todo).table \in j.readable,
         state = "ready" => \A p \in preview : Fresh(j, Head(j.todo).table, p, ver)
  PROVE  JobInv(Resolved(j, state, preview), acc, rv, ver)
  <1> DEFINE ref == Head(j.todo)
             e == Embed(ref.table, state, preview)
             ds == WithDescriptor(j.descriptors, ref.id, e)
             k == [j EXCEPT !.todo = Tail(@), !.fetched = NothingFetched,
                            !.descriptors = ds]
  <1>1. j \in Job /\ DataInv(j, ver) /\ StageInv(j, acc, ver) /\ HeadInv(j, rv)
    BY DEF JobInv
  <1>2. Resolved(j, state, preview) = Proceed(k)
    BY <1>1 DEF Resolved, Job
  <1>3. /\ j.todo \in Seq(Blocks) /\ j.doc \in Seq(Blocks)
        /\ j.descriptors \in DescriptorMaps
    BY <1>1 DEF Job, DescriptorMaps
  <1>4. /\ Len(j.todo) \in Nat /\ Len(j.todo) >= 1 /\ ref = j.todo[1] /\ ref \in Blocks
        /\ Tail(j.todo) \in Seq(Blocks) /\ Len(Tail(j.todo)) = Len(j.todo) - 1
        /\ \A n \in 1..Len(j.todo) - 1 : Tail(j.todo)[n] = j.todo[n + 1]
    BY <1>3
  <1>5. PICK b \in 1..Len(j.doc) : j.doc[b] = ref
    BY <1>1, <1>4 DEF DataInv, References
  <1>6. ref.table # NoTable /\ ref.table \in Tables /\ ref.id \in Ids
    BY <1>1, <1>4 DEF DataInv, References, Blocks
  <1>7. e.table = ref.table /\ e.state = state /\ e.preview = preview /\ e \in Descriptor
    BY <1>6 DEF Embed, Descriptor
  <1> HIDE DEF ref, e
  <1>8. /\ DOMAIN ds = DOMAIN j.descriptors \cup {ref.id}
        /\ ds[ref.id] = e
        /\ \A id \in DOMAIN j.descriptors : id # ref.id => ds[id] = j.descriptors[id]
    BY DEF WithDescriptor
  <1>9. ds \in DescriptorMaps
    <2>1. /\ DOMAIN j.descriptors \subseteq Ids
          /\ j.descriptors \in [DOMAIN j.descriptors -> Descriptor]
      BY <1>3, DescriptorMapsType
    <2>2. ds \in [DOMAIN ds -> Descriptor]
      BY <1>7, <2>1 DEF WithDescriptor
    <2>3. DOMAIN ds \subseteq Ids
      BY <1>6, <1>8, <2>1
    <2> HIDE DEF ds
    <2> QED
      BY <2>2, <2>3, DescriptorMapsType
  <1> HIDE DEF ds
  <1>10. /\ k \in Job /\ k.todo = Tail(j.todo) /\ k.descriptors = ds
         /\ k.op = j.op /\ k.base = j.base /\ k.ops = j.ops /\ k.doc = j.doc
         /\ k.stage = j.stage /\ k.outcome = j.outcome
         /\ k.readable = j.readable /\ k.began = j.began
    <2>1. NothingFetched \in Preview
      BY ConstantsAssumption DEF NothingFetched, Preview, Versions
    <2> QED
      BY <1>1, <1>4, <1>9, <2>1 DEF Job, DescriptorMaps
  <1> HIDE DEF k
  <1>11. References(k)
    <2>1. ASSUME NEW n \in 1..Len(k.todo)
          PROVE  k.todo[n].table # NoTable /\ \E i \in 1..Len(k.doc) : k.doc[i] = k.todo[n]
      <3>1. n + 1 \in 1..Len(j.todo) /\ k.todo[n] = j.todo[n + 1]
        BY <1>4, <1>10
      <3> QED
        BY <1>1, <1>10, <3>1 DEF DataInv, References
    <2>2. ASSUME k.op # "patch", NEW i \in 1..Len(k.doc), k.doc[i].table # NoTable
          PROVE  \/ \E n \in 1..Len(k.todo) : k.todo[n] = k.doc[i]
                 \/ k.doc[i].id \in DOMAIN k.descriptors
      <3>1. CASE j.doc[i].id \in DOMAIN j.descriptors
        BY <1>8, <1>10, <3>1
      <3>2. ASSUME NEW m \in 1..Len(j.todo), j.todo[m] = j.doc[i], m # 1
            PROVE  \E n \in 1..Len(k.todo) : k.todo[n] = k.doc[i]
        <4>1. m - 1 \in 1..Len(k.todo) /\ k.todo[m - 1] = j.todo[m]
          BY <1>4, <1>10, <3>2
        <4> QED
          BY <1>10, <3>2, <4>1
      <3>3. CASE j.todo[1] = j.doc[i]
        BY <1>4, <1>8, <1>10, <3>3
      <3>4. \/ \E m \in 1..Len(j.todo) : j.todo[m] = j.doc[i]
            \/ j.doc[i].id \in DOMAIN j.descriptors
        BY <1>1, <1>10, <2>2 DEF DataInv, References
      <3> QED
        BY <3>1, <3>2, <3>3, <3>4
    <2>3. k.op # "patch"
      BY <1>1, <1>10 DEF DataInv, References
    <2> QED
      BY <2>1, <2>2, <2>3 DEF References
  <1>12. Descriptors(k, ver)
    <2> SUFFICES ASSUME NEW id \in DOMAIN k.descriptors
                 PROVE  /\ \E i \in 1..Len(k.doc) :
                             k.doc[i].id = id /\ k.doc[i].table = k.descriptors[id].table
                        /\ k.descriptors[id].state = "ready" =>
                             /\ k.descriptors[id].table \in k.readable
                             /\ \A p \in k.descriptors[id].preview :
                                  Fresh(k, k.descriptors[id].table, p, ver)
      BY DEF Descriptors
    <2>1. CASE id = ref.id
      <3>1. k.descriptors[id] = e
        BY <1>8, <1>10, <2>1
      <3>2. k.doc[b].id = id /\ k.doc[b].table = e.table
        BY <1>5, <1>7, <1>10, <2>1
      <3>3. state = "ready" => ref.table \in j.readable
        BY DEF ref
      <3>4. state = "ready" => \A p \in preview : Fresh(j, ref.table, p, ver)
        BY DEF ref
      <3> QED
        BY <1>5, <1>7, <1>10, <3>1, <3>2, <3>3, <3>4 DEF Fresh
    <2>2. CASE id # ref.id
      <3>1. id \in DOMAIN j.descriptors /\ k.descriptors[id] = j.descriptors[id]
        BY <1>8, <1>10, <2>2
      <3> QED
        BY <1>1, <1>10, <3>1 DEF DataInv, Descriptors, Fresh
    <2> QED
      BY <2>1, <2>2
  <1>13. Saves(k)
    <2> SUFFICES ASSUME k.op = "save", NEW i \in 1..Len(k.doc), k.doc[i].table # NoTable
                 PROVE  \/ k.doc[i].table \in k.readable
                        \/ \E n \in 1..Len(k.todo) : k.todo[n].table = k.doc[i].table
      BY DEF Saves
    <2>1. ref.table \in k.readable
      BY <1>10 DEF ref
    <2>2. ASSUME NEW m \in 1..Len(j.todo), j.todo[m].table = j.doc[i].table, m # 1
          PROVE  \E n \in 1..Len(k.todo) : k.todo[n].table = k.doc[i].table
      <3>1. m - 1 \in 1..Len(k.todo) /\ k.todo[m - 1] = j.todo[m]
        BY <1>4, <1>10, <2>2
      <3> QED
        BY <1>10, <2>2, <3>1
    <2>3. CASE j.todo[1].table = j.doc[i].table
      BY <1>4, <1>10, <2>1, <2>3
    <2>4. \/ j.doc[i].table \in j.readable
          \/ \E m \in 1..Len(j.todo) : j.todo[m].table = j.doc[i].table
      BY <1>1, <1>10 DEF DataInv, Saves
    <2> QED
      BY <1>10, <2>2, <2>3, <2>4
  <1>14. Began(k, ver)
    BY <1>1, <1>10 DEF DataInv, Began
  <1>15. k.outcome = "none" /\ acc \subseteq k.readable
    BY <1>1, <1>10 DEF StageInv, Resolves
  <1>16. Patched(k, rv)
    BY <1>1, <1>10, <1>15 DEF HeadInv, Patched
  <1>17. JobInv(Proceed(k), acc, rv, ver)
    BY <1>10, <1>11, <1>12, <1>13, <1>14, <1>15, <1>16, ProceedInv DEF DataInv
  <1> QED
    BY <1>2, <1>17

-------------------------------------------------------------------------------
(* The start of a request *)

(* The references of a document: its blocks with a table, in some order. *)
Covers(refs, doc) ==
    /\ refs \in Seq(Blocks)
    /\ \A k \in 1..Len(refs) :
         refs[k].table # NoTable /\ \E i \in 1..Len(doc) : doc[i] = refs[k]
    /\ \A i \in 1..Len(doc) : doc[i].table # NoTable =>
         \E k \in 1..Len(refs) : refs[k] = doc[i]

LEMMA ExtractCovers ==
  ASSUME NEW doc \in Seq(Blocks)
  PROVE  Covers(ExtractReferences(doc), doc)
  <1> DEFINE S == {b \in Range(doc) : b.table # NoTable}
             refs == BlocksIn(doc, S)
  <1>1. ExtractReferences(doc) = refs
    BY DEF ExtractReferences
  <1>2. \A i \in 1..Len(doc) : doc[i] \in S <=> doc[i].table # NoTable
    BY DEF Range
  <1>3. \A b \in S : b.table # NoTable
    OBVIOUS
  <1> HIDE DEF S
  <1>4. refs \in Seq(Blocks)
    BY BlocksInType
  <1>5. /\ \A k \in 1..Len(refs) : refs[k] \in S /\ \E i \in 1..Len(doc) : doc[i] = refs[k]
        /\ \A i \in 1..Len(doc) : doc[i] \in S => \E k \in 1..Len(refs) : refs[k] = doc[i]
    BY BlocksInElements
  <1> HIDE DEF refs
  <1> QED
    BY <1>1, <1>2, <1>3, <1>4, <1>5 DEF Covers

LEMMA ListCovers ==
  ASSUME NEW doc \in Seq(Blocks), NEW refs \in ListEmbeddedTableRefs(doc)
  PROVE  Covers(refs, doc)
  <1> DEFINE x == ExtractReferences(doc)
             D == 1..Len(x)
  <1>1. Covers(x, doc)
    BY ExtractCovers
  <1>2. x \in Seq(Blocks) /\ DOMAIN x = D /\ Len(x) \in Nat
    BY <1>1 DEF Covers
  <1>3. PICK p \in Bijection(DOMAIN x, DOMAIN x) : refs = [i \in DOMAIN x |-> x[p[i]]]
    BY DEF ListEmbeddedTableRefs
  <1>4. p \in [D -> D] /\ \A k \in D : \E i \in D : p[i] = k
    BY <1>2, <1>3 DEF Bijection, Surjection, Injection
  <1> HIDE DEF x
  <1>5. refs \in Seq(Blocks) /\ Len(refs) = Len(x) /\ \A i \in D : refs[i] = x[p[i]]
    <2>1. refs = [i \in 1..Len(x) |-> x[p[i]]]
      BY <1>2, <1>3
    <2>2. \A i \in 1..Len(x) : x[p[i]] \in Blocks
      BY <1>2, <1>4
    <2> QED
      BY <1>2, <2>1, <2>2
  <1>6. ASSUME NEW k \in 1..Len(refs)
        PROVE  refs[k].table # NoTable /\ \E i \in 1..Len(doc) : doc[i] = refs[k]
    <2>1. refs[k] = x[p[k]] /\ p[k] \in 1..Len(x)
      BY <1>4, <1>5
    <2> QED
      BY <1>1, <2>1 DEF Covers
  <1>7. ASSUME NEW i \in 1..Len(doc), doc[i].table # NoTable
        PROVE  \E k \in 1..Len(refs) : refs[k] = doc[i]
    <2>1. PICK m \in D : x[m] = doc[i]
      BY <1>1, <1>7 DEF Covers
    <2>2. PICK k \in D : p[k] = m
      BY <1>4
    <2> QED
      BY <1>5, <2>1, <2>2
  <1> QED
    BY <1>5, <1>6, <1>7 DEF Covers

(* Every request but a patch starts from the references of its document. *)
LEMMA StartedType ==
  ASSUME TypeOK, NEW op \in Ops, NEW doc \in Seq(Blocks)
  PROVE  LET k == Started(op, doc) IN
         /\ k \in Job /\ k.op = op /\ k.base = Len(revs) /\ k.doc = doc
         /\ k.todo = <<>> /\ k.descriptors = <<>> /\ k.outcome = "none"
         /\ k.readable = {} /\ k.began = version
  <1>1. Len(revs) \in Nat /\ version \in [Tables -> Versions]
    BY DEF TypeOK
  <1> QED
    BY <1>1, IdleType DEF Started, Job

LEMMA StartedInv ==
  ASSUME TypeOK, NEW k \in Job, k.op # "patch", Covers(k.todo, k.doc),
         k.descriptors = <<>>, k.outcome = "none", k.readable = {}, k.began = version
  PROVE  /\ JobInv(Proceed(k), {}, revs, version)
         /\ Proceed(k).readable = {}
  <1>1. References(k)
    BY DEF References, Covers
  <1>2. Descriptors(k, version)
    BY NothingDescribed DEF Descriptors
  <1>3. Saves(k)
    <2> SUFFICES ASSUME NEW i \in 1..Len(k.doc), k.doc[i].table # NoTable
                 PROVE  \E n \in 1..Len(k.todo) : k.todo[n].table = k.doc[i].table
      BY DEF Saves
    <2>1. PICK n \in 1..Len(k.todo) : k.todo[n] = k.doc[i]
      BY DEF Covers
    <2> QED
      BY <2>1
  <1>4. Began(k, version)
    <2>1. \A t \in Tables : version[t] \in Int
      BY DEF TypeOK, Versions
    <2> QED
      BY <2>1 DEF Began
  <1>5. Patched(k, revs) /\ {} \subseteq k.readable
    BY DEF Patched
  <1> QED
    BY <1>1, <1>2, <1>3, <1>4, <1>5, ProceedInv, ProceedType DEF DataInv, SameRequest

LEMMA ResolvingInv ==
  ASSUME TypeOK, NEW op \in Ops \ {"patch"}, NEW doc \in Seq(Blocks)
  PROVE  LET j == Resolving(Started(op, doc)) IN
         /\ j.op = op
         /\ JobInv(Proceed(j), {}, revs, version)
         /\ Proceed(j).readable = {}
  <1> DEFINE s == Started(op, doc)
             j == Resolving(s)
  <1>1. /\ s \in Job /\ s.op = op /\ s.base = Len(revs) /\ s.doc = doc
        /\ s.todo = <<>> /\ s.descriptors = <<>> /\ s.outcome = "none"
        /\ s.readable = {} /\ s.began = version
    BY StartedType
  <1>2. Covers(ExtractReferences(doc), doc)
    BY ExtractCovers
  <1> HIDE DEF s
  <1>3. ExtractReferences(doc) \in Seq(Blocks)
    BY <1>2 DEF Covers
  <1>4. /\ j \in Job /\ j.op = op /\ j.doc = doc /\ j.todo = ExtractReferences(doc)
        /\ j.descriptors = <<>> /\ j.outcome = "none"
        /\ j.readable = {} /\ j.began = version
    BY <1>1, <1>3 DEF Resolving, Job
  <1> HIDE DEF j
  <1>5. JobInv(Proceed(j), {}, revs, version) /\ Proceed(j).readable = {}
    BY <1>2, <1>4, StartedInv
  <1> QED
    BY <1>4, <1>5 DEF j, s

-------------------------------------------------------------------------------
(* The steps *)

LEMMA InitInv ==
  Init => IndInv
  <1> SUFFICES ASSUME Init PROVE IndInv
    OBVIOUS
  <1>1. PICK d \in Documents : revs = <<d>>
    BY DEF Init
  <1>2. d \in Seq(Blocks)
    BY InputsAssumption
  <1>3. revs \in Seq(Seq(Blocks)) /\ Len(revs) = 1
    BY <1>1, <1>2
  <1>4. 0 \in Versions /\ NothingFetched \in Preview /\ 0 \in 0..MaxChanges
    BY ConstantsAssumption DEF Versions, Preview, NothingFetched
  <1>5. version \in [Tables -> Versions] /\ cache \in [Tables -> SUBSET Preview]
    BY <1>4 DEF Init
  <1>6. TypeOK
    BY <1>3, <1>4, <1>5, IdleType DEF TypeOK, Init
  <1>7. ASSUME NEW r \in Requests PROVE JobInv(job[r], access[r], revs, version)
    <2>1. job[r] = Idle /\ access[r] = {} /\ \A t \in Tables : version[t] = 0
      BY DEF Init
    <2>2. Len(Idle.doc) = 0 /\ Len(Idle.todo) = 0 /\ DOMAIN Idle.descriptors = {}
      BY IdleType, NothingDescribed
    <2>3. DataInv(Idle, version)
      BY <2>1, <2>2, IdleType DEF DataInv, References, Descriptors, Saves, Began
    <2>4. StageInv(Idle, {}, version)
      BY IdleType DEF StageInv, Resolves
    <2>5. HeadInv(Idle, revs)
      BY IdleType DEF HeadInv, Patched
    <2> QED
      BY <2>1, <2>3, <2>4, <2>5, IdleType DEF JobInv
  <1>8. \A t \in Tables : version[t] <= changes
    BY DEF Init
  <1> QED
    BY <1>3, <1>6, <1>7, <1>8 DEF IndInv

(* Most steps change one request, and commit nothing. *)
LEMMA RequestStep ==
  ASSUME IndInv, NEW r \in Requests, NEW k, NEW acc \in SUBSET Tables,
         JobInv(k, acc, revs, version),
         job' = [job EXCEPT ![r] = k],
         access' = [access EXCEPT ![r] = acc],
         cache' \in [Tables -> SUBSET Preview],
         changes' \in 0..MaxChanges, changes <= changes',
         UNCHANGED <<revs, version>>
  PROVE  IndInv'
  <1>1. TypeOK'
    BY DEF IndInv, TypeOK, JobInv
  <1>2. ASSUME NEW q \in Requests PROVE JobInv(job'[q], access'[q], revs', version')
    <2>1. CASE q = r
      <3>1. job'[q] = k /\ access'[q] = acc
        BY <2>1 DEF IndInv, TypeOK
      <3> QED
        BY <3>1
    <2>2. CASE q # r
      <3>1. job'[q] = job[q] /\ access'[q] = access[q]
        BY <2>2 DEF IndInv, TypeOK
      <3> QED
        BY <3>1 DEF IndInv
    <2> QED
      BY <2>1, <2>2
  <1>3. \A t \in Tables : version[t] <= changes'
    BY DEF IndInv, TypeOK, Versions
  <1> QED
    BY <1>1, <1>2, <1>3 DEF IndInv

(* Of those, most change nothing else. *)
LEMMA JobStep ==
  ASSUME IndInv, NEW r \in Requests, NEW k, JobInv(k, access[r], revs, version),
         job' = [job EXCEPT ![r] = k],
         cache' \in [Tables -> SUBSET Preview],
         UNCHANGED <<revs, access, version, changes>>
  PROVE  IndInv'
  <1>1. access[r] \in SUBSET Tables /\ access' = [access EXCEPT ![r] = access[r]]
    BY DEF IndInv, TypeOK
  <1>2. changes' \in 0..MaxChanges /\ changes <= changes'
    BY DEF IndInv, TypeOK
  <1> QED
    BY <1>1, <1>2, RequestStep

LEMMA TablesOfType ==
  ASSUME NEW s \in Seq(Blocks)
  PROVE  TablesOf(s) \subseteq Tables
  <1>1. \A i \in DOMAIN s : s[i] \in Blocks
    OBVIOUS
  <1>2. \A b \in Blocks : b.table \in Tables \cup {NoTable}
    BY DEF Blocks
  <1> QED
    BY <1>1, <1>2 DEF TablesOf

LEMMA StartStep ==
  ASSUME IndInv, NEW r \in Requests, NEW j, Start(r, j),
         JobInv(j, {}, revs, version), j.readable = {}
  PROVE  IndInv'
  <1>1. PICK R \in SUBSET TablesOf(j.todo) :
          /\ access' = [access EXCEPT ![r] = R]
          /\ job' = [job EXCEPT ![r] = [j EXCEPT !.readable = R]]
    BY DEF Start
  <1>2. R \in SUBSET Tables
    <2>1. j.todo \in Seq(Blocks)
      BY DEF JobInv, Job
    <2>2. TablesOf(j.todo) \subseteq Tables
      BY <2>1, TablesOfType
    <2> QED
      BY <2>2
  <1> DEFINE k == [j EXCEPT !.readable = R]
  <1>3. JobInv(k, R, revs, version)
    BY <1>2, ReadableGrows
  <1>4. /\ cache' \in [Tables -> SUBSET Preview]
        /\ changes' \in 0..MaxChanges /\ changes <= changes'
    BY DEF IndInv, TypeOK, Start
  <1>5. UNCHANGED <<revs, version>>
    BY DEF Start
  <1> HIDE DEF k
  <1>6. job' = [job EXCEPT ![r] = k]
    BY <1>1 DEF k
  <1> QED
    BY <1>1, <1>2, <1>3, <1>4, <1>5, <1>6, RequestStep

LEMMA AuthorizedInv ==
  ASSUME TypeOK, NEW j, j.op \in Ops, NEW mayEmbed \in BOOLEAN,
         JobInv(Proceed(j), {}, revs, version), Proceed(j).readable = {}
  PROVE  /\ JobInv(Authorized(j, mayEmbed), {}, revs, version)
         /\ Authorized(j, mayEmbed).readable = {}
  <1> DEFINE k == Refuse(j, "forbidden")
  <1>1. version \in [Tables -> Versions]
    BY DEF TypeOK
  <1>2. JobInv(k, {}, revs, version) /\ k.readable = {}
    BY <1>1, RefuseInv, RefuseType
  <1>3. Authorized(j, mayEmbed) \in {k, Proceed(j)}
    BY DEF Authorized
  <1> QED
    BY <1>2, <1>3

LEMMA StartSaveStep ==
  ASSUME IndInv, NEW r \in Requests, StartSave(r)
  PROVE  IndInv'
  <1>1. PICK doc \in Documents, mayEmbed \in BOOLEAN, base \in 1..Len(revs) :
          Start(r, IF base # Len(revs) /\ (DocumentContainsEmbed(doc) => mayEmbed)
                   THEN Refuse(Started("save", doc), "conflict")
                   ELSE Authorized(Resolving(Started("save", doc)), mayEmbed))
    BY DEF StartSave
  <1>2. TypeOK /\ doc \in Seq(Blocks) /\ "save" \in Ops \ {"patch"}
        /\ version \in [Tables -> Versions]
    BY InputsAssumption DEF IndInv, TypeOK, Ops
  <1> DEFINE s == Started("save", doc)
             k == Refuse(s, "conflict")
             j == Resolving(s)
             m == Authorized(j, mayEmbed)
  <1>3. JobInv(k, {}, revs, version) /\ k.readable = {}
    <2>1. s.op \in Ops
      BY <1>2, StartedType
    <2> HIDE DEF s
    <2> QED
      BY <1>2, <2>1, RefuseInv, RefuseType
  <1>4. /\ j.op = "save" /\ JobInv(Proceed(j), {}, revs, version)
        /\ Proceed(j).readable = {}
    BY <1>2, ResolvingInv
  <1>5. JobInv(m, {}, revs, version) /\ m.readable = {}
    <2> HIDE DEF j
    <2>1. j.op \in Ops
      BY <1>4 DEF Ops
    <2> QED
      BY <1>2, <1>4, <2>1, AuthorizedInv
  <1>6. Start(r, k) \/ Start(r, m)
    BY <1>1
  <1> HIDE DEF k, m
  <1> QED
    BY <1>3, <1>5, <1>6, StartStep

LEMMA StartReadStep ==
  ASSUME IndInv, NEW r \in Requests, StartRead(r)
  PROVE  IndInv'
  <1>1. PICK n \in 1..Len(revs) : \E refs \in ListEmbeddedTableRefs(revs[n]) :
          Start(r, Proceed([Started("read", revs[n]) EXCEPT !.todo = refs]))
    BY DEF StartRead
  <1> DEFINE doc == revs[n]
  <1>2. TypeOK /\ doc \in Seq(Blocks) /\ "read" \in Ops
    BY DEF IndInv, TypeOK, Ops
  <1>3. PICK refs \in ListEmbeddedTableRefs(doc) :
          Start(r, Proceed([Started("read", doc) EXCEPT !.todo = refs]))
    BY <1>1
  <1> HIDE DEF doc
  <1> DEFINE s == Started("read", doc)
             j == [s EXCEPT !.todo = refs]
             k == Proceed(j)
  <1>4. Covers(refs, doc)
    BY <1>2, ListCovers
  <1>5. /\ s \in Job /\ s.op = "read" /\ s.doc = doc /\ s.descriptors = <<>>
        /\ s.outcome = "none" /\ s.readable = {} /\ s.began = version
    BY <1>2, StartedType
  <1>6. Start(r, k)
    BY <1>3
  <1> HIDE DEF s
  <1>7. /\ j \in Job /\ j.op = "read" /\ j.doc = doc /\ j.todo = refs
        /\ j.descriptors = <<>> /\ j.outcome = "none" /\ j.readable = {}
        /\ j.began = version
    BY <1>4, <1>5 DEF Job, Covers
  <1> HIDE DEF j
  <1>8. JobInv(k, {}, revs, version) /\ k.readable = {}
    BY <1>2, <1>4, <1>7, StartedInv
  <1> HIDE DEF k
  <1> QED
    BY <1>6, <1>8, StartStep

LEMMA StartRestoreStep ==
  ASSUME IndInv, NEW r \in Requests, StartRestore(r)
  PROVE  IndInv'
  <1>1. PICK n \in 1..Len(revs), mayEmbed \in BOOLEAN :
          Start(r, Authorized(Resolving(Started("restore", revs[n])), mayEmbed))
    BY DEF StartRestore
  <1> DEFINE doc == revs[n]
             j == Resolving(Started("restore", doc))
             m == Authorized(j, mayEmbed)
  <1>2. TypeOK /\ doc \in Seq(Blocks) /\ "restore" \in Ops \ {"patch"}
    BY DEF IndInv, TypeOK, Ops
  <1>3. Start(r, m)
    BY <1>1
  <1> HIDE DEF doc
  <1>4. /\ j.op = "restore" /\ JobInv(Proceed(j), {}, revs, version)
        /\ Proceed(j).readable = {}
    BY <1>2, ResolvingInv
  <1> HIDE DEF j
  <1>5. JobInv(m, {}, revs, version) /\ m.readable = {}
    <2>1. j.op \in Ops
      BY <1>4 DEF Ops
    <2> QED
      BY <1>2, <1>4, <2>1, AuthorizedInv
  <1> HIDE DEF m
  <1> QED
    BY <1>3, <1>5, StartStep

LEMMA StartPatchStep ==
  ASSUME IndInv, NEW r \in Requests, StartPatch(r)
  PROVE  IndInv'
  <1> DEFINE head == revs[Len(revs)]
  <1>1. TypeOK /\ Len(revs) \in Nat /\ Len(revs) >= 1 /\ head \in Seq(Blocks)
        /\ Last(revs) = head /\ version \in [Tables -> Versions]
    BY DEF IndInv, TypeOK, Last
  <1>2. PICK ops \in Patches, mayEmbed \in BOOLEAN :
          LET patched == ApplyPatch(Last(revs), ops)
              j == [Started("patch", patched.blocks) EXCEPT !.ops = ops]
          IN Start(r, IF patched.ok THEN Authorized(j, mayEmbed)
                      ELSE Refuse(j, "rejected"))
    BY DEF StartPatch
  <1> DEFINE patched == ApplyPatch(head, ops)
             doc == patched.blocks
             s == Started("patch", doc)
             j == [s EXCEPT !.ops = ops]
             m == Authorized(j, mayEmbed)
             k == Refuse(j, "rejected")
  <1>3. Start(r, IF patched.ok THEN m ELSE k)
    BY <1>1, <1>2
  <1> HIDE DEF head
  <1>4. patched \in Outcome
    BY <1>1, PatchType
  <1> HIDE DEF patched
  <1>5. doc \in Seq(Blocks) /\ "patch" \in Ops
    BY <1>4 DEF Outcome, Ops
  <1> HIDE DEF doc
  <1>6. /\ s \in Job /\ s.op = "patch" /\ s.base = Len(revs) /\ s.doc = doc
        /\ s.todo = <<>> /\ s.descriptors = <<>> /\ s.outcome = "none"
        /\ s.readable = {} /\ s.began = version
    BY <1>1, <1>5, StartedType
  <1> HIDE DEF s
  <1>7. /\ j \in Job /\ j.op = "patch" /\ j.base = Len(revs) /\ j.ops = ops
        /\ j.doc = doc /\ j.todo = <<>> /\ j.descriptors = <<>>
        /\ j.outcome = "none" /\ j.readable = {} /\ j.began = version
    BY <1>6 DEF Job
  <1> HIDE DEF j
  <1>8. JobInv(k, {}, revs, version) /\ k.readable = {}
    <2>1. j.op \in Ops
      BY <1>7 DEF Ops
    <2> QED
      BY <1>1, <2>1, RefuseInv, RefuseType
  <1>9. ASSUME patched.ok PROVE JobInv(m, {}, revs, version) /\ m.readable = {}
    <2>1. Patched(j, revs)
      <3>1. Len(revs) \in 1..Len(revs)
        BY <1>1
      <3> QED
        BY <1>7, <1>9, <3>1 DEF Patched, doc, patched, head
    <2>2. DataInv(j, version)
      <3>1. Len(j.todo) = 0 /\ DOMAIN j.descriptors = {}
        BY <1>7, NothingDescribed
      <3>2. \A t \in Tables : version[t] \in Int
        BY <1>1 DEF Versions
      <3> QED
        BY <1>7, <3>1, <3>2 DEF DataInv, References, Descriptors, Saves, Began
    <2>3. {} \subseteq j.readable
      OBVIOUS
    <2>4. JobInv(Proceed(j), {}, revs, version)
      BY <1>7, <2>1, <2>2, <2>3, ProceedInv
    <2>5. Proceed(j).readable = {}
      BY <1>7, ProceedType DEF SameRequest
    <2>6. j.op \in Ops
      BY <1>7 DEF Ops
    <2> QED
      BY <1>1, <2>4, <2>5, <2>6, AuthorizedInv
  <1> HIDE DEF m, k
  <1>10. CASE patched.ok
    <2>1. Start(r, m)
      BY <1>3, <1>10
    <2> QED
      BY <1>9, <1>10, <2>1, StartStep
  <1>11. CASE ~patched.ok
    <2>1. Start(r, k)
      BY <1>3, <1>11
    <2> QED
      BY <1>8, <2>1, StartStep
  <1> QED
    BY <1>10, <1>11

LEMMA StartRefreshStep ==
  ASSUME IndInv, NEW r \in Requests, StartRefresh(r)
  PROVE  IndInv'
  <1>1. PICK t \in Tables :
          Start(r, Proceed(Resolving(Started("refresh",
                       <<[id |-> AnyId, table |-> t, content |-> 0]>>))))
    BY DEF StartRefresh
  <1> DEFINE b == [id |-> AnyId, table |-> t, content |-> 0]
             doc == <<b>>
             j == Resolving(Started("refresh", doc))
             k == Proceed(j)
  <1>2. AnyId \in Ids
    BY InputsAssumption DEF AnyId
  <1>3. b \in Blocks
    BY <1>2 DEF Blocks
  <1>4. Start(r, k)
    BY <1>1
  <1> HIDE DEF b
  <1>5. TypeOK /\ doc \in Seq(Blocks) /\ "refresh" \in Ops \ {"patch"}
    BY <1>3 DEF IndInv, Ops
  <1> HIDE DEF doc
  <1>6. JobInv(k, {}, revs, version) /\ k.readable = {}
    BY <1>5, ResolvingInv
  <1> HIDE DEF k
  <1> QED
    BY <1>4, <1>6, StartStep

(* A call has answered, and nothing changes but what is known of the first  *)
(* reference.                                                               *)
LEMMA StagePreserves ==
  ASSUME NEW j, NEW acc, NEW rv, NEW ver, JobInv(j, acc, rv, ver), j.todo # <<>>,
         NEW st \in Resolves, NEW ft \in Preview,
         st # "access" => Head(j.todo).table \in j.readable,
         st \in {"preview", "put", "reply"} =>
           j.began[Head(j.todo).table] <= ft.schema /\ ft.schema <= ver[Head(j.todo).table],
         st \in {"put", "reply"} =>
           ft.schema <= ft.rows /\ ft.rows <= ver[Head(j.todo).table]
  PROVE  JobInv([j EXCEPT !.stage = st, !.fetched = ft], acc, rv, ver)
  <1> DEFINE k == [j EXCEPT !.stage = st, !.fetched = ft]
  <1>1. j \in Job /\ DataInv(j, ver) /\ StageInv(j, acc, ver) /\ HeadInv(j, rv)
    BY DEF JobInv
  <1>2. /\ k \in Job /\ k.stage = st /\ k.fetched = ft
        /\ k.op = j.op /\ k.base = j.base /\ k.ops = j.ops /\ k.doc = j.doc
        /\ k.todo = j.todo /\ k.descriptors = j.descriptors /\ k.outcome = j.outcome
        /\ k.readable = j.readable /\ k.began = j.began
    BY <1>1 DEF Job, Resolves
  <1> HIDE DEF k
  <1>3. DataInv(k, ver)
    BY <1>1, <1>2 DEF DataInv, References, Descriptors, Saves, Began, Fresh
  <1>4. StageInv(k, acc, ver)
    BY <1>1, <1>2 DEF StageInv, Resolves
  <1>5. HeadInv(k, rv)
    BY <1>1, <1>2 DEF HeadInv, Patched, Saved
  <1> QED
    BY <1>2, <1>3, <1>4, <1>5 DEF JobInv, k

(* What is known of a request that resolves a reference. *)
LEMMA WhileResolving ==
  ASSUME IndInv, NEW r \in Requests, job[r].stage \in Resolves
  PROVE  /\ JobInv(job[r], access[r], revs, version)
         /\ job[r] \in Job /\ job[r].todo # <<>> /\ job[r].fetched \in Preview
         /\ job[r].outcome = "none" /\ job[r].op \in Ops
         /\ access[r] \subseteq job[r].readable
         /\ Ref(r) = Head(job[r].todo) /\ Ref(r).table \in Tables
         /\ job[r].began[Ref(r).table] <= version[Ref(r).table]
         /\ version[Ref(r).table] \in Versions
  <1> DEFINE j == job[r]
  <1>1. JobInv(j, access[r], revs, version)
    BY DEF IndInv
  <1>2. j \in Job /\ DataInv(j, version) /\ StageInv(j, access[r], version)
    BY <1>1 DEF JobInv
  <1>3. j.todo \in Seq(Blocks) /\ j.fetched \in Preview /\ j.op \in Ops
    BY <1>2 DEF Job
  <1>4. j.todo # <<>> /\ j.outcome = "none" /\ access[r] \subseteq j.readable
    BY <1>2 DEF StageInv, Resolves
  <1>5. Len(j.todo) >= 1 /\ Head(j.todo) = j.todo[1] /\ Head(j.todo) \in Blocks
    BY <1>3, <1>4
  <1>6. Head(j.todo).table # NoTable
    BY <1>2, <1>3, <1>5 DEF DataInv, References
  <1>7. Ref(r) = Head(j.todo) /\ Ref(r).table \in Tables
    BY <1>5, <1>6 DEF Ref, Blocks
  <1>8. j.began[Ref(r).table] <= version[Ref(r).table]
    BY <1>2, <1>7 DEF DataInv, Began
  <1>9. version[Ref(r).table] \in Versions
    BY <1>7 DEF IndInv, TypeOK
  <1> QED
    BY <1>1, <1>2, <1>3, <1>4, <1>7, <1>8, <1>9

LEMMA ValidateAccessStep ==
  ASSUME IndInv, NEW r \in Requests, ValidateAccess(r)
  PROVE  IndInv'
  <1> DEFINE j == job[r]
             ft == j.fetched
             k == [j EXCEPT !.stage = "schema", !.fetched = ft]
  <1>1. /\ j.stage = "access" /\ Ref(r).table \in access[r]
        /\ job' = [job EXCEPT ![r].stage = "schema"]
        /\ UNCHANGED <<revs, cache, access, version, changes>>
    BY DEF ValidateAccess, Answered, environment
  <1>2. /\ JobInv(j, access[r], revs, version) /\ j \in Job /\ j.todo # <<>>
        /\ ft \in Preview /\ access[r] \subseteq j.readable /\ Ref(r) = Head(j.todo)
    BY <1>1, WhileResolving DEF Resolves
  <1>3. job' = [job EXCEPT ![r] = k]
    <2>1. k = [j EXCEPT !.stage = "schema"]
      BY <1>2 DEF Job
    <2> QED
      BY <1>1, <2>1 DEF IndInv, TypeOK
  <1>4. cache' \in [Tables -> SUBSET Preview]
    BY <1>1 DEF IndInv, TypeOK
  <1> HIDE DEF j, ft
  <1>5. JobInv(k, access[r], revs, version)
    BY <1>1, <1>2, StagePreserves DEF Resolves
  <1> HIDE DEF k
  <1> QED
    BY <1>1, <1>3, <1>4, <1>5, JobStep

LEMMA FetchSchemaStep ==
  ASSUME IndInv, NEW r \in Requests, FetchSchema(r)
  PROVE  IndInv'
  <1> DEFINE j == job[r]
             v == version[Ref(r).table]
             ft == [j.fetched EXCEPT !.schema = v]
             k == [j EXCEPT !.stage = "preview", !.fetched = ft]
  <1>1. /\ j.stage = "schema" /\ Ref(r).table \in access[r]
        /\ job' = [job EXCEPT ![r].stage = "preview", ![r].fetched.schema = v]
        /\ UNCHANGED <<revs, cache, access, version, changes>>
    BY DEF FetchSchema, Answered, environment
  <1>2. /\ JobInv(j, access[r], revs, version) /\ j \in Job /\ j.todo # <<>>
        /\ j.fetched \in Preview /\ access[r] \subseteq j.readable /\ Ref(r) = Head(j.todo)
        /\ j.began[Ref(r).table] <= v /\ v \in Versions
    BY <1>1, WhileResolving DEF Resolves
  <1>3. job' = [job EXCEPT ![r] = k]
    BY <1>1, <1>2 DEF IndInv, TypeOK, Job
  <1>4. cache' \in [Tables -> SUBSET Preview]
    BY <1>1 DEF IndInv, TypeOK
  <1>5. ft \in Preview /\ ft.schema = v /\ v <= v
    BY <1>2 DEF Preview, Versions
  <1> HIDE DEF ft
  <1>6. /\ Head(j.todo).table \in j.readable
        /\ j.began[Head(j.todo).table] <= ft.schema
        /\ ft.schema <= version[Head(j.todo).table]
    BY <1>1, <1>2, <1>5
  <1> HIDE DEF j, v
  <1>7. JobInv(k, access[r], revs, version)
    BY <1>2, <1>5, <1>6, StagePreserves DEF Resolves
  <1> HIDE DEF k
  <1> QED
    BY <1>1, <1>3, <1>4, <1>7, JobStep

LEMMA FetchPreviewStep ==
  ASSUME IndInv, NEW r \in Requests, FetchPreview(r)
  PROVE  IndInv'
  <1> DEFINE j == job[r]
             v == version[Ref(r).table]
             ft == [j.fetched EXCEPT !.rows = v]
             k == [j EXCEPT !.stage = "put", !.fetched = ft]
  <1>1. /\ j.stage = "preview" /\ Ref(r).table \in access[r]
        /\ job' = [job EXCEPT ![r].stage = "put", ![r].fetched.rows = v]
        /\ UNCHANGED <<revs, cache, access, version, changes>>
    BY DEF FetchPreview, Answered, environment
  <1>2. /\ JobInv(j, access[r], revs, version) /\ j \in Job /\ j.todo # <<>>
        /\ j.fetched \in Preview /\ access[r] \subseteq j.readable /\ Ref(r) = Head(j.todo)
        /\ v \in Versions
    BY <1>1, WhileResolving DEF Resolves
  <1>3. job' = [job EXCEPT ![r] = k]
    BY <1>1, <1>2 DEF IndInv, TypeOK, Job
  <1>4. cache' \in [Tables -> SUBSET Preview]
    BY <1>1 DEF IndInv, TypeOK
  <1>5. ft \in Preview /\ ft.rows = v /\ v <= v /\ ft.schema = j.fetched.schema
    BY <1>2 DEF Preview, Versions
  <1>6. /\ j.began[Ref(r).table] <= j.fetched.schema
        /\ j.fetched.schema <= v
    BY <1>1, <1>2 DEF JobInv, StageInv
  <1> HIDE DEF ft
  <1>7. /\ Head(j.todo).table \in j.readable
        /\ j.began[Head(j.todo).table] <= ft.schema
        /\ ft.schema <= version[Head(j.todo).table]
        /\ ft.schema <= ft.rows
        /\ ft.rows <= version[Head(j.todo).table]
    BY <1>1, <1>2, <1>5, <1>6
  <1> HIDE DEF j, v
  <1>8. JobInv(k, access[r], revs, version)
    BY <1>2, <1>5, <1>7, StagePreserves DEF Resolves
  <1> HIDE DEF k
  <1> QED
    BY <1>1, <1>3, <1>4, <1>8, JobStep

LEMMA PutStep ==
  ASSUME IndInv, NEW r \in Requests, Put(r)
  PROVE  IndInv'
  <1> DEFINE j == job[r]
             ft == j.fetched
             k == [j EXCEPT !.stage = "reply", !.fetched = ft]
  <1>1. /\ j.stage = "put"
        /\ cache' = [cache EXCEPT ![Ref(r).table] = {j.fetched}]
        /\ job' = [job EXCEPT ![r].stage = "reply"]
        /\ UNCHANGED <<revs, access, version, changes>>
    BY DEF Put, environment
  <1>2. /\ JobInv(j, access[r], revs, version) /\ j \in Job /\ j.todo # <<>>
        /\ ft \in Preview /\ Ref(r) = Head(j.todo)
    BY <1>1, WhileResolving DEF Resolves
  <1>3. job' = [job EXCEPT ![r] = k]
    <2>1. k = [j EXCEPT !.stage = "reply"]
      BY <1>2 DEF Job
    <2> QED
      BY <1>1, <2>1 DEF IndInv, TypeOK
  <1>4. cache' \in [Tables -> SUBSET Preview]
    BY <1>1, <1>2 DEF IndInv, TypeOK
  <1>5. /\ Head(j.todo).table \in j.readable
        /\ j.began[Head(j.todo).table] <= ft.schema
        /\ ft.schema <= version[Head(j.todo).table]
        /\ ft.schema <= ft.rows
        /\ ft.rows <= version[Head(j.todo).table]
    BY <1>1, <1>2 DEF JobInv, StageInv, Resolves
  <1> HIDE DEF j, ft
  <1>6. JobInv(k, access[r], revs, version)
    BY <1>2, <1>5, StagePreserves DEF Resolves
  <1> HIDE DEF k
  <1> QED
    BY <1>1, <1>3, <1>4, <1>6, JobStep

LEMMA ReplyStep ==
  ASSUME IndInv, NEW r \in Requests, Reply(r)
  PROVE  IndInv'
  <1> DEFINE j == job[r]
             ft == j.fetched
             preview == {ft}
             k == Resolved(j, "ready", preview)
  <1>1. /\ j.stage = "reply" /\ job' = [job EXCEPT ![r] = k]
        /\ UNCHANGED <<revs, cache, access, version, changes>>
    BY DEF Reply, environment
  <1>2. /\ JobInv(j, access[r], revs, version) /\ j.todo # <<>> /\ ft \in Preview
    BY <1>1, WhileResolving DEF Resolves
  <1>3. cache' \in [Tables -> SUBSET Preview]
    BY <1>1 DEF IndInv, TypeOK
  <1>4. /\ Head(j.todo).table \in j.readable
        /\ Fresh(j, Head(j.todo).table, ft, version)
    BY <1>1, <1>2 DEF JobInv, StageInv, Resolves, Fresh
  <1> HIDE DEF j, ft
  <1>5. preview \in SUBSET Preview /\ \A p \in preview : Fresh(j, Head(j.todo).table, p, version)
    BY <1>2, <1>4
  <1> HIDE DEF preview
  <1>6. JobInv(k, access[r], revs, version)
    BY <1>2, <1>4, <1>5, ResolvedInv
  <1> HIDE DEF k
  <1> QED
    BY <1>1, <1>3, <1>6, JobStep

LEMMA FailedInv ==
  ASSUME NEW j, NEW acc, NEW rv, NEW ver \in [Tables -> Versions],
         JobInv(j, acc, rv, ver), j.todo # <<>>, NEW preview \in SUBSET Preview
  PROVE  JobInv(Failed(j, preview), acc, rv, ver)
  <1>1. j.op \in Ops
    BY DEF JobInv, Job
  <1>2. CASE j.op = "save"
    <2>1. Failed(j, preview) = Refuse(j, "embed_unavailable")
      BY <1>2 DEF Failed, AllowDegraded
    <2> QED
      BY <1>1, <2>1, RefuseInv
  <1>3. CASE j.op # "save"
    <2>1. Failed(j, preview) = Resolved(j, "degraded", preview)
      BY <1>3 DEF Failed, AllowDegraded
    <2> QED
      BY <1>3, <2>1, ResolvedInv
  <1> QED
    BY <1>2, <1>3

LEMMA DegradedOrErrorStep ==
  ASSUME IndInv, NEW r \in Requests, DegradedOrError(r)
  PROVE  IndInv'
  <1> DEFINE j == job[r]
             preview == cache[Ref(r).table]
             k == Failed(j, preview)
  <1>1. /\ j.stage \in {"access", "schema", "preview"} /\ job' = [job EXCEPT ![r] = k]
        /\ UNCHANGED <<revs, cache, access, version, changes>>
    BY DEF DegradedOrError, environment
  <1>2. /\ JobInv(j, access[r], revs, version) /\ j.todo # <<>> /\ Ref(r).table \in Tables
    BY <1>1, WhileResolving DEF Resolves
  <1>3. /\ cache' \in [Tables -> SUBSET Preview] /\ preview \in SUBSET Preview
        /\ version \in [Tables -> Versions]
    BY <1>1, <1>2 DEF IndInv, TypeOK
  <1> HIDE DEF j, preview
  <1>4. JobInv(k, access[r], revs, version)
    BY <1>2, <1>3, FailedInv
  <1> HIDE DEF k
  <1> QED
    BY <1>1, <1>3, <1>4, JobStep

LEMMA ResolveFailsStep ==
  ASSUME IndInv, NEW r \in Requests, ResolveFails(r)
  PROVE  IndInv'
  <1> DEFINE j == job[r]
             preview == {}
             k == Failed(j, preview)
  <1>1. /\ j.stage \in Resolves /\ job' = [job EXCEPT ![r] = k]
        /\ UNCHANGED <<revs, cache, access, version, changes>>
    BY DEF ResolveFails, environment, Resolves
  <1>2. /\ JobInv(j, access[r], revs, version) /\ j.todo # <<>>
    BY <1>1, WhileResolving
  <1>3. /\ cache' \in [Tables -> SUBSET Preview] /\ preview \in SUBSET Preview
        /\ version \in [Tables -> Versions]
    BY <1>1, <1>2 DEF IndInv, TypeOK
  <1> HIDE DEF j, preview
  <1>4. JobInv(k, access[r], revs, version)
    BY <1>2, <1>3, FailedInv
  <1> HIDE DEF k
  <1> QED
    BY <1>1, <1>3, <1>4, JobStep

(* A revision more changes nothing of what is said of a request. *)
LEMMA RevisionsGrow ==
  ASSUME NEW j, NEW acc, NEW rv \in Seq(Seq(Blocks)), NEW ver,
         JobInv(j, acc, rv, ver), NEW d \in Seq(Blocks)
  PROVE  JobInv(j, acc, Append(rv, d), ver)
  <1> DEFINE w == Append(rv, d)
  <1>1. Len(rv) \in Nat /\ Len(w) = Len(rv) + 1 /\ \A i \in 1..Len(rv) : w[i] = rv[i]
    OBVIOUS
  <1> HIDE DEF w
  <1>2. \A i \in 1..Len(rv) : i \in 1..Len(w)
    BY <1>1
  <1>3. Patched(j, rv) => Patched(j, w)
    BY <1>1, <1>2 DEF Patched
  <1>4. Saved(j, rv) => Saved(j, w)
    BY <1>1, <1>2 DEF Saved
  <1> QED
    BY <1>3, <1>4 DEF JobInv, HeadInv, w

LEMMA CommitStep ==
  ASSUME IndInv, NEW r \in Requests, Commit(r)
  PROVE  IndInv'
  <1> DEFINE j == job[r]
  <1>1. /\ j.stage = "commit"
        /\ UNCHANGED <<cache, access, version, changes>>
    BY DEF Commit, environment
  <1>2. /\ JobInv(j, access[r], revs, version) /\ j \in Job /\ DataInv(j, version)
        /\ StageInv(j, access[r], version)
    BY DEF IndInv, JobInv
  <1>3. j.op \in Ops /\ j.doc \in Seq(Blocks) /\ j.base \in Nat
    BY <1>2 DEF Job
  <1>4. /\ revs \in Seq(Seq(Blocks)) /\ version \in [Tables -> Versions]
        /\ cache' \in [Tables -> SUBSET Preview] /\ job \in [Requests -> Job]
    BY <1>1 DEF IndInv, TypeOK
  <1>5. CASE j.base # Len(revs)
    <2> DEFINE k == Refuse(j, "conflict")
    <2>1. job' = [job EXCEPT ![r] = k] /\ revs' = revs
      BY <1>5 DEF Commit
    <2>2. JobInv(k, access[r], revs, version)
      BY <1>3, <1>4, RefuseInv
    <2> HIDE DEF j, k
    <2> QED
      BY <1>1, <1>4, <2>1, <2>2, JobStep
  <1>6. CASE j.base = Len(revs)
    <2> DEFINE k == Answer(j)
               w == Append(revs, j.doc)
    <2>1. job' = [job EXCEPT ![r] = k] /\ revs' = w
      BY <1>6 DEF Commit
    <2>2. /\ k \in Job /\ k.stage = "done" /\ k.outcome = "ok"
          /\ k.op = j.op /\ k.base = j.base /\ k.ops = j.ops /\ k.doc = j.doc
          /\ k.todo = j.todo /\ k.descriptors = j.descriptors /\ k.fetched = j.fetched
          /\ k.readable = j.readable /\ k.began = j.began
      BY <1>2 DEF Answer, Job
    <2>3. w \in Seq(Seq(Blocks)) /\ Len(w) = Len(revs) + 1 /\ w[Len(revs) + 1] = j.doc
          /\ Len(revs) \in Nat
      BY <1>3, <1>4
    <2> HIDE DEF k, w
    <2>4. JobInv(k, access[r], w, version)
      <3>1. DataInv(k, version)
        BY <1>2, <2>2 DEF DataInv, References, Descriptors, Saves, Began, Fresh
      <3>2. StageInv(k, access[r], version)
        BY <1>1, <1>2, <2>2 DEF StageInv, Resolves
      <3>3. Saved(k, w)
        BY <1>6, <2>2, <2>3 DEF Saved
      <3> QED
        BY <2>2, <3>1, <3>2, <3>3 DEF JobInv, HeadInv
    <2>5. ASSUME NEW q \in Requests PROVE JobInv(job'[q], access'[q], revs', version')
      <3>1. CASE q = r
        BY <1>1, <1>4, <2>1, <2>4, <3>1
      <3>2. CASE q # r
        <4>1. job'[q] = job[q] /\ access'[q] = access[q] /\ version' = version
          BY <1>1, <2>1, <3>2
        <4>2. JobInv(job[q], access[q], revs, version)
          BY DEF IndInv
        <4>3. JobInv(job[q], access[q], w, version)
          BY <1>3, <1>4, <4>2, RevisionsGrow DEF w
        <4> QED
          BY <2>1, <4>1, <4>3
      <3> QED
        BY <3>1, <3>2
    <2>6. TypeOK'
      BY <1>1, <2>1, <2>2, <2>3 DEF IndInv, TypeOK
    <2>7. Len(revs') >= 1
      BY <2>1, <2>3
    <2> QED
      BY <1>1, <2>5, <2>6, <2>7 DEF IndInv
  <1> QED
    BY <1>5, <1>6

LEMMA ChangeAccessStep ==
  ASSUME IndInv, NEW r \in Requests, ChangeAccess(r)
  PROVE  IndInv'
  <1> DEFINE j == job[r]
  <1>1. PICK t \in TablesOf(j.todo) :
          access' = [access EXCEPT ![r] = IF t \in @ THEN @ \ {t} ELSE @ \cup {t}]
    BY DEF ChangeAccess
  <1>2. JobInv(j, access[r], revs, version) /\ j \in Job
    BY DEF IndInv, JobInv
  <1>3. j.todo \in Seq(Blocks) /\ j.readable \in SUBSET Tables
    BY <1>2 DEF Job
  <1>4. t \in Tables
    BY <1>3, TablesOfType
  <1>5. access \in [Requests -> SUBSET Tables] /\ job \in [Requests -> Job]
    BY DEF IndInv, TypeOK
  <1> DEFINE acc == access'[r]
             R == j.readable \cup acc
             k == [j EXCEPT !.readable = R]
  <1>6. acc \in SUBSET Tables /\ access' = [access EXCEPT ![r] = acc]
    <2>1. acc \in {access[r] \ {t}, access[r] \cup {t}}
      BY <1>1, <1>5
    <2>2. access[r] \in SUBSET Tables
      BY <1>5
    <2>3. access' = [access EXCEPT ![r] = acc]
      BY <1>1, <1>5
    <2> QED
      BY <1>4, <2>1, <2>2, <2>3
  <1>7. job' = [job EXCEPT ![r] = k]
    BY DEF ChangeAccess
  <1>8. /\ changes < MaxChanges /\ changes' = changes + 1
        /\ UNCHANGED <<revs, version, cache>>
    BY DEF ChangeAccess
  <1>9. /\ changes' \in 0..MaxChanges /\ changes <= changes'
        /\ cache' \in [Tables -> SUBSET Preview]
    BY <1>8, ConstantsAssumption DEF IndInv, TypeOK
  <1> HIDE DEF acc
  <1>10. R \in SUBSET Tables /\ j.readable \subseteq R /\ acc \subseteq R
    BY <1>3, <1>6
  <1> HIDE DEF R, j
  <1>11. JobInv(k, acc, revs, version)
    BY <1>2, <1>10, ReadableGrows
  <1> HIDE DEF k
  <1> QED
    BY <1>6, <1>7, <1>8, <1>9, <1>11, RequestStep

(* Tables only get newer. *)
LEMMA VersionsGrow ==
  ASSUME NEW j, NEW acc, NEW rv, NEW ver \in [Tables -> Versions],
         JobInv(j, acc, rv, ver),
         NEW w \in [Tables -> Versions], \A t \in Tables : ver[t] <= w[t]
  PROVE  JobInv(j, acc, rv, w)
  <1>1. j \in Job /\ DataInv(j, ver) /\ StageInv(j, acc, ver) /\ HeadInv(j, rv)
    BY DEF JobInv
  <1>2. \A t \in Tables : ver[t] \in Int /\ w[t] \in Int
    BY DEF Versions
  <1>3. Began(j, w)
    <2>1. \A t \in Tables : j.began[t] \in Int
      BY <1>1 DEF Job, Versions
    <2> QED
      BY <1>1, <1>2, <2>1 DEF DataInv, Began
  <1>4. Descriptors(j, w)
    <2> SUFFICES ASSUME NEW id \in DOMAIN j.descriptors,
                        j.descriptors[id].state = "ready",
                        NEW p \in j.descriptors[id].preview
                 PROVE  Fresh(j, j.descriptors[id].table, p, w)
      BY <1>1 DEF DataInv, Descriptors
    <2> DEFINE e == j.descriptors[id]
    <2>1. e \in Descriptor
      <3>1. j.descriptors \in DescriptorMaps
        BY <1>1 DEF Job, DescriptorMaps
      <3>2. j.descriptors \in [DOMAIN j.descriptors -> Descriptor]
        BY <3>1, DescriptorMapsType
      <3> QED
        BY <3>2
    <2>2. Fresh(j, e.table, p, ver)
      BY <1>1 DEF DataInv, Descriptors
    <2> HIDE DEF e
    <2>3. e.table \in Tables /\ p \in Preview
      <3>1. p \in e.preview
        BY DEF e
      <3> QED
        BY <2>1, <3>1 DEF Descriptor
    <2>4. p.rows \in Int
      BY <2>3 DEF Preview, Versions
    <2>5. Fresh(j, e.table, p, w)
      BY <1>2, <2>2, <2>3, <2>4 DEF Fresh
    <2> QED
      BY <2>5 DEF e
  <1>5. StageInv(j, acc, w)
    <2> DEFINE T == Head(j.todo).table
    <2>1. ASSUME j.stage \in {"preview", "put", "reply"}
          PROVE  ver[T] \in Int /\ w[T] \in Int /\ ver[T] <= w[T]
      <3>1. j.todo \in Seq(Blocks) /\ j.todo # <<>>
        BY <1>1, <2>1 DEF Job, StageInv, Resolves
      <3>2. 1 \in 1..Len(j.todo) /\ Head(j.todo) = j.todo[1] /\ Head(j.todo) \in Blocks
        BY <3>1
      <3>3. T # NoTable
        BY <1>1, <3>2 DEF DataInv, References
      <3>4. T \in Tables
        BY <3>2, <3>3 DEF Blocks
      <3> QED
        BY <1>2, <3>4
    <2>2. j.fetched.schema \in Int /\ j.fetched.rows \in Int
      BY <1>1 DEF Job, Preview, Versions
    <2> HIDE DEF T
    <2>3. j.stage \in {"preview", "put", "reply"} =>
            j.began[T] <= j.fetched.schema /\ j.fetched.schema <= w[T]
      <3>1. j.stage \in {"preview", "put", "reply"} =>
              j.began[T] <= j.fetched.schema /\ j.fetched.schema <= ver[T]
        BY <1>1 DEF StageInv, T
      <3> QED
        BY <2>1, <2>2, <3>1
    <2>4. j.stage \in {"put", "reply"} =>
            j.fetched.schema <= j.fetched.rows /\ j.fetched.rows <= w[T]
      <3>1. j.stage \in {"put", "reply"} =>
              j.fetched.schema <= j.fetched.rows /\ j.fetched.rows <= ver[T]
        BY <1>1 DEF StageInv, T
      <3> QED
        BY <2>1, <2>2, <3>1
    <2> QED
      BY <1>1, <2>3, <2>4 DEF StageInv, T
  <1> QED
    BY <1>1, <1>3, <1>4, <1>5 DEF JobInv, DataInv

LEMMA ChangeTableStep ==
  ASSUME IndInv, NEW t \in Tables, ChangeTable(t)
  PROVE  IndInv'
  <1>1. /\ changes < MaxChanges /\ changes' = changes + 1
        /\ version' = [version EXCEPT ![t] = @ + 1]
        /\ UNCHANGED <<revs, access, cache, job>>
    BY DEF ChangeTable
  <1>2. /\ version \in [Tables -> Versions] /\ changes \in 0..MaxChanges
        /\ \A x \in Tables : version[x] <= changes
    BY DEF IndInv, TypeOK
  <1>3. \A x \in Tables : version[x] \in Nat
    BY <1>2 DEF Versions
  <1>4. \A x \in Tables : version'[x] = IF x = t THEN version[x] + 1 ELSE version[x]
    BY <1>1, <1>2
  <1>5. changes \in Nat /\ changes' \in 0..MaxChanges
    BY <1>1, <1>2, ConstantsAssumption
  <1>6. \A x \in Tables : version'[x] \in Nat /\ version'[x] <= changes'
                          /\ version[x] <= version'[x]
    BY <1>1, <1>2, <1>3, <1>4, <1>5
  <1>7. version' \in [Tables -> Versions]
    <2>1. \A x \in Tables : version'[x] \in Versions
      BY <1>5, <1>6, ConstantsAssumption DEF Versions
    <2>2. version' = [x \in Tables |-> version'[x]]
      BY <1>1, <1>2
    <2> QED
      BY <2>1, <2>2
  <1>8. TypeOK'
    BY <1>1, <1>5, <1>7 DEF IndInv, TypeOK
  <1>9. ASSUME NEW r \in Requests PROVE JobInv(job'[r], access'[r], revs', version')
    <2>1. JobInv(job[r], access[r], revs, version)
      BY DEF IndInv
    <2>2. JobInv(job[r], access[r], revs, version')
      BY <1>2, <1>6, <1>7, <2>1, VersionsGrow
    <2> QED
      BY <1>1, <2>2
  <1> QED
    BY <1>1, <1>6, <1>8, <1>9 DEF IndInv

LEMMA NextStep ==
  ASSUME IndInv, [Next]_vars
  PROVE  IndInv'
  <1>1. CASE UNCHANGED vars
    BY <1>1 DEF vars, IndInv, TypeOK
  <1>2. ASSUME NEW t \in Tables, ChangeTable(t) PROVE IndInv'
    BY <1>2, ChangeTableStep
  <1>3. ASSUME NEW r \in Requests,
               \/ StartSave(r) \/ StartRead(r) \/ StartRestore(r)
               \/ StartPatch(r) \/ StartRefresh(r)
        PROVE  IndInv'
    BY <1>3, StartSaveStep, StartReadStep, StartRestoreStep, StartPatchStep,
       StartRefreshStep
  <1>4. ASSUME NEW r \in Requests,
               \/ ValidateAccess(r) \/ FetchSchema(r) \/ FetchPreview(r)
               \/ Put(r) \/ Reply(r) \/ DegradedOrError(r) \/ ResolveFails(r)
        PROVE  IndInv'
    BY <1>4, ValidateAccessStep, FetchSchemaStep, FetchPreviewStep, PutStep,
       ReplyStep, DegradedOrErrorStep, ResolveFailsStep
  <1>5. ASSUME NEW r \in Requests, Commit(r) PROVE IndInv'
    BY <1>5, CommitStep
  <1>6. ASSUME NEW r \in Requests, ChangeAccess(r) PROVE IndInv'
    BY <1>6, ChangeAccessStep
  <1> QED
    BY <1>1, <1>2, <1>3, <1>4, <1>5, <1>6 DEF Next

-------------------------------------------------------------------------------
(* Theorems *)

(* In every reachable state each request is where its stage says and knows  *)
(* what it may, a save leaves no unread table behind it, a patch holds the  *)
(* document its operations make of the revision it read, and a save that    *)
(* was answered has its revision.                                           *)
THEOREM EmbedsInvariance ==
  Spec => []IndInv
  <1>1. Init => IndInv
    BY InitInv
  <1>2. IndInv /\ [Next]_vars => IndInv'
    BY NextStep
  <1> QED
    BY <1>1, <1>2, PTL DEF Spec

(* The resolution of embeds keeps the types of its state: no patch makes    *)
(* anything but a document, whatever its operations.                        *)
THEOREM EmbedsTypeCorrect ==
  Spec => []TypeOK
  <1>1. IndInv => TypeOK
    BY DEF IndInv
  <1> QED
    BY <1>1, EmbedsInvariance, PTL

LEMMA SavedFromInv ==
  ASSUME IndInv
  PROVE  SavedEmbedsWereReadable
  <1> SUFFICES ASSUME NEW r \in Requests, job[r].op = "save", job[r].outcome = "ok"
               PROVE  /\ TablesOf(job[r].doc) \subseteq job[r].readable
                      /\ revs[job[r].base + 1] = job[r].doc
    BY DEF SavedEmbedsWereReadable
  <1> DEFINE j == job[r]
  <1>1. /\ j \in Job /\ DataInv(j, version) /\ StageInv(j, access[r], version)
        /\ HeadInv(j, revs)
    BY DEF IndInv, JobInv
  <1>2. j.todo = <<>>
    BY <1>1 DEF StageInv, Resolves
  <1>3. \A i \in 1..Len(j.doc) : j.doc[i].table # NoTable => j.doc[i].table \in j.readable
    <2>1. Len(j.todo) = 0
      BY <1>2
    <2> QED
      BY <1>1, <2>1 DEF DataInv, Saves
  <1>4. TablesOf(j.doc) \subseteq j.readable
    <2>1. DOMAIN j.doc = 1..Len(j.doc)
      BY <1>1 DEF Job
    <2> QED
      BY <1>3, <2>1 DEF TablesOf
  <1>5. revs[j.base + 1] = j.doc
    BY <1>1 DEF HeadInv, Saved
  <1> QED
    BY <1>4, <1>5

(* A save that answers ok has committed a document whose every table its    *)
(* user could read at some time while the save ran: AutosaveDraft resolves  *)
(* each reference and degrades none, for every document, whatever call      *)
(* fails and whatever the cache holds.                                      *)
THEOREM SavesAreReadable ==
  Spec => []SavedEmbedsWereReadable
  <1>1. IndInv => SavedEmbedsWereReadable
    BY SavedFromInv
  <1> QED
    BY <1>1, EmbedsInvariance, PTL

LEMMA AnswersFromInv ==
  ASSUME IndInv
  PROVE  AnswersShowOwnTables
  <1> DEFINE bare == Embed(NoTable, "none", {})
  <1> SUFFICES ASSUME NEW r \in Requests, job[r].outcome = "ok", job[r].op # "patch",
                      NEW i \in DOMAIN job[r].doc
               PROVE  LET j == job[r]
                          shown == HydrateEmbeds(j.doc, j.descriptors, bare)
                      IN /\ DistinctIds(j.doc) => shown[i].table = j.doc[i].table
                         /\ shown[i].state = "ready" =>
                              /\ shown[i].table \in j.readable
                              /\ \A p \in shown[i].preview :
                                   /\ j.began[shown[i].table] <= p.schema
                                   /\ p.schema <= p.rows
                                   /\ p.rows <= version[shown[i].table]
    BY DEF AnswersShowOwnTables
  <1> DEFINE j == job[r]
             shown == HydrateEmbeds(j.doc, j.descriptors, bare)
  <1>1. j \in Job /\ DataInv(j, version) /\ StageInv(j, access[r], version)
    BY DEF IndInv, JobInv
  <1>2. j.todo = <<>> /\ DOMAIN j.doc = 1..Len(j.doc)
    BY <1>1 DEF StageInv, Resolves, Job
  <1>3. bare.table = NoTable /\ bare.state = "none"
    BY DEF Embed
  <1>4. shown[i] = IF j.doc[i].id \in DOMAIN j.descriptors
                   THEN j.descriptors[j.doc[i].id] ELSE bare
    BY DEF HydrateEmbeds
  <1> HIDE DEF shown, bare
  <1>5. CASE j.doc[i].id \in DOMAIN j.descriptors
    <2> DEFINE id == j.doc[i].id
    <2>1. /\ \E b \in 1..Len(j.doc) :
               j.doc[b].id = id /\ j.doc[b].table = shown[i].table
          /\ shown[i].state = "ready" =>
               /\ shown[i].table \in j.readable
               /\ \A p \in shown[i].preview : Fresh(j, shown[i].table, p, version)
      <3>1. shown[i] = j.descriptors[id] /\ id \in DOMAIN j.descriptors
        BY <1>4, <1>5
      <3>2. Descriptors(j, version)
        BY <1>1 DEF DataInv
      <3> HIDE DEF id, j
      <3> QED
        BY <3>1, <3>2 DEF Descriptors
    <2>2. PICK b \in 1..Len(j.doc) : j.doc[b].id = id /\ j.doc[b].table = shown[i].table
      BY <2>1
    <2>3. DistinctIds(j.doc) => b = i
      BY <1>2, <2>2 DEF DistinctIds
    <2> QED
      BY <2>1, <2>2, <2>3 DEF Fresh, shown, bare
  <1>6. CASE j.doc[i].id \notin DOMAIN j.descriptors
    <2>1. shown[i] = bare
      BY <1>4, <1>6
    <2>2. Len(j.todo) = 0
      BY <1>2
    <2>3. j.doc[i].table = NoTable
      BY <1>1, <1>2, <1>6, <2>2 DEF DataInv, References
    <2> QED
      BY <1>3, <2>1, <2>3 DEF shown, bare
  <1> QED
    BY <1>5, <1>6

(* In an answer each block with an embed shows its own table and no other   *)
(* block shows one, when the ids of the blocks are distinct; and a ready    *)
(* embed is of a table the user could read and is no older than the         *)
(* request.  HydrateEmbeds looks descriptors up by the id of the block, and *)
(* the resolver puts nothing of the cache into a ready descriptor.          *)
THEOREM AnswersAreOwn ==
  Spec => []AnswersShowOwnTables
  <1>1. IndInv => AnswersShowOwnTables
    BY AnswersFromInv
  <1> QED
    BY <1>1, EmbedsInvariance, PTL

(* A request that is a patch is answered by its commit. *)
LEMMA PatchCommits ==
  ASSUME IndInv, [Next]_vars, NEW r \in Requests,
         job[r].op = "patch", job[r].outcome = "none", job'[r].outcome = "ok"
  PROVE  /\ job[r].base = Len(revs) /\ revs' = Append(revs, job[r].doc)
  <1> DEFINE j == job[r]
  <1>1. j \in Job /\ References(j) /\ StageInv(j, access[r], version)
    BY DEF IndInv, JobInv, DataInv
  <1>2. j.stage # "idle" /\ j.stage \notin Resolves
    BY <1>1 DEF References, StageInv
  <1>3. job \in [Requests -> Job]
    BY DEF IndInv, TypeOK
  <1>4. job' # job
    BY <1>3
  <1>5. ASSUME NEW q \in Requests, NEW k, job' = [job EXCEPT ![q] = k] PROVE q = r
    BY <1>3, <1>5
  <1>6. ASSUME NEW q \in Requests, NEW k, Start(q, k) PROVE FALSE
    <2>1. PICK R \in SUBSET TablesOf(k.todo) :
            job' = [job EXCEPT ![q] = [k EXCEPT !.readable = R]]
      BY <1>6 DEF Start
    <2>2. q = r
      BY <1>5, <2>1
    <2> QED
      BY <1>2, <1>6, <2>2 DEF Start
  <1>7. ASSUME NEW q \in Requests,
               \/ StartSave(q) \/ StartRead(q) \/ StartRestore(q)
               \/ StartPatch(q) \/ StartRefresh(q)
        PROVE  FALSE
    <2>1. \E k : Start(q, k)
      BY <1>7, Zenon DEF StartSave, StartRead, StartRestore, StartPatch, StartRefresh
    <2> QED
      BY <1>6, <2>1
  <1>8. ASSUME NEW q \in Requests,
               \/ ValidateAccess(q) \/ FetchSchema(q) \/ FetchPreview(q)
               \/ Put(q) \/ Reply(q) \/ DegradedOrError(q) \/ ResolveFails(q)
        PROVE  FALSE
    <2>1. job[q].stage \in Resolves
      BY <1>8 DEF ValidateAccess, FetchSchema, FetchPreview, Put, Reply,
                  DegradedOrError, ResolveFails, Answered, Resolves
    <2>2. \A x \in Requests : x # q => job'[x] = job[x]
      BY <1>3, <1>8 DEF ValidateAccess, FetchSchema, FetchPreview, Put, Reply,
                        DegradedOrError, ResolveFails
    <2>3. q # r
      BY <1>2, <2>1
    <2> QED
      BY <2>2, <2>3
  <1>9. ASSUME NEW q \in Requests, ChangeAccess(q) PROVE FALSE
    <2>1. job'[r].outcome = job[r].outcome
      BY <1>3, <1>9 DEF ChangeAccess, Job
    <2> QED
      BY <2>1
  <1>10. ASSUME NEW t \in Tables, ChangeTable(t) PROVE FALSE
    BY <1>4, <1>10 DEF ChangeTable
  <1>11. ~ UNCHANGED vars
    BY <1>4 DEF vars
  <1>12. PICK q \in Requests : Commit(q)
    BY <1>7, <1>8, <1>9, <1>10, <1>11 DEF Next
  <1>13. q = r
    BY <1>5, <1>12 DEF Commit
  <1>14. j.base = Len(revs) \/ job'[r].outcome = "conflict"
    <2>1. CASE j.base # Len(revs)
      <3>1. job' = [job EXCEPT ![r] = Refuse(j, "conflict")]
        BY <1>12, <1>13, <2>1 DEF Commit
      <3>2. job'[r] = Refuse(j, "conflict")
        BY <1>3, <3>1
      <3>3. j.op \in Ops
        BY <1>1 DEF Job
      <3> QED
        BY <3>2, <3>3, RefuseType
    <2> QED
      BY <2>1
  <1>15. j.base = Len(revs)
    BY <1>14
  <1> QED
    BY <1>12, <1>13, <1>15 DEF Commit

LEMMA KeepsFromInv ==
  ASSUME IndInv, [Next]_vars, NEW r \in Requests,
         job[r].op = "patch", job[r].outcome = "none", job'[r].outcome = "ok"
  PROVE  LET ops == job[r].ops IN
         /\ BlocksIn(Last(revs'), NotNamed(ops)) = BlocksIn(Last(revs), NotNamed(ops))
         /\ Len(Last(revs')) = Len(Last(revs))
                               + Cardinality(OpsOf(ops, "insert_block"))
                               - Cardinality(OpsOf(ops, "delete_block"))
  <1> DEFINE j == job[r]
             ops == j.ops
             head == revs[Len(revs)]
  <1>1. j.base = Len(revs) /\ revs' = Append(revs, j.doc)
    BY PatchCommits
  <1>2. j \in Job /\ HeadInv(j, revs)
    BY DEF IndInv, JobInv
  <1>3. revs \in Seq(Seq(Blocks)) /\ Len(revs) >= 1 /\ j.doc \in Seq(Blocks)
    BY <1>2 DEF IndInv, TypeOK, Job
  <1>4. head \in Seq(Blocks) /\ Last(revs) = head /\ Last(revs') = j.doc
    BY <1>1, <1>3 DEF Last
  <1>5. /\ ops \in Patches /\ ApplyPatch(head, ops).ok
        /\ j.doc = ApplyPatch(head, ops).blocks
    BY <1>1, <1>2 DEF HeadInv, Patched
  <1> HIDE DEF head, j
  <1>6. /\ BlocksIn(ApplyPatch(head, ops).blocks, NotNamed(ops)) =
             BlocksIn(head, NotNamed(ops))
        /\ Len(ApplyPatch(head, ops).blocks) =
             Len(head) + Cardinality(OpsOf(ops, "insert_block"))
                       - Cardinality(OpsOf(ops, "delete_block"))
    BY <1>4, <1>5, PatchEffect
  <1> QED
    BY <1>4, <1>5, <1>6 DEF j

(* The revision a patch commits differs from the head it replaces only      *)
(* where the operations say: ApplyPatch keeps the blocks they do not name,  *)
(* their contents and their order, and the length differs by the blocks     *)
(* inserted and deleted, for every document and every list of operations.   *)
THEOREM PatchesKeepOthers ==
  Spec => PatchKeepsOthers
  <1>1. ASSUME IndInv, [Next]_vars
        PROVE  [\A r \in Requests :
                  LET ops == job[r].ops
                      others(blocks) == BlocksIn(blocks, {b \in Blocks : b.id \notin NamedBy(ops)})
                  IN job[r].op = "patch" /\ job[r].outcome = "none" /\ job'[r].outcome = "ok" =>
                       /\ others(Last(revs')) = others(Last(revs))
                       /\ Len(Last(revs')) = Len(Last(revs))
                                             + Cardinality(OpsOf(ops, "insert_block"))
                                             - Cardinality(OpsOf(ops, "delete_block"))]_vars
    BY <1>1, KeepsFromInv, Zenon DEF NotNamed
  <1> QED
    BY <1>1, EmbedsInvariance, PTL DEF Spec, PatchKeepsOthers

===============================================================================
