--------------------------- MODULE SequenceLemmas --------------------------
(***************************************************************************)
(* Facts about numbers, recursive functions, sequences, orders and sums    *)
(* that the other proofs rest on.                                          *)
(***************************************************************************)
EXTENDS SequencesExt, SequenceTheorems, FiniteSetTheorems, TLAPS

-----------------------------------------------------------------------------
(* Recursive functions: what a LET defines by recursion up to a length.     *)

LEMMA LeastNatural ==
  ASSUME NEW T, T \subseteq Nat, T # {}
  PROVE  \E x \in T : \A y \in T : x <= y
<1> DEFINE R == StrictSubsetOrdering(Nat)
           B == {0 .. n : n \in T}
<1>1. IsWellFoundedOn(R, FiniteSubsetsOf(Nat))
  BY FS_StrictSubsetOrderingWellFounded
<1>2. B \subseteq FiniteSubsetsOf(Nat)
  <2>1. \A n \in Nat : 0 .. n \in SUBSET Nat /\ IsFiniteSet(0 .. n)
    BY FS_Interval
  <2> QED BY <2>1 DEF FiniteSubsetsOf
<1>3. B # {}
  OBVIOUS
<1>4. PICK b \in B : \A c \in B : ~(<<c, b>> \in R)
  <2> HIDE DEF B, R
  <2> QED BY <1>1, <1>2, <1>3, WFMin
<1>5. PICK x \in T : b = 0 .. x
  BY <1>4
<1>6. ASSUME NEW y \in T, y < x
      PROVE  FALSE
  <2>1. 0 .. y \in B /\ 0 .. y \subseteq 0 .. x
    BY <1>6
  <2>2. x \in 0 .. x /\ x \notin 0 .. y
    BY <1>6
  <2>3. <<0 .. y, 0 .. x>> \in R
    BY <2>1, <2>2 DEF StrictSubsetOrdering
  <2> QED BY <1>4, <1>5, <2>1, <2>3
<1> QED BY <1>6

(* Induction, with a set in the place of the predicate.                     *)
LEMMA BoundedInduction ==
  ASSUME NEW N \in Nat, NEW S, 0 \in S, \A n \in 1 .. N : n - 1 \in S => n \in S
  PROVE  \A n \in 0 .. N : n \in S
<1>1. SUFFICES ASSUME (0 .. N) \ S # {} PROVE FALSE
  OBVIOUS
<1>2. PICK x \in (0 .. N) \ S : \A y \in (0 .. N) \ S : x <= y
  <2>1. (0 .. N) \ S \subseteq Nat
    OBVIOUS
  <2> QED BY ONLY <1>1, <2>1, LeastNatural
<1>3. x \in 1 .. N /\ x - 1 \in 0 .. N /\ x - 1 < x
  BY <1>2
<1>4. x - 1 \in S
  BY <1>2, <1>3
<1> QED BY <1>2, <1>3, <1>4

(* A function that is defined by recursion exists.                          *)
Recursion(g, N, V, base, F) ==
  g \in [0 .. N -> V] /\ g[0] = base /\ \A n \in 1 .. N : g[n] = F[n][g[n - 1]]

LEMMA RecursionExists ==
  ASSUME NEW N \in Nat, NEW V, NEW base \in V, NEW F \in [1 .. N -> [V -> V]]
  PROVE  \E g : Recursion(g, N, V, base, F)
<1> DEFINE Upto(k) == \E g \in [0 .. k -> V] :
                        g[0] = base /\ \A n \in 1 .. k : g[n] = F[n][g[n - 1]]
           S == {k \in 0 .. N : Upto(k)}
<1>1. 0 \in S
  <2> DEFINE h == [k \in 0 .. 0 |-> base]
  <2>1. h \in [0 .. 0 -> V] /\ h[0] = base /\ 1 .. 0 = {}
    OBVIOUS
  <2>2. Upto(0)
    <3> HIDE DEF h
    <3> QED BY <2>1
  <2> QED BY <2>2
<1>2. ASSUME NEW k \in 1 .. N, k - 1 \in S
      PROVE  k \in S
  <2>1. PICK g \in [0 .. k - 1 -> V] :
               g[0] = base /\ \A n \in 1 .. k - 1 : g[n] = F[n][g[n - 1]]
    BY <1>2
  <2> DEFINE h == [n \in 0 .. k |-> IF n = k THEN F[k][g[k - 1]] ELSE g[n]]
  <2>2. F[k] \in [V -> V] /\ g[k - 1] \in V
    BY <2>1
  <2>3. h \in [0 .. k -> V]
    BY <2>1, <2>2
  <2>4. h[0] = base
    BY <2>1
  <2>5. ASSUME NEW n \in 1 .. k
        PROVE  h[n] = F[n][h[n - 1]]
    <3>1. CASE n = k
      BY <3>1
    <3>2. CASE n # k
      <4>1. n \in 1 .. k - 1 /\ n - 1 \in 0 .. k - 1
        BY <2>5, <3>2
      <4>2. h[n] = g[n] /\ h[n - 1] = g[n - 1]
        BY <4>1
      <4> QED BY <2>1, <4>1, <4>2
    <3> QED BY <3>1, <3>2
  <2>6. Upto(k)
    <3> HIDE DEF h
    <3> QED BY <2>3, <2>4, <2>5
  <2> QED BY <2>6
<1>3. N \in S
  <2> HIDE DEF S
  <2>1. \A n \in 0 .. N : n \in S
    BY ONLY N \in Nat, <1>1, <1>2, BoundedInduction
  <2> QED BY <2>1
<1> QED BY <1>3 DEF Recursion

(* And what follows the recursion is one.                                   *)
FunctionOn(h, S) == h = [x \in S |-> h[x]]

LEMMA RecursionIs ==
  ASSUME NEW N \in Nat, NEW V, NEW base \in V, NEW F \in [1 .. N -> [V -> V]],
         NEW h, FunctionOn(h, 0 .. N), h[0] = base,
         \A n \in 1 .. N : h[n - 1] \in V => h[n] = F[n][h[n - 1]]
  PROVE  Recursion(h, N, V, base, F)
<1> DEFINE S == {n \in 0 .. N : h[n] \in V}
<1>1. 0 \in S /\ \A n \in 1 .. N : n - 1 \in S => n \in S
  OBVIOUS
<1> HIDE DEF S
<1>2. \A n \in 0 .. N : n \in S
  BY ONLY N \in Nat, <1>1, BoundedInduction
<1>3. \A n \in 0 .. N : h[n] \in V
  BY <1>2 DEF S
<1>4. h \in [0 .. N -> V]
  BY <1>3 DEF FunctionOn
<1>5. \A n \in 1 .. N : h[n - 1] \in V
  BY <1>3
<1> QED BY <1>4, <1>5 DEF Recursion

(* A recursion from the end of a sequence: every place refers to a later    *)
(* one.                                                                     *)
Jumps(g, N, V, base, jump, F) ==
  g \in [1 .. N + 1 -> V] /\ g[N + 1] = base /\ \A n \in 1 .. N : g[n] = F[n][g[jump[n]]]

LEMMA JumpsExist ==
  ASSUME NEW N \in Nat, NEW V, NEW base \in V, NEW F \in [1 .. N -> [V -> V]],
         NEW jump \in [1 .. N -> Nat], \A n \in 1 .. N : n < jump[n] /\ jump[n] <= N + 1
  PROVE  \E g : Jumps(g, N, V, base, jump, F)
<1> DEFINE Downto(k) == \E g \in [N + 1 - k .. N + 1 -> V] :
                          g[N + 1] = base /\ \A n \in N + 1 - k .. N : g[n] = F[n][g[jump[n]]]
           S == {k \in 0 .. N : Downto(k)}
<1>1. 0 \in S
  <2> DEFINE h == [k \in N + 1 .. N + 1 |-> base]
  <2>1. h \in [N + 1 - 0 .. N + 1 -> V] /\ h[N + 1] = base /\ N + 1 - 0 .. N = {}
    OBVIOUS
  <2>2. Downto(0)
    <3> HIDE DEF h
    <3> QED BY <2>1
  <2> QED BY <2>2
<1>2. ASSUME NEW k \in 1 .. N, k - 1 \in S
      PROVE  k \in S
  <2>1. PICK g \in [N + 1 - (k - 1) .. N + 1 -> V] :
               g[N + 1] = base /\ \A n \in N + 1 - (k - 1) .. N : g[n] = F[n][g[jump[n]]]
    BY <1>2
  <2> DEFINE m == N + 1 - k
             h == [n \in m .. N + 1 |-> IF n = m THEN F[m][g[jump[m]]] ELSE g[n]]
  <2>2. m \in 1 .. N /\ m \in Nat /\ N + 1 - (k - 1) = m + 1
    OBVIOUS
  <2> HIDE DEF m
  <2>3. F[m] \in [V -> V] /\ jump[m] \in m + 1 .. N + 1
    BY <2>2
  <2>4. g[jump[m]] \in V
    BY <2>1, <2>2, <2>3
  <2>5. F[m][g[jump[m]]] \in V
    BY <2>3, <2>4
  <2>6. \A n \in m + 1 .. N + 1 : g[n] \in V
    BY <2>1, <2>2
  <2>7. h \in [m .. N + 1 -> V]
    <3>1. \A n \in m .. N + 1 : n = m \/ n \in m + 1 .. N + 1
      BY <2>2
    <3> QED BY <2>5, <2>6, <3>1
  <2>8. h[N + 1] = base
    BY <2>1, <2>2
  <2>9. ASSUME NEW n \in m .. N
        PROVE  h[n] = F[n][h[jump[n]]]
    <3>1. n \in 1 .. N /\ jump[n] \in n + 1 .. N + 1
      BY <2>2
    <3>2. jump[n] \in m .. N + 1 /\ jump[n] # m
      BY <2>2, <3>1
    <3>3. h[jump[n]] = g[jump[n]]
      BY <3>2
    <3>4. CASE n = m
      BY <2>2, <3>3, <3>4
    <3>5. CASE n # m
      <4>1. n \in m + 1 .. N /\ n \in m .. N + 1
        BY <2>2, <3>5
      <4>2. h[n] = g[n]
        BY <3>5, <4>1
      <4> HIDE DEF h
      <4> QED BY <2>1, <2>2, <3>3, <4>1, <4>2
    <3> QED BY <3>4, <3>5
  <2>10. Downto(k)
    <3> HIDE DEF h
    <3> QED BY <2>7, <2>8, <2>9 DEF m
  <2> HIDE DEF Downto
  <2> QED BY <2>10
<1>3. N \in S
  <2> HIDE DEF S
  <2>1. \A n \in 0 .. N : n \in S
    BY ONLY N \in Nat, <1>1, <1>2, BoundedInduction
  <2> QED BY <2>1
<1>4. PICK g \in [N + 1 - N .. N + 1 -> V] :
              g[N + 1] = base /\ \A n \in N + 1 - N .. N : g[n] = F[n][g[jump[n]]]
  BY <1>3
<1>5. N + 1 - N = 1
  OBVIOUS
<1> QED BY <1>4, <1>5 DEF Jumps

(* And what follows such a recursion is one.                                *)
LEMMA JumpsAre ==
  ASSUME NEW N \in Nat, NEW V, NEW base \in V, NEW F \in [1 .. N -> [V -> V]],
         NEW jump \in [1 .. N -> Nat], \A n \in 1 .. N : n < jump[n] /\ jump[n] <= N + 1,
         NEW h, FunctionOn(h, 1 .. N + 1), h[N + 1] = base,
         \A n \in 1 .. N : h[jump[n]] \in V => h[n] = F[n][h[jump[n]]]
  PROVE  Jumps(h, N, V, base, jump, F)
<1> DEFINE S == {k \in 0 .. N : \A n \in N + 1 - k .. N + 1 : h[n] \in V}
<1>1. 0 \in S
  OBVIOUS
<1>2. ASSUME NEW k \in 1 .. N, k - 1 \in S
      PROVE  k \in S
  <2> DEFINE m == N + 1 - k
  <2>1. m \in 1 .. N /\ m + 1 = N + 1 - (k - 1) /\ jump[m] \in m + 1 .. N + 1
    OBVIOUS
  <2>2. \A n \in m + 1 .. N + 1 : h[n] \in V
    BY <1>2, <2>1
  <2>3. h[m] = F[m][h[jump[m]]] /\ h[jump[m]] \in V
    BY <2>1, <2>2
  <2>4. h[m] \in V
    BY <2>1, <2>3
  <2>5. \A n \in m .. N + 1 : n = m \/ n \in m + 1 .. N + 1
    BY <2>1
  <2>6. \A n \in m .. N + 1 : h[n] \in V
    BY <2>2, <2>4, <2>5
  <2> QED BY <2>6
<1> HIDE DEF S
<1>3. \A n \in 0 .. N : n \in S
  BY ONLY N \in Nat, <1>1, <1>2, BoundedInduction
<1>4. \A n \in 1 .. N + 1 : h[n] \in V
  <2>1. N \in S /\ N + 1 - N = 1
    BY <1>3
  <2> QED BY <2>1 DEF S
<1>5. h \in [1 .. N + 1 -> V]
  BY <1>4 DEF FunctionOn
<1>6. \A n \in 1 .. N : jump[n] \in 1 .. N + 1
  OBVIOUS
<1> QED BY <1>4, <1>5, <1>6 DEF Jumps

-----------------------------------------------------------------------------
(* FlattenSeq puts the sequences one behind another.                        *)
Running(h, S, N, seqs) ==
  /\ h \in [0 .. N - 1 -> Seq(S)]
  /\ h[0] = seqs[1] /\ FlattenSeq(seqs) = h[N - 1]
  /\ \A k \in 1 .. N - 1 : h[k] = h[k - 1] \o seqs[k + 1]

LEMMA FlattenFollows ==
  ASSUME NEW S, NEW N \in Nat \ {0}, NEW seqs \in [1 .. N -> Seq(S)]
  PROVE  \E h : Running(h, S, N, seqs)
<1> DEFINE F == [k \in 1 .. N - 1 |-> [x \in Seq(S) |-> x \o seqs[k + 1]]]
           Q(h) == h = [i \in 1 .. N |-> IF i = 1 THEN seqs[1] ELSE h[i - 1] \o seqs[i]]
<1>1. Len(seqs) = N /\ N - 1 \in Nat /\ seqs[1] \in Seq(S)
  OBVIOUS
<1>2. FlattenSeq(seqs) = (CHOOSE h : Q(h))[N]
  <2>1. \A i : (IF i = 1 THEN seqs[i] ELSE i) = (IF i = 1 THEN seqs[1] ELSE i)
    OBVIOUS
  <2> QED BY <1>1 DEF FlattenSeq
<1>3. F \in [1 .. N - 1 -> [Seq(S) -> Seq(S)]]
  <2>1. \A k \in 1 .. N - 1 : \A x \in Seq(S) : x \o seqs[k + 1] \in Seq(S)
    OBVIOUS
  <2> QED BY <2>1
<1>4. PICK g : Recursion(g, N - 1, Seq(S), seqs[1], F)
  <2> HIDE DEF F
  <2> QED BY ONLY <1>1, <1>3, RecursionExists
<1>5. /\ g \in [0 .. N - 1 -> Seq(S)] /\ g[0] = seqs[1]
      /\ \A k \in 1 .. N - 1 : g[k] = g[k - 1] \o seqs[k + 1]
  <2> HIDE DEF F
  <2>1. g \in [0 .. N - 1 -> Seq(S)] /\ g[0] = seqs[1] /\ \A k \in 1 .. N - 1 : g[k] = F[k][g[k - 1]]
    BY <1>4 DEF Recursion
  <2>2. \A k \in 1 .. N - 1, x \in Seq(S) : F[k][x] = x \o seqs[k + 1]
    BY DEF F
  <2>3. \A k \in 1 .. N - 1 : g[k - 1] \in Seq(S)
    BY <1>1, <2>1
  <2> QED BY <2>1, <2>2, <2>3
<1> HIDE DEF F
<1>6. Q([i \in 1 .. N |-> g[i - 1]])
  <2> DEFINE w == [i \in 1 .. N |-> g[i - 1]]
  <2>1. w[1] = seqs[1]
    BY <1>1, <1>5
  <2>2. ASSUME NEW i \in 1 .. N, i # 1
        PROVE  w[i] = w[i - 1] \o seqs[i]
    <3>1. i - 1 \in 1 .. N - 1 /\ i - 1 \in 1 .. N /\ (i - 1) + 1 = i
      BY <2>2
    <3>2. w[i] = g[i - 1] /\ w[i - 1] = g[(i - 1) - 1]
      BY <3>1
    <3> QED BY <1>5, <3>1, <3>2
  <2>3. w = [i \in 1 .. N |-> w[i]]
    OBVIOUS
  <2> HIDE DEF w
  <2>4. w = [i \in 1 .. N |-> IF i = 1 THEN seqs[1] ELSE w[i - 1] \o seqs[i]]
    BY <2>1, <2>2, <2>3
  <2> QED BY <2>4 DEF w
<1> DEFINE f == CHOOSE h : Q(h)
<1>7. Q(f)
  BY <1>6
<1>8. FlattenSeq(seqs) = f[N]
  BY <1>2
<1> HIDE DEF f
<1> DEFINE h == [k \in 0 .. N - 1 |-> f[k + 1]]
<1>9. f[1] = seqs[1] /\ \A i \in 1 .. N : i # 1 => f[i] = f[i - 1] \o seqs[i]
  <2>1. \A i \in 1 .. N : f[i] = IF i = 1 THEN seqs[1] ELSE f[i - 1] \o seqs[i]
    BY <1>7, Zenon
  <2>2. 1 \in 1 .. N
    OBVIOUS
  <2>3. f[1] = seqs[1]
    BY <2>1, <2>2, Zenon
  <2>4. ASSUME NEW i \in 1 .. N, i # 1
        PROVE  f[i] = f[i - 1] \o seqs[i]
    BY <2>1, <2>4, Zenon
  <2> QED BY <2>3, <2>4, Zenon
<1>10. /\ h[0] = seqs[1] /\ FlattenSeq(seqs) = h[N - 1]
       /\ \A k \in 1 .. N - 1 : h[k] = h[k - 1] \o seqs[k + 1]
  <2>1. h[0] = f[1] /\ h[N - 1] = f[N]
    BY <1>1
  <2>2. ASSUME NEW k \in 1 .. N - 1
        PROVE  h[k] = h[k - 1] \o seqs[k + 1]
    <3>1. k + 1 \in 1 .. N /\ k + 1 # 1 /\ (k + 1) - 1 = k /\ k - 1 \in 0 .. N - 1 /\ (k - 1) + 1 = k
      BY <2>2
    <3>2. h[k] = f[k + 1] /\ h[k - 1] = f[k]
      BY <3>1
    <3> QED BY <1>9, <3>1, <3>2
  <2> QED BY <1>8, <1>9, <2>1, <2>2
<1>11. FunctionOn(h, 0 .. N - 1)
  BY DEF FunctionOn
<1> HIDE DEF h, Q
<1>12. \A k \in 1 .. N - 1 : h[k - 1] \in Seq(S) => h[k] = F[k][h[k - 1]]
  BY <1>10 DEF F
<1>13. Recursion(h, N - 1, Seq(S), seqs[1], F)
  BY ONLY <1>1, <1>3, <1>10, <1>11, <1>12, RecursionIs
<1>14. h \in [0 .. N - 1 -> Seq(S)]
  BY <1>13 DEF Recursion
<1> QED BY <1>10, <1>14 DEF Running

(* One sequence more.                                                       *)
LEMMA FlattenLonger ==
  ASSUME NEW S, NEW N \in Nat, NEW seqs \in [1 .. N -> Seq(S)], NEW longer \in [1 .. N + 1 -> Seq(S)],
         \A i \in 1 .. N : longer[i] = seqs[i]
  PROVE  FlattenSeq(seqs) \in Seq(S) /\ FlattenSeq(longer) = FlattenSeq(seqs) \o longer[N + 1]
<1>1. N + 1 \in Nat \ {0} /\ (N + 1) - 1 = N /\ longer[N + 1] \in Seq(S)
  OBVIOUS
<1>2. PICK g : Running(g, S, N + 1, longer)
  BY ONLY <1>1, longer \in [1 .. N + 1 -> Seq(S)], FlattenFollows
<1>3. /\ g[0] = longer[1] /\ FlattenSeq(longer) = g[N]
      /\ \A k \in 1 .. N : g[k] = g[k - 1] \o longer[k + 1]
  BY <1>1, <1>2 DEF Running
<1>4. CASE N = 0
  <2>1. Len(seqs) = 0 /\ seqs = <<>>
    BY <1>4
  <2>2. FlattenSeq(seqs) = <<>>
    BY <2>1 DEF FlattenSeq
  <2>3. FlattenSeq(longer) = longer[N + 1]
    BY <1>3, <1>4
  <2> QED BY <1>1, <2>2, <2>3
<1>5. CASE N # 0
  <2>1. PICK h : Running(h, S, N, seqs)
    BY <1>5, FlattenFollows
  <2>2. /\ h \in [0 .. N - 1 -> Seq(S)] /\ h[0] = seqs[1] /\ FlattenSeq(seqs) = h[N - 1]
        /\ \A k \in 1 .. N - 1 : h[k] = h[k - 1] \o seqs[k + 1]
    BY <2>1 DEF Running
  <2> DEFINE K == {k \in 0 .. N - 1 : g[k] = h[k]}
  <2>3. 0 \in K
    BY <1>3, <1>5, <2>2
  <2>4. ASSUME NEW k \in 1 .. N - 1, k - 1 \in K
        PROVE  k \in K
    <3>1. k \in 1 .. N /\ k + 1 \in 1 .. N /\ k \in 0 .. N - 1
      OBVIOUS
    <3>2. g[k] = g[k - 1] \o longer[k + 1] /\ h[k] = h[k - 1] \o seqs[k + 1] /\ g[k - 1] = h[k - 1]
      BY <1>3, <2>2, <2>4, <3>1
    <3> QED BY <3>1, <3>2
  <2>5. N - 1 \in Nat
    BY <1>5
  <2> HIDE DEF K
  <2>6. \A k \in 0 .. N - 1 : k \in K
    BY ONLY <2>3, <2>4, <2>5, BoundedInduction
  <2>7. g[N - 1] = h[N - 1]
    BY <2>5, <2>6 DEF K
  <2>8. g[N] = g[N - 1] \o longer[N + 1]
    <3>1. N \in 1 .. N
      BY <1>5
    <3> QED BY <1>3, <3>1
  <2> QED BY <1>3, <2>2, <2>5, <2>7, <2>8
<1> QED BY <1>4, <1>5

(* Where each of the sequences is found in the flattened one.               *)
Offsets(off, S, N, seqs) ==
  /\ off \in [0 .. N -> Nat] /\ off[0] = 0
  /\ \A k \in 1 .. N : off[k] = off[k - 1] + Len(seqs[k]) /\ off[k] <= off[N]
  /\ FlattenSeq(seqs) \in Seq(S) /\ Len(FlattenSeq(seqs)) = off[N]
  /\ \A k \in 1 .. N : \A j \in 1 .. Len(seqs[k]) :
       FlattenSeq(seqs)[off[k - 1] + j] = seqs[k][j]

(* Where the elements of two sequences are when one follows the other.      *)
LEMMA JoinedAt ==
  ASSUME NEW S, NEW s \in Seq(S), NEW r \in Seq(S)
  PROVE  /\ Len(s \o r) = Len(s) + Len(r)
         /\ Len(s \o r) \in Nat /\ Len(s) \in Nat /\ Len(r) \in Nat
         /\ \A j \in 1 .. Len(s) : (s \o r)[j] = s[j]
         /\ \A j \in 1 .. Len(r) : (s \o r)[Len(s) + j] = r[j]
OBVIOUS

(* Three sequences joined from the left are what they are joined from the   *)
(* right.                                                                   *)
JoinsAgain(s, r, q) == (s \o r) \o q = s \o (r \o q)

LEMMA JoinAgain ==
  ASSUME NEW S, NEW s \in Seq(S), NEW r \in Seq(S), NEW q \in Seq(S)
  PROVE  s \o r \in Seq(S) /\ JoinsAgain(s, r, q)
<1> DEFINE a == (s \o r) \o q
           b == s \o (r \o q)
<1>1. /\ Len(s \o r) = Len(s) + Len(r) /\ Len(r \o q) = Len(r) + Len(q)
      /\ Len(s) \in Nat /\ Len(r) \in Nat /\ Len(q) \in Nat
      /\ s \o r \in Seq(S) /\ r \o q \in Seq(S) /\ a \in Seq(S) /\ b \in Seq(S)
  BY JoinedAt
<1>2. Len(a) = Len(s) + Len(r) + Len(q) /\ Len(b) = Len(s) + Len(r) + Len(q)
  BY <1>1
<1>3. ASSUME NEW i \in 1 .. Len(s) + Len(r) + Len(q)
      PROVE  a[i] = b[i]
  BY <1>1, <1>3
<1> HIDE DEF a, b
<1>4. a = b
  BY ONLY <1>1, <1>2, <1>3, SeqEqual, Zenon
<1> QED BY <1>1, <1>4 DEF a, b, JoinsAgain

LEMMA OneLonger ==
  ASSUME NEW S, NEW s \in Seq(S), NEW k \in 1 .. Len(s)
  PROVE  /\ SubSeq(s, 1, k - 1) \in Seq(S) /\ s[k] \in S
         /\ SubSeq(s, 1, k) \in Seq(S) /\ Len(SubSeq(s, 1, k)) = k
         /\ \A i \in 1 .. k : SubSeq(s, 1, k)[i] = s[i]
         /\ SubSeq(s, 1, k) = SubSeq(s, 1, k - 1) \o <<s[k]>>
         /\ SubSeq(s, 1, k) = Append(SubSeq(s, 1, k - 1), s[k])
<1> DEFINE a == SubSeq(s, 1, k)
           b == SubSeq(s, 1, k - 1)
<1>1. Len(s) \in Nat /\ k \in Nat /\ k - 1 \in Nat /\ s[k] \in S
  OBVIOUS
<1>2. a \in Seq(S) /\ Len(a) = k /\ \A i \in 1 .. k : a[i] = s[i]
  BY <1>1
<1>3. b \in Seq(S) /\ Len(b) = k - 1 /\ \A i \in 1 .. k - 1 : b[i] = s[i]
  BY <1>1
<1> HIDE DEF a, b
<1>4. Append(b, s[k]) \in Seq(S) /\ Len(Append(b, s[k])) = k
      /\ \A i \in 1 .. k : Append(b, s[k])[i] = s[i]
  BY <1>1, <1>3
<1>5. a = Append(b, s[k])
  BY <1>1, <1>2, <1>4
<1> DEFINE c == b \o <<s[k]>>
<1>6. c \in Seq(S) /\ Len(c) = k /\ \A i \in 1 .. k : c[i] = s[i]
  BY <1>1, <1>3
<1> HIDE DEF c
<1>7. a = c
  BY ONLY <1>2, <1>6, SeqEqual, Zenon
<1> QED BY <1>1, <1>2, <1>3, <1>5, <1>7 DEF a, b, c

LEMMA CutInTwo ==
  ASSUME NEW S, NEW s \in Seq(S), NEW k \in 0 .. Len(s)
  PROVE  /\ SubSeq(s, 1, k) \in Seq(S) /\ SubSeq(s, k + 1, Len(s)) \in Seq(S)
         /\ Len(SubSeq(s, 1, k)) = k /\ Len(SubSeq(s, k + 1, Len(s))) = Len(s) - k
         /\ s = SubSeq(s, 1, k) \o SubSeq(s, k + 1, Len(s))
<1> DEFINE a == SubSeq(s, 1, k)
           b == SubSeq(s, k + 1, Len(s))
           c == a \o b
<1>1. Len(s) \in Nat /\ k \in Nat /\ k <= Len(s) /\ Len(s) - k \in Nat
  OBVIOUS
<1>2. a \in Seq(S) /\ Len(a) = k /\ \A i \in 1 .. k : a[i] = s[i]
  BY <1>1
<1>3. b \in Seq(S) /\ Len(b) = Len(s) - k /\ \A i \in 1 .. Len(s) - k : b[i] = s[k + i]
  BY <1>1
<1> HIDE DEF a, b
<1>4. /\ c \in Seq(S) /\ Len(c) = Len(a) + Len(b)
      /\ \A i \in 1 .. Len(a) : c[i] = a[i]
      /\ \A i \in 1 .. Len(b) : c[Len(a) + i] = b[i]
  <2>1. c \in Seq(S)
    BY <1>2, <1>3
  <2> QED BY <1>2, <1>3, <2>1, JoinedAt
<1> HIDE DEF c
<1>5. Len(c) = Len(s)
  BY <1>1, <1>2, <1>3, <1>4
<1>6. ASSUME NEW i \in 1 .. Len(s)
      PROVE  c[i] = s[i]
  <2>1. CASE i <= k
    <3>1. i \in 1 .. k
      BY <1>1, <2>1
    <3> QED BY <1>2, <1>4, <3>1
  <2>2. CASE i > k
    <3>1. PICK n \in 1 .. Len(s) - k : i = k + n
      <4>1. i - k \in 1 .. Len(s) - k /\ k + (i - k) = i
        BY <1>1, <2>2
      <4> QED BY <4>1
    <3>2. c[k + n] = b[n]
      BY <1>2, <1>3, <1>4
    <3> QED BY <1>3, <3>1, <3>2
  <2> QED BY <1>1, <2>1, <2>2
<1>7. s = c
  BY <1>1, <1>4, <1>5, <1>6
<1> QED BY <1>2, <1>3, <1>7 DEF a, b, c

LEMMA OneChar ==
  ASSUME NEW S, NEW s \in Seq(S), 1 \in 1 .. Len(s)
  PROVE  SubSeq(s, 1, 0 + 1) = <<s[1]>>
<1>1. Len(s) \in Nat /\ Len(s) >= 1 /\ 0 + 1 = 1 /\ s[1] \in S
  OBVIOUS
<1> DEFINE a == SubSeq(s, 1, 1)
           b == <<s[1]>>
<1>2. a \in Seq(S) /\ Len(a) = 1 /\ \A i \in 1 .. 1 : a[i] = s[1]
  BY <1>1
<1>3. b \in Seq(S) /\ Len(b) = 1 /\ \A i \in 1 .. 1 : b[i] = s[1]
  BY <1>1
<1> HIDE DEF a, b
<1>4. a = b
  BY <1>2, <1>3
<1> QED BY <1>1, <1>4 DEF a, b

LEMMA FlattenAt ==
  ASSUME NEW S, NEW N \in Nat \ {0}, NEW seqs \in [1 .. N -> Seq(S)]
  PROVE  \E off : Offsets(off, S, N, seqs)
<1>1. PICK h : Running(h, S, N, seqs)
  BY FlattenFollows
<1> DEFINE off == [k \in 0 .. N |-> IF k = 0 THEN 0 ELSE Len(h[k - 1])]
           flat == FlattenSeq(seqs)
<1>2. /\ N - 1 \in Nat /\ flat = h[N - 1] /\ h[0] = seqs[1]
      /\ \A k \in 0 .. N - 1 : h[k] \in Seq(S) /\ Len(h[k]) \in Nat
      /\ \A k \in 1 .. N : seqs[k] \in Seq(S) /\ Len(seqs[k]) \in Nat
      /\ \A k \in 1 .. N - 1 : h[k] = h[k - 1] \o seqs[k + 1]
  <2>1. h \in [0 .. N - 1 -> Seq(S)] /\ flat = h[N - 1] /\ h[0] = seqs[1]
    BY <1>1 DEF Running
  <2>2. \A k \in 1 .. N - 1 : h[k] = h[k - 1] \o seqs[k + 1]
    BY <1>1 DEF Running
  <2>3. \A s \in Seq(S) : Len(s) \in Nat
    OBVIOUS
  <2> HIDE DEF flat, off
  <2>4. \A k \in 0 .. N - 1 : h[k] \in Seq(S) /\ Len(h[k]) \in Nat
    BY <2>1, <2>3
  <2>5. \A k \in 1 .. N : seqs[k] \in Seq(S) /\ Len(seqs[k]) \in Nat
    BY <2>3
  <2>6. N - 1 \in Nat
    OBVIOUS
  <2> QED BY <2>1, <2>2, <2>4, <2>5, <2>6
<1>3. off \in [0 .. N -> Nat] /\ off[0] = 0 /\ \A k \in 1 .. N : off[k] = Len(h[k - 1])
  BY <1>2
<1> HIDE DEF off, flat
<1>4. \A k \in 1 .. N : off[k] = off[k - 1] + Len(seqs[k])
  <2>1. off[1] = off[0] + Len(seqs[1])
    BY <1>2, <1>3
  <2>2. ASSUME NEW k \in 2 .. N
        PROVE  off[k] = off[k - 1] + Len(seqs[k])
    <3>1. k - 1 \in 1 .. N - 1 /\ k - 1 \in 1 .. N /\ (k - 1) + 1 = k /\ k \in 1 .. N
      BY <1>2
    <3>2. h[k - 1] = h[(k - 1) - 1] \o seqs[k]
      BY <1>2, <3>1
    <3>3. h[(k - 1) - 1] \in Seq(S) /\ seqs[k] \in Seq(S)
      BY <1>2, <3>1
    <3>4. Len(h[k - 1]) = Len(h[(k - 1) - 1]) + Len(seqs[k])
      BY <3>2, <3>3
    <3> QED BY <1>3, <3>1, <3>4
  <2>3. \A k \in 1 .. N : k = 1 \/ k \in 2 .. N
    BY <1>2
  <2> QED BY <2>1, <2>2, <2>3
(* A running sequence is a prefix of all that follow it.                    *)
<1>5. \A k \in 0 .. N - 1 :
        \A i \in 0 .. k : /\ Len(h[i]) <= Len(h[k])
                         /\ \A j \in 1 .. Len(h[i]) : h[k][j] = h[i][j]
  <2> DEFINE Extends(k) == \A i \in 0 .. k : /\ Len(h[i]) <= Len(h[k])
                                             /\ \A j \in 1 .. Len(h[i]) : h[k][j] = h[i][j]
             T == {k \in 0 .. N - 1 : Extends(k)}
  <2>1. 0 \in T
    BY <1>2
  <2>2. ASSUME NEW k \in 1 .. N - 1, k - 1 \in T
        PROVE  k \in T
    <3>1. /\ h[k] = h[k - 1] \o seqs[k + 1] /\ h[k - 1] \in Seq(S) /\ seqs[k + 1] \in Seq(S)
          /\ k \in 0 .. N - 1 /\ h[k] \in Seq(S)
      <4>1. k - 1 \in 0 .. N - 1 /\ k + 1 \in 1 .. N /\ k \in 0 .. N - 1
        BY <1>2
      <4> QED BY <1>2, <4>1
    <3>2. /\ Len(h[k]) = Len(h[k - 1]) + Len(seqs[k + 1])
          /\ \A j \in 1 .. Len(h[k - 1]) : h[k][j] = h[k - 1][j]
          /\ Len(h[k]) \in Nat /\ Len(h[k - 1]) \in Nat /\ Len(seqs[k + 1]) \in Nat
      <4> DEFINE s == h[k - 1]
                 r == seqs[k + 1]
      <4> HIDE DEF s, r
      <4>1. s \in Seq(S) /\ r \in Seq(S) /\ h[k] = s \o r
        BY ONLY <3>1 DEF s, r
      <4>2. /\ Len(s \o r) = Len(s) + Len(r)
            /\ Len(s \o r) \in Nat /\ Len(s) \in Nat /\ Len(r) \in Nat
            /\ \A j \in 1 .. Len(s) : (s \o r)[j] = s[j]
        BY ONLY <4>1, JoinedAt
      <4> QED BY ONLY <4>1, <4>2 DEF s, r
    <3>3. ASSUME NEW i \in 0 .. k
          PROVE  /\ Len(h[i]) <= Len(h[k])
                 /\ \A j \in 1 .. Len(h[i]) : h[k][j] = h[i][j]
      <4>1. CASE i = k
        BY <4>1, <3>2
      <4>2. CASE i \in 0 .. k - 1
        <5>1. /\ Len(h[i]) <= Len(h[k - 1]) /\ Len(h[i]) \in Nat
              /\ \A j \in 1 .. Len(h[i]) : h[k - 1][j] = h[i][j]
          <6>1. i \in 0 .. N - 1 /\ i \in 0 .. k - 1 /\ k - 1 \in 0 .. N - 1
            BY <1>2, <4>2
          <6> QED BY <1>2, <2>2, <6>1
        <5>2. \A j \in 1 .. Len(h[i]) : j \in 1 .. Len(h[k - 1])
          BY <3>2, <5>1
        <5>3. \A j \in 1 .. Len(h[i]) : h[k][j] = h[i][j]
          BY ONLY <3>2, <5>1, <5>2
        <5>4. Len(h[i]) <= Len(h[k])
          <6>1. Len(h[i]) <= Len(h[k - 1]) /\ Len(h[k]) = Len(h[k - 1]) + Len(seqs[k + 1])
            BY ONLY <3>2, <5>1
          <6>2. Len(h[i]) \in Nat /\ Len(h[k - 1]) \in Nat /\ Len(seqs[k + 1]) \in Nat
            BY ONLY <3>2, <5>1
          <6>3. \A a, b, c \in Nat : a <= b => a <= b + c
            OBVIOUS
          <6> QED BY ONLY <6>1, <6>2, <6>3
        <5> QED BY ONLY <5>3, <5>4
      <4>3. i = k \/ i \in 0 .. k - 1
        BY <1>2
      <4> QED BY <4>1, <4>2, <4>3
    <3> QED BY <3>1, <3>3
  <2> HIDE DEF T
  <2>3. \A k \in 0 .. N - 1 : k \in T
    BY ONLY <1>2, <2>1, <2>2, BoundedInduction
  <2> QED BY <2>3 DEF T
<1>6. flat \in Seq(S) /\ Len(flat) = off[N]
  <2>1. N - 1 \in 0 .. N - 1 /\ N \in 1 .. N
    BY <1>2
  <2> QED BY <1>2, <1>3, <2>1
<1>7. \A k \in 1 .. N : off[k] <= off[N]
  <2>1. SUFFICES ASSUME NEW k \in 1 .. N PROVE off[k] <= off[N]
    OBVIOUS
  <2>2. N - 1 \in 0 .. N - 1 /\ k - 1 \in 0 .. N - 1 /\ N \in 1 .. N
    BY <1>2
  <2> QED BY <1>3, <1>5, <2>2
<1>8. ASSUME NEW k \in 1 .. N, NEW j \in 1 .. Len(seqs[k])
      PROVE  flat[off[k - 1] + j] = seqs[k][j]
  <2>1. h[k - 1][off[k - 1] + j] = seqs[k][j]
    <3>1. CASE k = 1
      BY <1>2, <1>3, <3>1
    <3>2. CASE k \in 2 .. N
      <4>1. k - 1 \in 1 .. N - 1 /\ k - 1 \in 1 .. N /\ (k - 1) + 1 = k
        BY <1>2, <3>2
      <4>2. /\ h[k - 1] = h[(k - 1) - 1] \o seqs[k] /\ h[(k - 1) - 1] \in Seq(S) /\ seqs[k] \in Seq(S)
            /\ off[k - 1] = Len(h[(k - 1) - 1])
        <5>1. (k - 1) - 1 \in 0 .. N - 1 /\ k \in 1 .. N
          BY <1>2, <4>1
        <5>2. h[k - 1] = h[(k - 1) - 1] \o seqs[(k - 1) + 1]
          BY <1>2, <4>1
        <5>3. h[(k - 1) - 1] \in Seq(S) /\ seqs[k] \in Seq(S)
          BY <1>2, <5>1
        <5> QED BY <1>3, <4>1, <5>2, <5>3
      <4> QED BY ONLY <4>2, <1>8, JoinedAt
    <3>3. k = 1 \/ k \in 2 .. N
      BY <1>2
    <3> QED BY <3>1, <3>2, <3>3
  <2>2. off[k - 1] \in Nat /\ off[k] = off[k - 1] + Len(seqs[k]) /\ off[k] = Len(h[k - 1])
    <3>1. k - 1 \in 0 .. N
      BY <1>2
    <3> QED BY <1>3, <1>4, <3>1
  <2>3. off[k - 1] + j \in 1 .. Len(h[k - 1])
    <3>1. Len(seqs[k]) \in Nat
      BY <1>2
    <3> QED BY ONLY <2>2, <3>1, j \in 1 .. Len(seqs[k])
  <2>4. N - 1 \in 0 .. N - 1 /\ k - 1 \in 0 .. N - 1
    BY <1>2
  <2> QED BY <1>2, <1>5, <2>1, <2>3, <2>4
<1>9. \A k \in 1 .. N : off[k] = off[k - 1] + Len(seqs[k]) /\ off[k] <= off[N]
  BY <1>4, <1>7
<1>10. Offsets(off, S, N, seqs)
  BY <1>3, <1>6, <1>8, <1>9 DEF Offsets, flat
<1> QED BY <1>10

-----------------------------------------------------------------------------
(* Numbers and orders.                                                      *)

(* The least and the greatest of some numbers.                              *)
LEMMA MinIn ==
  ASSUME NEW T, T \subseteq Nat, T # {}
  PROVE  Min(T) \in T /\ \A y \in T : Min(T) <= y
<1>1. \E x \in T : \A y \in T : x <= y
  BY LeastNatural
<1> QED BY <1>1 DEF Min

LEMMA MaxIn ==
  ASSUME NEW N \in Nat, NEW T, T \subseteq 1 .. N, T # {}
  PROVE  Max(T) \in T /\ \A y \in T : y <= Max(T)
<1> DEFINE B == {N - y : y \in T}
<1>1. B \subseteq Nat /\ B # {}
  <2>1. \A y \in T : y \in 1 .. N /\ N - y \in Nat
    OBVIOUS
  <2>2. \E y \in T : N - y \in B
    OBVIOUS
  <2> QED BY <2>1, <2>2
<1>2. PICK b \in B : \A c \in B : b <= c
  <2> HIDE DEF B
  <2> QED BY ONLY <1>1, LeastNatural
<1>3. PICK x \in T : b = N - x
  BY <1>2
<1>4. ASSUME NEW y \in T
      PROVE  x >= y
  <2>1. b <= N - y /\ y \in 1 .. N /\ x \in 1 .. N
    BY <1>2
  <2> QED BY <1>3, <2>1
<1>5. \E z \in T : \A y \in T : z >= y
  BY <1>4
<1>6. Max(T) \in T /\ \A y \in T : Max(T) >= y
  BY <1>5 DEF Max
<1>7. \A y \in T : y \in Nat
  OBVIOUS
<1> QED BY <1>6, <1>7

(* Sorting: every place of an order is taken by exactly one element.        *)
Preceding(R, S, a) == {b \in S : <<b, a>> \in R}
IsStrictOrder(R, S) ==
  /\ \A a \in S : <<a, a>> \notin R
  /\ \A a, b \in S : a = b \/ <<a, b>> \in R \/ <<b, a>> \in R
  /\ \A a, b, c \in S : <<a, b>> \in R /\ <<b, c>> \in R => <<a, c>> \in R

LEMMA OrderRanks ==
  ASSUME NEW S, IsFiniteSet(S), NEW R, IsStrictOrder(R, S)
  PROVE  /\ Cardinality(S) \in Nat
         /\ \A a \in S : Cardinality(Preceding(R, S, a)) \in 0 .. Cardinality(S) - 1
         /\ \A a, b \in S : <<a, b>> \in R => Cardinality(Preceding(R, S, a)) < Cardinality(Preceding(R, S, b))
<1> DEFINE n == Cardinality(S)
<1>1. n \in Nat
  BY FS_CardinalityType
<1>2. ASSUME NEW a \in S
      PROVE  /\ IsFiniteSet(Preceding(R, S, a)) /\ Cardinality(Preceding(R, S, a)) \in 0 .. n - 1
  <2>1. Preceding(R, S, a) \in SUBSET (S \ {a})
    BY DEF Preceding, IsStrictOrder
  <2>2. IsFiniteSet(S \ {a}) /\ Cardinality(S \ {a}) = n - 1
    BY FS_RemoveElement
  <2>3. IsFiniteSet(Preceding(R, S, a)) /\ Cardinality(Preceding(R, S, a)) <= n - 1
    BY ONLY <2>1, <2>2, FS_Subset
  <2>4. Cardinality(Preceding(R, S, a)) \in Nat
    BY <2>3, FS_CardinalityType
  <2> QED BY <1>1, <2>3, <2>4
<1>3. ASSUME NEW a \in S, NEW b \in S, <<a, b>> \in R
      PROVE  Cardinality(Preceding(R, S, a)) < Cardinality(Preceding(R, S, b))
  <2>1. a \notin Preceding(R, S, a) /\ Preceding(R, S, a) \cup {a} \in SUBSET Preceding(R, S, b)
    BY <1>3 DEF Preceding, IsStrictOrder
  <2>2. Cardinality(Preceding(R, S, a) \cup {a}) = Cardinality(Preceding(R, S, a)) + 1
    BY <1>2, <2>1, FS_AddElement
  <2>3. Cardinality(Preceding(R, S, a) \cup {a}) <= Cardinality(Preceding(R, S, b))
    BY <1>2, <2>1, FS_Subset
  <2> QED BY <1>2, <2>2, <2>3
<1> QED BY <1>1, <1>2, <1>3

LEMMA OrderPlaces ==
  ASSUME NEW S, IsFiniteSet(S), NEW R, IsStrictOrder(R, S)
  PROVE  /\ Cardinality(S) \in Nat
         /\ \A i \in 1 .. Cardinality(S) : \E a \in S : Cardinality(Preceding(R, S, a)) = i - 1
<1> DEFINE n == Cardinality(S)
           f == [a \in S |-> Cardinality(Preceding(R, S, a))]
<1>1. n \in Nat
  BY FS_CardinalityType
<1>2. \A a \in S : Cardinality(Preceding(R, S, a)) \in 0 .. n - 1
  BY OrderRanks
<1>3. \A a, b \in S : <<a, b>> \in R => Cardinality(Preceding(R, S, a)) < Cardinality(Preceding(R, S, b))
  BY OrderRanks
<1>4. f \in Injection(S, 0 .. n - 1)
  <2>1. f \in [S -> 0 .. n - 1]
    BY <1>2
  <2>2. ASSUME NEW a \in S, NEW b \in S, f[a] = f[b]
        PROVE  a = b
    <3>1. Cardinality(Preceding(R, S, a)) = Cardinality(Preceding(R, S, b))
      BY <2>2
    <3>2. ~(<<a, b>> \in R) /\ ~(<<b, a>> \in R)
      BY <1>2, <1>3, <3>1
    <3> QED BY <3>2 DEF IsStrictOrder
  <2> HIDE DEF f
  <2> QED BY <2>1, <2>2 DEF Injection, IsInjective
<1>5. IsFiniteSet(0 .. n - 1) /\ Cardinality(0 .. n - 1) = n
  BY <1>1, FS_Interval
<1>6. f \in Surjection(S, 0 .. n - 1)
  <2> HIDE DEF f
  <2>1. Cardinality(S) = Cardinality(0 .. n - 1) <=> f \in Surjection(S, 0 .. n - 1)
    BY ONLY <1>4, <1>5, FS_Injection
  <2> QED BY <1>5, <2>1
<1>7. ASSUME NEW i \in 1 .. n
      PROVE  \E a \in S : Cardinality(Preceding(R, S, a)) = i - 1
  <2>1. i - 1 \in 0 .. n - 1
    BY <1>1
  <2>2. PICK a \in S : f[a] = i - 1
    <3> HIDE DEF f
    <3> QED BY <1>6, <2>1 DEF Surjection
  <2> QED BY <2>2
<1> QED BY <1>1, <1>7

(* The places, taken in turn, give the whole set in its order.              *)
LEMMA OrderIsSorted ==
  ASSUME NEW S, IsFiniteSet(S), NEW R, IsStrictOrder(R, S)
  PROVE  LET Placed(i) == CHOOSE a \in S : Cardinality(Preceding(R, S, a)) = i - 1
         IN /\ Cardinality(S) \in Nat
            /\ \A i \in 1 .. Cardinality(S) : Placed(i) \in S /\ Cardinality(Preceding(R, S, Placed(i))) = i - 1
            /\ \A a \in S : \E i \in 1 .. Cardinality(S) : a = Placed(i)
            /\ \A i, k \in 1 .. Cardinality(S) : i < k => <<Placed(i), Placed(k)>> \in R
<1> DEFINE n == Cardinality(S)
           place(a) == Cardinality(Preceding(R, S, a))
           Placed(i) == CHOOSE a \in S : place(a) = i - 1
<1>1. n \in Nat
  BY FS_CardinalityType
<1>2. \A a \in S : place(a) \in 0 .. n - 1
  BY OrderRanks
<1>3. \A a, b \in S : <<a, b>> \in R => place(a) < place(b)
  BY OrderRanks
<1>4. \A i \in 1 .. n : \E a \in S : place(a) = i - 1
  BY OrderPlaces
<1>5. \A a, b \in S : a = b \/ <<a, b>> \in R \/ <<b, a>> \in R
  BY DEF IsStrictOrder
<1> HIDE DEF n, place
<1>6. \A i \in 1 .. n : Placed(i) \in S /\ place(Placed(i)) = i - 1
  BY ONLY <1>4
<1>7. ASSUME NEW a \in S
      PROVE  \E i \in 1 .. n : a = Placed(i)
  <2>1. place(a) + 1 \in 1 .. n /\ (place(a) + 1) - 1 = place(a) /\ place(a) \in Nat
    BY <1>1, <1>2
  <2>2. PICK i \in 1 .. n : i - 1 = place(a)
    BY <2>1
  <2>3. Placed(i) \in S /\ place(Placed(i)) = place(a)
    BY <1>6, <2>2
  <2> HIDE DEF Placed
  <2>4. ~(<<a, Placed(i)>> \in R) /\ ~(<<Placed(i), a>> \in R)
    BY <1>3, <2>1, <2>3
  <2>5. a = Placed(i)
    BY <1>5, <2>3, <2>4
  <2> QED BY <2>5
<1>8. ASSUME NEW i \in 1 .. n, NEW k \in 1 .. n, i < k
      PROVE  <<Placed(i), Placed(k)>> \in R
  <2>1. /\ Placed(i) \in S /\ place(Placed(i)) = i - 1
        /\ Placed(k) \in S /\ place(Placed(k)) = k - 1
    BY <1>6
  <2>2. Placed(i) # Placed(k) /\ ~(place(Placed(k)) < place(Placed(i)))
    BY <1>1, <1>8, <2>1
  <2> HIDE DEF Placed
  <2> QED BY <1>3, <1>5, <2>1, <2>2
<1> QED BY <1>1, <1>6, <1>7, <1>8 DEF n, place

-----------------------------------------------------------------------------
(* Sums over finite sets, as MapThenFoldSet takes them: one element chosen, *)
(* then the rest.                                                           *)
One(s) == CHOOSE a \in s : TRUE

Summing(w, f, S) ==
  /\ f \in [SUBSET S -> Nat] /\ f[{}] = 0
  /\ \A s \in SUBSET S : s # {} => f[s] = w[One(s)] + f[s \ {One(s)}]

LEMMA OneLess ==
  ASSUME NEW s, IsFiniteSet(s), NEW a \in s
  PROVE  /\ One(s) \in s
         /\ IsFiniteSet(s \ {a}) /\ Cardinality(s) \in Nat \ {0} /\ Cardinality(s \ {a}) = Cardinality(s) - 1
<1>1. One(s) \in s
  BY DEF One
<1>2. Cardinality(s) \in Nat /\ Cardinality(s) # 0
  <2>1. Cardinality(s) \in Nat
    BY FS_CardinalityType
  <2>2. Cardinality(s) = 0 <=> s = {}
    BY FS_EmptySet
  <2> QED BY <2>1, <2>2
<1>3. IsFiniteSet(s \ {a}) /\ Cardinality(s \ {a}) = Cardinality(s) - 1
  BY FS_RemoveElement
<1> QED BY <1>1, <1>2, <1>3

LEMMA SumExists ==
  ASSUME NEW S, IsFiniteSet(S), NEW w \in [S -> Nat]
  PROVE  \E f : Summing(w, f, S)
<1> DEFINE N == Cardinality(S)
           V == [SUBSET S -> Nat]
           base == [s \in SUBSET S |-> 0]
           F == [k \in 1 .. N |-> [v \in V |->
                   [s \in SUBSET S |-> IF s = {} THEN 0 ELSE w[One(s)] + v[s \ {One(s)}]]]]
<1>1. N \in Nat /\ base \in V
  BY FS_CardinalityType
<1>2. ASSUME NEW s \in SUBSET S, s # {}
      PROVE  One(s) \in S /\ w[One(s)] \in Nat /\ s \ {One(s)} \in SUBSET S
  <2>1. One(s) \in s
    BY <1>2 DEF One
  <2> QED BY <2>1
<1>3. F \in [1 .. N -> [V -> V]]
  <2>1. ASSUME NEW v \in V
        PROVE  [s \in SUBSET S |-> IF s = {} THEN 0 ELSE w[One(s)] + v[s \ {One(s)}]] \in V
    <3>1. ASSUME NEW s \in SUBSET S
          PROVE  (IF s = {} THEN 0 ELSE w[One(s)] + v[s \ {One(s)}]) \in Nat
      <4>1. CASE s = {}
        BY <4>1
      <4>2. CASE s # {}
        <5>1. w[One(s)] \in Nat /\ v[s \ {One(s)}] \in Nat
          BY <1>2, <4>2
        <5> QED BY <4>2, <5>1
      <4> QED BY <4>1, <4>2
    <3> QED BY <3>1
  <2> HIDE DEF V
  <2> QED BY <2>1
<1>4. PICK g : Recursion(g, N, V, base, F)
  <2> HIDE DEF N, V, base, F
  <2> QED BY ONLY <1>1, <1>3, RecursionExists
<1>5. \A k \in 0 .. N : g[k] \in V
  <2> HIDE DEF N, V, base, F
  <2> QED BY <1>4 DEF Recursion
<1> DEFINE f == [s \in SUBSET S |-> g[Cardinality(s)][s]]
<1>6. ASSUME NEW s \in SUBSET S
      PROVE  IsFiniteSet(s) /\ Cardinality(s) \in 0 .. N
  <2>1. IsFiniteSet(s) /\ Cardinality(s) <= N
    BY FS_Subset
  <2>2. Cardinality(s) \in Nat
    BY <2>1, FS_CardinalityType
  <2> QED BY <1>1, <2>1, <2>2
<1>7. f \in [SUBSET S -> Nat]
  BY <1>5, <1>6
<1>8. f[{}] = 0
  <2>1. Cardinality({}) = 0 /\ {} \in SUBSET S
    BY FS_EmptySet
  <2>2. g[0] = base
    <3> HIDE DEF N, V, base, F
    <3> QED BY <1>4 DEF Recursion
  <2> QED BY <2>1, <2>2
<1>9. ASSUME NEW s \in SUBSET S, s # {}
      PROVE  f[s] = w[One(s)] + f[s \ {One(s)}]
  <2>1. PICK k : k = Cardinality(s)
    OBVIOUS
  <2>2. k \in 1 .. N /\ Cardinality(s \ {One(s)}) = k - 1
    <3>1. One(s) \in s
      BY <1>9 DEF One
    <3>2. k \in Nat \ {0} /\ Cardinality(s \ {One(s)}) = k - 1
      BY <1>6, <2>1, <3>1, OneLess
    <3>3. k \in 0 .. N
      BY <1>6, <2>1
    <3> QED BY <1>1, <3>2, <3>3
  <2>3. g[k] = F[k][g[k - 1]] /\ g[k - 1] \in V
    <3>1. k - 1 \in 0 .. N
      BY <1>1, <2>2
    <3> HIDE DEF N, V, base, F
    <3> QED BY <1>4, <1>5, <2>2, <3>1 DEF Recursion
  <2>4. F[k][g[k - 1]] = [u \in SUBSET S |-> IF u = {} THEN 0 ELSE w[One(u)] + g[k - 1][u \ {One(u)}]]
    <3> HIDE DEF N, V
    <3> QED BY <2>2, <2>3
  <2>5. g[k][s] = w[One(s)] + g[k - 1][s \ {One(s)}]
    <3> HIDE DEF F
    <3> QED BY <1>9, <2>3, <2>4
  <2>6. f[s] = g[k][s] /\ f[s \ {One(s)}] = g[k - 1][s \ {One(s)}]
    <3>1. s \ {One(s)} \in SUBSET S
      OBVIOUS
    <3> QED BY <2>1, <2>2, <3>1
  <2> QED BY <2>5, <2>6
<1> HIDE DEF f
<1>10. Summing(w, f, S)
  BY <1>7, <1>8, <1>9 DEF Summing
<1> QED BY <1>10

(* And what follows the recursion is one.                                   *)
LEMMA SumIs ==
  ASSUME NEW S, IsFiniteSet(S), NEW w \in [S -> Nat], NEW f, FunctionOn(f, SUBSET S), f[{}] = 0,
         \A s \in SUBSET S : s # {} => f[s] = w[One(s)] + f[s \ {One(s)}]
  PROVE  Summing(w, f, S)
<1> DEFINE N == Cardinality(S)
           K == {k \in 0 .. N : \A s \in SUBSET S : Cardinality(s) = k => f[s] \in Nat}
<1>1. N \in Nat
  BY FS_CardinalityType
<1>2. ASSUME NEW s \in SUBSET S
      PROVE  IsFiniteSet(s) /\ Cardinality(s) \in 0 .. N /\ (Cardinality(s) = 0 <=> s = {})
  <2>1. IsFiniteSet(s) /\ Cardinality(s) <= N
    BY FS_Subset
  <2>2. Cardinality(s) \in Nat /\ (Cardinality(s) = 0 <=> s = {})
    BY <2>1, FS_CardinalityType, FS_EmptySet
  <2> QED BY <1>1, <2>1, <2>2
<1>3. 0 \in K
  <2>1. ASSUME NEW s \in SUBSET S, Cardinality(s) = 0
        PROVE  f[s] \in Nat
    <3>1. s = {}
      BY <1>2, <2>1
    <3>2. f[s] = 0
      BY <3>1
    <3> QED BY <3>2
  <2> QED BY <1>1, <2>1
<1>4. ASSUME NEW k \in 1 .. N, k - 1 \in K
      PROVE  k \in K
  <2>1. ASSUME NEW s \in SUBSET S, Cardinality(s) = k
        PROVE  f[s] \in Nat
    <3>1. s # {}
      BY <1>2, <2>1
    <3>2. One(s) \in s
      BY <3>1 DEF One
    <3>3. Cardinality(s \ {One(s)}) = k - 1 /\ s \ {One(s)} \in SUBSET S
      BY <1>2, <2>1, <3>2, OneLess
    <3>4. f[s \ {One(s)}] \in Nat /\ w[One(s)] \in Nat
      BY <1>4, <3>2, <3>3
    <3>5. f[s] = w[One(s)] + f[s \ {One(s)}]
      BY <3>1
    <3> QED BY <3>4, <3>5
  <2>2. k \in 0 .. N
    BY <1>1
  <2> QED BY <2>1, <2>2
<1> HIDE DEF K, N
<1>5. \A k \in 0 .. N : k \in K
  BY ONLY <1>1, <1>3, <1>4, BoundedInduction
<1>6. \A s \in SUBSET S : f[s] \in Nat
  BY <1>2, <1>5 DEF K
<1>7. f \in [SUBSET S -> Nat]
  BY <1>6 DEF FunctionOn
<1> QED BY <1>7 DEF Summing

(* Any element may be taken first.                                          *)
LEMMA SumAny ==
  ASSUME NEW S, IsFiniteSet(S), NEW w \in [S -> Nat], NEW f, Summing(w, f, S)
  PROVE  \A s \in SUBSET S : \A a \in s : f[s] = w[a] + f[s \ {a}]
<1> DEFINE N == Cardinality(S)
           K == {k \in 0 .. N : \A s \in SUBSET S : Cardinality(s) = k => \A a \in s : f[s] = w[a] + f[s \ {a}]}
<1>1. N \in Nat
  BY FS_CardinalityType
<1>2. ASSUME NEW s \in SUBSET S
      PROVE  IsFiniteSet(s) /\ Cardinality(s) \in 0 .. N /\ (Cardinality(s) = 0 <=> s = {})
  <2>1. IsFiniteSet(s) /\ Cardinality(s) <= N
    BY FS_Subset
  <2>2. Cardinality(s) \in Nat /\ (Cardinality(s) = 0 <=> s = {})
    BY <2>1, FS_CardinalityType, FS_EmptySet
  <2> QED BY <1>1, <2>1, <2>2
<1>3. 0 \in K
  BY <1>1, <1>2
<1>4. ASSUME NEW k \in 1 .. N, k - 1 \in K
      PROVE  k \in K
  <2>1. ASSUME NEW s \in SUBSET S, Cardinality(s) = k, NEW a \in s
        PROVE  f[s] = w[a] + f[s \ {a}]
    <3>1. PICK c : c = One(s)
      OBVIOUS
    <3>2. c \in s /\ f[s] = w[c] + f[s \ {c}]
      BY <2>1, <3>1 DEF One, Summing
    <3>3. CASE a = c
      BY <3>2, <3>3
    <3>4. CASE a # c
      <4>1. /\ Cardinality(s \ {c}) = k - 1 /\ s \ {c} \in SUBSET S /\ a \in s \ {c}
            /\ Cardinality(s \ {a}) = k - 1 /\ s \ {a} \in SUBSET S /\ c \in s \ {a}
        BY <1>2, <2>1, <3>2, <3>4, OneLess
      <4>2. f[s \ {c}] = w[a] + f[(s \ {c}) \ {a}] /\ f[s \ {a}] = w[c] + f[(s \ {a}) \ {c}]
        BY <1>4, <4>1
      <4>3. (s \ {c}) \ {a} = (s \ {a}) \ {c} /\ (s \ {a}) \ {c} \in SUBSET S
        OBVIOUS
      <4>4. w[a] \in Nat /\ w[c] \in Nat /\ f[(s \ {a}) \ {c}] \in Nat
        BY <3>2, <4>3 DEF Summing
      <4>5. PICK r \in Nat : r = f[(s \ {a}) \ {c}]
        BY <4>4
      <4>6. f[s \ {c}] = w[a] + r /\ f[s \ {a}] = w[c] + r
        BY <4>2, <4>3, <4>5
      <4> QED BY <3>2, <4>4, <4>5, <4>6
    <3> QED BY <3>3, <3>4
  <2>2. k \in 0 .. N
    BY <1>1
  <2> QED BY <2>1, <2>2
<1> HIDE DEF K, N
<1>5. \A k \in 0 .. N : k \in K
  BY ONLY <1>1, <1>3, <1>4, BoundedInduction
<1> QED BY <1>2, <1>5 DEF K

(* The sum of a set does not depend on the set it is taken within.          *)
LEMMA SumsAgree ==
  ASSUME NEW S, IsFiniteSet(S), NEW w \in [S -> Nat], NEW v, NEW f, NEW g, Summing(w, f, S),
         NEW T \in SUBSET S, Summing(v, g, T), \A a \in T : v[a] = w[a]
  PROVE  f[T] = g[T]
<1> DEFINE N == Cardinality(T)
           K == {k \in 0 .. N : \A s \in SUBSET T : Cardinality(s) = k => f[s] = g[s]}
<1>1. IsFiniteSet(T) /\ N \in Nat
  <2>1. IsFiniteSet(T)
    BY FS_Subset
  <2> QED BY <2>1, FS_CardinalityType
<1>2. ASSUME NEW s \in SUBSET T
      PROVE  IsFiniteSet(s) /\ Cardinality(s) \in 0 .. N /\ (Cardinality(s) = 0 <=> s = {})
  <2>1. IsFiniteSet(s) /\ Cardinality(s) <= N
    BY <1>1, FS_Subset
  <2>2. Cardinality(s) \in Nat /\ (Cardinality(s) = 0 <=> s = {})
    BY <2>1, FS_CardinalityType, FS_EmptySet
  <2> QED BY <1>1, <2>1, <2>2
<1>3. 0 \in K
  <2>1. \A s \in SUBSET T : Cardinality(s) = 0 => f[s] = g[s]
    BY <1>2 DEF Summing
  <2> QED BY <1>1, <2>1
<1>4. ASSUME NEW k \in 1 .. N, k - 1 \in K
      PROVE  k \in K
  <2>1. ASSUME NEW s \in SUBSET T, Cardinality(s) = k
        PROVE  f[s] = g[s]
    <3>1. PICK c : c = One(s)
      OBVIOUS
    <3>2. s # {}
      BY <1>2, <2>1
    <3>3. c \in s
      BY <3>1, <3>2 DEF One
    <3>4. f[s] = w[c] + f[s \ {c}] /\ g[s] = v[c] + g[s \ {c}]
      BY <3>1, <3>2 DEF Summing
    <3>5. Cardinality(s \ {c}) = k - 1 /\ s \ {c} \in SUBSET T
      BY <1>2, <2>1, <3>3, OneLess
    <3>6. f[s \ {c}] = g[s \ {c}]
      BY <1>4, <3>5
    <3> QED BY <3>3, <3>4, <3>6
  <2>2. k \in 0 .. N
    BY <1>1
  <2> QED BY <2>1, <2>2
<1> HIDE DEF K, N
<1>5. \A k \in 0 .. N : k \in K
  BY ONLY <1>1, <1>3, <1>4, BoundedInduction
<1> QED BY <1>2, <1>5 DEF K

(* The more elements, the more; of equal weights their number decides.      *)
LEMMA SumGrows ==
  ASSUME NEW S, IsFiniteSet(S), NEW w \in [S -> Nat], NEW f, Summing(w, f, S),
         NEW A \in SUBSET S, NEW B \in SUBSET S, A \subseteq B
  PROVE  f[A] <= f[B] /\ f[A] \in Nat /\ f[B] \in Nat
<1> DEFINE N == Cardinality(S)
           K == {k \in 0 .. N : \A s \in SUBSET S : Cardinality(s) = k => f[A] <= f[A \cup s]}
<1>1. N \in Nat
  BY FS_CardinalityType
<1>2. ASSUME NEW s \in SUBSET S
      PROVE  IsFiniteSet(s) /\ Cardinality(s) \in 0 .. N /\ (Cardinality(s) = 0 <=> s = {}) /\ f[s] \in Nat
  <2>1. IsFiniteSet(s) /\ Cardinality(s) <= N
    BY FS_Subset
  <2>2. Cardinality(s) \in Nat /\ (Cardinality(s) = 0 <=> s = {})
    BY <2>1, FS_CardinalityType, FS_EmptySet
  <2> QED BY <1>1, <2>1, <2>2 DEF Summing
<1>3. 0 \in K
  <2>1. ASSUME NEW s \in SUBSET S, Cardinality(s) = 0
        PROVE  f[A] <= f[A \cup s]
    <3>1. A \cup s = A
      BY <1>2, <2>1
    <3>2. f[A] <= f[A]
      BY <1>2
    <3> QED BY <3>1, <3>2
  <2> QED BY <1>1, <2>1
<1>4. ASSUME NEW k \in 1 .. N, k - 1 \in K
      PROVE  k \in K
  <2>1. ASSUME NEW s \in SUBSET S, Cardinality(s) = k
        PROVE  f[A] <= f[A \cup s]
    <3>1. s # {}
      BY <1>2, <2>1
    <3>2. PICK c \in s : c = One(s)
      BY <3>1 DEF One
    <3>3. Cardinality(s \ {c}) = k - 1 /\ s \ {c} \in SUBSET S
      BY <1>2, <2>1, OneLess
    <3>4. PICK some : some = A \cup (s \ {c})
      OBVIOUS
    <3>5. f[A] <= f[some] /\ some \in SUBSET S
      BY <1>4, <3>3, <3>4
    <3>6. CASE c \in some
      <4>1. A \cup s = some
        BY <3>4, <3>6
      <4> QED BY <3>5, <4>1
    <3>7. CASE c \notin some
      <4>1. some = (A \cup s) \ {c} /\ c \in A \cup s /\ A \cup s \in SUBSET S
        BY <3>4, <3>7
      <4>2. f[A \cup s] = w[c] + f[some]
        BY <4>1, SumAny
      <4>3. w[c] \in Nat /\ f[some] \in Nat /\ f[A] \in Nat
        BY <1>2, <3>5
      <4> QED BY <3>5, <4>2, <4>3
    <3> QED BY <3>6, <3>7
  <2>2. k \in 0 .. N
    BY <1>1
  <2> QED BY <2>1, <2>2
<1> HIDE DEF K, N
<1>5. \A k \in 0 .. N : k \in K
  BY ONLY <1>1, <1>3, <1>4, BoundedInduction
<1>6. f[A] <= f[A \cup B]
  BY <1>2, <1>5 DEF K
<1>7. A \cup B = B
  OBVIOUS
<1> QED BY <1>2, <1>6, <1>7

Balanced(w, A, B, C) ==
  /\ A \cap B = {} /\ A \cap C = {} /\ Cardinality(B) = Cardinality(C)
  /\ \A a, b \in B \cup C : w[a] = w[b]

LEMMA SumOfEquals ==
  ASSUME NEW S, IsFiniteSet(S), NEW w \in [S -> Nat], NEW f, Summing(w, f, S),
         NEW A \in SUBSET S, NEW B \in SUBSET S, NEW C \in SUBSET S, Balanced(w, A, B, C)
  PROVE  f[A \cup B] = f[A \cup C]
<1> DEFINE N == Cardinality(S)
           apart(s, t) == A \cap s = {} /\ A \cap t = {} /\ \A a, b \in s \cup t : w[a] = w[b]
           K == {k \in 0 .. N : \A s, t \in SUBSET S :
                   Cardinality(s) = k /\ Cardinality(t) = k /\ apart(s, t) => f[A \cup s] = f[A \cup t]}
<1>1. N \in Nat
  BY FS_CardinalityType
<1>2. ASSUME NEW s \in SUBSET S
      PROVE  IsFiniteSet(s) /\ Cardinality(s) \in 0 .. N /\ (Cardinality(s) = 0 <=> s = {})
  <2>1. IsFiniteSet(s) /\ Cardinality(s) <= N
    BY FS_Subset
  <2>2. Cardinality(s) \in Nat /\ (Cardinality(s) = 0 <=> s = {})
    BY <2>1, FS_CardinalityType, FS_EmptySet
  <2> QED BY <1>1, <2>1, <2>2
<1>3. 0 \in K
  <2>1. ASSUME NEW s \in SUBSET S, NEW t \in SUBSET S, Cardinality(s) = 0, Cardinality(t) = 0
        PROVE  f[A \cup s] = f[A \cup t]
    <3>1. s = t
      BY <1>2, <2>1
    <3> QED BY <3>1
  <2>2. 0 \in 0 .. N
    BY <1>1
  <2> HIDE DEF N, apart
  <2> QED BY <2>1, <2>2
<1>4. ASSUME NEW k \in 1 .. N, k - 1 \in K
      PROVE  k \in K
  <2>1. ASSUME NEW s \in SUBSET S, NEW t \in SUBSET S, A \cap s = {}, A \cap t = {},
               Cardinality(s) = k, Cardinality(t) = k, \A a, b \in s \cup t : w[a] = w[b]
        PROVE  f[A \cup s] = f[A \cup t]
    <3>1. s # {} /\ t # {}
      BY <1>2, <2>1
    <3>2. PICK c \in s, d \in t : TRUE
      BY <3>1
    <3>3. Cardinality(s \ {c}) = k - 1 /\ Cardinality(t \ {d}) = k - 1
      BY <1>2, <2>1, OneLess
    <3>4. f[A \cup (s \ {c})] = f[A \cup (t \ {d})]
      <4>1. /\ s \ {c} \in SUBSET S /\ t \ {d} \in SUBSET S /\ A \cap (s \ {c}) = {} /\ A \cap (t \ {d}) = {}
            /\ \A a, b \in (s \ {c}) \cup (t \ {d}) : w[a] = w[b]
        BY <2>1
      <4>2. apart(s \ {c}, t \ {d})
        BY <4>1
      <4> HIDE DEF N, apart
      <4> QED BY <1>4, <3>3, <4>1, <4>2
    <3>5. /\ A \cup (s \ {c}) = (A \cup s) \ {c} /\ c \in A \cup s /\ A \cup s \in SUBSET S
          /\ A \cup (t \ {d}) = (A \cup t) \ {d} /\ d \in A \cup t /\ A \cup t \in SUBSET S
      BY <2>1
    <3>6. f[A \cup s] = w[c] + f[A \cup (s \ {c})] /\ f[A \cup t] = w[d] + f[A \cup (t \ {d})]
      BY <3>5, SumAny
    <3>7. w[c] = w[d]
      BY <2>1
    <3> QED BY <3>4, <3>6, <3>7
  <2>2. k \in 0 .. N
    BY <1>1
  <2>3. ASSUME NEW s \in SUBSET S, NEW t \in SUBSET S, Cardinality(s) = k, Cardinality(t) = k, apart(s, t)
        PROVE  f[A \cup s] = f[A \cup t]
    BY <2>1, <2>3
  <2> HIDE DEF N, apart
  <2> QED BY <2>2, <2>3
<1> HIDE DEF N
<1>5. \A k \in 0 .. N : k \in K
  <2> HIDE DEF K
  <2> QED BY ONLY <1>1, <1>3, <1>4, BoundedInduction
<1>6. apart(B, C) /\ Cardinality(B) \in 0 .. N /\ Cardinality(C) = Cardinality(B)
  BY <1>2 DEF Balanced
<1> HIDE DEF apart
<1> QED BY <1>5, <1>6

=============================================================================
