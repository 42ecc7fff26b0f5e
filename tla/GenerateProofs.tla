--------------------------- MODULE GenerateProofs ---------------------------
(***************************************************************************)
(* generate for every prompt, every limit, every chunk size, every pair of *)
(* end tokens, all logits and sampling parameters, and whichever of the    *)
(* GPU's calls fail: its types, what it leaves behind, and which tokens    *)
(* the sampler may draw.                                                   *)
(***************************************************************************)
EXTENDS Generate, SequenceLemmas

(* Logits, one for each token id, and sampling parameters.                  *)
LogitsOK(l) == \E n \in Nat \ {0} : l \in [0 .. n - 1 -> Nat]
ParamsOK(p) == p.base \in Nat /\ p.topK \in Nat /\ p.num \in Nat /\ p.den \in Nat

(* What generate may be asked, and the logits the model may answer with.    *)
IsTask(t) ==
    /\ t.prompt \in Seq(Nat)
    /\ t.maxTokens \in Nat
    /\ ParamsOK(t.params)
    /\ \A l \in t.logits : LogitsOK(l)

GenInit == resident \in Seq(Nat) /\ GenerateInit

GenNext == (\E t : IsTask(t) /\ Call(t)) \/ GenerateStep

GenSpec == GenInit /\ [][GenNext]_genVars

-----------------------------------------------------------------------------
(* The inductive invariant: what the model holds, phase by phase.           *)

Asked == before \o task.prompt

TaskOK == gen # "off" => IsTask(task) /\ task.prompt # <<>>

(* Before the first token: what is left of the prompt is still to come.     *)
Starting ==
    /\ gen \in {"off", "record", "prefill"} => out = <<>>
    /\ gen = "off" => resident = before
    /\ gen = "record" => resident = before /\ toPrefill = task.prompt
    /\ gen = "prefill" =>
         /\ toPrefill # <<>>
         /\ resident \o toPrefill = Asked
         /\ Len(before) <= Len(resident)

(* In the loop: the token sampled last is held once it was fed.             *)
Looping ==
    /\ gen = "sample" => logits \in task.logits /\ resident = Asked \o out
    /\ gen = "decode" => out # <<>> /\ resident = Asked \o Front(out)

(* Every token up to the n-th let the loop go on.                           *)
WentOn(n) == \A i \in 1 .. n : out[i] \notin EosTokens /\ i < task.maxTokens

Going == gen \in {"sample", "decode", "failed"} => WentOn(Len(out))

Ended ==
    /\ gen \in {"eos", "max_tokens", "aborted"} =>
         /\ out # <<>> /\ resident = Asked \o Front(out)
         /\ WentOn(Len(out) - 1)
    /\ gen = "eos" => Last(out) \in EosTokens
    /\ gen = "max_tokens" => Last(out) \notin EosTokens /\ Len(out) >= task.maxTokens
    /\ gen = "failed" => IsPrefix(resident, Asked \o out) /\ Len(before) <= Len(resident)

GenInv == GenTypeOK /\ TaskOK /\ Starting /\ Looping /\ Going /\ Ended

-----------------------------------------------------------------------------
(* Sequences.                                                               *)

LEMMA AppendFrontLast ==
  ASSUME NEW S, NEW s \in Seq(S), NEW e \in S
  PROVE  /\ Append(s, e) \in Seq(S) /\ Append(s, e) # <<>>
         /\ Front(Append(s, e)) = s /\ Last(Append(s, e)) = e
         /\ Len(Append(s, e)) = Len(s) + 1
<1>1. /\ Append(s, e) \in Seq(S) /\ Append(s, e) # <<>>
      /\ Len(Append(s, e)) = Len(s) + 1 /\ Len(s) \in Nat
      /\ Append(s, e)[Len(s) + 1] = e
      /\ \A i \in 1 .. Len(s) : Append(s, e)[i] = s[i]
  BY AppendProperties, LenProperties
<1>2. Front(Append(s, e)) = SubSeq(Append(s, e), 1, Len(s))
  BY <1>1 DEF Front
<1>3. \A i \in 1 .. Len(s) : Append(s, e)[i] \in S
  BY <1>1, ElementOfSeq
<1>4. /\ SubSeq(Append(s, e), 1, Len(s)) \in Seq(S)
      /\ Len(SubSeq(Append(s, e), 1, Len(s))) = Len(s)
      /\ \A i \in 1 .. Len(s) : SubSeq(Append(s, e), 1, Len(s))[i] = s[i]
  BY <1>1, <1>3, SubSeqProperties
<1>5. SubSeq(Append(s, e), 1, Len(s)) = s
  BY <1>4, SeqEqual
<1> QED
  BY <1>1, <1>2, <1>5 DEF Last

LEMMA FrontThenLast ==
  ASSUME NEW S, NEW s \in Seq(S), s # <<>>
  PROVE  /\ Front(s) \in Seq(S) /\ Last(s) \in S
         /\ Append(Front(s), Last(s)) = s
         /\ Len(Front(s)) = Len(s) - 1 /\ Len(s) \in Nat \ {0}
<1>1. PICK f \in Seq(S), e \in S : s = Append(f, e)
  BY SequenceEmptyOrAppend
<1>2. Front(s) = f /\ Last(s) = e /\ Len(s) = Len(f) + 1 /\ Len(f) \in Nat
  BY <1>1, AppendFrontLast, LenProperties
<1> QED
  BY <1>1, <1>2

LEMMA ConcatAppend ==
  ASSUME NEW S, NEW a \in Seq(S), NEW b \in Seq(S), NEW e \in S
  PROVE  a \o Append(b, e) = Append(a \o b, e)
<1>1. <<e>> \in Seq(S) /\ a \o b \in Seq(S)
  BY ConcatProperties
<1>2. Append(b, e) = b \o <<e>> /\ Append(a \o b, e) = (a \o b) \o <<e>>
  BY <1>1, AppendIsConcat
<1>3. (a \o b) \o <<e>> = a \o (b \o <<e>>)
  <2>1. JoinsAgain(a, b, <<e>>)
    BY ONLY <1>1, a \in Seq(S), b \in Seq(S), JoinAgain
  <2> QED BY ONLY <2>1, Zenon DEF JoinsAgain
<1> QED
  BY <1>2, <1>3

LEMMA ConcatGrouped ==
  \A a, b, c \in Seq(Nat) : (a \o b) \o c = a \o (b \o c)
<1> TAKE a, b, c \in Seq(Nat)
<1>1. JoinsAgain(a, b, c)
  BY ONLY a \in Seq(Nat), b \in Seq(Nat), c \in Seq(Nat), JoinAgain
<1> QED BY ONLY <1>1, Zenon DEF JoinsAgain

LEMMA ConcatHasPrefix ==
  ASSUME NEW S, NEW a \in Seq(S), NEW b \in Seq(S)
  PROVE  /\ IsPrefix(a, a \o b)
         /\ a \o b \in Seq(S) /\ Len(a) <= Len(a \o b)
<1>1. /\ a \o b \in Seq(S) /\ Len(a \o b) = Len(a) + Len(b)
      /\ Len(a) \in Nat /\ Len(b) \in Nat
      /\ \A i \in 1 .. Len(a) : (a \o b)[i] = a[i] /\ a[i] \in S
  BY ConcatProperties, LenProperties, ElementOfSeq
<1>2. /\ SubSeq(a \o b, 1, Len(a)) \in Seq(S)
      /\ Len(SubSeq(a \o b, 1, Len(a))) = Len(a)
      /\ \A i \in 1 .. Len(a) : SubSeq(a \o b, 1, Len(a))[i] = a[i]
  BY <1>1, SubSeqProperties
<1>3. SubSeq(a \o b, 1, Len(a)) = a
  BY <1>2, SeqEqual
<1>4. SubSeq(a, 1, Len(a)) = a
  BY SubSeqFull
<1> QED
  BY <1>1, <1>3, <1>4 DEF IsPrefix

-----------------------------------------------------------------------------
(* The sampler, for every vector of logits and all parameters.              *)

LEMMA TokensAre ==
  ASSUME NEW l, LogitsOK(l)
  PROVE  /\ IsFiniteSet(Tokens(l)) /\ Cardinality(Tokens(l)) \in Nat \ {0}
         /\ Tokens(l) \subseteq Nat /\ Tokens(l) # {} /\ \A id \in Tokens(l) : l[id] \in Nat
<1>1. PICK n \in Nat \ {0} : l \in [0 .. n - 1 -> Nat]
  BY DEF LogitsOK
<1>2. Tokens(l) = 0 .. n - 1
  BY <1>1 DEF Tokens
<1>3. IsFiniteSet(0 .. n - 1) /\ Cardinality(0 .. n - 1) = n
  BY FS_Interval
<1> QED BY <1>1, <1>2, <1>3

LEMMA PowerIs ==
  ASSUME NEW base \in Nat, NEW n \in Nat
  PROVE  Power(base, n) \in Nat
<1> DEFINE body(f) == [i \in 0 .. n |-> IF i = 0 THEN 1 ELSE base * f[i - 1]]
           power == CHOOSE f : f = body(f)
           F == [i \in 1 .. n |-> [v \in Nat |-> base * v]]
<1>1. F \in [1 .. n -> [Nat -> Nat]]
  <2>1. \A v \in Nat : base * v \in Nat
    OBVIOUS
  <2> QED BY <2>1
<1>2. PICK g : Recursion(g, n, Nat, 1, F)
  <2> HIDE DEF F
  <2> QED BY <1>1, RecursionExists
<1>3. g \in [0 .. n -> Nat] /\ g[0] = 1 /\ \A i \in 1 .. n : g[i] = base * g[i - 1]
  <2>1. \A i \in 1 .. n : i - 1 \in 0 .. n
    OBVIOUS
  <2> QED BY <1>2, <2>1 DEF Recursion
<1>4. g = body(g)
  <2>1. \A i \in 0 .. n : g[i] = IF i = 0 THEN 1 ELSE base * g[i - 1]
    <3>1. \A i \in 0 .. n : i # 0 => i \in 1 .. n
      OBVIOUS
    <3> QED BY <1>3, <3>1
  <2>2. g = [i \in 0 .. n |-> g[i]]
    BY <1>3
  <2> QED BY <2>1, <2>2
<1>5. power = body(power)
  <2> HIDE DEF body
  <2> QED BY <1>4
<1>6. Power(base, n) = power[n]
  BY DEF Power
<1>7. /\ FunctionOn(power, 0 .. n) /\ power[0] = 1
      /\ \A i \in 1 .. n : power[i - 1] \in Nat => power[i] = F[i][power[i - 1]]
  <2>1. power = [i \in 0 .. n |-> body(power)[i]]
    BY <1>5
  <2>2. FunctionOn(power, 0 .. n)
    <3> HIDE DEF power, body
    <3> QED BY <1>5, <2>1 DEF FunctionOn
  <2>3. \A i \in 0 .. n : power[i] = body(power)[i]
    <3> HIDE DEF power, body
    <3> QED BY <1>5
  <2>4. \A i \in 0 .. n : body(power)[i] = IF i = 0 THEN 1 ELSE base * power[i - 1]
    <3> HIDE DEF power
    <3> QED OBVIOUS
  <2>5. 0 \in 0 .. n /\ \A i \in 1 .. n : i \in 0 .. n /\ i # 0
    OBVIOUS
  <2> HIDE DEF power, body
  <2> QED BY <2>2, <2>3, <2>4, <2>5
<1> HIDE DEF power, F
<1>8. Recursion(power, n, Nat, 1, F)
  BY <1>1, <1>7, RecursionIs
<1>9. power \in [0 .. n -> Nat]
  BY <1>8 DEF Recursion
<1> QED BY <1>6, <1>9

(* The mass of a set of tokens is the sum of their weights.                 *)
LEMMA MassIs ==
  ASSUME NEW l, LogitsOK(l), NEW p, ParamsOK(p)
  PROVE  \E w, f : /\ w \in [Tokens(l) -> Nat] /\ Summing(w, f, Tokens(l))
                   /\ \A id \in Tokens(l) : w[id] = Weight(l, p, id)
                   /\ \A set \in SUBSET Tokens(l) : Mass(l, p, set) = f[set]
<1> DEFINE T == Tokens(l)
           w == [id \in T |-> Weight(l, p, id)]
<1>1. IsFiniteSet(T) /\ w \in [T -> Nat]
  <2>1. \A id \in T : Weight(l, p, id) \in Nat
    BY TokensAre, PowerIs DEF Weight, ParamsOK
  <2> QED BY <2>1, TokensAre
<1>2. PICK f : Summing(w, f, T)
  <2> HIDE DEF w, T
  <2> QED BY <1>1, SumExists
<1>3. ASSUME NEW set \in SUBSET T
      PROVE  Mass(l, p, set) = f[set]
  <2> DEFINE v == [id \in set |-> Weight(l, p, id)]
             body(h) == [s \in SUBSET set |-> IF s = {} THEN 0 ELSE Weight(l, p, One(s)) + h[s \ {One(s)}]]
             iter == CHOOSE h : h = body(h)
  <2>1. IsFiniteSet(set) /\ v \in [set -> Nat] /\ \A id \in set : v[id] = w[id] /\ v[id] = Weight(l, p, id)
    <3>1. IsFiniteSet(set)
      BY <1>1, FS_Subset
    <3>2. \A id \in set : w[id] = Weight(l, p, id) /\ w[id] \in Nat
      BY <1>1
    <3> QED BY <3>1, <3>2
  <2>2. Mass(l, p, set) = iter[set]
    BY DEF Mass, MapThenSumSet, MapThenFoldSet, One
  <2>3. PICK g : Summing(v, g, set)
    <3> HIDE DEF v
    <3> QED BY <2>1, SumExists
  <2>4. \A s \in SUBSET set : s # {} => One(s) \in set
    BY DEF One
  <2>5. g = body(g)
    <3>1. \A s \in SUBSET set : g[s] = IF s = {} THEN 0 ELSE Weight(l, p, One(s)) + g[s \ {One(s)}]
      <4> HIDE DEF v
      <4> QED BY <2>1, <2>3, <2>4 DEF Summing
    <3>2. g = [s \in SUBSET set |-> g[s]]
      BY <2>3 DEF Summing
    <3> QED BY <3>1, <3>2
  <2>6. iter = body(iter)
    <3> HIDE DEF body
    <3> QED BY <2>5
  <2>7. /\ FunctionOn(iter, SUBSET set) /\ iter[{}] = 0
        /\ \A s \in SUBSET set : s # {} => iter[s] = v[One(s)] + iter[s \ {One(s)}]
    <3>1. iter = [s \in SUBSET set |-> body(iter)[s]]
      BY <2>6
    <3>2. FunctionOn(iter, SUBSET set)
      <4> HIDE DEF iter, body
      <4> QED BY <2>6, <3>1 DEF FunctionOn
    <3>3. \A s \in SUBSET set : iter[s] = body(iter)[s]
      <4> HIDE DEF iter, body
      <4> QED BY <2>6
    <3>4. \A s \in SUBSET set : body(iter)[s] = IF s = {} THEN 0 ELSE Weight(l, p, One(s)) + iter[s \ {One(s)}]
      <4> HIDE DEF iter
      <4> QED OBVIOUS
    <3> HIDE DEF iter, body, v
    <3> QED BY <2>1, <2>4, <3>2, <3>3, <3>4
  <2> HIDE DEF iter, v, w, T
  <2>8. Summing(v, iter, set)
    BY <2>1, <2>7, SumIs
  <2>9. f[set] = iter[set]
    BY <1>1, <1>2, <2>1, <2>8, SumsAgree
  <2> QED BY <2>2, <2>9
<1>4. \A id \in T : w[id] = Weight(l, p, id)
  OBVIOUS
<1> HIDE DEF w
<1> QED BY <1>1, <1>2, <1>3, <1>4

(* The order of the candidates.                                             *)
Earlier(l) ==
  {q \in Tokens(l) \X Tokens(l) : l[q[1]] > l[q[2]] \/ (l[q[1]] = l[q[2]] /\ q[1] < q[2])}

LEMMA EarlierIsOrder ==
  ASSUME NEW l, LogitsOK(l), NEW set \in SUBSET Tokens(l)
  PROVE  /\ IsStrictOrder(Earlier(l), set)
         /\ \A a, b \in set : <<a, b>> \in Earlier(l) <=> l[a] > l[b] \/ (l[a] = l[b] /\ a < b)
<1> DEFINE first(a, b) == l[a] > l[b] \/ (l[a] = l[b] /\ a < b)
<1>1. \A a \in set : a \in Nat /\ l[a] \in Nat
  BY TokensAre
<1>2. \A a, b \in set : <<a, b>> \in Earlier(l) <=> first(a, b)
  BY DEF Earlier
<1>3. \A a \in set : ~first(a, a)
  BY <1>1
<1>4. \A a, b \in set : a = b \/ first(a, b) \/ first(b, a)
  BY <1>1
<1>5. \A a, b, c \in set : first(a, b) /\ first(b, c) => first(a, c)
  BY <1>1
<1>6. IsStrictOrder(Earlier(l), set)
  <2> HIDE DEF first
  <2> QED BY <1>2, <1>3, <1>4, <1>5 DEF IsStrictOrder
<1> QED BY <1>2, <1>6

Sorted(R, set, d) ==
  /\ IsFiniteSet(set) /\ Cardinality(set) \in Nat
  /\ d \in Seq(set) /\ Len(d) = Cardinality(set)
  /\ \A i \in 1 .. Len(d) : /\ d[i] \in set /\ Cardinality(Preceding(R, set, d[i])) = i - 1
                            /\ Preceding(R, set, d[i]) = {d[j] : j \in 1 .. i - 1}
  /\ \A a \in set : \E i \in 1 .. Len(d) : a = d[i]
  /\ Range(d) = set

LEMMA DescendingIs ==
  ASSUME NEW l, LogitsOK(l), NEW set \in SUBSET Tokens(l), NEW d, d = Descending(l, set)
  PROVE  Sorted(Earlier(l), set, d)
<1> DEFINE R == Earlier(l)
           n == Cardinality(set)
           before_(id) == {other \in set : \/ l[other] > l[id]
                                           \/ l[other] = l[id] /\ other < id}
           Ranked(i) == CHOOSE id \in set : Cardinality(before_(id)) = i - 1
           Placed(i) == CHOOSE a \in set : Cardinality(Preceding(R, set, a)) = i - 1
<1>1. IsFiniteSet(set) /\ n \in Nat
  <2>1. IsFiniteSet(set)
    BY TokensAre, FS_Subset
  <2> QED BY <2>1, FS_CardinalityType
<1>2. IsStrictOrder(R, set) /\ \A a, b \in set : <<a, b>> \in R <=> l[a] > l[b] \/ (l[a] = l[b] /\ a < b)
  BY EarlierIsOrder
<1>3. \A a \in set : Preceding(R, set, a) = before_(a)
  <2> HIDE DEF R
  <2> QED BY <1>2 DEF Preceding
<1>4. \A i : Ranked(i) = Placed(i)
  <2> HIDE DEF R, before_
  <2> QED BY <1>3
<1>5. Descending(l, set) = <<>> \o [i \in 1 .. n |-> Ranked(i)]
  BY DEF Descending
<1> HIDE DEF R, before_, Ranked
<1>6. /\ \A i \in 1 .. n : Placed(i) \in set /\ Cardinality(Preceding(R, set, Placed(i))) = i - 1
      /\ \A a \in set : \E i \in 1 .. n : a = Placed(i)
      /\ \A i, k \in 1 .. n : i < k => <<Placed(i), Placed(k)>> \in R
  BY ONLY <1>1, <1>2, OrderIsSorted
<1> HIDE DEF Placed, n
<1>7. PICK s : s = [i \in 1 .. n |-> Placed(i)]
  OBVIOUS
<1>8. s \in Seq(set) /\ Len(s) = n /\ \A i \in 1 .. n : s[i] = Placed(i)
  BY <1>1, <1>6, <1>7
<1>9. d = s
  <2>1. [i \in 1 .. n |-> Ranked(i)] = s
    BY <1>4, <1>7
  <2>2. <<>> \o s = s
    BY <1>8
  <2> QED BY <1>5, <2>1, <2>2
<1>10. ASSUME NEW i \in 1 .. n
       PROVE  Preceding(R, set, d[i]) = {d[j] : j \in 1 .. i - 1}
  <2>1. i \in Nat /\ \A j \in 1 .. i - 1 : j \in 1 .. n /\ j < i
    BY <1>1
  <2>2. \A j \in 1 .. i - 1 : d[j] \in set /\ <<d[j], d[i]>> \in R
    BY <1>6, <1>8, <1>9, <2>1
  <2>3. ASSUME NEW a \in set, <<a, d[i]>> \in R
        PROVE  a \in {d[j] : j \in 1 .. i - 1}
    <3>1. PICK k \in 1 .. n : a = d[k]
      BY <1>6, <1>8, <1>9
    <3>2. d[i] \in set
      BY <1>6, <1>8, <1>9
    <3>3. ~(<<d[i], a>> \in R) /\ a # d[i]
      BY <1>2, <2>3, <3>2 DEF IsStrictOrder
    <3>4. ~(i < k) /\ i # k
      BY <1>6, <1>8, <1>9, <3>1, <3>3
    <3>5. k \in 1 .. i - 1
      BY <1>1, <3>4
    <3> QED BY <3>1, <3>5
  <2> QED BY <2>2, <2>3 DEF Preceding
<1>11. Range(d) = set
  <2>1. DOMAIN d = 1 .. n
    BY <1>7, <1>9
  <2>2. \A i \in 1 .. n : d[i] \in set
    BY <1>6, <1>8, <1>9
  <2>3. \A a \in set : \E i \in 1 .. n : a = d[i]
    BY <1>6, <1>8, <1>9
  <2> QED BY <2>1, <2>2, <2>3 DEF Range
<1>12. /\ d \in Seq(set) /\ Len(d) = n /\ \A a \in set : \E i \in 1 .. n : a = d[i]
       /\ \A i \in 1 .. n : d[i] \in set /\ Cardinality(Preceding(R, set, d[i])) = i - 1
  BY <1>6, <1>8, <1>9
<1> QED BY ONLY <1>1, <1>10, <1>11, <1>12 DEF R, n, Sorted

(* All tokens in that order, and the first k of them.                       *)
Ordered(l) == Descending(l, Tokens(l))
FirstOf(l, k) == SubSeq(Ordered(l), 1, k)
TopSet(l, k) == {Ordered(l)[j] : j \in 1 .. k}

LEMMA OrderedIs ==
  ASSUME NEW l, LogitsOK(l)
  PROVE  /\ Ordered(l) \in Seq(Tokens(l)) /\ Len(Ordered(l)) = Cardinality(Tokens(l))
         /\ \A i \in 1 .. Cardinality(Tokens(l)) :
              /\ Ordered(l)[i] \in Tokens(l)
              /\ AheadOrTied(l, Ordered(l)[i]) = TopSet(l, i - 1)
              /\ Cardinality(TopSet(l, i - 1)) = i - 1
         /\ \A id \in Tokens(l) : \E i \in 1 .. Cardinality(Tokens(l)) : id = Ordered(l)[i]
<1> DEFINE T == Tokens(l)
<1>1. PICK d : d = Ordered(l)
  OBVIOUS
<1>2. /\ d \in Seq(T) /\ Len(d) = Cardinality(T)
      /\ \A i \in 1 .. Len(d) : /\ d[i] \in T /\ Cardinality(Preceding(Earlier(l), T, d[i])) = i - 1
                                /\ Preceding(Earlier(l), T, d[i]) = {d[j] : j \in 1 .. i - 1}
      /\ \A a \in T : \E i \in 1 .. Len(d) : a = d[i]
  <2>1. T \in SUBSET Tokens(l) /\ d = Descending(l, T) /\ LogitsOK(l)
    BY <1>1 DEF Ordered
  <2>2. Sorted(Earlier(l), T, d)
    <3> HIDE DEF T
    <3> QED BY ONLY <2>1, DescendingIs
  <2> QED BY <2>2 DEF Sorted
<1>3. ASSUME NEW id \in T
      PROVE  Preceding(Earlier(l), T, id) = AheadOrTied(l, id)
  <2>1. \A a, b \in T : <<a, b>> \in Earlier(l) <=> l[a] > l[b] \/ (l[a] = l[b] /\ a < b)
    BY EarlierIsOrder
  <2>2. \A a \in T : <<a, id>> \in Earlier(l) <=> l[a] > l[id] \/ (l[a] = l[id] /\ a < id)
    BY <2>1
  <2>3. \A a : a \in AheadOrTied(l, id) <=> a \in T /\ (l[a] > l[id] \/ (l[a] = l[id] /\ a < id))
    BY DEF AheadOrTied, Ahead
  <2>4. \A a : a \in Preceding(Earlier(l), T, id) <=> a \in T /\ <<a, id>> \in Earlier(l)
    BY DEF Preceding
  <2>5. \A a : a \in Preceding(Earlier(l), T, id) <=> a \in AheadOrTied(l, id)
    BY ONLY <2>2, <2>3, <2>4
  <2>6. PICK s, t : s = Preceding(Earlier(l), T, id) /\ t = AheadOrTied(l, id)
    OBVIOUS
  <2>7. \A a : a \in s <=> a \in t
    BY <2>5, <2>6
  <2>8. s = t
    <3>1. s \in SUBSET T /\ t \in SUBSET T
      BY <2>6 DEF Preceding, AheadOrTied, Ahead
    <3> QED BY ONLY <2>7, <3>1
  <2> QED BY <2>6, <2>8
<1>4. \A i \in 1 .. Len(d) : AheadOrTied(l, d[i]) = TopSet(l, i - 1) /\ Cardinality(TopSet(l, i - 1)) = i - 1
  <2>1. \A i : TopSet(l, i - 1) = {d[j] : j \in 1 .. i - 1}
    BY <1>1 DEF TopSet
  <2> HIDE DEF T
  <2> QED BY ONLY <1>2, <1>3, <2>1
<1> QED BY <1>1, <1>2, <1>4

LEMMA TopIs ==
  ASSUME NEW l, LogitsOK(l), NEW k \in 1 .. Cardinality(Tokens(l))
  PROVE  /\ TopSet(l, k) \in SUBSET Tokens(l) /\ Cardinality(TopSet(l, k)) = k
         /\ FirstOf(l, k) \in Seq(Tokens(l)) /\ Len(FirstOf(l, k)) = k
         /\ \A i \in 1 .. k : FirstOf(l, k)[i] = Ordered(l)[i]
         /\ Descending(l, TopSet(l, k)) = FirstOf(l, k)
<1> DEFINE T == Tokens(l)
           n == Cardinality(T)
           R == Earlier(l)
           top == TopSet(l, k)
<1>1. n \in Nat /\ IsFiniteSet(T)
  BY TokensAre
<1>2. PICK d : d = Ordered(l)
  OBVIOUS
<1>3. /\ d \in Seq(T) /\ Len(d) = n
      /\ \A i \in 1 .. n : /\ d[i] \in T /\ Cardinality(Preceding(R, T, d[i])) = i - 1
                           /\ Preceding(R, T, d[i]) = {d[j] : j \in 1 .. i - 1}
  <2>1. /\ d \in Seq(T) /\ Len(d) = n
        /\ \A i \in 1 .. Len(d) : /\ d[i] \in T /\ Cardinality(Preceding(R, T, d[i])) = i - 1
                                  /\ Preceding(R, T, d[i]) = {d[j] : j \in 1 .. i - 1}
    <3>1. T \in SUBSET Tokens(l) /\ d = Descending(l, T) /\ LogitsOK(l)
      BY <1>2 DEF Ordered
    <3>2. Sorted(Earlier(l), T, d)
      <4> HIDE DEF T
      <4> QED BY ONLY <3>1, DescendingIs
    <3> QED BY <3>2 DEF Sorted
  <2> QED BY <2>1
<1>4. k \in 1 .. n /\ \A i \in 1 .. k : i \in 1 .. n
  BY <1>1
<1>5. top = {d[j] : j \in 1 .. k} /\ top \in SUBSET T
  BY <1>2, <1>3, <1>4 DEF TopSet
<1> HIDE DEF top, n, T, R
<1>6. ASSUME NEW i \in 1 .. k
      PROVE  Preceding(R, top, d[i]) = Preceding(R, T, d[i])
  <2>1. \A j \in 1 .. i - 1 : j \in 1 .. k
    OBVIOUS
  <2>2. Preceding(R, T, d[i]) = {d[j] : j \in 1 .. i - 1}
    <3>1. i \in 1 .. n
      BY <1>4
    <3> QED BY ONLY <1>3, <3>1
  <2>3. {d[j] : j \in 1 .. i - 1} \subseteq top
    BY ONLY <1>5, <2>1
  <2>4. Preceding(R, T, d[i]) \subseteq top
    BY <2>2, <2>3
  <2> QED BY <1>5, <2>4 DEF Preceding
<1>7. Cardinality(top) = k
  <2>1. PICK few : few = Preceding(R, T, d[k])
    OBVIOUS
  <2>2. few = {d[j] : j \in 1 .. k - 1} /\ Cardinality(few) = k - 1 /\ d[k] \in T
    BY <1>3, <1>4, <2>1
  <2>3. top = few \cup {d[k]}
    <3>1. \A j : j \in 1 .. k <=> j \in 1 .. k - 1 \/ j = k
      BY <1>1, <1>4
    <3> QED BY <1>5, <2>2, <3>1
  <2>4. d[k] \notin few
    <3>1. IsStrictOrder(R, T)
      BY EarlierIsOrder DEF R, T
    <3> QED BY <2>1, <2>2, <3>1 DEF IsStrictOrder, Preceding
  <2>5. IsFiniteSet(few)
    <3>1. few \in SUBSET T
      BY <2>1 DEF Preceding
    <3> QED BY <1>1, <3>1, FS_Subset
  <2>6. Cardinality(few \cup {d[k]}) = Cardinality(few) + 1
    BY <2>4, <2>5, FS_AddElement
  <2> QED BY <1>1, <1>4, <2>2, <2>3, <2>6
<1>8. PICK first : first = FirstOf(l, k)
  OBVIOUS
<1>9. first \in Seq(T) /\ Len(first) = k /\ \A i \in 1 .. k : first[i] = d[i]
  BY <1>1, <1>2, <1>3, <1>4, <1>8 DEF FirstOf
<1>10. PICK e : e = Descending(l, top)
  OBVIOUS
<1>11. /\ e \in Seq(top) /\ Len(e) = k
       /\ \A i \in 1 .. Len(e) : e[i] \in top /\ Cardinality(Preceding(R, top, e[i])) = i - 1
  <2>1. top \in SUBSET Tokens(l) /\ LogitsOK(l)
    BY <1>5 DEF T
  <2>2. Sorted(Earlier(l), top, e)
    BY ONLY <1>10, <2>1, DescendingIs
  <2> QED BY <1>7, <2>2 DEF R, Sorted
<1>12. ASSUME NEW i \in 1 .. k
       PROVE  e[i] = first[i]
  <2>1. e[i] \in top /\ Cardinality(Preceding(R, top, e[i])) = i - 1
    BY <1>11
  <2>2. PICK j \in 1 .. k : e[i] = d[j]
    BY <1>5, <2>1
  <2>3. Cardinality(Preceding(R, top, d[j])) = j - 1
    BY <1>3, <1>4, <1>6
  <2>4. j = i
    BY <2>1, <2>2, <2>3
  <2> QED BY <1>9, <2>2, <2>4
<1>13. e = first
  BY <1>9, <1>11, <1>12
<1> QED BY <1>2, <1>5, <1>7, <1>8, <1>9, <1>10, <1>13 DEF top, T

(* select_top: those that make it in any case, and those at the border.     *)
Level(l, id) == {other \in Tokens(l) : l[other] = l[id]}
Sure(l, k) == {id \in Tokens(l) : Cardinality(Ahead(l, id) \cup Level(l, id)) <= k}
Border(l, k) == {id \in Tokens(l) \ Sure(l, k) : Cardinality(Ahead(l, id)) < k}

LEMMA SelectTopIs ==
  ASSUME NEW l, NEW k
  PROVE  \A set : set \in SelectTop(l, k) <=>
           \E rest \in SUBSET Border(l, k) : Cardinality(rest) = k - Cardinality(Sure(l, k)) /\ set = Sure(l, k) \cup rest
BY DEF SelectTop, kSubset, Border, Sure, Level, Ahead

LEMMA LevelsAre ==
  ASSUME NEW l, LogitsOK(l), NEW k \in Nat
  PROVE  /\ \A set \in SUBSET Tokens(l) : IsFiniteSet(set) /\ Cardinality(set) \in Nat
         /\ \A a, b \in Tokens(l) : l[b] > l[a] =>
              Cardinality(Ahead(l, b) \cup Level(l, b)) <= Cardinality(Ahead(l, a))
         /\ Sure(l, k) \in SUBSET Tokens(l) /\ Border(l, k) \in SUBSET Tokens(l) /\ Sure(l, k) \cap Border(l, k) = {}
         /\ \A a, b \in Border(l, k) : l[a] = l[b]
         /\ \A a \in Sure(l, k) \cup Border(l, k) : Cardinality(Ahead(l, a)) <= k
<1>1. ASSUME NEW set \in SUBSET Tokens(l)
      PROVE  IsFiniteSet(set) /\ Cardinality(set) \in Nat
  <2>1. IsFiniteSet(set)
    BY TokensAre, FS_Subset
  <2> QED BY <2>1, FS_CardinalityType
<1>2. ASSUME NEW a \in Tokens(l), NEW b \in Tokens(l), l[b] > l[a]
      PROVE  Cardinality(Ahead(l, b) \cup Level(l, b)) <= Cardinality(Ahead(l, a))
  <2>1. \A id \in Tokens(l) : l[id] \in Nat
    BY TokensAre
  <2>2. Ahead(l, b) \cup Level(l, b) \in SUBSET Ahead(l, a)
    BY <1>2, <2>1 DEF Ahead, Level
  <2>3. IsFiniteSet(Ahead(l, a))
    BY <1>1 DEF Ahead
  <2> QED BY <2>2, <2>3, FS_Subset
<1>3. Sure(l, k) \in SUBSET Tokens(l) /\ Border(l, k) \in SUBSET Tokens(l) /\ Sure(l, k) \cap Border(l, k) = {}
  BY DEF Sure, Border
<1>4. ASSUME NEW a \in Border(l, k), NEW b \in Border(l, k), l[a] > l[b]
      PROVE  FALSE
  <2>1. a \in Tokens(l) /\ b \in Tokens(l)
    BY <1>3
  <2>2. Cardinality(Ahead(l, a) \cup Level(l, a)) <= Cardinality(Ahead(l, b))
    BY <1>2, <1>4, <2>1
  <2>3. Cardinality(Ahead(l, b)) < k /\ a \notin Sure(l, k)
    BY <1>3 DEF Border
  <2>4. Cardinality(Ahead(l, a) \cup Level(l, a)) \in Nat /\ Cardinality(Ahead(l, b)) \in Nat
    <3>1. Ahead(l, a) \cup Level(l, a) \in SUBSET Tokens(l) /\ Ahead(l, b) \in SUBSET Tokens(l)
      BY DEF Ahead, Level
    <3> QED BY <1>1, <3>1
  <2>5. Cardinality(Ahead(l, a) \cup Level(l, a)) <= k
    BY <2>2, <2>3, <2>4
  <2> QED BY <2>1, <2>3, <2>5 DEF Sure
<1>5. \A a, b \in Border(l, k) : l[a] = l[b]
  <2>1. \A a \in Border(l, k) : l[a] \in Nat
    BY <1>3, TokensAre
  <2> QED BY <1>4, <2>1
<1>6. ASSUME NEW a \in Sure(l, k) \cup Border(l, k)
      PROVE  Cardinality(Ahead(l, a)) <= k
  <2>1. Ahead(l, a) \cup Level(l, a) \in SUBSET Tokens(l) /\ Ahead(l, a) \in SUBSET (Ahead(l, a) \cup Level(l, a))
    BY DEF Ahead, Level
  <2>2. /\ IsFiniteSet(Ahead(l, a) \cup Level(l, a)) /\ Cardinality(Ahead(l, a) \cup Level(l, a)) \in Nat
        /\ Cardinality(Ahead(l, a)) \in Nat
    BY <1>1, <2>1
  <2>3. Cardinality(Ahead(l, a)) <= Cardinality(Ahead(l, a) \cup Level(l, a))
    BY <2>1, <2>2, FS_Subset
  <2>4. CASE a \in Sure(l, k)
    <3>1. Cardinality(Ahead(l, a) \cup Level(l, a)) <= k
      BY <2>4 DEF Sure
    <3> QED BY <2>2, <2>3, <3>1
  <2>5. CASE a \in Border(l, k)
    <3>1. Cardinality(Ahead(l, a)) < k
      BY <2>5 DEF Border
    <3> QED BY <2>2, <3>1
  <2> QED BY <2>4, <2>5
<1> QED BY <1>1, <1>2, <1>3, <1>5, <1>6

LEMMA SelectedIs ==
  ASSUME NEW l, LogitsOK(l), NEW k \in Nat, NEW set \in SelectTop(l, k)
  PROVE  /\ set \in SUBSET Tokens(l) /\ Cardinality(set) \in Nat /\ Cardinality(set) <= k
         /\ \A a \in set : Ahead(l, a) \subseteq set
<1>1. PICK rest \in SUBSET Border(l, k) : Cardinality(rest) = k - Cardinality(Sure(l, k)) /\ set = Sure(l, k) \cup rest
  BY SelectTopIs
<1>2. /\ Sure(l, k) \in SUBSET Tokens(l) /\ rest \in SUBSET Tokens(l) /\ set \in SUBSET Tokens(l)
      /\ Sure(l, k) \cap rest = {}
  BY <1>1, LevelsAre
<1>3. /\ IsFiniteSet(set) /\ Cardinality(set) \in Nat /\ IsFiniteSet(rest) /\ Cardinality(rest) \in Nat
      /\ IsFiniteSet(Sure(l, k)) /\ Cardinality(Sure(l, k)) \in Nat
  BY <1>2, LevelsAre
<1>4. Cardinality(set) <= k
  <2>1. Cardinality(Sure(l, k) \cup rest) = Cardinality(Sure(l, k)) + Cardinality(rest) - Cardinality(Sure(l, k) \cap rest)
    BY ONLY <1>3, FS_Union
  <2>2. Cardinality(Sure(l, k) \cap rest) = 0
    BY <1>2, FS_EmptySet
  <2> QED BY <1>1, <1>3, <2>1, <2>2
<1>5. ASSUME NEW a \in set, NEW b \in Ahead(l, a)
      PROVE  b \in set
  <2>1. a \in Tokens(l) /\ b \in Tokens(l) /\ l[b] > l[a]
    BY <1>2, <1>5 DEF Ahead
  <2>2. Cardinality(Ahead(l, b) \cup Level(l, b)) <= Cardinality(Ahead(l, a))
    BY <2>1, LevelsAre
  <2>3. Cardinality(Ahead(l, a)) <= k
    BY <1>1, LevelsAre
  <2>4. Cardinality(Ahead(l, b) \cup Level(l, b)) \in Nat /\ Cardinality(Ahead(l, a)) \in Nat
    <3>1. Ahead(l, b) \cup Level(l, b) \in SUBSET Tokens(l) /\ Ahead(l, a) \in SUBSET Tokens(l)
      BY DEF Ahead, Level
    <3> QED BY <3>1, LevelsAre
  <2>5. b \in Sure(l, k)
    BY <2>1, <2>2, <2>3, <2>4 DEF Sure
  <2> QED BY <1>1, <2>5
<1> QED BY <1>2, <1>3, <1>4, <1>5

(* Whichever of several equal ones make it, the mass is the same.           *)
LEMMA SameMass ==
  ASSUME NEW l, LogitsOK(l), NEW p, ParamsOK(p), NEW k \in Nat,
         NEW set \in SelectTop(l, k), NEW other \in SelectTop(l, k)
  PROVE  Mass(l, p, set) = Mass(l, p, other)
<1>1. PICK s \in SUBSET Border(l, k) : Cardinality(s) = k - Cardinality(Sure(l, k)) /\ set = Sure(l, k) \cup s
  BY SelectTopIs
<1>2. PICK t \in SUBSET Border(l, k) : Cardinality(t) = k - Cardinality(Sure(l, k)) /\ other = Sure(l, k) \cup t
  BY SelectTopIs
<1>3. PICK w, f : /\ w \in [Tokens(l) -> Nat] /\ Summing(w, f, Tokens(l))
                  /\ \A id \in Tokens(l) : w[id] = Weight(l, p, id)
                  /\ \A some \in SUBSET Tokens(l) : Mass(l, p, some) = f[some]
  BY MassIs
<1>4. PICK sure : sure = Sure(l, k)
  OBVIOUS
<1>5. /\ sure \in SUBSET Tokens(l) /\ s \in SUBSET Tokens(l) /\ t \in SUBSET Tokens(l)
      /\ sure \cap s = {} /\ sure \cap t = {} /\ Cardinality(s) = Cardinality(t)
  BY <1>1, <1>2, <1>4, LevelsAre
<1>6. \A a, b \in s \cup t : w[a] = w[b]
  <2>1. \A a, b \in s \cup t : l[a] = l[b]
    BY <1>1, <1>2, LevelsAre
  <2>2. \A a \in s \cup t : w[a] = Weight(l, p, a)
    BY <1>3, <1>5
  <2> QED BY <2>1, <2>2 DEF Weight
<1>7. IsFiniteSet(Tokens(l))
  BY TokensAre
<1>8. f[sure \cup s] = f[sure \cup t]
  <2>1. PICK S : S = Tokens(l)
    OBVIOUS
  <2>2. /\ IsFiniteSet(S) /\ w \in [S -> Nat] /\ Summing(w, f, S)
        /\ sure \in SUBSET S /\ s \in SUBSET S /\ t \in SUBSET S /\ Balanced(w, sure, s, t)
    BY <1>3, <1>5, <1>6, <1>7, <2>1 DEF Balanced
  <2> QED BY ONLY <2>2, SumOfEquals
<1>9. set \in SUBSET Tokens(l) /\ other \in SUBSET Tokens(l)
  BY SelectedIs
<1> QED BY <1>1, <1>2, <1>3, <1>4, <1>8, <1>9

(* The first k in the order are k of the largest.                           *)
LEMMA TopSelected ==
  ASSUME NEW l, LogitsOK(l), NEW k \in 1 .. Cardinality(Tokens(l))
  PROVE  TopSet(l, k) \in SelectTop(l, k)
<1> DEFINE n == Cardinality(Tokens(l))
           rest == TopSet(l, k) \ Sure(l, k)
<1>1. n \in Nat /\ k \in Nat
  BY TokensAre
<1>2. PICK d : d = Ordered(l)
  OBVIOUS
<1>3. /\ \A i \in 1 .. n : /\ d[i] \in Tokens(l) /\ AheadOrTied(l, d[i]) = TopSet(l, i - 1)
                           /\ Cardinality(TopSet(l, i - 1)) = i - 1
      /\ \A id \in Tokens(l) : \E i \in 1 .. n : id = d[i]
  BY <1>2, OrderedIs
<1>4. TopSet(l, k) \in SUBSET Tokens(l) /\ Cardinality(TopSet(l, k)) = k
  BY TopIs
<1>5. ASSUME NEW id \in Sure(l, k)
      PROVE  id \in TopSet(l, k)
  <2>1. id \in Tokens(l) /\ Cardinality(Ahead(l, id) \cup Level(l, id)) <= k
    BY DEF Sure
  <2>2. PICK i \in 1 .. n : id = d[i]
    BY <1>3, <2>1
  <2>3. PICK few : few = AheadOrTied(l, id)
    OBVIOUS
  <2>4. Cardinality(few) = i - 1 /\ id \notin few /\ few \cup {id} \in SUBSET (Ahead(l, id) \cup Level(l, id))
    <3>1. Cardinality(few) = i - 1
      BY <1>3, <2>2, <2>3
    <3>2. id \in Nat /\ l[id] \in Nat
      BY <2>1, TokensAre
    <3>3. id \notin few /\ few \cup {id} \in SUBSET (Ahead(l, id) \cup Level(l, id))
      BY <2>1, <2>3, <3>2 DEF AheadOrTied, Ahead, Level
    <3> QED BY <3>1, <3>3
  <2>5. /\ IsFiniteSet(Ahead(l, id) \cup Level(l, id)) /\ Cardinality(Ahead(l, id) \cup Level(l, id)) \in Nat
        /\ IsFiniteSet(few)
    <3>1. Ahead(l, id) \cup Level(l, id) \in SUBSET Tokens(l) /\ few \in SUBSET Tokens(l)
      BY <2>3 DEF Ahead, Level, AheadOrTied
    <3> QED BY <1>1, <3>1, LevelsAre
  <2>6. Cardinality(few \cup {id}) = Cardinality(few) + 1
    BY <2>4, <2>5, FS_AddElement
  <2>7. Cardinality(few \cup {id}) <= Cardinality(Ahead(l, id) \cup Level(l, id))
    BY <2>4, <2>5, FS_Subset
  <2>8. i \in 1 .. k
    BY <1>1, <2>1, <2>4, <2>5, <2>6, <2>7
  <2> QED BY <1>2, <2>2, <2>8 DEF TopSet
<1>6. ASSUME NEW id \in TopSet(l, k)
      PROVE  Cardinality(Ahead(l, id)) < k
  <2>1. PICK i \in 1 .. k : id = d[i]
    BY <1>2, <1>6 DEF TopSet
  <2>2. i \in 1 .. n
    BY <1>1, <2>1
  <2>3. PICK few : few = AheadOrTied(l, id)
    OBVIOUS
  <2>4. Cardinality(few) = i - 1
    BY <1>3, <2>1, <2>2, <2>3
  <2>5. Ahead(l, id) \in SUBSET few /\ few \in SUBSET Tokens(l) /\ Ahead(l, id) \in SUBSET Tokens(l)
    BY <2>3 DEF AheadOrTied, Ahead
  <2>6. IsFiniteSet(few) /\ Cardinality(Ahead(l, id)) \in Nat
    BY <1>1, <2>5, LevelsAre
  <2>7. Cardinality(Ahead(l, id)) <= Cardinality(few)
    BY <2>5, <2>6, FS_Subset
  <2> QED BY <1>1, <2>4, <2>6, <2>7
<1>7. rest \in SUBSET Border(l, k)
  BY <1>4, <1>6 DEF Border
<1>8. Cardinality(rest) = k - Cardinality(Sure(l, k))
  <2>1. PICK top, sure : top = TopSet(l, k) /\ sure = Sure(l, k)
    OBVIOUS
  <2>2. sure \in SUBSET top /\ top \in SUBSET Tokens(l) /\ sure \in SUBSET Tokens(l) /\ rest = top \ sure
    BY <1>4, <1>5, <2>1
  <2>3. /\ IsFiniteSet(top) /\ IsFiniteSet(sure) /\ IsFiniteSet(rest)
        /\ Cardinality(sure) \in Nat /\ Cardinality(rest) \in Nat
    <3>1. rest \in SUBSET Tokens(l)
      BY <2>2
    <3> HIDE DEF rest
    <3> QED BY <1>1, <2>2, <3>1, LevelsAre
  <2> HIDE DEF rest
  <2>4. Cardinality(sure \cup rest) = Cardinality(sure) + Cardinality(rest) - Cardinality(sure \cap rest)
    BY ONLY <2>3, FS_Union
  <2>5. sure \cup rest = top /\ sure \cap rest = {}
    BY <2>2
  <2>6. Cardinality(sure \cap rest) = 0
    BY <2>5, FS_EmptySet
  <2>7. Cardinality(top) = k
    BY <1>4, <2>1
  <2> QED BY <1>1, <2>1, <2>3, <2>4, <2>5, <2>6, <2>7
<1>9. TopSet(l, k) = Sure(l, k) \cup rest
  BY <1>5
<1> HIDE DEF rest
<1> QED BY <1>7, <1>8, <1>9, SelectTopIs

LEMMA TimesGrows ==
  ASSUME NEW a \in Nat, NEW b \in Nat, NEW c \in Nat, a <= b
  PROVE  a * c <= b * c /\ a * c \in Nat /\ b * c \in Nat
<1>1. PICK d \in Nat : b = a + d
  <2>1. b - a \in Nat /\ b = a + (b - a)
    OBVIOUS
  <2> QED BY <2>1
<1>2. a * c \in Nat /\ d * c \in Nat
  OBVIOUS
<1>3. (a + d) * c = a * c + d * c
  OBVIOUS
<1> QED BY <1>1, <1>2, <1>3

(* The prefix that is kept is the shortest one that reaches the mass.       *)
LEMMA PrefixIs ==
  ASSUME NEW l, NEW p, NEW total, NEW cand, NEW n \in Nat, cand \in Seq(Tokens(l)), Len(cand) = n,
         NEW k, k = Prefix(l, p, cand, total)
  PROVE  /\ k \in 0 .. n
         /\ k # 0 => /\ Acc(l, p, cand, k) * p.den >= p.num * total
                     /\ \A j \in 1 .. k - 1 : ~(Acc(l, p, cand, j) * p.den >= p.num * total)
         /\ k = 0 => \A j \in 1 .. n : ~(Acc(l, p, cand, j) * p.den >= p.num * total)
<1> DEFINE sums == [i \in DOMAIN cand |-> Acc(l, p, cand, i) * p.den]
           I == {i \in 1 .. Len(sums) : sums[i] >= p.num * total}
<1>1. Len(cand) \in Nat /\ DOMAIN cand = 1 .. n
  OBVIOUS
<1>2. Len(sums) = n /\ \A i \in 1 .. n : sums[i] = Acc(l, p, cand, i) * p.den
  BY <1>1
<1>3. k = IF I # {} THEN Min(I) ELSE 0
  BY DEF Prefix, SelectInSeq
<1>4. I \subseteq 1 .. n /\ I \subseteq Nat
  BY <1>1, <1>2
<1>5. I # {} => Min(I) \in I /\ \A i \in I : Min(I) <= i
  <2> HIDE DEF I
  <2> QED BY ONLY <1>4, MinIn
<1>6. \A i \in 1 .. n : i \in I <=> Acc(l, p, cand, i) * p.den >= p.num * total
  BY <1>2
<1> HIDE DEF I, sums
<1>7. CASE I = {}
  BY <1>1, <1>3, <1>6, <1>7
<1>8. CASE I # {}
  <2>1. k \in I /\ \A i \in I : k <= i
    BY <1>3, <1>5, <1>8
  <2>2. k \in 1 .. n /\ k # 0
    BY <1>4, <2>1
  <2>3. \A j \in 1 .. k - 1 : j \in 1 .. n /\ ~(k <= j)
    BY <2>2
  <2>4. \A j \in 1 .. k - 1 : j \notin I
    BY <2>1, <2>3
  <2> QED BY <1>6, <2>1, <2>2, <2>3, <2>4
<1> QED BY <1>7, <1>8

(* The masses of the prefixes: of some of the tokens, and growing.          *)
LEMMA MassGrows ==
  ASSUME NEW l, LogitsOK(l), NEW p, ParamsOK(p),
         NEW A \in SUBSET Tokens(l), NEW B \in SUBSET Tokens(l), A \subseteq B
  PROVE  /\ Mass(l, p, A) \in Nat /\ Mass(l, p, B) \in Nat
         /\ Mass(l, p, A) * p.den <= Mass(l, p, B) * p.den
         /\ Mass(l, p, A) * p.den \in Nat /\ Mass(l, p, B) * p.den \in Nat
<1>1. PICK w, f : /\ w \in [Tokens(l) -> Nat] /\ Summing(w, f, Tokens(l))
                  /\ \A id \in Tokens(l) : w[id] = Weight(l, p, id)
                  /\ \A some \in SUBSET Tokens(l) : Mass(l, p, some) = f[some]
  BY MassIs
<1>2. PICK S : S = Tokens(l)
  OBVIOUS
<1>3. /\ IsFiniteSet(S) /\ w \in [S -> Nat] /\ Summing(w, f, S)
      /\ A \in SUBSET S /\ B \in SUBSET S /\ A \subseteq B
  BY <1>1, <1>2, TokensAre
<1>4. f[A] <= f[B] /\ f[A] \in Nat /\ f[B] \in Nat
  BY ONLY <1>3, SumGrows
<1>5. PICK a, b : a = Mass(l, p, A) /\ b = Mass(l, p, B)
  OBVIOUS
<1>6. a <= b /\ a \in Nat /\ b \in Nat /\ p.den \in Nat
  BY <1>1, <1>4, <1>5 DEF ParamsOK
<1>7. a * p.den <= b * p.den /\ a * p.den \in Nat /\ b * p.den \in Nat
  BY ONLY <1>6, TimesGrows
<1> QED BY <1>5, <1>6, <1>7

(* The rounds of sample: the working set it ends with need not be widened.  *)
Kept(l, p, cand) == IF Keep(l, p, cand) = 0 THEN Len(cand) ELSE Keep(l, p, cand)
DrawnFrom(l, p, k) == UNION {Drawn(cand, Kept(l, p, cand)) : cand \in {Descending(l, set) : set \in SelectTop(l, k)}}

LEMMA FirstKIs ==
  ASSUME NEW l, LogitsOK(l), NEW p, ParamsOK(p)
  PROVE  /\ FirstK(l, p) \in 1 .. Cardinality(Tokens(l))
         /\ Limit(l, p) \in 1 .. Cardinality(Tokens(l))
         /\ (p.topK # 0 \/ ~TopP(p)) => Limit(l, p) = FirstK(l, p)
         /\ ~(p.topK # 0 \/ ~TopP(p)) => Limit(l, p) = Cardinality(Tokens(l))
<1>1. PICK n \in Nat \ {0} : n = Cardinality(Tokens(l))
  BY TokensAre
<1>2. p.topK \in Nat /\ WorkingSet \in Nat \ {0}
  BY WorkingSetAssumption DEF ParamsOK
<1> QED BY <1>1, <1>2 DEF FirstK, Limit, SmallerOf

LEMMA NoWiderNeeded ==
  ASSUME NEW l, LogitsOK(l), NEW p, ParamsOK(p), NEW k \in 1 .. Cardinality(Tokens(l)),
         p.topK # 0 \/ ~TopP(p) \/ k = Cardinality(Tokens(l))
  PROVE  ~Widens(l, p, FirstOf(l, k))
<1>1. Len(FirstOf(l, k)) = k /\ k \in Nat \ {0}
  BY TokensAre, TopIs
<1>2. ~TopP(p) => Keep(l, p, FirstOf(l, k)) = k
  BY <1>1 DEF Keep
<1> QED BY <1>1, <1>2 DEF Widens

LEMMA DrawsAre ==
  ASSUME NEW l, LogitsOK(l), NEW p, ParamsOK(p), p.base # 0
  PROVE  \E k \in 1 .. Cardinality(Tokens(l)) :
           /\ ~Widens(l, p, FirstOf(l, k))
           /\ (p.topK # 0 \/ ~TopP(p)) => k = FirstK(l, p)
           /\ Draws(l, p) = DrawnFrom(l, p, k)
<1> DEFINE n == Cardinality(Tokens(l))
           N == n - 1
           wide(k) == \E cand \in {FirstOf(l, k)} : Widens(l, p, cand)
           body(h) == [k \in 1 .. n |-> IF wide(k) THEN h[SmallerOf(4 * k, n)] ELSE k]
           last == CHOOSE h : h = body(h)
           V == {k \in 1 .. n : ~wide(k)}
           jump == [k \in 1 .. N |-> IF wide(k) THEN SmallerOf(4 * k, n) ELSE n]
           F == [k \in 1 .. N |-> [v \in V |-> IF wide(k) THEN v ELSE k]]
<1>1. n \in Nat \ {0} /\ N \in Nat /\ N + 1 = n /\ 1 .. N + 1 = 1 .. n
  BY TokensAre
<1>2. Draws(l, p) = DrawnFrom(l, p, last[FirstK(l, p)])
  BY DEF Draws, DrawnFrom, Kept, FirstOf, Ordered
<1>3. \A k : wide(k) <=> Widens(l, p, FirstOf(l, k))
  OBVIOUS
<1>4. \A k \in 1 .. n : p.topK # 0 \/ ~TopP(p) \/ k = n => ~wide(k)
  BY <1>3, NoWiderNeeded
<1> HIDE DEF n, N, wide
<1>5. n \in V
  BY <1>1, <1>4
<1>6. F \in [1 .. N -> [V -> V]]
  <2>1. ASSUME NEW k \in 1 .. N, NEW v \in V
        PROVE  (IF wide(k) THEN v ELSE k) \in V
    BY <1>1
  <2> HIDE DEF V
  <2> QED BY <2>1
<1>7. jump \in [1 .. N -> Nat] /\ \A k \in 1 .. N : k < jump[k] /\ jump[k] <= N + 1
  <2>1. ASSUME NEW k \in 1 .. N
        PROVE  k < SmallerOf(4 * k, n) /\ SmallerOf(4 * k, n) <= n /\ SmallerOf(4 * k, n) \in Nat
    BY <1>1 DEF SmallerOf
  <2> QED BY <1>1, <2>1
<1>8. \A k \in 1 .. N : k \in 1 .. n /\ (wide(k) => jump[k] = SmallerOf(4 * k, n))
  BY <1>1
<1> HIDE DEF jump
<1>9. ASSUME NEW h, h[n] = n, NEW k \in 1 .. N, h[jump[k]] \in V
      PROVE  F[k][h[jump[k]]] = IF wide(k) THEN h[SmallerOf(4 * k, n)] ELSE k
  BY <1>8, <1>9
<1> HIDE DEF V, F
<1>10. PICK g : Jumps(g, N, V, n, jump, F)
  BY ONLY <1>1, <1>5, <1>6, <1>7, JumpsExist
<1>11. g = body(g)
  <2>1. g \in [1 .. n -> V] /\ g[n] = n /\ \A k \in 1 .. N : g[k] = F[k][g[jump[k]]] /\ jump[k] \in 1 .. n
    BY <1>1, <1>7, <1>10 DEF Jumps
  <2>2. \A k \in 1 .. N : g[k] = IF wide(k) THEN g[SmallerOf(4 * k, n)] ELSE k
    BY <1>9, <2>1
  <2>3. \A k \in 1 .. n : g[k] = IF wide(k) THEN g[SmallerOf(4 * k, n)] ELSE k
    <3>1. \A k \in 1 .. n : k \in 1 .. N \/ k = n
      BY <1>1
    <3> QED BY <1>1, <1>4, <2>1, <2>2, <3>1
  <2>4. g = [k \in 1 .. n |-> g[k]]
    BY <2>1
  <2> QED BY <2>3, <2>4
<1>12. last = body(last)
  <2> HIDE DEF body
  <2> QED BY <1>11
<1>13. FunctionOn(last, 1 .. n) /\ \A k \in 1 .. n : last[k] = IF wide(k) THEN last[SmallerOf(4 * k, n)] ELSE k
  <2>1. last = [k \in 1 .. n |-> body(last)[k]]
    BY <1>12
  <2>2. FunctionOn(last, 1 .. n)
    <3> HIDE DEF last, body
    <3> QED BY <1>12, <2>1 DEF FunctionOn
  <2>3. \A k \in 1 .. n : last[k] = body(last)[k]
    <3> HIDE DEF last, body
    <3> QED BY <1>12
  <2>4. \A k \in 1 .. n : body(last)[k] = IF wide(k) THEN last[SmallerOf(4 * k, n)] ELSE k
    <3> HIDE DEF last
    <3> QED OBVIOUS
  <2> HIDE DEF last, body
  <2> QED BY <2>2, <2>3, <2>4
<1> HIDE DEF last, body
<1>14. last[n] = n
  BY <1>1, <1>4, <1>13
<1>15. \A k \in 1 .. N : last[jump[k]] \in V => last[k] = F[k][last[jump[k]]]
  BY <1>8, <1>9, <1>13, <1>14
<1>16. Jumps(last, N, V, n, jump, F)
  <2>1. FunctionOn(last, 1 .. N + 1) /\ last[N + 1] = n /\ n \in V
    BY <1>1, <1>5, <1>13, <1>14
  <2> QED BY ONLY <1>1, <1>6, <1>7, <1>15, <2>1, JumpsAre
<1>17. \A k \in 1 .. n : last[k] \in V
  BY <1>1, <1>16 DEF Jumps
<1>18. FirstK(l, p) \in 1 .. n
  BY FirstKIs DEF n
<1>19. (p.topK # 0 \/ ~TopP(p)) => last[FirstK(l, p)] = FirstK(l, p)
  BY <1>4, <1>13, <1>18
<1>20. last[FirstK(l, p)] \in 1 .. n /\ ~wide(last[FirstK(l, p)])
  BY <1>17, <1>18 DEF V
<1> QED BY <1>2, <1>3, <1>19, <1>20 DEF n

(* Top-p is of the mass of the pool, whichever of several equal tokens were *)
(* selected.                                                                *)
LEMMA PoolIs ==
  ASSUME NEW l, LogitsOK(l), NEW p, ParamsOK(p), NEW k \in 1 .. Cardinality(Tokens(l)),
         p.topK # 0 => k = FirstK(l, p), NEW set \in SelectTop(l, k)
  PROVE  /\ Mass(l, p, IF p.topK = 0 THEN Tokens(l) ELSE set) = Pool(l, p)
         /\ p.num * Pool(l, p) \in Nat
<1>1. k \in Nat /\ p.num \in Nat
  BY TokensAre DEF ParamsOK
<1>2. set \in SUBSET Tokens(l)
  BY <1>1, SelectedIs
<1>3. Mass(l, p, IF p.topK = 0 THEN Tokens(l) ELSE set) = Pool(l, p)
  <2>1. CASE p.topK = 0
    BY <2>1 DEF Pool
  <2>2. CASE p.topK # 0
    <3>1. Limit(l, p) = k
      BY <2>2, FirstKIs
    <3>2. Pool(l, p) = Mass(l, p, TopSet(l, k))
      BY <2>2, <3>1 DEF Pool, TopSet, Ordered
    <3>3. TopSet(l, k) \in SelectTop(l, k)
      BY TopSelected
    <3>4. Mass(l, p, set) = Mass(l, p, TopSet(l, k))
      BY <1>1, <3>3, SameMass
    <3> QED BY <2>2, <3>2, <3>4
  <2> QED BY <2>1, <2>2
<1>4. PICK pool \in SUBSET Tokens(l) : pool = IF p.topK = 0 THEN Tokens(l) ELSE set
  BY <1>2
<1>5. Mass(l, p, pool) \in Nat
  BY MassGrows
<1> QED BY <1>1, <1>3, <1>4, <1>5

(* What a candidate that is drawn has before it among the candidates.       *)
LEMMA KeptIs ==
  ASSUME NEW l, LogitsOK(l), NEW p, ParamsOK(p), NEW k \in 1 .. Cardinality(Tokens(l)),
         p.topK # 0 => k = FirstK(l, p), NEW set \in SelectTop(l, k),
         NEW cand, cand = Descending(l, set)
  PROVE  /\ Keep(l, p, cand) \in 0 .. Len(cand) /\ Len(cand) \in Nat
         /\ TopP(p) => \A j \in 1 .. Len(cand) : j < Keep(l, p, cand) \/ Keep(l, p, cand) = 0 =>
                         ~(Acc(l, p, cand, j) * p.den >= p.num * Pool(l, p))
         /\ TopP(p) /\ Keep(l, p, cand) # 0 =>
              Acc(l, p, cand, Keep(l, p, cand)) * p.den >= p.num * Pool(l, p)
         /\ ~TopP(p) => Keep(l, p, cand) = Len(cand)
<1>1. k \in Nat
  BY TokensAre
<1>2. set \in SUBSET Tokens(l)
  BY <1>1, SelectedIs
<1>3. Sorted(Earlier(l), set, cand)
  BY <1>2, DescendingIs
<1>4. cand \in Seq(set) /\ Range(cand) = set
  BY <1>3 DEF Sorted
<1>5. cand \in Seq(Tokens(l)) /\ Len(cand) \in Nat
  BY <1>2, <1>4
<1>6. PICK total : total = Pool(l, p)
  OBVIOUS
<1>7. Mass(l, p, IF p.topK = 0 THEN Tokens(l) ELSE Range(cand)) = total
  BY <1>4, <1>6, PoolIs
<1>8. PICK q : q = Prefix(l, p, cand, total)
  OBVIOUS
<1>9. Keep(l, p, cand) = IF TopP(p) THEN q ELSE Len(cand)
  BY <1>7, <1>8 DEF Keep
<1>10. /\ q \in 0 .. Len(cand)
       /\ q # 0 => /\ Acc(l, p, cand, q) * p.den >= p.num * total
                   /\ \A j \in 1 .. q - 1 : ~(Acc(l, p, cand, j) * p.den >= p.num * total)
       /\ q = 0 => \A j \in 1 .. Len(cand) : ~(Acc(l, p, cand, j) * p.den >= p.num * total)
  BY <1>5, <1>8, PrefixIs
<1>11. \A j \in 1 .. Len(cand) : j < q \/ q = 0 => ~(Acc(l, p, cand, j) * p.den >= p.num * total)
  <2>1. \A j \in 1 .. Len(cand) : j < q => j \in 1 .. q - 1
    BY <1>5, <1>10
  <2> QED BY <1>5, <1>10, <2>1
<1> QED BY <1>5, <1>6, <1>9, <1>10, <1>11

LEMMA DrawnAreWithin ==
  ASSUME NEW l, LogitsOK(l), NEW p, ParamsOK(p), p.base # 0, NEW id \in Draws(l, p)
  PROVE  id \in Tokens(l) /\ Within(l, p, Ahead(l, id))
<1>1. PICK k \in 1 .. Cardinality(Tokens(l)) :
        ((p.topK # 0 \/ ~TopP(p)) => k = FirstK(l, p)) /\ Draws(l, p) = DrawnFrom(l, p, k)
  BY DrawsAre
<1>2. PICK set \in SelectTop(l, k) : \E cand : cand = Descending(l, set) /\ id \in Drawn(cand, Kept(l, p, cand))
  BY <1>1 DEF DrawnFrom
<1>3. PICK cand : cand = Descending(l, set) /\ id \in Drawn(cand, Kept(l, p, cand))
  BY <1>2
<1>4. PICK i \in 1 .. Kept(l, p, cand) : id = cand[i]
  BY <1>3 DEF Drawn
<1>5. PICK m, q : m = Len(cand) /\ q = Keep(l, p, cand)
  OBVIOUS
<1>6. /\ q \in 0 .. m /\ m \in Nat
      /\ TopP(p) => \A j \in 1 .. m : j < q \/ q = 0 => ~(Acc(l, p, cand, j) * p.den >= p.num * Pool(l, p))
  BY <1>1, <1>3, <1>5, KeptIs
<1>7. i \in 1 .. m /\ (q = 0 \/ i <= q)
  BY <1>4, <1>5, <1>6 DEF Kept
<1>8. k \in Nat
  BY TokensAre
<1>9. set \in SUBSET Tokens(l) /\ Cardinality(set) <= k /\ \A a \in set : Ahead(l, a) \subseteq set
  BY <1>8, SelectedIs
<1>10. Sorted(Earlier(l), set, cand)
  BY <1>3, <1>9, DescendingIs
<1>11. PICK few : few = Preceding(Earlier(l), set, id)
  OBVIOUS
<1>12. /\ m = Cardinality(set) /\ id \in set /\ Cardinality(few) = i - 1
       /\ few = {cand[j] : j \in 1 .. i - 1}
  BY <1>4, <1>5, <1>7, <1>10, <1>11 DEF Sorted
<1>13. PICK ahead : ahead = Ahead(l, id)
  OBVIOUS
<1>14. ahead \in SUBSET few /\ few \in SUBSET Tokens(l) /\ ahead \in SUBSET Tokens(l)
  <2>1. \A a, b \in set : <<a, b>> \in Earlier(l) <=> l[a] > l[b] \/ (l[a] = l[b] /\ a < b)
    BY <1>9, EarlierIsOrder
  <2>2. few \in SUBSET Tokens(l)
    BY <1>9, <1>11 DEF Preceding
  <2>3. \A a \in ahead : a \in set /\ <<a, id>> \in Earlier(l)
    BY <1>9, <1>12, <1>13, <2>1 DEF Ahead
  <2> QED BY <1>11, <2>2, <2>3 DEF Preceding
<1>15. Cardinality(ahead) < Limit(l, p)
  <2>1. IsFiniteSet(few) /\ Cardinality(ahead) \in Nat
    BY <1>8, <1>14, LevelsAre
  <2>2. Cardinality(ahead) <= Cardinality(few)
    BY <1>14, <2>1, FS_Subset
  <2>3. k <= Limit(l, p) /\ Limit(l, p) \in Nat
    BY <1>1, TokensAre, FirstKIs
  <2> QED BY <1>7, <1>8, <1>9, <1>12, <2>1, <2>2, <2>3, <1>6
<1>16. ASSUME ahead # {}, TopP(p)
       PROVE  Mass(l, p, ahead) * p.den < p.num * Pool(l, p)
  <2>1. few # {}
    BY <1>14, <1>16
  <2>2. i - 1 \in 1 .. m /\ i - 1 < i
    BY <1>6, <1>7, <1>12, <2>1
  <2>3. ~(Acc(l, p, cand, i - 1) * p.den >= p.num * Pool(l, p))
    BY <1>6, <1>7, <1>16, <2>2
  <2>4. Acc(l, p, cand, i - 1) = Mass(l, p, few)
    BY <1>12 DEF Acc
  <2>5. /\ Mass(l, p, ahead) * p.den <= Mass(l, p, few) * p.den
        /\ Mass(l, p, ahead) * p.den \in Nat /\ Mass(l, p, few) * p.den \in Nat
    BY <1>14, MassGrows
  <2>6. p.num * Pool(l, p) \in Nat
    BY <1>1, PoolIs
  <2>7. PICK x, y, z : x = Mass(l, p, ahead) * p.den /\ y = Mass(l, p, few) * p.den /\ z = p.num * Pool(l, p)
    OBVIOUS
  <2>8. x <= y /\ ~(y >= z) /\ x \in Nat /\ y \in Nat /\ z \in Nat
    BY <2>3, <2>4, <2>5, <2>6, <2>7
  <2>9. x < z
    BY ONLY <2>8
  <2> QED BY <2>7, <2>9
<1> QED BY <1>9, <1>12, <1>13, <1>15, <1>16 DEF Within

LEMMA WithinAreDrawn ==
  ASSUME NEW l, LogitsOK(l), NEW p, ParamsOK(p), p.base # 0,
         NEW id \in Tokens(l), Within(l, p, AheadOrTied(l, id))
  PROVE  id \in Draws(l, p)
<1>1. PICK k \in 1 .. Cardinality(Tokens(l)) :
        /\ ~Widens(l, p, FirstOf(l, k))
        /\ (p.topK # 0 \/ ~TopP(p)) => k = FirstK(l, p)
        /\ Draws(l, p) = DrawnFrom(l, p, k)
  BY DrawsAre
<1>2. PICK n \in Nat : n = Cardinality(Tokens(l))
  BY TokensAre
<1>3. PICK cand, set : cand = FirstOf(l, k) /\ set = TopSet(l, k)
  OBVIOUS
<1>4. /\ set \in SelectTop(l, k) /\ cand = Descending(l, set) /\ Len(cand) = k
      /\ \A j \in 1 .. k : cand[j] = Ordered(l)[j]
  BY <1>3, TopIs, TopSelected
<1>5. PICK q : q = Keep(l, p, cand)
  OBVIOUS
<1>6. /\ q \in 0 .. k /\ k \in 1 .. n
      /\ TopP(p) /\ q # 0 => Acc(l, p, cand, q) * p.den >= p.num * Pool(l, p)
      /\ ~TopP(p) => q = k
  BY <1>1, <1>2, <1>4, <1>5, KeptIs
<1>7. PICK i \in 1 .. n : id = Ordered(l)[i]
  BY <1>2, OrderedIs
<1>8. PICK few : few = AheadOrTied(l, id)
  OBVIOUS
<1>9. few = TopSet(l, i - 1) /\ Cardinality(few) = i - 1 /\ few \in SUBSET Tokens(l)
  <2>1. few = TopSet(l, i - 1) /\ Cardinality(TopSet(l, i - 1)) = i - 1
    BY <1>2, <1>7, <1>8, OrderedIs
  <2>2. few \in SUBSET Tokens(l)
    BY <1>8 DEF AheadOrTied, Ahead
  <2> QED BY <2>1, <2>2
<1>10. /\ i - 1 < Limit(l, p)
       /\ few # {} /\ TopP(p) => Mass(l, p, few) * p.den < p.num * Pool(l, p)
  BY <1>8, <1>9 DEF Within
<1>11. /\ Limit(l, p) \in 1 .. n /\ (p.topK # 0 \/ ~TopP(p) => Limit(l, p) = k)
  BY <1>1, <1>2, FirstKIs
<1>12. i \in 1 .. Kept(l, p, cand)
  <2>1. Kept(l, p, cand) = IF q = 0 THEN k ELSE q
    BY <1>4, <1>5 DEF Kept
  <2>2. CASE ~TopP(p) \/ (q = 0 /\ p.topK # 0)
    BY <1>2, <1>6, <1>7, <1>10, <1>11, <2>1, <2>2
  <2>3. CASE q = 0 /\ p.topK = 0
    <3>1. ~(k < n)
      BY <1>1, <1>2, <1>3, <1>4, <1>5, <2>3 DEF Widens
    <3> QED BY <1>2, <1>6, <1>7, <2>1, <2>3, <3>1
  <2>4. CASE TopP(p) /\ q # 0
    <3>1. ASSUME i > q
          PROVE  FALSE
      <4>1. \A j \in 1 .. q : j \in 1 .. k /\ j \in 1 .. i - 1
        BY <1>2, <1>6, <1>7, <3>1
      <4>2. PICK some : some = {cand[j] : j \in 1 .. q}
        OBVIOUS
      <4>3. some \in SUBSET few
        BY <1>4, <1>9, <4>1, <4>2 DEF TopSet
      <4>4. Acc(l, p, cand, q) = Mass(l, p, some)
        BY <4>2 DEF Acc
      <4>5. some # {}
        <5>1. 1 \in 1 .. q
          BY <1>6, <2>4
        <5>2. cand[1] \in some
          BY <4>2, <5>1
        <5> QED BY <5>2
      <4>6. /\ Mass(l, p, some) * p.den <= Mass(l, p, few) * p.den
            /\ Mass(l, p, some) * p.den \in Nat /\ Mass(l, p, few) * p.den \in Nat
        BY <1>9, <4>3, MassGrows
      <4>7. p.num * Pool(l, p) \in Nat
        BY <1>1, <1>4, PoolIs
      <4>8. PICK x, y, z : x = Mass(l, p, some) * p.den /\ y = Mass(l, p, few) * p.den /\ z = p.num * Pool(l, p)
        OBVIOUS
      <4>9. x <= y /\ x >= z /\ y < z /\ x \in Nat /\ y \in Nat /\ z \in Nat
        BY <1>6, <1>10, <2>4, <4>3, <4>4, <4>5, <4>6, <4>7, <4>8
      <4> QED BY ONLY <4>9
    <3> QED BY <1>2, <1>6, <1>7, <2>1, <2>4, <3>1
  <2> QED BY <2>2, <2>3, <2>4
<1>13. id = cand[i]
  <2>1. i \in 1 .. k
    BY <1>2, <1>4, <1>5, <1>6, <1>7, <1>12 DEF Kept
  <2> QED BY <1>4, <1>7, <2>1
<1>14. id \in Drawn(cand, Kept(l, p, cand))
  BY <1>12, <1>13 DEF Drawn
<1> QED BY <1>1, <1>4, <1>14 DEF DrawnFrom

LEMMA DrawsAreTokens ==
  ASSUME NEW l, LogitsOK(l), NEW p, ParamsOK(p)
  PROVE  Draws(l, p) \subseteq Tokens(l) /\ Draws(l, p) \subseteq Nat
<1>1. CASE p.base = 0
  <2>1. Draws(l, p) = {ArgMax(l)}
    BY <1>1 DEF Draws
  <2>2. PICK id \in Tokens(l) : AheadOrTied(l, id) = {}
    <3>1. 1 \in 1 .. Cardinality(Tokens(l))
      BY TokensAre
    <3>2. PICK id \in Tokens(l) : AheadOrTied(l, id) = TopSet(l, 1 - 1)
      BY <3>1, OrderedIs
    <3>3. TopSet(l, 1 - 1) = {}
      BY DEF TopSet
    <3> QED BY <3>2, <3>3
  <2>3. \A other \in Tokens(l) : l[other] < l[id] \/ (l[other] = l[id] /\ id <= other)
    <3>1. \A other \in Tokens(l) : other \in Nat /\ l[other] \in Nat
      BY TokensAre
    <3> QED BY <2>2, <3>1 DEF AheadOrTied, Ahead
  <2>4. ArgMax(l) \in Tokens(l)
    BY <2>3 DEF ArgMax
  <2> QED BY <2>1, <2>4, TokensAre
<1>2. CASE p.base # 0
  BY <1>2, DrawnAreWithin, TokensAre
<1> QED BY <1>1, <1>2

(* A token is drawn from the nucleus and from nowhere else.                 *)
LEMMA Nucleus ==
  ASSUME NEW l, LogitsOK(l), NEW p, ParamsOK(p), p.base # 0
  PROVE  /\ \A id \in Draws(l, p) : Within(l, p, Ahead(l, id))
         /\ \A id \in Tokens(l) : Within(l, p, AheadOrTied(l, id)) => id \in Draws(l, p)
BY DrawnAreWithin, WithinAreDrawn

-----------------------------------------------------------------------------
(* The invariant is inductive.                                              *)

LEMMA AskedIsSeq ==
  ASSUME GenInv, gen # "off"
  PROVE  Asked \in Seq(Nat) /\ task.prompt \in Seq(Nat)
BY ConcatProperties DEF GenInv, GenTypeOK, TaskOK, IsTask, Asked

LEMMA InitHolds == GenInit => GenInv
BY EmptySeq DEF GenInit, GenerateInit, GenInv, GenTypeOK, TaskOK, Starting, Looping, Going, Ended

LEMMA CallHolds ==
  ASSUME GenInv, NEW t, IsTask(t), Call(t)
  PROVE  GenInv'
<1> USE DEF Call
<1>1. GenTypeOK'
  BY DEF GenInv, GenTypeOK, IsTask
<1>2. TaskOK'
  BY DEF TaskOK, IsTask
<1>3. Starting' /\ Looping' /\ Going' /\ Ended'
  BY DEF GenInv, Starting, Looping, Going, Ended, WentOn
<1> QED
  BY <1>1, <1>2, <1>3 DEF GenInv

LEMMA RecordHolds ==
  ASSUME GenInv, Record
  PROVE  GenInv'
<1>1. gen' \in {"prefill", "failed"} /\ gen = "record"
  BY DEF Record
<1>2. GenTypeOK' /\ TaskOK'
  <2>1. /\ task' = task /\ resident' = resident /\ toPrefill' = toPrefill
        /\ out' = out /\ before' = before
    BY DEF Record
  <2> QED
    BY <1>1, <2>1 DEF GenInv, GenTypeOK, TaskOK, Stopped
<1>3. task.prompt \in Seq(Nat) /\ Asked \in Seq(Nat) /\ before \in Seq(Nat) /\ Asked' = Asked
  BY <1>1, AskedIsSeq DEF Record, GenInv, GenTypeOK, Asked
<1>4. /\ out' = <<>> /\ resident' = before /\ before' = before
      /\ toPrefill' = task.prompt /\ task.prompt # <<>>
  BY <1>1 DEF Record, GenInv, Starting, TaskOK
<1>5. Starting' /\ Looping' /\ Going'
  <2>1. Len(before) <= Len(before)
    BY <1>3, LenProperties
  <2>2. Len(<<>>) = 0
    BY EmptySeq
  <2>3. Starting'
    BY <1>1, <1>3, <1>4, <2>1 DEF Starting, Asked
  <2> QED
    BY <1>1, <1>4, <2>2, <2>3 DEF Looping, Going, WentOn
<1>6. Ended'
  <2>1. Asked \o <<>> = Asked
    BY <1>3, ConcatEmptySeq
  <2>2. IsPrefix(before, Asked) /\ Len(before) <= Len(before)
    BY <1>3, ConcatHasPrefix, LenProperties DEF Asked
  <2> QED
    BY <1>1, <1>3, <1>4, <2>1, <2>2 DEF Ended
<1> QED
  BY <1>2, <1>5, <1>6 DEF GenInv

LEMMA PrefillHolds ==
  ASSUME GenInv, PrefillStep
  PROVE  GenInv'
<1> DEFINE n == SmallerOf(PrefillChunk, Len(toPrefill))
           chunk == SubSeq(toPrefill, 1, n)
           left == SubSeq(toPrefill, n + 1, Len(toPrefill))
<1>1. /\ gen = "prefill" /\ toPrefill # <<>> /\ out = <<>>
      /\ resident' = resident \o chunk /\ toPrefill' = left
      /\ task' = task /\ out' = out /\ before' = before
      /\ IF left = <<>> THEN gen' = "sample" /\ logits' \in task.logits
         ELSE gen' = "prefill"
  BY DEF PrefillStep, GenInv, Starting
<1>2. /\ resident \in Seq(Nat) /\ toPrefill \in Seq(Nat) /\ before \in Seq(Nat)
      /\ Asked \in Seq(Nat) /\ Asked' = Asked
      /\ resident \o toPrefill = Asked /\ Len(before) <= Len(resident)
      /\ IsTask(task) /\ task.prompt # <<>>
  BY <1>1, AskedIsSeq DEF GenInv, GenTypeOK, Starting, Asked, TaskOK
<1>3. n \in 0 .. Len(toPrefill)
  BY <1>2, GenerateAssumption, LenProperties DEF SmallerOf
<1>4. chunk \in Seq(Nat) /\ left \in Seq(Nat) /\ chunk \o left = toPrefill
  BY <1>2, <1>3, CutInTwo
<1> HIDE DEF n, chunk, left
<1>5. resident' \in Seq(Nat) /\ Len(resident) <= Len(resident')
  BY <1>1, <1>2, <1>4, ConcatHasPrefix
<1>6. resident' \o left = Asked
  <2>1. (resident \o chunk) \o left = resident \o (chunk \o left)
    <3>1. resident \in Seq(Nat) /\ chunk \in Seq(Nat) /\ left \in Seq(Nat)
      BY <1>2, <1>4
    <3> QED
      BY ONLY <3>1, ConcatGrouped, Zenon
  <2> QED
    BY <1>1, <1>2, <1>4, <2>1
<1>7. Len(before) <= Len(resident')
  BY <1>2, <1>5, LenProperties
<1>8. GenTypeOK' /\ TaskOK'
  BY <1>1, <1>2, <1>4, <1>5 DEF GenInv, GenTypeOK, TaskOK
<1>9. CASE left = <<>>
  <2>1. resident' = Asked /\ Asked \o <<>> = Asked
    BY <1>2, <1>5, <1>6, <1>9, ConcatEmptySeq
  <2>2. WentOn(Len(out))'
    BY <1>1, EmptySeq DEF WentOn
  <2> QED
    BY <1>1, <1>2, <1>8, <1>9, <2>1, <2>2 DEF GenInv, Starting, Looping, Going, Ended
<1>10. CASE left # <<>>
  BY <1>1, <1>2, <1>6, <1>7, <1>8, <1>10 DEF GenInv, Starting, Looping, Going, Ended
<1> QED
  BY <1>9, <1>10

LEMMA PrefillFailsHolds ==
  ASSUME GenInv, PrefillFails
  PROVE  GenInv'
<1>1. PICK n \in {0, SmallerOf(PrefillChunk, Len(toPrefill))} :
        resident' = resident \o SubSeq(toPrefill, 1, n)
  BY DEF PrefillFails
<1> DEFINE chunk == SubSeq(toPrefill, 1, n)
           left == SubSeq(toPrefill, n + 1, Len(toPrefill))
<1>2. /\ gen = "prefill" /\ gen' = "failed" /\ out = <<>>
      /\ task' = task /\ toPrefill' = toPrefill /\ out' = out /\ before' = before
  BY DEF PrefillFails, GenInv, Starting
<1>3. /\ resident \in Seq(Nat) /\ toPrefill \in Seq(Nat) /\ before \in Seq(Nat)
      /\ Asked \in Seq(Nat) /\ Asked' = Asked
      /\ resident \o toPrefill = Asked /\ Len(before) <= Len(resident)
      /\ IsTask(task) /\ task.prompt # <<>>
  BY <1>2, AskedIsSeq DEF GenInv, GenTypeOK, Starting, Asked, TaskOK
<1>4. n \in 0 .. Len(toPrefill)
  BY <1>3, GenerateAssumption, LenProperties DEF SmallerOf
<1>5. chunk \in Seq(Nat) /\ left \in Seq(Nat) /\ chunk \o left = toPrefill
  BY <1>3, <1>4, CutInTwo
<1>6. resident' = resident \o chunk
  BY <1>1
<1> HIDE DEF chunk, left
<1>7. resident' \in Seq(Nat) /\ Len(resident) <= Len(resident')
  BY <1>3, <1>5, <1>6, ConcatHasPrefix
<1>8. resident' \o left = Asked
  <2>1. (resident \o chunk) \o left = resident \o (chunk \o left)
    <3>1. resident \in Seq(Nat) /\ chunk \in Seq(Nat) /\ left \in Seq(Nat)
      BY <1>3, <1>5
    <3> QED
      BY ONLY <3>1, ConcatGrouped, Zenon
  <2> QED
    BY <1>3, <1>5, <1>6, <2>1
<1>9. IsPrefix(resident', Asked) /\ Asked \o <<>> = Asked
  <2>1. IsPrefix(resident', resident' \o left)
    BY <1>5, <1>7, ConcatHasPrefix
  <2> QED
    BY <1>3, <1>8, <2>1, ConcatEmptySeq
<1>10. Len(before) <= Len(resident')
  BY <1>3, <1>7, LenProperties
<1>11. GenTypeOK' /\ TaskOK'
  BY <1>2, <1>3, <1>7 DEF GenInv, GenTypeOK, TaskOK, Stopped
<1>12. WentOn(Len(out))'
  BY <1>2, EmptySeq DEF WentOn
<1> QED
  BY <1>2, <1>3, <1>9, <1>10, <1>11, <1>12 DEF GenInv, Starting, Looping, Going, Ended

LEMMA SampleHolds ==
  ASSUME GenInv, Sample
  PROVE  GenInv'
<1>1. PICK tok \in Draws(logits, task.params), goOn \in BOOLEAN :
        out' = Append(out, tok) /\ gen' = Verdict(tok, goOn)
  BY DEF Sample
<1>2. /\ gen = "sample" /\ task' = task /\ resident' = resident
      /\ toPrefill' = toPrefill /\ before' = before /\ logits' = logits
  BY DEF Sample
<1>3. /\ out \in Seq(Nat) /\ Asked \in Seq(Nat) /\ Asked' = Asked
      /\ logits \in task.logits /\ resident = Asked \o out
      /\ IsTask(task) /\ task.prompt # <<>> /\ WentOn(Len(out))
  BY <1>2, AskedIsSeq DEF GenInv, GenTypeOK, TaskOK, Looping, Going, Asked
<1>4. tok \in Nat /\ task.maxTokens \in Nat
  <2>1. Draws(logits, task.params) \subseteq Nat
    BY <1>3, DrawsAreTokens DEF IsTask
  <2> QED BY <1>1, <1>3, <2>1 DEF IsTask
<1>5. /\ out' \in Seq(Nat) /\ out' # <<>> /\ Front(out') = out /\ Last(out') = tok
      /\ Len(out') = Len(out) + 1 /\ Len(out) \in Nat
  BY <1>1, <1>3, <1>4, AppendFrontLast, LenProperties
<1>6. /\ \A i \in 1 .. Len(out) : out'[i] = out[i]
      /\ out'[Len(out) + 1] = tok
  BY <1>1, <1>3, <1>4, AppendProperties
<1>7. \/ gen' = "aborted"
      \/ gen' = "eos" /\ tok \in EosTokens
      \/ gen' = "max_tokens" /\ tok \notin EosTokens /\ Len(out) + 1 >= task.maxTokens
      \/ gen' = "decode" /\ tok \notin EosTokens /\ ~(Len(out) + 1 >= task.maxTokens)
  BY <1>1 DEF Verdict, Reached
<1>8. \A i \in 1 .. Len(out') - 1 : out'[i] \notin EosTokens /\ i < task'.maxTokens
  <2>1. Len(out') - 1 = Len(out)
    <3>1. Len(out') = Len(out) + 1 /\ Len(out) \in Nat
      BY <1>5, Zenon
    <3> QED BY ONLY <3>1
  <2>2. \A i \in 1 .. Len(out) : out[i] \notin EosTokens /\ i < task.maxTokens
    BY <1>3, Zenon DEF WentOn
  <2> QED BY ONLY <1>2, <1>6, <2>1, <2>2, Zenon
<1>9. gen' = "decode" => \A i \in 1 .. Len(out') : out'[i] \notin EosTokens /\ i < task'.maxTokens
  <2> SUFFICES ASSUME gen' = "decode", NEW i \in 1 .. Len(out')
               PROVE  out'[i] \notin EosTokens /\ i < task'.maxTokens
    OBVIOUS
  <2>1. tok \notin EosTokens /\ Len(out) + 1 < task.maxTokens
    BY <1>4, <1>5, <1>7
  <2>2. CASE i = Len(out) + 1
    BY <1>2, <1>6, <2>1, <2>2
  <2>3. CASE i # Len(out) + 1
    BY <1>5, <1>8, <2>3
  <2> QED
    BY <2>2, <2>3
<1>10. GenTypeOK' /\ TaskOK'
  BY <1>2, <1>3, <1>5, <1>7 DEF GenInv, GenTypeOK, TaskOK, Stopped
<1>11. resident' = Asked' \o Front(out')
  BY <1>2, <1>3, <1>5
<1>12. Starting' /\ Looping' /\ Going'
  BY <1>5, <1>7, <1>9, <1>11 DEF Starting, Looping, Going, WentOn
<1>13. Ended'
  <2>1. gen' = "max_tokens" => Len(out') >= task'.maxTokens
    BY <1>2, <1>5, <1>7
  <2> QED
    BY <1>5, <1>7, <1>8, <1>11, <2>1 DEF Ended, WentOn
<1> QED
  BY <1>10, <1>12, <1>13 DEF GenInv

LEMMA FedIsSaid ==
  ASSUME GenInv, gen = "decode"
  PROVE  /\ Append(resident, Last(out)) = Asked \o out
         /\ Last(out) \in Nat /\ out \in Seq(Nat) /\ Front(out) \in Seq(Nat)
         /\ resident = Asked \o Front(out)
<1>1. /\ out \in Seq(Nat) /\ out # <<>> /\ Asked \in Seq(Nat)
      /\ resident = Asked \o Front(out)
  BY AskedIsSeq DEF GenInv, GenTypeOK, Looping
<1>2. Front(out) \in Seq(Nat) /\ Last(out) \in Nat /\ Append(Front(out), Last(out)) = out
  BY <1>1, FrontThenLast
<1>3. Asked \o Append(Front(out), Last(out)) = Append(Asked \o Front(out), Last(out))
  <2>1. Asked \in Seq(Nat) /\ Front(out) \in Seq(Nat) /\ Last(out) \in Nat
    BY <1>1, <1>2
  <2> QED
    BY ONLY <2>1, ConcatAppend
<1> QED
  BY <1>1, <1>2, <1>3

LEMMA DecodeHolds ==
  ASSUME GenInv, DecodeStep
  PROVE  GenInv'
<1>1. /\ gen = "decode" /\ gen' = "sample" /\ logits' \in task.logits
      /\ resident' = Append(resident, Last(out))
      /\ task' = task /\ toPrefill' = toPrefill /\ out' = out /\ before' = before
  BY DEF DecodeStep
<1>2. resident' = Asked \o out /\ Last(out) \in Nat /\ Asked' = Asked
  BY <1>1, FedIsSaid DEF Asked
<1>3. GenTypeOK' /\ TaskOK'
  <2>1. Append(resident, Last(out)) \in Seq(Nat)
    BY <1>1, FedIsSaid, AppendProperties DEF GenInv, GenTypeOK
  <2> QED
    BY <1>1, <2>1 DEF GenInv, GenTypeOK, TaskOK
<1> QED
  BY <1>1, <1>2, <1>3 DEF GenInv, Starting, Looping, Going, Ended, WentOn

LEMMA DecodeFailsHolds ==
  ASSUME GenInv, DecodeFails
  PROVE  GenInv'
<1>1. /\ gen = "decode" /\ gen' = "failed"
      /\ resident' \in {resident, Append(resident, Last(out))}
      /\ task' = task /\ toPrefill' = toPrefill /\ out' = out /\ before' = before
  BY DEF DecodeFails
<1>2. /\ Append(resident, Last(out)) = Asked \o out
      /\ Last(out) \in Nat /\ out \in Seq(Nat) /\ Front(out) \in Seq(Nat)
      /\ resident = Asked \o Front(out) /\ out # <<>>
      /\ Asked' = Asked /\ Asked \in Seq(Nat)
      /\ before \in Seq(Nat) /\ task.prompt \in Seq(Nat) /\ resident \in Seq(Nat)
  BY <1>1, FedIsSaid, AskedIsSeq DEF GenInv, GenTypeOK, Looping, Asked
<1>3. GenTypeOK' /\ TaskOK'
  <2>1. Append(resident, Last(out)) \in Seq(Nat)
    BY <1>2, AppendProperties
  <2> QED
    BY <1>1, <1>2, <2>1 DEF GenInv, GenTypeOK, TaskOK, Stopped
<1>4. IsPrefix(resident', Asked \o out)
  <2>1. IsPrefix(resident, Append(resident, Last(out)))
    <3>1. Append(resident, Last(out)) = resident \o <<Last(out)>> /\ <<Last(out)>> \in Seq(Nat)
      <4>1. resident \in Seq(Nat) /\ Last(out) \in Nat
        BY <1>2
      <4>2. <<Last(out)>> \in Seq(Nat)
        BY <4>1
      <4> QED
        BY ONLY <4>1, <4>2, AppendIsConcat
    <3>2. resident \in Seq(Nat)
      BY <1>2
    <3> QED
      BY ONLY <3>1, <3>2, ConcatHasPrefix
  <2>2. IsPrefix(Asked \o out, Asked \o out)
    BY <1>2, ConcatProperties, LenProperties DEF IsPrefix
  <2> QED
    BY <1>1, <1>2, <2>1, <2>2
<1>5. Len(before) <= Len(resident')
  <2>1. Len(before) <= Len(Asked) /\ Len(Asked) <= Len(resident) /\ Len(Asked) <= Len(Asked \o out)
    BY <1>2, ConcatHasPrefix DEF Asked
  <2>2. Asked \o out \in Seq(Nat)
    BY <1>2, ConcatProperties
  <2>3. Len(before) \in Nat /\ Len(Asked) \in Nat /\ Len(resident) \in Nat /\ Len(Asked \o out) \in Nat
    BY <1>2, <2>2, LenProperties
  <2>4. resident' = resident \/ resident' = Asked \o out
    BY <1>1, <1>2
  <2> QED
    BY ONLY <2>1, <2>3, <2>4
<1>6. Ended' /\ Starting' /\ Looping' /\ Going'
  BY <1>1, <1>2, <1>4, <1>5 DEF GenInv, Starting, Looping, Going, Ended, WentOn
<1> QED
  BY <1>3, <1>6 DEF GenInv

LEMMA GenInvInductive == GenInv /\ [GenNext]_genVars => GenInv'
<1> SUFFICES ASSUME GenInv, [GenNext]_genVars PROVE GenInv'
  OBVIOUS
<1>1. CASE \E t : IsTask(t) /\ Call(t)
  BY <1>1, CallHolds
<1>2. CASE GenerateStep
  BY <1>2, RecordHolds, PrefillHolds, PrefillFailsHolds, SampleHolds, DecodeHolds,
     DecodeFailsHolds DEF GenerateStep
<1>3. CASE UNCHANGED genVars
  BY <1>3 DEF genVars, GenInv, GenTypeOK, TaskOK, Starting, Looping, Going, Ended, WentOn, Asked
<1> QED
  BY <1>1, <1>2, <1>3 DEF GenNext

-----------------------------------------------------------------------------
(* What the invariant says.                                                 *)

LEMMA InvSaysResident == GenInv => SaidIsResident
BY DEF GenInv, Starting, Ended, SaidIsResident, Asked, Stopped

LEMMA InvSaysEnds == GenInv => EndsWhereItShould
<1> SUFFICES ASSUME GenInv PROVE EndsWhereItShould
  OBVIOUS
<1>1. out \in Seq(Nat) /\ (out # <<>> => Len(out) \in Nat \ {0}) /\ Len(out) \in Nat
  BY EmptySeq, LenProperties DEF GenInv, GenTypeOK
<1>2. gen \in Stopped \cup {"off", "record", "prefill", "sample", "decode"}
  BY DEF GenInv, GenTypeOK
<1>3. CASE gen \in {"off", "record", "prefill"}
  <2>1. out = <<>> /\ Len(out) = 0 /\ (gen # "off" => task.maxTokens \in Nat)
    BY <1>3, EmptySeq DEF GenInv, Starting, TaskOK, IsTask
  <2> QED
    BY <1>3, <2>1 DEF EndsWhereItShould
<1>4. CASE gen \in {"sample", "decode", "failed"}
  <2>1. WentOn(Len(out))
    BY <1>4 DEF GenInv, Going
  <2>2. out # <<>> => out[Len(out)] \notin EosTokens
    BY <1>1, <2>1 DEF WentOn
  <2>3. \A i \in 1 .. Len(out) - 1 : out[i] \notin EosTokens
    BY <1>1, <2>1 DEF WentOn
  <2>4. Len(out) - 1 > 0 => Len(out) - 1 < task.maxTokens
    BY <1>1, <2>1 DEF WentOn
  <2>5. task.maxTokens > 0 => Len(out) <= task.maxTokens
    BY <1>1, <1>4, <2>4 DEF GenInv, TaskOK, IsTask
  <2> QED
    BY <1>4, <2>2, <2>3, <2>5 DEF EndsWhereItShould
<1>5. CASE gen \in {"eos", "max_tokens", "aborted"}
  <2>1. out # <<>> /\ WentOn(Len(out) - 1) /\ task.maxTokens \in Nat
    BY <1>5 DEF GenInv, Ended, TaskOK, IsTask
  <2>2. Len(out) - 1 > 0 => Len(out) - 1 < task.maxTokens
    BY <1>1, <2>1 DEF WentOn
  <2>3. task.maxTokens > 0 => Len(out) <= task.maxTokens
    BY <1>1, <2>1, <2>2
  <2>4. \A i \in 1 .. Len(out) - 1 : out[i] \notin EosTokens
    BY <2>1 DEF WentOn
  <2>5. /\ gen = "eos" => out[Len(out)] \in EosTokens
        /\ gen = "max_tokens" => out[Len(out)] \notin EosTokens /\ Len(out) >= task.maxTokens
    BY <1>5 DEF GenInv, Ended, Last
  <2> QED
    BY <1>5, <2>1, <2>3, <2>4, <2>5 DEF EndsWhereItShould
<1> QED
  BY <1>2, <1>3, <1>4, <1>5 DEF Stopped

LEMMA InvSaysPrefix == GenInv => FailureIsPrefix
<1> SUFFICES ASSUME GenInv, gen \in Stopped
             PROVE  /\ IsPrefix(resident, before \o task.prompt \o out)
                    /\ Len(before) <= Len(resident)
  BY DEF FailureIsPrefix
<1>1. CASE gen = "failed"
  BY <1>1 DEF GenInv, Ended, Asked
<1>2. CASE gen \in {"eos", "max_tokens", "aborted"}
  <2>1. /\ out # <<>> /\ out \in Seq(Nat) /\ resident = Asked \o Front(out)
        /\ Asked \in Seq(Nat) /\ before \in Seq(Nat) /\ task.prompt \in Seq(Nat)
    BY <1>2, AskedIsSeq DEF GenInv, GenTypeOK, Ended
  <2>2. Front(out) \in Seq(Nat) /\ Last(out) \in Nat /\ Append(Front(out), Last(out)) = out
    BY <2>1, FrontThenLast
  <2>3. <<Last(out)>> \in Seq(Nat) /\ resident \in Seq(Nat)
    BY <2>1, <2>2, ConcatProperties
  <2>4. Asked \o out = Append(resident, Last(out))
    <3>1. Asked \in Seq(Nat) /\ Front(out) \in Seq(Nat) /\ Last(out) \in Nat
      BY <2>1, <2>2
    <3>2. Asked \o Append(Front(out), Last(out)) = Append(Asked \o Front(out), Last(out))
      BY ONLY <3>1, ConcatAppend
    <3> QED
      BY <2>1, <2>2, <3>2
  <2>5. Append(resident, Last(out)) = resident \o <<Last(out)>>
    BY <2>2, <2>3, AppendIsConcat
  <2>6. IsPrefix(resident, resident \o <<Last(out)>>)
    BY ONLY <2>3, ConcatHasPrefix
  <2>7. Len(before) <= Len(Asked) /\ Len(Asked) <= Len(resident)
    BY <2>1, <2>2, ConcatHasPrefix DEF Asked
  <2>8. Len(before) \in Nat /\ Len(Asked) \in Nat /\ Len(resident) \in Nat
    BY <2>1, <2>3, LenProperties
  <2> QED
    BY <2>4, <2>5, <2>6, <2>7, <2>8 DEF Asked
<1> QED
  BY <1>1, <1>2 DEF Stopped

LEMMA GenInvHolds == GenSpec => []GenInv
BY InitHolds, GenInvInductive, PTL DEF GenSpec

(***************************************************************************)
(* What is resident, what is left of the prompt and what was sampled are   *)
(* sequences of token ids at every step (generate, prefill, decode_step).  *)
(***************************************************************************)
THEOREM GenerateTypes == GenSpec => []GenTypeOK
<1>1. GenInv => GenTypeOK
  BY DEF GenInv
<1> QED
  BY <1>1, GenInvHolds, PTL

(***************************************************************************)
(* Whichever way a generation stops, the model holds what was there, the   *)
(* prompt and every token sampled but the last; it stops at the first end  *)
(* token and at the limit and nowhere past them; and a generation that     *)
(* fails holds a beginning of that (GpuModel::generate).                   *)
(***************************************************************************)
THEOREM GenerateAccounts == GenSpec => []ReplyAccounts
<1>1. GenInv => ReplyAccounts
  BY InvSaysResident, InvSaysEnds, InvSaysPrefix DEF ReplyAccounts
<1> QED
  BY <1>1, GenInvHolds, PTL

(***************************************************************************)
(* Whatever the vocabulary, the logits and the parameters, and however     *)
(* often the working set is widened: every token that may be drawn has     *)
(* rivals that fall short of top-p and of the limit, and every token that  *)
(* does with its equals of lower id before it may be drawn                 *)
(* (Sampler::sample, select_top).                                          *)
(***************************************************************************)
THEOREM DrawsAreNucleus == GenSpec => []DrawsFromNucleus
<1>1. ASSUME GenInv, gen = "sample", task.params.base # 0
      PROVE  /\ \A id \in Draws(logits, task.params) : Within(logits, task.params, Ahead(logits, id))
             /\ \A id \in Tokens(logits) : Within(logits, task.params, AheadOrTied(logits, id)) =>
                                             id \in Draws(logits, task.params)
  <2>1. logits \in task.logits /\ IsTask(task)
    BY <1>1 DEF GenInv, TaskOK, Looping
  <2>2. LogitsOK(logits) /\ ParamsOK(task.params)
    BY <2>1 DEF IsTask
  <2> QED BY <1>1, <2>2, Nucleus
<1>2. GenInv => DrawsFromNucleus
  BY <1>1 DEF DrawsFromNucleus
<1> QED
  BY <1>2, GenInvHolds, PTL
=============================================================================
