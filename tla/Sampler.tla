------------------------------ MODULE Sampler ------------------------------
(***************************************************************************)
(* sg-model/src/sampler.rs: which token can be drawn from a vector of      *)
(* logits.                                                                 *)
(*                                                                         *)
(* Logits are small integers, and a logit v has probability in proportion  *)
(* to base ^ v, for base = e ^ (1/temperature); base 0 stands for a        *)
(* temperature of zero or less.  top_p is the fraction num/den.  Rounding  *)
(* is left out, except that a draw may run off the end of the candidates.  *)
(* The generator is a choice: Draws is the set of tokens it may lead to.   *)
(***************************************************************************)
EXTENDS Naturals, FiniteSetsExt, SequencesExt

CONSTANT WorkingSet     \* the cap on the candidates first selected (1024)

ASSUME WorkingSetAssumption == WorkingSet \in Nat \ {0}

(* Sampling parameters: base, topK (0: off) and topP (num = den: off).     *)
Params(base, topK, num, den) == [base |-> base, topK |-> topK, num |-> num, den |-> den]

SmallerOf(a, b) == IF a <= b THEN a ELSE b
Tokens(logits) == DOMAIN logits

(* The weight of a token: base to the power of its logit.                  *)
Power(base, n) == LET power[i \in 0 .. n] == IF i = 0 THEN 1 ELSE base * power[i - 1] IN power[n]
Weight(logits, p, id) == Power(p.base, logits[id])
Mass(logits, p, set) == MapThenSumSet(LAMBDA id : Weight(logits, p, id), set)

TopP(p) == p.num < p.den

(* Greedy: the largest logit, the lowest id of several.                    *)
ArgMax(logits) ==
    CHOOSE id \in Tokens(logits) :
      \A other \in Tokens(logits) :
         logits[other] < logits[id] \/ (logits[other] = logits[id] /\ id <= other)

(* select_top: k tokens that none of the others exceeds.  Which of several *)
(* equal ones make it is up to the quickselect.                            *)
SelectTop(logits, k) ==
    LET above(id) == {other \in Tokens(logits) : logits[other] > logits[id]}
        level(id) == {other \in Tokens(logits) : logits[other] = logits[id]}
        sure == {id \in Tokens(logits) : Cardinality(above(id) \cup level(id)) <= k}
        border == {id \in Tokens(logits) \ sure : Cardinality(above(id)) < k}
    IN {sure \cup rest : rest \in kSubset(k - Cardinality(sure), border)}

(* The candidates by descending logit, equal ones by id.                   *)
Descending(logits, set) ==
    LET before(id) == {other \in set : \/ logits[other] > logits[id]
                                       \/ logits[other] = logits[id] /\ other < id}
    IN <<>> \o [i \in 1 .. Cardinality(set) |-> CHOOSE id \in set : Cardinality(before(id)) = i - 1]

(* The mass of the first i candidates.                                     *)
Acc(logits, p, cand, i) == Mass(logits, p, {cand[j] : j \in 1 .. i})

(* How many candidates the top-p prefix keeps, 0 when they do not reach    *)
(* its mass.                                                               *)
Prefix(logits, p, cand, total) ==
    SelectInSeq([i \in DOMAIN cand |-> Acc(logits, p, cand, i) * p.den],
                LAMBDA acc : acc >= p.num * total)

(* The draw: a point of the kept mass, walked down candidate by candidate; *)
(* each has a share of it, and the last also what rounding leaves over.    *)
Drawn(cand, keep) == {cand[i] : i \in 1 .. keep}

FirstK(logits, p) ==
    SmallerOf(IF p.topK = 0 THEN WorkingSet ELSE SmallerOf(p.topK, WorkingSet), Cardinality(Tokens(logits)))

(* What the candidates keep after top-p; 0 asks for more of them.           *)
Keep(logits, p, cand) ==
    LET pool == IF p.topK = 0 THEN Tokens(logits) ELSE Range(cand)
    IN IF TopP(p) THEN Prefix(logits, p, cand, Mass(logits, p, pool)) ELSE Len(cand)

(* Mutant: the working set is never widened.                               *)
WidensNever(logits, p, cand) == FALSE

(* The prefix does not fit in the working set: only with top-k off.        *)
Widens(logits, p, cand) ==
    p.topK = 0 /\ Keep(logits, p, cand) = 0 /\ Len(cand) < Cardinality(Tokens(logits))

(* sample: all the tokens it may draw.  Whether a round widens the working *)
(* set does not depend on which of several equal tokens are in it.         *)
Draws(logits, p) ==
    LET n == Cardinality(Tokens(logits))
        first(k) == SubSeq(Descending(logits, Tokens(logits)), 1, k)
        last[k \in 1 .. n] ==
          IF \E cand \in {first(k)} : Widens(logits, p, cand) THEN last[SmallerOf(4 * k, n)] ELSE k
        keep(cand) == LET k == Keep(logits, p, cand) IN IF k = 0 THEN Len(cand) ELSE k
    IN IF p.base = 0 THEN {ArgMax(logits)}
       ELSE UNION {Drawn(cand, keep(cand)) :
                     cand \in {Descending(logits, set) : set \in SelectTop(logits, last[FirstK(logits, p)])}}
=============================================================================
