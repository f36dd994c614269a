------------------------------ MODULE RulesProofs ------------------------------
(***************************************************************************)
(* The rules, for every size of the board, profile, piece and candidate,   *)
(* and the datapaths that compute them.                                    *)
(*                                                                         *)
(* First arithmetic: the fixed-width adder trees and scores never let a    *)
(* truncation show, and a certified winner is one.  Then the operations of *)
(* a placement: the landing row, the rows that stay, the features as sums  *)
(* over the columns.  Then games (Play): boards stay normalized and cells  *)
(* are conserved.  Then the two other statements of the rules, each taken  *)
(* through its own algorithm: the column twin (model/fast.py) deletes full *)
(* rows from a column one by one, the banks of the token pipeline rank the *)
(* rows by a prefix scan and select them by a match matrix.  Both compute  *)
(* the record of the rules, and the policies of the twin pick the moves of *)
(* the rules, so that all three agree on every board of every game.        *)
(***************************************************************************)
EXTENDS Play, EvaluatorUnits, WellFoundedInduction, FiniteSetTheorems, TLAPS

Leaf == 0 .. 20        \* heights, holes of a column, differences

LEMMA LeafValues ==
    ASSUME NEW v \in [Leaves -> Leaf]
    PROVE  /\ v[0] \in Leaf /\ v[1] \in Leaf /\ v[2] \in Leaf /\ v[3] \in Leaf /\ v[4] \in Leaf
           /\ v[5] \in Leaf /\ v[6] \in Leaf /\ v[7] \in Leaf /\ v[8] \in Leaf /\ v[9] \in Leaf
BY DEF Leaves

(* A pair of leaves fits the six bits of the first level.                   *)
LEMMA PairSumsExact ==
    ASSUME NEW v \in [Leaves -> Leaf]
    PROVE  PairSums(v) = [i \in 0 .. 4 |-> v[2*i] + v[2*i + 1]]
<1>1. SUFFICES ASSUME NEW i \in 0 .. 4
               PROVE  (v[2*i] + v[2*i + 1]) % 64 = v[2*i] + v[2*i + 1]
  BY Zenon DEF PairSums
<1>2. v[2*i] \in Leaf /\ v[2*i + 1] \in Leaf
  BY DEF Leaves
<1> QED BY <1>2 DEF Leaf

LEMMA PairSumValues ==
    ASSUME NEW v \in [Leaves -> Leaf]
    PROVE  /\ PairSums(v) \in [0 .. 4 -> 0 .. 40]
           /\ SumOf(v) = PairSums(v)[0] + PairSums(v)[1] + PairSums(v)[2] + PairSums(v)[3] + PairSums(v)[4]
<1>1. ASSUME NEW i \in 0 .. 4
      PROVE  v[2*i] + v[2*i + 1] \in 0 .. 40
  <2>1. v[2*i] \in Leaf /\ v[2*i + 1] \in Leaf
    BY DEF Leaves
  <2> QED BY <2>1 DEF Leaf
<1>2. PairSums(v) \in [0 .. 4 -> 0 .. 40]
  BY <1>1, PairSumsExact
<1>3. /\ PairSums(v)[0] = v[0] + v[1] /\ PairSums(v)[1] = v[2] + v[3]
      /\ PairSums(v)[2] = v[4] + v[5] /\ PairSums(v)[3] = v[6] + v[7]
      /\ PairSums(v)[4] = v[8] + v[9]
  BY PairSumsExact
<1> QED BY <1>2, <1>3 DEF SumOf

(* The tree of the fast unit is exact for every height, hole and difference *)
(* vector (features_fast.sv).                                               *)
THEOREM FastSumExact ==
    ASSUME NEW v \in [Leaves -> Leaf]
    PROVE  FastSum(v) = SumOf(v) /\ SumOf(v) \in 0 .. 200
<1> DEFINE P == PairSums(v)
           a == P[0]  b == P[1]  c == P[2]  d == P[3]  e == P[4]
<1>1. /\ a \in 0 .. 40 /\ b \in 0 .. 40 /\ c \in 0 .. 40 /\ d \in 0 .. 40 /\ e \in 0 .. 40
      /\ SumOf(v) = a + b + c + d + e
  BY PairSumValues
<1>2. FastSum(v) = (((a + b) % 128) + ((c + d) % 128) + e) % 256
  BY DEF FastSum, FastTree
<1> HIDE DEF a, b, c, d, e
<1>3. (((a + b) % 128) + ((c + d) % 128) + e) % 256 = a + b + c + d + e
  BY <1>1
<1>4. a + b + c + d + e \in 0 .. 200
  BY <1>1
<1> QED BY <1>1, <1>2, <1>3, <1>4, Zenon

(* So is the tree of the pipelined unit (features_pipe.sv).                 *)
THEOREM PipeSumExact ==
    ASSUME NEW v \in [Leaves -> Leaf]
    PROVE  PipeSum(v) = SumOf(v)
<1> DEFINE P == PairSums(v)
           a == P[0]  b == P[1]  c == P[2]  d == P[3]  e == P[4]
<1>1. /\ a \in 0 .. 40 /\ b \in 0 .. 40 /\ c \in 0 .. 40 /\ d \in 0 .. 40 /\ e \in 0 .. 40
      /\ SumOf(v) = a + b + c + d + e
  BY PairSumValues
<1>2. PipeSum(v) = ((((((a + b) % 128) + ((c + d) % 128)) % 256) + ((e % 128) % 256)) % 512) % 256
  BY DEF PipeSum, PipeTree
<1> HIDE DEF a, b, c, d, e
<1>3. ((((((a + b) % 128) + ((c + d) % 128)) % 256) + ((e % 128) % 256)) % 512) % 256 = a + b + c + d + e
  BY <1>1
<1> QED BY <1>1, <1>2, <1>3, Zenon

LEMMA SaturatedAdds ==
    ASSUME NEW a \in Nat, NEW b \in Nat
    PROVE  Saturated(Saturated(a) + Saturated(b)) = Saturated(a + b)
BY DEF Saturated

(* Saturating at every node of the tree is saturating the sum: the holes of *)
(* profile P3.                                                              *)
THEOREM SaturatingSumExact ==
    ASSUME NEW v \in [Leaves -> Leaf]
    PROVE  SaturatingSum(v) = Saturated(SumOf(v))
<1> DEFINE P == PairSums(v)
           a == P[0]  b == P[1]  c == P[2]  d == P[3]  e == P[4]
<1>1. /\ a \in 0 .. 40 /\ b \in 0 .. 40 /\ c \in 0 .. 40 /\ d \in 0 .. 40 /\ e \in 0 .. 40
      /\ SumOf(v) = a + b + c + d + e
  BY PairSumValues
<1>2. ASSUME NEW i \in 0 .. 4
      PROVE  SaturatedPairs(v)[i] = Saturated(P[i])
  <2>1. v[2*i] \in Nat /\ v[2*i + 1] \in Nat
    BY DEF Leaves, Leaf
  <2>2. SaturatedPairs(v)[i] = Saturated(v[2*i] + v[2*i + 1])
    BY <2>1, SaturatedAdds, Zenon DEF SaturatedPairs
  <2> QED BY <2>2, PairSumsExact
<1>3. SaturatingSum(v)
        = Saturated(Saturated(Saturated(Saturated(a) + Saturated(b)) + Saturated(Saturated(c) + Saturated(d)))
                    + Saturated(e))
  <2>1. /\ SaturatedPairs(v)[0] = Saturated(a) /\ SaturatedPairs(v)[1] = Saturated(b)
        /\ SaturatedPairs(v)[2] = Saturated(c) /\ SaturatedPairs(v)[3] = Saturated(d)
        /\ SaturatedPairs(v)[4] = Saturated(e)
    BY <1>2
  <2> QED BY <2>1, Zenon DEF SaturatingSum, SaturatingTree
<1> HIDE DEF a, b, c, d, e
<1>4. Saturated(Saturated(Saturated(Saturated(a) + Saturated(b)) + Saturated(Saturated(c) + Saturated(d)))
                + Saturated(e)) = Saturated(a + b + c + d + e)
  BY <1>1 DEF Saturated
<1> QED BY <1>1, <1>3, <1>4, Zenon

LEMMA QuantizedCoefficients ==
    /\ QuantizeMagnitudes(4) = <<15, 10, 7, 4>>
    /\ QuantizeMagnitudes(3) = <<7, 5, 3, 2>>
    /\ QuantizeMagnitudes(2) = <<3, 2, 1, 1>>
BY DEF QuantizeMagnitudes, Levels, EXACT_COEFFICIENTS

LEMMA WrapExact ==
    ASSUME NEW m \in {16384, 4096, 2048}, NEW n \in Int, 0 - m <= 2 * n, 2 * n < m
    PROVE  Wrap(n, m) = n
<1>1. CASE m = 16384  BY <1>1 DEF Wrap
<1>2. CASE m = 4096   BY <1>2 DEF Wrap
<1>3. CASE m = 2048   BY <1>3 DEF Wrap
<1> QED BY <1>1, <1>2, <1>3

LEMMA ProfileRows ==
    /\ Profile(0) = ProfileOf(EXACT_COEFFICIENTS, Uncapped, TRUE)
    /\ Profile(1) = ProfileOf(<<64, 64, 32, 16>>, Uncapped, TRUE)
    /\ Profile(2) = ProfileOf(<<80, 48, 36, 18>>, Uncapped, TRUE)
    /\ Profile(3) = ProfileOf(EXACT_COEFFICIENTS, 15, TRUE)
    /\ Profile(4) = ProfileOf(<<76, 51, 36, 0>>, Uncapped, FALSE)
    /\ Profile(5) = ProfileOf(QuantizeMagnitudes(4), Uncapped, TRUE)
    /\ Profile(6) = ProfileOf(QuantizeMagnitudes(3), Uncapped, TRUE)
    /\ Profile(7) = ProfileOf(QuantizeMagnitudes(2), Uncapped, TRUE)
<1>1. Profile(0) = ProfileOf(EXACT_COEFFICIENTS, Uncapped, TRUE)
  <2>1. Profile(0) = PROFILES[1]
    BY DEF Profile
  <2> QED BY <2>1 DEF PROFILES
<1>2. Profile(1) = ProfileOf(<<64, 64, 32, 16>>, Uncapped, TRUE)
  <2>1. Profile(1) = PROFILES[2]
    BY DEF Profile
  <2> QED BY <2>1 DEF PROFILES
<1>3. Profile(2) = ProfileOf(<<80, 48, 36, 18>>, Uncapped, TRUE)
  <2>1. Profile(2) = PROFILES[3]
    BY DEF Profile
  <2> QED BY <2>1 DEF PROFILES
<1>4. Profile(3) = ProfileOf(EXACT_COEFFICIENTS, 15, TRUE)
  <2>1. Profile(3) = PROFILES[4]
    BY DEF Profile
  <2> QED BY <2>1 DEF PROFILES
<1>5. Profile(4) = ProfileOf(<<76, 51, 36, 0>>, Uncapped, FALSE)
  <2>1. Profile(4) = PROFILES[5]
    BY DEF Profile
  <2> QED BY <2>1 DEF PROFILES
<1>6. Profile(5) = ProfileOf(QuantizeMagnitudes(4), Uncapped, TRUE)
  <2>1. Profile(5) = PROFILES[6]
    BY DEF Profile
  <2> QED BY <2>1 DEF PROFILES
<1>7. Profile(6) = ProfileOf(QuantizeMagnitudes(3), Uncapped, TRUE)
  <2>1. Profile(6) = PROFILES[7]
    BY DEF Profile
  <2> QED BY <2>1 DEF PROFILES
<1>8. Profile(7) = ProfileOf(QuantizeMagnitudes(2), Uncapped, TRUE)
  <2>1. Profile(7) = PROFILES[8]
    BY DEF Profile
  <2> QED BY <2>1 DEF PROFILES
<1> QED BY <1>1, <1>2, <1>3, <1>4, <1>5, <1>6, <1>7, <1>8

(* The coefficients of every profile, those of P5..P7 as quantized.          *)
LEMMA ProfileFields ==
    /\ /\ Profile(0).wl = 76 /\ Profile(0).wa = 51 /\ Profile(0).wq = 36 /\ Profile(0).wu = 18
       /\ Profile(0).q_cap = 256 /\ Profile(0).use_u = TRUE
    /\ /\ Profile(1).wl = 64 /\ Profile(1).wa = 64 /\ Profile(1).wq = 32 /\ Profile(1).wu = 16
       /\ Profile(1).q_cap = 256 /\ Profile(1).use_u = TRUE
    /\ /\ Profile(2).wl = 80 /\ Profile(2).wa = 48 /\ Profile(2).wq = 36 /\ Profile(2).wu = 18
       /\ Profile(2).q_cap = 256 /\ Profile(2).use_u = TRUE
    /\ /\ Profile(3).wl = 76 /\ Profile(3).wa = 51 /\ Profile(3).wq = 36 /\ Profile(3).wu = 18
       /\ Profile(3).q_cap = 15 /\ Profile(3).use_u = TRUE
    /\ /\ Profile(4).wl = 76 /\ Profile(4).wa = 51 /\ Profile(4).wq = 36 /\ Profile(4).wu = 0
       /\ Profile(4).q_cap = 256 /\ Profile(4).use_u = FALSE
    /\ /\ Profile(5).wl = 15 /\ Profile(5).wa = 10 /\ Profile(5).wq = 7 /\ Profile(5).wu = 4
       /\ Profile(5).q_cap = 256 /\ Profile(5).use_u = TRUE
    /\ /\ Profile(6).wl = 7 /\ Profile(6).wa = 5 /\ Profile(6).wq = 3 /\ Profile(6).wu = 2
       /\ Profile(6).q_cap = 256 /\ Profile(6).use_u = TRUE
    /\ /\ Profile(7).wl = 3 /\ Profile(7).wa = 2 /\ Profile(7).wq = 1 /\ Profile(7).wu = 1
       /\ Profile(7).q_cap = 256 /\ Profile(7).use_u = TRUE
<1>1. /\ Profile(0).wl = 76 /\ Profile(0).wa = 51 /\ Profile(0).wq = 36 /\ Profile(0).wu = 18
       /\ Profile(0).q_cap = 256 /\ Profile(0).use_u = TRUE
  BY ProfileRows, QuantizedCoefficients DEF ProfileOf, Uncapped, EXACT_COEFFICIENTS
<1>2. /\ Profile(1).wl = 64 /\ Profile(1).wa = 64 /\ Profile(1).wq = 32 /\ Profile(1).wu = 16
       /\ Profile(1).q_cap = 256 /\ Profile(1).use_u = TRUE
  BY ProfileRows, QuantizedCoefficients DEF ProfileOf, Uncapped, EXACT_COEFFICIENTS
<1>3. /\ Profile(2).wl = 80 /\ Profile(2).wa = 48 /\ Profile(2).wq = 36 /\ Profile(2).wu = 18
       /\ Profile(2).q_cap = 256 /\ Profile(2).use_u = TRUE
  BY ProfileRows, QuantizedCoefficients DEF ProfileOf, Uncapped, EXACT_COEFFICIENTS
<1>4. /\ Profile(3).wl = 76 /\ Profile(3).wa = 51 /\ Profile(3).wq = 36 /\ Profile(3).wu = 18
       /\ Profile(3).q_cap = 15 /\ Profile(3).use_u = TRUE
  BY ProfileRows, QuantizedCoefficients DEF ProfileOf, Uncapped, EXACT_COEFFICIENTS
<1>5. /\ Profile(4).wl = 76 /\ Profile(4).wa = 51 /\ Profile(4).wq = 36 /\ Profile(4).wu = 0
       /\ Profile(4).q_cap = 256 /\ Profile(4).use_u = FALSE
  BY ProfileRows, QuantizedCoefficients DEF ProfileOf, Uncapped, EXACT_COEFFICIENTS
<1>6. /\ Profile(5).wl = 15 /\ Profile(5).wa = 10 /\ Profile(5).wq = 7 /\ Profile(5).wu = 4
       /\ Profile(5).q_cap = 256 /\ Profile(5).use_u = TRUE
  BY ProfileRows, QuantizedCoefficients DEF ProfileOf, Uncapped, EXACT_COEFFICIENTS
<1>7. /\ Profile(6).wl = 7 /\ Profile(6).wa = 5 /\ Profile(6).wq = 3 /\ Profile(6).wu = 2
       /\ Profile(6).q_cap = 256 /\ Profile(6).use_u = TRUE
  BY ProfileRows, QuantizedCoefficients DEF ProfileOf, Uncapped, EXACT_COEFFICIENTS
<1>8. /\ Profile(7).wl = 3 /\ Profile(7).wa = 2 /\ Profile(7).wq = 1 /\ Profile(7).wu = 1
       /\ Profile(7).q_cap = 256 /\ Profile(7).use_u = TRUE
  BY ProfileRows, QuantizedCoefficients DEF ProfileOf, Uncapped, EXACT_COEFFICIENTS
<1> QED BY <1>1, <1>2, <1>3, <1>4, <1>5, <1>6, <1>7, <1>8

(* score.sv computes score_profile for every profile and every feature      *)
(* vector within the bounds of the specification: the shift-add forms have  *)
(* the right coefficients and the narrow accumulators never wrap.           *)
THEOREM ScoreSumExact ==
    ASSUME NEW a \in 0 .. 200, NEW q \in 0 .. 200, NEW u \in 0 .. 180, NEW l \in 0 .. 4,
           NEW p \in 0 .. 7
    PROVE  ScoreSum(p, a, HolesUsed(p, q), BumpinessUsed(p, u), l) = ScoreProfile(p, a, q, u, l)
<1>1. CASE p = 0
  <2>1. HolesUsed(0, q) = (q) /\ BumpinessUsed(0, u) = u
    BY ProfileFields DEF HolesUsed, BumpinessUsed
  <2>2. ScoreSum(0, a, HolesUsed(0, q), BumpinessUsed(0, u), l) = ExactSum(a, q, u, l)
    BY <2>1 DEF ScoreSum
  <2>3. ScoreProfile(0, a, q, u, l) = 76 * l - 51 * a - 36 * (q) - 18 * u
    BY <2>1, ProfileFields DEF ScoreProfile
  <2> QED BY <1>1, <2>2, <2>3 DEF ExactSum
<1>2. CASE p = 1
  <2>1. HolesUsed(1, q) = (q) /\ BumpinessUsed(1, u) = u
    BY ProfileFields DEF HolesUsed, BumpinessUsed
  <2>2. ScoreSum(1, a, HolesUsed(1, q), BumpinessUsed(1, u), l) = 64*l - 64*a - 32*q - 16*u
    BY <2>1 DEF ScoreSum
  <2>3. ScoreProfile(1, a, q, u, l) = 64 * l - 64 * a - 32 * (q) - 16 * u
    BY <2>1, ProfileFields DEF ScoreProfile
  <2> QED BY <1>2, <2>2, <2>3
<1>3. CASE p = 2
  <2>1. HolesUsed(2, q) = (q) /\ BumpinessUsed(2, u) = u
    BY ProfileFields DEF HolesUsed, BumpinessUsed
  <2>2. ScoreSum(2, a, HolesUsed(2, q), BumpinessUsed(2, u), l) = (64*l + 16*l) - (32*a + 16*a) - (32*q + 4*q) - (16*u + 2*u)
    BY <2>1 DEF ScoreSum
  <2>3. ScoreProfile(2, a, q, u, l) = 80 * l - 48 * a - 36 * (q) - 18 * u
    BY <2>1, ProfileFields DEF ScoreProfile
  <2> QED BY <1>3, <2>2, <2>3
<1>4. CASE p = 3
  <2>1. HolesUsed(3, q) = (IF q > 15 THEN 15 ELSE q) /\ BumpinessUsed(3, u) = u
    BY ProfileFields DEF HolesUsed, BumpinessUsed
  <2>2. ScoreSum(3, a, HolesUsed(3, q), BumpinessUsed(3, u), l) = ExactSum(a, IF q > 15 THEN 15 ELSE q, u, l)
    BY <2>1 DEF ScoreSum
  <2>3. ScoreProfile(3, a, q, u, l) = 76 * l - 51 * a - 36 * (IF q > 15 THEN 15 ELSE q) - 18 * u
    BY <2>1, ProfileFields DEF ScoreProfile
  <2> QED BY <1>4, <2>2, <2>3 DEF ExactSum
<1>5. CASE p = 4
  <2>1. HolesUsed(4, q) = (q) /\ BumpinessUsed(4, u) = 0
    BY ProfileFields DEF HolesUsed, BumpinessUsed
  <2>2. ScoreSum(4, a, HolesUsed(4, q), BumpinessUsed(4, u), l) = (64*l + 8*l + 4*l) - (32*a + 16*a + 2*a + a) - (32*q + 4*q)
    BY <2>1 DEF ScoreSum
  <2>3. ScoreProfile(4, a, q, u, l) = 76 * l - 51 * a - 36 * (q) - 0 * 0
    BY <2>1, ProfileFields DEF ScoreProfile
  <2> QED BY <1>5, <2>2, <2>3
<1>6. CASE p = 5
  <2>1. HolesUsed(5, q) = (q) /\ BumpinessUsed(5, u) = u
    BY ProfileFields DEF HolesUsed, BumpinessUsed
  <2>2. ScoreSum(5, a, HolesUsed(5, q), BumpinessUsed(5, u), l) = Wrap((16*l - l) - (8*a + 2*a) - (8*q - q) - 4*u, 16384)
    BY <2>1 DEF ScoreSum
  <2>3. ScoreProfile(5, a, q, u, l) = 15 * l - 10 * a - 7 * (q) - 4 * u
    BY <2>1, ProfileFields DEF ScoreProfile
  <2>4. (16*l - l) - (8*a + 2*a) - (8*q - q) - 4*u = 15 * l - 10 * a - 7 * q - 4 * u
    OBVIOUS
  <2>5. Wrap(15 * l - 10 * a - 7 * q - 4 * u, 16384) = 15 * l - 10 * a - 7 * q - 4 * u
    BY WrapExact
  <2> QED BY <1>6, <2>2, <2>3, <2>4, <2>5
<1>7. CASE p = 6
  <2>1. HolesUsed(6, q) = (q) /\ BumpinessUsed(6, u) = u
    BY ProfileFields DEF HolesUsed, BumpinessUsed
  <2>2. ScoreSum(6, a, HolesUsed(6, q), BumpinessUsed(6, u), l) = Wrap((8*l - l) - (4*a + a) - (2*q + q) - 2*u, 4096)
    BY <2>1 DEF ScoreSum
  <2>3. ScoreProfile(6, a, q, u, l) = 7 * l - 5 * a - 3 * (q) - 2 * u
    BY <2>1, ProfileFields DEF ScoreProfile
  <2>4. (8*l - l) - (4*a + a) - (2*q + q) - 2*u = 7 * l - 5 * a - 3 * q - 2 * u
    OBVIOUS
  <2>5. Wrap(7 * l - 5 * a - 3 * q - 2 * u, 4096) = 7 * l - 5 * a - 3 * q - 2 * u
    BY WrapExact
  <2> QED BY <1>7, <2>2, <2>3, <2>4, <2>5
<1>8. CASE p = 7
  <2>1. HolesUsed(7, q) = (q) /\ BumpinessUsed(7, u) = u
    BY ProfileFields DEF HolesUsed, BumpinessUsed
  <2>2. ScoreSum(7, a, HolesUsed(7, q), BumpinessUsed(7, u), l) = Wrap((2*l + l) - 2*a - q - u, 2048)
    BY <2>1 DEF ScoreSum
  <2>3. ScoreProfile(7, a, q, u, l) = 3 * l - 2 * a - 1 * (q) - 1 * u
    BY <2>1, ProfileFields DEF ScoreProfile
  <2>4. (2*l + l) - 2*a - q - u = 3 * l - 2 * a - 1 * q - 1 * u
    OBVIOUS
  <2>5. Wrap(3 * l - 2 * a - 1 * q - 1 * u, 2048) = 3 * l - 2 * a - 1 * q - 1 * u
    BY WrapExact
  <2> QED BY <1>8, <2>2, <2>3, <2>4, <2>5
<1> QED BY <1>1, <1>2, <1>3, <1>4, <1>5, <1>6, <1>7, <1>8

-----------------------------------------------------------------------------
(* The values of the fields, and what a quantized profile makes of them.    *)
LEMMA FeatureValues ==
    ASSUME NEW c \in Features
    PROVE  c.lines \in 0 .. 4 /\ c.a \in 0 .. 200 /\ c.q \in 0 .. 200 /\ c.u \in 0 .. 180
BY DEF Features, FEATURE_BOUNDS

LEMMA QuantizedScores ==
    ASSUME NEW c \in Features
    PROVE  /\ ScoreOf(0, c) = 76 * c.lines - 51 * c.a - 36 * c.q - 18 * c.u
           /\ ScoreOf(5, c) = 15 * c.lines - 10 * c.a - 7 * c.q - 4 * c.u
           /\ ScoreOf(6, c) = 7 * c.lines - 5 * c.a - 3 * c.q - 2 * c.u
           /\ ScoreOf(7, c) = 3 * c.lines - 2 * c.a - 1 * c.q - 1 * c.u
<1>1. c.lines \in 0 .. 4 /\ c.a \in 0 .. 200 /\ c.q \in 0 .. 200 /\ c.u \in 0 .. 180
  BY FeatureValues
<1>2. \A p \in {0, 5, 6, 7} : HolesUsed(p, c.q) = c.q /\ BumpinessUsed(p, c.u) = c.u
  BY <1>1, ProfileFields DEF HolesUsed, BumpinessUsed
<1> QED
  BY <1>2, ProfileFields DEF ScoreOf, ScoreProfile

LEMMA Perturbations ==
    /\ Perturbation(5) = [lines |-> 0, a |-> -5, q |-> -8, u |-> 34]
    /\ Perturbation(6) = [lines |-> 0, a |-> 23, q |-> -24, u |-> 26]
    /\ Perturbation(7) = [lines |-> 0, a |-> -1, q |-> -32, u |-> 22]
    /\ LevelsOf(5) = 15 /\ LevelsOf(6) = 7 /\ LevelsOf(7) = 3
<1>1. LevelsOf(5) = 15 /\ LevelsOf(6) = 7 /\ LevelsOf(7) = 3
  BY DEF LevelsOf, Levels
<1>2. /\ EXACT_COEFFICIENTS[1] = 76 /\ EXACT_COEFFICIENTS[2] = 51
      /\ EXACT_COEFFICIENTS[3] = 36 /\ EXACT_COEFFICIENTS[4] = 18
  BY DEF EXACT_COEFFICIENTS
<1> QED
  BY <1>1, <1>2, ProfileFields DEF Perturbation

(* The scaled score of a quantized profile is off by at most E(c).          *)
LEMMA ErrorBounded ==
    ASSUME NEW p \in QUANTIZED, NEW c \in Features
    PROVE  /\ ScoreOf(p, c) \in Int /\ ScoreOf(0, c) \in Int
           /\ ErrorBound(p, c) \in Int /\ LevelsOf(p) \in Int
           /\ 76 * ScoreOf(p, c) - LevelsOf(p) * ScoreOf(0, c) <= ErrorBound(p, c)
           /\ LevelsOf(p) * ScoreOf(0, c) - 76 * ScoreOf(p, c) <= ErrorBound(p, c)
<1>1. c.lines \in 0 .. 4 /\ c.a \in 0 .. 200 /\ c.q \in 0 .. 200 /\ c.u \in 0 .. 180
  BY FeatureValues
<1>2. PICK l \in 0 .. 4 : c.lines = l
  BY <1>1
<1>3. PICK a \in 0 .. 200 : c.a = a
  BY <1>1
<1>4. PICK q \in 0 .. 200 : c.q = q
  BY <1>1
<1>5. PICK u \in 0 .. 180 : c.u = u
  BY <1>1
<1>6. c.lines = l /\ c.a = a /\ c.q = q /\ c.u = u
  BY <1>2, <1>3, <1>4, <1>5
<1>7. ScoreOf(0, c) = 76 * l - 51 * a - 36 * q - 18 * u
  BY <1>6, QuantizedScores
<1>8. CASE p = 5
  <2>1. ErrorBound(p, c) = 5 * a + 8 * q + 34 * u
    BY <1>6, <1>8, Perturbations DEF ErrorBound, Abs
  <2>2. ScoreOf(p, c) = 15 * l - 10 * a - 7 * q - 4 * u /\ LevelsOf(p) = 15
    BY <1>6, <1>8, QuantizedScores, Perturbations
  <2> QED BY <1>7, <2>1, <2>2
<1>9. CASE p = 6
  <2>1. ErrorBound(p, c) = 23 * a + 24 * q + 26 * u
    BY <1>6, <1>9, Perturbations DEF ErrorBound, Abs
  <2>2. ScoreOf(p, c) = 7 * l - 5 * a - 3 * q - 2 * u /\ LevelsOf(p) = 7
    BY <1>6, <1>9, QuantizedScores, Perturbations
  <2> QED BY <1>7, <2>1, <2>2
<1>10. CASE p = 7
  <2>1. ErrorBound(p, c) = 1 * a + 32 * q + 22 * u
    BY <1>6, <1>10, Perturbations DEF ErrorBound, Abs
  <2>2. ScoreOf(p, c) = 3 * l - 2 * a - 1 * q - 1 * u /\ LevelsOf(p) = 3
    BY <1>6, <1>10, QuantizedScores, Perturbations
  <2> QED BY <1>7, <2>1, <2>2
<1> QED
  BY <1>8, <1>9, <1>10 DEF QUANTIZED

(* Every score of a quantized profile lies in the range score_bounds gives  *)
(* it, for all features a legal placement can have; WidthsAreFrozen (MCEval)*)
(* says which width holds that range.                                       *)
THEOREM ScoresInBounds ==
    ASSUME NEW p \in QUANTIZED, NEW c \in Features
    PROVE  ScoreBounds(p)[1] <= ScoreOf(p, c) /\ ScoreOf(p, c) <= ScoreBounds(p)[2]
<1>1. c.lines \in 0 .. 4 /\ c.a \in 0 .. 200 /\ c.q \in 0 .. 200 /\ c.u \in 0 .. 180
  BY FeatureValues
<1>2. PICK l \in 0 .. 4 : c.lines = l
  BY <1>1
<1>3. PICK a \in 0 .. 200 : c.a = a
  BY <1>1
<1>4. PICK q \in 0 .. 200 : c.q = q
  BY <1>1
<1>5. PICK u \in 0 .. 180 : c.u = u
  BY <1>1
<1>6. c.lines = l /\ c.a = a /\ c.q = q /\ c.u = u
  BY <1>2, <1>3, <1>4, <1>5
<1>7. HolesUsed(p, 200) = 200 /\ BumpinessUsed(p, 180) = 180
  BY ProfileFields DEF HolesUsed, BumpinessUsed, QUANTIZED
<1>8. ScoreBounds(p) = <<-(Profile(p).wa * 200 + Profile(p).wq * 200 + Profile(p).wu * 180), Profile(p).wl * 4>>
  BY <1>7 DEF ScoreBounds, FEATURE_BOUNDS
<1>9. CASE p = 5
  <2>1. ScoreOf(p, c) = 15 * l - 10 * a - 7 * q - 4 * u
    BY <1>6, <1>9, QuantizedScores
  <2>2. ScoreBounds(p)[1] = -4120 /\ ScoreBounds(p)[2] = 60
    BY <1>8, <1>9, ProfileFields
  <2> QED BY <2>1, <2>2
<1>10. CASE p = 6
  <2>1. ScoreOf(p, c) = 7 * l - 5 * a - 3 * q - 2 * u
    BY <1>6, <1>10, QuantizedScores
  <2>2. ScoreBounds(p)[1] = -1960 /\ ScoreBounds(p)[2] = 28
    BY <1>8, <1>10, ProfileFields
  <2> QED BY <2>1, <2>2
<1>11. CASE p = 7
  <2>1. ScoreOf(p, c) = 3 * l - 2 * a - 1 * q - 1 * u
    BY <1>6, <1>11, QuantizedScores
  <2>2. ScoreBounds(p)[1] = -780 /\ ScoreBounds(p)[2] = 12
    BY <1>8, <1>11, ProfileFields
  <2> QED BY <2>1, <2>2
<1> QED
  BY <1>9, <1>10, <1>11 DEF QUANTIZED

(* A certificate is sound for every table of candidates: the quantized      *)
(* score of every other candidate is strictly below that of the certified   *)
(* one, so that the quantized profile chooses it and there is no tie.  The  *)
(* assertions of analyze_state (sensitivity.py) and of analyze_corpus       *)
(* (analyze_precision_v2.py) never fire.                                    *)
THEOREM CertificateSound ==
    ASSUME NEW p \in QUANTIZED, NEW table \in SUBSET Features, NEW g \in table,
           Certified(p, table, g)
    PROVE  /\ \A c \in table \ {g} : ScoreOf(p, c) < ScoreOf(p, g)
           /\ Top(p, table) = {g}
           /\ \A h : IsWinner(p, table, h) <=> h = g
<1>1. ASSUME NEW c \in table \ {g}
      PROVE  ScoreOf(p, c) < ScoreOf(p, g)
  <2>1. c \in Features /\ g \in Features
    OBVIOUS
  <2>2. LevelsOf(p) * (ScoreOf(0, g) - ScoreOf(0, c)) - (ErrorBound(p, g) + ErrorBound(p, c)) > 0
    BY DEF Certified, Margin
  <2>3. LevelsOf(p) \in {15, 7, 3}
    BY Perturbations DEF QUANTIZED
  <2> QED BY <2>1, <2>2, <2>3, ErrorBounded
<1>2. \A c \in table : ScoreOf(p, c) \in Int
  BY ErrorBounded
<1>3. Top(p, table) = {g}
  <2>1. g \in Top(p, table)
    BY <1>1, <1>2 DEF Top
  <2>2. \A c \in table \ {g} : c \notin Top(p, table)
    BY <1>1, <1>2 DEF Top
  <2> QED BY <2>1, <2>2 DEF Top
<1>4. IsWinner(p, table, g)
  BY <1>1, <1>2 DEF IsWinner, Beats
<1>5. ASSUME NEW h, IsWinner(p, table, h)
      PROVE  h = g
  <2>1. h \in table /\ (h # g => Beats(p, h, g))
    BY <1>5 DEF IsWinner
  <2> QED BY <2>1, <1>1, <1>2 DEF Beats
<1> QED BY <1>1, <1>3, <1>4, <1>5

-----------------------------------------------------------------------------
(* The landing row: the recursion of the descent, the serial unit and the   *)
(* fast unit find the same one on every board.                              *)
LEMMA LeastNatural ==
    ASSUME NEW T \in SUBSET Nat, T # {}
    PROVE  \E m \in T : \A k \in T : m <= k
  <1>1. PICK m \in T : \A k \in T : ~(<<k, m>> \in OpToRel(<, Nat))
    BY NatLessThanWellFounded, WFMin, Zenon
  <1>2. \A k \in T : ~(k < m)
    BY <1>1 DEF OpToRel
  <1> QED
    BY <1>2

LEMMA MaxOf ==
    ASSUME NEW S \in SUBSET Int, NEW b \in Int, S # {}, \A y \in S : y <= b
    PROVE  Max(S) \in S /\ \A y \in S : y <= Max(S)
  <1> DEFINE T == {b - y : y \in S}
  <1>1. T \in SUBSET Nat /\ T # {}
    <2>1. \A y \in S : b - y \in Nat
      OBVIOUS
    <2> QED
      BY <2>1
  <1>2. PICK m \in T : \A k \in T : m <= k
    BY <1>1, LeastNatural
  <1>3. PICK t \in S : m = b - t
    BY <1>2
  <1>4. \A y \in S : t >= y
    <2>1. SUFFICES ASSUME NEW y \in S PROVE t >= y
      OBVIOUS
    <2>2. b - y \in T
      OBVIOUS
    <2>3. b - t <= b - y
      BY <1>2, <1>3, <2>2
    <2> QED
      BY <2>3
  <1>5. Max(S) \in S /\ \A y \in S : Max(S) >= y
    BY <1>4, Zenon DEF Max
  <1> QED
    BY <1>5

LEMMA MinOf ==
    ASSUME NEW S \in SUBSET Nat, S # {}
    PROVE  Min(S) \in S /\ \A y \in S : Min(S) <= y
  BY LeastNatural DEF Min

LEMMA SizeFacts == W \in Nat /\ H \in Nat /\ W > 0 /\ H > 0
  BY RulesAssumption

(* Where the descent of the rules stops: at the floor or on a collision,    *)
(* with nothing in the way above it.                                        *)
Stops(rows, cells, x, L) ==
    /\ L \in 0 .. H
    /\ L = 0 \/ ~Fits(rows, cells, x, L - 1)
    /\ \A y \in L+1 .. H : Fits(rows, cells, x, y - 1)

LEMMA LandingStops ==
    ASSUME NEW rows, NEW cells, NEW x
    PROVE  Stops(rows, cells, x, PhysicalLanding(rows, cells, x))
  <1> DEFINE Fit(y) == Fits(rows, cells, x, y - 1)
             Body(f, y) == IF y > 0 /\ Fit(y) THEN f[y-1] ELSE y
             Stop == CHOOSE f : f = [y \in 0 .. H |-> Body(f, y)]
             Held(y) == {k \in 0 .. y : k = 0 \/ ~Fit(k)}
             Closed == [y \in 0 .. H |-> Max(Held(y))]
  <1>1. PhysicalLanding(rows, cells, x) = Stop[H]
    BY DEF PhysicalLanding
  <1> HIDE DEF Fit
  <1>2. ASSUME NEW y \in Nat
        PROVE  /\ Max(Held(y)) \in Held(y)
               /\ \A k \in Held(y) : k <= Max(Held(y))
    <2>1. Held(y) \in SUBSET Int /\ 0 \in Held(y) /\ \A k \in Held(y) : k <= y
      OBVIOUS
    <2> DEFINE S == Held(y)
    <2>2. S \in SUBSET Int /\ S # {} /\ \A k \in S : k <= y
      BY <2>1
    <2> HIDE DEF S
    <2>3. Max(S) \in S /\ \A k \in S : k <= Max(S)
      BY <2>2, MaxOf
    <2> QED
      BY <2>3 DEF S
  <1>3. ASSUME NEW f, NEW y \in 0 .. H, y > 0 => f[y-1] = Max(Held(y-1))
        PROVE  Body(f, y) = Max(Held(y))
    <2>1. CASE y > 0 /\ Fit(y)
      <3>1. y-1 \in Nat /\ Held(y) = Held(y-1)
        BY <2>1
      <3> QED
        BY <2>1, <3>1, <1>3
    <2>2. CASE ~(y > 0 /\ Fit(y))
      <3>1. y \in Held(y) /\ y \in Nat /\ \A k \in Held(y) : k \in Int /\ k <= y
        BY <2>2
      <3>2. Max(Held(y)) = y
        <4> HIDE DEF Held
        <4> QED
          BY <3>1, <1>2
      <3> QED
        BY <2>2, <3>2
    <2> QED
      BY <2>1, <2>2
  <1> HIDE DEF Body, Held
  <1>4. Closed = [y \in 0 .. H |-> Body(Closed, y)]
    <2>1. \A y \in 0 .. H : y > 0 => Closed[y-1] = Max(Held(y-1))
      BY SizeFacts
    <2> QED
      BY <2>1, <1>3
  <1>5. Stop = [y \in 0 .. H |-> Body(Stop, y)]
    BY <1>4, Zenon
  <1>6. \A y \in 0 .. H : Stop[y] = Max(Held(y))
    <2> DEFINE T == {y \in 0 .. H : Stop[y] # Max(Held(y))}
    <2> HIDE DEF Stop
    <2>1. SUFFICES ASSUME T # {} PROVE FALSE
      OBVIOUS
    <2>2. T \in SUBSET Nat
      OBVIOUS
    <2>3. PICK m \in T : \A k \in T : m <= k
      BY <2>1, <2>2, LeastNatural
    <2>4. m \in 0 .. H /\ (m > 0 => m-1 \in 0 .. H /\ Stop[m-1] = Max(Held(m-1)))
      <3>1. m \in 0 .. H
        OBVIOUS
      <3>2. ASSUME m > 0 PROVE m-1 \in 0 .. H /\ ~(m <= m-1)
        BY <3>1, <3>2, SizeFacts
      <3> QED
        BY <3>1, <3>2, <2>3
    <2>5. Body(Stop, m) = Max(Held(m))
      BY <1>3, <2>4
    <2>6. Stop[m] = Body(Stop, m)
      BY <1>5
    <2> QED
      BY <2>5, <2>6
  <1>7. Stop[H] = Max(Held(H))
    BY <1>6, SizeFacts
  <1>8. Max(Held(H)) \in Held(H) /\ \A k \in Held(H) : k <= Max(Held(H))
    BY <1>2, SizeFacts
  <1>9. ASSUME NEW y \in Max(Held(H)) + 1 .. H
        PROVE  Fit(y)
    <2>1. Max(Held(H)) \in 0 .. H
      BY <1>8 DEF Held
    <2>2. y \in 0 .. H /\ ~(y <= Max(Held(H))) /\ y # 0
      BY <2>1, SizeFacts
    <2>3. y \notin Held(H)
      BY <2>2, <1>8
    <2> QED
      BY <2>2, <2>3 DEF Held
  <1>10. Max(Held(H)) \in 0 .. H /\ (Max(Held(H)) = 0 \/ ~Fit(Max(Held(H))))
    BY <1>8 DEF Held
  <1> QED
    BY <1>1, <1>7, <1>9, <1>10 DEF Stops, Fit

LEMMA OneStop ==
    ASSUME NEW rows, NEW cells, NEW x, NEW L, NEW M,
           Stops(rows, cells, x, L), Stops(rows, cells, x, M)
    PROVE  L = M
  <1>1. ASSUME NEW a \in 0 .. H, NEW b \in 0 .. H, Stops(rows, cells, x, a), Stops(rows, cells, x, b)
        PROVE  ~(a < b)
    <2>1. SUFFICES ASSUME a < b PROVE FALSE
      OBVIOUS
    <2>2. b \in a+1 .. H /\ b # 0
      BY <2>1
    <2> QED
      BY <2>2, <1>1 DEF Stops
  <1>2. L \in 0 .. H /\ M \in 0 .. H
    BY DEF Stops
  <1>3. ~(L < M) /\ ~(M < L)
    BY <1>1, <1>2
  <1> QED
    BY <1>2, <1>3

-----------------------------------------------------------------------------
(* What shape_rom gives has at most four columns and rows.                  *)
ShapeSet == [valid : BOOLEAN, cells : (SUBSET ((0 .. 3) \X (0 .. 3))) \ {{}}]

LEMMA ShapeFacts ==
    ASSUME NEW s \in ShapeSet
    PROVE  /\ \A c \in s.cells : /\ c[1] \in 0 .. 3 /\ c[2] \in 0 .. 3 /\ c = <<c[1], c[2]>>
                                 /\ c[1] < Width(s.cells)
           /\ Width(s.cells) \in 1 .. 4 /\ Height(s.cells) \in 1 .. 4
           /\ \A k \in Columns(s.cells) :
                  /\ k \in 0 .. 3 /\ Bottom(s.cells, k) \in 0 .. 3
                  /\ <<k, Bottom(s.cells, k)>> \in s.cells
                  /\ \A c \in s.cells : c[1] = k => Bottom(s.cells, k) <= c[2]
           /\ \A c \in s.cells : c[1] \in Columns(s.cells)
  <1> DEFINE S == s.cells
             X == {c[1] : c \in S}
             Y == {c[2] : c \in S}
  <1>1. S \in SUBSET ((0 .. 3) \X (0 .. 3)) /\ S # {}
    BY DEF ShapeSet
  <1>2. \A c \in S : c[1] \in 0 .. 3 /\ c[2] \in 0 .. 3 /\ c = <<c[1], c[2]>>
    BY <1>1
  <1> HIDE DEF S
  <1>3. /\ X \in SUBSET Int /\ X # {} /\ (\A i \in X : i <= 3) /\ (\A i \in X : i \in 0 .. 3)
        /\ Y \in SUBSET Int /\ Y # {} /\ (\A i \in Y : i <= 3) /\ (\A i \in Y : i \in 0 .. 3)
    BY <1>1, <1>2
  <1>4. Max(X) \in X /\ \A i \in X : i <= Max(X)
    <2> HIDE DEF X
    <2> QED
      BY <1>3, MaxOf
  <1>5. Max(Y) \in Y
    <2> HIDE DEF Y
    <2> QED
      BY <1>3, MaxOf
  <1>6. Width(S) = Max(X) + 1 /\ Height(S) = Max(Y) + 1
    BY DEF Width, Height
  <1>7. \A c \in S : c[1] <= Max(X)
    BY <1>4
  <1>8. Max(X) \in 0 .. 3 /\ Max(Y) \in 0 .. 3
    BY <1>3, <1>4, <1>5
  <1>9. /\ \A c \in S : c[1] < Width(S)
        /\ Width(S) \in 1 .. 4 /\ Height(S) \in 1 .. 4
    <2> HIDE DEF X, Y
    <2> QED
      BY <1>2, <1>6, <1>7, <1>8
  <1>10. ASSUME NEW k \in Columns(S)
         PROVE  /\ k \in 0 .. 3 /\ Bottom(S, k) \in 0 .. 3
                /\ <<k, Bottom(S, k)>> \in S
                /\ \A c \in S : c[1] = k => Bottom(S, k) <= c[2]
    <2> DEFINE B == {c[2] : c \in {d \in S : d[1] = k}}
    <2>1. PICK a \in S : a[1] = k
      BY DEF Columns
    <2>2. B \in SUBSET Nat /\ a[2] \in B
      BY <1>2, <2>1
    <2>3. Min(B) \in B /\ \A y \in B : Min(B) <= y
      <3> HIDE DEF B
      <3> QED
        BY <2>2, MinOf
    <2>4. PICK e \in S : e[1] = k /\ e[2] = Min(B)
      BY <2>3
    <2>5. Bottom(S, k) = Min(B)
      BY DEF Bottom, ColBits
    <2>6. \A c \in S : c[1] = k => c[2] \in B
      OBVIOUS
    <2>7. <<k, Min(B)>> \in S /\ k \in 0 .. 3 /\ Min(B) \in 0 .. 3
      <3> HIDE DEF B
      <3> QED
        BY <2>4, <1>2
    <2> HIDE DEF B
    <2> QED
      BY <2>3, <2>5, <2>6, <2>7
  <1>11. \A c \in S : c[1] \in Columns(S)
    BY DEF Columns
  <1> QED
    BY <1>2, <1>9, <1>10, <1>11 DEF S

LEMMA ColumnTop ==
    ASSUME NEW rows \in Board, NEW c \in Column
    PROVE  /\ ColumnHeight(rows, c) \in 0 .. H
           /\ \A y \in Row : c \in rows[y] => y < ColumnHeight(rows, c)
           /\ ColumnHeight(rows, c) > 0 =>
                  ColumnHeight(rows, c) - 1 \in Row /\ c \in rows[ColumnHeight(rows, c) - 1]
  <1> DEFINE S == {0} \cup {y + 1 : y \in {r \in Row : c \in rows[r]}}
  <1>1. S \in SUBSET Int /\ S # {} /\ \A y \in S : y <= H
    BY SizeFacts DEF Row
  <1>2. Max(S) \in S /\ \A y \in S : y <= Max(S)
    <2> HIDE DEF S
    <2> QED
      BY <1>1, SizeFacts, MaxOf
  <1>3. ColumnHeight(rows, c) = Max(S)
    BY DEF ColumnHeight
  <1>4. \A y \in Row : c \in rows[y] => y + 1 <= Max(S)
    BY <1>2
  <1>5. Max(S) = 0 \/ \E y \in Row : c \in rows[y] /\ Max(S) = y + 1
    BY <1>2
  <1> HIDE DEF S
  <1>6. Max(S) \in 0 .. H /\ (Max(S) > 0 => Max(S) - 1 \in Row /\ c \in rows[Max(S) - 1])
    BY <1>5, SizeFacts DEF Row
  <1> QED
    BY <1>3, <1>4, <1>6 DEF Row

(* A column's difference is a row where one of its cells hits; at the       *)
(* greatest of them or above it, nothing does (rtl/drop_fast.sv).           *)
THEOREM FastLanding ==
    ASSUME NEW rows \in Board, NEW s \in ShapeSet, NEW x \in Nat, GeometryOk(s, x)
    PROVE  LandingOf([k \in 0 .. 3 |-> Difference(ColumnHeights(rows), s, x, k)])
             = PhysicalLanding(rows, s.cells, x)
  <1> DEFINE d == [k \in 0 .. 3 |-> Difference(ColumnHeights(rows), s, x, k)]
             P == {0} \cup {d[k] : k \in 0 .. 3}
             L == Max(P)
  <1>1. s.valid /\ x + Width(s.cells) <= W
    BY DEF GeometryOk
  <1>2. ASSUME NEW c \in s.cells
        PROVE  x + c[1] \in Column /\ x + c[1] \in Int /\ x + c[1] < W
    BY <1>1, ShapeFacts, SizeFacts DEF Column
  <1>3. ASSUME NEW k \in Columns(s.cells)
        PROVE  /\ k \in 0 .. 3 /\ x + k \in Column
               /\ d[k] = ColumnHeight(rows, x + k) - Bottom(s.cells, k)
    <2>1. k \in 0 .. 3 /\ x + k \in Column
      <3>1. PICK c \in s.cells : c[1] = k
        BY DEF Columns
      <3> QED
        BY <3>1, <1>2, ShapeFacts
    <2> QED
      BY <2>1, <1>1 DEF Difference, ColumnHeights
  <1>4. ASSUME NEW k \in 0 .. 3
        PROVE  d[k] \in Int /\ d[k] <= H
    <2>1. CASE k \in Columns(s.cells)
      <3>1. ColumnHeight(rows, x + k) \in 0 .. H /\ Bottom(s.cells, k) \in 0 .. 3
        BY <2>1, <1>3, ColumnTop, ShapeFacts
      <3> QED
        BY <2>1, <3>1, <1>3, SizeFacts
    <2>2. CASE k \notin Columns(s.cells)
      <3>1. d[k] = -1
        BY <2>2 DEF Difference
      <3> QED
        BY <3>1, SizeFacts
    <2> QED
      BY <2>1, <2>2
  <1>5. L \in P /\ \A i \in P : i <= L
    <2>1. P \in SUBSET Int /\ P # {} /\ \A i \in P : i <= H
      BY <1>4, SizeFacts
    <2> HIDE DEF P
    <2> QED
      BY <2>1, SizeFacts, MaxOf
  <1>6. L \in 0 .. H /\ \A k \in 0 .. 3 : d[k] <= L
    <2>1. 0 \in P /\ (\A k \in 0 .. 3 : d[k] \in P) /\ (L = 0 \/ \E k \in 0 .. 3 : L = d[k])
      BY <1>5
    <2>2. 0 <= L /\ \A k \in 0 .. 3 : d[k] <= L
      BY <1>5, <2>1
    <2> HIDE DEF P, d, L
    <2> QED
      BY <1>4, <2>1, <2>2, SizeFacts
  <1>7. ASSUME NEW y \in L+1 .. H
        PROVE  Fits(rows, s.cells, x, y - 1)
    <2>1. SUFFICES ASSUME NEW c \in s.cells
                   PROVE  /\ x + c[1] \in Column /\ (y - 1) + c[2] >= 0
                          /\ (y - 1) + c[2] < H => x + c[1] \notin rows[(y - 1) + c[2]]
      BY DEF Fits
    <2> DEFINE k == c[1]  b == Bottom(s.cells, k)  h == ColumnHeight(rows, x + k)
    <2>2. k \in Columns(s.cells) /\ b \in 0 .. 3 /\ b <= c[2] /\ c[2] \in 0 .. 3
      BY ShapeFacts
    <2>3. h \in 0 .. H /\ h - b <= L /\ x + k \in Column
      BY <2>2, <1>3, <1>6, ColumnTop
    <2>4. /\ (y - 1) + c[2] >= h /\ (y - 1) + c[2] >= 0
          /\ (y - 1) + c[2] < H => (y - 1) + c[2] \in Row
      <3> HIDE DEF h, b, k, L
      <3> QED
        BY <2>2, <2>3, <1>6, SizeFacts DEF Row
    <2>5. \A r \in Row : x + k \in rows[r] => r < h
      BY <2>3, ColumnTop
    <2>6. (y - 1) + c[2] < H => ~((y - 1) + c[2] < h)
      <3> HIDE DEF h, b, k, L
      <3> QED
        BY <2>2, <2>3, <2>4, <1>6, SizeFacts
    <2> QED
      BY <2>3, <2>4, <2>5, <2>6
  <1>8. L = 0 \/ ~Fits(rows, s.cells, x, L - 1)
    <2>1. SUFFICES ASSUME L > 0, Fits(rows, s.cells, x, L - 1) PROVE FALSE
      BY <1>6
    <2>2. PICK k \in 0 .. 3 : L = d[k]
      BY <2>1, <1>5
    <2>3. k \in Columns(s.cells)
      BY <2>1, <2>2 DEF Difference
    <2> DEFINE b == Bottom(s.cells, k)  h == ColumnHeight(rows, x + k)
    <2>4. b \in 0 .. 3 /\ <<k, b>> \in s.cells /\ L = h - b /\ x + k \in Column
      BY <2>2, <2>3, <1>3, ShapeFacts
    <2>5. h \in 0 .. H /\ (h > 0 => h - 1 \in Row /\ x + k \in rows[h - 1])
      BY <2>4, ColumnTop
    <2>6. (L - 1) + b < H => x + k \notin rows[(L - 1) + b]
      BY <2>1, <2>4 DEF Fits
    <2>7. h > 0 /\ (L - 1) + b = h - 1 /\ h - 1 < H
      <3>1. L \in 0 .. H /\ L > 0 /\ b \in 0 .. 3 /\ L = h - b /\ h \in 0 .. H
        BY <2>1, <2>4, <2>5, <1>6
      <3> HIDE DEF L, b, h
      <3> QED
        BY <3>1, SizeFacts
    <2> QED
      BY <2>5, <2>6, <2>7
  <1>9. Stops(rows, s.cells, x, L)
    BY <1>6, <1>7, <1>8 DEF Stops
  <1>10. L = PhysicalLanding(rows, s.cells, x)
    <2> HIDE DEF L
    <2> QED
      BY <1>9, LandingStops, OneStop
  <1> QED
    BY <1>10 DEF LandingOf

(* The serial unit stops on the same row: as long as it is not below the    *)
(* landing row, it sees a collision exactly there (rtl/drop_unit.sv).       *)
THEOREM SerialLanding ==
    ASSUME NEW u, u.rows \in Board, u.shape \in ShapeSet, u.x \in Nat, GeometryOk(u.shape, u.x),
           u.y \in PhysicalLanding(u.rows, u.shape.cells, u.x) .. H
    PROVE  Landed(u) <=> u.y = PhysicalLanding(u.rows, u.shape.cells, u.x)
  <1> DEFINE L == PhysicalLanding(u.rows, u.shape.cells, u.x)
  <1>1. Stops(u.rows, u.shape.cells, u.x, L)
    BY LandingStops
  <1>2. ASSUME NEW c \in u.shape.cells
        PROVE  /\ u.x + c[1] \in Column /\ u.x + c[1] < W /\ u.x + c[1] \in Int
               /\ c[2] \in 0 .. 3
    BY ShapeFacts, SizeFacts DEF GeometryOk, Column
  <1>3. u.y \in 0 .. H
    BY <1>1, SizeFacts DEF Stops
  <1>4. (\E c \in u.shape.cells : Hit(u, c)) <=> ~Fits(u.rows, u.shape.cells, u.x, u.y - 1)
    <2>1. ASSUME NEW c \in u.shape.cells
          PROVE  Hit(u, c) <=> ~(/\ u.x + c[1] \in Column /\ (u.y - 1) + c[2] >= 0
                                 /\ (u.y - 1) + c[2] < H => u.x + c[1] \notin u.rows[(u.y - 1) + c[2]])
      BY <1>2, <1>3, SizeFacts DEF Hit
    <2> QED
      BY <2>1 DEF Fits
  <1>5. Landed(u) <=> u.y = 0 \/ ~Fits(u.rows, u.shape.cells, u.x, u.y - 1)
    BY <1>4 DEF Landed
  <1>6. CASE u.y = L
    BY <1>1, <1>5, <1>6 DEF Stops
  <1>7. CASE u.y # L
    <2>1. u.y \in L+1 .. H /\ u.y # 0
      <3> DEFINE y == u.y
      <3>1. L \in 0 .. H /\ y \in L .. H /\ y # L
        BY <1>1, <1>7 DEF Stops
      <3>2. y \in L+1 .. H /\ y # 0
        <4> HIDE DEF L, y
        <4> QED
          BY <3>1, SizeFacts
      <3> QED
        BY <3>2
    <2> QED
      BY <2>1, <1>1, <1>5, <1>7 DEF Stops
  <1> QED
    BY <1>6, <1>7

LEMMA HeightsTyped ==
    ASSUME NEW rows \in Board
    PROVE  ColumnHeights(rows) \in [Column -> 0 .. H] /\ ProfileHeights(rows) = ColumnHeights(rows)
  BY ColumnTop DEF ColumnHeights, ProfileHeights, ColumnHeight

-----------------------------------------------------------------------------
(* The result of a job.  Chosen the rows that stay: the recursion of the     *)
(* rules, its prefixes, and how many rows a placement can complete.         *)
LEMMA UpTo ==
    ASSUME NEW N \in Nat, NEW S \in SUBSET Nat, 0 \in S, \A n \in 0 .. N-1 : n \in S => n+1 \in S
    PROVE  \A n \in 0 .. N : n \in S
  <1> DEFINE T == {n \in 0 .. N : n \notin S}
  <1>1. SUFFICES ASSUME T # {} PROVE FALSE
    OBVIOUS
  <1>2. T \in SUBSET Nat
    OBVIOUS
  <1>3. PICK m \in T : \A k \in T : m <= k
    BY <1>1, <1>2, LeastNatural
  <1>4. m \in 0 .. N /\ m \notin S /\ m # 0
    OBVIOUS
  <1>5. m-1 \in 0 .. N-1 /\ m-1 \in 0 .. N /\ ~(m <= m-1)
    BY <1>4
  <1>6. m-1 \in S
    BY <1>3, <1>5
  <1>7. (m-1)+1 \in S
    BY <1>5, <1>6
  <1> QED
    BY <1>4, <1>7

Stays(rows, f, n) ==
    IF n = 0 THEN <<>>
    ELSE IF rows[n-1] = FULL_ROW THEN f[n-1] ELSE Append(f[n-1], rows[n-1])
KeptOf(rows) == CHOOSE f : f = [n \in 0 .. H |-> Stays(rows, f, n)]

LEMMA KeptRecursion ==
    ASSUME NEW rows
    PROVE  /\ Survivors(rows) = KeptOf(rows)[H]
           /\ KeptOf(rows) = [n \in 0 .. H |-> Stays(rows, KeptOf(rows), n)]
  <1>1. Survivors(rows) = KeptOf(rows)[H]
    BY DEF Survivors, KeptOf, Stays
  <1> DEFINE S == {n \in 0 .. H : \E f : f = [i \in 0 .. n |-> Stays(rows, f, i)]}
  <1>2. 0 \in S
    <2> DEFINE f == [i \in 0 .. 0 |-> <<>>]
    <2>1. f = [i \in 0 .. 0 |-> Stays(rows, f, i)]
      BY DEF Stays
    <2> QED
      BY <2>1, SizeFacts
  <1>3. ASSUME NEW n \in 0 .. H-1, n \in S
        PROVE  n+1 \in S
    <2>1. PICK f : f = [i \in 0 .. n |-> Stays(rows, f, i)]
      BY <1>3
    <2> DEFINE g == [i \in 0 .. n+1 |-> IF i <= n THEN f[i] ELSE Stays(rows, f, i)]
    <2>2. ASSUME NEW i \in 0 .. n+1
          PROVE  g[i] = Stays(rows, g, i)
      <3>1. i > 0 => i-1 \in 0 .. n /\ g[i-1] = f[i-1]
        OBVIOUS
      <3>2. Stays(rows, g, i) = Stays(rows, f, i)
        BY <3>1 DEF Stays
      <3>3. i <= n => i \in 0 .. n /\ f[i] = Stays(rows, f, i)
        BY <2>1
      <3> QED
        BY <3>2, <3>3
    <2>3. g = [i \in 0 .. n+1 |-> Stays(rows, g, i)]
      BY <2>2
    <2>4. n+1 \in 0 .. H
      BY SizeFacts
    <2> QED
      BY <2>3, <2>4
  <1>4. H \in S
    <2> HIDE DEF S
    <2>1. S \in SUBSET Nat
      BY DEF S
    <2> QED
      BY <1>2, <1>3, <2>1, UpTo, SizeFacts
  <1>5. PICK f : f = [n \in 0 .. H |-> Stays(rows, f, n)]
    BY <1>4
  <1>6. KeptOf(rows) = [n \in 0 .. H |-> Stays(rows, KeptOf(rows), n)]
    BY <1>5, Zenon DEF KeptOf
  <1> QED
    BY <1>1, <1>6

LEMMA KeptSteps ==
    ASSUME NEW rows
    PROVE  /\ KeptOf(rows)[0] = <<>>
           /\ \A n \in Row : KeptOf(rows)[n+1] = IF rows[n] = FULL_ROW THEN KeptOf(rows)[n]
                                                 ELSE Append(KeptOf(rows)[n], rows[n])
  <1>1. \A n \in 0 .. H : KeptOf(rows)[n] = Stays(rows, KeptOf(rows), n)
    <2> DEFINE K == KeptOf(rows)
    <2> HIDE DEF K
    <2>1. K = [n \in 0 .. H |-> Stays(rows, K, n)]
      BY KeptRecursion DEF K
    <2>2. \A n \in 0 .. H : K[n] = Stays(rows, K, n)
      BY <2>1
    <2> QED
      BY <2>2 DEF K
  <1>2. 0 \in 0 .. H /\ \A n \in Row : n+1 \in 0 .. H /\ n+1 # 0 /\ (n+1)-1 = n
    BY SizeFacts DEF Row
  <1> QED
    BY <1>1, <1>2 DEF Stays

(* No row is full, and none is made up.                                     *)
LEMMA KeptRows ==
    ASSUME NEW rows \in Board, NEW n \in 0 .. H
    PROVE  /\ KeptOf(rows)[n] \in Seq((SUBSET Column) \ {FULL_ROW})
           /\ Len(KeptOf(rows)[n]) \in 0 .. n
  <1> DEFINE K == KeptOf(rows)
             S == {i \in 0 .. H : K[i] \in Seq((SUBSET Column) \ {FULL_ROW}) /\ Len(K[i]) \in 0 .. i}
  <1>1. 0 \in S
    <2>1. K[0] = <<>> /\ 0 \in 0 .. H
      BY KeptSteps, SizeFacts
    <2> DEFINE R == (SUBSET Column) \ {FULL_ROW}
    <2> HIDE DEF K, R
    <2>2. K[0] \in Seq(R) /\ Len(K[0]) = 0
      BY <2>1
    <2>3. K[0] \in Seq((SUBSET Column) \ {FULL_ROW}) /\ Len(K[0]) \in 0 .. 0
      BY <2>2 DEF R
    <2> QED
      BY <2>1, <2>3
  <1>2. ASSUME NEW i \in 0 .. H-1, i \in S
        PROVE  i+1 \in S
    <2>1. i \in Row /\ i+1 \in 0 .. H /\ rows[i] \in SUBSET Column
      BY SizeFacts DEF Row, Board
    <2>2. K[i+1] = IF rows[i] = FULL_ROW THEN K[i] ELSE Append(K[i], rows[i])
      BY <2>1, KeptSteps
    <2>3. K[i] \in Seq((SUBSET Column) \ {FULL_ROW}) /\ Len(K[i]) \in 0 .. i
      BY <1>2
    <2> HIDE DEF K
    <2>4. CASE rows[i] = FULL_ROW
      BY <2>1, <2>2, <2>3, <2>4
    <2>5. CASE rows[i] # FULL_ROW
      <3> DEFINE R == (SUBSET Column) \ {FULL_ROW}
      <3>1. rows[i] \in R /\ K[i] \in Seq(R)
        BY <2>1, <2>3, <2>5
      <3> HIDE DEF R
      <3>2. Append(K[i], rows[i]) \in Seq(R) /\ Len(Append(K[i], rows[i])) = Len(K[i]) + 1
        BY <3>1
      <3>3. K[i+1] \in Seq(R) /\ Len(K[i+1]) \in 0 .. i+1
        BY <2>2, <2>3, <2>5, <3>2
      <3> QED
        BY <2>1, <3>3 DEF R
    <2> QED
      BY <2>4, <2>5
  <1>3. \A i \in 0 .. H : i \in S
    <2> HIDE DEF S
    <2>1. S \in SUBSET Nat
      BY DEF S
    <2> QED
      BY <1>1, <1>2, <2>1, UpTo, SizeFacts
  <1> QED
    BY <1>3

(* What is kept of the lower rows comes first.                              *)
LEMMA KeptPrefix ==
    ASSUME NEW rows \in Board, NEW i \in 0 .. H, NEW n \in i .. H
    PROVE  /\ Len(KeptOf(rows)[i]) <= Len(KeptOf(rows)[n])
           /\ \A j \in 1 .. Len(KeptOf(rows)[i]) : KeptOf(rows)[n][j] = KeptOf(rows)[i][j]
  <1> DEFINE K == KeptOf(rows)
             S == {m \in 0 .. H-i : /\ Len(K[i]) <= Len(K[i+m])
                                    /\ \A j \in 1 .. Len(K[i]) : K[i+m][j] = K[i][j]}
  <1>1. 0 \in S
    BY KeptRows, SizeFacts
  <1>2. ASSUME NEW m \in 0 .. (H-i)-1, m \in S
        PROVE  m+1 \in S
    <2>1. i+m \in Row /\ i+m \in 0 .. H /\ m+1 \in 0 .. H-i /\ i+(m+1) = (i+m)+1
      BY SizeFacts DEF Row
    <2>2. K[(i+m)+1] = IF rows[i+m] = FULL_ROW THEN K[i+m] ELSE Append(K[i+m], rows[i+m])
      BY <2>1, KeptSteps
    <2>3. K[i+m] \in Seq((SUBSET Column) \ {FULL_ROW}) /\ Len(K[i]) \in Nat
          /\ rows[i+m] \in SUBSET Column
      BY <2>1, KeptRows DEF Board
    <2>4. Len(K[i]) <= Len(K[i+m]) /\ \A j \in 1 .. Len(K[i]) : K[i+m][j] = K[i][j]
      BY <1>2
    <2> HIDE DEF K
    <2>5. Len(K[i]) <= Len(K[(i+m)+1]) /\ \A j \in 1 .. Len(K[i]) : K[(i+m)+1][j] = K[i+m][j]
      <3>1. CASE rows[i+m] = FULL_ROW
        BY <2>2, <2>4, <3>1
      <3>2. CASE rows[i+m] # FULL_ROW
        <4>1. K[(i+m)+1] = Append(K[i+m], rows[i+m])
          BY <2>2, <3>2
        <4>2. Len(K[(i+m)+1]) = Len(K[i+m]) + 1 /\ Len(K[i+m]) \in Nat
          BY <4>1, <2>3
        <4>3. \A j \in 1 .. Len(K[i+m]) : K[(i+m)+1][j] = K[i+m][j]
          BY <4>1, <2>3
        <4> QED
          BY <2>3, <2>4, <4>2, <4>3
      <3> QED
        BY <3>1, <3>2
    <2> QED
      BY <2>1, <2>4, <2>5
  <1>3. \A m \in 0 .. H-i : m \in S
    <2> HIDE DEF S
    <2>1. S \in SUBSET Nat
      BY DEF S
    <2> QED
      BY <1>1, <1>2, <2>1, UpTo, SizeFacts
  <1>4. n-i \in 0 .. H-i /\ i+(n-i) = n
    BY SizeFacts
  <1> QED
    BY <1>3, <1>4

(* A row that is not full is a survivor at the place of those below it.     *)
LEMMA SurvivorPlace ==
    ASSUME NEW rows \in Board, NEW n \in Row, rows[n] # FULL_ROW
    PROVE  /\ Len(KeptOf(rows)[n+1]) = Len(KeptOf(rows)[n]) + 1
           /\ Len(KeptOf(rows)[n]) + 1 \in 1 .. Len(Survivors(rows))
           /\ Survivors(rows)[Len(KeptOf(rows)[n]) + 1] = rows[n]
  <1> DEFINE K == KeptOf(rows)
  <1>1. n \in 0 .. H /\ n+1 \in 0 .. H /\ H \in n+1 .. H /\ rows[n] \in SUBSET Column
    BY SizeFacts DEF Row, Board
  <1>2. K[n+1] = Append(K[n], rows[n])
    BY KeptSteps
  <1>3. K[n] \in Seq((SUBSET Column) \ {FULL_ROW}) /\ K[H] = Survivors(rows) /\ K[H] \in Seq((SUBSET Column) \ {FULL_ROW})
    BY <1>1, KeptRows, KeptRecursion
  <1>4. Len(K[n+1]) <= Len(K[H]) /\ \A j \in 1 .. Len(K[n+1]) : K[H][j] = K[n+1][j]
    BY <1>1, KeptPrefix
  <1> HIDE DEF K
  <1>5. Len(K[n+1]) = Len(K[n]) + 1 /\ K[n+1][Len(K[n]) + 1] = rows[n] /\ Len(K[n]) \in Nat
    BY <1>2, <1>3
  <1>6. Len(K[n]) + 1 \in 1 .. Len(K[n+1]) /\ Len(K[H]) \in Nat
    BY <1>3, <1>5
  <1> QED
    BY <1>3, <1>4, <1>5, <1>6 DEF K

LEMMA FullRowGoes ==
    ASSUME NEW rows, NEW n \in Row, rows[n] = FULL_ROW
    PROVE  KeptOf(rows)[n+1] = KeptOf(rows)[n]
  BY KeptSteps

(* If only four rows in a row can be full, at most four are removed.        *)
LEMMA FewLines ==
    ASSUME NEW rows \in Board, NEW y \in Nat, \A r \in Row : rows[r] = FULL_ROW => r \in y .. y+3
    PROVE  Lines(rows) \in 0 .. 4
  <1> DEFINE K == KeptOf(rows)
             Most(n) == IF n <= y THEN 0 ELSE IF n <= y+4 THEN n - y ELSE 4
             S == {n \in 0 .. H : n - Len(K[n]) <= Most(n)}
  <1>1. \A n \in 0 .. H : Len(K[n]) \in 0 .. n
    BY KeptRows
  <1>2. 0 \in S
    <2>1. 0 \in 0 .. H /\ Len(K[0]) = 0
      BY <1>1, SizeFacts
    <2> HIDE DEF K
    <2> QED
      BY <2>1
  <1>3. ASSUME NEW n \in 0 .. H-1, n \in S
        PROVE  n+1 \in S
    <2>1. n \in Row /\ n+1 \in 0 .. H /\ n \in 0 .. H
      BY SizeFacts DEF Row
    <2>2. /\ rows[n] # FULL_ROW => Len(K[n+1]) = Len(K[n]) + 1
          /\ rows[n] = FULL_ROW => Len(K[n+1]) = Len(K[n]) /\ n \in y .. y+3
      BY <2>1, SurvivorPlace, FullRowGoes
    <2>3. n - Len(K[n]) <= Most(n) /\ Len(K[n]) \in 0 .. n
      BY <1>1, <1>3, <2>1
    <2> HIDE DEF K
    <2>4. PICK a \in Nat, b \in Nat : a = Len(K[n]) /\ b = Len(K[n+1])
      BY <1>1, <2>1
    <2>5. \/ b = a + 1
          \/ b = a /\ n >= y /\ n <= y+3
      BY <2>2, <2>4
    <2>6. n \in Nat /\ n - a <= Most(n)
      <3>1. n \in Nat
        BY <2>1, SizeFacts
      <3>2. n - Len(K[n]) <= Most(n)
        BY <2>3
      <3> HIDE DEF Most
      <3> QED
        BY <3>1, <3>2, <2>4
    <2>7. (n+1) - b <= Most(n+1)
      BY <2>5, <2>6
    <2>8. (n+1) - Len(K[n+1]) <= Most(n+1)
      BY <2>4, <2>7
    <2> QED
      BY <2>1, <2>8
  <1>4. H \in S
    <2> HIDE DEF S
    <2>1. S \in SUBSET Nat
      BY DEF S
    <2> QED
      BY <1>2, <1>3, <2>1, UpTo, SizeFacts
  <1>5. Lines(rows) = H - Len(K[H])
    BY KeptRecursion DEF Lines
  <1>6. Most(H) <= 4 /\ H \in 0 .. H
    BY SizeFacts
  <1>7. H - Len(K[H]) <= Most(H) /\ Len(K[H]) \in 0 .. H
    BY <1>1, <1>4, <1>6
  <1> HIDE DEF K, Most
  <1>8. PICK a \in 0 .. H : a = Len(K[H])
    BY <1>7
  <1>9. Most(H) \in Int
    BY SizeFacts DEF Most
  <1> QED
    BY <1>5, <1>6, <1>7, <1>8, <1>9, SizeFacts

-----------------------------------------------------------------------------
(* line_clear.sv after it has seen the top s rows of a board.               *)
Lowest(rows, s) == Len(KeptOf(rows)[H-s])
RestAt(rows, s) == [y \in Row |-> IF y >= s THEN rows[y-s] ELSE {}]
CountAt(rows, s) == s - (Lowest(rows, 0) - Lowest(rows, s))
PushedAt(rows, s) ==
    [y \in Row |-> IF y < Lowest(rows, 0) - Lowest(rows, s) THEN Survivors(rows)[Lowest(rows, s) + y + 1]
                   ELSE {}]

LEMMA LowestFacts ==
    ASSUME NEW rows \in Board, NEW s \in 0 .. H
    PROVE  Lowest(rows, s) \in 0 .. H-s /\ Lowest(rows, s) <= Lowest(rows, 0)
  <1>1. H-s \in 0 .. H /\ H \in H-s .. H /\ H-0 = H
    BY SizeFacts
  <1> QED
    BY <1>1, KeptRows, KeptPrefix DEF Lowest

LEMMA ScanBegins ==
    ASSUME NEW rows \in Board
    PROVE  RestAt(rows, 0) = rows /\ PushedAt(rows, 0) = EMPTY_BOARD /\ CountAt(rows, 0) = 0
  <1>1. Lowest(rows, 0) \in Nat
    BY LowestFacts, SizeFacts
  <1>2. RestAt(rows, 0) = rows
    <2>1. \A y \in Row : y >= 0 /\ y-0 = y
      BY DEF Row
    <2> QED
      BY <2>1 DEF RestAt, Board
  <1>3. PushedAt(rows, 0) = EMPTY_BOARD
    <2>1. \A y \in Row : ~(y < Lowest(rows, 0) - Lowest(rows, 0))
      BY <1>1 DEF Row
    <2> QED
      BY <2>1 DEF PushedAt, EMPTY_BOARD
  <1> QED
    BY <1>1, <1>2, <1>3 DEF CountAt

LEMMA ScanEnds ==
    ASSUME NEW rows \in Board
    PROVE  PushedAt(rows, H) = Cleared(rows) /\ CountAt(rows, H) = Lines(rows)
  <1>1. Lowest(rows, 0) = Len(Survivors(rows)) /\ Lowest(rows, 0) \in 0 .. H
    <2>1. H-0 = H
      BY SizeFacts
    <2> QED
      BY <2>1, KeptRecursion, LowestFacts, SizeFacts DEF Lowest
  <1>2. Lowest(rows, H) = 0
    BY LowestFacts, SizeFacts
  <1>3. PushedAt(rows, H) = Cleared(rows)
    <2>1. \A y \in Row : /\ y < Lowest(rows, 0) - Lowest(rows, H) <=> y < Len(Survivors(rows))
                         /\ Lowest(rows, H) + y + 1 = y + 1
      BY <1>1, <1>2 DEF Row
    <2> QED
      BY <2>1 DEF PushedAt, Cleared
  <1>4. CountAt(rows, H) = Lines(rows)
    BY <1>1, <1>2, SizeFacts DEF CountAt, Lines
  <1> QED
    BY <1>3, <1>4

LEMMA ScanGoesOn ==
    ASSUME NEW rows \in Board, NEW s \in 0 .. H-1
    PROVE  /\ RestAt(rows, s)[H-1] = rows[H-1-s]
           /\ Push(RestAt(rows, s), {}) = RestAt(rows, s+1)
           /\ CountAt(rows, s) \in 0 .. s
           /\ rows[H-1-s] = FULL_ROW => /\ CountAt(rows, s+1) = CountAt(rows, s) + 1
                                        /\ PushedAt(rows, s+1) = PushedAt(rows, s)
           /\ rows[H-1-s] # FULL_ROW => /\ CountAt(rows, s+1) = CountAt(rows, s)
                                        /\ PushedAt(rows, s+1) = Push(PushedAt(rows, s), rows[H-1-s])
  <1> DEFINE n == H-1-s  a == Lowest(rows, 0)  b == Lowest(rows, s)  c == Lowest(rows, s+1)
  <1>1. n \in Row /\ H-s = n+1 /\ H-(s+1) = n /\ H-1 \in Row /\ s \in 0 .. H /\ s+1 \in 0 .. H
    BY SizeFacts DEF Row
  <1>2. a \in 0 .. H /\ b \in 0 .. H-s /\ c \in 0 .. H-(s+1) /\ b <= a /\ c <= a
    BY <1>1, LowestFacts, SizeFacts
  <1>3. b = Len(KeptOf(rows)[n+1]) /\ c = Len(KeptOf(rows)[n])
    BY <1>1 DEF Lowest
  <1>4. rows[n] = FULL_ROW => b = c
    BY <1>1, <1>3, FullRowGoes
  <1>5. rows[n] # FULL_ROW => b = c + 1 /\ Survivors(rows)[c+1] = rows[n]
    BY <1>1, <1>3, SurvivorPlace
  <1>6. RestAt(rows, s)[H-1] = rows[n]
    <2>1. H-1 >= s /\ (H-1)-s = n
      BY SizeFacts
    <2> QED
      BY <1>1, <2>1 DEF RestAt
  <1>7. Push(RestAt(rows, s), {}) = RestAt(rows, s+1)
    <2>1. ASSUME NEW y \in Row
          PROVE  (IF y = 0 THEN {} ELSE RestAt(rows, s)[y-1]) = IF y >= s+1 THEN rows[y-(s+1)] ELSE {}
      <3>1. CASE y = 0
        BY <3>1
      <3>2. CASE y # 0
        <4>1. y-1 \in Row /\ (y-1 >= s <=> y >= s+1) /\ (y-1)-s = y-(s+1)
          BY <3>2, SizeFacts DEF Row
        <4> QED
          BY <3>2, <4>1 DEF RestAt
      <3> QED
        BY <3>1, <3>2
    <2> QED
      BY <2>1 DEF Push, RestAt
  <1> HIDE DEF a, b, c
  <1>8. ASSUME rows[n] = FULL_ROW
        PROVE  CountAt(rows, s+1) = CountAt(rows, s) + 1 /\ PushedAt(rows, s+1) = PushedAt(rows, s)
    BY <1>2, <1>4, <1>8 DEF CountAt, PushedAt, a, b, c
  <1>9. ASSUME rows[n] # FULL_ROW
        PROVE  CountAt(rows, s+1) = CountAt(rows, s) /\ PushedAt(rows, s+1) = Push(PushedAt(rows, s), rows[n])
    <2>1. CountAt(rows, s+1) = CountAt(rows, s)
      <3>1. CountAt(rows, s+1) = (s+1) - (a - c) /\ CountAt(rows, s) = s - (a - b)
        BY DEF CountAt, a, b, c
      <3> QED
        BY <1>2, <1>5, <1>9, <3>1
    <2>2. ASSUME NEW y \in Row
          PROVE  (IF y < a - c THEN Survivors(rows)[c + y + 1] ELSE {})
                   = IF y = 0 THEN rows[n] ELSE PushedAt(rows, s)[y-1]
      <3>1. CASE y = 0
        <4>1. y < a - c /\ c + y + 1 = c + 1
          BY <1>2, <1>5, <1>9, <3>1
        <4> QED
          BY <1>5, <1>9, <3>1, <4>1
      <3>2. CASE y # 0
        <4>1. y-1 \in Row
          BY <3>2, SizeFacts DEF Row
        <4>2. PushedAt(rows, s)[y-1] = IF y-1 < a - b THEN Survivors(rows)[b + (y-1) + 1] ELSE {}
          BY <4>1 DEF PushedAt, a, b
        <4>3. (y-1 < a - b <=> y < a - c) /\ b + (y-1) + 1 = c + y + 1
          BY <1>2, <1>5, <1>9 DEF Row
        <4> QED
          BY <3>2, <4>2, <4>3
      <3> QED
        BY <3>1, <3>2
    <2>3. PushedAt(rows, s+1) = [y \in Row |-> IF y < a - c THEN Survivors(rows)[c + y + 1] ELSE {}]
      BY DEF PushedAt, a, c
    <2>4. PushedAt(rows, s+1) = Push(PushedAt(rows, s), rows[n])
      BY <2>2, <2>3 DEF Push
    <2> QED
      BY <2>1, <2>4
  <1>10. CountAt(rows, s) \in 0 .. s
    <2>1. CountAt(rows, s) = s - (a - b)
      BY DEF CountAt, a, b
    <2>2. a - b <= s
      <3>1. \A m \in 0 .. s : Lowest(rows, 0) - Lowest(rows, m) <= m
        <4> DEFINE S == {m \in 0 .. s : Lowest(rows, 0) - Lowest(rows, m) <= m}
        <4>1. 0 \in S
          BY LowestFacts, SizeFacts
        <4>2. ASSUME NEW m \in 0 .. s-1, m \in S
              PROVE  m+1 \in S
          <5>1. m \in 0 .. H-1 /\ m \in 0 .. H /\ m+1 \in 0 .. H /\ m+1 \in 0 .. s
                /\ H-1-m \in Row /\ H-m = (H-1-m)+1 /\ H-(m+1) = H-1-m
            BY SizeFacts DEF Row
          <5>2. Lowest(rows, m) \in {Lowest(rows, m+1), Lowest(rows, m+1) + 1}
            BY <5>1, SurvivorPlace, FullRowGoes DEF Lowest
          <5>3. Lowest(rows, 0) \in Int /\ Lowest(rows, m) \in Int /\ Lowest(rows, m+1) \in Int
            BY <5>1, LowestFacts, SizeFacts
          <5> QED
            BY <4>2, <5>1, <5>2, <5>3
        <4>3. \A m \in 0 .. s : m \in S
          <5> HIDE DEF S
          <5>1. S \in SUBSET Nat
            BY DEF S
          <5> QED
            BY <4>1, <4>2, <5>1, UpTo
        <4> QED
          BY <4>3
      <3> QED
        BY <3>1 DEF a, b
    <2> QED
      BY <1>2, <2>1, <2>2
  <1> QED
    BY <1>6, <1>7, <1>8, <1>9, <1>10

LEMMA ClearedBoard ==
    ASSUME NEW rows \in Board
    PROVE  Cleared(rows) \in Board /\ Cleared(rows) \in Normalized
  <1>1. ASSUME NEW y \in Row
        PROVE  (IF y < Len(Survivors(rows)) THEN Survivors(rows)[y+1] ELSE {}) \in (SUBSET Column) \ {FULL_ROW}
    <2>1. Survivors(rows) \in Seq((SUBSET Column) \ {FULL_ROW})
      BY KeptRecursion, KeptRows, SizeFacts
    <2>2. CASE y < Len(Survivors(rows))
      <3>1. y+1 \in 1 .. Len(Survivors(rows))
        BY <2>1, <2>2 DEF Row
      <3> QED
        BY <2>1, <2>2, <3>1
    <2>3. CASE ~(y < Len(Survivors(rows)))
      <3>1. 0 \in FULL_ROW
        BY SizeFacts DEF FULL_ROW, Column
      <3> QED
        BY <2>3, <3>1
    <2> QED
      BY <2>2, <2>3
  <1>2. Cleared(rows) \in [Row -> (SUBSET Column) \ {FULL_ROW}]
    BY <1>1 DEF Cleared
  <1>3. Cleared(rows) \in [Row -> SUBSET Column]
    BY <1>1 DEF Cleared
  <1> QED
    BY <1>2, <1>3 DEF Board, Normalized

-----------------------------------------------------------------------------
(* The features.  A sum over the columns in closed form: what the folds of  *)
(* the rules, the serial reduction and the adder trees all come to.         *)
Term(v, s, i) == IF i \in s THEN v[i] ELSE 0
SumIn(v, s) ==
    (Term(v, s, 0) + Term(v, s, 1)) + (Term(v, s, 2) + Term(v, s, 3)) + (Term(v, s, 4) + Term(v, s, 5))
        + (Term(v, s, 6) + Term(v, s, 7)) + (Term(v, s, 8) + Term(v, s, 9))
Chosen(s) == CHOOSE x \in s : TRUE
SumStep(v, f, s) == IF s = {} THEN 0 ELSE v[Chosen(s)] + f[s \ {Chosen(s)}]

LEMMA SumInTakes ==
    ASSUME NEW v \in [Leaves -> Int], NEW s \in SUBSET Leaves
    PROVE  /\ SumIn(v, s) \in Int
           /\ s = {} => SumIn(v, s) = 0
           /\ \A a \in s : SumIn(v, s) = v[a] + SumIn(v, s \ {a})
  <1>1. \A i \in Leaves : v[i] \in Int
    OBVIOUS
  <1>2. \A i \in Leaves : Term(v, s, i) \in Int /\ (s = {} => Term(v, s, i) = 0)
    BY <1>1 DEF Term
  <1>3. /\ Term(v, s, 0) \in Int /\ Term(v, s, 1) \in Int /\ Term(v, s, 2) \in Int /\ Term(v, s, 3) \in Int
        /\ Term(v, s, 4) \in Int /\ Term(v, s, 5) \in Int /\ Term(v, s, 6) \in Int /\ Term(v, s, 7) \in Int
        /\ Term(v, s, 8) \in Int /\ Term(v, s, 9) \in Int
    BY <1>2 DEF Leaves
  <1>4. s = {} => SumIn(v, s) = 0
    BY DEF SumIn, Term
  <1>5. ASSUME NEW a \in s
        PROVE  SumIn(v, s) = v[a] + SumIn(v, s \ {a})
    <2> DEFINE t == s \ {a}
    <2>1. a \in Leaves /\ v[a] \in Int /\ Term(v, s, a) = v[a] /\ Term(v, t, a) = 0
      BY <1>1 DEF Term
    <2>2. \A i \in Leaves : i # a => Term(v, t, i) = Term(v, s, i)
      BY DEF Term
    <2> HIDE DEF t
    <2>3. a \in 0 .. 9
      BY <2>1 DEF Leaves
    <2>4. \A i \in 0 .. 9 : i # a => Term(v, t, i) = Term(v, s, i)
      BY <2>2 DEF Leaves
    <2>5. SumIn(v, s) = v[a] + SumIn(v, t)
      BY <1>3, <2>1, <2>3, <2>4 DEF SumIn
    <2> QED
      BY <2>5 DEF t
  <1>6. SumIn(v, s) \in Int
    BY <1>3 DEF SumIn
  <1> QED
    BY <1>4, <1>5, <1>6

(* A fold over a set of columns has one value, whichever element it takes   *)
(* first.                                                                   *)
LEMMA FoldedSum ==
    ASSUME NEW v \in [Leaves -> Int], NEW S \in SUBSET Leaves, NEW f,
           f = [s \in SUBSET S |-> SumStep(v, f, s)]
    PROVE  f[S] = SumIn(v, S)
  <1> DEFINE One == [i \in Leaves |-> 1]
             T == {SumIn(One, s) : s \in {r \in SUBSET S : f[r] # SumIn(v, r)}}
  <1>1. SUFFICES ASSUME f[S] # SumIn(v, S) PROVE FALSE
    OBVIOUS
  <1>2. One \in [Leaves -> Int]
    OBVIOUS
  <1>3. \A s \in SUBSET Leaves : SumIn(One, s) \in Nat
    <2>1. SUFFICES ASSUME NEW s \in SUBSET Leaves PROVE SumIn(One, s) \in Nat
      OBVIOUS
    <2>2. \A i \in Leaves : Term(One, s, i) \in {0, 1}
      BY DEF Term
    <2> HIDE DEF One
    <2> QED
      BY <2>2 DEF SumIn, Leaves
  <1> HIDE DEF One
  <1>4. T \in SUBSET Nat /\ T # {}
    <2>1. \A s \in SUBSET S : SumIn(One, s) \in Nat
      BY <1>3
    <2>2. SumIn(One, S) \in T
      BY <1>1
    <2> QED
      BY <2>1, <2>2
  <1>5. PICK m \in T : \A k \in T : m <= k
    <2> HIDE DEF T
    <2> QED
      BY <1>4, LeastNatural
  <1>6. PICK s \in SUBSET S : f[s] # SumIn(v, s) /\ m = SumIn(One, s)
    BY <1>5
  <1>7. f[s] = SumStep(v, f, s)
    OBVIOUS
  <1>8. s # {}
    BY <1>6, <1>7, SumInTakes DEF SumStep
  <1> DEFINE a == Chosen(s)  t == s \ {a}
  <1>9. a \in s
    BY <1>8 DEF Chosen
  <1>10. f[s] = v[a] + f[t]
    BY <1>7, <1>8 DEF SumStep
  <1>11. SumIn(v, s) = v[a] + SumIn(v, t) /\ SumIn(One, s) = One[a] + SumIn(One, t)
    BY <1>2, <1>9, SumInTakes
  <1>12. f[t] # SumIn(v, t) /\ t \in SUBSET S
    BY <1>6, <1>10, <1>11
  <1>13. SumIn(One, t) \in T
    BY <1>12
  <1>14. One[a] = 1 /\ SumIn(One, t) \in Nat
    BY <1>3, <1>9, <1>12 DEF One
  <1> HIDE DEF T, t, a
  <1> QED
    BY <1>5, <1>6, <1>11, <1>13, <1>14

LEMMA FoldedSumIs ==
    ASSUME NEW v \in [Leaves -> Int], NEW S \in SUBSET Leaves
    PROVE  LET g == [s \in SUBSET S |-> SumIn(v, s)]
           IN  g = [s \in SUBSET S |-> SumStep(v, g, s)]
  <1> DEFINE g == [s \in SUBSET S |-> SumIn(v, s)]
  <1>1. ASSUME NEW s \in SUBSET S
        PROVE  SumIn(v, s) = SumStep(v, g, s)
    <2>1. CASE s = {}
      BY <2>1, SumInTakes DEF SumStep
    <2>2. CASE s # {}
      <3>1. Chosen(s) \in s /\ s \ {Chosen(s)} \in SUBSET S
        BY <2>2 DEF Chosen
      <3>2. SumIn(v, s) = v[Chosen(s)] + SumIn(v, s \ {Chosen(s)})
        BY <3>1, SumInTakes
      <3>3. g[s \ {Chosen(s)}] = SumIn(v, s \ {Chosen(s)})
        BY <3>1
      <3> QED
        BY <2>2, <3>2, <3>3 DEF SumStep
    <2> QED
      BY <2>1, <2>2
  <1>2. g = [s \in SUBSET S |-> SumStep(v, g, s)]
    BY <1>1
  <1> QED
    BY <1>2

(* A board of the code has ten columns and twenty rows; every smaller one   *)
(* fits the datapath too.                                                   *)
BoardFits == W <= 10 /\ H <= 20

HeightLeaves(rows) == Padded(ColumnHeights(rows))
StepLeaves(rows) ==
    [i \in Leaves |-> IF i \in 1 .. W-1 THEN Abs(ColumnHeights(rows)[i] - ColumnHeights(rows)[i-1]) ELSE 0]

LEMMA LeafTypes ==
    ASSUME BoardFits, NEW rows \in Board
    PROVE  /\ HeightLeaves(rows) \in [Leaves -> Leaf] /\ StepLeaves(rows) \in [Leaves -> Leaf]
           /\ HeightLeaves(rows) \in [Leaves -> Int] /\ StepLeaves(rows) \in [Leaves -> Int]
           /\ Column \in SUBSET Leaves /\ 1 .. W-1 \in SUBSET Leaves /\ StepLeaves(rows)[0] = 0
           /\ \A x \in Column : HeightLeaves(rows)[x] = ColumnHeight(rows, x)
           /\ \A x \in 1 .. W-1 : StepLeaves(rows)[x] = Abs(ColumnHeights(rows)[x] - ColumnHeights(rows)[x-1])
  <1> DEFINE h == ColumnHeights(rows)
  <1>1. h \in [Column -> 0 .. H]
    BY HeightsTyped
  <1>2. \A x \in Column : h[x] = ColumnHeight(rows, x) /\ h[x] \in 0 .. 20
    BY <1>1, SizeFacts DEF BoardFits, ColumnHeights
  <1>3. Column \in SUBSET Leaves /\ 1 .. W-1 \in SUBSET Leaves /\ 0 \in Leaves /\ 0 \notin 1 .. W-1
    BY SizeFacts DEF BoardFits, Column, Leaves
  <1>4. \A x \in 1 .. W-1 : x \in Column /\ x-1 \in Column
    BY SizeFacts DEF Column
  <1>5. \A x \in 1 .. W-1 : Abs(h[x] - h[x-1]) \in 0 .. 20
    BY <1>2, <1>4 DEF Abs
  <1>6. DOMAIN h = Column
    BY <1>1
  <1> HIDE DEF h
  <1>7. HeightLeaves(rows) = [i \in Leaves |-> IF i \in Column THEN h[i] ELSE 0]
    BY <1>6 DEF HeightLeaves, Padded, h
  <1>8. HeightLeaves(rows) \in [Leaves -> 0 .. 20]
    BY <1>2, <1>7
  <1>9. StepLeaves(rows) = [i \in Leaves |-> IF i \in 1 .. W-1 THEN Abs(h[i] - h[i-1]) ELSE 0]
    BY DEF StepLeaves, h
  <1>10. StepLeaves(rows) \in [Leaves -> 0 .. 20]
    BY <1>5, <1>9
  <1>11. 0 .. 20 \in SUBSET Int
    OBVIOUS
  <1>12. HeightLeaves(rows) \in [Leaves -> Int] /\ StepLeaves(rows) \in [Leaves -> Int]
    BY <1>8, <1>10
  <1> QED
    BY <1>2, <1>3, <1>7, <1>8, <1>9, <1>10, <1>12 DEF Leaf, h

LEMMA AggregateHeightIs ==
    ASSUME BoardFits, NEW rows \in Board
    PROVE  AggregateHeight(rows) = SumIn(HeightLeaves(rows), Column)
  <1> DEFINE v == HeightLeaves(rows)
             Step(f, s) == IF s = {} THEN 0 ELSE ColumnHeight(rows, Chosen(s)) + f[s \ {Chosen(s)}]
             F == CHOOSE f : f = [s \in SUBSET Column |-> Step(f, s)]
  <1>1. AggregateHeight(rows) = F[Column]
    BY DEF AggregateHeight, MapThenSumSet, MapThenFoldSet, Chosen
  <1>2. /\ v \in [Leaves -> Int] /\ Column \in SUBSET Leaves
        /\ \A x \in Column : v[x] = ColumnHeight(rows, x)
    BY LeafTypes
  <1> HIDE DEF v
  <1>3. \A f : \A s \in SUBSET Column : Step(f, s) = SumStep(v, f, s)
    <2>1. \A s \in SUBSET Column : s # {} => Chosen(s) \in s
      BY DEF Chosen
    <2> QED
      BY <1>2, <2>1 DEF SumStep
  <1> HIDE DEF Step
  <1>4. \E f : f = [s \in SUBSET Column |-> Step(f, s)]
    <2> DEFINE g == [s \in SUBSET Column |-> SumIn(v, s)]
    <2>1. g = [s \in SUBSET Column |-> SumStep(v, g, s)]
      BY <1>2, FoldedSumIs
    <2> HIDE DEF g
    <2>2. g = [s \in SUBSET Column |-> Step(g, s)]
      BY <1>3, <2>1
    <2> QED
      BY <2>2
  <1>5. F = [s \in SUBSET Column |-> Step(F, s)]
    BY <1>4, Zenon
  <1> HIDE DEF F
  <1>6. F = [s \in SUBSET Column |-> SumStep(v, F, s)]
    BY <1>3, <1>5
  <1>7. F[Column] = SumIn(v, Column)
    BY <1>2, <1>6, FoldedSum
  <1> QED
    BY <1>1, <1>7 DEF v

LEMMA BumpinessIs ==
    ASSUME BoardFits, NEW rows \in Board
    PROVE  Bumpiness(rows) = SumIn(StepLeaves(rows), 1 .. W-1)
  <1> DEFINE v == StepLeaves(rows)
             h == ColumnHeights(rows)
             D == 1 .. W-1
             Step(f, s) == IF s = {} THEN 0 ELSE Abs(h[Chosen(s)] - h[Chosen(s) - 1]) + f[s \ {Chosen(s)}]
             F == CHOOSE f : f = [s \in SUBSET D |-> Step(f, s)]
  <1>1. Bumpiness(rows) = F[D]
    BY DEF Bumpiness, MapThenSumSet, MapThenFoldSet, Chosen
  <1>2. /\ v \in [Leaves -> Int] /\ D \in SUBSET Leaves
        /\ \A x \in D : v[x] = Abs(h[x] - h[x-1])
    BY LeafTypes
  <1> HIDE DEF v, h, D
  <1>3. \A f : \A s \in SUBSET D : Step(f, s) = SumStep(v, f, s)
    <2>1. \A s \in SUBSET D : s # {} => Chosen(s) \in s
      BY DEF Chosen
    <2> QED
      BY <1>2, <2>1 DEF SumStep
  <1> HIDE DEF Step
  <1>4. \E f : f = [s \in SUBSET D |-> Step(f, s)]
    <2> DEFINE g == [s \in SUBSET D |-> SumIn(v, s)]
    <2>1. g = [s \in SUBSET D |-> SumStep(v, g, s)]
      BY <1>2, FoldedSumIs
    <2> HIDE DEF g
    <2>2. g = [s \in SUBSET D |-> Step(g, s)]
      BY <1>3, <2>1
    <2> QED
      BY <2>2
  <1>5. F = [s \in SUBSET D |-> Step(F, s)]
    BY <1>4, Zenon
  <1> HIDE DEF F
  <1>6. F = [s \in SUBSET D |-> SumStep(v, F, s)]
    BY <1>3, <1>5
  <1>7. F[D] = SumIn(v, D)
    BY <1>2, <1>6, FoldedSum
  <1> QED
    BY <1>1, <1>7 DEF v, D

(* What the sums come to when they are taken to the end.                    *)
LEMMA SumInBounds ==
    ASSUME NEW v \in [Leaves -> Leaf], NEW s \in SUBSET Leaves
    PROVE  SumIn(v, s) \in 0 .. 200 /\ (v[0] = 0 => SumIn(v, s) \in 0 .. 180)
  <1>1. \A i \in 0 .. 9 : Term(v, s, i) \in 0 .. 20 /\ (v[i] = 0 => Term(v, s, i) = 0)
    BY DEF Term, Leaves, Leaf
  <1>2. /\ Term(v, s, 0) \in 0 .. 20 /\ Term(v, s, 1) \in 0 .. 20 /\ Term(v, s, 2) \in 0 .. 20
        /\ Term(v, s, 3) \in 0 .. 20 /\ Term(v, s, 4) \in 0 .. 20 /\ Term(v, s, 5) \in 0 .. 20
        /\ Term(v, s, 6) \in 0 .. 20 /\ Term(v, s, 7) \in 0 .. 20 /\ Term(v, s, 8) \in 0 .. 20
        /\ Term(v, s, 9) \in 0 .. 20 /\ (v[0] = 0 => Term(v, s, 0) = 0)
    BY <1>1
  <1> DEFINE a == Term(v, s, 0) + Term(v, s, 1)
             b == Term(v, s, 2) + Term(v, s, 3)
             c == Term(v, s, 4) + Term(v, s, 5)
             d == Term(v, s, 6) + Term(v, s, 7)
             e == Term(v, s, 8) + Term(v, s, 9)
  <1>3. SumIn(v, s) = a + b + c + d + e
    BY DEF SumIn
  <1>4. a \in 0 .. 40 /\ (v[0] = 0 => a \in 0 .. 20)
    BY <1>2
  <1>5. b \in 0 .. 40
    BY <1>2
  <1>6. c \in 0 .. 40
    BY <1>2
  <1>7. d \in 0 .. 40
    BY <1>2
  <1>8. e \in 0 .. 40
    BY <1>2
  <1> HIDE DEF a, b, c, d, e
  <1> QED
    BY <1>3, <1>4, <1>5, <1>6, <1>7, <1>8

LEMMA WholeSum ==
    ASSUME NEW v \in [Leaves -> Int], NEW s \in SUBSET Leaves, \A i \in Leaves \ s : v[i] = 0
    PROVE  SumIn(v, s) = SumOf(v)
  <1>1. \A i \in 0 .. 9 : Term(v, s, i) = v[i] /\ v[i] \in Int
    BY DEF Term, Leaves
  <1> QED
    BY <1>1 DEF SumIn, SumOf

LEMMA NextSum ==
    ASSUME NEW v \in [Leaves -> Int], NEW n \in Leaves
    PROVE  SumIn(v, 0 .. n) = SumIn(v, 0 .. n-1) + v[n] /\ SumIn(v, 0 .. n-1) \in Int
  <1>1. 0 .. n \in SUBSET Leaves /\ n \in 0 .. n /\ (0 .. n) \ {n} = 0 .. n-1 /\ 0 .. n-1 \in SUBSET Leaves
    BY DEF Leaves
  <1>2. SumIn(v, 0 .. n) = v[n] + SumIn(v, (0 .. n) \ {n})
    BY <1>1, SumInTakes
  <1>3. SumIn(v, 0 .. n-1) \in Int /\ v[n] \in Int
    BY <1>1, SumInTakes
  <1>4. SumIn(v, 0 .. n) = v[n] + SumIn(v, 0 .. n-1)
    BY <1>1, <1>2
  <1> QED
    BY <1>3, <1>4

LEMMA AggregateHeightSum ==
    ASSUME BoardFits, NEW rows \in Board
    PROVE  /\ AggregateHeight(rows) = SumOf(HeightLeaves(rows)) /\ AggregateHeight(rows) \in 0 .. 200
           /\ AggregateHeight(rows) = SumIn(HeightLeaves(rows), 0 .. W-1)
  <1>1. /\ HeightLeaves(rows) \in [Leaves -> Leaf] /\ HeightLeaves(rows) \in [Leaves -> Int]
        /\ Column \in SUBSET Leaves
    BY LeafTypes
  <1>2. \A i \in Leaves \ Column : HeightLeaves(rows)[i] = 0
    BY HeightsTyped DEF HeightLeaves, Padded
  <1> QED
    BY <1>1, <1>2, AggregateHeightIs, SumInBounds, WholeSum DEF Column

LEMMA BumpinessSum ==
    ASSUME BoardFits, NEW rows \in Board
    PROVE  /\ Bumpiness(rows) = SumOf(StepLeaves(rows)) /\ Bumpiness(rows) \in 0 .. 180
           /\ Bumpiness(rows) = SumIn(StepLeaves(rows), 0 .. W-1)
  <1>1. /\ StepLeaves(rows) \in [Leaves -> Leaf] /\ StepLeaves(rows) \in [Leaves -> Int]
        /\ 1 .. W-1 \in SUBSET Leaves /\ StepLeaves(rows)[0] = 0 /\ Column \in SUBSET Leaves
    BY LeafTypes
  <1>2. \A i \in Leaves \ (1 .. W-1) : StepLeaves(rows)[i] = 0
    BY DEF StepLeaves
  <1>3. \A i \in Leaves \ Column : StepLeaves(rows)[i] = 0
    BY <1>2, SizeFacts DEF Column
  <1>4. Bumpiness(rows) = SumOf(StepLeaves(rows)) /\ SumIn(StepLeaves(rows), Column) = SumOf(StepLeaves(rows))
    BY <1>1, <1>2, <1>3, BumpinessIs, WholeSum
  <1>5. SumIn(StepLeaves(rows), Column) \in 0 .. 180
    BY <1>1, SumInBounds
  <1> QED
    BY <1>4, <1>5 DEF Column

(* features_fast.sv takes the differences one column further left.          *)
LEMMA ShiftedSteps ==
    ASSUME BoardFits, NEW rows \in Board, NEW absd,
           absd = [x \in 0 .. W-2 |-> Abs(ColumnHeights(rows)[x+1] - ColumnHeights(rows)[x])]
    PROVE  Padded(absd) \in [Leaves -> Leaf] /\ SumOf(Padded(absd)) = Bumpiness(rows)
  <1> DEFINE v == StepLeaves(rows)  d == Padded(absd)
  <1>1. v \in [Leaves -> Leaf] /\ v[0] = 0
    BY LeafTypes
  <1>2. \A i \in 0 .. 8 : d[i] = v[i+1]
    <2>1. SUFFICES ASSUME NEW i \in 0 .. 8 PROVE d[i] = v[i+1]
      OBVIOUS
    <2>2. i \in Leaves /\ i+1 \in Leaves /\ (i \in 0 .. W-2 <=> i+1 \in 1 .. W-1) /\ (i+1)-1 = i
      BY SizeFacts DEF Leaves
    <2>3. d[i] = IF i \in 0 .. W-2 THEN Abs(ColumnHeights(rows)[i+1] - ColumnHeights(rows)[i]) ELSE 0
      BY <2>2 DEF Padded
    <2> QED
      BY <2>2, <2>3 DEF StepLeaves
  <1>3. d[9] = 0
    <2>1. W-2 < 9 /\ W \in Nat
      BY SizeFacts DEF BoardFits
    <2>2. 9 \notin 0 .. W-2 /\ 9 \in Leaves
      BY <2>1 DEF Leaves
    <2>3. DOMAIN absd = 0 .. W-2
      OBVIOUS
    <2> QED
      BY <2>2, <2>3 DEF Padded
  <1>4. DOMAIN d = Leaves /\ d = [i \in Leaves |-> d[i]]
    BY DEF Padded
  <1> HIDE DEF v, d
  <1>5. \A i \in 0 .. 9 : v[i] \in 0 .. 20
    BY <1>1 DEF Leaves, Leaf
  <1>6. \A i \in 0 .. 9 : d[i] \in 0 .. 20
    <2>1. \A i \in 0 .. 8 : d[i] \in 0 .. 20
      BY <1>2, <1>5
    <2> QED
      BY <1>3, <2>1
  <1>7. d \in [Leaves -> Leaf]
    BY <1>4, <1>6 DEF Leaves, Leaf
  <1>8. /\ d[0] = v[1] /\ d[1] = v[2] /\ d[2] = v[3] /\ d[3] = v[4] /\ d[4] = v[5]
        /\ d[5] = v[6] /\ d[6] = v[7] /\ d[7] = v[8] /\ d[8] = v[9]
    BY <1>2
  <1>9. SumOf(d) = SumOf(v)
    <2>1. /\ v[0] \in 0 .. 20 /\ v[1] \in 0 .. 20 /\ v[2] \in 0 .. 20 /\ v[3] \in 0 .. 20
          /\ v[4] \in 0 .. 20 /\ v[5] \in 0 .. 20 /\ v[6] \in 0 .. 20 /\ v[7] \in 0 .. 20
          /\ v[8] \in 0 .. 20 /\ v[9] \in 0 .. 20
      BY <1>5
    <2>2. SumOf(d) = (v[1] + v[2]) + (v[3] + v[4]) + (v[5] + v[6]) + (v[7] + v[8]) + (v[9] + 0)
      BY <1>3, <1>8 DEF SumOf
    <2>3. PICK a \in 0 .. 20, b \in 0 .. 20, c \in 0 .. 20 : a = v[1] /\ b = v[2] /\ c = v[3]
      BY <2>1
    <2>4. PICK e \in 0 .. 20, f \in 0 .. 20, g \in 0 .. 20 : e = v[4] /\ f = v[5] /\ g = v[6]
      BY <2>1
    <2>5. PICK i \in 0 .. 20, j \in 0 .. 20, k \in 0 .. 20 : i = v[7] /\ j = v[8] /\ k = v[9]
      BY <2>1
    <2>6. SumOf(v) = (0 + a) + (b + c) + (e + f) + (g + i) + (j + k)
      BY <1>1, <2>3, <2>4, <2>5 DEF SumOf
    <2>7. SumOf(d) = (a + b) + (c + e) + (f + g) + (i + j) + (k + 0)
      BY <2>2, <2>3, <2>4, <2>5
    <2> QED
      BY <2>6, <2>7
  <1> QED
    BY <1>7, <1>9, BumpinessSum DEF v, d

(* Holes: the empty cells below the top of their column, column by column.  *)
HoleCells(rows) ==
    {c \in Column \X Row : c[2] < ColumnHeights(rows)[c[1]] /\ c[1] \notin rows[c[2]]}
HolesBefore(rows, x) == {c \in HoleCells(rows) : c[1] < x}
HoleLeaves(rows) == Padded([x \in Column |-> Cardinality(HoleMask(rows, x))])

LEMMA ColumnHoles ==
    ASSUME BoardFits, NEW rows \in Board, NEW x \in Column
    PROVE  /\ IsFiniteSet(HoleMask(rows, x)) /\ Cardinality(HoleMask(rows, x)) \in 0 .. 20
           /\ IsFiniteSet({x} \X HoleMask(rows, x))
           /\ Cardinality({x} \X HoleMask(rows, x)) = Cardinality(HoleMask(rows, x))
  <1> DEFINE M == HoleMask(rows, x)  f == [r \in M |-> <<x, r>>]
  <1>1. M \in SUBSET Row /\ IsFiniteSet(Row) /\ Cardinality(Row) = H
    BY FS_Interval, SizeFacts DEF HoleMask, Row
  <1>2. IsFiniteSet(M) /\ Cardinality(M) <= H
    BY <1>1, FS_Subset
  <1> HIDE DEF M
  <1>3. Cardinality(M) \in Nat
    BY <1>2, FS_CardinalityType
  <1>4. f \in Bijection(M, {x} \X M)
    <2>1. f \in [M -> {x} \X M]
      OBVIOUS
    <2>2. \A a, b \in M : f[a] = f[b] => a = b
      OBVIOUS
    <2>3. \A t \in {x} \X M : \E s \in M : f[s] = t
      <3>1. SUFFICES ASSUME NEW t \in {x} \X M PROVE \E s \in M : f[s] = t
        OBVIOUS
      <3>2. t[2] \in M /\ t = <<x, t[2]>>
        OBVIOUS
      <3>3. f[t[2]] = t
        BY <3>2
      <3> QED
        BY <3>2, <3>3
    <2> HIDE DEF f
    <2>4. f \in Injection(M, {x} \X M) /\ f \in Surjection(M, {x} \X M)
      BY <2>1, <2>2, <2>3 DEF Injection, Surjection, IsInjective
    <2> QED
      BY <2>4, Zenon DEF Bijection
  <1>5. ExistsBijection(M, {x} \X M)
    BY <1>4 DEF ExistsBijection
  <1>6. IsFiniteSet({x} \X M) /\ Cardinality({x} \X M) = Cardinality(M)
    BY <1>2, <1>5, FS_Bijection
  <1> QED
    BY <1>2, <1>3, <1>6, SizeFacts DEF M, BoardFits

LEMMA HoleLeafTypes ==
    ASSUME BoardFits, NEW rows \in Board
    PROVE  /\ HoleLeaves(rows) \in [Leaves -> Leaf] /\ HoleLeaves(rows) \in [Leaves -> Int]
           /\ \A i \in Leaves \ Column : HoleLeaves(rows)[i] = 0
           /\ \A x \in Column : x \in Leaves /\ HoleLeaves(rows)[x] = Cardinality(HoleMask(rows, x))
  <1> DEFINE C(x) == Cardinality(HoleMask(rows, x))
  <1>1. \A x \in Column : C(x) \in 0 .. 20
    BY ColumnHoles
  <1> HIDE DEF C
  <1>2. HoleLeaves(rows) = [i \in Leaves |-> IF i \in Column THEN C(i) ELSE 0]
    BY DEF HoleLeaves, Padded, C
  <1>3. HoleLeaves(rows) \in [Leaves -> 0 .. 20]
    BY <1>1, <1>2
  <1>4. HoleLeaves(rows) \in [Leaves -> Int]
    BY <1>3
  <1>5. Column \in SUBSET Leaves
    BY LeafTypes
  <1> QED
    BY <1>2, <1>3, <1>4, <1>5 DEF Leaf, C

LEMMA HolesOfColumns ==
    ASSUME BoardFits, NEW rows \in Board, NEW n \in 0 .. W
    PROVE  IsFiniteSet(HolesBefore(rows, n)) /\ Cardinality(HolesBefore(rows, n)) = SumIn(HoleLeaves(rows), 0 .. n-1)
  <1> DEFINE v == HoleLeaves(rows)
             S == {m \in 0 .. W : /\ IsFiniteSet(HolesBefore(rows, m))
                                  /\ Cardinality(HolesBefore(rows, m)) = SumIn(v, 0 .. m-1)}
  <1>1. v \in [Leaves -> Int] /\ \A x \in Column : x \in Leaves /\ v[x] = Cardinality(HoleMask(rows, x))
    BY HoleLeafTypes
  <1> HIDE DEF v
  <1>2. 0 \in S
    <2>1. HolesBefore(rows, 0) = {}
      BY DEF HolesBefore, HoleCells, Column
    <2>2. 0 .. 0-1 = {} /\ {} \in SUBSET Leaves
      OBVIOUS
    <2>3. SumIn(v, 0 .. 0-1) = 0
      BY <1>1, <2>2, SumInTakes
    <2> QED
      BY <2>1, <2>3, FS_EmptySet, SizeFacts
  <1>3. ASSUME NEW m \in 0 .. W-1, m \in S
        PROVE  m+1 \in S
    <2> DEFINE A == HolesBefore(rows, m)  B == {m} \X HoleMask(rows, m)
    <2>1. m \in Column /\ m \in Leaves /\ m+1 \in 0 .. W
      BY <1>1, SizeFacts DEF Column
    <2>2. /\ IsFiniteSet(A) /\ Cardinality(A) = SumIn(v, 0 .. m-1)
          /\ IsFiniteSet(B) /\ Cardinality(B) = v[m]
      BY <1>1, <1>3, <2>1, ColumnHoles
    <2>3. HolesBefore(rows, m+1) = A \cup B
      <3>1. ASSUME NEW c \in Column \X Row
            PROVE  c \in HolesBefore(rows, m+1) <=> c \in A \cup B
        <4>1. c[1] \in Column /\ c[2] \in Row /\ c = <<c[1], c[2]>>
          OBVIOUS
        <4>2. c[1] < m+1 <=> c[1] < m \/ c[1] = m
          BY <4>1 DEF Column
        <4>3. c \in B <=> c[1] = m /\ c[2] \in HoleMask(rows, m)
          BY <4>1
        <4>4. c[1] = m => (c[2] \in HoleMask(rows, m) <=> c \in HoleCells(rows))
          BY <4>1, HeightsTyped DEF HoleMask, HoleCells
        <4> QED
          BY <4>2, <4>3, <4>4 DEF HolesBefore
      <3>2. HolesBefore(rows, m+1) \subseteq Column \X Row /\ A \subseteq Column \X Row /\ B \subseteq Column \X Row
        BY <2>1 DEF HolesBefore, HoleCells, HoleMask
      <3> HIDE DEF A, B
      <3> QED
        BY <3>1, <3>2
    <2>4. A \cap B = {}
      BY <2>1 DEF HolesBefore, Column
    <2> HIDE DEF A, B
    <2>5. /\ IsFiniteSet(A \cup B)
          /\ Cardinality(A \cup B) = Cardinality(A) + Cardinality(B) - Cardinality(A \cap B)
          /\ Cardinality(A \cap B) = 0
      BY <2>2, <2>4, FS_Union, FS_EmptySet
    <2>6. SumIn(v, 0 .. m) = SumIn(v, 0 .. m-1) + v[m] /\ SumIn(v, 0 .. m-1) \in Int /\ v[m] \in Int
      BY <1>1, <2>1, NextSum
    <2>7. Cardinality(A \cup B) = SumIn(v, 0 .. m-1) + v[m]
      BY <2>2, <2>5, <2>6
    <2>8. (m+1)-1 = m
      BY SizeFacts
    <2> QED
      BY <2>1, <2>3, <2>5, <2>6, <2>7, <2>8
  <1>4. \A m \in 0 .. W : m \in S
    <2> HIDE DEF S
    <2>1. S \in SUBSET Nat
      BY DEF S
    <2> QED
      BY <1>2, <1>3, <2>1, UpTo, SizeFacts
  <1> QED
    BY <1>4 DEF v

LEMMA HolesSum ==
    ASSUME BoardFits, NEW rows \in Board
    PROVE  /\ IsFiniteSet(HoleCells(rows)) /\ Holes(rows) = Cardinality(HoleCells(rows))
           /\ Holes(rows) = SumOf(HoleLeaves(rows)) /\ Holes(rows) \in 0 .. 200
  <1>1. Holes(rows) = Cardinality(HoleCells(rows))
    BY DEF Holes, HoleCells
  <1>2. HolesBefore(rows, W) = HoleCells(rows)
    BY SizeFacts DEF HolesBefore, HoleCells, Column
  <1>3. W \in 0 .. W
    BY SizeFacts
  <1>4. IsFiniteSet(HoleCells(rows)) /\ Holes(rows) = SumIn(HoleLeaves(rows), Column)
    BY <1>1, <1>2, <1>3, HolesOfColumns DEF Column
  <1>5. /\ HoleLeaves(rows) \in [Leaves -> Leaf] /\ HoleLeaves(rows) \in [Leaves -> Int]
        /\ (\A i \in Leaves \ Column : HoleLeaves(rows)[i] = 0) /\ Column \in SUBSET Leaves
    BY HoleLeafTypes, LeafTypes
  <1> QED
    BY <1>1, <1>4, <1>5, SumInBounds, WholeSum

(* The serial scan after the columns left of x and the cells above y in     *)
(* column x.                                                                *)
SeenAbove(rows, x, y) == \E r \in Row : r > y /\ x \in rows[r]
HolesScanned(rows, x, y) == {c \in HoleCells(rows) : c[1] < x \/ (c[1] = x /\ c[2] > y)}
HeightsScanned(rows, x, y) ==
    [i \in Column |-> IF i < x \/ (i = x /\ SeenAbove(rows, x, y)) THEN ColumnHeight(rows, i) ELSE 0]

LEMMA UsedFeatures ==
    ASSUME NEW q \in 0 .. 200, NEW u
    PROVE  /\ HolesUsed(PRECISION, q) = IF PRECISION = 3 THEN Saturated(q) ELSE q
           /\ BumpinessUsed(PRECISION, u) = IF PRECISION = 4 THEN 0 ELSE u
  <1>1. PRECISION \in 0 .. 7
    BY RulesAssumption
  <1>2. Profile(PRECISION).q_cap = (IF PRECISION = 3 THEN 15 ELSE 256)
        /\ (Profile(PRECISION).use_u <=> PRECISION # 4)
    BY <1>1, ProfileFields
  <1> QED
    BY <1>2 DEF HolesUsed, BumpinessUsed, Saturated

LEMMA OneMoreHole ==
    ASSUME NEW n \in 0 .. 199
    PROVE  HoleCounted(HolesUsed(PRECISION, n)) = HolesUsed(PRECISION, n+1)
  BY UsedFeatures DEF HoleCounted, Saturated

LEMMA CellFacts ==
    ASSUME NEW rows \in Board, NEW x \in Column, NEW y \in Row
    PROVE  /\ x \in rows[y] /\ ~SeenAbove(rows, x, y) => ColumnHeight(rows, x) = y + 1
           /\ <<x, y>> \in HoleCells(rows) <=> SeenAbove(rows, x, y) /\ x \notin rows[y]
           /\ SeenAbove(rows, x, y-1) <=> SeenAbove(rows, x, y) \/ x \in rows[y]
  <1> DEFINE h == ColumnHeight(rows, x)
  <1>1. /\ h \in 0 .. H /\ \A r \in Row : x \in rows[r] => r < h
        /\ h > 0 => h-1 \in Row /\ x \in rows[h-1]
    BY ColumnTop
  <1>2. ColumnHeights(rows)[x] = h
    BY DEF ColumnHeights
  <1> HIDE DEF h
  <1>3. y \in Int /\ \A r \in Row : r \in Int
    BY SizeFacts DEF Row
  <1>4. SeenAbove(rows, x, y) <=> h > y + 1
    <2>1. ASSUME SeenAbove(rows, x, y) PROVE h > y + 1
      <3>1. PICK r \in Row : r > y /\ x \in rows[r]
        BY <2>1 DEF SeenAbove
      <3> QED
        BY <1>1, <1>3, <3>1, SizeFacts
    <2>2. ASSUME h > y + 1 PROVE SeenAbove(rows, x, y)
      <3>1. h > 0 /\ h-1 > y
        BY <1>1, <1>3, <2>2, SizeFacts DEF Row
      <3> QED
        BY <1>1, <3>1 DEF SeenAbove
    <2> QED
      BY <2>1, <2>2
  <1>5. x \in rows[y] => h >= y + 1
    BY <1>1, <1>3, SizeFacts
  <1>6. h = y + 1 => x \in rows[y]
    <2>1. h = y + 1 => h > 0 /\ h-1 = y
      BY <1>3 DEF Row
    <2> QED
      BY <1>1, <2>1
  <1>7. SeenAbove(rows, x, y-1) <=> SeenAbove(rows, x, y) \/ x \in rows[y]
    <2>1. \A r \in Row : r > y-1 <=> r > y \/ r = y
      BY <1>3
    <2> QED
      BY <2>1 DEF SeenAbove
  <1>8. <<x, y>> \in HoleCells(rows) <=> y < h /\ x \notin rows[y]
    BY <1>2 DEF HoleCells
  <1> QED
    BY <1>1, <1>3, <1>4, <1>5, <1>6, <1>7, <1>8, SizeFacts DEF h

LEMMA ScanBeginsColumns ==
    ASSUME NEW rows \in Board
    PROVE  /\ ~SeenAbove(rows, 0, H-1) /\ HolesScanned(rows, 0, H-1) = {}
           /\ HeightsScanned(rows, 0, H-1) = [x \in Column |-> 0]
  <1>1. \A r \in Row : ~(r > H-1)
    BY SizeFacts DEF Row
  <1>2. ~SeenAbove(rows, 0, H-1)
    BY <1>1 DEF SeenAbove
  <1>3. HolesScanned(rows, 0, H-1) = {}
    BY <1>1, SizeFacts DEF HolesScanned, HoleCells, Column
  <1>4. \A i \in Column : ~(i < 0)
    BY DEF Column
  <1> QED
    BY <1>2, <1>3, <1>4 DEF HeightsScanned

(* The end of a column is the start of the next.                            *)
LEMMA NextColumn ==
    ASSUME NEW rows \in Board, NEW x \in Column
    PROVE  /\ ~SeenAbove(rows, x+1, H-1)
           /\ HolesScanned(rows, x, 0-1) = HolesScanned(rows, x+1, H-1)
           /\ HeightsScanned(rows, x, 0-1) = HeightsScanned(rows, x+1, H-1)
  <1>1. \A r \in Row : ~(r > H-1) /\ r > 0-1
    BY SizeFacts DEF Row
  <1>2. ~SeenAbove(rows, x+1, H-1)
    BY <1>1 DEF SeenAbove
  <1>3. \A i \in Column : i < x+1 <=> i < x \/ i = x
    BY DEF Column
  <1>4. HolesScanned(rows, x, 0-1) = HolesScanned(rows, x+1, H-1)
    BY <1>1, <1>3 DEF HolesScanned, HoleCells
  <1>5. ~SeenAbove(rows, x, 0-1) => ColumnHeight(rows, x) = 0
    <2>1. ColumnHeight(rows, x) \in Nat
          /\ (ColumnHeight(rows, x) > 0 => \E r \in Row : x \in rows[r])
      BY ColumnTop, SizeFacts
    <2> QED
      BY <1>1, <2>1 DEF SeenAbove
  <1>6. ASSUME NEW i \in Column
        PROVE  (IF i < x \/ (i = x /\ SeenAbove(rows, x, 0-1)) THEN ColumnHeight(rows, i) ELSE 0)
                 = IF i < x+1 \/ (i = x+1 /\ SeenAbove(rows, x+1, H-1)) THEN ColumnHeight(rows, i) ELSE 0
    BY <1>2, <1>3, <1>5
  <1>7. HeightsScanned(rows, x, 0-1) = HeightsScanned(rows, x+1, H-1)
    BY <1>6 DEF HeightsScanned
  <1> QED
    BY <1>2, <1>4, <1>7

LEMMA ScanEndsColumns ==
    ASSUME NEW rows \in Board
    PROVE  HolesScanned(rows, W, H-1) = HoleCells(rows) /\ HeightsScanned(rows, W, H-1) = ColumnHeights(rows)
  <1>1. \A i \in Column : i < W
    BY SizeFacts DEF Column
  <1> QED
    BY <1>1 DEF HolesScanned, HoleCells, HeightsScanned, ColumnHeights

LEMMA CellScan ==
    ASSUME BoardFits, NEW rows \in Board, NEW x \in Column, NEW y \in Row
    PROVE  /\ IsFiniteSet(HolesScanned(rows, x, y)) /\ Cardinality(HolesScanned(rows, x, y)) \in 0 .. 200
           /\ HeightsScanned(rows, x, y-1)
                = IF x \in rows[y] /\ ~SeenAbove(rows, x, y)
                  THEN [HeightsScanned(rows, x, y) EXCEPT ![x] = y + 1] ELSE HeightsScanned(rows, x, y)
           /\ HolesUsed(PRECISION, Cardinality(HolesScanned(rows, x, y-1)))
                = IF SeenAbove(rows, x, y) /\ x \notin rows[y]
                  THEN HoleCounted(HolesUsed(PRECISION, Cardinality(HolesScanned(rows, x, y))))
                  ELSE HolesUsed(PRECISION, Cardinality(HolesScanned(rows, x, y)))
  <1> DEFINE S == HolesScanned(rows, x, y)  T == HolesScanned(rows, x, y-1)
  <1>1. IsFiniteSet(HoleCells(rows)) /\ Cardinality(HoleCells(rows)) \in 0 .. 200
    BY HolesSum
  <1>2. S \in SUBSET HoleCells(rows) /\ T \in SUBSET HoleCells(rows)
    BY DEF HolesScanned
  <1>3. \A r \in Row : r > y-1 <=> r > y \/ r = y
    BY SizeFacts DEF Row
  <1>4. /\ x \in rows[y] /\ ~SeenAbove(rows, x, y) => ColumnHeight(rows, x) = y + 1
        /\ <<x, y>> \in HoleCells(rows) <=> SeenAbove(rows, x, y) /\ x \notin rows[y]
        /\ SeenAbove(rows, x, y-1) <=> SeenAbove(rows, x, y) \/ x \in rows[y]
    BY CellFacts
  <1>5. T = IF <<x, y>> \in HoleCells(rows) THEN S \cup {<<x, y>>} ELSE S
    <2>1. \A c \in HoleCells(rows) : c[2] \in Row /\ c = <<c[1], c[2]>>
      BY DEF HoleCells
    <2>2. \A c \in HoleCells(rows) : c \in T <=> c \in S \/ c = <<x, y>>
      BY <1>3, <2>1 DEF HolesScanned
    <2> HIDE DEF S, T
    <2> QED
      BY <1>2, <2>2
  <1>6. <<x, y>> \notin S
    <2>1. ~(x < x) /\ ~(y > y)
      BY SizeFacts DEF Column, Row
    <2> QED
      BY <2>1 DEF HolesScanned
  <1> HIDE DEF S, T
  <1>7. /\ IsFiniteSet(S) /\ Cardinality(S) <= Cardinality(HoleCells(rows)) /\ Cardinality(S) \in Nat
        /\ IsFiniteSet(T) /\ Cardinality(T) <= Cardinality(HoleCells(rows)) /\ Cardinality(T) \in Nat
    BY <1>1, <1>2, FS_Subset, FS_CardinalityType
  <1>8. Cardinality(T) = IF <<x, y>> \in HoleCells(rows) THEN Cardinality(S) + 1 ELSE Cardinality(S)
    BY <1>5, <1>6, <1>7, FS_AddElement
  <1>9. HolesUsed(PRECISION, Cardinality(T))
          = IF SeenAbove(rows, x, y) /\ x \notin rows[y]
            THEN HoleCounted(HolesUsed(PRECISION, Cardinality(S))) ELSE HolesUsed(PRECISION, Cardinality(S))
    <2>1. CASE <<x, y>> \in HoleCells(rows)
      <3>1. Cardinality(S) \in 0 .. 199
        BY <1>1, <1>7, <1>8, <2>1
      <3> QED
        BY <1>4, <1>8, <2>1, <3>1, OneMoreHole
    <2>2. CASE <<x, y>> \notin HoleCells(rows)
      BY <1>4, <1>8, <2>2
    <2> QED
      BY <2>1, <2>2
  <1>10. HeightsScanned(rows, x, y-1)
           = IF x \in rows[y] /\ ~SeenAbove(rows, x, y)
             THEN [HeightsScanned(rows, x, y) EXCEPT ![x] = y + 1] ELSE HeightsScanned(rows, x, y)
    <2>1. \A i \in Column : i = x => ~(i < x)
      BY DEF Column
    <2>2. CASE x \in rows[y] /\ ~SeenAbove(rows, x, y)
      <3>1. \A i \in Column : (IF i < x \/ (i = x /\ SeenAbove(rows, x, y-1)) THEN ColumnHeight(rows, i) ELSE 0)
              = IF i = x THEN y + 1
                ELSE IF i < x \/ (i = x /\ SeenAbove(rows, x, y)) THEN ColumnHeight(rows, i) ELSE 0
        BY <1>4, <2>1, <2>2
      <3> QED
        BY <2>2, <3>1 DEF HeightsScanned
    <2>3. CASE ~(x \in rows[y] /\ ~SeenAbove(rows, x, y))
      BY <1>4, <2>3 DEF HeightsScanned
    <2> QED
      BY <2>2, <2>3
  <1> QED
    BY <1>1, <1>7, <1>9, <1>10 DEF S, T

-----------------------------------------------------------------------------
(* A function that a recursion on 0 .. N defines exists.                    *)
Computes(f, N, S, base, step) ==
    f \in [0 .. N -> S] /\ f[0] = base /\ \A n \in 1 .. N : f[n] = step[n][f[n-1]]

LEMMA Recursion ==
    ASSUME NEW N \in Nat, NEW S, NEW base \in S, NEW step \in [1 .. N -> [S -> S]]
    PROVE  \E f : Computes(f, N, S, base, step)
  <1> DEFINE Good(f, m) == Computes(f, m, S, base, step)
             T == {m \in 0 .. N : \E f : Good(f, m)}
  <1>1. 0 \in T
    <2>1. Good([i \in 0 .. 0 |-> base], 0)
      BY DEF Computes
    <2> HIDE DEF Good
    <2> QED
      BY <2>1
  <1>2. ASSUME NEW m \in 0 .. N-1, m \in T
        PROVE  m+1 \in T
    <2>1. PICK f : Good(f, m)
      BY <1>2
    <2> USE DEF Computes
    <2> DEFINE v == step[m+1][f[m]]
               g == [i \in 0 .. m+1 |-> IF i <= m THEN f[i] ELSE v]
    <2>2. m+1 \in 1 .. N /\ f[m] \in S
      BY <2>1
    <2>3. step[m+1] \in [S -> S]
      BY <2>2
    <2>4. v \in S
      BY <2>2, <2>3
    <2> HIDE DEF v
    <2>5. g \in [0 .. m+1 -> S] /\ g[0] = base
      BY <2>1, <2>4
    <2>6. ASSUME NEW n \in 1 .. m+1 PROVE g[n] = step[n][g[n-1]]
      <3>1. CASE n <= m
        <4>1. n \in 1 .. m /\ g[n] = f[n] /\ g[n-1] = f[n-1]
          BY <3>1
        <4> QED
          BY <4>1, <2>1
      <3>2. CASE n = m+1
        <4>1. g[n] = v /\ g[n-1] = f[m]
          BY <3>2
        <4> QED
          BY <4>1, <3>2 DEF v
      <3> QED
        BY <3>1, <3>2
    <2>7. Good(g, m+1)
      BY <2>5, <2>6
    <2>8. m+1 \in 0 .. N
      OBVIOUS
    <2> HIDE DEF Good, g
    <2> QED
      BY <2>7, <2>8
  <1>3. \A n \in 0 .. N : n \in T
    <2>1. T \in SUBSET Nat
      OBVIOUS
    <2> HIDE DEF T
    <2> QED
      BY <1>1, <1>2, <2>1, UpTo
  <1> QED
    BY <1>3

-----------------------------------------------------------------------------
(* The scan of a list, entry by entry.                                      *)
Scans(out, ids, keep, D) ==
    /\ Selected(ids, keep) = out[Len(ids)] /\ out[0] = <<>>
    /\ \A n \in 0 .. Len(ids) : out[n] \in Seq(D \cap keep)
    /\ \A n \in 1 .. Len(ids) : out[n] = IF ids[n] \in keep THEN Append(out[n-1], ids[n]) ELSE out[n-1]

LEMMA SelectedScan ==
    ASSUME NEW D, NEW ids \in Seq(D), NEW keep
    PROVE  \E out : Scans(out, ids, keep, D)
  <1> DEFINE N == Len(ids)  S == Seq(D \cap keep)
             Body(f, n) == IF n = 0 THEN <<>> ELSE IF ids[n] \in keep THEN Append(f[n-1], ids[n]) ELSE f[n-1]
             Out == CHOOSE f : f = [n \in 0 .. N |-> Body(f, n)]
             step == [n \in 1 .. N |-> [v \in S |-> IF ids[n] \in keep THEN Append(v, ids[n]) ELSE v]]
             T == {n \in 0 .. N : Out[n] \in S}
  <1>1. Selected(ids, keep) = Out[N]
    BY DEF Selected
  <1>2. N \in Nat
    OBVIOUS
  <1>3. <<>> \in S /\ \A v \in S : \A n \in 1 .. N : ids[n] \in keep => Append(v, ids[n]) \in S
    <2>1. \A n \in 1 .. N : ids[n] \in D
      OBVIOUS
    <2> HIDE DEF N
    <2> QED
      BY <2>1
  <1> HIDE DEF N, S
  <1>4. \A n \in 1 .. N, v \in S : step[n][v] = IF ids[n] \in keep THEN Append(v, ids[n]) ELSE v
    OBVIOUS
  <1>5. step \in [1 .. N -> [S -> S]]
    BY <1>3
  <1> HIDE DEF step
  <1>6. PICK f : f \in [0 .. N -> S] /\ f[0] = <<>> /\ \A n \in 1 .. N : f[n] = step[n][f[n-1]]
    <2>1. \E f : Computes(f, N, S, <<>>, step)
      BY <1>2, <1>3, <1>5, Recursion
    <2> QED
      BY <2>1 DEF Computes
  <1>7. \A n \in 0 .. N : f[n] = Body(f, n)
    <2>1. \A n \in 1 .. N : n-1 \in 0 .. N /\ n # 0
      BY <1>2
    <2>2. \A n \in 1 .. N : f[n] = Body(f, n)
      BY <1>4, <1>6, <2>1
    <2>3. \A n \in 0 .. N : n = 0 \/ n \in 1 .. N
      BY <1>2
    <2> QED
      BY <1>6, <2>2, <2>3
  <1> HIDE DEF Body
  <1>8. f = [n \in 0 .. N |-> Body(f, n)]
    BY <1>6, <1>7
  <1>9. Out = [n \in 0 .. N |-> Body(Out, n)]
    BY <1>8, Zenon
  <1> HIDE DEF Out
  <1>10. \A n \in 0 .. N : Out[n] = Body(Out, n)
    BY <1>9
  <1>11. 0 \in T
    BY <1>2, <1>3, <1>10 DEF Body
  <1>12. ASSUME NEW n \in 0 .. N-1, n \in T PROVE n+1 \in T
    <2>1. n+1 \in 1 .. N /\ n+1 \in 0 .. N /\ (n+1)-1 = n /\ n+1 # 0 /\ Out[n] \in S
      BY <1>2, <1>12
    <2>2. Out[n+1] = IF ids[n+1] \in keep THEN Append(Out[n], ids[n+1]) ELSE Out[n]
      BY <2>1, <1>10 DEF Body
    <2> QED
      BY <1>3, <2>1, <2>2
  <1>13. \A n \in 0 .. N : n \in T
    <2>1. T \in SUBSET Nat
      BY <1>2
    <2> HIDE DEF T
    <2> QED
      BY <1>2, <1>11, <1>12, <2>1, UpTo
  <1>14. \A n \in 1 .. N : Out[n] = IF ids[n] \in keep THEN Append(Out[n-1], ids[n]) ELSE Out[n-1]
    <2>1. \A n \in 1 .. N : n \in 0 .. N /\ n # 0
      BY <1>2
    <2> QED
      BY <1>10, <2>1 DEF Body
  <1>15. Out[0] = <<>>
    BY <1>2, <1>10 DEF Body
  <1>16. Scans(Out, ids, keep, D)
    BY <1>1, <1>13, <1>14, <1>15 DEF Scans, S, N
  <1> QED
    BY <1>16

(* The ids a scan keeps are ids of the list, all those in keep.             *)
LEMMA SelectedIds ==
    ASSUME NEW D, NEW ids \in Seq(D), NEW keep
    PROVE  Selected(ids, keep) \in Seq(D \cap keep)
  <1>1. PICK out : Scans(out, ids, keep, D)
    BY SelectedScan
  <1>2. Len(ids) \in 0 .. Len(ids)
    OBVIOUS
  <1> QED
    BY <1>1, <1>2 DEF Scans

LEMMA SelectedAll ==
    ASSUME NEW D, NEW ids \in Seq(D), NEW keep, NEW i \in 1 .. Len(ids), ids[i] \in keep
    PROVE  ids[i] \in ToSet(Selected(ids, keep))
  <1> DEFINE N == Len(ids)
  <1>1. PICK out : Scans(out, ids, keep, D)
    BY SelectedScan
  <1> DEFINE T == {n \in 0 .. N : n >= i => \E k \in 1 .. Len(out[n]) : out[n][k] = ids[i]}
  <1>2. N \in Nat /\ i \in 1 .. N
    OBVIOUS
  <1>3. /\ \A n \in 0 .. N : out[n] \in Seq(D \cap keep)
        /\ \A n \in 1 .. N : out[n] = IF ids[n] \in keep THEN Append(out[n-1], ids[n]) ELSE out[n-1]
        /\ Selected(ids, keep) = out[N]
    BY <1>1 DEF Scans
  <1> HIDE DEF N
  <1>4. 0 \in T
    BY <1>2
  <1>5. ASSUME NEW n \in 0 .. N-1, n \in T PROVE n+1 \in T
    <2>1. n+1 \in 1 .. N /\ n+1 \in 0 .. N /\ (n+1)-1 = n /\ n \in 0 .. N /\ n \in Nat
      BY <1>2
    <2>2. out[n+1] = IF ids[n+1] \in keep THEN Append(out[n], ids[n+1]) ELSE out[n]
      BY <1>3, <2>1
    <2>3. out[n] \in Seq(D \cap keep) /\ out[n+1] \in Seq(D \cap keep)
      BY <1>3, <2>1
    <2>4. ASSUME n+1 >= i PROVE \E k \in 1 .. Len(out[n+1]) : out[n+1][k] = ids[i]
      <3>1. CASE i = n+1
        <4>1. ids[n+1] \in D \cap keep
          BY <2>1, <3>1 DEF N
        <4>2. out[n+1] = Append(out[n], ids[n+1])
          BY <2>2, <4>1
        <4>3. Len(out[n+1]) = Len(out[n]) + 1 /\ Len(out[n]) \in Nat /\ out[n+1][Len(out[n]) + 1] = ids[n+1]
          BY <2>3, <4>1, <4>2
        <4>4. Len(out[n]) + 1 \in 1 .. Len(out[n+1])
          BY <4>3
        <4> QED
          BY <3>1, <4>3, <4>4
      <3>2. CASE n >= i
        <4>1. PICK k \in 1 .. Len(out[n]) : out[n][k] = ids[i]
          BY <1>5, <3>2
        <4>2. CASE ids[n+1] \in keep
          <5>1. ids[n+1] \in D \cap keep /\ out[n+1] = Append(out[n], ids[n+1])
            BY <2>1, <2>2, <4>2 DEF N
          <5>2. k \in 1 .. Len(out[n+1]) /\ out[n+1][k] = out[n][k]
            BY <2>3, <4>1, <5>1
          <5> QED
            BY <4>1, <5>2
        <4>3. CASE ids[n+1] \notin keep
          BY <2>2, <4>1, <4>3
        <4> QED
          BY <4>2, <4>3
      <3> QED
        BY <1>2, <2>1, <2>4, <3>1, <3>2
    <2> QED
      BY <2>1, <2>4
  <1>6. \A n \in 0 .. N : n \in T
    <2>1. T \in SUBSET Nat
      BY <1>2
    <2> HIDE DEF T
    <2> QED
      BY <1>2, <1>4, <1>5, <2>1, UpTo
  <1>7. N \in 0 .. N /\ N >= i
    BY <1>2
  <1>8. PICK k \in 1 .. Len(out[N]) : out[N][k] = ids[i]
    BY <1>6, <1>7
  <1>9. DOMAIN out[N] = 1 .. Len(out[N])
    BY <1>3, <1>7
  <1> QED
    BY <1>3, <1>8, <1>9 DEF ToSet

(* A candidate's rotation exists and its columns are on the board; a legal  *)
(* action is a candidate that lands inside.                                 *)
LEMMA CandidateFacts ==
    ASSUME NEW p \in PieceId, NEW cid \in ToSet(CandidateIds[p])
    PROVE  cid \in 0 .. MAX_CANDIDATE_ID - 1 /\ IsValidCandidate(p, cid)
  <1> DEFINE all == [i \in 1 .. MAX_CANDIDATE_ID |-> i - 1]
             keep == {c \in 0 .. MAX_CANDIDATE_ID - 1 : IsValidCandidate(p, c)}
  <1>1. all \in Seq(0 .. MAX_CANDIDATE_ID - 1)
    BY DEF MAX_CANDIDATE_ID
  <1>2. CandidateIds[p] = Selected(all, keep)
    BY DEF CandidateIds
  <1>3. CandidateIds[p] \in Seq((0 .. MAX_CANDIDATE_ID - 1) \cap keep)
    BY <1>1, <1>2, SelectedIds
  <1> HIDE DEF keep
  <1>4. cid \in keep
    BY <1>3 DEF ToSet
  <1> QED
    BY <1>4 DEF keep

LEMMA CandidateListed ==
    ASSUME NEW p \in PieceId, NEW cid \in 0 .. MAX_CANDIDATE_ID - 1, IsValidCandidate(p, cid)
    PROVE  cid \in ToSet(CandidateIds[p])
  <1> DEFINE all == [i \in 1 .. MAX_CANDIDATE_ID |-> i - 1]
             keep == {c \in 0 .. MAX_CANDIDATE_ID - 1 : IsValidCandidate(p, c)}
  <1>1. all \in Seq(0 .. MAX_CANDIDATE_ID - 1) /\ Len(all) = MAX_CANDIDATE_ID
    BY DEF MAX_CANDIDATE_ID
  <1>2. CandidateIds[p] = Selected(all, keep)
    BY DEF CandidateIds
  <1>3. cid + 1 \in 1 .. Len(all) /\ all[cid + 1] = cid /\ cid \in keep
    BY <1>1 DEF MAX_CANDIDATE_ID
  <1> HIDE DEF all, keep
  <1> QED
    BY <1>1, <1>2, <1>3, SelectedAll

LEMMA LegalActionFacts ==
    ASSUME NEW rows, NEW p \in PieceId, NEW cid \in ToSet(LegalActions(rows, p))
    PROVE  /\ cid \in ToSet(CandidateIds[p])
           /\ LandsInside(rows, Shape(p, RotationOf(cid)), ColumnOf(cid))
  <1> DEFINE D == ToSet(CandidateIds[p])
             keep == {c \in D : LandsInside(rows, Shape(p, RotationOf(c)), ColumnOf(c))}
  <1>1. CandidateIds[p] \in Seq(D)
    <2> DEFINE all == [i \in 1 .. MAX_CANDIDATE_ID |-> i - 1]
               valid == {c \in 0 .. MAX_CANDIDATE_ID - 1 : IsValidCandidate(p, c)}
    <2>1. CandidateIds[p] = Selected(all, valid)
      BY DEF CandidateIds
    <2>2. all \in Seq(0 .. MAX_CANDIDATE_ID - 1)
      BY DEF MAX_CANDIDATE_ID
    <2>3. CandidateIds[p] \in Seq((0 .. MAX_CANDIDATE_ID - 1) \cap valid)
      BY <2>1, <2>2, SelectedIds
    <2> QED
      BY <2>3 DEF ToSet
  <1>2. LegalActions(rows, p) \in Seq(D \cap keep)
    BY <1>1, SelectedIds DEF LegalActions
  <1> HIDE DEF keep
  <1>3. cid \in keep
    BY <1>2 DEF ToSet
  <1> QED
    BY <1>3 DEF keep

-----------------------------------------------------------------------------
(* A placement: the piece lies on free cells of the board.                  *)
PieceCells(p, cid) == Shape(p, RotationOf(cid))
RestingRow(rows, p, cid) == PhysicalLanding(rows, PieceCells(p, cid), ColumnOf(cid))
Locked(rows, p, cid) == Merged(rows, PieceCells(p, cid), ColumnOf(cid), RestingRow(rows, p, cid))

LEMMA PieceFacts ==
    ASSUME NEW p \in PieceId, NEW cid \in ToSet(CandidateIds[p])
    PROVE  /\ [valid |-> TRUE, cells |-> PieceCells(p, cid)] \in ShapeSet
           /\ Cardinality(PieceCells(p, cid)) = 4 /\ IsFiniteSet(PieceCells(p, cid))
           /\ RotationOf(cid) \in 0 .. 3 /\ ColumnOf(cid) \in 0 .. 9
           /\ ColumnOf(cid) + Width(PieceCells(p, cid)) <= W
           /\ RotationOf(cid) < Len(Rotations[p])
  <1>1. cid \in 0 .. 39 /\ IsValidCandidate(p, cid)
    BY CandidateFacts DEF MAX_CANDIDATE_ID
  <1>2. RotationOf(cid) \in 0 .. 3 /\ ColumnOf(cid) \in 0 .. 9
    BY <1>1 DEF RotationOf, ColumnOf
  <1>3. RotationOf(cid) < Len(Rotations[p]) /\ ColumnOf(cid) + Width(PieceCells(p, cid)) <= W
    BY <1>1 DEF IsValidCandidate, PieceCells
  <1>4. PieceCells(p, cid) \in (SUBSET ((0 .. 3) \X (0 .. 3))) \ {{}} /\ Cardinality(PieceCells(p, cid)) = 4
    BY <1>2, <1>3, RomAssumption, ShapeAssumption DEF PieceCells
  <1>5. IsFiniteSet((0 .. 3) \X (0 .. 3))
    <2>1. IsFiniteSet(0 .. 3)
      <3>1. 0 \in Int /\ 3 \in Int
        OBVIOUS
      <3> QED
        BY <3>1, FS_Interval, Zenon
    <2> QED
      BY <2>1, FS_Product
  <1>6. IsFiniteSet(PieceCells(p, cid))
    BY <1>4, <1>5, FS_Subset
  <1> QED
    BY <1>2, <1>3, <1>4, <1>6 DEF ShapeSet

LEMMA BelowTheTop ==
    ASSUME NEW s \in ShapeSet, NEW c \in s.cells
    PROVE  c[2] < Height(s.cells)
  <1> DEFINE Y == {d[2] : d \in s.cells}
  <1>1. \A d \in s.cells : d[2] \in 0 .. 3
    BY ShapeFacts
  <1>2. Y \in SUBSET Int /\ Y # {} /\ \A y \in Y : y <= 3
    BY <1>1
  <1>3. Max(Y) \in Y /\ \A y \in Y : y <= Max(Y)
    <2> HIDE DEF Y
    <2> QED
      BY <1>2, MaxOf
  <1>4. Height(s.cells) = Max(Y) + 1
    BY DEF Height
  <1>5. c[2] \in Y
    OBVIOUS
  <1> HIDE DEF Y
  <1> QED
    BY <1>2, <1>3, <1>4, <1>5

LEMMA Placement ==
    ASSUME NEW rows \in Board, NEW p \in PieceId, NEW cid \in ToSet(CandidateIds[p]),
           LandsInside(rows, PieceCells(p, cid), ColumnOf(cid))
    PROVE  /\ RestingRow(rows, p, cid) \in 0 .. H
           /\ \A c \in PieceCells(p, cid) :
                  /\ c[1] \in 0 .. 3 /\ c[2] \in 0 .. 3 /\ c = <<c[1], c[2]>>
                  /\ ColumnOf(cid) + c[1] \in Column /\ RestingRow(rows, p, cid) + c[2] \in Row
                  /\ ColumnOf(cid) + c[1] \notin rows[RestingRow(rows, p, cid) + c[2]]
  <1> DEFINE s == [valid |-> TRUE, cells |-> PieceCells(p, cid)]
             cells == PieceCells(p, cid)
             x == ColumnOf(cid)
             L == RestingRow(rows, p, cid)
  <1>1. s \in ShapeSet /\ s.cells = cells /\ x \in Nat /\ x + Width(cells) <= W
    <2>1. x \in 0 .. 9 /\ x + Width(cells) <= W /\ s \in ShapeSet
      BY PieceFacts
    <2>2. s.cells = cells
      OBVIOUS
    <2> HIDE DEF s, cells, x
    <2> QED
      BY <2>1, <2>2
  <1>2. Stops(rows, cells, x, L) /\ L + Height(cells) <= H
    BY LandingStops DEF RestingRow, LandsInside
  <1>3. L \in 0 .. H
    BY <1>2 DEF Stops
  <1>4. /\ \A c \in cells : c[1] \in 0 .. 3 /\ c[2] \in 0 .. 3 /\ c = <<c[1], c[2]>> /\ c[1] < Width(cells)
        /\ Width(cells) \in 1 .. 4 /\ Height(cells) \in 1 .. 4
    <2> HIDE DEF s
    <2> QED
      BY <1>1, ShapeFacts
  <1>5. \A c \in cells : c[2] < Height(cells)
    <2> HIDE DEF s
    <2> QED
      BY <1>1, BelowTheTop
  <1> HIDE DEF s, cells, x, L
  <1>6. Fits(rows, cells, x, L)
    <2>1. L+1 \in L+1 .. H /\ (L+1)-1 = L
      BY <1>2, <1>3, <1>4, SizeFacts
    <2> QED
      BY <1>2, <2>1 DEF Stops
  <1>7. \A c \in cells : x + c[1] \in Column /\ L + c[2] \in Row
    BY <1>1, <1>2, <1>3, <1>4, <1>5, SizeFacts DEF Column, Row
  <1>8. \A c \in cells : x + c[1] \notin rows[L + c[2]]
    BY <1>6, <1>7, SizeFacts DEF Fits, Row
  <1> QED
    BY <1>3, <1>4, <1>7, <1>8 DEF cells, x, L

LEMMA LockedBoard ==
    ASSUME NEW rows \in Board, NEW p \in PieceId, NEW cid \in ToSet(CandidateIds[p]),
           LandsInside(rows, PieceCells(p, cid), ColumnOf(cid))
    PROVE  /\ Locked(rows, p, cid) \in Board
           /\ rows \in Normalized => Lines(Locked(rows, p, cid)) \in 0 .. 4
           /\ Evaluate(rows, p, cid).next = Cleared(Locked(rows, p, cid))
           /\ Evaluate(rows, p, cid)
                = Scored(RestingRow(rows, p, cid), Lines(Locked(rows, p, cid)), Cleared(Locked(rows, p, cid)),
                         FeaturesOf(Cleared(Locked(rows, p, cid))))
  <1> DEFINE cells == PieceCells(p, cid)
             x == ColumnOf(cid)
             L == RestingRow(rows, p, cid)
             M == Locked(rows, p, cid)
             Added(r) == {x + c[1] : c \in {d \in cells : L + d[2] = r}}
  <1>1. /\ L \in 0 .. H
        /\ \A c \in cells : c[2] \in 0 .. 3 /\ x + c[1] \in Column
    BY Placement
  <1>2. M = [r \in Row |-> rows[r] \cup Added(r)]
    BY DEF Locked, Merged
  <1>3. \A r \in Row : Added(r) \in SUBSET Column
    BY <1>1
  <1>4. ASSUME NEW r \in Row, r \notin L .. L+3 PROVE Added(r) = {}
    BY <1>1, <1>4
  <1>5. Evaluate(rows, p, cid) = Scored(L, Lines(M), Cleared(M), FeaturesOf(Cleared(M)))
    BY DEF Evaluate, Locked, RestingRow, PieceCells
  <1> HIDE DEF cells, x, L, M, Added
  <1>6. M \in Board
    BY <1>2, <1>3 DEF Board
  <1>7. ASSUME rows \in Normalized PROVE Lines(M) \in 0 .. 4
    <2>1. \A r \in Row : M[r] = FULL_ROW => r \in L .. L+3
      <3>1. SUFFICES ASSUME NEW r \in Row, M[r] = FULL_ROW, r \notin L .. L+3 PROVE FALSE
        OBVIOUS
      <3>2. M[r] = rows[r]
        BY <1>2, <1>4, <3>1
      <3> QED
        BY <3>1, <3>2, <1>7 DEF Normalized
    <2> QED
      BY <1>1, <1>6, <2>1, FewLines, SizeFacts
  <1>8. Evaluate(rows, p, cid).next = Cleared(M)
    BY <1>5 DEF Scored
  <1> QED
    BY <1>5, <1>6, <1>7, <1>8 DEF L, M

-----------------------------------------------------------------------------
LEMMA NormalizedIsBoard == Normalized \subseteq Board
  BY DEF Normalized, Board

LEMMA PlayInitTyped == PlayInit => PlayTypeOK
  <1>1. 0 \in FULL_ROW
    BY SizeFacts DEF FULL_ROW, Column
  <1> QED
    BY <1>1, DealtAssumption DEF PlayInit, PlayTypeOK, Normalized, EMPTY_BOARD

LEMMA LegalPlacement ==
    ASSUME PlayTypeOK, NEW p \in Dealt, NEW cid \in ToSet(LegalActions(board, p))
    PROVE  /\ p \in PieceId /\ board \in Board /\ cid \in ToSet(CandidateIds[p])
           /\ LandsInside(board, PieceCells(p, cid), ColumnOf(cid))
  <1>1. p \in PieceId
    BY DealtAssumption
  <1> QED
    BY <1>1, LegalActionFacts, NormalizedIsBoard DEF PlayTypeOK, PieceCells

(* Every board of a game is one that the programs accept between two moves: *)
(* it has the board's rows and columns, and no full row is left standing.   *)
THEOREM BoardsStayNormalized == PlaySpec => []PlayTypeOK
  <1>1. ASSUME PlayTypeOK, PlayNext PROVE PlayTypeOK'
    <2>0. PICK p \in Dealt : \E cid \in ToSet(LegalActions(board, p)) : Place(p, cid)
      BY <1>1 DEF PlayNext
    <2>1. PICK cid \in ToSet(LegalActions(board, p)) : Place(p, cid)
      BY <2>0
    <2>2. /\ p \in PieceId /\ board \in Board /\ cid \in ToSet(CandidateIds[p])
          /\ LandsInside(board, PieceCells(p, cid), ColumnOf(cid))
      BY <1>1, LegalPlacement
    <2>3. board' = Cleared(Locked(board, p, cid)) /\ Locked(board, p, cid) \in Board
      BY <2>1, <2>2, LockedBoard DEF Place
    <2>4. board' \in Normalized
      BY <2>3, ClearedBoard
    <2>5. pieces' \in 0 .. MaxPieces
      BY <1>1, <2>1, DealtAssumption DEF Place, PlayTypeOK
    <2> QED
      BY <2>4, <2>5 DEF PlayTypeOK
  <1>2. PlayTypeOK /\ UNCHANGED playVars => PlayTypeOK'
    BY DEF PlayTypeOK, playVars
  <1> QED
    BY <1>1, <1>2, PlayInitTyped, PTL DEF PlaySpec

-----------------------------------------------------------------------------
(* The cells of a board, row by row.                                        *)
CellsBelow(rows, n) == {c \in Cells(rows) : c[1] < n}

LEMMA Images ==
    ASSUME NEW S, IsFiniteSet(S), NEW T, NEW f \in [S -> T],
           \A a, b \in S : f[a] = f[b] => a = b, \A t \in T : \E a \in S : f[a] = t
    PROVE  IsFiniteSet(T) /\ Cardinality(T) = Cardinality(S)
  <1>1. f \in Injection(S, T) /\ f \in Surjection(S, T)
    BY DEF Injection, Surjection, IsInjective
  <1>2. f \in Bijection(S, T)
    BY <1>1, Zenon DEF Bijection
  <1>3. ExistsBijection(S, T)
    BY <1>2 DEF ExistsBijection
  <1> QED
    BY <1>3, FS_Bijection

LEMMA FiniteCells ==
    ASSUME NEW rows \in Board
    PROVE  /\ IsFiniteSet(Cells(rows)) /\ Cardinality(Cells(rows)) \in Nat
           /\ \A n : IsFiniteSet(CellsBelow(rows, n)) /\ Cardinality(CellsBelow(rows, n)) \in Nat
           /\ \A n \in Row : IsFiniteSet(rows[n]) /\ Cardinality(rows[n]) \in Nat
           /\ Cardinality(FULL_ROW) = W
  <1>1. IsFiniteSet(Row) /\ IsFiniteSet(Column) /\ Cardinality(Column) = W
    BY SizeFacts, FS_Interval DEF Row, Column
  <1>2. IsFiniteSet(Row \X Column)
    BY <1>1, FS_Product
  <1>3. IsFiniteSet(Cells(rows))
    BY <1>2, FS_Subset DEF Cells
  <1>4. \A n : IsFiniteSet(CellsBelow(rows, n))
    BY <1>3, FS_Subset DEF CellsBelow
  <1>5. \A n \in Row : IsFiniteSet(rows[n])
    BY <1>1, FS_Subset DEF Board
  <1> QED
    BY <1>1, <1>3, <1>4, <1>5, FS_CardinalityType DEF FULL_ROW

LEMMA NextRowOfCells ==
    ASSUME NEW rows \in Board, NEW n \in Row
    PROVE  Cardinality(CellsBelow(rows, n+1)) = Cardinality(CellsBelow(rows, n)) + Cardinality(rows[n])
  <1> DEFINE C == CellsBelow(rows, n)  D == {n} \X rows[n]  f == [x \in rows[n] |-> <<n, x>>]
  <1>1. n \in Nat /\ rows[n] \in SUBSET Column
    BY SizeFacts DEF Row, Board
  <1>2. IsFiniteSet(C) /\ IsFiniteSet(rows[n]) /\ Cardinality(C) \in Nat /\ Cardinality(rows[n]) \in Nat
    BY FiniteCells
  <1>3. IsFiniteSet(D) /\ Cardinality(D) = Cardinality(rows[n])
    <2>1. f \in [rows[n] -> D]
      OBVIOUS
    <2>2. \A a, b \in rows[n] : f[a] = f[b] => a = b
      OBVIOUS
    <2>3. \A t \in D : t[2] \in rows[n] /\ f[t[2]] = t
      OBVIOUS
    <2> HIDE DEF f, D
    <2> QED
      BY <1>2, <2>1, <2>2, <2>3, Images
  <1>4. CellsBelow(rows, n+1) = C \cup D
    <2>1. \A c \in Cells(rows) : c[1] \in Row /\ c[1] \in Int /\ c[2] \in rows[c[1]] /\ c = <<c[1], c[2]>>
      BY DEF Cells, Row
    <2>2. \A c \in D : c \in Cells(rows) /\ c[1] = n
      BY <1>1 DEF Cells
    <2>3. \A c \in Cells(rows) : c[1] = n => c \in D
      BY <2>1
    <2> HIDE DEF D
    <2> QED
      BY <1>1, <2>1, <2>2, <2>3 DEF CellsBelow
  <1>5. C \cap D = {}
    BY <1>1 DEF CellsBelow
  <1>6. Cardinality(C \cap D) = 0
    BY <1>5, FS_EmptySet
  <1> HIDE DEF C, D
  <1>7. Cardinality(C \cup D) = Cardinality(C) + Cardinality(D) - Cardinality(C \cap D)
    BY <1>2, <1>3, FS_Union
  <1>8. Cardinality(C \cup D) = Cardinality(C) + Cardinality(rows[n])
    BY <1>2, <1>3, <1>6, <1>7
  <1> QED
    BY <1>4, <1>8, Zenon DEF C

(* Clearing removes whole rows, and nothing else.                           *)
LEMMA ClearedCells ==
    ASSUME NEW rows \in Board
    PROVE  Cardinality(Cells(rows)) = Cardinality(Cells(Cleared(rows))) + W * Lines(rows)
  <1> DEFINE K == KeptOf(rows)
             next == Cleared(rows)
             Below(n) == Cardinality(CellsBelow(rows, n))
             Kept(n) == Cardinality(CellsBelow(next, Len(K[n])))
             Gone(n) == n - Len(K[n])
             S == {n \in 0 .. H : Below(n) = Kept(n) + W * Gone(n)}
  <1>1. next \in Board /\ W \in Nat /\ H \in Nat
    BY ClearedBoard, SizeFacts
  <1>2. \A n \in 0 .. H : Below(n) \in Nat /\ Kept(n) \in Nat /\ Len(K[n]) \in 0 .. n
    BY <1>1, FiniteCells, KeptRows
  <1>3. \A n \in Row : n \in 0 .. H /\ n+1 \in 0 .. H /\ n \in Int
    BY SizeFacts DEF Row
  <1>4. 0 \in S
    <2>1. Len(K[0]) = 0
      BY KeptSteps
    <2>2. \A b \in Board : CellsBelow(b, 0) = {}
      BY SizeFacts DEF CellsBelow, Cells, Row
    <2>3. Below(0) = 0 /\ Kept(0) = 0
      BY <1>1, <2>1, <2>2, FS_EmptySet
    <2>4. W * Gone(0) = 0
      BY <1>1, <2>1
    <2> HIDE DEF Below, Kept, Gone
    <2> QED
      BY <1>1, <2>3, <2>4
  <1>5. ASSUME NEW n \in 0 .. H-1, n \in S PROVE n+1 \in S
    <2>1. n \in Row /\ n \in Nat /\ n < H /\ n+1 \in 0 .. H /\ n \in 0 .. H /\ Below(n) = Kept(n) + W * Gone(n)
      BY <1>5, <1>1 DEF Row
    <2>2. Below(n+1) = Below(n) + Cardinality(rows[n])
      BY <2>1, NextRowOfCells
    <2>3. Len(K[n]) \in Nat /\ Len(K[n]) <= n /\ Gone(n) \in Nat
      <3>1. Len(K[n]) \in 0 .. n
        BY <1>2, <2>1
      <3> HIDE DEF K
      <3> QED
        BY <2>1, <3>1
    <2>4. Below(n) \in Nat /\ Kept(n) \in Nat /\ Cardinality(rows[n]) \in Nat /\ W * Gone(n) \in Nat
      <3>1. Below(n) \in Nat /\ Kept(n) \in Nat /\ Cardinality(rows[n]) \in Nat
        BY <1>2, <2>1, FiniteCells
      <3> HIDE DEF Gone
      <3>2. W * Gone(n) \in Nat
        BY <1>1, <2>3
      <3> QED
        BY <3>1, <3>2
    <2>5. CASE rows[n] = FULL_ROW
      <3>1. K[n+1] = K[n]
        BY <2>1, <2>5, FullRowGoes
      <3>2. Cardinality(rows[n]) = W
        BY <2>5, FiniteCells
      <3>3. Kept(n+1) = Kept(n)
        BY <3>1
      <3>4. Gone(n+1) = Gone(n) + 1
        <4> HIDE DEF K
        <4> QED
          BY <2>1, <2>3, <3>1
      <3> HIDE DEF Below, Kept, Gone
      <3>5. W * Gone(n+1) = W * Gone(n) + W
        BY <1>1, <2>3, <3>4
      <3> QED
        BY <1>1, <2>1, <2>2, <2>4, <3>2, <3>3, <3>5
    <2>6. CASE rows[n] # FULL_ROW
      <3>1. Len(K[n+1]) = Len(K[n]) + 1 /\ Len(K[n]) + 1 \in 1 .. Len(Survivors(rows))
            /\ Survivors(rows)[Len(K[n]) + 1] = rows[n]
        BY <2>1, <2>6, SurvivorPlace
      <3>2. Len(K[n]) \in Row /\ next[Len(K[n])] = rows[n]
        <4> DEFINE k == Len(K[n])  top == Len(Survivors(rows))
        <4>1. top \in Nat
          BY KeptRecursion, KeptRows, SizeFacts
        <4>2. k \in Nat /\ k <= n /\ k + 1 \in 1 .. top /\ Survivors(rows)[k+1] = rows[n]
          BY <2>3, <3>1
        <4>3. next = [y \in Row |-> IF y < top THEN Survivors(rows)[y+1] ELSE {}]
          BY DEF Cleared
        <4> HIDE DEF k, top, next
        <4>4. k \in Row /\ k < top
          BY <1>1, <2>1, <4>1, <4>2 DEF Row
        <4>5. next[k] = rows[n]
          BY <4>2, <4>3, <4>4
        <4> QED
          BY <4>4, <4>5 DEF k
      <3>3. Kept(n+1) = Kept(n) + Cardinality(rows[n])
        <4>1. Cardinality(CellsBelow(next, Len(K[n]) + 1))
                = Cardinality(CellsBelow(next, Len(K[n]))) + Cardinality(next[Len(K[n])])
          BY <1>1, <3>2, NextRowOfCells
        <4> QED
          BY <3>1, <3>2, <4>1
      <3>4. Gone(n+1) = Gone(n)
        <4> HIDE DEF K
        <4> QED
          BY <2>1, <2>3, <3>1
      <3> HIDE DEF Below, Kept, Gone
      <3> QED
        BY <2>1, <2>2, <2>4, <3>3, <3>4
    <2> QED
      BY <2>5, <2>6
  <1>6. \A n \in 0 .. H : n \in S
    <2>1. S \in SUBSET Nat
      BY <1>1
    <2> HIDE DEF S
    <2> QED
      BY <1>1, <1>4, <1>5, <2>1, UpTo
  <1>7. Below(H) = Kept(H) + W * Gone(H) /\ K[H] = Survivors(rows)
    BY <1>1, <1>6, KeptRecursion
  <1>8. CellsBelow(rows, H) = Cells(rows)
    BY SizeFacts DEF CellsBelow, Cells, Row
  <1>9. CellsBelow(next, Len(Survivors(rows))) = Cells(next)
    <2>1. Len(Survivors(rows)) \in Nat
      BY KeptRecursion, KeptRows, SizeFacts
    <2>2. ASSUME NEW c \in Cells(next) PROVE c[1] < Len(Survivors(rows))
      <3>1. c[1] \in Row /\ c[2] \in next[c[1]]
        BY DEF Cells
      <3> QED
        BY <3>1 DEF Cleared
    <2> HIDE DEF next
    <2> QED
      BY <2>2 DEF CellsBelow
  <1> QED
    BY <1>7, <1>8, <1>9 DEF Lines

(* A merge adds the four cells of the piece.                                *)
LEMMA LockedCells ==
    ASSUME NEW rows \in Board, NEW p \in PieceId, NEW cid \in ToSet(CandidateIds[p]),
           LandsInside(rows, PieceCells(p, cid), ColumnOf(cid))
    PROVE  Cardinality(Cells(Locked(rows, p, cid))) = Cardinality(Cells(rows)) + 4
  <1> DEFINE cells == PieceCells(p, cid)
             x == ColumnOf(cid)
             L == RestingRow(rows, p, cid)
             M == Locked(rows, p, cid)
             f == [c \in cells |-> <<L + c[2], x + c[1]>>]
             P == {f[c] : c \in cells}
  <1>1. /\ \A c \in cells : /\ c[1] \in 0 .. 3 /\ c[2] \in 0 .. 3 /\ c = <<c[1], c[2]>>
                            /\ x + c[1] \in Column /\ L + c[2] \in Row /\ x + c[1] \notin rows[L + c[2]]
        /\ L \in Nat
    BY Placement
  <1>2. x \in Nat /\ IsFiniteSet(cells) /\ Cardinality(cells) = 4
    <2>1. x \in 0 .. 9 /\ IsFiniteSet(cells) /\ Cardinality(cells) = 4
      BY PieceFacts
    <2> HIDE DEF x
    <2> QED
      BY <2>1
  <1>3. M = [r \in Row |-> rows[r] \cup {x + c[1] : c \in {d \in cells : L + d[2] = r}}]
    BY DEF Locked, Merged
  <1> HIDE DEF cells, x, L, M
  <1>4. IsFiniteSet(P) /\ Cardinality(P) = 4
    <2>1. \A a, b \in cells : f[a] = f[b] => a = b
      <3>1. SUFFICES ASSUME NEW a \in cells, NEW b \in cells, f[a] = f[b] PROVE a = b
        OBVIOUS
      <3>2. L + a[2] = L + b[2] /\ x + a[1] = x + b[1]
        BY <3>1
      <3>3. a[2] = b[2] /\ a[1] = b[1]
        BY <1>1, <1>2, <3>2
      <3> QED
        BY <1>1, <3>3
    <2>2. f \in [cells -> P] /\ \A t \in P : \E a \in cells : f[a] = t
      OBVIOUS
    <2> HIDE DEF f, P
    <2> QED
      BY <1>2, <2>1, <2>2, Images
  <1>5. Cells(M) = Cells(rows) \cup P
    <2>1. ASSUME NEW r \in Row, NEW i \in Column
          PROVE  i \in M[r] <=> i \in rows[r] \/ <<r, i>> \in P
      <3>1. i \in M[r] <=> i \in rows[r] \/ \E c \in cells : L + c[2] = r /\ i = x + c[1]
        BY <1>3
      <3>2. <<r, i>> \in P <=> \E c \in cells : <<r, i>> = <<L + c[2], x + c[1]>>
        OBVIOUS
      <3> QED
        BY <3>1, <3>2
    <2>2. \A t \in P : t \in Row \X Column
      BY <1>1
    <2>3. \A t \in Row \X Column : t[1] \in Row /\ t[2] \in Column /\ t = <<t[1], t[2]>>
      OBVIOUS
    <2> HIDE DEF P
    <2>4. \A t \in Row \X Column : t[2] \in M[t[1]] <=> t[2] \in rows[t[1]] \/ t \in P
      BY <2>1, <2>3
    <2> QED
      BY <2>2, <2>4 DEF Cells
  <1>6. Cells(rows) \cap P = {}
    BY <1>1 DEF Cells
  <1>7. IsFiniteSet(Cells(rows)) /\ Cardinality(Cells(rows)) \in Nat /\ Cardinality(Cells(rows) \cap P) = 0
    BY <1>6, FiniteCells, FS_EmptySet
  <1> HIDE DEF P
  <1>8. Cardinality(Cells(rows) \cup P) = Cardinality(Cells(rows)) + Cardinality(P) - Cardinality(Cells(rows) \cap P)
    BY <1>4, <1>7, FS_Union
  <1> QED
    BY <1>4, <1>5, <1>7, <1>8 DEF M

(* Every move of a game adds the four cells of its piece and removes up to  *)
(* four whole rows: the lock overwrites nothing, and closing the gaps loses *)
(* and copies nothing.                                                      *)
THEOREM MovesConserveCells == PlaySpec => CellsConserved
  <1> DEFINE Conserved == \E lines \in 0 .. 4 :
                 Cardinality(Cells(board')) = Cardinality(Cells(board)) + 4 - W * lines
  <1>1. ASSUME PlayTypeOK, PlayNext PROVE Conserved
    <2>0. PICK p \in Dealt : \E cid \in ToSet(LegalActions(board, p)) : Place(p, cid)
      BY <1>1 DEF PlayNext
    <2>1. PICK cid \in ToSet(LegalActions(board, p)) : Place(p, cid)
      BY <2>0
    <2>2. /\ p \in PieceId /\ board \in Board /\ cid \in ToSet(CandidateIds[p])
          /\ LandsInside(board, PieceCells(p, cid), ColumnOf(cid))
      BY <1>1, LegalPlacement
    <2> DEFINE M == Locked(board, p, cid)
    <2>3. board' = Cleared(M) /\ M \in Board /\ Lines(M) \in 0 .. 4
      BY <1>1, <2>1, <2>2, LockedBoard DEF Place, PlayTypeOK
    <2>4. Cardinality(Cells(M)) = Cardinality(Cells(board)) + 4
      BY <2>2, LockedCells
    <2> HIDE DEF M
    <2>5. Cardinality(Cells(M)) = Cardinality(Cells(board')) + W * Lines(M)
      BY <2>3, ClearedCells
    <2>6. Cardinality(Cells(board)) \in Nat /\ Cardinality(Cells(board')) \in Nat /\ W * Lines(M) \in Nat
      <3>1. Cleared(M) \in Board
        BY <2>3, ClearedBoard
      <3> QED
        BY <2>2, <2>3, <3>1, FiniteCells, SizeFacts
    <2>7. Cardinality(Cells(board')) = Cardinality(Cells(board)) + 4 - W * Lines(M)
      BY <2>4, <2>5, <2>6
    <2> QED
      BY <2>3, <2>7
  <1>2. PlayTypeOK /\ [PlayNext]_playVars => [Conserved]_playVars
    BY <1>1
  <1> QED
    BY <1>2, BoardsStayNormalized, PTL DEF PlaySpec, CellsConserved

-----------------------------------------------------------------------------
(* The column twin.  Its heights and its landing row.                       *)
LEMMA TwinHeights ==
    ASSUME NEW rows \in Board
    PROVE  HeightsOf(RowsToCols(rows)) = ColumnHeights(rows)
  BY DEF HeightsOf, RowsToCols, BitLength, ColumnHeights, ColumnHeight

(* The greatest of the differences of a piece's columns, and the floor: the *)
(* places of the other columns of the tile hold less.                       *)
GreatestOf(d, T) == Max({0} \cup {d[k] : k \in T})

LEMMA TileMaximum ==
    ASSUME NEW d \in [0 .. 3 -> Int], NEW T \in SUBSET (0 .. 3), NEW top \in Nat,
           \A k \in 0 .. 3 : d[k] <= top, \A k \in (0 .. 3) \ T : d[k] = -1
    PROVE  GreatestOf(d, 0 .. 3) = GreatestOf(d, T)
  <1> DEFINE P == {0} \cup {d[k] : k \in 0 .. 3}
             Q == {0} \cup {d[k] : k \in T}
  <1>1. P \in SUBSET Int /\ Q \in SUBSET Int /\ 0 \in P /\ 0 \in Q
        /\ (\A y \in P : y <= top) /\ Q \subseteq P
    OBVIOUS
  <1>2. \A y \in P : y \in Q \/ y = -1
    OBVIOUS
  <1> HIDE DEF P, Q
  <1>0. top \in Int /\ P # {} /\ Q # {}
    BY <1>1
  <1>3. Max(P) \in P /\ \A y \in P : y <= Max(P)
    BY <1>0, <1>1, MaxOf
  <1>4. \A y \in Q : y <= top
    BY <1>1
  <1>5. Max(Q) \in Q /\ \A y \in Q : y <= Max(Q)
    BY <1>0, <1>1, <1>4, MaxOf
  <1>6. Max(P) \in Q
    <2>1. 0 <= Max(P)
      BY <1>1, <1>3
    <2>2. Max(P) # -1
      BY <2>1
    <2> QED
      BY <1>2, <1>3, <2>2
  <1>7. Max(P) <= Max(Q) /\ Max(Q) <= Max(P) /\ Max(P) \in Int /\ Max(Q) \in Int
    BY <1>1, <1>3, <1>5, <1>6
  <1> QED
    BY <1>7 DEF P, Q, GreatestOf

LEMMA TwinLanding ==
    ASSUME NEW rows \in Board, NEW p \in PieceId, NEW cid \in ToSet(CandidateIds[p])
    PROVE  Landing(ColumnHeights(rows), PieceCells(p, cid), ColumnOf(cid)) = RestingRow(rows, p, cid)
  <1> DEFINE s == [valid |-> TRUE, cells |-> PieceCells(p, cid)]
             cells == PieceCells(p, cid)
             x == ColumnOf(cid)
             h == ColumnHeights(rows)
             d == [k \in 0 .. 3 |-> Difference(h, s, x, k)]
             T == Columns(cells)
  <1>1. s \in ShapeSet /\ s.cells = cells /\ s.valid /\ x \in 0 .. 9 /\ x + Width(cells) <= W
    BY PieceFacts
  <1>2. GeometryOk(s, x)
    BY <1>1 DEF GeometryOk
  <1>3. LandingOf(d) = RestingRow(rows, p, cid)
    <2>1. x \in Nat
      BY <1>1
    <2> HIDE DEF s
    <2> QED
      BY <1>1, <1>2, <2>1, FastLanding DEF RestingRow
  <1> HIDE DEF s, x, cells
  <1>4. /\ \A k \in T : k \in 0 .. 3 /\ Bottom(cells, k) \in 0 .. 3 /\ <<k, Bottom(cells, k)>> \in cells
        /\ \A c \in cells : c[1] < Width(cells) /\ c[1] \in 0 .. 3
        /\ Width(cells) \in 1 .. 4
    BY <1>1, ShapeFacts
  <1>5. \A k \in T : x + k \in Column
    <2>1. SUFFICES ASSUME NEW k \in T PROVE x + k \in Column
      OBVIOUS
    <2>2. k \in 0 .. 3 /\ k < Width(cells)
      BY <1>4
    <2> QED
      BY <1>1, <1>4, <2>2, SizeFacts DEF Column
  <1>6. h \in [Column -> 0 .. H]
    BY HeightsTyped
  <1> HIDE DEF h
  <1>7. \A k \in T : d[k] = h[x + k] - Bottom(cells, k) /\ d[k] \in Int /\ d[k] <= H
    <2>1. SUFFICES ASSUME NEW k \in T PROVE d[k] = h[x + k] - Bottom(cells, k) /\ d[k] \in Int /\ d[k] <= H
      OBVIOUS
    <2>2. d[k] = h[x + k] - Bottom(cells, k)
      BY <1>1, <1>4, <1>5 DEF Difference
    <2>3. h[x + k] \in 0 .. H /\ Bottom(cells, k) \in 0 .. 3
      BY <1>4, <1>5, <1>6
    <2> QED
      BY <2>2, <2>3, SizeFacts
  <1>8. \A k \in (0 .. 3) \ T : d[k] = -1
    BY <1>1 DEF Difference
  <1>9. d \in [0 .. 3 -> Int] /\ (\A k \in 0 .. 3 : d[k] <= H) /\ T \in SUBSET (0 .. 3)
    <2>1. \A k \in 0 .. 3 : d[k] \in Int /\ d[k] <= H
      BY <1>7, <1>8, SizeFacts
    <2>2. d = [k \in 0 .. 3 |-> d[k]]
      OBVIOUS
    <2> HIDE DEF d, T
    <2> QED
      BY <1>4, <2>1, <2>2
  <1>10. Landing(h, cells, x) = GreatestOf(d, T)
    <2>1. {h[x + k] - Bottom(cells, k) : k \in T} = {d[k] : k \in T}
      BY <1>7
    <2> QED
      BY <2>1 DEF Landing, GreatestOf
  <1>11. LandingOf(d) = GreatestOf(d, 0 .. 3)
    BY DEF LandingOf, GreatestOf
  <1> HIDE DEF d, T
  <1>12. GreatestOf(d, 0 .. 3) = GreatestOf(d, T)
    BY <1>8, <1>9, TileMaximum, SizeFacts
  <1> QED
    BY <1>3, <1>10, <1>11, <1>12 DEF h, cells, x

(* A candidate of candidate_ids is inside the walls, so that only the top   *)
(* of the board can make it illegal.                                        *)
LEMMA TwinLegal ==
    ASSUME NEW rows \in Board, NEW p \in PieceId, NEW cid \in ToSet(CandidateIds[p])
    PROVE  LandsInside(rows, PieceCells(p, cid), ColumnOf(cid))
             <=> RestingRow(rows, p, cid) + Height(PieceCells(p, cid)) <= H
  BY PieceFacts DEF LandsInside, RestingRow

LEMMA TwinActions ==
    ASSUME NEW rows \in Board, NEW p \in PieceId
    PROVE  LegalCols(RowsToCols(rows), p) = LegalActions(rows, p)
  <1> DEFINE h == HeightsOf(RowsToCols(rows))
             ids == ToSet(CandidateIds[p])
             up == {cid \in ids : LET cells == Shape(p, RotationOf(cid))
                                  IN Landing(h, cells, ColumnOf(cid)) + Height(cells) <= H}
             in == {cid \in ids : LandsInside(rows, Shape(p, RotationOf(cid)), ColumnOf(cid))}
  <1>1. LegalCols(RowsToCols(rows), p) = Selected(CandidateIds[p], up)
    BY DEF LegalCols
  <1>2. LegalActions(rows, p) = Selected(CandidateIds[p], in)
    BY DEF LegalActions
  <1>3. \A cid \in ids : Landing(h, PieceCells(p, cid), ColumnOf(cid)) + Height(PieceCells(p, cid)) <= H
                           <=> LandsInside(rows, PieceCells(p, cid), ColumnOf(cid))
    BY TwinHeights, TwinLanding, TwinLegal
  <1>4. up = in
    BY <1>3 DEF PieceCells
  <1> HIDE DEF up, in
  <1> QED
    BY <1>1, <1>2, <1>4

LEMMA TwinStacks ==
    ASSUME NEW rows \in Board, NEW p \in PieceId, NEW cid \in ToSet(CandidateIds[p]),
           LandsInside(rows, PieceCells(p, cid), ColumnOf(cid))
    PROVE  Stacked(RowsToCols(rows), PieceCells(p, cid), ColumnOf(cid), RestingRow(rows, p, cid))
             = RowsToCols(Locked(rows, p, cid))
  <1> DEFINE cells == PieceCells(p, cid)
             x == ColumnOf(cid)
             L == RestingRow(rows, p, cid)
             M == Locked(rows, p, cid)
             Bits(c) == {L + dy : dy \in ColBits(cells, c - x)}
             Rows(c) == {r \in Row : \E d \in cells : L + d[2] = r /\ c = x + d[1]}
  <1>1. /\ \A c \in cells : /\ c[1] \in 0 .. 3 /\ c[2] \in 0 .. 3 /\ L + c[2] \in Row
        /\ x \in 0 .. 9
    BY Placement, PieceFacts
  <1>2. M = [r \in Row |-> rows[r] \cup {x + c[1] : c \in {d \in cells : L + d[2] = r}}]
    BY DEF Locked, Merged
  <1>3. Stacked(RowsToCols(rows), cells, x, L) = [c \in Column |-> {y \in Row : c \in rows[y]} \cup Bits(c)]
    BY DEF Stacked, RowsToCols
  <1>4. RowsToCols(M) = [c \in Column |-> {y \in Row : c \in M[y]}]
    BY DEF RowsToCols
  <1> HIDE DEF cells, x, L, M
  <1>5. ASSUME NEW c \in Column PROVE Bits(c) = Rows(c)
    <2>1. \A d \in cells : d[1] = c - x <=> c = x + d[1]
      BY <1>1 DEF Column
    <2>2. Bits(c) = {L + d[2] : d \in {e \in cells : e[1] = c - x}}
      BY DEF ColBits
    <2> QED
      BY <1>1, <2>1, <2>2
  <1>6. ASSUME NEW c \in Column
        PROVE  {y \in Row : c \in M[y]} = {y \in Row : c \in rows[y]} \cup Rows(c)
    <2>1. \A y \in Row : c \in M[y] <=> c \in rows[y] \/ \E d \in cells : L + d[2] = y /\ c = x + d[1]
      BY <1>2
    <2> QED
      BY <2>1
  <1> HIDE DEF Bits, Rows
  <1> QED
    BY <1>3, <1>4, <1>5, <1>6 DEF cells, x, L, M

-----------------------------------------------------------------------------
(* How many full rows lie below row n.                                      *)
FullBelow(rows, n) == {y \in Row : y < n /\ rows[y] = FULL_ROW}

LEMMA LinesAreFullRows ==
    ASSUME NEW rows \in Board
    PROVE  Lines(rows) = Cardinality({y \in Row : rows[y] = FULL_ROW})
  <1> DEFINE K == KeptOf(rows)
             Full(n) == Cardinality(FullBelow(rows, n))
             S == {n \in 0 .. H : Full(n) = n - Len(K[n])}
  <1>1. W \in Nat /\ H \in Nat
    BY SizeFacts
  <1>2. \A n : IsFiniteSet(FullBelow(rows, n))
    <2>1. IsFiniteSet(Row)
      BY SizeFacts, FS_Interval DEF Row
    <2> QED
      BY <2>1, FS_Subset DEF FullBelow
  <1>3. 0 \in S
    <2>1. Len(K[0]) = 0
      BY KeptSteps
    <2>2. FullBelow(rows, 0) = {}
      BY SizeFacts DEF FullBelow, Row
    <2>3. Full(0) = 0
      BY <2>2, FS_EmptySet
    <2> HIDE DEF Full, K
    <2> QED
      BY <1>1, <2>1, <2>3
  <1>4. ASSUME NEW n \in 0 .. H-1, n \in S PROVE n+1 \in S
    <2>1. n \in Row /\ n \in Nat /\ n+1 \in 0 .. H /\ Full(n) = n - Len(K[n])
      BY <1>4, <1>1 DEF Row
    <2>2. Len(K[n]) \in Nat
      <3>1. Len(K[n]) \in 0 .. n
        BY <1>1, <2>1, KeptRows
      <3> HIDE DEF K
      <3> QED
        BY <3>1
    <2>3. CASE rows[n] = FULL_ROW
      <3>1. K[n+1] = K[n]
        BY <2>1, <2>3, FullRowGoes
      <3>2. FullBelow(rows, n+1) = FullBelow(rows, n) \cup {n} /\ n \notin FullBelow(rows, n)
        BY <2>1, <2>3 DEF FullBelow, Row
      <3>3. Full(n+1) = Full(n) + 1
        BY <1>2, <3>2, FS_AddElement
      <3>4. Len(K[n+1]) = Len(K[n])
        BY <3>1
      <3> HIDE DEF Full, K
      <3>5. PICK k \in Nat : k = Len(K[n])
        BY <2>2
      <3>6. Full(n) = n - k /\ Len(K[n+1]) = k
        BY <2>1, <3>4, <3>5
      <3>7. Full(n+1) = (n+1) - k
        <4>1. n \in Nat /\ n - k \in Int /\ Full(n) \in Int
          BY <2>1, <3>6
        <4>2. PICK b \in Int : b = Full(n)
          BY <4>1
        <4>3. Full(n+1) = b + 1 /\ b = n - k
          BY <3>3, <3>6, <4>2
        <4> QED
          BY <4>1, <4>3
      <3> QED
        BY <2>1, <3>6, <3>7
    <2>4. CASE rows[n] # FULL_ROW
      <3>1. Len(K[n+1]) = Len(K[n]) + 1
        BY <2>1, <2>4, SurvivorPlace
      <3>2. FullBelow(rows, n+1) = FullBelow(rows, n)
        BY <2>1, <2>4 DEF FullBelow, Row
      <3>3. Full(n+1) = Full(n)
        BY <3>2
      <3> HIDE DEF Full, K
      <3> QED
        BY <2>1, <2>2, <3>1, <3>3
    <2> QED
      BY <2>3, <2>4
  <1>5. \A n \in 0 .. H : n \in S
    <2>1. S \in SUBSET Nat
      BY <1>1
    <2> HIDE DEF S
    <2> QED
      BY <1>1, <1>3, <1>4, <2>1, UpTo
  <1>6. Full(H) = H - Len(K[H]) /\ K[H] = Survivors(rows)
    BY <1>1, <1>5, KeptRecursion
  <1>7. FullBelow(rows, H) = {y \in Row : rows[y] = FULL_ROW}
    BY SizeFacts DEF FullBelow, Row
  <1> QED
    BY <1>6, <1>7 DEF Lines

LEMMA TwinFullRows ==
    ASSUME NEW rows \in Board
    PROVE  FullRows(RowsToCols(rows)) = {y \in Row : rows[y] = FULL_ROW}
  <1>1. \A y \in Row : rows[y] \in SUBSET Column
    BY DEF Board
  <1>2. \A y \in Row : (\A x \in Column : y \in RowsToCols(rows)[x]) <=> rows[y] = FULL_ROW
    BY <1>1 DEF RowsToCols, FULL_ROW
  <1> QED
    BY <1>2 DEF FullRows

(* The survivors are the rows that are not full, in their order: each at    *)
(* the place its row number has among them.                                 *)
LEMMA SurvivorSource ==
    ASSUME NEW rows \in Board, NEW r \in Nat, r < Len(Survivors(rows))
    PROVE  \E y \in Row : rows[y] # FULL_ROW /\ Len(KeptOf(rows)[y]) = r /\ Survivors(rows)[r+1] = rows[y]
  <1> DEFINE K == KeptOf(rows)
             S == {n \in 0 .. H : Len(K[n]) > r => \E y \in Row : rows[y] # FULL_ROW /\ Len(K[y]) = r}
  <1>1. H \in Nat
    BY SizeFacts
  <1>2. 0 \in S
    <2>1. Len(K[0]) = 0
      BY KeptSteps
    <2> HIDE DEF K
    <2> QED
      BY <1>1, <2>1
  <1>3. ASSUME NEW n \in 0 .. H-1, n \in S PROVE n+1 \in S
    <2>1. n \in Row /\ n+1 \in 0 .. H
      BY <1>1 DEF Row
    <2>2. Len(K[n]) \in Nat
      <3>1. Len(K[n]) \in 0 .. n
        BY <1>1, KeptRows
      <3> HIDE DEF K
      <3> QED
        BY <3>1
    <2>3. rows[n] = FULL_ROW => K[n+1] = K[n]
      BY <2>1, FullRowGoes
    <2>4. rows[n] # FULL_ROW => Len(K[n+1]) = Len(K[n]) + 1
      BY <2>1, SurvivorPlace
    <2> HIDE DEF K
    <2> QED
      BY <1>3, <2>1, <2>2, <2>3, <2>4
  <1>4. \A n \in 0 .. H : n \in S
    <2>1. S \in SUBSET Nat
      BY <1>1
    <2> HIDE DEF S
    <2> QED
      BY <1>1, <1>2, <1>3, <2>1, UpTo
  <1>5. H \in S /\ K[H] = Survivors(rows)
    BY <1>1, <1>4, KeptRecursion
  <1>6. Len(Survivors(rows)) \in Nat
    BY KeptRecursion, KeptRows, SizeFacts
  <1>7. Len(K[H]) > r
    BY <1>5, <1>6
  <1>8. PICK y \in Row : rows[y] # FULL_ROW /\ Len(K[y]) = r
    BY <1>5, <1>7
  <1> QED
    BY <1>8, SurvivorPlace

-----------------------------------------------------------------------------
(* Deleting the full rows of a column, the highest first.  After the top n  *)
(* rows, the rows below are as they were and each one kept above them has   *)
(* come down to its place.                                                  *)
ColumnAt(rows, col, b) ==
    {y \in col : y < b}
        \cup {b + (Len(KeptOf(rows)[y]) - Len(KeptOf(rows)[b])) : y \in {r \in col : r >= b /\ rows[r] # FULL_ROW}}

LEMMA OneRowDown ==
    ASSUME NEW rows \in Board, NEW col \in SUBSET Row, NEW t \in Row
    PROVE  ColumnAt(rows, col, t)
             = IF rows[t] = FULL_ROW THEN RemoveRow(ColumnAt(rows, col, t+1), t) ELSE ColumnAt(rows, col, t+1)
  <1> DEFINE N(y) == Len(KeptOf(rows)[y])
             A(y, b) == b + (N(y) - N(b))
             High(b) == {r \in col : r >= b /\ rows[r] # FULL_ROW}
             Low(b) == {y \in col : y < b}
  <1>1. t \in Nat /\ t+1 \in 0 .. H /\ \A y \in col : y \in Nat /\ y \in 0 .. H
    BY SizeFacts DEF Row
  <1>2. \A y \in 0 .. H : N(y) \in Nat
    <2>1. \A y \in 0 .. H : N(y) \in 0 .. y
      BY KeptRows
    <2> HIDE DEF N
    <2> QED
      BY <2>1
  <1>3. \A y \in 0 .. H : \A z \in y .. H : N(y) <= N(z)
    BY KeptPrefix
  <1>4. \A b : ColumnAt(rows, col, b) = Low(b) \cup {A(y, b) : y \in High(b)}
    BY DEF ColumnAt
  <1>5. IF rows[t] = FULL_ROW THEN N(t+1) = N(t) ELSE N(t+1) = N(t) + 1
    BY FullRowGoes, SurvivorPlace
  <1> HIDE DEF N
  <1>6. t \in 0 .. H /\ N(t) \in Nat /\ N(t+1) \in Nat
    BY <1>1, <1>2, SizeFacts DEF Row
  <1>7. ASSUME NEW y \in High(t+1) PROVE N(y) \in Nat /\ N(y) >= N(t+1)
    <2>1. y \in col /\ y >= t+1
      OBVIOUS
    <2>2. y \in (t+1) .. H /\ y \in 0 .. H
      BY <1>1, <2>1
    <2>3. N(y) \in Nat /\ N(t+1) <= N(y)
      BY <1>1, <1>2, <1>3, <2>2
    <2> QED
      BY <1>6, <2>3
  <1>8. CASE rows[t] = FULL_ROW
    <2>1. High(t+1) = High(t)
      <3>1. \A y \in col : rows[y] # FULL_ROW => y # t
        BY <1>8
      <3>2. \A y \in col : y # t => (y >= t+1 <=> y >= t)
        BY <1>1
      <3> QED
        BY <3>1, <3>2
    <2>2. \A y \in High(t) : A(y, t+1) > t /\ A(y, t+1) - 1 = A(y, t) /\ A(y, t+1) \in Nat
      BY <1>1, <1>5, <1>6, <1>7, <1>8, <2>1
    <2>3. \A y \in col : y < t+1 <=> y < t \/ y = t
      BY <1>1
    <2> DEFINE C == ColumnAt(rows, col, t+1)
    <2>4. {y \in C : y < t} = Low(t)
      <3>1. \A y \in col : y < t => y < t+1
        BY <2>3
      <3>2. \A y \in High(t) : ~(A(y, t+1) < t)
        BY <1>1, <2>2
      <3> HIDE DEF A, High
      <3> QED
        BY <1>4, <2>1, <3>1, <3>2
    <2>5. {r \in C : r > t} = {A(y, t+1) : y \in High(t)}
      <3>1. \A y \in col : y < t+1 => ~(y > t)
        BY <1>1
      <3>2. \A y \in High(t) : A(y, t+1) > t
        BY <2>2
      <3> HIDE DEF A, High
      <3> QED
        BY <1>4, <2>1, <3>1, <3>2
    <2>6. {y - 1 : y \in {r \in C : r > t}} = {A(y, t) : y \in High(t)}
      <3>1. \A y \in High(t) : A(y, t+1) - 1 = A(y, t)
        BY <2>2
      <3> HIDE DEF A, High, C
      <3> QED
        BY <2>5, <3>1
    <2>7. RemoveRow(C, t) = Low(t) \cup {A(y, t) : y \in High(t)}
      BY <2>4, <2>6 DEF RemoveRow
    <2> HIDE DEF C, A, High, Low
    <2>8. ColumnAt(rows, col, t) = RemoveRow(C, t)
      BY <1>4, <2>7
    <2> QED
      BY <1>8, <2>8 DEF C
  <1>9. CASE rows[t] # FULL_ROW
    <2>1. \A y \in High(t+1) : A(y, t+1) = A(y, t)
      BY <1>1, <1>5, <1>6, <1>7, <1>9
    <2>2. A(t, t) = t
      BY <1>1, <1>6
    <2>3. \A y \in col : (y < t+1 <=> y < t \/ y = t) /\ (y \in High(t) <=> y \in High(t+1) \/ y = t)
      BY <1>1, <1>9
    <2>4. High(t) \subseteq col /\ High(t+1) \subseteq col
      OBVIOUS
    <2> HIDE DEF A, High
    <2>5. Low(t+1) \cup {A(y, t+1) : y \in High(t+1)} = Low(t) \cup {A(y, t) : y \in High(t)}
      BY <2>1, <2>2, <2>3, <2>4
    <2> QED
      BY <1>4, <1>9, <2>5
  <1> QED
    BY <1>8, <1>9

-----------------------------------------------------------------------------
(* The rows above every row that stays: what is left of a column when all   *)
(* its full rows are gone.                                                  *)
LEMMA WholeColumn ==
    ASSUME NEW rows \in Board, NEW col \in SUBSET Row
    PROVE  /\ ColumnAt(rows, col, H) = col
           /\ ColumnAt(rows, col, 0) = {Len(KeptOf(rows)[y]) : y \in {r \in col : rows[r] # FULL_ROW}}
  <1> DEFINE N(y) == Len(KeptOf(rows)[y])
  <1>1. H \in Nat /\ \A y \in col : y \in Nat /\ y < H /\ y >= 0 /\ ~(y < 0) /\ ~(y >= H) /\ y \in 0 .. H
    BY SizeFacts DEF Row
  <1>2. N(0) = 0 /\ \A y \in 0 .. H : N(y) \in 0 .. y
    BY KeptSteps, KeptRows
  <1> HIDE DEF N
  <1>3. \A y \in col : 0 + (N(y) - N(0)) = N(y)
    BY <1>1, <1>2
  <1>4. \A b : ColumnAt(rows, col, b)
                 = {y \in col : y < b} \cup {b + (N(y) - N(b)) : y \in {r \in col : r >= b /\ rows[r] # FULL_ROW}}
    BY DEF ColumnAt, N
  <1>5. ColumnAt(rows, col, H) = col
    BY <1>1, <1>4
  <1>6. ColumnAt(rows, col, 0) = {N(y) : y \in {r \in col : rows[r] # FULL_ROW}}
    <2>1. {r \in col : r >= 0 /\ rows[r] # FULL_ROW} = {r \in col : rows[r] # FULL_ROW} /\ {y \in col : y < 0} = {}
      BY <1>1
    <2> QED
      BY <1>3, <1>4, <2>1
  <1> QED
    BY <1>5, <1>6 DEF N

LEMMA RowsRemoved ==
    ASSUME NEW rows \in Board, NEW col \in SUBSET Row
    PROVE  RemoveRows(col, {y \in Row : rows[y] = FULL_ROW}) = ColumnAt(rows, col, 0)
  <1> DEFINE full == {y \in Row : rows[y] = FULL_ROW}
             Body(f, n) == IF n = 0 THEN col ELSE IF H-n \in full THEN RemoveRow(f[n-1], H-n) ELSE f[n-1]
             Left == CHOOSE f : f = [n \in 0 .. H |-> Body(f, n)]
             g == [n \in 0 .. H |-> ColumnAt(rows, col, H-n)]
             S == {n \in 0 .. H : Left[n] = g[n]}
  <1>1. RemoveRows(col, full) = Left[H]
    BY DEF RemoveRows
  <1>2. H \in Nat
    BY SizeFacts
  <1>3. \A n \in 0 .. H : g[n] = Body(g, n)
    <2>1. g[0] = col /\ 0 \in 0 .. H
      BY <1>2, WholeColumn
    <2>2. ASSUME NEW n \in 1 .. H PROVE g[n] = Body(g, n)
      <3>1. H-n \in Row /\ (H-n)+1 = H-(n-1) /\ n-1 \in 0 .. H /\ n \in 0 .. H /\ n # 0
        BY <1>2 DEF Row
      <3>2. ColumnAt(rows, col, H-n) = IF rows[H-n] = FULL_ROW THEN RemoveRow(ColumnAt(rows, col, H-(n-1)), H-n)
                                       ELSE ColumnAt(rows, col, H-(n-1))
        BY <3>1, OneRowDown
      <3>3. H-n \in full <=> rows[H-n] = FULL_ROW
        BY <3>1
      <3>4. g[n] = ColumnAt(rows, col, H-n) /\ g[n-1] = ColumnAt(rows, col, H-(n-1))
        BY <3>1
      <3> HIDE DEF g, full
      <3> QED
        BY <3>1, <3>2, <3>3, <3>4
    <2>3. Body(g, 0) = col
      OBVIOUS
    <2>4. \A n \in 0 .. H : n = 0 \/ n \in 1 .. H
      BY <1>2
    <2> HIDE DEF g, Body
    <2> QED
      BY <2>1, <2>2, <2>3, <2>4
  <1>4. g = [n \in 0 .. H |-> Body(g, n)]
    <2>1. g = [n \in 0 .. H |-> g[n]]
      OBVIOUS
    <2> HIDE DEF g, Body
    <2> QED
      BY <1>3, <2>1
  <1> HIDE DEF g
  <1>5. Left = [n \in 0 .. H |-> Body(Left, n)]
    <2> HIDE DEF Body
    <2> QED
      BY <1>4, Zenon
  <1> HIDE DEF Left, full
  <1>6. \A n \in 0 .. H : Left[n] = Body(Left, n)
    <2> HIDE DEF Body
    <2> QED
      BY <1>5
  <1>7. 0 \in S
    BY <1>2, <1>3, <1>6
  <1>8. ASSUME NEW n \in 0 .. H-1, n \in S PROVE n+1 \in S
    <2>1. n+1 \in 0 .. H /\ n+1 # 0 /\ (n+1)-1 = n /\ Left[n] = g[n]
      BY <1>2, <1>8
    <2>2. Body(Left, n+1) = Body(g, n+1)
      BY <2>1
    <2> HIDE DEF Body
    <2> QED
      BY <1>3, <1>6, <2>1, <2>2
  <1>9. \A n \in 0 .. H : n \in S
    <2>1. S \in SUBSET Nat
      BY <1>2
    <2> HIDE DEF S
    <2> QED
      BY <1>2, <1>7, <1>8, <2>1, UpTo
  <1>10. Left[H] = g[H] /\ H \in 0 .. H /\ H-H = 0
    BY <1>2, <1>9
  <1>11. g[H] = ColumnAt(rows, col, 0)
    BY <1>10 DEF g
  <1> QED
    BY <1>1, <1>10, <1>11 DEF full

(* The twin's columns after a clear are the columns of the cleared board.   *)
LEMMA TwinClears ==
    ASSUME NEW rows \in Board, NEW c \in Column
    PROVE  RemoveRows(RowsToCols(rows)[c], FullRows(RowsToCols(rows))) = RowsToCols(Cleared(rows))[c]
  <1> DEFINE col == RowsToCols(rows)[c]
             N(y) == Len(KeptOf(rows)[y])
             top == Len(Survivors(rows))
             next == Cleared(rows)
  <1>1. col = {y \in Row : c \in rows[y]} /\ RowsToCols(next)[c] = {r \in Row : c \in next[r]}
    BY DEF RowsToCols
  <1>2. RemoveRows(col, FullRows(RowsToCols(rows))) = {N(y) : y \in {r \in col : rows[r] # FULL_ROW}}
    BY <1>1, TwinFullRows, RowsRemoved, WholeColumn
  <1>3. next = [y \in Row |-> IF y < top THEN Survivors(rows)[y+1] ELSE {}] /\ top \in 0 .. H
    <2>1. top \in 0 .. H
      BY KeptRecursion, KeptRows, SizeFacts
    <2> QED
      BY <2>1 DEF Cleared
  <1>4. \A y \in Row : rows[y] # FULL_ROW => N(y) + 1 \in 1 .. top /\ Survivors(rows)[N(y) + 1] = rows[y] /\ N(y) \in Nat
    <2>1. \A y \in Row : N(y) \in 0 .. y
      BY KeptRows, SizeFacts DEF Row
    <2>2. \A y \in Row : N(y) \in Nat
      <3> HIDE DEF N
      <3> QED
        BY <2>1 DEF Row
    <2> QED
      BY <2>2, SurvivorPlace
  <1>5. \A r \in Nat : r < top => \E y \in Row : rows[y] # FULL_ROW /\ N(y) = r /\ Survivors(rows)[r+1] = rows[y]
    BY SurvivorSource
  <1> HIDE DEF col, N, top, next
  <1>6. ASSUME NEW y \in col, rows[y] # FULL_ROW PROVE N(y) \in Row /\ c \in next[N(y)]
    <2>1. y \in Row /\ c \in rows[y]
      BY <1>1
    <2>2. N(y) \in Row /\ N(y) < top
      BY <1>3, <1>4, <1>6, <2>1, SizeFacts DEF Row
    <2>3. next[N(y)] = Survivors(rows)[N(y) + 1]
      BY <1>3, <2>2
    <2> QED
      BY <1>4, <1>6, <2>1, <2>2, <2>3
  <1>7. ASSUME NEW r \in Row, c \in next[r]
        PROVE  \E y \in col : rows[y] # FULL_ROW /\ N(y) = r
    <2>1. r < top /\ next[r] = Survivors(rows)[r+1] /\ r \in Nat
      BY <1>3, <1>7 DEF Row
    <2>2. PICK y \in Row : rows[y] # FULL_ROW /\ N(y) = r /\ Survivors(rows)[r+1] = rows[y]
      BY <1>5, <2>1
    <2> QED
      BY <1>1, <1>7, <2>1, <2>2
  <1>8. {N(y) : y \in {r \in col : rows[r] # FULL_ROW}} = {r \in Row : c \in next[r]}
    BY <1>6, <1>7
  <1> QED
    BY <1>1, <1>2, <1>8 DEF col, next

-----------------------------------------------------------------------------
(* The twin's features, column by column.                                   *)
HeightsTotal(h) == MapThenSumSet(LAMBDA x : h[x], Column)
StepsTotal(h) == MapThenSumSet(LAMBDA x : Abs(h[x] - h[x-1]), 1 .. W-1)
HolesTotal(h, cols) == MapThenSumSet(LAMBDA x : Cardinality((0 .. h[x]-1) \ cols[x]), Column)

LEMMA HeightsTotalIs ==
    ASSUME BoardFits, NEW rows \in Board
    PROVE  HeightsTotal(ColumnHeights(rows)) = AggregateHeight(rows)
  <1> DEFINE v == HeightLeaves(rows)
             h == ColumnHeights(rows)
             Step(f, s) == IF s = {} THEN 0 ELSE h[Chosen(s)] + f[s \ {Chosen(s)}]
             F == CHOOSE f : f = [s \in SUBSET Column |-> Step(f, s)]
  <1>1. HeightsTotal(h) = F[Column]
    BY DEF HeightsTotal, MapThenSumSet, MapThenFoldSet, Chosen
  <1>2. /\ v \in [Leaves -> Int] /\ Column \in SUBSET Leaves
        /\ \A x \in Column : v[x] = h[x]
    BY LeafTypes DEF ColumnHeights
  <1> HIDE DEF v, h
  <1>3. \A f : \A s \in SUBSET Column : Step(f, s) = SumStep(v, f, s)
    <2>1. \A s \in SUBSET Column : s # {} => Chosen(s) \in s
      BY DEF Chosen
    <2> QED
      BY <1>2, <2>1 DEF SumStep
  <1> HIDE DEF Step
  <1>4. \E f : f = [s \in SUBSET Column |-> Step(f, s)]
    <2> DEFINE g == [s \in SUBSET Column |-> SumIn(v, s)]
    <2>1. g = [s \in SUBSET Column |-> SumStep(v, g, s)]
      BY <1>2, FoldedSumIs
    <2> HIDE DEF g
    <2>2. g = [s \in SUBSET Column |-> Step(g, s)]
      BY <1>3, <2>1
    <2> QED
      BY <2>2
  <1>5. F = [s \in SUBSET Column |-> Step(F, s)]
    BY <1>4, Zenon
  <1> HIDE DEF F
  <1>6. F = [s \in SUBSET Column |-> SumStep(v, F, s)]
    BY <1>3, <1>5
  <1>7. F[Column] = SumIn(v, Column)
    BY <1>2, <1>6, FoldedSum
  <1> QED
    BY <1>1, <1>7, AggregateHeightIs DEF v, h

LEMMA HolesTotalIs ==
    ASSUME BoardFits, NEW rows \in Board
    PROVE  HolesTotal(ColumnHeights(rows), RowsToCols(rows)) = Holes(rows)
  <1> DEFINE v == HoleLeaves(rows)
             h == ColumnHeights(rows)
             cols == RowsToCols(rows)
             C(x) == Cardinality((0 .. h[x]-1) \ cols[x])
             Step(f, s) == IF s = {} THEN 0 ELSE C(Chosen(s)) + f[s \ {Chosen(s)}]
             F == CHOOSE f : f = [s \in SUBSET Column |-> Step(f, s)]
  <1>1. HolesTotal(h, cols) = F[Column]
    BY DEF HolesTotal, MapThenSumSet, MapThenFoldSet, Chosen
  <1>2. \A x \in Column : (0 .. h[x]-1) \ cols[x] = HoleMask(rows, x)
    <2>1. SUFFICES ASSUME NEW x \in Column PROVE (0 .. h[x]-1) \ cols[x] = HoleMask(rows, x)
      OBVIOUS
    <2>2. h \in [Column -> 0 .. H] /\ ProfileHeights(rows) = h
      BY HeightsTyped
    <2>3. HoleMask(rows, x) = {y \in Row : y < h[x] /\ x \notin rows[y]}
      BY <2>2 DEF HoleMask
    <2>4. cols[x] = {y \in Row : x \in rows[y]}
      BY DEF RowsToCols
    <2> HIDE DEF h, cols
    <2>5. h[x] \in Nat /\ h[x] <= H
      BY <2>2, SizeFacts
    <2> QED
      BY <2>3, <2>4, <2>5, SizeFacts DEF Row
  <1>3. /\ v \in [Leaves -> Int] /\ \A x \in Column : v[x] = C(x)
        /\ Column \in SUBSET Leaves
    <2>1. \A x \in Column : C(x) = Cardinality(HoleMask(rows, x))
      BY <1>2
    <2> HIDE DEF C
    <2> QED
      BY <2>1, HoleLeafTypes, LeafTypes
  <1>4. SumIn(v, Column) = Holes(rows)
    <2>1. \A i \in Leaves \ Column : v[i] = 0
      BY HoleLeafTypes
    <2> HIDE DEF v
    <2>2. SumIn(v, Column) = SumOf(v)
      BY <1>3, <2>1, WholeSum
    <2> QED
      BY <2>2, HolesSum DEF v
  <1> HIDE DEF v, C
  <1>5. \A f : \A s \in SUBSET Column : Step(f, s) = SumStep(v, f, s)
    <2>1. \A s \in SUBSET Column : s # {} => Chosen(s) \in s
      BY DEF Chosen
    <2> QED
      BY <1>3, <2>1 DEF SumStep
  <1> HIDE DEF Step
  <1>6. \E f : f = [s \in SUBSET Column |-> Step(f, s)]
    <2> DEFINE g == [s \in SUBSET Column |-> SumIn(v, s)]
    <2>1. g = [s \in SUBSET Column |-> SumStep(v, g, s)]
      BY <1>3, FoldedSumIs
    <2> HIDE DEF g
    <2>2. g = [s \in SUBSET Column |-> Step(g, s)]
      BY <1>5, <2>1
    <2> QED
      BY <2>2
  <1>7. F = [s \in SUBSET Column |-> Step(F, s)]
    BY <1>6, Zenon
  <1> HIDE DEF F
  <1>8. F = [s \in SUBSET Column |-> SumStep(v, F, s)]
    BY <1>5, <1>7
  <1>9. F[Column] = SumIn(v, Column)
    BY <1>3, <1>8, FoldedSum
  <1> QED
    BY <1>1, <1>4, <1>9

LEMMA TwinFeatures ==
    ASSUME BoardFits, NEW rows \in Board
    PROVE  FeaturesCols(RowsToCols(rows)) = FeaturesOf(rows)
  <1> DEFINE cols == RowsToCols(rows)
  <1>1. HeightsOf(cols) = ColumnHeights(rows)
    BY TwinHeights
  <1>2. FeaturesCols(cols) = [a |-> HeightsTotal(HeightsOf(cols)), q |-> HolesTotal(HeightsOf(cols), cols),
                              u |-> StepsTotal(HeightsOf(cols))]
    BY DEF FeaturesCols, HeightsTotal, HolesTotal, StepsTotal
  <1>3. StepsTotal(ColumnHeights(rows)) = Bumpiness(rows)
    BY DEF StepsTotal, Bumpiness
  <1> QED
    BY <1>1, <1>2, <1>3, HeightsTotalIs, HolesTotalIs DEF FeaturesOf

LEMMA TwinBoard ==
    ASSUME NEW rows \in Board
    PROVE  ColsToRows(RowsToCols(rows)) = rows
  <1>1. \A y \in Row : {x \in Column : y \in RowsToCols(rows)[x]} = rows[y]
    <2>1. \A y \in Row : rows[y] \in SUBSET Column
      BY DEF Board
    <2> QED
      BY <2>1 DEF RowsToCols
  <1>2. rows = [y \in Row |-> rows[y]]
    BY DEF Board
  <1> QED
    BY <1>1, <1>2 DEF ColsToRows

(* fast.py is a twin of the rules: on every board, full rows or not, and    *)
(* for every candidate of every piece, its record is the oracle's, field by *)
(* field.                                                                   *)
THEOREM TwinIsExact ==
    ASSUME BoardFits, NEW rows \in Board, NEW p \in PieceId, NEW cid \in ToSet(CandidateIds[p])
    PROVE  EvaluateCols(RowsToCols(rows), p, cid) = Evaluate(rows, p, cid)
  <1> DEFINE cells == PieceCells(p, cid)
             x == ColumnOf(cid)
             L == RestingRow(rows, p, cid)
             M == Locked(rows, p, cid)
             cols == RowsToCols(rows)
             full == FullRows(RowsToCols(M))
             new == [c \in Column |-> RemoveRows(RowsToCols(M)[c], full)]
  <1>1. Landing(HeightsOf(cols), cells, x) = L
    BY TwinHeights, TwinLanding
  <1>2. L + Height(cells) > H <=> ~LandsInside(rows, cells, x)
    <2>1. L \in Int /\ Height(cells) \in Int
      <3> DEFINE s == [valid |-> TRUE, cells |-> cells]
      <3>1. s \in ShapeSet /\ s.cells = cells /\ x \in 0 .. 9 /\ x + Width(cells) <= W
        BY PieceFacts
      <3>2. x \in Nat
        BY <3>1
      <3> HIDE DEF s, cells, x
      <3>3. Height(s.cells) \in 1 .. 4
        BY <3>1, ShapeFacts
      <3>4. Stops(rows, s.cells, x, PhysicalLanding(rows, s.cells, x))
        BY <3>1, <3>2, LandingStops
      <3> QED
        BY <3>1, <3>3, <3>4 DEF Stops, RestingRow, cells, x
    <2> QED
      BY <2>1, TwinLegal, SizeFacts
  <1>3. CASE ~LandsInside(rows, cells, x)
    <2>1. Evaluate(rows, p, cid) = NoMove
      BY <1>3 DEF Evaluate, PieceCells
    <2>2. EvaluateCols(cols, p, cid) = NoMove
      BY <1>1, <1>2, <1>3 DEF EvaluateCols, PieceCells
    <2> QED
      BY <2>1, <2>2
  <1>4. CASE LandsInside(rows, cells, x)
    <2>1. M \in Board /\ Evaluate(rows, p, cid) = Scored(L, Lines(M), Cleared(M), FeaturesOf(Cleared(M)))
      BY <1>4, LockedBoard
    <2>2. Stacked(cols, cells, x, L) = RowsToCols(M)
      BY <1>4, TwinStacks
    <2>3. EvaluateCols(cols, p, cid) = ScoredCols(L, Cardinality(full), new)
      <3> DEFINE y == Landing(HeightsOf(cols), cells, x)
                 stacked == Stacked(cols, cells, x, y)
      <3>1. EvaluateCols(cols, p, cid)
              = IF y + Height(cells) > H THEN NoMove
                ELSE ScoredCols(y, Cardinality(FullRows(stacked)),
                                [c \in Column |-> RemoveRows(stacked[c], FullRows(stacked))])
        BY DEF EvaluateCols, PieceCells
      <3>2. y = L /\ stacked = RowsToCols(M)
        BY <1>1, <2>2
      <3> HIDE DEF y, stacked, cells, x, L, M, cols
      <3> QED
        BY <1>2, <1>4, <3>1, <3>2
    <2>4. Cleared(M) \in Board
      BY <2>1, ClearedBoard
    <2>5. Cardinality(full) = Lines(M)
      <3>1. full = {y \in Row : M[y] = FULL_ROW}
        BY <2>1, TwinFullRows
      <3> HIDE DEF full
      <3> QED
        BY <2>1, <3>1, LinesAreFullRows
    <2>6. new = RowsToCols(Cleared(M))
      <3>1. \A c \in Column : RemoveRows(RowsToCols(M)[c], full) = RowsToCols(Cleared(M))[c]
        BY <2>1, TwinClears
      <3>2. RowsToCols(Cleared(M)) = [c \in Column |-> RowsToCols(Cleared(M))[c]]
        BY DEF RowsToCols
      <3> HIDE DEF full, M
      <3> QED
        BY <3>1, <3>2
    <2>7. ColsToRows(new) = Cleared(M) /\ FeaturesCols(new) = FeaturesOf(Cleared(M))
      <3> HIDE DEF new
      <3> QED
        BY <2>4, <2>6, TwinBoard, TwinFeatures
    <2> HIDE DEF new, full, M, L, cols
    <2> QED
      BY <2>1, <2>3, <2>5, <2>7 DEF ScoredCols, cols
  <1> QED
    BY <1>3, <1>4

-----------------------------------------------------------------------------
(* A fold over a sequence takes its elements in order.  The library defines *)
(* it on sets of indices, the greatest index last: the function exists, and *)
(* its values on the first n indices are the steps of the loop.             *)
LEMMA UpperEnd ==
    ASSUME NEW n \in Nat, n # 0
    PROVE  Max(1 .. n) = n /\ (1 .. n) \ {n} = 1 .. n-1 /\ 1 .. n # {} /\ n \in 1 .. n
  <1> DEFINE S == 1 .. n
  <1>1. S \in SUBSET Int /\ n \in S /\ n \in Int /\ S # {} /\ (\A k \in S : k <= n) /\ S \ {n} = 1 .. n-1
    OBVIOUS
  <1> HIDE DEF S
  <1>2. Max(S) \in S /\ n <= Max(S)
    BY <1>1, MaxOf
  <1>3. Max(S) <= n /\ Max(S) \in Int
    BY <1>1, <1>2
  <1>4. Max(S) = n
    BY <1>1, <1>2, <1>3
  <1> QED
    BY <1>1, <1>4 DEF S

Folds(f, N, S, base, step) ==
    /\ f \in [SUBSET (1 .. N) -> S]
    /\ \A s \in SUBSET (1 .. N) : f[s] = IF s = {} THEN base ELSE step[Max(s)][f[s \ {Max(s)}]]

LEMMA FoldExists ==
    ASSUME NEW N \in Nat, NEW S, NEW base \in S, NEW step \in [1 .. N -> [S -> S]]
    PROVE  \E f : Folds(f, N, S, base, step)
  <1> DEFINE Good(f, m) == Folds(f, m, S, base, step)
             T == {m \in 0 .. N : \E f : Good(f, m)}
  <1>1. 0 \in T
    <2> DEFINE g == [s \in SUBSET (1 .. 0) |-> base]
    <2>1. \A s \in SUBSET (1 .. 0) : s = {}
      OBVIOUS
    <2>2. Good(g, 0)
      BY <2>1 DEF Folds
    <2> HIDE DEF Good
    <2> QED
      BY <2>2
  <1>2. ASSUME NEW m \in 0 .. N-1, m \in T
        PROVE  m+1 \in T
    <2>1. PICK f : Good(f, m)
      BY <1>2
    <2>2. f \in [SUBSET (1 .. m) -> S]
          /\ \A s \in SUBSET (1 .. m) : f[s] = IF s = {} THEN base ELSE step[Max(s)][f[s \ {Max(s)}]]
      BY <2>1 DEF Folds
    <2> DEFINE A == 1 .. m  B == 1 .. m+1
               g == [s \in SUBSET B |-> IF m+1 \in s THEN step[m+1][f[s \ {m+1}]] ELSE f[s]]
    <2>3. m+1 \in 1 .. N /\ step[m+1] \in [S -> S] /\ m+1 \in B /\ m \in Nat
      OBVIOUS
    <2>4. \A s \in SUBSET B : s \ {m+1} \in SUBSET A /\ (m+1 \notin s => s \in SUBSET A)
      <3>1. \A k \in B : k # m+1 => k \in A
        OBVIOUS
      <3> HIDE DEF A, B
      <3> QED
        BY <3>1
    <2>5. A \subseteq B /\ m+1 \notin A
      OBVIOUS
    <2>6. \A s \in SUBSET B : s # {} => Max(s) \in s /\ (m+1 \in s => Max(s) = m+1)
      <3>1. SUFFICES ASSUME NEW s \in SUBSET B, s # {} PROVE Max(s) \in s /\ (m+1 \in s => Max(s) = m+1)
        OBVIOUS
      <3>2. s \in SUBSET Int /\ m+1 \in Int /\ \A k \in s : k <= m+1
        OBVIOUS
      <3> HIDE DEF B
      <3>3. Max(s) \in s /\ \A k \in s : k <= Max(s)
        BY <3>1, <3>2, MaxOf
      <3>4. Max(s) \in Int /\ Max(s) <= m+1
        BY <3>2, <3>3
      <3> QED
        BY <3>2, <3>3, <3>4
    <2> HIDE DEF A, B
    <2>7. g \in [SUBSET B -> S]
      <3>1. \A s \in SUBSET B : m+1 \in s => step[m+1][f[s \ {m+1}]] \in S
        BY <2>2, <2>3, <2>4 DEF A
      <3>2. \A s \in SUBSET B : m+1 \notin s => f[s] \in S
        BY <2>2, <2>4 DEF A
      <3> QED
        BY <3>1, <3>2
    <2>8. ASSUME NEW s \in SUBSET B
          PROVE  g[s] = IF s = {} THEN base ELSE step[Max(s)][g[s \ {Max(s)}]]
      <3>1. CASE m+1 \in s
        <4>1. Max(s) = m+1 /\ s # {} /\ s \ {m+1} \in SUBSET B /\ m+1 \notin s \ {m+1}
          BY <2>6, <3>1
        <4>2. g[s \ {m+1}] = f[s \ {m+1}]
          BY <4>1
        <4>3. g[s] = step[m+1][f[s \ {m+1}]]
          BY <3>1
        <4> HIDE DEF g
        <4> QED
          BY <4>1, <4>2, <4>3
      <3>2. CASE m+1 \notin s
        <4>1. s \in SUBSET A /\ g[s] = f[s]
          BY <2>4, <3>2
        <4>2. f[s] = IF s = {} THEN base ELSE step[Max(s)][f[s \ {Max(s)}]]
          BY <2>2, <4>1 DEF A
        <4>3. s \ {Max(s)} \in SUBSET B /\ m+1 \notin s \ {Max(s)}
          BY <3>2
        <4>4. g[s \ {Max(s)}] = f[s \ {Max(s)}]
          BY <4>3
        <4> HIDE DEF g
        <4> QED
          BY <4>1, <4>2, <4>4
      <3> QED
        BY <3>1, <3>2
    <2>9. Good(g, m+1)
      <3> HIDE DEF g
      <3> QED
        BY <2>7, <2>8 DEF Folds, B
    <2>10. m+1 \in 0 .. N
      OBVIOUS
    <2> HIDE DEF Good, g
    <2> QED
      BY <2>9, <2>10
  <1>3. \A n \in 0 .. N : n \in T
    <2>1. T \in SUBSET Nat
      OBVIOUS
    <2> HIDE DEF T
    <2> QED
      BY <1>1, <1>2, <2>1, UpTo
  <1> QED
    BY <1>3

-----------------------------------------------------------------------------
(* The rank network.  After the strides 1, 2, .. w/2 a row knows how many   *)
(* of the last w rows stay.                                                 *)
Windows(rows, w) ==
    [s \in Row |-> Len(KeptOf(rows)[s+1]) - Len(KeptOf(rows)[IF s+1 > w THEN s+1-w ELSE 0])]
RankWord == 0 .. 31

LEMMA WindowValues ==
    ASSUME BoardFits, NEW rows \in Board, NEW w \in Nat
    PROVE  /\ Windows(rows, w) \in [Row -> 0 .. 20]
           /\ Windows(rows, w) \in [Row -> RankWord]
  <1> DEFINE N(n) == Len(KeptOf(rows)[n])
             Low(s) == IF s+1 > w THEN s+1-w ELSE 0
  <1>1. \A n \in 0 .. H : N(n) \in 0 .. n
    BY KeptRows
  <1>2. \A n \in 0 .. H : \A m \in n .. H : N(n) <= N(m)
    BY KeptPrefix
  <1>3. Windows(rows, w) = [s \in Row |-> N(s+1) - N(Low(s))]
    BY DEF Windows
  <1> HIDE DEF N
  <1>4. \A s \in Row : N(s+1) - N(Low(s)) \in 0 .. 20
    <2>1. SUFFICES ASSUME NEW s \in Row PROVE N(s+1) - N(Low(s)) \in 0 .. 20
      OBVIOUS
    <2>2. s+1 \in 0 .. H /\ Low(s) \in 0 .. H /\ s+1 \in Low(s) .. H
      BY SizeFacts DEF Row
    <2> HIDE DEF Low
    <2>3. N(s+1) \in 0 .. s+1 /\ N(Low(s)) \in 0 .. Low(s) /\ N(Low(s)) <= N(s+1)
      BY <1>1, <1>2, <2>2
    <2> QED
      BY <2>2, <2>3, SizeFacts DEF BoardFits
  <1>5. Windows(rows, w) \in [Row -> 0 .. 20]
    BY <1>3, <1>4
  <1>6. 0 .. 20 \subseteq RankWord
    BY DEF RankWord
  <1> QED
    BY <1>5, <1>6

LEMMA OneLevel ==
    ASSUME BoardFits, NEW rows \in Board, NEW w \in Nat \ {0}
    PROVE  /\ RankLevel(Windows(rows, w), w) = Windows(rows, 2*w)
           /\ PrefixLevel(Windows(rows, w), w) = Windows(rows, 2*w)
  <1> DEFINE N(n) == Len(KeptOf(rows)[n])
             Low(s, v) == IF s+1 > v THEN s+1-v ELSE 0
             a == Windows(rows, w)
             b == Windows(rows, 2*w)
  <1>1. \A n \in 0 .. H : N(n) \in Nat
    <2>1. \A n \in 0 .. H : N(n) \in 0 .. n
      BY KeptRows
    <2> HIDE DEF N
    <2> QED
      BY <2>1
  <1>2. \A s \in Row : a[s] = N(s+1) - N(Low(s, w)) /\ b[s] = N(s+1) - N(Low(s, 2*w))
    BY DEF Windows
  <1>3. b \in [Row -> 0 .. 20] /\ a \in [Row -> 0 .. 20]
    BY WindowValues
  <1> HIDE DEF N, a, b
  <1>4. ASSUME NEW s \in Row, s >= w PROVE a[s] + a[s-w] = b[s] /\ (a[s] + a[s-w]) % 32 = b[s]
    <2>1. s-w \in Row /\ Low(s, w) = (s-w)+1 /\ Low(s-w, w) = Low(s, 2*w)
      BY <1>4, SizeFacts DEF Row
    <2>2. s+1 \in 0 .. H /\ Low(s, w) \in 0 .. H /\ Low(s, 2*w) \in 0 .. H
      BY SizeFacts DEF Row
    <2> HIDE DEF Low
    <2>3. a[s-w] = N(Low(s, w)) - N(Low(s, 2*w)) /\ a[s] = N(s+1) - N(Low(s, w)) /\ b[s] = N(s+1) - N(Low(s, 2*w))
      BY <1>2, <2>1
    <2>4. PICK i \in Nat, j \in Nat, k \in Nat : i = N(s+1) /\ j = N(Low(s, w)) /\ k = N(Low(s, 2*w))
      BY <1>1, <2>2
    <2>5. a[s] = i - j /\ a[s-w] = j - k /\ b[s] = i - k
      BY <2>3, <2>4
    <2>6. a[s] + a[s-w] = b[s]
      BY <2>5
    <2>7. b[s] \in 0 .. 20
      BY <1>3
    <2>8. b[s] % 32 = b[s]
      BY <2>7
    <2> QED
      BY <2>6, <2>8
  <1>5. ASSUME NEW s \in Row, ~(s >= w) PROVE a[s] = b[s] /\ a[s] + 0 = b[s]
    <2>1. Low(s, w) = 0 /\ Low(s, 2*w) = 0
      BY <1>5 DEF Row
    <2>2. a[s] = b[s]
      BY <1>2, <2>1
    <2> QED
      BY <1>3, <2>2
  <1>6. b = [s \in Row |-> b[s]]
    BY <1>3
  <1>7. RankLevel(a, w) = [s \in Row |-> IF s >= w THEN (a[s] + a[s-w]) % 32 ELSE a[s]]
    BY DEF RankLevel
  <1>8. PrefixLevel(a, w) = [s \in Row |-> a[s] + IF s >= w THEN a[s-w] ELSE 0]
    BY DEF PrefixLevel
  <1>9. RankLevel(a, w) = b
    BY <1>4, <1>5, <1>6, <1>7
  <1>10. PrefixLevel(a, w) = b
    BY <1>4, <1>5, <1>6, <1>8
  <1> QED
    BY <1>9, <1>10 DEF a, b

LEMMA FirstLevel ==
    ASSUME BoardFits, NEW rows \in Board
    PROVE  LevelZero(Keep(rows)) = Windows(rows, 1)
  <1> DEFINE N(n) == Len(KeptOf(rows)[n])
  <1>1. \A n \in 0 .. H : N(n) \in Nat
    <2>1. \A n \in 0 .. H : N(n) \in 0 .. n
      BY KeptRows
    <2> HIDE DEF N
    <2> QED
      BY <2>1
  <1>2. \A s \in Row : N(s+1) = IF rows[s] = FULL_ROW THEN N(s) ELSE N(s) + 1
    BY FullRowGoes, SurvivorPlace
  <1>3. Windows(rows, 1) = [s \in Row |-> N(s+1) - N(IF s+1 > 1 THEN s+1-1 ELSE 0)]
    BY DEF Windows
  <1> HIDE DEF N
  <1>4. \A s \in Row : N(s+1) - N(IF s+1 > 1 THEN s+1-1 ELSE 0) = IF s \in Keep(rows) THEN 1 ELSE 0
    <2>1. \A s \in Row : (IF s+1 > 1 THEN s+1-1 ELSE 0) = s /\ s \in 0 .. H
      BY SizeFacts DEF Row
    <2>2. \A s \in Row : s \in Keep(rows) <=> rows[s] # FULL_ROW
      BY DEF Keep
    <2> QED
      BY <1>1, <1>2, <2>1, <2>2
  <1> QED
    BY <1>3, <1>4 DEF LevelZero

-----------------------------------------------------------------------------
(* Five levels of the scan cover twenty rows: the bank of ranks and its     *)
(* reference (model/compaction.py inclusive_prefix).                        *)
LEMMA RanksAre ==
    ASSUME BoardFits, NEW rows \in Board
    PROVE  Ranks(Keep(rows)) = Windows(rows, 32)
  <1> DEFINE S == [Row -> RankWord]
             base == LevelZero(Keep(rows))
             step == [n \in 1 .. 5 |-> [v \in S |-> RankLevel(v, STRIDES[n])]]
             Step(f, s) == IF s = {} THEN base ELSE RankLevel(f[s \ {Max(s)}], STRIDES[Max(s)])
             F == CHOOSE f : f = [s \in SUBSET DOMAIN STRIDES |-> Step(f, s)]
             win(w) == Windows(rows, w)
  <1>1. Ranks(Keep(rows)) = F[DOMAIN STRIDES]
    BY DEF Ranks, FoldLeft, MapThenFoldSet
  <1>2. /\ DOMAIN STRIDES = 1 .. 5 /\ STRIDES[1] = 1 /\ STRIDES[2] = 2 /\ STRIDES[3] = 4
        /\ STRIDES[4] = 8 /\ STRIDES[5] = 16
    BY DEF STRIDES
  <1>3. base = win(1) /\ base \in S
    BY FirstLevel, WindowValues
  <1>4. step \in [1 .. 5 -> [S -> S]]
    <2>1. ASSUME NEW n \in 1 .. 5, NEW v \in S PROVE RankLevel(v, STRIDES[n]) \in S
      <3> DEFINE w == STRIDES[n]
      <3>1. w \in Nat
        BY <1>2
      <3> HIDE DEF w
      <3>2. \A s \in Row : s >= w => s - w \in Row
        BY <3>1, SizeFacts DEF Row
      <3> QED
        BY <3>1, <3>2 DEF RankLevel, w, RankWord
    <2> QED
      BY <2>1
  <1>5. \A n \in 1 .. 5, v \in S : step[n][v] = RankLevel(v, STRIDES[n])
    OBVIOUS
  <1> HIDE DEF S, step, base
  <1>6. PICK f : Folds(f, 5, S, base, step)
    BY <1>3, <1>4, FoldExists
  <1>7. ASSUME NEW s \in SUBSET (1 .. 5) PROVE f[s] = Step(f, s)
    <2>1. f \in [SUBSET (1 .. 5) -> S] /\ f[s] = IF s = {} THEN base ELSE step[Max(s)][f[s \ {Max(s)}]]
      BY <1>6 DEF Folds
    <2>2. s # {} => Max(s) \in 1 .. 5
      <3>1. s \in SUBSET Int /\ \A k \in s : k <= 5
        OBVIOUS
      <3>2. 5 \in Int
        OBVIOUS
      <3> QED
        BY <3>1, <3>2, MaxOf
    <2> QED
      BY <1>5, <2>1, <2>2
  <1> HIDE DEF Step
  <1>8. f = [s \in SUBSET DOMAIN STRIDES |-> Step(f, s)]
    <2>1. f = [s \in SUBSET (1 .. 5) |-> f[s]]
      BY <1>6 DEF Folds
    <2> QED
      BY <1>2, <1>7, <2>1
  <1>9. F = [s \in SUBSET DOMAIN STRIDES |-> Step(F, s)]
    BY <1>8, Zenon
  <1> HIDE DEF F
  <1>10. \A s \in SUBSET (1 .. 5) : F[s] = Step(F, s)
    BY <1>2, <1>9
  <1>11. 1 .. 0 = {} /\ F[1 .. 0] = base
    <2>1. 1 .. 0 = {} /\ {} \in SUBSET (1 .. 5)
      OBVIOUS
    <2> QED
      BY <1>10, <2>1 DEF Step
  <1>12. \A n \in 1 .. 5 : F[1 .. n] = RankLevel(F[1 .. n-1], STRIDES[n])
    <2>1. SUFFICES ASSUME NEW n \in 1 .. 5 PROVE F[1 .. n] = RankLevel(F[1 .. n-1], STRIDES[n])
      OBVIOUS
    <2>2. n \in Nat /\ n # 0 /\ 1 .. n \in SUBSET (1 .. 5)
      OBVIOUS
    <2>3. Max(1 .. n) = n /\ (1 .. n) \ {n} = 1 .. n-1 /\ 1 .. n # {}
      BY <2>2, UpperEnd
    <2> QED
      BY <1>10, <2>2, <2>3 DEF Step
  <1>13. \A w \in Nat \ {0} : RankLevel(win(w), w) = win(2*w)
    BY OneLevel
  <1> HIDE DEF win
  <1>14. /\ F[1 .. 1] = RankLevel(F[1 .. 0], 1) /\ F[1 .. 2] = RankLevel(F[1 .. 1], 2)
         /\ F[1 .. 3] = RankLevel(F[1 .. 2], 4) /\ F[1 .. 4] = RankLevel(F[1 .. 3], 8)
         /\ F[1 .. 5] = RankLevel(F[1 .. 4], 16)
    <2>1. /\ F[1 .. 1] = RankLevel(F[1 .. 1-1], STRIDES[1]) /\ F[1 .. 2] = RankLevel(F[1 .. 2-1], STRIDES[2])
          /\ F[1 .. 3] = RankLevel(F[1 .. 3-1], STRIDES[3]) /\ F[1 .. 4] = RankLevel(F[1 .. 4-1], STRIDES[4])
          /\ F[1 .. 5] = RankLevel(F[1 .. 5-1], STRIDES[5])
      BY <1>12
    <2>2. 1-1 = 0 /\ 2-1 = 1 /\ 3-1 = 2 /\ 4-1 = 3 /\ 5-1 = 4
      OBVIOUS
    <2> QED
      BY <1>2, <2>1, <2>2
  <1>15. /\ RankLevel(win(1), 1) = win(2) /\ RankLevel(win(2), 2) = win(4) /\ RankLevel(win(4), 4) = win(8)
         /\ RankLevel(win(8), 8) = win(16) /\ RankLevel(win(16), 16) = win(32)
    <2>1. /\ RankLevel(win(1), 1) = win(2*1) /\ RankLevel(win(2), 2) = win(2*2) /\ RankLevel(win(4), 4) = win(2*4)
          /\ RankLevel(win(8), 8) = win(2*8) /\ RankLevel(win(16), 16) = win(2*16)
      BY <1>13
    <2>2. 2*1 = 2 /\ 2*2 = 4 /\ 2*4 = 8 /\ 2*8 = 16 /\ 2*16 = 32
      OBVIOUS
    <2> QED
      BY <2>1, <2>2
  <1>16. F[1 .. 5] = win(32)
    BY <1>3, <1>11, <1>14, <1>15, Zenon
  <1> QED
    BY <1>1, <1>2, <1>16 DEF win

LEMMA WindowNaturals ==
    ASSUME BoardFits, NEW rows \in Board, NEW w \in Nat
    PROVE  Windows(rows, w) \in [Row -> Nat]
  <1>1. 0 .. 20 \subseteq Nat
    OBVIOUS
  <1> QED
    BY <1>1, WindowValues

LEMMA PrefixesAre ==
    ASSUME BoardFits, NEW rows \in Board
    PROVE  InclusivePrefix(Keep(rows)) = Windows(rows, 32)
  <1> DEFINE S == [Row -> Nat]
             base == LevelZero(Keep(rows))
             step == [n \in 1 .. 5 |-> [v \in S |-> PrefixLevel(v, STRIDES[n])]]
             Step(f, s) == IF s = {} THEN base ELSE PrefixLevel(f[s \ {Max(s)}], STRIDES[Max(s)])
             F == CHOOSE f : f = [s \in SUBSET DOMAIN STRIDES |-> Step(f, s)]
             win(w) == Windows(rows, w)
  <1>1. InclusivePrefix(Keep(rows)) = F[DOMAIN STRIDES]
    BY DEF InclusivePrefix, FoldLeft, MapThenFoldSet
  <1>2. /\ DOMAIN STRIDES = 1 .. 5 /\ STRIDES[1] = 1 /\ STRIDES[2] = 2 /\ STRIDES[3] = 4
        /\ STRIDES[4] = 8 /\ STRIDES[5] = 16
    BY DEF STRIDES
  <1>3. base = win(1) /\ base \in S
    BY FirstLevel, WindowNaturals
  <1>4. step \in [1 .. 5 -> [S -> S]]
    <2>1. ASSUME NEW n \in 1 .. 5, NEW v \in S PROVE PrefixLevel(v, STRIDES[n]) \in S
      <3> DEFINE w == STRIDES[n]
      <3>1. w \in Nat
        BY <1>2
      <3> HIDE DEF w
      <3>2. \A s \in Row : s >= w => s - w \in Row
        BY <3>1, SizeFacts DEF Row
      <3> QED
        BY <3>1, <3>2 DEF PrefixLevel, w, RankWord
    <2> QED
      BY <2>1
  <1>5. \A n \in 1 .. 5, v \in S : step[n][v] = PrefixLevel(v, STRIDES[n])
    OBVIOUS
  <1> HIDE DEF S, step, base
  <1>6. PICK f : Folds(f, 5, S, base, step)
    BY <1>3, <1>4, FoldExists
  <1>7. ASSUME NEW s \in SUBSET (1 .. 5) PROVE f[s] = Step(f, s)
    <2>1. f \in [SUBSET (1 .. 5) -> S] /\ f[s] = IF s = {} THEN base ELSE step[Max(s)][f[s \ {Max(s)}]]
      BY <1>6 DEF Folds
    <2>2. s # {} => Max(s) \in 1 .. 5
      <3>1. s \in SUBSET Int /\ \A k \in s : k <= 5
        OBVIOUS
      <3>2. 5 \in Int
        OBVIOUS
      <3> QED
        BY <3>1, <3>2, MaxOf
    <2> QED
      BY <1>5, <2>1, <2>2
  <1> HIDE DEF Step
  <1>8. f = [s \in SUBSET DOMAIN STRIDES |-> Step(f, s)]
    <2>1. f = [s \in SUBSET (1 .. 5) |-> f[s]]
      BY <1>6 DEF Folds
    <2> QED
      BY <1>2, <1>7, <2>1
  <1>9. F = [s \in SUBSET DOMAIN STRIDES |-> Step(F, s)]
    BY <1>8, Zenon
  <1> HIDE DEF F
  <1>10. \A s \in SUBSET (1 .. 5) : F[s] = Step(F, s)
    BY <1>2, <1>9
  <1>11. 1 .. 0 = {} /\ F[1 .. 0] = base
    <2>1. 1 .. 0 = {} /\ {} \in SUBSET (1 .. 5)
      OBVIOUS
    <2> QED
      BY <1>10, <2>1 DEF Step
  <1>12. \A n \in 1 .. 5 : F[1 .. n] = PrefixLevel(F[1 .. n-1], STRIDES[n])
    <2>1. SUFFICES ASSUME NEW n \in 1 .. 5 PROVE F[1 .. n] = PrefixLevel(F[1 .. n-1], STRIDES[n])
      OBVIOUS
    <2>2. n \in Nat /\ n # 0 /\ 1 .. n \in SUBSET (1 .. 5)
      OBVIOUS
    <2>3. Max(1 .. n) = n /\ (1 .. n) \ {n} = 1 .. n-1 /\ 1 .. n # {}
      BY <2>2, UpperEnd
    <2> QED
      BY <1>10, <2>2, <2>3 DEF Step
  <1>13. \A w \in Nat \ {0} : PrefixLevel(win(w), w) = win(2*w)
    BY OneLevel
  <1> HIDE DEF win
  <1>14. /\ F[1 .. 1] = PrefixLevel(F[1 .. 0], 1) /\ F[1 .. 2] = PrefixLevel(F[1 .. 1], 2)
         /\ F[1 .. 3] = PrefixLevel(F[1 .. 2], 4) /\ F[1 .. 4] = PrefixLevel(F[1 .. 3], 8)
         /\ F[1 .. 5] = PrefixLevel(F[1 .. 4], 16)
    <2>1. /\ F[1 .. 1] = PrefixLevel(F[1 .. 1-1], STRIDES[1]) /\ F[1 .. 2] = PrefixLevel(F[1 .. 2-1], STRIDES[2])
          /\ F[1 .. 3] = PrefixLevel(F[1 .. 3-1], STRIDES[3]) /\ F[1 .. 4] = PrefixLevel(F[1 .. 4-1], STRIDES[4])
          /\ F[1 .. 5] = PrefixLevel(F[1 .. 5-1], STRIDES[5])
      BY <1>12
    <2>2. 1-1 = 0 /\ 2-1 = 1 /\ 3-1 = 2 /\ 4-1 = 3 /\ 5-1 = 4
      OBVIOUS
    <2> QED
      BY <1>2, <2>1, <2>2
  <1>15. /\ PrefixLevel(win(1), 1) = win(2) /\ PrefixLevel(win(2), 2) = win(4) /\ PrefixLevel(win(4), 4) = win(8)
         /\ PrefixLevel(win(8), 8) = win(16) /\ PrefixLevel(win(16), 16) = win(32)
    <2>1. /\ PrefixLevel(win(1), 1) = win(2*1) /\ PrefixLevel(win(2), 2) = win(2*2) /\ PrefixLevel(win(4), 4) = win(2*4)
          /\ PrefixLevel(win(8), 8) = win(2*8) /\ PrefixLevel(win(16), 16) = win(2*16)
      BY <1>13
    <2>2. 2*1 = 2 /\ 2*2 = 4 /\ 2*4 = 8 /\ 2*8 = 16 /\ 2*16 = 32
      OBVIOUS
    <2> QED
      BY <2>1, <2>2
  <1>16. F[1 .. 5] = win(32)
    BY <1>3, <1>11, <1>14, <1>15, Zenon
  <1> QED
    BY <1>1, <1>2, <1>16 DEF win

LEMMA RankOfRow ==
    ASSUME BoardFits, NEW rows \in Board, NEW s \in Row
    PROVE  /\ Windows(rows, 32)[s] = Len(KeptOf(rows)[s+1])
           /\ rows[s] # FULL_ROW => Windows(rows, 32)[s] = Len(KeptOf(rows)[s]) + 1
  <1>1. Windows(rows, 32)[s] = Len(KeptOf(rows)[s+1]) - Len(KeptOf(rows)[IF s+1 > 32 THEN s+1-32 ELSE 0])
    BY DEF Windows
  <1>2. ~(s+1 > 32) /\ s+1 \in 0 .. H
    BY SizeFacts DEF BoardFits, Row
  <1>3. Len(KeptOf(rows)[0]) = 0
    BY KeptSteps
  <1>4. Len(KeptOf(rows)[s+1]) \in 0 .. s+1
    BY <1>2, KeptRows
  <1>5. PICK k \in Nat : k = Len(KeptOf(rows)[s+1])
    BY <1>4
  <1>6. Windows(rows, 32)[s] = k
    <2>1. Windows(rows, 32)[s] = Len(KeptOf(rows)[s+1]) - Len(KeptOf(rows)[0])
      BY <1>1, <1>2
    <2>2. Windows(rows, 32)[s] = k - 0
      BY <1>3, <1>5, <2>1
    <2> QED
      BY <2>2
  <1> QED
    BY <1>5, <1>6, SurvivorPlace

(* The row that comes down to place d is the one with d rows kept below it. *)
Sources(rows, d) == {s \in Row : rows[s] # FULL_ROW /\ Len(KeptOf(rows)[s]) = d}

LEMMA RowSelected ==
    ASSUME NEW rows \in Board, NEW d \in Row
    PROVE  UNION {rows[s] : s \in Sources(rows, d)} = Cleared(rows)[d]
  <1> DEFINE N(s) == Len(KeptOf(rows)[s])
             top == Len(Survivors(rows))
             V == Survivors(rows)
  <1>1. top \in Nat /\ d \in Nat
    <2>1. top \in Nat
      BY KeptRecursion, KeptRows, SizeFacts
    <2> QED
      BY <2>1 DEF Row
  <1>2. Cleared(rows)[d] = IF d < top THEN V[d+1] ELSE {}
    BY DEF Cleared
  <1>3. \A s \in Row : rows[s] # FULL_ROW => N(s) + 1 \in 1 .. top /\ V[N(s) + 1] = rows[s]
    BY SurvivorPlace
  <1>4. d < top => \E s \in Row : rows[s] # FULL_ROW /\ N(s) = d /\ V[d+1] = rows[s]
    BY <1>1, SurvivorSource
  <1>5. Sources(rows, d) = {s \in Row : rows[s] # FULL_ROW /\ N(s) = d}
    BY DEF Sources
  <1> HIDE DEF N, top, V
  <1>6. \A s \in Sources(rows, d) : d < top /\ rows[s] = V[d+1]
    <2>1. SUFFICES ASSUME NEW s \in Sources(rows, d) PROVE d < top /\ rows[s] = V[d+1]
      OBVIOUS
    <2>2. d+1 \in 1 .. top /\ V[d+1] = rows[s]
      BY <1>3, <1>5
    <2> QED
      BY <1>1, <2>2
  <1>7. CASE d < top
    <2>1. PICK s \in Sources(rows, d) : V[d+1] = rows[s]
      BY <1>4, <1>5, <1>7
    <2> QED
      BY <1>2, <1>6, <1>7, <2>1
  <1>8. CASE ~(d < top)
    <2>1. Sources(rows, d) = {}
      BY <1>6, <1>8
    <2> QED
      BY <1>2, <1>8, <2>1
  <1> QED
    BY <1>7, <1>8

(* The groups of four cover the rows.                                       *)
LEMMA GroupsCover ==
    ASSUME NEW S \in SUBSET Row, NEW f
    PROVE  /\ UNION {UNION {f[s] : s \in S \cap GroupRows(g)} : g \in Group} = UNION {f[s] : s \in S}
           /\ \A s \in Row : s \div 4 \in Group /\ s \in GroupRows(s \div 4)
  <1>1. \A s \in Row : s \div 4 \in Group /\ s \in GroupRows(s \div 4)
    <2>1. SUFFICES ASSUME NEW s \in Row PROVE s \div 4 \in Group /\ s \in GroupRows(s \div 4)
      OBVIOUS
    <2>2. s \in Nat /\ s <= H-1 /\ H-1 \in Nat
      BY SizeFacts DEF Row
    <2> DEFINE m == H-1
    <2> HIDE DEF m
    <2>3. s \in Nat /\ m \in Nat /\ s <= m
      BY <2>2 DEF m
    <2>4. s \div 4 \in Nat /\ s \div 4 <= m \div 4 /\ m \div 4 \in Nat
      BY <2>3
    <2>5. s \div 4 \in 0 .. m \div 4
      BY <2>4
    <2> QED
      BY <2>5 DEF Group, GroupRows, m
  <1>2. \A s \in S : \E g \in Group : s \in S \cap GroupRows(g)
    BY <1>1
  <1>3. UNION {UNION {f[s] : s \in S \cap GroupRows(g)} : g \in Group} = UNION {f[s] : s \in S}
    <2>1. ASSUME NEW v PROVE v \in UNION {UNION {f[s] : s \in S \cap GroupRows(g)} : g \in Group}
                               <=> v \in UNION {f[s] : s \in S}
      BY <1>2
    <2> QED
      BY <2>1
  <1> QED
    BY <1>1, <1>3

(* The banks P4..P12 and the reference of the networks close the gaps as    *)
(* the rules do, and count the lines: rank, match and select, for every     *)
(* board.                                                                   *)
LEMMA RowNetworks ==
    ASSUME BoardFits, NEW rows \in Board
    PROVE  /\ Compacted(rows, Match(Keep(rows), Ranks(Keep(rows)))) = Cleared(rows)
           /\ ClearedCount(Ranks(Keep(rows))) = Lines(rows)
           /\ CompactPrefix(rows) = CompactFilter(rows)
  <1> DEFINE keep == Keep(rows)
             rank == Windows(rows, 32)
             N(s) == Len(KeptOf(rows)[s])
  <1>1. Ranks(keep) = rank /\ InclusivePrefix(keep) = rank
    BY RanksAre, PrefixesAre
  <1>2. keep = {s \in Row : rows[s] # FULL_ROW}
    BY DEF Keep
  <1>3. \A s \in Row : rows[s] # FULL_ROW => rank[s] = N(s) + 1 /\ N(s) \in Nat
    <2>1. \A s \in Row : s \in 0 .. H /\ s \in Nat
      BY SizeFacts DEF Row
    <2>2. \A s \in Row : N(s) \in 0 .. s
      BY <2>1, KeptRows
    <2>3. \A s \in Row : N(s) \in Nat
      <3> HIDE DEF N
      <3> QED
        BY <2>1, <2>2
    <2> QED
      BY <2>3, RankOfRow
  <1>4. \A d \in Row : Sources(rows, d) = {s \in Row : rows[s] # FULL_ROW /\ N(s) = d}
    BY DEF Sources
  <1>5. Cleared(rows) = [d \in Row |-> Cleared(rows)[d]]
    BY DEF Cleared
  <1>6. Lines(rows) \in 0 .. 20 /\ H - rank[H-1] = Lines(rows)
    <2>1. H-1 \in Row /\ (H-1)+1 = H
      BY SizeFacts DEF Row
    <2>2. rank[H-1] = Len(Survivors(rows))
      BY <2>1, RankOfRow, KeptRecursion
    <2>3. Len(Survivors(rows)) \in 0 .. H
      BY KeptRecursion, KeptRows, SizeFacts
    <2> HIDE DEF rank
    <2>4. PICK k \in 0 .. H : k = Len(Survivors(rows))
      BY <2>3
    <2>5. Lines(rows) = H - k /\ H - rank[H-1] = H - k
      BY <2>2, <2>4 DEF Lines
    <2> QED
      BY <2>5, SizeFacts DEF BoardFits
  <1> HIDE DEF keep, rank, N
  <1>7. \A d \in Row : Match(keep, rank)[d] = Sources(rows, d)
    <2>1. \A d \in Row : Match(keep, rank)[d] = {s \in keep : rank[s] = d + 1}
      BY DEF Match
    <2>2. SUFFICES ASSUME NEW d \in Row PROVE Match(keep, rank)[d] = Sources(rows, d)
      OBVIOUS
    <2>3. \A s \in keep : rank[s] = d + 1 <=> N(s) = d
      BY <1>2, <1>3 DEF Row
    <2>4. {s \in keep : rank[s] = d + 1} = {s \in Row : rows[s] # FULL_ROW /\ N(s) = d}
      BY <1>2, <2>3
    <2> QED
      BY <1>4, <2>1, <2>4
  <1>8. \A d \in Row : Sources(rows, d) \in SUBSET Row
    BY <1>4
  <1>9. Compacted(rows, Match(keep, rank)) = Cleared(rows)
    <2>1. Compacted(rows, Match(keep, rank))
            = [d \in Row |-> UNION {UNION {rows[s] : s \in Match(keep, rank)[d] \cap GroupRows(g)} : g \in Group}]
      BY DEF Compacted, Partial
    <2>2. \A d \in Row : UNION {UNION {rows[s] : s \in Match(keep, rank)[d] \cap GroupRows(g)} : g \in Group}
                          = Cleared(rows)[d]
      <3>1. SUFFICES ASSUME NEW d \in Row
                     PROVE  UNION {UNION {rows[s] : s \in Match(keep, rank)[d] \cap GroupRows(g)} : g \in Group}
                              = Cleared(rows)[d]
        OBVIOUS
      <3>2. UNION {UNION {rows[s] : s \in Sources(rows, d) \cap GroupRows(g)} : g \in Group}
              = UNION {rows[s] : s \in Sources(rows, d)}
        BY <1>8, GroupsCover
      <3> QED
        BY <1>7, <3>2, RowSelected
    <2> QED
      BY <1>5, <2>1, <2>2
  <1>10. SelectRows(rows, MatchMatrix(keep, rank)) = Cleared(rows)
    <2> DEFINE M == MatchMatrix(keep, rank)
    <2>1. \A d, t \in Row : <<d, t>> \in M <=> t \in Sources(rows, d)
      <3>1. \A d, t \in Row : <<d, t>> \in M <=> t \in keep /\ rank[t] = d + 1
        BY DEF MatchMatrix
      <3>2. \A d, t \in Row : t \in keep => (rank[t] = d + 1 <=> N(t) = d)
        BY <1>2, <1>3 DEF Row
      <3>3. \A d, t \in Row : t \in Sources(rows, d) <=> t \in keep /\ N(t) = d
        BY <1>2, <1>4
      <3> HIDE DEF M
      <3> QED
        BY <3>1, <3>2, <3>3
    <2>2. \A d \in Row, g \in Group : {t \in GroupRows(g) : <<d, t>> \in M} = Sources(rows, d) \cap GroupRows(g)
      <3>1. \A g \in Group : GroupRows(g) \subseteq Row
        BY DEF GroupRows
      <3> HIDE DEF M
      <3> QED
        BY <1>8, <2>1, <3>1
    <2> HIDE DEF M
    <2>3. SelectRows(rows, M)
            = [d \in Row |-> UNION {UNION {rows[s] : s \in {t \in GroupRows(g) : <<d, t>> \in M}} : g \in Group}]
      BY DEF SelectRows
    <2>4. ASSUME NEW d \in Row
          PROVE  UNION {UNION {rows[s] : s \in {t \in GroupRows(g) : <<d, t>> \in M}} : g \in Group}
                   = Cleared(rows)[d]
      <3>1. UNION {UNION {rows[s] : s \in Sources(rows, d) \cap GroupRows(g)} : g \in Group}
              = UNION {rows[s] : s \in Sources(rows, d)}
        BY <1>8, GroupsCover
      <3>2. \A g \in Group : {t \in GroupRows(g) : <<d, t>> \in M} = Sources(rows, d) \cap GroupRows(g)
        BY <2>2
      <3> QED
        BY <3>1, <3>2, RowSelected
    <2> QED
      BY <1>5, <2>3, <2>4 DEF M
  <1>11. ClearedCount(rank) = Lines(rows)
    BY <1>6 DEF ClearedCount
  <1> QED
    BY <1>1, <1>6, <1>9, <1>10, <1>11 DEF CompactPrefix, CompactFilter, keep

-----------------------------------------------------------------------------
(* Bank P14 joins the codes of the groups to the height of the column.      *)
Occupied(rows, x) == {y \in Row : x \in rows[y]}
CodeOf(rows, x, g) == Code(GroupBits(rows, x, g))

LEMMA GroupOfRow ==
    ASSUME NEW y \in Row
    PROVE  y \div 4 \in Group /\ y % 4 \in 0 .. 3 /\ y = 4 * (y \div 4) + (y % 4) /\ y \div 4 \in Nat
  <1>1. y \in Nat
    BY DEF Row
  <1>2. y % 4 \in 0 .. 3 /\ y = 4 * (y \div 4) + (y % 4) /\ y \div 4 \in Nat
    BY <1>1
  <1> QED
    BY <1>2, GroupsCover

LEMMA GroupCode ==
    ASSUME NEW rows \in Board, NEW x \in Column, NEW g \in Group
    PROVE  /\ CodeOf(rows, x, g) \in 0 .. 4
           /\ \A i \in GroupBits(rows, x, g) : i + 1 <= CodeOf(rows, x, g)
           /\ CodeOf(rows, x, g) # 0 => CodeOf(rows, x, g) - 1 \in GroupBits(rows, x, g)
  <1> DEFINE B == GroupBits(rows, x, g)
             S == {0} \cup {i + 1 : i \in B}
  <1>1. B \subseteq 0 .. 3
    BY DEF GroupBits
  <1> HIDE DEF B
  <1>2. \A k \in S : k \in 0 .. 4 /\ (k # 0 => k - 1 \in B)
    <2>1. \A i \in B : i + 1 \in 0 .. 4 /\ (i + 1) - 1 = i
      BY <1>1
    <2> QED
      BY <2>1
  <1>3. S \in SUBSET Int /\ S # {} /\ 4 \in Int /\ \A k \in S : k <= 4
    <2>1. 0 \in S
      OBVIOUS
    <2> HIDE DEF S
    <2> QED
      BY <1>2, <2>1
  <1>4. \A i \in B : i + 1 \in S
    OBVIOUS
  <1> HIDE DEF S
  <1>5. Max(S) \in S /\ \A k \in S : k <= Max(S)
    BY <1>3, MaxOf
  <1>6. CodeOf(rows, x, g) = Max(S)
    BY DEF CodeOf, Code, S, B
  <1> QED
    BY <1>2, <1>4, <1>5, <1>6 DEF B

LEMMA JoinedIsHeight ==
    ASSUME NEW rows \in Board, NEW x \in Column
    PROVE  JoinedHeight([g \in Group |-> CodeOf(rows, x, g)]) = ColumnHeight(rows, x)
  <1> DEFINE code == [g \in Group |-> CodeOf(rows, x, g)]
             busy == {g \in Group : code[g] # 0}
             h == ColumnHeight(rows, x)
  <1>1. /\ h \in Nat /\ \A y \in Row : x \in rows[y] => y < h
        /\ h > 0 => h - 1 \in Row /\ x \in rows[h - 1]
    BY ColumnTop, SizeFacts
  <1>2. JoinedHeight(code) = IF busy = {} THEN 0 ELSE 4 * Max(busy) + code[Max(busy)]
    BY DEF JoinedHeight
  <1>3. \A g \in Group : /\ code[g] \in 0 .. 4 /\ (\A i \in GroupBits(rows, x, g) : i + 1 <= code[g])
                         /\ code[g] # 0 => code[g] - 1 \in GroupBits(rows, x, g)
    BY GroupCode
  <1>4. \A g, i : i \in GroupBits(rows, x, g) <=> i \in 0 .. 3 /\ 4*g + i \in Row /\ x \in rows[4*g + i]
    BY DEF GroupBits
  <1>5. \A g \in Group : g \in Nat
    BY DEF Group
  <1> HIDE DEF code, h
  <1>6. \A g \in busy : g \in Group /\ code[g] \in 1 .. 4 /\ 4*g + (code[g] - 1) < h
    <2>1. SUFFICES ASSUME NEW g \in busy PROVE code[g] \in 1 .. 4 /\ 4*g + (code[g] - 1) < h
      OBVIOUS
    <2>2. g \in Group /\ code[g] # 0
      OBVIOUS
    <2>3. code[g] \in 0 .. 4 /\ code[g] - 1 \in GroupBits(rows, x, g)
      BY <1>3, <2>2
    <2>4. 4*g + (code[g] - 1) \in Row /\ x \in rows[4*g + (code[g] - 1)]
      BY <1>4, <2>3
    <2> QED
      BY <1>1, <2>2, <2>3, <2>4
  <1>7. CASE h = 0
    <2>1. \A g \in busy : FALSE
      BY <1>5, <1>6, <1>7
    <2> QED
      BY <1>2, <1>7, <2>1 DEF code, h
  <1>8. CASE h # 0
    <2> DEFINE y == h - 1  g == y \div 4  i == y % 4
    <2>1. y \in Row /\ x \in rows[y] /\ y \in Nat /\ h = y + 1
      BY <1>1, <1>8
    <2> HIDE DEF y
    <2>2. g \in Group /\ i \in 0 .. 3 /\ y = 4*g + i /\ g \in Nat
      BY <2>1, GroupOfRow
    <2> HIDE DEF g, i
    <2>3. i \in GroupBits(rows, x, g)
      BY <1>4, <2>1, <2>2
    <2>4. code[g] \in 0 .. 4 /\ i + 1 <= code[g]
      BY <1>3, <2>2, <2>3
    <2>5. g \in busy
      BY <2>2, <2>4
    <2>6. code[g] = i + 1
      <3>1. code[g] \in 1 .. 4 /\ 4*g + (code[g] - 1) < h
        BY <1>6, <2>5
      <3> QED
        BY <2>1, <2>2, <2>4, <3>1
    <2>7. \A k \in busy : k \in Nat /\ k <= g
      <3>1. SUFFICES ASSUME NEW k \in busy PROVE k \in Nat /\ k <= g
        OBVIOUS
      <3>2. k \in Nat /\ code[k] \in 1 .. 4 /\ 4*k + (code[k] - 1) < h
        BY <1>5, <1>6
      <3> QED
        BY <2>1, <2>2, <3>2
    <2> HIDE DEF busy
    <2>8. Max(busy) \in busy /\ \A k \in busy : k <= Max(busy)
      <3>1. busy \in SUBSET Int /\ g \in Int /\ busy # {}
        BY <2>2, <2>5, <2>7
      <3> QED
        BY <2>7, <3>1, MaxOf
    <2>9. Max(busy) = g
      <3>1. Max(busy) \in Nat /\ Max(busy) <= g /\ g <= Max(busy)
        BY <2>5, <2>7, <2>8
      <3> QED
        BY <2>2, <3>1
    <2>10. JoinedHeight(code) = 4*g + (i + 1)
      BY <1>2, <2>5, <2>6, <2>9
    <2> QED
      BY <2>1, <2>2, <2>10 DEF code, h
  <1> QED
    BY <1>7, <1>8

(* The groups' counts add up to the cells of the column, and the height     *)
(* less the cells is the holes.                                             *)
LEMMA OccupiedIs ==
    ASSUME BoardFits, NEW rows \in Board, NEW x \in Column
    PROVE  /\ MapThenSumSet(LAMBDA g : Cardinality(GroupBits(rows, x, g)), Group) = Cardinality(Occupied(rows, x))
           /\ IsFiniteSet(Occupied(rows, x)) /\ Cardinality(Occupied(rows, x)) \in 0 .. 20
  <1> DEFINE C(g) == Cardinality(GroupBits(rows, x, g))
             v == [g \in Leaves |-> C(g)]
             Under(n) == {y \in Occupied(rows, x) : y < 4*n}
             Step(f, s) == IF s = {} THEN 0 ELSE C(Chosen(s)) + f[s \ {Chosen(s)}]
             F == CHOOSE f : f = [s \in SUBSET Group |-> Step(f, s)]
             m == (H - 1) \div 4
             S == {n \in 0 .. m+1 : IsFiniteSet(Under(n)) /\ Cardinality(Under(n)) = SumIn(v, 0 .. n-1)}
  <1>1. MapThenSumSet(LAMBDA g : Cardinality(GroupBits(rows, x, g)), Group) = F[Group]
    BY DEF MapThenSumSet, MapThenFoldSet, Chosen
  <1>2. \A g : IsFiniteSet(GroupBits(rows, x, g)) /\ C(g) \in Nat
    <2>1. IsFiniteSet(0 .. 3)
      <3>1. 0 \in Int /\ 3 \in Int
        OBVIOUS
      <3> QED
        BY <3>1, FS_Interval, Zenon
    <2>2. \A g : GroupBits(rows, x, g) \subseteq 0 .. 3
      BY DEF GroupBits
    <2>3. \A g : IsFiniteSet(GroupBits(rows, x, g))
      BY <2>1, <2>2, FS_Subset
    <2> QED
      BY <2>3, FS_CardinalityType
  <1>3. H - 1 \in 0 .. 19 /\ m \in 0 .. 4 /\ H - 1 < 4 * (m + 1) /\ Group = 0 .. m
    <2>1. H - 1 \in 0 .. 19
      BY SizeFacts DEF BoardFits
    <2> DEFINE k == H - 1
    <2>2. k \in 0 .. 19 /\ Group = 0 .. k \div 4
      BY <2>1 DEF Group
    <2> HIDE DEF k
    <2>3. k \div 4 \in 0 .. 4 /\ k < 4 * ((k \div 4) + 1)
      BY <2>2
    <2> QED
      BY <2>2, <2>3 DEF k
  <1>4. Occupied(rows, x) \subseteq Row /\ IsFiniteSet(Occupied(rows, x)) /\ Cardinality(Occupied(rows, x)) \in 0 .. 20
    <2>1. Occupied(rows, x) \subseteq Row
      BY DEF Occupied
    <2>2. IsFiniteSet(Row) /\ Cardinality(Row) = H
      BY FS_Interval, SizeFacts DEF Row
    <2>3. IsFiniteSet(Occupied(rows, x)) /\ Cardinality(Occupied(rows, x)) <= H
      BY <2>1, <2>2, FS_Subset
    <2>4. Cardinality(Occupied(rows, x)) \in Nat
      BY <2>3, FS_CardinalityType
    <2> QED
      BY <2>1, <2>3, <2>4, SizeFacts DEF BoardFits
  <1> HIDE DEF m
  <1>5. v \in [Leaves -> Int] /\ Group \in SUBSET Leaves /\ \A g \in Leaves : v[g] = C(g)
    BY <1>2, <1>3 DEF Leaves
  <1> HIDE DEF v, C
  <1>6. 0 \in S
    <2>1. Under(0) = {}
      BY <1>4 DEF Row
    <2>2. 0 .. 0-1 = {} /\ {} \in SUBSET Leaves
      OBVIOUS
    <2>3. SumIn(v, 0 .. 0-1) = 0
      BY <1>5, <2>2, SumInTakes
    <2>4. IsFiniteSet(Under(0)) /\ Cardinality(Under(0)) = 0
      BY <2>1, FS_EmptySet
    <2>5. 0 \in 0 .. m+1
      BY <1>3
    <2> HIDE DEF Under
    <2> QED
      BY <2>3, <2>4, <2>5
  <1>7. ASSUME NEW n \in 0 .. (m+1)-1, n \in S
        PROVE  n+1 \in S
    <2> DEFINE A == Under(n)
               B == GroupBits(rows, x, n)
               D == {y \in Occupied(rows, x) : y >= 4*n /\ y < 4*(n+1)}
               f == [i \in B |-> 4*n + i]
    <2>1. n \in Nat /\ n \in Group /\ n \in Leaves /\ n+1 \in 0 .. m+1 /\ (n+1)-1 = n
      BY <1>3 DEF Leaves
    <2>2. IsFiniteSet(A) /\ Cardinality(A) = SumIn(v, 0 .. n-1)
      BY <1>7
    <2>3. \A y \in Occupied(rows, x) : y \in Nat /\ y \in Row /\ x \in rows[y]
      BY DEF Occupied, Row
    <2>4. \A i : i \in B <=> i \in 0 .. 3 /\ 4*n + i \in Row /\ x \in rows[4*n + i]
      BY DEF GroupBits
    <2>5. IsFiniteSet(D) /\ Cardinality(D) = v[n]
      <3> HIDE DEF B
      <3>1. f \in [B -> D]
        <4>1. ASSUME NEW i \in B PROVE 4*n + i \in D
          BY <2>1, <2>4 DEF Occupied
        <4> HIDE DEF D
        <4> QED
          BY <4>1
      <3>2. \A a, b \in B : f[a] = f[b] => a = b
        BY <2>1, <2>4
      <3>3. \A y \in D : \E i \in B : f[i] = y
        <4>1. SUFFICES ASSUME NEW y \in D PROVE \E i \in B : f[i] = y
          OBVIOUS
        <4>2. y \in Nat /\ y \in Row /\ x \in rows[y] /\ y >= 4*n /\ y < 4*(n+1)
          BY <2>3
        <4>3. y - 4*n \in 0 .. 3 /\ 4*n + (y - 4*n) = y
          BY <2>1, <4>2
        <4>4. y - 4*n \in B
          BY <2>4, <4>2, <4>3
        <4> QED
          BY <4>3, <4>4
      <3> HIDE DEF f, D
      <3>4. IsFiniteSet(B) /\ v[n] = Cardinality(B)
        BY <1>2, <1>5, <2>1 DEF B, C
      <3> QED
        BY <3>1, <3>2, <3>3, <3>4, Images
    <2>6. Under(n+1) = A \cup D
      <3>1. \A y \in Occupied(rows, x) : y < 4*(n+1) <=> y < 4*n \/ (y >= 4*n /\ y < 4*(n+1))
        BY <2>1, <2>3
      <3> QED
        BY <3>1
    <2>7. A \cap D = {}
      BY <2>1, <2>3
    <2> HIDE DEF A, D, B, Under
    <2>8. /\ IsFiniteSet(A \cup D)
          /\ Cardinality(A \cup D) = Cardinality(A) + Cardinality(D) - Cardinality(A \cap D)
          /\ Cardinality(A \cap D) = 0
      BY <2>2, <2>5, <2>7, FS_Union, FS_EmptySet
    <2>9. SumIn(v, 0 .. n) = SumIn(v, 0 .. n-1) + v[n] /\ SumIn(v, 0 .. n-1) \in Int /\ v[n] \in Int
      BY <1>5, <2>1, NextSum
    <2>10. Cardinality(A \cup D) = SumIn(v, 0 .. n-1) + v[n]
      BY <2>2, <2>5, <2>8, <2>9
    <2> QED
      BY <2>1, <2>6, <2>8, <2>9, <2>10
  <1>8. \A n \in 0 .. m+1 : n \in S
    <2>1. S \in SUBSET Nat /\ m+1 \in Nat
      BY <1>3
    <2> HIDE DEF S
    <2> QED
      BY <1>6, <1>7, <2>1, UpTo
  <1>9. Under(m+1) = Occupied(rows, x)
    <2>1. \A y \in Row : y < 4*(m+1)
      BY <1>3 DEF Row
    <2> QED
      BY <1>4, <2>1
  <1>10. Cardinality(Occupied(rows, x)) = SumIn(v, Group)
    <2>1. m+1 \in 0 .. m+1 /\ (m+1)-1 = m
      BY <1>3
    <2>2. Cardinality(Under(m+1)) = SumIn(v, 0 .. m)
      BY <1>8, <2>1
    <2> QED
      BY <1>3, <1>9, <2>2
  <1>11. \A f : \A s \in SUBSET Group : Step(f, s) = SumStep(v, f, s)
    <2>1. \A s \in SUBSET Group : s # {} => Chosen(s) \in s
      BY DEF Chosen
    <2> QED
      BY <1>5, <2>1 DEF SumStep
  <1> HIDE DEF Step
  <1>12. \E f : f = [s \in SUBSET Group |-> Step(f, s)]
    <2> DEFINE g == [s \in SUBSET Group |-> SumIn(v, s)]
    <2>1. g = [s \in SUBSET Group |-> SumStep(v, g, s)]
      BY <1>5, FoldedSumIs
    <2> HIDE DEF g
    <2>2. g = [s \in SUBSET Group |-> Step(g, s)]
      BY <1>11, <2>1
    <2> QED
      BY <2>2
  <1>13. F = [s \in SUBSET Group |-> Step(F, s)]
    BY <1>12, Zenon
  <1> HIDE DEF F
  <1>14. F = [s \in SUBSET Group |-> SumStep(v, F, s)]
    BY <1>11, <1>13
  <1>15. F[Group] = SumIn(v, Group)
    BY <1>5, <1>14, FoldedSum
  <1> QED
    BY <1>1, <1>4, <1>10, <1>15

LEMMA HeightLessCells ==
    ASSUME BoardFits, NEW rows \in Board, NEW x \in Column
    PROVE  /\ ColumnHeight(rows, x) - Cardinality(Occupied(rows, x)) = Cardinality(HoleMask(rows, x))
           /\ Cardinality(HoleMask(rows, x)) \in 0 .. 20
  <1> DEFINE h == ColumnHeight(rows, x)
             A == Occupied(rows, x)
             B == HoleMask(rows, x)
  <1>1. h \in 0 .. H /\ (\A y \in Row : x \in rows[y] => y < h) /\ h \in Nat
    BY ColumnTop, SizeFacts
  <1>2. B = {y \in Row : y < h /\ x \notin rows[y]}
    BY HeightsTyped DEF HoleMask, ColumnHeights
  <1>3. A = {y \in Row : x \in rows[y]}
    BY DEF Occupied
  <1>4. /\ IsFiniteSet(A) /\ Cardinality(A) \in 0 .. 20
        /\ IsFiniteSet(B) /\ Cardinality(B) \in 0 .. 20
    BY OccupiedIs, ColumnHoles
  <1> HIDE DEF h, A, B
  <1>5. A \cup B = 0 .. h-1 /\ A \cap B = {}
    BY <1>1, <1>2, <1>3, SizeFacts DEF Row
  <1>6. Cardinality(0 .. h-1) = h
    <2>1. 0 \in Int /\ h-1 \in Int /\ (IF 0 > h-1 THEN 0 ELSE (h-1) - 0 + 1) = h
      BY <1>1
    <2>2. Cardinality(0 .. h-1) = IF 0 > h-1 THEN 0 ELSE (h-1) - 0 + 1
      BY <2>1, FS_Interval
    <2> QED
      BY <2>1, <2>2
  <1>7. Cardinality(A \cup B) = Cardinality(A) + Cardinality(B) - Cardinality(A \cap B) /\ Cardinality(A \cap B) = 0
    BY <1>4, <1>5, FS_Union, FS_EmptySet
  <1>8. h = Cardinality(A) + Cardinality(B)
    <2>1. h = Cardinality(A \cup B)
      BY <1>5, <1>6
    <2>2. PICK a \in Nat, b \in Nat : a = Cardinality(A) /\ b = Cardinality(B)
      BY <1>4
    <2>3. h = a + b
      BY <1>7, <2>1, <2>2
    <2> QED
      BY <2>2, <2>3
  <1> QED
    BY <1>1, <1>4, <1>8 DEF h, A, B

(* Banks P13..P19 compute the three features of a board.                    *)
LEMMA PipelineFeatures ==
    ASSUME BoardFits, NEW rows \in Board
    PROVE  A2Features(rows) = FeaturesOf(rows)
  <1> DEFINE profile == Profiled(rows)
             h == ColumnHeights(rows)
             absd == [x \in 0 .. W-2 |-> Abs(h[x+1] - h[x])]
  <1>1. profile.height = h
    <2>1. profile.height = [x \in Column |-> JoinedHeight([g \in Group |-> CodeOf(rows, x, g)])]
      BY DEF Profiled, CodeOf
    <2> QED
      BY <2>1, JoinedIsHeight DEF ColumnHeights
  <1>2. HolesIn(profile) = [x \in Column |-> Cardinality(HoleMask(rows, x))]
    <2>1. \A x \in Column : profile.occupied[x] = Cardinality(Occupied(rows, x)) % 32
      <3>1. SUFFICES ASSUME NEW x \in Column PROVE profile.occupied[x] = Cardinality(Occupied(rows, x)) % 32
        OBVIOUS
      <3>2. profile.occupied[x] = MapThenSumSet(LAMBDA g : Cardinality(GroupBits(rows, x, g)), Group) % 32
        BY DEF Profiled
      <3> QED
        BY <3>2, OccupiedIs
    <2>2. ASSUME NEW x \in Column
          PROVE  (h[x] - profile.occupied[x]) % 32 = Cardinality(HoleMask(rows, x))
      <3>1. h[x] = ColumnHeight(rows, x)
        BY DEF ColumnHeights
      <3>2. Cardinality(Occupied(rows, x)) \in 0 .. 20
        BY OccupiedIs
      <3>3. Cardinality(Occupied(rows, x)) % 32 = Cardinality(Occupied(rows, x))
        BY <3>2
      <3>4. h[x] - profile.occupied[x] = Cardinality(HoleMask(rows, x)) /\ Cardinality(HoleMask(rows, x)) \in 0 .. 20
        BY <2>1, <3>1, <3>3, HeightLessCells
      <3> HIDE DEF h, profile
      <3> QED
        BY <3>4
    <2> HIDE DEF profile, h
    <2> QED
      BY <1>1, <2>2 DEF HolesIn
  <1>3. Steps(profile.height) = absd
    <2>1. \A x \in 0 .. W-2 : Abs(h[x+1] - h[x]) % 32 = Abs(h[x+1] - h[x])
      <3>1. SUFFICES ASSUME NEW x \in 0 .. W-2 PROVE Abs(h[x+1] - h[x]) % 32 = Abs(h[x+1] - h[x])
        OBVIOUS
      <3>2. x \in Column /\ x+1 \in Column
        BY SizeFacts DEF Column
      <3>3. h[x] \in 0 .. H /\ h[x+1] \in 0 .. H
        BY <3>2, HeightsTyped
      <3> HIDE DEF h
      <3>4. h[x] \in 0 .. 20 /\ h[x+1] \in 0 .. 20
        BY <3>3, SizeFacts DEF BoardFits
      <3>5. Abs(h[x+1] - h[x]) \in 0 .. 20
        BY <3>4 DEF Abs
      <3> QED
        BY <3>5
    <2> HIDE DEF profile, h
    <2> QED
      BY <1>1, <2>1 DEF Steps
  <1>4. PipeSum(Padded(h)) = AggregateHeight(rows)
    <2>1. Padded(h) \in [Leaves -> Leaf]
      BY LeafTypes DEF HeightLeaves
    <2> HIDE DEF h
    <2>2. PipeSum(Padded(h)) = SumOf(Padded(h))
      BY <2>1, PipeSumExact
    <2> QED
      BY <2>2, AggregateHeightSum DEF HeightLeaves, h
  <1>5. PipeSum(Padded(HolesIn(profile))) = Holes(rows)
    <2>1. PipeSum(HoleLeaves(rows)) = SumOf(HoleLeaves(rows))
      BY HoleLeafTypes, PipeSumExact
    <2> QED
      BY <1>2, <2>1, HolesSum DEF HoleLeaves
  <1>6. PipeSum(Padded(absd)) = Bumpiness(rows)
    <2>1. Padded(absd) \in [Leaves -> Leaf] /\ SumOf(Padded(absd)) = Bumpiness(rows)
      BY ShiftedSteps
    <2> HIDE DEF absd
    <2> QED
      BY <2>1, PipeSumExact
  <1>7. A2Features(rows) = [a |-> PipeSum(Padded(profile.height)), q |-> PipeSum(Padded(HolesIn(profile))),
                            u |-> PipeSum(Padded(Steps(profile.height)))]
    BY DEF A2Features
  <1> HIDE DEF profile, h, absd
  <1> QED
    BY <1>1, <1>3, <1>4, <1>5, <1>6, <1>7 DEF FeaturesOf

-----------------------------------------------------------------------------
(* Banks P0..P2 find the landing row, and judge the candidate.              *)
LEMMA PipeDrop ==
    ASSUME NEW rows \in Board, NEW p \in PieceId, NEW cid \in ToSet(CandidateIds[p])
    PROVE  LET inside == LandsInside(rows, PieceCells(p, cid), ColumnOf(cid))
           IN  Dropped(ColumnHeights(rows), PieceCells(p, cid), ColumnOf(cid))
                 = [legal |-> inside, y |-> IF inside THEN RestingRow(rows, p, cid) ELSE 0]
  <1> DEFINE s == [valid |-> TRUE, cells |-> PieceCells(p, cid)]
             cells == PieceCells(p, cid)
             x == ColumnOf(cid)
             h == ColumnHeights(rows)
             d == [k \in 0 .. 3 |-> Difference(h, s, x, k)]
             e == Differences(HeightsUnder(h, cells, x), cells)
             L == RestingRow(rows, p, cid)
  <1>1. s \in ShapeSet /\ s.cells = cells /\ s.valid /\ x \in 0 .. 9 /\ x + Width(cells) <= W
    BY PieceFacts
  <1>2. GeometryOk(s, x)
    BY <1>1 DEF GeometryOk
  <1>3. LandingOf(d) = L
    <2>1. x \in Nat
      BY <1>1
    <2> HIDE DEF s
    <2> QED
      BY <1>1, <1>2, <2>1, FastLanding DEF RestingRow
  <1> HIDE DEF s, x, cells, h
  <1>4. ASSUME NEW k \in 0 .. 3 PROVE e[k] = d[k]
    <2>1. e[k] = IF k \in Columns(cells) THEN HeightsUnder(h, cells, x)[k] - Bottom(cells, k) ELSE -1
      BY DEF Differences, Tile
    <2>2. HeightsUnder(h, cells, x)[k] = IF k \in Columns(cells) /\ x + k \in Column THEN h[x + k] ELSE 0
      BY DEF HeightsUnder, Tile
    <2>3. d[k] = IF k \notin Columns(cells) THEN -1
                 ELSE (IF x + k \in Column THEN h[x + k] ELSE 0) - Bottom(cells, k)
      BY <1>1 DEF Difference
    <2> HIDE DEF d, e
    <2> QED
      BY <2>1, <2>2, <2>3
  <1>5. Clamped(e) = L
    <2>1. Clamped(e) = Max({0} \cup {e[k] : k \in 0 .. 3})
      BY DEF Clamped, Tile
    <2>2. LandingOf(d) = Max({0} \cup {d[k] : k \in 0 .. 3})
      BY DEF LandingOf
    <2> HIDE DEF d, e
    <2>3. {e[k] : k \in 0 .. 3} = {d[k] : k \in 0 .. 3}
      BY <1>4
    <2> QED
      BY <1>3, <2>1, <2>2, <2>3
  <1> DEFINE fits == x + Width(cells) <= W /\ Clamped(e) + Height(cells) <= H
  <1>7. Dropped(h, cells, x) = [legal |-> fits, y |-> IF fits THEN Clamped(e) ELSE 0]
    BY DEF Dropped
  <1>8. LandsInside(rows, cells, x) = (x + Width(cells) <= W /\ L + Height(cells) <= H)
    BY DEF LandsInside, RestingRow, cells, x
  <1>9. fits = LandsInside(rows, cells, x)
    <2> HIDE DEF e, L
    <2> QED
      BY <1>5, <1>8
  <1> HIDE DEF e, L, fits
  <1> QED
    BY <1>5, <1>7, <1>9 DEF h, cells, x, L

(* Bank P3 locks the piece.                                                 *)
LEMMA PipeMerge ==
    ASSUME NEW rows \in Board, NEW p \in PieceId, NEW cid \in ToSet(CandidateIds[p]),
           LandsInside(rows, PieceCells(p, cid), ColumnOf(cid))
    PROVE  MergedRows(rows, PieceCells(p, cid), ColumnOf(cid), [legal |-> TRUE, y |-> RestingRow(rows, p, cid)])
             = Locked(rows, p, cid)
  <1> DEFINE cells == PieceCells(p, cid)
             x == ColumnOf(cid)
             L == RestingRow(rows, p, cid)
             M == Locked(rows, p, cid)
  <1>1. /\ \A c \in cells : x + c[1] \in Column /\ c[1] \in 0 .. 3 /\ c[2] \in 0 .. 3 /\ c = <<c[1], c[2]>>
        /\ x \in 0 .. 9 /\ L \in 0 .. H
    <2>1. x \in 0 .. 9
      BY PieceFacts
    <2>2. L \in 0 .. H /\ \A c \in cells : x + c[1] \in Column /\ c[1] \in 0 .. 3 /\ c[2] \in 0 .. 3 /\ c = <<c[1], c[2]>>
      <3> HIDE DEF M
      <3> QED
        BY Placement
    <2> HIDE DEF cells, x, L, M
    <2> QED
      BY <2>1, <2>2
  <1>2. M = [r \in Row |-> rows[r] \cup {x + c[1] : c \in {d \in cells : L + d[2] = r}}]
    BY DEF Locked, Merged
  <1>3. MergedRows(rows, cells, x, [legal |-> TRUE, y |-> L])
          = [r \in Row |-> rows[r] \cup {c \in Column : <<c - x, r - L>> \in cells}]
    BY DEF MergedRows
  <1> HIDE DEF cells, L, x, M
  <1>4. ASSUME NEW r \in Row
        PROVE  {x + c[1] : c \in {d \in cells : L + d[2] = r}} = {c \in Column : <<c - x, r - L>> \in cells}
    <2>1. r \in Int /\ x \in Int /\ L \in Int
      BY <1>1, SizeFacts DEF Row
    <2>2. ASSUME NEW c \in cells, L + c[2] = r
          PROVE  x + c[1] \in Column /\ <<(x + c[1]) - x, r - L>> \in cells
      <3>1. (x + c[1]) - x = c[1] /\ r - L = c[2]
        BY <1>1, <2>1, <2>2
      <3> QED
        BY <1>1, <3>1
    <2>3. ASSUME NEW i \in Column, <<i - x, r - L>> \in cells
          PROVE  \E c \in cells : L + c[2] = r /\ i = x + c[1]
      <3>1. i = x + (i - x) /\ L + (r - L) = r
        BY <2>1 DEF Column
      <3> QED
        BY <2>3, <3>1
    <2> QED
      BY <2>2, <2>3
  <1> QED
    BY <1>2, <1>3, <1>4 DEF cells, L, x, M

(* The zero board that an illegal token carries.                            *)
LEMMA EmptyBoardFacts ==
    ASSUME BoardFits
    PROVE  /\ EMPTY_BOARD \in Board /\ Cleared(EMPTY_BOARD) = EMPTY_BOARD /\ Lines(EMPTY_BOARD) = 0
           /\ FeaturesOf(EMPTY_BOARD) = [a |-> 0, q |-> 0, u |-> 0]
  <1> DEFINE e == EMPTY_BOARD
  <1>1. e \in Board /\ \A y \in Row : e[y] = {}
    BY DEF EMPTY_BOARD, Board
  <1>2. FULL_ROW # {}
    BY SizeFacts DEF FULL_ROW, Column
  <1>3. e = [y \in Row |-> {}]
    BY DEF EMPTY_BOARD
  <1> HIDE DEF e
  <1>4. Cleared(e) = e
    <2>1. \A d \in Row : Cleared(e)[d] = {}
      <3>1. \A d \in Row : Cleared(e)[d] = UNION {e[s] : s \in Sources(e, d)}
        BY <1>1, RowSelected
      <3>2. \A d : \A s \in Sources(e, d) : e[s] = {}
        BY <1>1 DEF Sources
      <3> QED
        BY <3>1, <3>2
    <2>2. Cleared(e) = [d \in Row |-> Cleared(e)[d]]
      BY DEF Cleared
    <2> QED
      BY <1>3, <2>1, <2>2
  <1>5. Lines(e) = 0
    <2>1. {y \in Row : e[y] = FULL_ROW} = {}
      BY <1>1, <1>2
    <2> QED
      BY <1>1, <2>1, LinesAreFullRows, FS_EmptySet
  <1>6. \A x \in Column : ColumnHeight(e, x) = 0 /\ ColumnHeights(e)[x] = 0
    <2>1. \A x \in Column : ColumnHeight(e, x) = 0
      <3>1. SUFFICES ASSUME NEW x \in Column PROVE ColumnHeight(e, x) = 0
        OBVIOUS
      <3>2. ColumnHeight(e, x) \in 0 .. H
            /\ (ColumnHeight(e, x) > 0 => ColumnHeight(e, x) - 1 \in Row /\ x \in e[ColumnHeight(e, x) - 1])
        BY <1>1, ColumnTop
      <3> QED
        BY <1>1, <3>2, SizeFacts
    <2> QED
      BY <2>1 DEF ColumnHeights
  <1>7. AggregateHeight(e) = 0
    <2>1. HeightLeaves(e) = [i \in Leaves |-> 0]
      <3>1. DOMAIN ColumnHeights(e) = Column
        BY DEF ColumnHeights
      <3> QED
        BY <1>6, <3>1 DEF HeightLeaves, Padded
    <2>2. SumOf([i \in Leaves |-> 0]) = 0
      BY DEF SumOf, Leaves
    <2> QED
      BY <1>1, <2>1, <2>2, AggregateHeightSum
  <1>8. Bumpiness(e) = 0
    <2>1. StepLeaves(e) = [i \in Leaves |-> 0]
      <3>1. \A i \in 1 .. W-1 : i \in Column /\ i-1 \in Column
        BY SizeFacts DEF Column
      <3>2. \A i \in 1 .. W-1 : Abs(ColumnHeights(e)[i] - ColumnHeights(e)[i-1]) = 0
        BY <1>6, <3>1 DEF Abs
      <3> QED
        BY <3>2 DEF StepLeaves
    <2>2. SumOf([i \in Leaves |-> 0]) = 0
      BY DEF SumOf, Leaves
    <2> QED
      BY <1>1, <2>1, <2>2, BumpinessSum
  <1>9. Holes(e) = 0
    <2>1. HoleCells(e) = {}
      <3>1. \A c \in Column \X Row : ~(c[2] < ColumnHeights(e)[c[1]])
        BY <1>6 DEF Row
      <3> QED
        BY <3>1 DEF HoleCells
    <2> QED
      BY <1>1, <2>1, HolesSum, FS_EmptySet
  <1> QED
    BY <1>1, <1>4, <1>5, <1>7, <1>8, <1>9 DEF FeaturesOf, e

LEMMA FewFull ==
    ASSUME NEW rows \in Normalized, NEW p \in PieceId, NEW cid \in ToSet(CandidateIds[p]),
           LandsInside(rows, PieceCells(p, cid), ColumnOf(cid))
    PROVE  Lines(Locked(rows, p, cid)) \in 0 .. 4
  BY NormalizedIsBoard, LockedBoard

LEMMA Rescored ==
    ASSUME NEW legal, NEW y, NEW lines, NEW next, NEW a, NEW q, NEW u, NEW s, NEW t
    PROVE  [[legal |-> legal, y |-> y, lines |-> lines, next |-> next, a |-> a, q |-> q, u |-> u, score |-> s]
               EXCEPT !.score = t]
             = [legal |-> legal, y |-> y, lines |-> lines, next |-> next, a |-> a, q |-> q, u |-> u, score |-> t]
  OBVIOUS

(* What a token carries when it retires, for every profile: the fields of   *)
(* the rules with the score of the banks, and zeros if it is illegal.       *)
THEOREM TokenIsExact ==
    ASSUME BoardFits, NEW rows \in Normalized, NEW p \in PieceId, NEW cid \in ToSet(CandidateIds[p])
    PROVE  LET e == Evaluate(rows, p, cid)
               token == A2Evaluate(rows, ColumnHeights(rows), p, cid)
           IN  /\ LandsInside(rows, PieceCells(p, cid), ColumnOf(cid))
                    => token = [e EXCEPT !.score = 76 * e.lines - 51 * e.a - 36 * e.q - 18 * e.u]
               /\ ~LandsInside(rows, PieceCells(p, cid), ColumnOf(cid))
                    => e = NoMove /\ token = Canonical(NoMove)
  <1> DEFINE cells == PieceCells(p, cid)
             x == ColumnOf(cid)
             L == RestingRow(rows, p, cid)
             M == Locked(rows, p, cid)
             drop == Dropped(ColumnHeights(rows), cells, x)
             merged == MergedRows(rows, cells, x, drop)
             e == Evaluate(rows, p, cid)
             token == A2Evaluate(rows, ColumnHeights(rows), p, cid)
  <1>1. rows \in Board
    BY NormalizedIsBoard
  <1>2. ASSUME merged \in Board
        PROVE  LET f == FeaturesOf(Cleared(merged))
               IN  token = [legal |-> drop.legal, y |-> drop.y, lines |-> Lines(merged) % 8,
                            next |-> Cleared(merged), a |-> f.a, q |-> f.q, u |-> f.u,
                            score |-> ScoreBanks(f, Lines(merged), drop.legal)]
    <2> DEFINE rank == Ranks(Keep(merged))
               next == Compacted(merged, Match(Keep(merged), rank))
               f == A2Features(next)
    <2>1. token = [legal |-> drop.legal, y |-> drop.y, lines |-> ClearedCount(rank) % 8, next |-> next,
                   a |-> f.a, q |-> f.q, u |-> f.u, score |-> ScoreBanks(f, ClearedCount(rank), drop.legal)]
      BY DEF A2Evaluate, PieceCells
    <2>2. next = Cleared(merged) /\ ClearedCount(rank) = Lines(merged)
      BY <1>2, RowNetworks
    <2>3. Cleared(merged) \in Board
      BY <1>2, ClearedBoard
    <2> HIDE DEF merged, drop, rank, next
    <2>4. f = FeaturesOf(Cleared(merged))
      BY <2>2, <2>3, PipelineFeatures
    <2> HIDE DEF f
    <2> QED
      BY <2>1, <2>2, <2>4
  <1>3. CASE LandsInside(rows, cells, x)
    <2>1. drop = [legal |-> TRUE, y |-> L]
      BY <1>1, <1>3, PipeDrop
    <2>2. merged = M
      BY <1>1, <1>3, <2>1, PipeMerge
    <2>3. M \in Board /\ Lines(M) \in 0 .. 4 /\ e = Scored(L, Lines(M), Cleared(M), FeaturesOf(Cleared(M)))
      BY <1>1, <1>3, LockedBoard, FewFull
    <2> HIDE DEF drop, merged, token, e, M, L
    <2> DEFINE f == FeaturesOf(Cleared(M))  l == Lines(M)
    <2>4. token = [legal |-> TRUE, y |-> L, lines |-> l % 8, next |-> Cleared(M), a |-> f.a, q |-> f.q, u |-> f.u,
                   score |-> ScoreBanks(f, l, TRUE)]
      BY <1>2, <2>1, <2>2, <2>3
    <2>5. f.a \in 0 .. 200 /\ f.q \in 0 .. 200 /\ f.u \in 0 .. 180
      <3>1. Cleared(M) \in Board
        BY <2>3, ClearedBoard
      <3> QED
        BY <3>1, AggregateHeightSum, HolesSum, BumpinessSum DEF FeaturesOf
    <2>6. l \in 0 .. 4
      BY <2>3
    <2> HIDE DEF f, l
    <2>7. l % 8 = l
      BY <2>6
    <2>8. ScoreBanks(f, l, TRUE) = 76 * l - 51 * f.a - 36 * f.q - 18 * f.u
      <3>1. PICK a \in 0 .. 200, q \in 0 .. 200, u \in 0 .. 180 : a = f.a /\ q = f.q /\ u = f.u
        BY <2>5
      <3>2. ScoreBanks(f, l, TRUE)
              = ((64*l + 8*l + 4*l) - (32*a + 16*a + 2*a + a)) - ((32*q + 4*q) + (16*u + 2*u))
        BY <2>7, <3>1 DEF ScoreBanks
      <3>3. ((64*l + 8*l + 4*l) - (32*a + 16*a + 2*a + a)) - ((32*q + 4*q) + (16*u + 2*u))
              = 76 * l - 51 * a - 36 * q - 18 * u
        BY <2>6
      <3> QED
        BY <3>1, <3>2, <3>3
    <2>9. e = [legal |-> TRUE, y |-> L, lines |-> l, next |-> Cleared(M), a |-> f.a, q |-> f.q, u |-> f.u,
               score |-> ScoreProfile(PRECISION, f.a, f.q, f.u, l)]
      BY <2>3 DEF Scored, f, l
    <2> DEFINE best == 76 * l - 51 * f.a - 36 * f.q - 18 * f.u
    <2>10. e.lines = l /\ e.a = f.a /\ e.q = f.q /\ e.u = f.u
      BY <2>9
    <2>11. [e EXCEPT !.score = best]
             = [legal |-> TRUE, y |-> L, lines |-> l, next |-> Cleared(M), a |-> f.a, q |-> f.q, u |-> f.u,
                score |-> best]
      <3> HIDE DEF best
      <3> DEFINE sc == ScoreProfile(PRECISION, f.a, f.q, f.u, l)  fa == f.a  fq == f.q  fu == f.u
                 next == Cleared(M)
      <3>1. PICK yes : yes = TRUE
        BY Zenon
      <3>2. e = [legal |-> yes, y |-> L, lines |-> l, next |-> next, a |-> fa, q |-> fq, u |-> fu, score |-> sc]
        BY <2>9, <3>1, Zenon
      <3> HIDE <3>1 DEF sc, fa, fq, fu, next
      <3>3. [e EXCEPT !.score = best]
              = [legal |-> yes, y |-> L, lines |-> l, next |-> next, a |-> fa, q |-> fq, u |-> fu, score |-> best]
        BY <3>2
      <3> QED
        BY <3>1, <3>3, Zenon DEF fa, fq, fu, next
    <2>12. token = [e EXCEPT !.score = best]
      <3> HIDE DEF best
      <3>1. ScoreBanks(f, l, TRUE) = best
        BY <2>8 DEF best
      <3> QED
        BY <2>4, <2>7, <2>11, <3>1
    <2>13. token = [e EXCEPT !.score = 76 * e.lines - 51 * e.a - 36 * e.q - 18 * e.u]
      BY <2>10, <2>12
    <2> QED
      BY <1>3, <2>13 DEF token, e
  <1>4. CASE ~LandsInside(rows, cells, x)
    <2>1. drop = [legal |-> FALSE, y |-> 0]
      BY <1>1, <1>4, PipeDrop
    <2>2. merged = EMPTY_BOARD
      <3> HIDE DEF drop
      <3> QED
        BY <2>1 DEF MergedRows, EMPTY_BOARD
    <2>3. e = NoMove
      BY <1>4 DEF Evaluate, PieceCells
    <2>4. /\ EMPTY_BOARD \in Board /\ Cleared(EMPTY_BOARD) = EMPTY_BOARD /\ Lines(EMPTY_BOARD) = 0
          /\ FeaturesOf(EMPTY_BOARD) = [a |-> 0, q |-> 0, u |-> 0]
      BY EmptyBoardFacts
    <2> HIDE DEF drop, merged, token, e
    <2>5. token = [legal |-> FALSE, y |-> 0, lines |-> 0 % 8, next |-> EMPTY_BOARD, a |-> 0, q |-> 0, u |-> 0,
                   score |-> ScoreBanks([a |-> 0, q |-> 0, u |-> 0], 0, FALSE)]
      <3> DEFINE f == FeaturesOf(Cleared(merged))
      <3>1. token = [legal |-> drop.legal, y |-> drop.y, lines |-> Lines(merged) % 8,
                     next |-> Cleared(merged), a |-> f.a, q |-> f.q, u |-> f.u,
                     score |-> ScoreBanks(f, Lines(merged), drop.legal)]
        BY <1>2, <2>2, <2>4
      <3>2. /\ drop.legal = FALSE /\ drop.y = 0 /\ Cleared(merged) = EMPTY_BOARD /\ Lines(merged) = 0
            /\ f = [a |-> 0, q |-> 0, u |-> 0]
        BY <2>1, <2>2, <2>4
      <3> HIDE DEF f
      <3>3. f.a = 0 /\ f.q = 0 /\ f.u = 0
        BY <3>2
      <3> QED
        BY <3>1, <3>2, <3>3
    <2>6. 0 % 8 = 0 /\ ScoreBanks([a |-> 0, q |-> 0, u |-> 0], 0, FALSE) = 0
      BY DEF ScoreBanks
    <2>7. token = Canonical(NoMove)
      BY <2>5, <2>6 DEF Canonical, NoMove
    <2> QED
      BY <1>4, <2>3, <2>7 DEF token, e
  <1> QED
    BY <1>3, <1>4

(* With the exact profile, the only one the token pipeline has, the score   *)
(* is the oracle's too.                                                     *)
THEOREM PipelineIsExact ==
    ASSUME BoardFits, PRECISION = 0, NEW rows \in Normalized, NEW p \in PieceId,
           NEW cid \in ToSet(CandidateIds[p])
    PROVE  A2Evaluate(rows, ColumnHeights(rows), p, cid) = Canonical(Evaluate(rows, p, cid))
  <1> DEFINE e == Evaluate(rows, p, cid)
             token == A2Evaluate(rows, ColumnHeights(rows), p, cid)
  <1>1. CASE LandsInside(rows, PieceCells(p, cid), ColumnOf(cid))
    <2> DEFINE M == Locked(rows, p, cid)  f == FeaturesOf(Cleared(M))
    <2>1. token = [e EXCEPT !.score = 76 * e.lines - 51 * e.a - 36 * e.q - 18 * e.u]
      BY <1>1, TokenIsExact
    <2>2. M \in Board /\ e = Scored(RestingRow(rows, p, cid), Lines(M), Cleared(M), f)
      BY <1>1, NormalizedIsBoard, LockedBoard
    <2>3. Lines(M) \in 0 .. 4
      BY <1>1, FewFull
    <2>4. f.a \in 0 .. 200 /\ f.q \in 0 .. 200 /\ f.u \in 0 .. 180
      <3>1. Cleared(M) \in Board
        BY <2>2, ClearedBoard
      <3> QED
        BY <3>1, AggregateHeightSum, HolesSum, BumpinessSum DEF FeaturesOf
    <2> HIDE DEF M, f, token, e
    <2>5. ScoreProfile(PRECISION, f.a, f.q, f.u, Lines(M)) = 76 * Lines(M) - 51 * f.a - 36 * f.q - 18 * f.u
      <3>1. HolesUsed(0, f.q) = f.q /\ BumpinessUsed(0, f.u) = f.u
        BY <2>4, ProfileFields DEF HolesUsed, BumpinessUsed
      <3> QED
        BY <3>1, ProfileFields DEF ScoreProfile
    <2>6. e.legal /\ e.lines = Lines(M) /\ e.a = f.a /\ e.q = f.q /\ e.u = f.u
          /\ e.score = ScoreProfile(PRECISION, f.a, f.q, f.u, Lines(M))
          /\ e = [e EXCEPT !.score = e.score]
      BY <2>2 DEF Scored
    <2>7. token = e
      BY <2>1, <2>5, <2>6
    <2> QED
      BY <2>6, <2>7 DEF Canonical, token, e
  <1>2. CASE ~LandsInside(rows, PieceCells(p, cid), ColumnOf(cid))
    <2>1. e = NoMove /\ token = Canonical(NoMove)
      BY <1>2, TokenIsExact
    <2> QED
      BY <2>1
  <1> QED
    BY <1>1, <1>2

-----------------------------------------------------------------------------
(* The one-piece policies scan the same records in the same order.          *)
LEMMA ActionList ==
    ASSUME NEW rows, NEW p \in PieceId
    PROVE  /\ LegalActions(rows, p) \in Seq(ToSet(CandidateIds[p]))
           /\ DOMAIN LegalActions(rows, p) = 1 .. Len(LegalActions(rows, p))
           /\ Len(LegalActions(rows, p)) \in Nat
           /\ \A s \in SUBSET (1 .. Len(LegalActions(rows, p))) :
                  s # {} => /\ Max(s) \in 1 .. Len(LegalActions(rows, p))
                            /\ LegalActions(rows, p)[Max(s)] \in ToSet(CandidateIds[p])
                            /\ LegalActions(rows, p)[Max(s)] \in ToSet(LegalActions(rows, p))
  <1> DEFINE ids == LegalActions(rows, p)
             D == ToSet(CandidateIds[p])
  <1>1. \A k \in DOMAIN ids : ids[k] \in ToSet(ids)
    BY DEF ToSet
  <1>2. ids \in Seq(D)
    <2> DEFINE all == [i \in 1 .. MAX_CANDIDATE_ID |-> i - 1]
               valid == {c \in 0 .. MAX_CANDIDATE_ID - 1 : IsValidCandidate(p, c)}
               keep == {c \in D : LandsInside(rows, Shape(p, RotationOf(c)), ColumnOf(c))}
    <2>1. CandidateIds[p] = Selected(all, valid)
      BY DEF CandidateIds
    <2>2. all \in Seq(0 .. MAX_CANDIDATE_ID - 1)
      BY DEF MAX_CANDIDATE_ID
    <2>3. CandidateIds[p] \in Seq((0 .. MAX_CANDIDATE_ID - 1) \cap valid)
      BY <2>1, <2>2, SelectedIds
    <2>4. CandidateIds[p] \in Seq(D)
      BY <2>3 DEF ToSet
    <2>5. ids = Selected(CandidateIds[p], keep)
      BY DEF LegalActions
    <2> HIDE DEF keep, D, ids
    <2>6. ids \in Seq(D \cap keep)
      BY <2>4, <2>5, SelectedIds
    <2> QED
      BY <2>6
  <1> HIDE DEF ids, D
  <1>3. DOMAIN ids = 1 .. Len(ids) /\ Len(ids) \in Nat /\ \A k \in 1 .. Len(ids) : ids[k] \in D
    BY <1>2
  <1>4. ASSUME NEW s \in SUBSET (1 .. Len(ids)), s # {} PROVE Max(s) \in s
    <2>1. s \in SUBSET Int /\ Len(ids) \in Int /\ \A k \in s : k <= Len(ids)
      BY <1>3
    <2> QED
      BY <1>4, <2>1, MaxOf
  <1> QED
    BY <1>1, <1>2, <1>3, <1>4 DEF ids, D

LEMMA TwinPolicies ==
    ASSUME BoardFits, NEW rows \in Board, NEW p \in PieceId
    PROVE  BestMoveFast(rows, p) = BestMove(rows, p) /\ LowestStackFast(rows, p) = LowestStack(rows, p)
  <1> DEFINE ids == LegalActions(rows, p)
             cols == RowsToCols(rows)
             D == 1 .. Len(ids)
             FastStep(f, s) == IF s = {} THEN Nothing
                           ELSE KeepHigher(f[s \ {Max(s)}], ids[Max(s)], EvaluateCols(cols, p, ids[Max(s)]))
             SlowStep(f, s) == IF s = {} THEN Nothing
                           ELSE KeepHigher(f[s \ {Max(s)}], ids[Max(s)], Evaluate(rows, p, ids[Max(s)]))
             FastLow(f, s) == IF s = {} THEN Nothing
                           ELSE KeepLower(f[s \ {Max(s)}], ids[Max(s)], EvaluateCols(cols, p, ids[Max(s)]))
             SlowLow(f, s) == IF s = {} THEN Nothing
                           ELSE KeepLower(f[s \ {Max(s)}], ids[Max(s)], Evaluate(rows, p, ids[Max(s)]))
  <1>1. DOMAIN ids = D
    BY ActionList
  <1>2. \A s \in SUBSET D : s # {} => EvaluateCols(cols, p, ids[Max(s)]) = Evaluate(rows, p, ids[Max(s)])
    BY ActionList, TwinIsExact
  <1>3. LegalCols(cols, p) = ids
    BY TwinActions
  <1>4. BestMoveFast(rows, p) = (CHOOSE f : f = [s \in SUBSET DOMAIN ids |-> FastStep(f, s)])[DOMAIN ids]
    <2>1. BestMoveFast(rows, p)
            = FoldLeft(LAMBDA best, cid : KeepHigher(best, cid, EvaluateCols(cols, p, cid)), Nothing, ids)
      BY <1>3 DEF BestMoveFast
    <2> HIDE DEF ids, cols
    <2> QED
      BY <2>1 DEF FoldLeft, MapThenFoldSet
  <1>5. BestMove(rows, p) = (CHOOSE f : f = [s \in SUBSET DOMAIN ids |-> SlowStep(f, s)])[DOMAIN ids]
    BY DEF BestMove, FoldLeft, MapThenFoldSet
  <1>6. LowestStackFast(rows, p) = (CHOOSE f : f = [s \in SUBSET DOMAIN ids |-> FastLow(f, s)])[DOMAIN ids]
    <2>1. LowestStackFast(rows, p)
            = FoldLeft(LAMBDA best, cid : KeepLower(best, cid, EvaluateCols(cols, p, cid)), Nothing, ids)
      BY <1>3 DEF LowestStackFast
    <2> HIDE DEF ids, cols
    <2> QED
      BY <2>1 DEF FoldLeft, MapThenFoldSet
  <1>7. LowestStack(rows, p) = (CHOOSE f : f = [s \in SUBSET DOMAIN ids |-> SlowLow(f, s)])[DOMAIN ids]
    BY DEF LowestStack, FoldLeft, MapThenFoldSet
  <1> HIDE DEF ids, cols, D
  <1>8. \A f : \A s \in SUBSET DOMAIN ids : FastStep(f, s) = SlowStep(f, s) /\ FastLow(f, s) = SlowLow(f, s)
    BY <1>1, <1>2
  <1> HIDE DEF FastStep, SlowStep, FastLow, SlowLow
  <1>9. \A f : [s \in SUBSET DOMAIN ids |-> FastStep(f, s)] = [s \in SUBSET DOMAIN ids |-> SlowStep(f, s)]
    BY <1>8
  <1>10. \A f : [s \in SUBSET DOMAIN ids |-> FastLow(f, s)] = [s \in SUBSET DOMAIN ids |-> SlowLow(f, s)]
    BY <1>8
  <1>11. (CHOOSE f : f = [s \in SUBSET DOMAIN ids |-> FastStep(f, s)])
           = (CHOOSE f : f = [s \in SUBSET DOMAIN ids |-> SlowStep(f, s)])
    BY <1>9, Zenon
  <1>12. (CHOOSE f : f = [s \in SUBSET DOMAIN ids |-> FastLow(f, s)])
           = (CHOOSE f : f = [s \in SUBSET DOMAIN ids |-> SlowLow(f, s)])
    BY <1>10, Zenon
  <1> QED
    BY <1>4, <1>5, <1>6, <1>7, <1>11, <1>12

-----------------------------------------------------------------------------
(* The numbers of a legal record.                                           *)
LEMMA ProfileNumbers ==
    /\ Profile(PRECISION).wl \in Nat /\ Profile(PRECISION).wa \in Nat /\ Profile(PRECISION).wq \in Nat
    /\ Profile(PRECISION).wu \in Nat /\ Profile(PRECISION).q_cap \in Nat
  <1>1. PRECISION \in {0, 1, 2, 3, 4, 5, 6, 7}
    BY RulesAssumption
  <1> QED
    BY <1>1, ProfileFields

LEMMA RecordNumbers ==
    ASSUME BoardFits, NEW rows \in Normalized, NEW p \in PieceId, NEW cid \in ToSet(CandidateIds[p]),
           LandsInside(rows, PieceCells(p, cid), ColumnOf(cid))
    PROVE  /\ Evaluate(rows, p, cid).lines \in 0 .. 4 /\ Evaluate(rows, p, cid).score \in Int
           /\ Evaluate(rows, p, cid).next \in Normalized
  <1> DEFINE M == Locked(rows, p, cid)  f == FeaturesOf(Cleared(M))  e == Evaluate(rows, p, cid)
             l == Lines(M)
  <1>1. M \in Board /\ l \in 0 .. 4 /\ e = Scored(RestingRow(rows, p, cid), l, Cleared(M), f)
    BY NormalizedIsBoard, LockedBoard
  <1>2. Cleared(M) \in Board /\ Cleared(M) \in Normalized
    BY <1>1, ClearedBoard
  <1>3. f.a \in 0 .. 200 /\ f.q \in 0 .. 200 /\ f.u \in 0 .. 180
    BY <1>2, AggregateHeightSum, HolesSum, BumpinessSum DEF FeaturesOf
  <1> HIDE DEF M, f, e, l
  <1>4. e.lines = l /\ e.next = Cleared(M) /\ e.score = ScoreProfile(PRECISION, f.a, f.q, f.u, l)
    BY <1>1 DEF Scored
  <1>5. ScoreProfile(PRECISION, f.a, f.q, f.u, l) \in Int
    <2>1. HolesUsed(PRECISION, f.q) \in Int /\ BumpinessUsed(PRECISION, f.u) \in Int
      BY <1>3, ProfileNumbers DEF HolesUsed, BumpinessUsed
    <2>2. \A j, k \in Int : j * k \in Int /\ j - k \in Int
      OBVIOUS
    <2> DEFINE r == Profile(PRECISION)  q == HolesUsed(PRECISION, f.q)  u == BumpinessUsed(PRECISION, f.u)
    <2>3. r.wl \in Int /\ r.wa \in Int /\ r.wq \in Int /\ r.wu \in Int /\ f.a \in Int /\ l \in Int
      BY <1>1, <1>3, ProfileNumbers
    <2>4. ScoreProfile(PRECISION, f.a, f.q, f.u, l) = r.wl * l - r.wa * f.a - r.wq * q - r.wu * u
      BY DEF ScoreProfile
    <2> HIDE DEF r, q, u
    <2>5. r.wl * l \in Int /\ r.wa * f.a \in Int /\ r.wq * q \in Int /\ r.wu * u \in Int
      BY <2>1, <2>2, <2>3 DEF q, u
    <2> QED
      BY <2>2, <2>4, <2>5
  <1> QED
    BY <1>1, <1>2, <1>4, <1>5 DEF e

LEMMA ActionNumbers ==
    ASSUME BoardFits, NEW rows \in Normalized, NEW p \in PieceId, NEW cid \in ToSet(LegalActions(rows, p))
    PROVE  /\ Evaluate(rows, p, cid).lines \in 0 .. 4 /\ Evaluate(rows, p, cid).score \in Int
           /\ Evaluate(rows, p, cid).next \in Normalized
           /\ EvaluateCols(RowsToCols(rows), p, cid) = Evaluate(rows, p, cid)
           /\ cid \in 0 .. 39
  <1>1. cid \in ToSet(CandidateIds[p]) /\ LandsInside(rows, PieceCells(p, cid), ColumnOf(cid))
    BY LegalActionFacts DEF PieceCells
  <1>2. cid \in 0 .. 39
    BY <1>1, CandidateFacts DEF MAX_CANDIDATE_ID
  <1> QED
    BY <1>1, <1>2, RecordNumbers, TwinIsExact, NormalizedIsBoard

-----------------------------------------------------------------------------
(* The loop over the second piece counts the leaves and keeps the greatest  *)
(* of their scores.                                                         *)
LEMMA LeafLoop ==
    ASSUME BoardFits, NEW rows \in Normalized, NEW lines \in Int, NEW p \in PieceId
    PROVE  LET leaves == LegalActions(rows, p)
               branch == LeafFast(RowsToCols(rows), lines, p)
               wl == Profile(PRECISION).wl * lines
           IN  /\ branch.count = Len(leaves)
               /\ Len(leaves) # 0 =>
                      branch.best = Max({Evaluate(rows, p, leaf).score : leaf \in ToSet(leaves)}) + wl
  <1> DEFINE leaves == LegalActions(rows, p)
             cols == RowsToCols(rows)
             N == Len(leaves)
             wl == Profile(PRECISION).wl * lines
             base == [count |-> 0, best |-> 0]
             S == [count : Nat, best : Int]
             score == [n \in 1 .. N |-> Evaluate(rows, p, leaves[n]).score]
             step == [n \in 1 .. N |-> [b \in S |-> Raised(b, score[n] + wl)]]
             Step(f, s) == IF s = {} THEN base
                           ELSE Raised(f[s \ {Max(s)}], EvaluateCols(cols, p, leaves[Max(s)]).score + wl)
             F == CHOOSE f : f = [s \in SUBSET DOMAIN leaves |-> Step(f, s)]
             scores == {Evaluate(rows, p, leaf).score : leaf \in ToSet(leaves)}
  <1>1. LeafFast(cols, lines, p) = F[DOMAIN leaves]
    <2>1. LegalCols(cols, p) = leaves
      BY NormalizedIsBoard, TwinActions
    <2>2. LeafFast(cols, lines, p)
            = FoldLeft(LAMBDA branch, cid :
                          Raised(branch, EvaluateCols(cols, p, cid).score + Profile(PRECISION).wl * lines),
                       base, leaves)
      BY <2>1 DEF LeafFast
    <2> HIDE DEF leaves, cols, base
    <2> QED
      BY <2>2 DEF FoldLeft, MapThenFoldSet
  <1>2. /\ DOMAIN leaves = 1 .. N /\ N \in Nat
        /\ \A s \in SUBSET (1 .. N) : s # {} => Max(s) \in 1 .. N
    BY ActionList
  <1>3. \A n \in 1 .. N : leaves[n] \in ToSet(leaves)
    BY <1>2 DEF ToSet
  <1>4. \A leaf \in ToSet(leaves) : EvaluateCols(cols, p, leaf) = Evaluate(rows, p, leaf)
                                    /\ Evaluate(rows, p, leaf).score \in Int
    BY ActionNumbers
  <1>5. wl \in Int
    BY ProfileNumbers
  <1>6. scores = {score[n] : n \in 1 .. N}
    <2>1. \A leaf \in ToSet(leaves) : \E n \in 1 .. N : leaf = leaves[n]
      BY <1>2 DEF ToSet
    <2> QED
      BY <1>3, <2>1
  <1> HIDE DEF leaves, cols, wl, N, scores
  <1>7. score \in [1 .. N -> Int]
    BY <1>3, <1>4
  <1>8. \A n \in 1 .. N : EvaluateCols(cols, p, leaves[n]).score = score[n]
    BY <1>3, <1>4
  <1> HIDE DEF score
  <1>9. \A b \in S, n \in 1 .. N : Raised(b, score[n] + wl) \in S
    BY <1>5, <1>7 DEF Raised
  <1>10. base \in S
    OBVIOUS
  <1>11. step \in [1 .. N -> [S -> S]] /\ \A n \in 1 .. N, b \in S : step[n][b] = Raised(b, score[n] + wl)
    BY <1>9
  <1> HIDE DEF S, step, base
  <1>12. PICK f : Folds(f, N, S, base, step)
    BY <1>2, <1>10, <1>11, FoldExists
  <1>13. ASSUME NEW s \in SUBSET (1 .. N) PROVE f[s] = Step(f, s)
    <2>1. /\ f \in [SUBSET (1 .. N) -> S] /\ s \ {Max(s)} \in SUBSET (1 .. N)
          /\ f[s] = IF s = {} THEN base ELSE step[Max(s)][f[s \ {Max(s)}]]
      BY <1>12 DEF Folds
    <2>2. s # {} => Max(s) \in 1 .. N
      BY <1>2
    <2> QED
      BY <1>8, <1>11, <2>1, <2>2
  <1> HIDE DEF Step
  <1>14. f = [s \in SUBSET DOMAIN leaves |-> Step(f, s)]
    <2>1. f = [s \in SUBSET (1 .. N) |-> f[s]]
      BY <1>12 DEF Folds
    <2> QED
      BY <1>2, <1>13, <2>1
  <1>15. F = [s \in SUBSET DOMAIN leaves |-> Step(F, s)]
    BY <1>14, Zenon
  <1> HIDE DEF F
  <1>16. \A s \in SUBSET (1 .. N) : F[s] = Step(F, s)
    BY <1>2, <1>15
  <1>17. F[1 .. 0] = base
    <2>1. 1 .. 0 = {} /\ {} \in SUBSET (1 .. N)
      OBVIOUS
    <2> QED
      BY <1>16, <2>1 DEF Step
  <1>18. ASSUME NEW n \in 1 .. N PROVE F[1 .. n] = Raised(F[1 .. n-1], score[n] + wl)
    <2>1. n \in Nat /\ n # 0 /\ 1 .. n \in SUBSET (1 .. N)
      BY <1>2
    <2>2. Max(1 .. n) = n /\ (1 .. n) \ {n} = 1 .. n-1 /\ 1 .. n # {}
      BY <2>1, UpperEnd
    <2>3. F[1 .. n] = Raised(F[1 .. n-1], EvaluateCols(cols, p, leaves[n]).score + wl)
      BY <1>16, <2>1, <2>2 DEF Step
    <2> QED
      BY <1>8, <2>3
  <1> DEFINE Best(b, n) == /\ b.count = n /\ b.best \in Int
                           /\ n # 0 => (\E i \in 1 .. n : b.best = score[i] + wl)
                           /\ \A i \in 1 .. n : score[i] + wl <= b.best
             T == {n \in 0 .. N : Best(F[1 .. n], n)}
  <1>19. 0 \in T
    BY <1>2, <1>17 DEF base
  <1>20. ASSUME NEW n \in 0 .. N-1, n \in T PROVE n+1 \in T
    <2>1. n+1 \in 1 .. N /\ n+1 \in 0 .. N /\ (n+1)-1 = n /\ n+1 # 0 /\ n \in Nat
      BY <1>2
    <2> DEFINE b == F[1 .. n]  c == F[1 .. n+1]  v == score[n+1] + wl
    <2>2. c = Raised(b, v)
      BY <1>18, <2>1
    <2>3. /\ b.count = n /\ b.best \in Int
          /\ n # 0 => (\E i \in 1 .. n : b.best = score[i] + wl)
          /\ \A i \in 1 .. n : score[i] + wl <= b.best
      BY <1>20
    <2>4. v \in Int /\ \A i \in 1 .. n : score[i] + wl \in Int
      BY <1>2, <1>5, <1>7, <2>1
    <2> HIDE DEF b, c, v, T
    <2>5. c.count = n + 1 /\ c.best = IF n = 0 \/ v > b.best THEN v ELSE b.best
      BY <2>2, <2>3 DEF Raised
    <2>6. \A i \in 1 .. n+1 : i \in 1 .. n \/ i = n+1
      BY <2>1
    <2>7. v <= c.best /\ c.best \in Int /\ (n # 0 => b.best <= c.best)
      BY <2>3, <2>4, <2>5
    <2>8. \A i \in 1 .. n+1 : score[i] + wl <= c.best
      <3>1. SUFFICES ASSUME NEW i \in 1 .. n+1 PROVE score[i] + wl <= c.best
        OBVIOUS
      <3>2. CASE i = n+1
        BY <2>7, <3>2 DEF v
      <3>3. CASE i \in 1 .. n
        <4>1. n # 0 /\ score[i] + wl <= b.best /\ score[i] + wl \in Int
          BY <2>1, <2>3, <2>4, <3>3
        <4> HIDE DEF score
        <4> DEFINE w == score[i] + wl
        <4>2. w \in Int /\ w <= b.best
          BY <4>1
        <4> HIDE DEF w
        <4>3. w <= c.best
          BY <2>3, <2>7, <4>1, <4>2
        <4> QED
          BY <4>3 DEF w
      <3> QED
        BY <2>6, <3>2, <3>3
    <2>9. \E i \in 1 .. n+1 : c.best = score[i] + wl
      <3>1. n+1 \in 1 .. n+1 /\ \A i \in 1 .. n : i \in 1 .. n+1
        BY <2>1
      <3>2. CASE c.best = v
        BY <3>1, <3>2 DEF v
      <3>3. CASE c.best # v
        <4>1. n # 0 /\ c.best = b.best
          BY <2>5, <3>3
        <4> QED
          BY <2>3, <3>1, <4>1
      <3> QED
        BY <3>2, <3>3
    <2>10. Best(c, n+1)
      BY <2>5, <2>7, <2>8, <2>9
    <2> QED
      BY <2>1, <2>10 DEF T, c
  <1>21. \A n \in 0 .. N : n \in T
    <2>1. T \in SUBSET Nat
      BY <1>2
    <2> HIDE DEF T
    <2> QED
      BY <1>2, <1>19, <1>20, <2>1, UpTo
  <1>22. Best(F[1 .. N], N)
    BY <1>2, <1>21
  <1>23. N # 0 => Max(scores) + wl = F[1 .. N].best
    <2> DEFINE b == F[1 .. N]
    <2> SUFFICES ASSUME N # 0 PROVE Max(scores) + wl = b.best
      OBVIOUS
    <2>1. b.best \in Int /\ (\E i \in 1 .. N : b.best = score[i] + wl) /\ \A i \in 1 .. N : score[i] + wl <= b.best
      BY <1>22
    <2> HIDE DEF b
    <2>2. PICK i \in 1 .. N : b.best = score[i] + wl
      BY <2>1
    <2>3. score[i] \in Int /\ scores \in SUBSET Int /\ score[i] \in scores
      BY <1>6, <1>7
    <2>4. \A y \in scores : y <= score[i]
      <3>1. SUFFICES ASSUME NEW j \in 1 .. N PROVE score[j] <= score[i]
        BY <1>6
      <3>2. score[j] \in Int /\ score[j] + wl <= score[i] + wl
        BY <1>7, <2>1, <2>2
      <3> QED
        BY <1>5, <2>3, <3>2
    <2>5. Max(scores) \in scores /\ score[i] <= Max(scores)
      BY <2>3, <2>4, MaxOf
    <2>6. Max(scores) = score[i]
      <3> DEFINE m == Max(scores)  x == score[i]
      <3>1. m \in Int /\ x \in Int /\ m <= x /\ x <= m
        BY <2>3, <2>4, <2>5
      <3> HIDE DEF m, x
      <3>2. m = x
        BY <3>1
      <3> QED
        BY <3>2 DEF m, x
    <2> QED
      BY <2>2, <2>6
  <1> QED
    BY <1>1, <1>2, <1>22, <1>23 DEF leaves, cols, N, wl, scores

-----------------------------------------------------------------------------
(* What the second piece makes of a first move.                             *)
LEMMA TwinFirstMove ==
    ASSUME BoardFits, NEW rows \in Normalized, NEW p \in PieceId, NEW next \in PieceId,
           NEW cid \in ToSet(LegalActions(rows, p))
    PROVE  FirstMoveFast(EvaluateCols(RowsToCols(rows), p, cid), next) = FirstMove(Evaluate(rows, p, cid), next)
  <1> DEFINE root == Evaluate(rows, p, cid)
             leaves == LegalActions(root.next, next)
             branch == LeafFast(RowsToCols(root.next), root.lines, next)
             s2 == {Evaluate(root.next, next, leaf).score : leaf \in ToSet(leaves)}
             wl == Profile(PRECISION).wl * root.lines
  <1>1. root.next \in Normalized /\ root.lines \in Int /\ EvaluateCols(RowsToCols(rows), p, cid) = root
    BY ActionNumbers
  <1>2. branch.count = Len(leaves) /\ (Len(leaves) # 0 => branch.best = Max(s2) + wl)
    <2> HIDE DEF root
    <2> QED
      BY <1>1, LeafLoop
  <1>3. Len(leaves) \in Nat /\ (leaves = <<>>) = (Len(leaves) = 0)
    <2>1. leaves \in Seq(ToSet(CandidateIds[next]))
      BY ActionList
    <2> HIDE DEF leaves
    <2> QED
      BY <2>1
  <1>4. FirstMoveFast(root, next) = BranchFast(root, branch)
    BY DEF FirstMoveFast
  <1>5. FirstMove(root, next)
          = [surviving |-> leaves # <<>>, leaf_count |-> Len(leaves), score_s1 |-> root.score,
             score |-> IF leaves = <<>> THEN root.score ELSE Max(s2) + wl]
    BY DEF FirstMove, Branch
  <1> HIDE DEF leaves, branch, s2, wl, root
  <1>6. BranchFast(root, branch)
          = [surviving |-> branch.count > 0, leaf_count |-> branch.count, score_s1 |-> root.score,
             score |-> IF branch.count > 0 THEN branch.best ELSE root.score]
    BY DEF BranchFast
  <1>7. (branch.count > 0) = (leaves # <<>>)
    BY <1>2, <1>3
  <1>8. (IF branch.count > 0 THEN branch.best ELSE root.score)
          = IF leaves = <<>> THEN root.score ELSE Max(s2) + wl
    BY <1>2, <1>3
  <1>9. FirstMoveFast(root, next) = FirstMove(root, next)
    BY <1>2, <1>4, <1>5, <1>6, <1>7, <1>8
  <1> QED
    BY <1>1, <1>9 DEF root

LEMMA FirstMoveFields ==
    ASSUME NEW root, NEW next
    PROVE  /\ FirstMove(root, next).surviving \in BOOLEAN
           /\ ~FirstMove(root, next).surviving => FirstMove(root, next).score = FirstMove(root, next).score_s1
  BY DEF FirstMove, Branch

-----------------------------------------------------------------------------
(* Along the scan the winner of the oracle is the survivor the twin keeps,  *)
(* and as long as no first move has survived the best one without a second  *)
(* piece, whose score is that of the first piece alone.                     *)
SameWinner(best, both) ==
    IF both.surv.candidate # NoCandidate THEN best = both.surv /\ best.found.surviving = TRUE
    ELSE /\ best = both.fallback
         /\ best.candidate # NoCandidate => /\ best.found.surviving = FALSE
                                            /\ best.found.score = best.found.score_s1

LEMMA ScanStarts == SameWinner(Nothing, [surv |-> Nothing, fallback |-> Nothing])
  BY DEF SameWinner, Nothing

LEMMA ScanStep ==
    ASSUME NEW cid, cid # NoCandidate, NEW rec, rec.surviving \in BOOLEAN,
           ~rec.surviving => rec.score = rec.score_s1, NEW best, NEW both, SameWinner(best, both)
    PROVE  SameWinner(KeepPreferred(best, cid, rec), KeepBoth(both, cid, rec))
  <1> DEFINE new == [candidate |-> cid, found |-> rec]
             b == KeepPreferred(best, cid, rec)
             w == KeepBoth(both, cid, rec)
  <1>1. new.candidate = cid /\ new.found = rec
    OBVIOUS
  <1>2. b = IF best.candidate = NoCandidate \/ Preferred(rec, best.found) THEN new ELSE best
    BY DEF KeepPreferred, KeepBest
  <1>3. w = [surv |-> IF rec.surviving THEN KeepHigher(both.surv, cid, rec) ELSE both.surv,
             fallback |-> KeepHigherS1(both.fallback, cid, rec)]
    BY DEF KeepBoth
  <1>4. /\ w.surv = IF rec.surviving THEN KeepHigher(both.surv, cid, rec) ELSE both.surv
        /\ w.fallback = KeepHigherS1(both.fallback, cid, rec)
    BY <1>3
  <1>5. KeepHigher(both.surv, cid, rec)
          = IF both.surv.candidate = NoCandidate \/ Higher(rec, both.surv.found) THEN new ELSE both.surv
    BY DEF KeepHigher, KeepBest
  <1>6. KeepHigherS1(both.fallback, cid, rec)
          = IF both.fallback.candidate = NoCandidate \/ rec.score_s1 > both.fallback.found.score_s1
            THEN new ELSE both.fallback
    BY DEF KeepHigherS1, KeepBest
  <1> HIDE DEF new, b, w
  <1>7. CASE both.surv.candidate # NoCandidate
    <2>1. best = both.surv /\ best.found.surviving = TRUE /\ best.candidate # NoCandidate
      BY <1>7 DEF SameWinner
    <2>2. CASE rec.surviving
      <3>1. Preferred(rec, best.found) <=> Higher(rec, best.found)
        BY <2>1, <2>2 DEF Preferred
      <3>2. b = w.surv /\ (b = new \/ b = best)
        BY <1>2, <1>4, <1>5, <2>1, <2>2, <3>1
      <3>3. b.candidate # NoCandidate /\ b.found.surviving = TRUE
        BY <1>1, <2>1, <2>2, <3>2
      <3>4. SameWinner(b, w)
        BY <3>2, <3>3 DEF SameWinner
      <3> QED
        BY <3>4 DEF b, w
    <2>3. CASE ~rec.surviving
      <3>1. ~Preferred(rec, best.found)
        BY <2>1, <2>3 DEF Preferred
      <3>2. b = best /\ w.surv = both.surv
        BY <1>2, <1>4, <2>1, <2>3, <3>1
      <3>3. SameWinner(b, w)
        BY <1>7, <2>1, <3>2 DEF SameWinner
      <3> QED
        BY <3>3 DEF b, w
    <2> QED
      BY <2>2, <2>3
  <1>8. CASE both.surv.candidate = NoCandidate
    <2>1. /\ best = both.fallback
          /\ best.candidate # NoCandidate => /\ best.found.surviving = FALSE
                                             /\ best.found.score = best.found.score_s1
      BY <1>8 DEF SameWinner
    <2>2. CASE rec.surviving
      <3>1. best.candidate # NoCandidate => Preferred(rec, best.found)
        BY <2>1, <2>2 DEF Preferred
      <3>2. b = new /\ w.surv = new
        BY <1>2, <1>4, <1>5, <1>8, <2>2, <3>1
      <3>3. SameWinner(b, w)
        BY <1>1, <2>2, <3>2 DEF SameWinner
      <3> QED
        BY <3>3 DEF b, w
    <2>3. CASE ~rec.surviving
      <3>1. rec.score = rec.score_s1 /\ rec.surviving = FALSE
        BY <2>3
      <3>2. best.candidate # NoCandidate =>
                (Preferred(rec, best.found) <=> rec.score_s1 > best.found.score_s1)
        BY <2>1, <3>1 DEF Preferred, Higher
      <3>3. b = w.fallback /\ (b = new \/ b = best) /\ w.surv = both.surv
        BY <1>2, <1>4, <1>6, <2>1, <2>3, <3>2
      <3>4. b.candidate # NoCandidate => b.found.surviving = FALSE /\ b.found.score = b.found.score_s1
        BY <1>1, <2>1, <3>1, <3>3
      <3>5. SameWinner(b, w)
        BY <1>8, <3>3, <3>4 DEF SameWinner
      <3> QED
        BY <3>5 DEF b, w
    <2> QED
      BY <2>2, <2>3
  <1> QED
    BY <1>7, <1>8

-----------------------------------------------------------------------------
LEMMA TwinLookahead ==
    ASSUME BoardFits, NEW rows \in Normalized, NEW p \in PieceId, NEW next \in PieceId
    PROVE  BestMoveDepth2Fast(rows, p, next) = BestMoveDepth2(rows, p, next)
  <1> DEFINE ids == LegalActions(rows, p)
             cols == RowsToCols(rows)
             N == Len(ids)
             rec == [n \in 1 .. N |-> FirstMove(Evaluate(rows, p, ids[n]), next)]
             none == [surv |-> Nothing, fallback |-> Nothing]
             S == {Nothing} \cup {[candidate |-> ids[n], found |-> rec[n]] : n \in 1 .. N}
             P == [surv : S, fallback : S]
             oneStep == [n \in 1 .. N |-> [b \in S |-> KeepPreferred(b, ids[n], rec[n])]]
             bothStep == [n \in 1 .. N |-> [b \in P |-> KeepBoth(b, ids[n], rec[n])]]
             One(f, s) == IF s = {} THEN Nothing
                          ELSE KeepPreferred(f[s \ {Max(s)}], ids[Max(s)],
                                             FirstMove(Evaluate(rows, p, ids[Max(s)]), next))
             Both(f, s) == IF s = {} THEN none
                           ELSE KeepBoth(f[s \ {Max(s)}], ids[Max(s)],
                                         FirstMoveFast(EvaluateCols(cols, p, ids[Max(s)]), next))
             F == CHOOSE f : f = [s \in SUBSET DOMAIN ids |-> One(f, s)]
             G == CHOOSE f : f = [s \in SUBSET DOMAIN ids |-> Both(f, s)]
  <1>1. BestMoveDepth2(rows, p, next) = F[DOMAIN ids]
    BY DEF BestMoveDepth2, FoldLeft, MapThenFoldSet
  <1>2. BestMoveDepth2Fast(rows, p, next) = PreferSurvivors(G[DOMAIN ids])
    <2>1. LegalCols(cols, p) = ids
      BY NormalizedIsBoard, TwinActions
    <2>2. BestMoveDepth2Fast(rows, p, next)
            = PreferSurvivors(FoldLeft(LAMBDA best, cid :
                                          KeepBoth(best, cid, FirstMoveFast(EvaluateCols(cols, p, cid), next)),
                                       none, ids))
      BY <2>1 DEF BestMoveDepth2Fast
    <2> HIDE DEF ids, cols, none
    <2> QED
      BY <2>2 DEF FoldLeft, MapThenFoldSet
  <1>3. /\ DOMAIN ids = 1 .. N /\ N \in Nat
        /\ \A s \in SUBSET (1 .. N) : s # {} => Max(s) \in 1 .. N
    BY ActionList
  <1>4. \A n \in 1 .. N : ids[n] \in ToSet(ids)
    BY <1>3 DEF ToSet
  <1>5. \A cid \in ToSet(ids) : /\ cid \in 0 .. 39
                                /\ FirstMoveFast(EvaluateCols(cols, p, cid), next)
                                     = FirstMove(Evaluate(rows, p, cid), next)
    BY ActionNumbers, TwinFirstMove
  <1> HIDE DEF ids, cols, N, none
  <1>6. ASSUME NEW n \in 1 .. N
        PROVE  /\ ids[n] # NoCandidate
               /\ rec[n] = FirstMove(Evaluate(rows, p, ids[n]), next)
               /\ FirstMoveFast(EvaluateCols(cols, p, ids[n]), next) = rec[n]
               /\ rec[n].surviving \in BOOLEAN
               /\ ~rec[n].surviving => rec[n].score = rec[n].score_s1
    <2>1. rec[n] = FirstMove(Evaluate(rows, p, ids[n]), next)
      OBVIOUS
    <2>2. ids[n] \in 0 .. 39 /\ FirstMoveFast(EvaluateCols(cols, p, ids[n]), next) = rec[n]
      BY <1>4, <1>5, <2>1
    <2>3. rec[n].surviving \in BOOLEAN /\ (~rec[n].surviving => rec[n].score = rec[n].score_s1)
      BY <2>1, FirstMoveFields
    <2> HIDE DEF rec
    <2> QED
      BY <2>1, <2>2, <2>3 DEF NoCandidate
  <1> HIDE DEF rec
  <1>7. ASSUME NEW b \in S, NEW n \in 1 .. N
        PROVE  /\ KeepPreferred(b, ids[n], rec[n]) \in S /\ KeepHigher(b, ids[n], rec[n]) \in S
               /\ KeepHigherS1(b, ids[n], rec[n]) \in S
    BY DEF KeepPreferred, KeepHigher, KeepHigherS1, KeepBest
  <1>8. oneStep \in [1 .. N -> [S -> S]] /\ bothStep \in [1 .. N -> [P -> P]]
    <2> HIDE DEF S
    <2>1. \A b \in P, n \in 1 .. N : KeepBoth(b, ids[n], rec[n]) \in P
      BY <1>7 DEF KeepBoth
    <2> QED
      BY <1>7, <2>1
  <1>9. Nothing \in S /\ none \in P
    BY DEF none
  <1>10. /\ \A n \in 1 .. N, b \in S : oneStep[n][b] = KeepPreferred(b, ids[n], rec[n])
         /\ \A n \in 1 .. N, b \in P : bothStep[n][b] = KeepBoth(b, ids[n], rec[n])
    OBVIOUS
  <1> HIDE DEF S, P, oneStep, bothStep
  <1>11. PICK f : Folds(f, N, S, Nothing, oneStep)
    BY <1>3, <1>8, <1>9, FoldExists
  <1>12. PICK g : Folds(g, N, P, none, bothStep)
    BY <1>3, <1>8, <1>9, FoldExists
  <1>13. ASSUME NEW s \in SUBSET (1 .. N) PROVE f[s] = One(f, s) /\ g[s] = Both(g, s)
    <2>1. /\ f \in [SUBSET (1 .. N) -> S] /\ g \in [SUBSET (1 .. N) -> P] /\ s \ {Max(s)} \in SUBSET (1 .. N)
          /\ f[s] = IF s = {} THEN Nothing ELSE oneStep[Max(s)][f[s \ {Max(s)}]]
          /\ g[s] = IF s = {} THEN none ELSE bothStep[Max(s)][g[s \ {Max(s)}]]
      BY <1>11, <1>12 DEF Folds
    <2>2. s # {} => Max(s) \in 1 .. N
      BY <1>3
    <2>3. f[s] = One(f, s)
      BY <1>6, <1>10, <2>1, <2>2
    <2>4. g[s] = Both(g, s)
      BY <1>6, <1>10, <2>1, <2>2
    <2> QED
      BY <2>3, <2>4
  <1> HIDE DEF One, Both
  <1>14. /\ f = [s \in SUBSET DOMAIN ids |-> One(f, s)]
         /\ g = [s \in SUBSET DOMAIN ids |-> Both(g, s)]
    <2>1. f = [s \in SUBSET (1 .. N) |-> f[s]] /\ g = [s \in SUBSET (1 .. N) |-> g[s]]
      BY <1>11, <1>12 DEF Folds
    <2> QED
      BY <1>3, <1>13, <2>1
  <1>15. F = [s \in SUBSET DOMAIN ids |-> One(F, s)]
    BY <1>14, Zenon
  <1>16. G = [s \in SUBSET DOMAIN ids |-> Both(G, s)]
    BY <1>14, Zenon
  <1> HIDE DEF F, G
  <1>17. \A s \in SUBSET (1 .. N) : F[s] = One(F, s) /\ G[s] = Both(G, s)
    BY <1>3, <1>15, <1>16
  <1>18. F[1 .. 0] = Nothing /\ G[1 .. 0] = none
    <2>1. 1 .. 0 = {} /\ {} \in SUBSET (1 .. N)
      OBVIOUS
    <2> QED
      BY <1>17, <2>1 DEF One, Both
  <1>19. ASSUME NEW n \in 1 .. N
         PROVE  /\ F[1 .. n] = KeepPreferred(F[1 .. n-1], ids[n], rec[n])
                /\ G[1 .. n] = KeepBoth(G[1 .. n-1], ids[n], rec[n])
    <2>1. n \in Nat /\ n # 0 /\ 1 .. n \in SUBSET (1 .. N)
      BY <1>3
    <2>2. Max(1 .. n) = n /\ (1 .. n) \ {n} = 1 .. n-1 /\ 1 .. n # {}
      BY <2>1, UpperEnd
    <2>3. /\ F[1 .. n] = KeepPreferred(F[1 .. n-1], ids[n], FirstMove(Evaluate(rows, p, ids[n]), next))
          /\ G[1 .. n] = KeepBoth(G[1 .. n-1], ids[n], FirstMoveFast(EvaluateCols(cols, p, ids[n]), next))
      BY <1>17, <2>1, <2>2 DEF One, Both
    <2> QED
      BY <1>6, <2>3
  <1> DEFINE T == {n \in 0 .. N : SameWinner(F[1 .. n], G[1 .. n])}
  <1>20. 0 \in T
    BY <1>3, <1>18, ScanStarts DEF none
  <1>21. ASSUME NEW n \in 0 .. N-1, n \in T PROVE n+1 \in T
    <2>1. n+1 \in 1 .. N /\ n+1 \in 0 .. N /\ (n+1)-1 = n
      BY <1>3
    <2>2. SameWinner(F[1 .. n], G[1 .. n])
      BY <1>21
    <2>3. SameWinner(KeepPreferred(F[1 .. n], ids[n+1], rec[n+1]), KeepBoth(G[1 .. n], ids[n+1], rec[n+1]))
      BY <1>6, <2>1, <2>2, ScanStep
    <2>4. SameWinner(F[1 .. n+1], G[1 .. n+1])
      BY <1>19, <2>1, <2>3
    <2> QED
      BY <2>1, <2>4
  <1>22. \A n \in 0 .. N : n \in T
    <2>1. T \in SUBSET Nat
      BY <1>3
    <2> HIDE DEF T
    <2> QED
      BY <1>3, <1>20, <1>21, <2>1, UpTo
  <1>23. SameWinner(F[1 .. N], G[1 .. N])
    BY <1>3, <1>22
  <1>24. PreferSurvivors(G[1 .. N]) = F[1 .. N]
    BY <1>23 DEF SameWinner, PreferSurvivors
  <1> QED
    BY <1>1, <1>2, <1>3, <1>24

-----------------------------------------------------------------------------
(* Every statement of the rules agrees with every other on every normalized *)
(* board, which are the boards of a game.                                   *)
LEMMA CandidateOf ==
    ASSUME NEW p \in PieceId, NEW i \in DOMAIN CandidateIds[p]
    PROVE  CandidateIds[p][i] \in ToSet(CandidateIds[p])
  BY DEF ToSet

LEMMA TwinHolds == BoardFits /\ PlayTypeOK => TwinAgrees
  <1> SUFFICES ASSUME BoardFits, board \in Normalized PROVE TwinAgrees
    BY DEF PlayTypeOK
  <1>1. board \in Board /\ First \subseteq PieceId /\ Shown \subseteq PieceId
    BY NormalizedIsBoard, DealtAssumption
  <1>2. ASSUME NEW p \in PieceId, NEW i \in DOMAIN CandidateIds[p]
        PROVE  EvaluateCols(RowsToCols(board), p, CandidateIds[p][i]) = Evaluate(board, p, CandidateIds[p][i])
    BY <1>1, CandidateOf, TwinIsExact
  <1>3. ASSUME NEW p \in First
        PROVE  /\ BestMoveFast(board, p) = BestMove(board, p)
               /\ LowestStackFast(board, p) = LowestStack(board, p)
               /\ \A next \in Shown : BestMoveDepth2Fast(board, p, next) = BestMoveDepth2(board, p, next)
    BY <1>1, TwinPolicies, TwinLookahead
  <1> QED
    BY <1>2, <1>3 DEF TwinAgrees

LEMMA PipelineHolds == BoardFits /\ PRECISION = 0 /\ PlayTypeOK => PipelineAgrees
  <1> SUFFICES ASSUME BoardFits, PRECISION = 0, board \in Normalized,
                      NEW p \in PieceId, NEW i \in DOMAIN CandidateIds[p]
               PROVE  A2Evaluate(board, ColumnHeights(board), p, CandidateIds[p][i])
                        = Canonical(Evaluate(board, p, CandidateIds[p][i]))
    BY DEF PlayTypeOK, PipelineAgrees
  <1> QED
    BY CandidateOf, PipelineIsExact

(* On every board of a game, for every stream of pieces and whatever the    *)
(* policies pick, model/fast.py agrees with the literal rules on every      *)
(* candidate and on the move of every policy, with one piece and with two,  *)
(* for every profile; and with the exact profile the banks of the token     *)
(* pipeline agree with both: on every board up to ten columns and twenty    *)
(* rows.                                                                    *)
THEOREM TwinPlaysTheSame == ASSUME BoardFits PROVE PlaySpec => []TwinAgrees
  BY BoardsStayNormalized, TwinHolds, PTL

THEOREM RulesAgreeInEveryGame == ASSUME BoardFits, PRECISION = 0 PROVE PlaySpec => []RulesAgree
  <1>1. PlayTypeOK => RulesAgree
    BY TwinHolds, PipelineHolds DEF RulesAgree
  <1> QED
    BY <1>1, BoardsStayNormalized, PTL
=============================================================================
