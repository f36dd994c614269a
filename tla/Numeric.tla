------------------------------- MODULE Numeric -------------------------------
(***************************************************************************)
(* The score in two forms.  model/numeric.py: the table of profiles P0..P7 *)
(* and score = wL*L - wA*A - wQ*Q_used - wU*U_used.  rtl/score.sv,         *)
(* features_fast.sv and features_pipe.sv: shifts, adder trees and narrow   *)
(* accumulators of fixed width, where an addition wraps.                   *)
(* model/sensitivity.py: when the candidate the exact score chooses is     *)
(* certain to stay the choice of a quantized profile.                      *)
(***************************************************************************)
EXTENDS Integers, FiniteSets

EXACT_COEFFICIENTS == <<76, 51, 36, 18>>

Levels(bits) == IF bits = 4 THEN 15 ELSE IF bits = 3 THEN 7 ELSE 3
QuantizeMagnitudes(bits) ==
    [i \in 1 .. 4 |-> (2 * EXACT_COEFFICIENTS[i] * Levels(bits) + 76) \div 152]

Uncapped == 256        \* q_cap = None: above every hole count
ProfileOf(c, cap, use) ==
    [wl |-> c[1], wa |-> c[2], wq |-> c[3], wu |-> c[4], q_cap |-> cap, use_u |-> use]
PROFILES ==
    <<ProfileOf(EXACT_COEFFICIENTS, Uncapped, TRUE),
      ProfileOf(<<64, 64, 32, 16>>, Uncapped, TRUE),
      ProfileOf(<<80, 48, 36, 18>>, Uncapped, TRUE),
      ProfileOf(EXACT_COEFFICIENTS, 15, TRUE),
      ProfileOf(<<76, 51, 36, 0>>, Uncapped, FALSE),
      ProfileOf(QuantizeMagnitudes(4), Uncapped, TRUE),
      ProfileOf(QuantizeMagnitudes(3), Uncapped, TRUE),
      ProfileOf(QuantizeMagnitudes(2), Uncapped, TRUE)>>
Profile(p) == PROFILES[p + 1]

(* features_used and score_profile.                                         *)
HolesUsed(p, q) == IF q > Profile(p).q_cap THEN Profile(p).q_cap ELSE q
BumpinessUsed(p, u) == IF Profile(p).use_u THEN u ELSE 0
ScoreProfile(p, a, q, u, lines) ==
    Profile(p).wl * lines - Profile(p).wa * a
        - Profile(p).wq * HolesUsed(p, q) - Profile(p).wu * BumpinessUsed(p, u)

-----------------------------------------------------------------------------
(* score.sv: the terms of each profile, and the accumulator of P5..P7 as a  *)
(* two's complement number of 14, 12 or 11 bits.                            *)
Wrap(n, m) == IF 2 * (n % m) >= m THEN (n % m) - m ELSE n % m

ExactSum(a, q, u, l) ==
    (64*l + 8*l + 4*l) - (32*a + 16*a + 2*a + a) - (32*q + 4*q) - (16*u + 2*u)
ScoreSum(p, a, q, u, l) ==
    <<ExactSum(a, q, u, l),
      64*l - 64*a - 32*q - 16*u,
      (64*l + 16*l) - (32*a + 16*a) - (32*q + 4*q) - (16*u + 2*u),
      ExactSum(a, q, u, l),
      (64*l + 8*l + 4*l) - (32*a + 16*a + 2*a + a) - (32*q + 4*q),
      Wrap((16*l - l) - (8*a + 2*a) - (8*q - q) - 4*u, 16384),
      Wrap((8*l - l) - (4*a + a) - (2*q + q) - 2*u, 4096),
      Wrap((2*l + l) - 2*a - q - u, 2048)>>[p + 1]

-----------------------------------------------------------------------------
(* Adder trees over ten leaves v[0] .. v[9] of five bits; a tree of nine    *)
(* differences has v[9] = 0.                                                *)
Leaves == 0 .. 9
Padded(v) == [i \in Leaves |-> IF i \in DOMAIN v THEN v[i] ELSE 0]
PairSums(v) == [i \in 0 .. 4 |-> (v[2*i] + v[2*i + 1]) % 64]

(* features_fast.sv, stage 2.                                               *)
FastTree(p) == (((p[0] + p[1]) % 128) + ((p[2] + p[3]) % 128) + p[4]) % 256
FastSum(v) == FastTree(PairSums(v))

(* The tree of P3: min(15, .) at every leaf and node.                       *)
Saturated(n) == IF n > 15 THEN 15 ELSE n
SaturatedPairs(v) == [i \in 0 .. 4 |-> Saturated(Saturated(v[2*i]) + Saturated(v[2*i + 1]))]
SaturatingTree(s) ==
    Saturated(Saturated(Saturated(s[0] + s[1]) + Saturated(s[2] + s[3])) + s[4])
SaturatingSum(v) == SaturatingTree(SaturatedPairs(v))

(* features_pipe.sv, banks P16..P19: sixteen leaves, the last six zero; the *)
(* nine bits of the total are cut to eight.                                 *)
PipeTree(p) ==
    LET left == (((p[0] + p[1]) % 128) + ((p[2] + p[3]) % 128)) % 256
        right == (p[4] % 128) % 256
    IN ((left + right) % 512) % 256
PipeSum(v) == PipeTree(PairSums(v))

SumOf(v) == (v[0] + v[1]) + (v[2] + v[3]) + (v[4] + v[5]) + (v[6] + v[7]) + (v[8] + v[9])

-----------------------------------------------------------------------------
(* numeric.py: conservative bounds of the features after a legal placement, *)
(* the range of the score they give, and the width that holds it.           *)
FEATURE_BOUNDS == [lines |-> 4, a |-> 200, q |-> 200, u |-> 180]
Features ==
    [id : Nat, lines : 0 .. FEATURE_BOUNDS.lines, a : 0 .. FEATURE_BOUNDS.a,
     q : 0 .. FEATURE_BOUNDS.q, u : 0 .. FEATURE_BOUNDS.u]

ScoreBounds(p) ==
    <<-(Profile(p).wa * FEATURE_BOUNDS.a + Profile(p).wq * HolesUsed(p, FEATURE_BOUNDS.q)
            + Profile(p).wu * BumpinessUsed(p, FEATURE_BOUNDS.u)),
      Profile(p).wl * FEATURE_BOUNDS.lines>>

Holding(p, width) ==
    -(2^(width-1)) <= ScoreBounds(p)[1] /\ ScoreBounds(p)[2] <= 2^(width-1) - 1
SufficientScoreWidth(p) ==
    CHOOSE w \in 1 .. 32 : Holding(p, w) /\ \A v \in 1 .. w-1 : ~Holding(p, v)

(* delta_i = 76 q_i - M w_i of a quantized profile, and E(c).               *)
QUANTIZED == 5 .. 7
LevelsOf(p) == Levels(9 - p)
Perturbation(p) ==
    LET Delta(q, w) == 76 * q - LevelsOf(p) * w
    IN  [lines |-> Delta(Profile(p).wl, EXACT_COEFFICIENTS[1]),
         a |-> Delta(Profile(p).wa, EXACT_COEFFICIENTS[2]),
         q |-> Delta(Profile(p).wq, EXACT_COEFFICIENTS[3]),
         u |-> Delta(Profile(p).wu, EXACT_COEFFICIENTS[4])]

Abs(n) == IF n < 0 THEN -n ELSE n
ErrorBound(p, f) ==
    LET d == Perturbation(p)
    IN  Abs(d.lines) * f.lines + Abs(d.a) * f.a + Abs(d.q) * f.q + Abs(d.u) * f.u

-----------------------------------------------------------------------------
(* sensitivity.py.  A table is the set of the legal candidates of a state,  *)
(* each with its id and exact features; the scores are functions of these.  *)
ScoreOf(p, c) == ScoreProfile(p, c.a, c.q, c.u, c.lines)

(* The hardware rule: the highest score, of several the lowest id.          *)
Beats(p, c, d) == ScoreOf(p, c) > ScoreOf(p, d) \/ (ScoreOf(p, c) = ScoreOf(p, d) /\ c.id < d.id)
IsWinner(p, table, g) == g \in table /\ \A c \in table \ {g} : Beats(p, g, c)

Margin(p, g, c) ==
    LevelsOf(p) * (ScoreOf(0, g) - ScoreOf(0, c)) - (ErrorBound(p, g) + ErrorBound(p, c))
Certified(p, table, g) == \A c \in table \ {g} : Margin(p, g, c) > 0

Top(p, table) == {c \in table : \A d \in table : ScoreOf(p, d) <= ScoreOf(p, c)}

(* Best minus runner-up; nothing with one candidate.                        *)
Gap(p, table, g) ==
    LET leads == {ScoreOf(p, g) - ScoreOf(p, c) : c \in table \ {g}}
    IN  {n \in leads : \A m \in leads : n <= m}

(* analyze_state for a state with a legal candidate.                        *)
AnalyzeState(p, table) ==
    LET g == CHOOSE c \in table : IsWinner(0, table, c)
        h == CHOOSE c \in table : IsWinner(p, table, c)
    IN  [exact_winner |-> g.id, quantized_winner |-> h.id, changed |-> h.id # g.id,
         exact_tie |-> Top(0, table) # {g}, quantized_tie |-> Top(p, table) # {h},
         certified |-> Certified(p, table, g),
         rank |-> Cardinality({c \in table : Beats(p, c, g)}),
         gap |-> Gap(0, table, g),
         loss |-> ScoreOf(0, g) - ScoreOf(0, h)]
=============================================================================
