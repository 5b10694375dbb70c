------------------------- MODULE LexicographicProofs -------------------------
(***************************************************************************)
(* The order of Lexicographic is well-founded: a tuple of k natural        *)
(* numbers goes down only finitely often, for every k.  The library has    *)
(* the theorem for relations that are sets of pairs.                       *)
(***************************************************************************)
EXTENDS Lexicographic, WellFoundedInduction, TLAPS

\* No sequence of tuples descends for ever: what StepsMakeProgress of the core
\* and StepsTowardsEnd of the processor rest on.
THEOREM NoEndlessDescent ==
    ASSUME NEW k \in Nat, NEW f \in [Nat -> [1 .. k -> Nat]]
    PROVE  \E n \in Nat : ~Descends(f[n + 1], f[n])
<1> DEFINE R == OpToRel(<, Nat)
<1>1. IsWellFoundedOn(LexProductOrdering(R, Nat, k), [1 .. k -> Nat])
  <2>1. IsWellFoundedOn(R, Nat)
    BY NatLessThanWellFounded
  <2> HIDE DEF R
  <2>2. QED
    BY <2>1, WFLexProductOrdering
<1>2. PICK n \in Nat : <<f[n + 1], f[n]>> \notin LexProductOrdering(R, Nat, k)
  <2> HIDE DEF R
  <2>1. QED
    BY <1>1 DEF IsWellFoundedOn
<1>3. PICK p, q \in [1 .. k -> Nat] : p = f[n + 1] /\ q = f[n]
  OBVIOUS
<1>4. ASSUME NEW i \in 1 .. k, p[i] < q[i], \A j \in 1 .. (i - 1) : p[j] = q[j]
      PROVE  FALSE
  <2>1. <<p[i], q[i]>> \in R
    BY <1>4 DEF OpToRel
  <2> HIDE DEF R
  <2>2. <<p, q>> \in LexProductOrdering(R, Nat, k)
    BY <1>4, <2>1 DEF LexProductOrdering
  <2>3. QED
    BY <1>2, <1>3, <2>2
<1>5. ~Descends(p, q)
  BY <1>4 DEF Descends
<1>6. QED
  BY <1>3, <1>5
=============================================================================
