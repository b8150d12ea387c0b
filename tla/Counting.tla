------------------------------ MODULE Counting ------------------------------
(***************************************************************************)
(* What the proofs use of finite sets, as formulas that lemmas assume.     *)
(* FiniteSetTheorems gives them where the theorems are stated: until then  *)
(* the provers see the few facts they need and not the whole library.      *)
(***************************************************************************)
EXTENDS Integers, FiniteSets, Functions

CountOf == \A S : IsFiniteSet(S) =>
    Cardinality(S) \in Nat /\ ExistsBijection(1..Cardinality(S), S)
CountNone ==
    /\ IsFiniteSet({}) /\ Cardinality({}) = 0
    /\ \A S : IsFiniteSet(S) /\ Cardinality(S) = 0 => S = {}
CountOne == \A x : IsFiniteSet({x}) /\ Cardinality({x}) = 1
CountAdded == \A S, x : IsFiniteSet(S) =>
    /\ IsFiniteSet(S \cup {x})
    /\ x \notin S => Cardinality(S \cup {x}) = Cardinality(S) + 1
CountRemoved == \A S, x : IsFiniteSet(S) =>
    /\ IsFiniteSet(S \ {x})
    /\ x \in S => Cardinality(S \ {x}) = Cardinality(S) - 1
CountWithin == \A S : \A T \in SUBSET S : IsFiniteSet(S) =>
    IsFiniteSet(T) /\ Cardinality(T) <= Cardinality(S)
CountInterval == \A a, b \in Int :
    IsFiniteSet(a..b) /\ Cardinality(a..b) = IF a > b THEN 0 ELSE b - a + 1
CountUnion == \A S, T : IsFiniteSet(S) /\ IsFiniteSet(T) =>
    /\ IsFiniteSet(S \cup T)
    /\ Cardinality(S \cup T) = Cardinality(S) + Cardinality(T) - Cardinality(S \cap T)
CountPairs == \A S, T : IsFiniteSet(S) /\ IsFiniteSet(T) => IsFiniteSet(S \X T)
CountMatched == \A S, T : IsFiniteSet(S) /\ ExistsBijection(S, T) =>
    IsFiniteSet(T) /\ Cardinality(T) = Cardinality(S)
CountInjected == \A S, T : \A f \in Injection(S, T) : IsFiniteSet(T) =>
    IsFiniteSet(S) /\ Cardinality(S) <= Cardinality(T)

Counting ==
    /\ CountOf /\ CountNone /\ CountOne /\ CountAdded /\ CountRemoved /\ CountWithin
    /\ CountInterval /\ CountUnion /\ CountPairs /\ CountMatched /\ CountInjected
=============================================================================
