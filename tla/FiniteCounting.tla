--------------------------- MODULE FiniteCounting ---------------------------
(***************************************************************************)
(* What the proofs use of finite sets and their sizes, as one predicate.   *)
(* The lemmas of a proof take Counting as a hypothesis; its last section   *)
(* establishes it, from FiniteSetTheorems.                                 *)
(***************************************************************************)
EXTENDS Integers, FiniteSets, Functions

FiniteSubset ==
    \A A : IsFiniteSet(A) => \A B \in SUBSET A :
        /\ IsFiniteSet(B) /\ Cardinality(B) <= Cardinality(A)
        /\ Cardinality(A) = Cardinality(B) => A = B

FiniteSize ==
    \A A : IsFiniteSet(A) => Cardinality(A) \in Nat /\ ExistsBijection(1 .. Cardinality(A), A)

FiniteEmpty ==
    /\ IsFiniteSet({}) /\ Cardinality({}) = 0
    /\ \A A : IsFiniteSet(A) => (Cardinality(A) = 0 <=> A = {})

FiniteAdd ==
    \A A, x : IsFiniteSet(A) /\ x \notin A =>
        IsFiniteSet(A \cup {x}) /\ Cardinality(A \cup {x}) = Cardinality(A) + 1

FiniteRemove ==
    \A A, x : IsFiniteSet(A) /\ x \in A =>
        IsFiniteSet(A \ {x}) /\ Cardinality(A \ {x}) = Cardinality(A) - 1

FiniteInterval ==
    \A m, n \in Int : /\ IsFiniteSet(m .. n)
                      /\ Cardinality(m .. n) = IF m > n THEN 0 ELSE n - m + 1

FiniteInjection ==
    \A A, B : IsFiniteSet(B) => \A f \in Injection(A, B) : Cardinality(A) <= Cardinality(B)

FiniteDifference ==
    \A A, B : IsFiniteSet(A) =>
        IsFiniteSet(A \ B) /\ Cardinality(A \ B) = Cardinality(A) - Cardinality(A \cap B)

FiniteUnion ==
    \A A, B : IsFiniteSet(A) /\ IsFiniteSet(B) =>
        /\ IsFiniteSet(A \cup B)
        /\ Cardinality(A \cup B) = Cardinality(A) + Cardinality(B) - Cardinality(A \cap B)

Counting ==
    /\ FiniteSubset /\ FiniteSize /\ FiniteEmpty /\ FiniteAdd /\ FiniteRemove
    /\ FiniteInterval /\ FiniteInjection /\ FiniteDifference /\ FiniteUnion
=============================================================================
