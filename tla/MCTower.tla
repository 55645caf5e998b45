------------------------------ MODULE MCTower ------------------------------
(***************************************************************************)
(* Small block trees for the tower. Slot 4 has no block, so that a lockout *)
(* of four slots can end within the instance.                              *)
(***************************************************************************)
EXTENDS Tower, TLC

MCSlot == {0, 1, 2, 3, 5, 6}

AncestorsOf(parent) ==
    LET anc[s \in MCSlot] ==
            IF s = 0 THEN {} ELSE anc[parent[s]] \cup {parent[s]}
    IN  anc

\* Two forks from the genesis block, two from the first block, and a branch from
\* the first block that comes after a chain of three more.
MCForks ==
    LET tree(p1, p2, p3, p5, p6) ==
            AncestorsOf(1 :> p1 @@ 2 :> p2 @@ 3 :> p3 @@ 5 :> p5 @@ 6 :> p6)
    IN  {tree(0, 1, 0, 2, 3), tree(0, 1, 1, 2, 3), tree(0, 1, 2, 3, 1)}

=============================================================================
