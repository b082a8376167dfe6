------------------------------- MODULE MCMove -------------------------------
(***************************************************************************)
(* Instances of Move for TLC.                                              *)
(***************************************************************************)
EXTENDS Move, TLC

CONSTANTS Plain,   \* a key such as a/b
          Doubled  \* a key such as a//b

\* Clients, keys and contents are only compared with each other.
Symmetry ==
  Permutations(Clients) \cup Permutations(Keys) \cup Permutations(Contents)

\* No key has an empty part.
OwnPath == [k \in Keys |-> k]

\* One key's path is that of another one.
SharedPath == [k \in Keys |-> IF k = Doubled THEN Plain ELSE k]
=============================================================================
