------------------------------ MODULE MCAssets ------------------------------
(* Two releases of two themes: dark changes, light is new in release 2.    *)
EXTENDS Assets, TLC

CONSTANTS p1, p2, dark, light, dark1, dark2, light1, i1, i2, i3

Both == << (dark :> dark1 @@ light :> None), (dark :> dark2 @@ light :> light1) >>

DarkOnly == << (dark :> dark1), (dark :> dark2) >>

\* The user has a file of the same name ...
FoundInPlace == {Missing, Mine}

\* ... edits omm's, deletes it, puts a directory in its place, or has the new
\* content already.
EditedTo == {Mine, Missing, Odd, dark2}

Symmetry == Permutations(Procs) \cup Permutations(Inodes)
=============================================================================
