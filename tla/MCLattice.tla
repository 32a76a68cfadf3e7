----------------------------- MODULE MCLattice -----------------------------
(***************************************************************************)
(* A row of two patches and a factory beneath it, room for routes and      *)
(* rotations between them.                                                 *)
(***************************************************************************)
EXTENDS Lattice

CONSTANTS q1, q2

LowerRight == <<1, 3>>

OneQubit == [i \in {q1} |-> <<0, 0>>]

OneYState == {<<0, 3>>}

OneFactory == [c \in {<<1, 2>>} |-> Uniform("Smooth")]

NextToFactory == <<<<<<0, 2>>>>>>

OneDead == {<<1, 3>>}

OneTime == <<2>>

NoTime == <<0>>

Middle == <<<<1, 1>>>>

NoCells == {}

NoTiles == <<>>

(***************************************************************************)
(* Reserved tiles.                                                         *)
(***************************************************************************)
SmallLowerRight == <<1, 2>>

TwoReserved == [c \in {<<0, 2>>, <<1, 2>>} |-> Uniform("Connected")]

TwoTiles == <<<<0, 2>>, <<1, 2>>>>

TwoTimes == <<2, 2>>

OneIsZero == <<2, 0>>

NoLocations == <<>>
=============================================================================
