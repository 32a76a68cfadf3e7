---------------------------- MODULE MCDenseSlice ----------------------------
(***************************************************************************)
(* Three cells, two ids: a core qubit, a Y state without an id, and room to *)
(* move.                                                                   *)
(***************************************************************************)
EXTENDS DenseSlice

CONSTANTS i1, i2

LowerRight == <<0, 2>>

OneQubit == [i \in {i1} |-> <<0, 0>>]

OneYState == {<<0, 2>>}

None == {}

NoFactory == [c \in {} |-> Uniform("Connected")]

Route == [type |-> "Routing", activity |-> "Measurement",
          boundaries |-> [Uniform("None") EXCEPT !.left = boundary("Connected")]]

QubitsAndRoutes == {basic_square_look, Route}
=============================================================================
