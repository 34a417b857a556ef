------------------------------ MODULE Selection ------------------------------
(***************************************************************************)
(* A loop over a sequence that passes over some of its members, as the        *)
(* program has it where it prints names (src/src/hoymiles/port.cpp) and where *)
(* it writes to microinverters (src/src/hoymiles/dtu.cpp).                    *)
(***************************************************************************)
EXTENDS SequencesExt

\* The members of a sequence that are wanted, in its order.
Selected(seq, wanted) ==
  FoldLeft(LAMBDA some, x : IF x \in wanted THEN Append(some, x) ELSE some, <<>>, seq)
=============================================================================
