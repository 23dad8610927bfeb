-------------------------------- MODULE Lists --------------------------------
(***************************************************************************)
(* The loop that goes through a list and keeps what passes a test.         *)
(***************************************************************************)
EXTENDS SequencesExt

Keep(list, S) ==
  FoldLeft(LAMBDA kept, x : IF x \in S THEN Append(kept, x) ELSE kept, <<>>, list)
=============================================================================
