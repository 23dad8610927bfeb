-------------------------- MODULE MCServerRegistry --------------------------
(***************************************************************************)
(* Instances of ServerRegistry for TLC: two files in one folder of the     *)
(* mount.                                                                  *)
(***************************************************************************)
EXTENDS ServerRegistry, TLC

MCShare == <<"nfs://nas">>
MCFiles == {<<"movies", "a.mkv">>, <<"movies", "b.mkv">>}
OneFile == {<<"movies", "a.mkv">>}

Symmetry == Permutations(Requests) \cup Permutations(Workers) \cup Permutations(Ids)
=============================================================================
