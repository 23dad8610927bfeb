------------------------------ MODULE MCAccess ------------------------------
(***************************************************************************)
(* Instances of Access for TLC.  Browsers, generated keys, secrets and     *)
(* user names are interchangeable.                                         *)
(***************************************************************************)
EXTENDS Access, TLC

CONSTANT k1   \* the key in the environment, apart from the generated ones

NoEnvKey   == {NoKey}
SomeEnvKey == {NoKey, k1}

Symmetry == Permutations(Browsers) \cup Permutations(Keys \ {k1})
            \cup Permutations(Secrets)
=============================================================================
