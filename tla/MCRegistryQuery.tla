-------------------------- MODULE MCRegistryQuery --------------------------
(* Names of two lengths, two keys for the startups, and values that are      *)
(* empty, unterminated, terminated, and of different lengths.                *)
EXTENDS RegistryQuery

CONSTANTS a, b, c, run32, run64

MCRunKeys == <<run32, run64>>
MCNameLen == (a :> 1) @@ (b :> 1) @@ (c :> 2)
MCData == {<<>>, <<"x">>, <<"x", Nul>>, <<"y", "x", Nul>>}
MCVersionData == {<<>>, <<"x", Nul>>, <<"y", "x", Nul>>}
MCMultiData == {<<>>, <<"x", "y">>, <<"x", Nul, Nul>>, <<"y", Nul, "x", Nul, Nul>>,
                <<"x", Nul, Nul, "y", Nul, Nul>>}
=============================================================================
