------------------------------- MODULE MCCatalog -------------------------------
(* An instance of Catalog for TLC. *)
EXTENDS Catalog

MCDeclarations == {<<"a">>, <<"b", "a">>}

(* Relations that do not have the log's name are alike. *)
Alike == Permutations(Names \ {LogFile})
===============================================================================
