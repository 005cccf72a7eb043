------------------------------- MODULE MCIndex --------------------------------
(***************************************************************************)
(* Instances of Index for TLC.                                             *)
(***************************************************************************)
EXTENDS Index

(* Two entries for each of the values in the middle, one for the others: so
   that equal values lie on two leaves. *)
MCEntries == {<<1, 1>>, <<2, 1>>, <<2, 2>>, <<3, 1>>, <<3, 2>>}

(* Every operator; values with no, one and two entries. *)
MCScans == {<<"NO", 0>>, <<"EQ", 2>>, <<"LT", 3>>, <<"LE", 2>>, <<"GT", 1>>, <<"GE", 2>>}
NoScans == {}

MoreEntries == MCEntries \union {<<1, 2>>}
===============================================================================
