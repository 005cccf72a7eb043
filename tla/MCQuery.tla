------------------------------- MODULE MCQuery --------------------------------
(***************************************************************************)
(* An instance of Query for TLC: three relations, r with an index on a.    *)
(***************************************************************************)
EXTENDS Query

Attr(rel, attr, type, offset, indexNo) ==
  [rel |-> rel, attr |-> attr, type |-> type, offset |-> offset, indexNo |-> indexNo]

MCSchema ==
  [r |-> <<Attr("r", "a", "INT", 1, 0), Attr("r", "b", "INT", 2, -1)>>,
   s |-> <<Attr("s", "b", "INT", 1, -1), Attr("s", "c", "INT", 2, -1)>>,
   t |-> <<Attr("t", "d", "INT", 1, -1), Attr("t", "e", "STRING", 2, -1)>>]

(* Duplicates among the records, and empty relations. *)
MCDatabases ==
  [r : {<<>>, <<<<1, 0>>, <<0, 1>>, <<1, 1>>>>},
   s : {<<>>, <<<<1, 0>>, <<1, 1>>>>, <<<<0, 0>>, <<0, 0>>>>},
   t : {<<>>, <<<<0, 0>>, <<1, 0>>>>}]

Ref(rel, attr) == [rel |-> rel, attr |-> attr]
Name(attr) == Ref(Unnamed, attr)
WithValue(lhs, op, type, data) ==
  [lhs |-> lhs, op |-> op, rhsIsAttr |-> FALSE, rhs |-> [type |-> type, data |-> data]]
WithAttr(lhs, op, rhs) == [lhs |-> lhs, op |-> op, rhsIsAttr |-> TRUE, rhs |-> rhs]
Q(sel, rels, conds) == [sel |-> sel, rels |-> rels, conds |-> conds]

a1 == WithValue(Name("a"), "EQ", "INT", 1)
rbsb == WithAttr(Ref("r", "b"), "EQ", Ref("s", "b"))
cd == WithAttr(Name("c"), "LE", Name("d"))
ad == WithAttr(Name("a"), "NE", Name("d"))

MCQueries == {
  \* one relation: index scan and filter, table scan, attribute with attribute
  Q(<<Star>>, <<"r">>, <<WithValue(Name("b"), "LE", "INT", 1), a1>>),
  Q(<<Name("b")>>, <<"r">>, <<WithValue(Ref("r", "b"), "NE", "INT", 0)>>),
  Q(<<Star>>, <<"r">>, <<WithAttr(Name("a"), "GT", Name("b"))>>),
  Q(<<Name("a")>>, <<"r">>, <<WithValue(Name("a"), "NE", "INT", 0)>>),
  \* two and three relations
  Q(<<Name("a"), Name("c")>>, <<"r", "s">>, <<rbsb>>),
  Q(<<Name("c")>>, <<"s", "r">>, <<WithValue(Name("c"), "LT", "INT", 1), a1>>),
  Q(<<Star>>, <<"r", "s", "t">>, <<rbsb, cd>>),
  Q(<<Name("d"), Ref("s", "b")>>, <<"t", "s", "r">>,
    <<WithValue(Name("d"), "GE", "INT", 0), ad, rbsb>>),
  \* not well-formed
  Q(<<Star>>, <<"r", "r">>, <<>>),
  Q(<<Name("b")>>, <<"r", "s">>, <<>>),
  Q(<<Ref("t", "d")>>, <<"r">>, <<>>),
  Q(<<Ref("r", "d")>>, <<"r">>, <<>>),
  Q(<<Star>>, <<"t">>, <<WithAttr(Name("d"), "EQ", Name("e"))>>),
  Q(<<Star>>, <<"u">>, <<>>)
}
===============================================================================
