----------------------------- MODULE MCStatements -----------------------------
(***************************************************************************)
(* An instance of Statements for TLC: r has attributes a and c, each with  *)
(* an index, and b.                                                        *)
(***************************************************************************)
EXTENDS Statements

Attr(attr, offset, indexNo) ==
  [rel |-> "r", attr |-> attr, type |-> "INT", offset |-> offset, indexNo |-> indexNo]
MCSchema == [r |-> <<Attr("a", 1, 0), Attr("b", 2, -1), Attr("c", 3, 1)>>]

MCLoads == {<<<<0, 1, 0>>>>, <<<<1, 1, 0>>, <<0, 0, 1>>>>}

Name(attr) == [rel |-> Unnamed, attr |-> attr]
WithValue(lhs, op, data) ==
  [lhs |-> lhs, op |-> op, rhsIsAttr |-> FALSE, rhs |-> [type |-> "INT", data |-> data]]
WithAttr(lhs, op, rhs) == [lhs |-> lhs, op |-> op, rhsIsAttr |-> TRUE, rhs |-> rhs]
Delete(conds) == [type |-> "delete", conds |-> conds]
Update(set, rhsIsAttr, rhs, conds) ==
  [type |-> "update", set |-> set, rhsIsAttr |-> rhsIsAttr, rhs |-> rhs, conds |-> conds]

MCChanges == {
  Delete(<<WithValue(Name("a"), "EQ", 0)>>),
  Delete(<<WithAttr(Name("a"), "LE", Name("b"))>>),
  Delete(<<WithValue(Name("b"), "NE", 0)>>),
  Update(Name("a"), FALSE, [data |-> 1], <<WithValue(Name("a"), "GE", 0), WithValue(Name("b"), "LE", 1)>>),
  Update(Name("a"), TRUE, Name("b"), <<>>),
  Update(Name("b"), FALSE, [data |-> 0], <<WithAttr(Name("a"), "NE", Name("b")), WithValue(Name("a"), "LT", 1)>>)
}
===============================================================================
