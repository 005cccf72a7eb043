------------------------------- MODULE QueryPlan -------------------------------
(***************************************************************************)
(* Validation of statements and the trees of operators that are built for  *)
(* them (ql_manager.cc, the constructors of ql_node.cc).                   *)
(*                                                                         *)
(* An attribute (DataAttrInfo) has a relation, a name, a type, an offset   *)
(* into the tuple and an index number, -1 when it has no index.  Every     *)
(* attribute takes one place of a tuple, so an offset is a position.  A    *)
(* condition compares an attribute with an attribute or with a value.      *)
(***************************************************************************)
EXTENDS Integers, Sequences, FiniteSets, SequencesExt

CONSTANT Schema  \* FillDataAttributes: the attributes of each relation of the catalogs

Unnamed == ""                          \* relName is NULL
Star == [rel |-> Unnamed, attr |-> "*"]

-------------------------------------------------------------------------------
(* Looking attributes up. *)

AttrAt(ref, attrs) ==
  SelectInSeq(attrs, LAMBDA a : a.attr = ref.attr /\ ref.rel \in {Unnamed, a.rel})

(* checkAttrExists, and the attribute that it or FindAttributeInfo finds. *)
AttrExists(ref, attrs) == AttrAt(ref, attrs) # 0
Info(ref, attrs) == attrs[AttrAt(ref, attrs)]

(* FindAttrMetadata. *)
HasAttr(rel, attr) ==
  rel \in DOMAIN Schema /\ \E i \in DOMAIN Schema[rel] : Schema[rel][i].attr = attr

(* The relations of the clause that an attribute of it can be of. *)
Owners(ref, rels) ==
  {r \in ToSet(rels) : ref.rel \in {Unnamed, r} /\ HasAttr(r, ref.attr)}

-------------------------------------------------------------------------------
(* Validation: "ok" or the return code. *)

First(rcs) ==
  LET bad == SelectInSeq(rcs, LAMBDA rc : rc # "ok") IN IF bad = 0 THEN "ok" ELSE rcs[bad]

ValidateRelForSelect(rels) == IF IsInjective(rels) THEN "ok" ELSE "DUPLICATEREL"

ValidateAttrForSelect(ref, rels) ==
  IF ref = Star \/ Cardinality(Owners(ref, rels)) = 1 THEN "ok"
  ELSE IF Owners(ref, rels) # {} THEN "AMBIGUOUSATTR"
  ELSE IF ref.rel \in ToSet(rels) THEN "ATTRNOTEXIST"
  ELSE "RELNOTINWHERECLAUSE"

TypeOf(ref, rels) ==
  Info(ref, Schema[CHOOSE r \in Owners(ref, rels) : TRUE]).type

ValidateCond(c, rels) ==
  LET rcs == <<ValidateAttrForSelect(c.lhs, rels),
               IF c.rhsIsAttr THEN ValidateAttrForSelect(c.rhs, rels) ELSE "ok">>
      type == IF c.rhsIsAttr THEN TypeOf(c.rhs, rels) ELSE c.rhs.type
  IN  IF First(rcs) # "ok" THEN First(rcs)
      ELSE IF type # TypeOf(c.lhs, rels) THEN "OPERANDSINCOMPATIBLE" ELSE "ok"

(* What Select returns before anything is executed; a relation that is not in
   the catalogs is found out when its access method is chosen. *)
ValidateSelect(q) ==
  First(<<ValidateRelForSelect(q.rels)>>
        \o [i \in DOMAIN q.sel |-> ValidateAttrForSelect(q.sel[i], q.rels)]
        \o [i \in DOMAIN q.conds |-> ValidateCond(q.conds[i], q.rels)]
        \o [i \in DOMAIN q.rels |->
              IF q.rels[i] \in DOMAIN Schema THEN "ok" ELSE "RELNOTEXIST"])

-------------------------------------------------------------------------------
(* Nodes.  conds is the condition of a scan, if it has one, or what a filter
   or a join tests. *)

Scan(type, rel, conds) == [type |-> type, rel |-> rel, conds |-> conds, attrs |-> Schema[rel]]
Filter(child, conds) ==
  [type |-> "filter", child |-> child, conds |-> conds, attrs |-> child.attrs]
Project(child, sel) ==
  [type |-> "project", child |-> child, sel |-> sel,
   attrs |-> IF sel = <<Star>> THEN child.attrs
             ELSE [i \in DOMAIN sel |-> Info(sel[i], child.attrs)]]

(* The attributes on the right follow one another behind those on the left. *)
Join(child, rchild, conds, id) ==
  [type |-> "join", child |-> child, rchild |-> rchild, conds |-> conds, id |-> id,
   attrs |-> child.attrs
             \o [i \in DOMAIN rchild.attrs |->
                   [rchild.attrs[i] EXCEPT !.offset = Len(child.attrs) + i]]]

-------------------------------------------------------------------------------
(* Building a tree.  remaining holds the positions of the conditions that are
   not in the tree yet. *)

(* The first of the first n conditions that compares an attribute that has an
   index, other than the one numbered except, with a value; 0 if none does. *)
FindIndexedAttrCond(n, conds, attrs, except) ==
  SelectInSeq(SubSeq(conds, 1, n), LAMBDA c :
    /\ ~c.rhsIsAttr /\ AttrExists(c.lhs, attrs)
    /\ Info(c.lhs, attrs).indexNo \notin {-1, except})

FindAccessMethods(rel, remaining, conds) ==
  LET indexed == FindIndexedAttrCond(Len(remaining), conds, Schema[rel], -1)
      at == SelectInSeq(remaining, LAMBDA j :
              ~conds[j].rhsIsAttr /\ AttrExists(conds[j].lhs, Schema[rel]))
  IN  IF indexed # 0
      THEN [branch |-> Scan("index", rel, <<conds[indexed]>>),
            remaining |-> SelectSeq(remaining, LAMBDA j : j # indexed)]
      ELSE IF at # 0
      THEN [branch |-> Scan("table", rel, <<conds[remaining[at]]>>),
            remaining |-> RemoveAt(remaining, at)]
      ELSE [branch |-> Scan("table", rel, <<>>), remaining |-> remaining]

CondsAt(conds, js) == [i \in DOMAIN js |-> conds[js[i]]]

ApplyFilter(r, conds) ==
  LET Applies(j) == /\ AttrExists(conds[j].lhs, r.branch.attrs)
                    /\ conds[j].rhsIsAttr => AttrExists(conds[j].rhs, r.branch.attrs)
      picked == SelectSeq(r.remaining, Applies)
  IN  [branch |-> IF picked = <<>> THEN r.branch ELSE Filter(r.branch, CondsAt(conds, picked)),
       remaining |-> SelectSeq(r.remaining, LAMBDA j : ~Applies(j))]

(* The first two branches are joined and the join goes to the end of the list,
   until one is left. *)
JoinBranches(branches, remaining, conds, id) ==
  LET Step(r) ==
        LET b1 == r.branches[1]
            b2 == r.branches[2]
            Applies(j) == \A ref \in {conds[j].lhs, conds[j].rhs} :
                            AttrExists(ref, b1.attrs \o b2.attrs)
            picked == SelectSeq(r.remaining, Applies)
        IN  [branches |-> SubSeq(r.branches, 3, Len(r.branches))
                            \o <<Join(b1, b2, CondsAt(conds, picked), r.id)>>,
             remaining |-> SelectSeq(r.remaining, LAMBDA j : ~Applies(j)), id |-> r.id + 1]
      after[n \in 0..(Len(branches) - 1)] ==
        IF n = 0 THEN [branches |-> branches, remaining |-> remaining, id |-> id]
        ELSE Step(after[n - 1])
  IN  Head(after[Len(branches) - 1].branches)

(* Select: a branch for each relation in turn, the joins, the projection; id
   is the number of the first join. *)
SelectPlan(q, id) ==
  LET after[n \in 0..Len(q.rels)] ==
        IF n = 0 THEN [branches |-> <<>>, remaining |-> [j \in DOMAIN q.conds |-> j]]
        ELSE LET r == ApplyFilter(
                        FindAccessMethods(q.rels[n], after[n - 1].remaining, q.conds), q.conds)
             IN  [branches |-> Append(after[n - 1].branches, r.branch), remaining |-> r.remaining]
      last == after[Len(q.rels)]
  IN  Project(JoinBranches(last.branches, last.remaining, q.conds, id), q.sel)

(* Delete and Update: the root's child; except is the number of the index of
   the attribute that is changed. *)
ChangePlan(rel, conds, except) ==
  LET indexed == FindIndexedAttrCond(Len(conds), conds, Schema[rel], except)
      valued  == SelectInSeq(conds, LAMBDA c : ~c.rhsIsAttr)
      at      == IF indexed # 0 THEN indexed ELSE valued
      scan    == Scan(IF indexed # 0 THEN "index" ELSE "table", rel,
                      IF at # 0 THEN <<conds[at]>> ELSE <<>>)
      rest    == IF at # 0 THEN RemoveAt(conds, at) ELSE conds
  IN  IF rest = <<>> THEN scan ELSE Filter(scan, rest)
===============================================================================
