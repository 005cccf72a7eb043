--------------------------------- MODULE Query ---------------------------------
(***************************************************************************)
(* Queries in the sessions of one database: Select validates a query,      *)
(* builds its tree and calls GetNext on the root until there are no more   *)
(* tuples (ql_manager.cc, ql_node.cc).  Each join keeps its right operand  *)
(* in a temporary record file named after its number.                      *)
(*                                                                         *)
(* A relation is a function from record identifiers to tuples.  An index   *)
(* is taken to hold an entry for each record: see Index and Statements.    *)
(***************************************************************************)
EXTENDS QueryPlan, IndexOrder, Bags, TLC

CONSTANTS
  Databases,    \* the contents the relations may have
  Queries,      \* the queries: relations, attributes selected, conditions
  MaxQueries,   \* bound: queries
  MaxSessions   \* bound: sessions

ASSUME QueryConstants == MaxQueries \in Nat /\ MaxSessions \in Nat

VARIABLES
  tables,      \* contents of the relations
  temp,        \* the numbers of the joins whose temporary file is on disk
  nextJoinID,  \* qJoin::nextJoinID, static: 0 in every new process
  query,       \* the query being executed, or the last one
  exec,        \* its tree and the state of the nodes; "idle" when it has returned
  printed,     \* the rows printed for it
  rc,          \* what Select returned for it
  queries, sessions,
  excused      \* history: joins that nothing closes: their left operand was
               \* empty, or their query failed or was cut short

vars == <<tables, temp, nextJoinID, query, exec, printed, rc, queries, sessions, excused>>

NoQuery == [rels |-> <<>>, sel |-> <<>>, conds |-> <<>>]
Idle == [state |-> "idle"]

-------------------------------------------------------------------------------
(* Conditions. *)

CheckConditionMet(x, op, y) == IF op = "NE" THEN x # y ELSE Wanted(op, y, <<x>>)

ConditionsMet(conds, attrs, rec) ==
  \A i \in DOMAIN conds :
    LET c == conds[i]
    IN  CheckConditionMet(rec[Info(c.lhs, attrs).offset], c.op,
          IF c.rhsIsAttr THEN rec[Info(c.rhs, attrs).offset] ELSE c.rhs.data)

-------------------------------------------------------------------------------
(* GetNext of each node, on the state s of the execution: for each scan the
   records it has still to return, for each join its tuple of the left
   operand, the right operand and what of it is still to be combined, and the
   temporary files.  The result is the state, the return code, the record. *)

Result(s, code, rec) == [s |-> s, rc |-> code, rec |-> rec]

(* A table scan goes by record identifier, an index scan by value first. *)
Records(n) ==
  LET table  == tables[n.rel]
      offset == Info(n.conds[1].lhs, n.attrs).offset
      Earlier(i, j) == IF n.type = "table" THEN i < j
                       ELSE Before(<<table[i][offset], i>>, <<table[j][offset], j>>)
      rids == SetToSortSeq({r \in DOMAIN table : ConditionsMet(n.conds, n.attrs, table[r])},
                           Earlier)
  IN  [i \in DOMAIN rids |-> table[rids[i]]]

(* An index cannot be scanned with NE; in an index without entries the scan
   follows pointers nothing has set, to a page that does not exist. *)
ScanError(n) ==
  IF n.type # "index" THEN "ok"
  ELSE IF n.conds[1].op = "NE" THEN "SCANPARAMINVALID"
  ELSE IF tables[n.rel] = <<>> THEN "INVALIDPAGE" ELSE "ok"

(* qTableScan and qIndexScan. *)
ScanNext(n, s) ==
  LET todo == IF n.rel \in DOMAIN s.scan THEN s.scan[n.rel] ELSE Records(n)
      Now(left) == [s EXCEPT !.scan = (n.rel :> left) @@ @]
  IN  IF ScanError(n) # "ok" THEN Result(s, ScanError(n), <<>>)
      ELSE IF todo = <<>> THEN Result(Now(<<>>), "ENDOFRESULT", <<>>)
      ELSE Result(Now(Tail(todo)), "ok", Head(todo))

RECURSIVE GetNext(_, _), FilterNext(_, _), Drain(_, _, _), JoinNext(_, _)

FilterNext(n, s) ==
  LET r == GetNext(n.child, s)
  IN  IF r.rc # "ok" \/ ConditionsMet(n.conds, n.attrs, r.rec) THEN r
      ELSE FilterNext(n, r.s)

(* Everything a node returns, put behind recs. *)
Drain(n, s, recs) ==
  LET r == GetNext(n, s)
  IN  IF r.rc = "ok" THEN Drain(n, r.s, Append(recs, r.rec)) ELSE Result(r.s, r.rc, recs)

(* qJoin::Begin.  The file is created anew, and stays when Begin returns
   anything but 0. *)
JoinBegin(n, s) ==
  LET right == Drain(n.rchild, [s EXCEPT !.temp = @ \union {n.id}], <<>>)
      left  == GetNext(n.child, right.s)
  IN  IF n.id \in s.temp THEN Result(s, "UNIX", <<>>)
      ELSE IF right.rc # "ENDOFRESULT" THEN right
      ELSE IF left.rc # "ok" THEN left
      ELSE Result([left.s EXCEPT !.join = (n.id :> [left |-> left.rec, right |-> right.rec,
                                                    todo |-> right.rec]) @@ @], "ok", <<>>)

(* Mutants: the right operand is not gone through again; the file is left. *)
NextLeftOnce(n, s) ==
  LET left == GetNext(n.child, s)
  IN  IF left.rc = "ENDOFRESULT"
      THEN Result([left.s EXCEPT !.temp = @ \ {n.id}], "ENDOFRESULT", <<>>)
      ELSE Result(IF left.rc = "ok" THEN [left.s EXCEPT !.join[n.id].left = left.rec]
                  ELSE left.s, left.rc, <<>>)
NextLeftKeep(n, s) ==
  LET left == GetNext(n.child, s)
  IN  Result(IF left.rc = "ok"
             THEN [left.s EXCEPT !.join[n.id].left = left.rec,
                                 !.join[n.id].todo = s.join[n.id].right]
             ELSE left.s, left.rc, <<>>)

(* At the end of the right operand: the next tuple of the left one, or the
   end, where the file is closed and destroyed. *)
NextLeft(n, s) ==
  LET left == GetNext(n.child, s)
  IN  IF left.rc = "ENDOFRESULT"
      THEN Result([left.s EXCEPT !.temp = @ \ {n.id}], "ENDOFRESULT", <<>>)
      ELSE Result(IF left.rc = "ok"
                  THEN [left.s EXCEPT !.join[n.id].left = left.rec,
                                      !.join[n.id].todo = s.join[n.id].right]
                  ELSE left.s, left.rc, <<>>)

(* The loop of qJoin::GetNext, once Begin has succeeded. *)
JoinNext(n, s) ==
  LET todo == s.join[n.id].todo
      rec  == s.join[n.id].left \o Head(todo)
      s2   == [s EXCEPT !.join[n.id].todo = Tail(@)]
      next == NextLeft(n, s)
  IN  IF todo = <<>>
      THEN IF next.rc = "ok" THEN JoinNext(n, next.s) ELSE next
      ELSE IF ConditionsMet(n.conds, n.attrs, rec) THEN Result(s2, "ok", rec)
      ELSE JoinNext(n, s2)

GetNext(n, s) ==
  CASE n.type \in {"table", "index"} -> ScanNext(n, s)
    [] n.type = "filter" -> FilterNext(n, s)
    [] n.type = "join" ->
         IF n.id \in DOMAIN s.join THEN JoinNext(n, s)
         ELSE LET r == JoinBegin(n, s) IN IF r.rc = "ok" THEN JoinNext(n, r.s) ELSE r

(* What qProject prints: the value under each heading. *)
Row(n, rec) == [h \in {<<a.rel, a.attr>> : a \in ToSet(n.attrs)} |->
                  rec[(CHOOSE a \in ToSet(n.attrs) : <<a.rel, a.attr>> = h).offset]]

-------------------------------------------------------------------------------
(* Sessions. *)

Init ==
  /\ tables \in Databases
  /\ temp = {} /\ nextJoinID = 0 /\ queries = 0 /\ sessions = 1 /\ excused = {}
  /\ query = NoQuery /\ exec = Idle /\ printed = EmptyBag /\ rc = "ok"

(* Mutant: the number is not counted up. *)
JoinsSame(q) == 0

(* The number of joins of a query: each of them takes a number. *)
Joins(q) == Len(q.rels) - 1

(* Select, up to the execution of the tree. *)
Select(q) ==
  LET code == ValidateSelect(q)
  IN  /\ exec = Idle /\ queries < MaxQueries
      /\ queries' = queries + 1
      /\ query' = q /\ printed' = EmptyBag /\ rc' = code
      /\ IF code # "ok" THEN UNCHANGED <<exec, nextJoinID>>
         ELSE /\ exec' = [state |-> "running", plan |-> SelectPlan(q, nextJoinID),
                          scan |-> <<>>, join |-> <<>>]
              /\ nextJoinID' = nextJoinID + Joins(q)
      /\ UNCHANGED <<tables, temp, sessions, excused>>

PlanIDs(q) == {nextJoinID - i : i \in 1..Joins(q)}

(* A left operand without tuples, anywhere in the tree. *)
RECURSIVE EmptyLeft(_)
EmptyLeft(n) ==
  CASE n.type \in {"table", "index"} -> FALSE
    [] n.type = "filter" -> EmptyLeft(n.child)
    [] n.type = "join" ->
         \/ Drain(n.child, [scan |-> <<>>, join |-> <<>>, temp |-> {}], <<>>).rec = <<>>
         \/ EmptyLeft(n.child) \/ EmptyLeft(n.rchild)

(* One turn of ExecuteQueryPlan: qProject::GetNext prints a row or returns. *)
ExecuteQueryPlan ==
  LET child == exec.plan.child
      r == GetNext(child, [scan |-> exec.scan, join |-> exec.join, temp |-> temp])
  IN  /\ exec # Idle
      /\ temp' = r.s.temp
      /\ IF r.rc = "ok"
         THEN /\ printed' = printed (+) SetToBag({Row(exec.plan, r.rec)})
              /\ exec' = [exec EXCEPT !.scan = r.s.scan, !.join = r.s.join]
              /\ UNCHANGED <<rc, excused>>
         ELSE /\ exec' = Idle
              /\ rc' = IF r.rc = "ENDOFRESULT" THEN "ok" ELSE r.rc
              /\ excused' = IF r.rc # "ENDOFRESULT" \/ EmptyLeft(child)
                            THEN excused \union PlanIDs(query) ELSE excused
              /\ UNCHANGED printed
      /\ UNCHANGED <<tables, nextJoinID, query, queries, sessions>>

(* The session ends, or the process dies while a query runs; the next one
   numbers its joins from 0 again. *)
Restart ==
  /\ sessions < MaxSessions /\ sessions' = sessions + 1
  /\ excused' = IF exec = Idle THEN excused ELSE excused \union PlanIDs(query)
  /\ nextJoinID' = 0
  /\ query' = NoQuery /\ exec' = Idle /\ printed' = EmptyBag /\ rc' = "ok"
  /\ UNCHANGED <<tables, temp, queries>>

Next == (\E q \in Queries : Select(q)) \/ ExecuteQueryPlan \/ Restart

Spec == Init /\ [][Next]_vars

-------------------------------------------------------------------------------
(* What a query means. *)

(* ql_DOC, "Validation ensures that". *)
WellFormed(q) ==
  LET refs == (ToSet(q.sel) \ {Star}) \union {c.lhs : c \in ToSet(q.conds)}
                \union {c.rhs : c \in {d \in ToSet(q.conds) : d.rhsIsAttr}}
  IN  /\ ToSet(q.rels) \subseteq DOMAIN Schema
      /\ \A i, j \in DOMAIN q.rels : q.rels[i] = q.rels[j] => i = j
      /\ \A ref \in refs : \E r \in ToSet(q.rels) : Owners(ref, q.rels) = {r}
      /\ \A c \in ToSet(q.conds) :
           TypeOf(c.lhs, q.rels) = IF c.rhsIsAttr THEN TypeOf(c.rhs, q.rels) ELSE c.rhs.type

(* The value of an attribute when record rid[r] is taken of each relation r. *)
ValueOf(ref, q, rid) ==
  LET r == CHOOSE o \in Owners(ref, q.rels) : TRUE
  IN  tables[r][rid[r]][Info(ref, Schema[r]).offset]

Headings(q) ==
  IF q.sel = <<Star>>
  THEN UNION {{<<r, a.attr>> : a \in ToSet(Schema[r])} : r \in ToSet(q.rels)}
  ELSE {<<CHOOSE r \in Owners(ref, q.rels) : TRUE, ref.attr>> : ref \in ToSet(q.sel)}

(* The answer: a row for each combination of records that meets the conditions. *)
Answer(q) ==
  LET Rel == ToSet(q.rels)
      rids == UNION {DOMAIN tables[r] : r \in Rel}
      combinations == {rid \in [Rel -> rids] :
        /\ \A r \in Rel : rid[r] \in DOMAIN tables[r]
        /\ \A c \in ToSet(q.conds) :
             CheckConditionMet(ValueOf(c.lhs, q, rid), c.op,
               IF c.rhsIsAttr THEN ValueOf(c.rhs, q, rid) ELSE c.rhs.data)}
      RowOf(rid) == [h \in Headings(q) |-> ValueOf([rel |-> h[1], attr |-> h[2]], q, rid)]
  IN  [row \in {RowOf(rid) : rid \in combinations} |->
         Cardinality({rid \in combinations : RowOf(rid) = row})]

(* A query has returned. *)
Returned == exec = Idle /\ query # NoQuery

-------------------------------------------------------------------------------
(* Properties. *)

(* A query that returns 0 has printed exactly the rows of its answer, each as
   often as the answer has it, whichever access methods and order of joins
   were chosen; while it runs it has printed no row too many.  Select,
   ExecuteQueryPlan and the GetNext of the nodes. *)
AnswerExact ==
  /\ Returned /\ rc = "ok" => WellFormed(query) /\ printed = Answer(query)
  /\ exec # Idle => printed \sqsubseteq Answer(query)

(* A well-formed query fails only in three cases: its tree has an index scan
   with NE, one on an index without entries, or a join whose number a file
   left by an earlier session has.  A query that is not well-formed prints
   nothing. *)
FailsOnly ==
  Returned /\ rc # "ok" =>
    \/ ~WellFormed(query) /\ printed = EmptyBag
    \/ rc = "UNIX" /\ sessions > 1 /\ excused \intersect PlanIDs(query) # {}
    \/ /\ rc \in {"SCANPARAMINVALID", "INVALIDPAGE"}
       /\ \E c \in ToSet(query.conds) :
            LET r == CHOOSE o \in Owners(c.lhs, query.rels) : TRUE
            IN  /\ ~c.rhsIsAttr /\ Info(c.lhs, Schema[r]).indexNo # -1
                /\ c.op = "NE" \/ tables[r] = <<>>

(* Between queries there are no temporary files on disk but those of joins
   that nothing closes (qJoin destroys its file when its left operand has
   ended; an empty left operand ends in Begin, which does not). *)
TempFilesGone == exec = Idle => temp \subseteq excused
===============================================================================
