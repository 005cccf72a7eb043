------------------------------ MODULE IndexStore -------------------------------
(***************************************************************************)
(* What an index promises its callers: a set of entries that changes by    *)
(* one entry at a time, and a cursor over those that meet a condition,     *)
(* which returns them one by one in the order of the index.  While a       *)
(* cursor is open its caller removes only what it was given already.       *)
(***************************************************************************)
EXTENDS IndexOrder, Sequences

CONSTANTS Entries, Scans

VARIABLES entries,  \* the set of entries
          cursor,   \* empty, or holds the set of what a cursor has still to return
          got       \* what the cursor has returned, in order

vars == <<entries, cursor, got>>

Init == entries = {} /\ cursor = {} /\ got = <<>>

Insert(e) == /\ e \notin entries
             /\ entries' = entries \union {e}
             /\ cursor = {}
             /\ UNCHANGED <<cursor, got>>

Delete(e) == /\ e \in entries
             /\ \A left \in cursor : e \notin left
             /\ entries' = entries \ {e}
             /\ UNCHANGED <<cursor, got>>

Open(op, v) == /\ cursor = {}
               /\ cursor' = {{e \in entries : Wanted(op, v, e)}}
               /\ got' = <<>>
               /\ UNCHANGED entries

(* The next entry: the least of those left. *)
Fetch(e) == \E left \in cursor :
              /\ e \in left
              /\ \A f \in left \ {e} : Before(e, f)
              /\ cursor' = {left \ {e}}
              /\ got' = Append(got, e)
              /\ UNCHANGED entries

Close == /\ cursor # {}
         /\ cursor' = {}
         /\ got' = <<>>
         /\ UNCHANGED entries

Next == \/ \E e \in Entries : Insert(e) \/ Delete(e) \/ Fetch(e)
        \/ \E s \in Scans : Open(s[1], s[2])
        \/ Close

Spec == Init /\ [][Next]_vars
===============================================================================
