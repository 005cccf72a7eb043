------------------------------- MODULE PageStore -------------------------------
(***************************************************************************)
(* What the buffer manager promises the components above it: pages that    *)
(* hold what was last put in them, which may be changed only while they    *)
(* are pinned, and a pin for each request until it is given back.  That    *)
(* there are fewer frames than pages, and a disk, does not show.           *)
(***************************************************************************)
EXTENDS Integers

CONSTANTS Page, Data

VARIABLES
  content,   (* the contents of the pages that exist *)
  pinned     (* pins held on each page               *)

Exists == DOMAIN content

Init ==
  /\ content = [k \in {} |-> 0]
  /\ pinned = [k \in Page |-> 0]

Create ==
  \E k \in DOMAIN content' \ Exists :
    /\ content'[k] \in Data
    /\ content' = [x \in Exists \cup {k} |-> IF x = k THEN content'[k] ELSE content[x]]
    /\ pinned' = [pinned EXCEPT ![k] = 1]

Pin ==
  /\ UNCHANGED content
  /\ \E k \in Exists : pinned' = [pinned EXCEPT ![k] = @ + 1]

Change ==
  /\ UNCHANGED pinned
  /\ \E k \in Exists :
       /\ pinned[k] > 0
       /\ content'[k] \in Data
       /\ content' = [content EXCEPT ![k] = content'[k]]

Unpin ==
  /\ UNCHANGED content
  /\ \E k \in Exists :
       /\ pinned[k] > 0
       /\ pinned' = [pinned EXCEPT ![k] = @ - 1]

(* Pages that are not pinned fall back to something they were earlier. *)
Lose ==
  /\ content' \in [Exists -> Data]
  /\ \A k \in Exists : pinned[k] > 0 => content'[k] = content[k]
  /\ UNCHANGED pinned

vars == <<content, pinned>>

Next == Change \/ Pin \/ Unpin \/ Create

Spec == Init /\ [][Next]_vars
===============================================================================
