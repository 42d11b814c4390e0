------------------------------ MODULE RecentRows ------------------------------
(***************************************************************************)
(* What the readers of the repository are promised: rows are written, rows *)
(* grow older, and a row within the window its readers ask for is there.   *)
(* There is no retention here.                                             *)
(***************************************************************************)
EXTENDS Integers

CONSTANTS
  Store,    \* the tables, and the export archive
  Window    \* Window[t]: the age in days up to which t is read

VARIABLE recent   \* recent[t][a]: the rows of t that are a days old

Init == recent = [t \in Store |-> [a \in 0..Window[t] |-> 0]]

Write(t, a) == recent' = [recent EXCEPT ![t][a] = @ + 1]

Day == recent' = [t \in Store |->
                    [a \in 0..Window[t] |-> IF a = 0 THEN 0 ELSE recent[t][a - 1]]]

Next == Day \/ \E t \in Store : \E a \in 0..Window[t] : Write(t, a)

Spec == Init /\ [][Next]_recent
=============================================================================
