------------------------------ MODULE MCIterables ------------------------------
EXTENDS Iterables

(* Objects 0 and 2 share a bucket, 3 has the hash of 1. *)
MCHash(o) == IF o = 3 THEN 1 ELSE o

Setup(ks, most, os, ls, ms) ==
    [kind |-> ks, most |-> most, objects |-> os, loops |-> ls, methods |-> ms]

(* Tables that are combined, tables that are changed during loops, and     *)
(* methods that run over a set and over other things.                      *)
MCSetups ==
    { Setup(k, [m |-> 2, n |-> 2], {0, 1, 3}, {}, {}) :
        k \in { [m |-> "map", n |-> "set"], [m |-> "map", n |-> "map"],
                [m |-> "set", n |-> "set"], [m |-> "dictionary", n |-> "dictionary"] } }
    \cup { Setup([m |-> "set"], [m |-> 4], Objects, {"v"}, {}),
           Setup([m |-> "dictionary"], [m |-> 4], Objects, {}, {}),
           Setup([m |-> "map"], [m |-> 3], {0, 1, 2}, {"v"}, {}),
           Setup([m |-> "map"], [m |-> 2], {0, 1, 3}, {"v", "w"}, {}),
           Setup([m |-> "set"], [m |-> 3], {0, 1, 2}, {"v"}, Methods),
           Setup(<<>>, <<>>, {0, 1, 2}, {}, Methods) }

(* Comparisons, an inconsistent one and a failing one among them.          *)
Answers(lt(_, _)) == [p \in Objects \X Objects |-> lt(p[1], p[2])]
MCComparisons ==
    { Answers(<), Answers(<=), Answers(>), Answers(LAMBDA a, b : TRUE),
      Answers(LAMBDA a, b : a = (b + 1) % 3) }
=============================================================================
