----------------------------- MODULE GraphPaths -----------------------------
(***************************************************************************)
(* Paths of the controller's graph and what get_best_path                  *)
(* (Path_Calculator/path_calculation.py) may return for one.  Atlas routes *)
(* with any such path; PathSearch is the search that computes one.         *)
(***************************************************************************)
EXTENDS Naturals, FiniteSets, Sequences

CONSTANT V    \* the vertices: one per interface

(* An undirected edge joins two vertices. *)
Pairs == {{u, w} : u, w \in V} \ {{u} : u \in V}

(* The paths of a graph with vertices V: simple ones.                      *)
Route == UNION {{p \in [1 .. n -> V] : \A i, j \in 1 .. n : p[i] = p[j] => i = j}
                 : n \in 1 .. Cardinality(V)}

Edges(p) == {{p[i], p[i + 1]} : i \in 1 .. Len(p) - 1}

(* The results get_best_path may return: the direct edge if there is one,  *)
(* otherwise some path, and the source alone when there is none.           *)
get_best_path(E, s, d) ==
  LET found == {p \in Route : p[1] = s /\ p[Len(p)] = d /\ Edges(p) \subseteq E}
  IN IF {s, d} \in E THEN {<<s, d>>}
     ELSE IF found # {} THEN found ELSE {<<s>>}
=============================================================================
