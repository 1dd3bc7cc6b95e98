--------------------------- MODULE DependencyGraph ---------------------------
(* transitive_dependencies of bcaes_registry/graph.py: a walk along the     *)
(* declared dependencies, in the order they are declared, that does not     *)
(* follow a cycle.  A graph gives the dependencies of each object that is   *)
(* registered; ids of deleted objects may still be named.                   *)
EXTENDS Sequences, SequencesExt, FiniteSets, Naturals

Listed(found, id) == [found EXCEPT !.order = IF id \in Range(@) THEN @ ELSE Append(@, id)]

RECURSIVE Walk(_, _, _, _, _), WalkAll(_, _, _, _, _)

(* found is what the walk has: the objects visited, the ids in the order    *)
(* they were first named, and the cycles met.                               *)
Walk(graph, start, current, path, found) ==
  IF current \in Range(path)
  THEN LET first == SelectInSeq(path, LAMBDA id : id = current)
       IN  [found EXCEPT !.cycles = Append(@, SubSeq(path, first, Len(path)) \o <<current>>)]
  ELSE IF current \in found.visited THEN found
  ELSE LET here == [found EXCEPT !.visited = @ \cup {current}]
       IN  IF current \notin DOMAIN graph THEN here
           ELSE WalkAll(graph, start, graph[current], Append(path, current), here)

WalkAll(graph, start, deps, path, found) ==
  IF deps = <<>> THEN found
  ELSE LET dep == Head(deps)
           named == IF dep = start THEN found ELSE Listed(found, dep)
       IN  WalkAll(graph, start, Tail(deps), path, Walk(graph, start, dep, path, named))

TransitiveDependencies(graph, start) ==
  Walk(graph, start, start, <<>>, [visited |-> {}, order |-> <<>>, cycles |-> <<>>])

------------------------------------------------------------------------------
(* What it means: the ids that paths of at least one edge lead to.          *)
Edges(graph) == UNION {{a} \X Range(graph[a]) : a \in DOMAIN graph}

Reached(graph, from) ==
  LET edges == Edges(graph)
      Targets(ids) == {e[2] : e \in {d \in edges : d[1] \in ids}}
      grown[n \in Nat] ==
        IF n = 0 THEN Targets({from}) ELSE LET before == grown[n - 1] IN before \cup Targets(before)
  IN  grown[Cardinality(DOMAIN graph)]

(* The walk names every object that the start depends on, directly or not,  *)
(* once and without itself, and meets a cycle exactly if one can be reached *)
(* from it; each cycle it reports is one.                                   *)
WalksTheGraph(graph, start) ==
  LET found == TransitiveDependencies(graph, start)
      near == {start} \cup Reached(graph, start)
  IN  /\ Range(found.order) = Reached(graph, start) \ {start}
      /\ IsInjective(found.order)
      /\ (found.cycles # <<>>) <=> \E a \in near : a \in Reached(graph, a)
      /\ \A c \in Range(found.cycles) :
           /\ c[1] = c[Len(c)]
           /\ \A i \in 1..(Len(c) - 1) : <<c[i], c[i + 1]>> \in Edges(graph)
=============================================================================
