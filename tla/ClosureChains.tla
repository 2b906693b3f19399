---------------------------- MODULE ClosureChains ----------------------------
(***************************************************************************)
(* The transitive closure of the dataflow graph, as computed by            *)
(* ossia::transitive_closure (src/ossia/dataflow/graph/transitive_closure  *)
(* .hpp): strongly connected components, the condensation graph CG, a      *)
(* topological order of CG, a greedy decomposition of CG into chains, the  *)
(* per-chain successor minima, and the edges of the closure graph tc.      *)
(*                                                                         *)
(* A condensation vertex (cg_vertex) is a component number, 1-based.       *)
(* The components buffer of TransitiveClosureState is state: it is reused  *)
(* from one call to the next, as the caller keeps the state object.        *)
(* boost's topological_sort returns one order; the model *)
(* computes the closure under EVERY topological order of CG, so whatever  *)
(* order boost returns is among those checked.  Topological numbers are    *)
(* 1-based here (0-based in the code); inf is any number above them.       *)
(*                                                                         *)
(* The state machine around the algorithm is the caller: the graph g is    *)
(* edited one edge at a time and the closure tc is recomputed after every  *)
(* edit.                                                                   *)
(***************************************************************************)
EXTENDS Naturals, Sequences, FiniteSets, SequencesExt, FiniteSetsExt

CONSTANTS
    V,              \* the vertices of g (boost vecS vertex indices)
    MaxEdges        \* bound on the edges of g, to keep each closure cheap

ASSUME V # {} /\ V \subseteq Nat  \* an empty graph returns at once

VARIABLES
    g,              \* the edges of the graph handed to transitive_closure
    tc,             \* the edges of the closure graph it produced
    thrown,         \* topological_sort threw not_a_dag (tc left with no edges)
    components      \* state.components: the vertices of each component

vars == <<g, tc, thrown, components>>

-----------------------------------------------------------------------------
(* strong_components: scc[v] is the component of v, as the set of its     *)
(* vertices.                                                               *)

RECURSIVE ReachFrom(_, _)
ReachFrom(S, E) ==
    LET S2 == S \cup {t \in V : \E s \in S : <<s, t>> \in E}
    IN  IF S2 = S THEN S ELSE ReachFrom(S2, E)

SccOf(E) ==
    [v \in V |-> {u \in ReachFrom({v}, E) : v \in ReachFrom({u}, E)}]

(* The components, numbered 1..num_scc.  boost numbers them in the order   *)
(* Tarjan's search completes them; the model numbers them by least vertex. *)
(* The numbering only decides which old entry of the buffer a component   *)
(* lands on; whether old entries are cleared does not depend on it.        *)
SccList(E) ==
    LET scc == SccOf(E)
    IN  SetToSortSeq({scc[v] : v \in V}, LAMBDA a, b : Min(a) < Min(b))

ComponentNumber(list) == [v \in V |-> CHOOSE i \in DOMAIN list : v \in list[i]]

\* mutant: the old inner vectors are kept
ResizeAndFillNoClear(vec, N) ==
    [i \in 1..N |-> IF i <= Len(vec) THEN vec[i] ELSE {}]

(* resize_and_fill(vector<vector<T>>&, N): resize to N (new inner vectors  *)
(* are empty), then clear the first min(cur, N) inner vectors.            *)
ResizeAndFill(vec, N) ==
    LET resized == [i \in 1..N |-> IF i <= Len(vec) THEN vec[i] ELSE {}]
    IN  [i \in 1..N |-> IF i <= Min({Len(vec), N}) THEN {} ELSE resized[i]]

(* boost::build_component_lists: push_back every vertex onto the list of  *)
(* its component, after whatever the list already holds.                   *)
BuildComponentLists(buf, cn) ==
    [i \in DOMAIN buf |-> buf[i] \cup {v \in V : cn[v] = i}]

(* The edges of the condensation graph: for each component s, the         *)
(* components of the successors of the vertices in components[s], except  *)
(* s itself ("if(s != t)"; duplicates removed).                           *)
CondensationNoLoopCheck(E, comp, cn) ==
    UNION {{<<s, cn[e[2]]>> : e \in {d \in E : d[1] \in comp[s]}} :
               s \in DOMAIN comp}

Condensation(E, comp, cn) ==
    UNION {{<<s, cn[e[2]]>> : e \in {d \in E : d[1] \in comp[s] /\ cn[d[2]] # s}} :
               s \in DOMAIN comp}

(* topological_sort followed by std::reverse: the orders of the CG         *)
(* vertices in which every CG edge points forward.  An edge from a vertex  *)
(* to itself admits no order: boost throws not_a_dag.                      *)
TopoOrders(cs, ce) ==
    {o \in SetToSeqs(cs) :
        \A i, j \in DOMAIN o : <<o[i], o[j]>> \in ce => i < j}

TopoNumber(o) == [c \in ToSet(o) |-> CHOOSE i \in DOMAIN o : o[i] = c]

(* CG_vec[c]: the CG successors of c sorted by topological number.        *)
CGVec(ce, o) ==
    LET topo == TopoNumber(o)
    IN  [c \in ToSet(o) |->
            SortSeq(SetToSeq({d \in ToSet(o) : <<c, d>> \in ce}),
                    LAMBDA a, b : topo[a] < topo[b])]

-----------------------------------------------------------------------------
(* The chain decomposition.  A chain starts at the first vertex (in        *)
(* topological order) not yet in a chain and follows, from each vertex,    *)
(* its first successor not yet in a chain.                                 *)

RECURSIVE FollowChain(_, _, _)
FollowChain(v, marked, adj) ==
    LET inChain == marked \cup {v}
        free    == SelectSeq(adj[v], LAMBDA w : w \notin inChain)
    IN  IF free = <<>> THEN <<v>>
                       ELSE <<v>> \o FollowChain(Head(free), inChain, adj)

RECURSIVE BuildChains(_, _, _, _)
BuildChains(rest, marked, chains, adj) ==
    IF rest = <<>> THEN chains
    ELSE LET v == Head(rest)
         IN  IF v \in marked
             THEN BuildChains(Tail(rest), marked, chains, adj)
             ELSE LET c == FollowChain(v, marked, adj)
                  IN  BuildChains(Tail(rest), marked \cup ToSet(c),
                                  Append(chains, c), adj)

ChainNumber(chains) ==
    [v \in UNION {ToSet(c) : c \in ToSet(chains)} |->
        CHOOSE i \in DOMAIN chains : v \in ToSet(chains[i])]

PosInChain(chains) ==
    [v \in UNION {ToSet(c) : c \in ToSet(chains)} |->
        LET c == chains[ChainNumber(chains)[v]]
        IN  CHOOSE j \in DOMAIN c : c[j] = v]

-----------------------------------------------------------------------------
(* Successor sets: successors[u][k] is the least topological number of a  *)
(* vertex of chain k reachable from u, or inf.                             *)

Inf(o) == Len(o) + 1

UnionSuccessorSets(s1, s2) == [k \in DOMAIN s1 |-> Min({s1[k], s2[k]})]

(* The scan of CG_vec[u] in the successor loop: a successor v that lies    *)
(* earlier on its chain than what u already reaches there adds its own    *)
(* successor set and itself.                                               *)
RECURSIVE ScanAdjNoUnion(_, _, _, _, _)
ScanAdjNoUnion(u, adj, suc, topo, chainOf) ==
    IF adj = <<>> THEN suc
    ELSE LET v == Head(adj)
             k == chainOf[v]
         IN  IF topo[v] < suc[u][k]
             THEN ScanAdjNoUnion(u, Tail(adj), [suc EXCEPT ![u][k] = topo[v]],
                                 topo, chainOf)
             ELSE ScanAdjNoUnion(u, Tail(adj), suc, topo, chainOf)

RECURSIVE ScanAdj(_, _, _, _, _)
ScanAdj(u, adj, suc, topo, chainOf) ==
    IF adj = <<>> THEN suc
    ELSE LET v == Head(adj)
             k == chainOf[v]
         IN  IF topo[v] < suc[u][k]
             THEN ScanAdj(u, Tail(adj),
                          [suc EXCEPT ![u] =
                              [UnionSuccessorSets(suc[u], suc[v])
                                  EXCEPT ![k] = topo[v]]],
                          topo, chainOf)
             ELSE ScanAdj(u, Tail(adj), suc, topo, chainOf)

(* The loop over topo_order in reverse: when u is scanned, every v after  *)
(* it in the order already has its final successor set.                    *)
RECURSIVE SuccessorSweep(_, _, _, _, _)
SuccessorSweep(rev, suc, adj, topo, chainOf) ==
    IF rev = <<>> THEN suc
    ELSE SuccessorSweep(Tail(rev),
                        ScanAdj(Head(rev), adj[Head(rev)], suc, topo, chainOf),
                        adj, topo, chainOf)

Successors(o, adj, chains) ==
    SuccessorSweep(Reverse(o),
                   [c \in ToSet(o) |-> [k \in DOMAIN chains |-> Inf(o)]],
                   adj, TopoNumber(o), ChainNumber(chains))

(* CG_vec rebuilt as the closure of CG: for every chain u reaches, the    *)
(* suffix of that chain from the first vertex reached.                     *)
ClosureCG(o, chains, suc) ==
    LET pos == PosInChain(chains)
    IN  [c \in ToSet(o) |->
            UNION {LET v == o[suc[c][j]]
                   IN  ToSet(SubSeq(chains[j], pos[v], Len(chains[j]))) :
                       j \in {k \in DOMAIN chains :
                                /\ suc[c][k] < Inf(o)
                                /\ Len(chains[k]) >= pos[o[suc[c][k]]]}}]

(* The edges added to tc: component x component along the closure of CG,  *)
(* every pair inside a component of more than one vertex, and the self-    *)
(* loop of a vertex that is alone in its component and has one in g.       *)
(* g_to_tc_map[v] = add_vertex(tc): tc is handed in without vertices, so  *)
(* vertex v of g becomes vertex v of tc.                                   *)
ToTcStale(v) == v + Cardinality(V)

ToTc(v) == v

TcEdges(E, comp, cn, cg) ==
    LET edges == UNION {UNION {comp[s] \X comp[t] : t \in cg[s]} : s \in DOMAIN comp}
                 \cup UNION {comp[i] \X comp[i] :
                               i \in {x \in DOMAIN comp : Cardinality(comp[x]) > 1}}
                 \cup {<<v, v>> : v \in {x \in V : <<x, x>> \in E
                                                  /\ Cardinality(comp[cn[x]]) = 1}}
    IN  {<<ToTc(e[1]), ToTc(e[2])>> : e \in edges}

(* transitive_closure(g, tc, state): the closures it can produce, one per  *)
(* order topological_sort may return, or the not_a_dag exception, which    *)
(* is thrown after state.components was refilled.                          *)
TransitiveClosureOf(E, buf) ==
    LET list   == SccList(E)
        cn     == ComponentNumber(list)
        comp   == BuildComponentLists(ResizeAndFill(buf, Len(list)), cn)
        ce     == Condensation(E, comp, cn)
        orders == TopoOrders(DOMAIN comp, ce)
    IN  IF orders = {} THEN {[edges |-> {}, thrown |-> TRUE, components |-> comp]}
        ELSE {LET adj    == CGVec(ce, o)
                  chains == BuildChains(o, {}, <<>>, adj)
                  cg     == ClosureCG(o, chains, Successors(o, adj, chains))
              IN  [edges |-> TcEdges(E, comp, cn, cg), thrown |-> FALSE,
                   components |-> comp] :
                  o \in orders}

-----------------------------------------------------------------------------
(* The caller: an edge of the graph is added or removed, and the closure  *)
(* is recomputed.                                                          *)

Init == g = {} /\ tc = {} /\ thrown = FALSE /\ components = <<>>

Recompute(E) ==
    \E r \in TransitiveClosureOf(E, components) :
        tc' = r.edges /\ thrown' = r.thrown /\ components' = r.components

AddEdge(e) ==
    /\ e \notin g
    /\ Cardinality(g) < MaxEdges
    /\ g' = g \cup {e}
    /\ Recompute(g')

RemoveEdge(e) ==
    /\ e \in g
    /\ g' = g \ {e}
    /\ Recompute(g')

Next == \E e \in V \X V : AddEdge(e) \/ RemoveEdge(e)

Spec == Init /\ [][Next]_vars

-----------------------------------------------------------------------------
LOCAL Rel == INSTANCE Relation

TypeOK ==
    /\ g \subseteq V \X V
    /\ tc \subseteq V \X V
    /\ thrown \in BOOLEAN
    /\ components \in Seq(SUBSET V)

(* The closure transitive_closure produces is the transitive closure of g  *)
(* (Relation!TransitiveClosure), whatever topological order boost picks:   *)
(* no edge of the chain-decomposition shortcut is lost or invented, and    *)
(* the condensation never has a cycle that would make topological_sort     *)
(* throw.  It holds on every call, after calls on other graphs left their *)
(* components in the reused state buffer.                                  *)
ClosureIsTransitiveClosure ==
    LET R == Rel!TransitiveClosure([p \in V \X V |-> p \in g], V)
    IN  ~thrown /\ tc = {p \in V \X V : R[p]}
=============================================================================
