-------------------------- MODULE MC_ClosureChains --------------------------
EXTENDS ClosureChains

\* Four vertices: components of one to four vertices, self-loops, and
\* condensations such as the diamond 0->1, 0->2, 1->3, 2->3, which splits
\* into two chains that meet again, the case where a successor set is
\* inherited through a vertex of another chain.
MC_V == 0..3

\* Graphs of at most MaxEdges edges: this includes the diamond, the 4-cycle,
\* two 2-cycles joined by an edge, the diamond with a shortcut 0->3, and a
\* 4-cycle with a chord.
MC_MaxEdges == 5
=============================================================================
