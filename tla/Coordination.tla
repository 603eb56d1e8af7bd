---------------------------- MODULE Coordination ----------------------------
(***************************************************************************)
(* Groups of wallets that move alike (src/smartmoney/coordination.ts).     *)
(* Which wallets hold enough coins to be compared, and which pairs of them *)
(* are similar enough, is data: the link set of an answer.                 *)
(***************************************************************************)
EXTENDS Integers, Sequences, FiniteSets, Selections

\* The wallets met on the way up from x, for as many steps as there are wallets.
ascent(parent, x) ==
    LET up[n \in 0 .. Cardinality(DOMAIN parent)] ==
            IF n = 0 THEN x ELSE parent[up[n - 1]]
    IN  up

\* find: the root of a wallet.
root(parent, x) == ascent(parent, x)[Cardinality(DOMAIN parent)]

\* The wallets from x up to its root.
path(parent, x) == {ascent(parent, x)[n] : n \in 0 .. Cardinality(DOMAIN parent)}

\* find, with path compression: every wallet of the path points at the root.
compress(parent, x) ==
    [w \in DOMAIN parent |-> IF w \in path(parent, x) THEN root(parent, x) ELSE parent[w]]

\* union: the root of x points at the root of y.
union(parent, x, y) ==
    LET found == compress(compress(parent, x), y)
    IN  [found EXCEPT ![root(found, x)] = root(found, y)]

\* detectCoordination, before its loops: every wallet is its own root.
alone(wallets) == [w \in {wallets[i] : i \in DOMAIN wallets} |-> w]

\* The similar pairs in the order of the two loops.
linkedPairs(wallets, linked) ==
    LET n == Len(wallets)
        i(k) == (k - 1) \div n + 1
        j(k) == ((k - 1) % n) + 1
    IN  pick([k \in 1 .. n * n |-> <<wallets[i(k)], wallets[j(k)]>>],
             {k \in 1 .. n * n : i(k) < j(k) /\ {wallets[i(k)], wallets[j(k)]} \in linked})

\* ... and after them: the groups of two or more wallets with one root.
clusters(parent) ==
    LET all == DOMAIN parent
        group(w) == {v \in all : root(parent, v) = root(parent, w)}
    IN  {g \in {group(w) : w \in all} : Cardinality(g) >= 2}

\* The clusters are the connected components of the linked pairs, whatever the
\* order of the joins and the compressions (coordination.ts, detectCoordination).
ClustersAreComponents(parent, linked) ==
    LET all == DOMAIN parent
        closed(S) == \A v \in S, u \in all : {v, u} \in linked => u \in S
        component(w) == {v \in all : \A S \in SUBSET all : w \in S /\ closed(S) => v \in S}
    IN  clusters(parent)
          = {g \in {component(w) : w \in all} : Cardinality(g) >= 2}
==============================================================================
