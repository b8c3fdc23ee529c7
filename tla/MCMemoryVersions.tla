-------------------------- MODULE MCMemoryVersions --------------------------
(* Small instances of MemoryVersions for TLC. *)
EXTENDS MemoryVersions, TLC

CONSTANTS f, c1, c2

Create(k, s, replaces) ==
    [op |-> "create", key |-> k, status |-> s, fact |-> f, replaces |-> replaces]
Update(m, k, v, corrects, s, fact, replaces) ==
    [op |-> "update", m |-> m, key |-> k, expects |-> v, corrects |-> corrects,
     status |-> s, fact |-> fact, replaces |-> replaces]

\* Creations, corrections, activations, replacements both ways, a change of the fact.
MCRequests ==
    {Create(k, s, 0) : k \in {"k1", "k2"}, s \in {"candidate", "active"}}
    \cup {Create("k2", "active", m) : m \in Memories}
    \cup {Update(m, k, v, TRUE, "keep", "keep", 0) : m \in {1}, k \in {"k2", "k3"}, v \in {1, 2}}
    \cup {Update(m, "k3", 1, FALSE, "active", f, n) : m \in Memories, n \in Memories \cup {0}}
    \cup {Update(m, "k3", 1, TRUE, "active", "keep", 0) : m \in {1}}
    \cup {Update(m, "k3", 1, FALSE, s, "keep", 0) : m \in {1}, s \in {"rejected"}}
    \cup {Update(m, "k2", 1, FALSE, "keep", NoFact, 0) : m \in {1}}
    \cup {[op |-> "delete", m |-> m] : m \in Memories}

Symmetry == Permutations({c1, c2})
=============================================================================
