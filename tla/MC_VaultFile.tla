---------------------------- MODULE MC_VaultFile ----------------------------
(* VaultFile for TLC. *)
EXTENDS VaultFile, FiniteSets, TLC

\* Processes, origins and variables are interchangeable; so are paths.
Symmetry ==
    Permutations(Procs) \cup Permutations(Origins) \cup Permutations(Paths)
        \cup Permutations(Vars)

\* What a state is about: the variables that have or had a value or that an
\* operation names, and the files that exist, are locked or are saved to.
UsedVars ==
    UNION {DOMAIN job[p].change : p \in {q \in Procs : job[q] # None}}
        \cup {v \in Vars : \E content \in ({file[path] : path \in Paths}
                                             \cup {vault[p] : p \in Procs}) \ {None} :
                              v \in DOMAIN content.vals /\ content.vals[v] # None}

UsedPaths ==
    {path \in Paths : file[path] # None \/ writer[path] # None}
        \cup {save[p].path : p \in {q \in Procs : save[q] # None}}

\* The bound: two variables in one file, or one variable in two files.
Within ==
    \/ Cardinality(UsedVars) <= 1
    \/ Cardinality(UsedPaths) <= 1 /\ Cardinality(minted) <= 1

BoundedSpec == Init /\ [][Next /\ Within']_vars
==============================================================================
