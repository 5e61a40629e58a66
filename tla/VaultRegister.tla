---------------------------- MODULE VaultRegister ----------------------------
(***************************************************************************)
(* What `sshenv_vault` promises to the users of a vault file: every path is *)
(* a compare-and-swap register.  A user sees a whole content or nothing,    *)
(* and replaces the content of a path only if it is the one this user saw   *)
(* last, or creates the file where there is none.  Locks, temporary files   *)
(* and digests are VaultFile's business, which implements this module.      *)
(***************************************************************************)
CONSTANTS
    Procs,      \* the users of the library
    Paths,      \* the vault files
    Contents,   \* what a vault file can hold
    None        \* no file; nothing seen

VARIABLES
    reg,        \* reg[path]: the content of a path, or None
    view        \* view[p]: the content p saw or wrote last, or None

vars == <<reg, view>>

Init ==
    /\ reg  = [path \in Paths |-> None]
    /\ view = [p \in Procs |-> None]

\* p reads an existing file.
Observe(p, path) ==
    /\ reg[path] # None
    /\ view' = [view EXCEPT ![p] = reg[path]]
    /\ UNCHANGED reg

\* p gives up what it saw: it closes its vault, or it dies.
Forget(p) ==
    /\ view' = [view EXCEPT ![p] = None]
    /\ UNCHANGED reg

\* p swaps in a new content for the one it saw, or creates the file.  p may
\* fail to learn that its own write took place.
CompareAndSwap(p, path, new) ==
    /\ reg[path] \in {view[p], None}
    /\ reg' = [reg EXCEPT ![path] = new]
    /\ view' \in {view, [view EXCEPT ![p] = new]}

Next ==
    \E p \in Procs :
        \/ Forget(p)
        \/ \E path \in Paths :
              \/ Observe(p, path)
              \/ \E new \in Contents : CompareAndSwap(p, path, new)

Spec == Init /\ [][Next]_vars
==============================================================================
