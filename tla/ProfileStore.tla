---------------------------- MODULE ProfileStore ----------------------------
(***************************************************************************)
(* What a vault promises its user, without keys, factors or files: a map   *)
(* from profiles to variables, changed one command at a time.  It states   *)
(* what the commands of sshenv say they do; VaultCommands is shown to      *)
(* implement it.  The library's replace_profile, which may overwrite       *)
(* anything with anything, is not among them.                              *)
(***************************************************************************)
EXTENDS Functions

CONSTANTS Profiles,   \* names of profiles
          Vars,       \* names of variables
          Values      \* secret values

VARIABLE store        \* the variables of every profile that exists

Empty == <<>>

At(f, p)     == IF p \in DOMAIN f THEN f[p] ELSE Empty
Drop(f, p)   == Restrict(f, DOMAIN f \ {p})
Put(f, p, x) == [q \in DOMAIN f \cup {p} |-> IF q = p THEN x ELSE f[q]]

(***************************************************************************)
(* The store s after an operation.  A profile that loses its last variable *)
(* is removed.                                                             *)
(***************************************************************************)
AfterSet(s, p, x, v) == Put(s, p, Put(At(s, p), x, v))
AfterUnset(s, p, x) ==
  LET rest == Drop(At(s, p), x) IN IF rest = Empty THEN Drop(s, p) ELSE Put(s, p, rest)
AfterRename(s, p, q) == Put(Drop(s, p), q, At(s, p))

Init == store = Empty

Set(p, x, v)     == store' = AfterSet(store, p, x, v)
Unset(p, x)      == x \in DOMAIN At(store, p) /\ store' = AfterUnset(store, p, x)
Remove(p)        == p \in DOMAIN store /\ store' = Drop(store, p)
Rename(p, q)     == /\ p \in DOMAIN store /\ q \notin DOMAIN store
                    /\ store' = AfterRename(store, p, q)

Next ==
  \E p \in Profiles :
    \/ \E x \in Vars : Unset(p, x) \/ \E v \in Values : Set(p, x, v)
    \/ Remove(p)
    \/ \E q \in Profiles : Rename(p, q)

Spec == Init /\ [][Next]_store
=============================================================================
