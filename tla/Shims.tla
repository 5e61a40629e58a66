-------------------------------- MODULE Shims --------------------------------
(***************************************************************************)
(* Bindings and shims: bindings.toml, the fragments of bindings.d, and a   *)
(* script per bound command in the shim directory, which the commands      *)
(* regenerate after each change.  Nothing is locked, and a command may     *)
(* stop between its writes.                                                *)
(***************************************************************************)
EXTENDS FiniteSets, Functions

CONSTANTS ShimProcs,               \* commands that run at a time
          ShimProfiles, ShimCommands,
          ShimDirs,                \* what bindings.toml and bindings.d may set as shim_dir
          Absent                   \* no file, no directory

Dirs == {"home", "custom"}         \* "home": $SSHENV_SHIM_DIR or ~/.sshenv/bin

ASSUME AbsentAssumption == ShimProfiles \cap {Absent, "foreign"} = {}
ASSUME DirsAssumption   == ShimDirs \subseteq [primary : Dirs \cup {Absent}, fragment : Dirs \cup {Absent}]

VARIABLES primary,                 \* bindings.toml: command -> profile
          fragment,                \* what bindings.d adds
          dirs,                    \* the shim_dir each of them sets
          files,                   \* directory -> command -> what the file is
          doing,                   \* what each command is at
          trusted                  \* history: see Trusted

shimVars == <<primary, fragment, dirs, files, doing, trusted>>

Contents == ShimProfiles \cup {"foreign", Absent}
Bindings == UNION {[C -> ShimProfiles] : C \in SUBSET ShimCommands}

ResolveDir(dir) == IF dir = Absent THEN "home" ELSE dir
PrimaryDir == ResolveDir(dirs.primary)
MergedDir  == ResolveDir(IF dirs.fragment = Absent THEN dirs.primary ELSE dirs.fragment)

\* load_bindings_merged: no two profiles for one command.
Conflict == \E c \in DOMAIN primary \cap DOMAIN fragment : primary[c] # fragment[c]
Merged   == [c \in DOMAIN primary \cup DOMAIN fragment |->
               IF c \in DOMAIN primary THEN primary[c] ELSE fragment[c]]

-----------------------------------------------------------------------------
(* BindingsFile: what an operation makes of the bindings; a set that is      *)
(* empty is an error.                                                        *)

Bound(b, p, c)   == [d \in DOMAIN b \cup {c} |-> IF d = c THEN p ELSE b[d]]

Unbound(b, c)    == Restrict(b, DOMAIN b \ {c})

Recommanded(b, c, to) ==
  IF to \in DOMAIN b \/ c \notin DOMAIN b THEN {} ELSE {Unbound(Bound(b, b[c], to), c)}

Reprofiled(b, from, to) == [c \in DOMAIN b |-> IF b[c] = from THEN to ELSE b[c]]

Op(kind, x, y) == [kind |-> kind, x |-> x, y |-> y]
Ops ==
  {Op("bind", p, c) : p \in ShimProfiles, c \in ShimCommands}
    \cup {Op("unbind", c, c) : c \in ShimCommands}
    \cup {Op("rename", c, to) : c, to \in ShimCommands}
    \cup {Op("reprofile", p, to) : p, to \in ShimProfiles}

Changed(b, op) ==
  CASE op.kind = "bind"      -> IF op.y \in DOMAIN b /\ b[op.y] # op.x THEN {} ELSE {Bound(b, op.x, op.y)}
    [] op.kind = "unbind"    -> {Unbound(b, op.x)}
    [] op.kind = "rename"    -> IF op.x = op.y THEN {b} ELSE Recommanded(b, op.x, op.y)
    [] op.kind = "reprofile" -> {Reprofiled(b, op.x, op.y)}

-----------------------------------------------------------------------------
(* The commands.                                                             *)

Idle == [at |-> "idle", sync |-> FALSE, view |-> <<>>, todo |-> {}, alone |-> FALSE]
NobodyElse(s) == \A t \in ShimProcs \ {s} : doing[t].at = "idle"

ShimInit ==
  /\ primary = <<>>
  /\ fragment \in {b \in Bindings : Cardinality(DOMAIN b) <= 1}
  /\ dirs \in ShimDirs
  /\ files \in {[d \in Dirs |-> [c \in ShimCommands |-> IF c = f THEN "foreign" ELSE Absent]] :
                  f \in ShimCommands \cup {Absent}}
  /\ doing = [s \in ShimProcs |-> Idle]
  /\ trusted = TRUE

Begins(s, next) ==
  /\ doing[s].at = "idle"
  /\ doing' = [t \in ShimProcs |-> IF t = s THEN [next EXCEPT !.alone = NobodyElse(s)]
                                            ELSE [doing[t] EXCEPT !.alone = FALSE]]
  /\ trusted' = (trusted /\ NobodyElse(s))
  /\ UNCHANGED <<primary, fragment, dirs, files>>

\* bindings.toml, and no fragment, is read and changed in memory.  An error, or
\* nothing to change, ends the command; a `bind` of what is bound saves all the
\* same and writes no shims.
Change(s, op) ==
  \E b \in Changed(primary, op) :
    /\ b # primary \/ op.kind = "bind"
    /\ Begins(s, [Idle EXCEPT !.at = IF b = primary THEN "resave" ELSE "save",
                             !.view = b, !.todo = IF b = primary THEN {} ELSE DOMAIN b])

Sync(s) ==
  /\ ~Conflict
  /\ Begins(s, [Idle EXCEPT !.at = "write", !.sync = TRUE, !.view = Merged, !.todo = DOMAIN Merged])

Ends(s) == doing' = [doing EXCEPT ![s] = Idle]

SaveBindings(s) ==
  /\ doing[s].at \in {"save", "resave"}
  /\ primary' = doing[s].view
  /\ IF doing[s].at = "resave" THEN Ends(s) ELSE doing' = [doing EXCEPT ![s].at = "write"]
  /\ UNCHANGED <<fragment, dirs, files, trusted>>

SyncDir(s) == IF doing[s].sync THEN MergedDir ELSE PrimaryDir

(* Mutant: a shim that is there is not written again. *)
WriteMissingShim(s) ==
  /\ doing[s].at = "write"
  /\ \E c \in doing[s].todo :
       /\ files' = [files EXCEPT ![SyncDir(s)][c] = IF @ = Absent THEN doing[s].view[c] ELSE @]
       /\ doing' = [doing EXCEPT ![s].todo = @ \ {c}]
  /\ UNCHANGED <<primary, fragment, dirs, trusted>>

\* sync_shims, first half: a script for each binding, each put in place whole.
WriteShim(s) ==
  /\ doing[s].at = "write"
  /\ \E c \in doing[s].todo :
       /\ files' = [files EXCEPT ![SyncDir(s)][c] = doing[s].view[c]]
       /\ doing' = [doing EXCEPT ![s].todo = @ \ {c}]
  /\ UNCHANGED <<primary, fragment, dirs, trusted>>

Managed(content) == content \in ShimProfiles

(* Mutant: every file that no binding wants is taken away. *)
UnwantedFiles(dir, b) == {c \in ShimCommands \ DOMAIN b : files[dir][c] # Absent}

(* Mutant: shims are written and none is taken away. *)
UnwantedKept(dir, b) == {}

Unwanted(dir, b) == {c \in ShimCommands \ DOMAIN b : Managed(files[dir][c])}

\* The second half: managed shims without a binding go.  A `sync` that had the
\* files for itself from beginning to end can be relied on again.
RemoveStale(s) ==
  /\ doing[s].at = "write"
  /\ doing[s].todo = {}
  /\ LET gone == Unwanted(SyncDir(s), doing[s].view)
     IN  files' = [files EXCEPT ![SyncDir(s)] = [c \in ShimCommands |-> IF c \in gone THEN Absent
                                                                                    ELSE @[c]]]
  /\ Ends(s)
  /\ trusted' = (trusted \/ (doing[s].sync /\ doing[s].alone))
  /\ UNCHANGED <<primary, fragment, dirs>>

Stop(s) ==
  /\ doing[s].at # "idle"
  /\ Ends(s)
  /\ trusted' = FALSE
  /\ UNCHANGED <<primary, fragment, dirs, files>>

ShimNext ==
  \E s \in ShimProcs :
    \/ \E op \in Ops : Change(s, op)
    \/ Sync(s) \/ SaveBindings(s) \/ WriteShim(s) \/ RemoveStale(s) \/ Stop(s)

ShimSpec == ShimInit /\ [][ShimNext]_shimVars

-----------------------------------------------------------------------------
(* run: the command is looked up on PATH, past the shim directory.           *)

\* current_shim_dir: bindings that cannot be merged are none at all.
CurrentShimDir == IF Conflict THEN "home" ELSE MergedDir

\* Where `run` finds c, with the shim directory at the front of PATH.
Target(c, path) == IF path # CurrentShimDir /\ files[path][c] # Absent THEN <<path, c>>
                                                                       ELSE <<"outside", c>>

-----------------------------------------------------------------------------
\* "Unrelated files in the shim directory are left alone": a file that is no shim
\* is replaced only when a command that is being carried out binds its name.
OtherFilesStay ==
  [][\A d \in Dirs, c \in ShimCommands :
       files[d][c] = "foreign" /\ files'[d][c] # "foreign"
         => \E s \in ShimProcs : c \in DOMAIN doing[s].view
    ]_shimVars

\* What the shims can be trusted for: commands one at a time, none stopped half
\* way, or a `shims sync` alone after the last time that was not so.  Then no shim
\* runs a command under a profile it is not bound to, and none is left of a
\* binding that was renamed or removed.
ShimsFollowBindings ==
  trusted /\ PrimaryDir = MergedDir =>
    \A s \in ShimProcs : doing[s].at = "idle" /\ NobodyElse(s) =>
      \A c \in ShimCommands :
        /\ Managed(files[PrimaryDir][c]) =>
             \E b \in {primary, fragment} : c \in DOMAIN b /\ files[PrimaryDir][c] = b[c]
        /\ c \in DOMAIN primary => files[PrimaryDir][c] = primary[c]

\* A sync that ends alone leaves a shim for everything that is bound, whatever
\* was lost or stopped before it.
SyncRepairs ==
  [][\A s \in ShimProcs :
       doing[s].sync /\ doing[s].at = "write" /\ doing[s].alone
           /\ doing'[s].at = "idle" /\ trusted'
         => \A c \in DOMAIN Merged : files'[MergedDir][c] = Merged[c]
    ]_shimVars

\* "This prevents infinite loops where a shim [...] would re-invoke itself": with
\* the directory of the shims in front, run never finds a shim.
RunSkipsShims ==
  \A c \in ShimCommands :
    LET found == Target(c, MergedDir) IN found[1] \in Dirs => ~Managed(files[found[1]][c])
==============================================================================
